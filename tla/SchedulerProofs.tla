--------------------------- MODULE SchedulerProofs --------------------------
(***************************************************************************)
(* Theorems about Scheduler for every value of its constants: types, the   *)
(* agreement of table and jobs, the limit of serial channels, that the     *)
(* scheduler implements the book of tasks, and that a cancelled task falls *)
(* silent; all of it with commits that fail and stay open.                 *)
(***************************************************************************)
EXTENDS Scheduler, FiniteSetTheorems, TLAPS

-----------------------------------------------------------------------------
(* What a write does to the table.                                         *)

LEMMA ViewWithin ==
  ASSUME SchedulerAssumption, TypeOK, NEW p \in Procs
  PROVE  View(p) \subseteq rows \cup draft /\ View(p) \subseteq Tasks
BY DEF View, TypeOK, SchedulerAssumption

LEMMA WriteWithin ==
  ASSUME SchedulerAssumption, TypeOK, NEW p \in Procs, NEW S \in SUBSET Tasks,
         Commits(p, S) \/ StaysOpen(p, S) \/ Fails(p)
  PROVE  /\ rows' \cup draft' \subseteq rows \cup draft \cup S
         /\ created' \cup draft' \subseteq created \cup draft \cup S
         /\ rows' \subseteq created' /\ created \subseteq created' /\ created' \subseteq Tasks
         /\ \/ writer' = Nobody /\ draft' = {}
            \/ writer' = writer /\ draft' = draft
            \/ writer' = p /\ draft' \subseteq Tasks
<1>1. CASE Commits(p, S) BY <1>1 DEF Commits, NothingOpen, TypeOK
<1>2. CASE StaysOpen(p, S) BY <1>2 DEF StaysOpen, TypeOK
<1>3. CASE Fails(p) BY <1>3 DEF Fails, NothingOpen, TypeOK
<1>4. QED BY <1>1, <1>2, <1>3

\* The table part of TypeOK.
TableTyped ==
    /\ rows \subseteq created /\ created \subseteq Tasks
    /\ \/ writer = Nobody /\ draft = {}
       \/ writer \in Procs /\ Serving(writer) /\ draft \subseteq Tasks

LEMMA WriteTyped ==
  ASSUME SchedulerAssumption, TypeOK, NEW p \in Procs, NEW S \in SUBSET Tasks,
         Commits(p, S) \/ StaysOpen(p, S) \/ Fails(p), Serving(p), mode' = mode
  PROVE  TableTyped'
<1>1. TableTyped BY DEF TypeOK, TableTyped
<1>2. QED BY <1>1, WriteWithin DEF TableTyped, Serving

-----------------------------------------------------------------------------
(* Types.                                                                  *)

LEMMA InitSchedulerTyped == ASSUME SchedulerAssumption, Init PROVE TypeOK
  BY DEF SchedulerAssumption, Init, TypeOK, InRequest, Runs

LEMMA ProcTyped ==
  ASSUME SchedulerAssumption, TypeOK, NEW p \in Procs, ProcStep(p) PROVE TypeOK'
<1> USE DEF Serving, NothingOpen, table
<1>1. CASE Start(p) BY <1>1 DEF Start, TypeOK
<1>2. CASE ListEnabled(p)
  <2>1. View(p) \subseteq Tasks BY ViewWithin
  <2>2. QED BY <1>2, <2>1 DEF ListEnabled, TypeOK
<1>3. CASE Rehydrate(p) BY <1>3 DEF Rehydrate, TypeOK
<1>4. CASE Close(p) BY <1>4 DEF Close, TypeOK, Runs
<1>5. CASE CloseStore(p) BY <1>5 DEF CloseStore, TypeOK
<1>6. CASE Stop(p)
  <2>1. req' \in [Tasks -> InRequest \cup {"idle", "refused", "crashed", "failed", "halfway",
                                           "done", "lost"}]
    BY <1>6 DEF Stop, Ends, TypeOK
  <2>2. cancel' \in [Cancels -> {"idle", "absent", "deleted", "halfway", "failed", "done", "lost"}]
    BY <1>6 DEF Stop, Ends, TypeOK
  <2>3. run' \in [Runs -> {"none", "fired", "working", "ok", "error", "telling"}]
    BY <1>6 DEF Stop, Ends, TypeOK
  <2>4. TableTyped'
    BY <1>6 DEF Stop, Ends, TypeOK, TableTyped, SchedulerAssumption
  <2>5. /\ mode' \in [Procs -> {"down", "starting", "listed", "on", "closing"}]
        /\ snapshot' \in [Procs -> SUBSET Tasks] /\ jobs' \in [Procs -> SUBSET Tasks]
    BY <1>6 DEF Stop, Ends, TypeOK
  <2>6. QED BY <2>1, <2>2, <2>3, <2>4, <2>5 DEF TypeOK, TableTyped
<1>7. QED BY <1>1, <1>2, <1>3, <1>4, <1>5, <1>6 DEF ProcStep

LEMMA RequestTyped ==
  ASSUME SchedulerAssumption, TypeOK, RequestInv, NEW t \in Tasks, RequestStep(t)
  PROVE  TypeOK'
<1> ProcOf[t] \in Procs BY DEF SchedulerAssumption
<1>1. CASE Count(t) BY <1>1 DEF Count, TypeOK, InRequest, Serving, table
<1>2. CASE Insert(t)
  <2>1. Serving(ProcOf[t]) BY <1>2 DEF Insert, RequestInv, InRequest
  <2>2. View(ProcOf[t]) \cup {t} \subseteq Tasks BY ViewWithin
  <2>3. TableTyped' BY <1>2, <2>1, <2>2, WriteTyped DEF Insert
  <2>4. req' \in [Tasks -> InRequest \cup {"idle", "refused", "crashed", "failed", "halfway",
                                           "done", "lost"}]
    BY <1>2 DEF Insert, TypeOK, InRequest
  <2>5. QED BY <1>2, <2>3, <2>4 DEF Insert, TypeOK, TableTyped
<1>3. CASE Register(t) BY <1>3 DEF Register, TypeOK, InRequest, Serving, table
<1>4. QED BY <1>1, <1>2, <1>3 DEF RequestStep

LEMMA CancelTyped ==
  ASSUME SchedulerAssumption, TypeOK, NEW c \in Cancels, CancelStep(c) PROVE TypeOK'
<1> AtOf[c] \in Procs /\ TargetOf[c] \in Tasks BY DEF SchedulerAssumption
<1>1. CASE DeleteRow(c)
  <2>1. /\ View(AtOf[c]) \in SUBSET Tasks
        /\ View(AtOf[c]) \ {TargetOf[c]} \in SUBSET Tasks
    BY ViewWithin
  <2>2. PICK S \in SUBSET Tasks : Commits(AtOf[c], S) \/ StaysOpen(AtOf[c], S) \/ Fails(AtOf[c])
    BY <1>1, <2>1 DEF DeleteRow
  <2>3. TableTyped' BY <1>1, <2>2, WriteTyped DEF DeleteRow
  <2>4. cancel' \in [Cancels -> {"idle", "absent", "deleted", "halfway", "failed", "done", "lost"}]
    BY <1>1 DEF DeleteRow, TypeOK
  <2>5. QED BY <1>1, <2>3, <2>4 DEF DeleteRow, TypeOK, TableTyped
<1>2. CASE RemoveJob(c) BY <1>2 DEF RemoveJob, TypeOK, Serving, table
<1>3. QED BY <1>1, <1>2 DEF CancelStep

LEMMA RunTyped ==
  ASSUME SchedulerAssumption, TypeOK, StoredInv, NEW p \in Procs, NEW t \in Tasks,
         Fire(p, t) \/ RunStep(p, t)
  PROVE TypeOK'
<1> <<p, t>> \in Runs BY DEF Runs
<1> USE DEF Serving, table
<1>1. CASE Fire(p, t) BY <1>1 DEF Fire, TypeOK
<1>2. CASE ReadTask(p, t) BY <1>2 DEF ReadTask, TypeOK
<1>3. CASE Work(p, t) BY <1>3 DEF Work, TypeOK
<1>4. CASE MarkRun(p, t)
  <2>1. Serving(p) BY <1>4 DEF MarkRun, StoredInv
  <2>2. View(p) \in SUBSET Tasks BY ViewWithin
  <2>3. TableTyped' BY <1>4, <2>1, <2>2, WriteTyped DEF MarkRun
  <2>4. run' \in [Runs -> {"none", "fired", "working", "ok", "error", "telling"}]
    <3>1. run' = [run EXCEPT ![<<p, t>>] = "telling"] \/ run' = [run EXCEPT ![<<p, t>>] = "none"]
      BY <1>4 DEF MarkRun
    <3>2. QED BY <3>1 DEF TypeOK
  <2>5. UNCHANGED <<mode, snapshot, jobs, req, cancel>> BY <1>4 DEF MarkRun
  <2>6. QED BY <2>3, <2>4, <2>5 DEF TypeOK, TableTyped
<1>5. CASE Deliver(p, t) BY <1>5 DEF Deliver, TypeOK
<1>6. QED BY <1>1, <1>2, <1>3, <1>4, <1>5 DEF RunStep

LEMMA NextSchedulerTyped ==
  ASSUME SchedulerAssumption, TypeOK, RequestInv, StoredInv, [Next]_vars PROVE TypeOK'
<1>1. CASE UNCHANGED vars BY <1>1 DEF vars, table, TypeOK, Serving
<1>2. QED BY <1>1, ProcTyped, RequestTyped, CancelTyped, RunTyped DEF Next

-----------------------------------------------------------------------------
(* What a step may do to the table, as far as the invariants care.          *)

\* The row that a request writes in this step.
NewRow(t) == t \in Tasks /\ Insert(t) /\ req[t] = "counted" /\ req'[t] \in {"inserted", "halfway"}

\* Cancellations that failed at the commit stay so.
LEMMA HalfwayStays ==
  ASSUME SchedulerAssumption, TypeOK, [Next]_vars PROVE HalfCancelled \subseteq HalfCancelled'
<1>1. \A c \in Cancels : cancel[c] = "halfway" => cancel'[c] = "halfway"
  <2>1. CASE UNCHANGED vars BY <2>1 DEF vars
  <2>2. ASSUME NEW p \in Procs, ProcStep(p)
        PROVE  \A c \in Cancels : cancel[c] = "halfway" => cancel'[c] = "halfway"
    BY <2>2 DEF ProcStep, Start, ListEnabled, Rehydrate, Close, CloseStore, Stop, Ends, TypeOK
  <2>3. ASSUME NEW t \in Tasks, RequestStep(t) PROVE cancel' = cancel
    BY <2>3 DEF RequestStep, Count, Insert, Register
  <2>4. ASSUME NEW d \in Cancels, CancelStep(d)
        PROVE  \A c \in Cancels : cancel[c] = "halfway" => cancel'[c] = "halfway"
    BY <2>4 DEF CancelStep, DeleteRow, RemoveJob, TypeOK
  <2>5. ASSUME NEW p \in Procs, NEW t \in Tasks, Fire(p, t) \/ RunStep(p, t) PROVE cancel' = cancel
    BY <2>5 DEF Fire, RunStep, ReadTask, Work, MarkRun, Deliver
  <2>6. QED BY <2>1, <2>2, <2>3, <2>4, <2>5 DEF Next
<1>2. QED BY <1>1 DEF HalfCancelled

\* Only a request brings a row, stored or open, that was in neither.
LEMMA StepWithin ==
  ASSUME SchedulerAssumption, TypeOK, [Next]_vars
  PROVE  /\ \A t \in rows' \cup draft' : t \in rows \cup draft \/ NewRow(t)
         /\ \A t \in created' : t \in created \cup draft \/ NewRow(t)
         /\ created \subseteq created'
<1> DEFINE Within == /\ \A t \in rows' \cup draft' : t \in rows \cup draft \/ NewRow(t)
                     /\ \A t \in created' : t \in created \cup draft \/ NewRow(t)
                     /\ created \subseteq created'
<1> rows \subseteq created BY DEF TypeOK
<1>1. ASSUME UNCHANGED <<rows, draft, created>> PROVE Within BY <1>1
<1>2. CASE UNCHANGED vars BY <1>1, <1>2 DEF vars, table
<1>3. ASSUME NEW p \in Procs, ProcStep(p) PROVE Within
  <2>1. CASE CloseStore(p) BY <2>1 DEF CloseStore, NothingOpen
  <2>2. CASE Stop(p) BY <2>2 DEF Stop, NothingOpen
  <2>3. QED BY <1>1, <1>3, <2>1, <2>2
          DEF ProcStep, Start, ListEnabled, Rehydrate, Close, table
<1>4. ASSUME NEW t \in Tasks, RequestStep(t) PROVE Within
  <2>1. CASE Insert(t)
    <3>1. ProcOf[t] \in Procs BY DEF SchedulerAssumption
    <3>2. View(ProcOf[t]) \subseteq rows \cup draft /\ View(ProcOf[t]) \cup {t} \in SUBSET Tasks
      BY <3>1, ViewWithin
    <3>3. CASE Fails(ProcOf[t]) BY <3>3 DEF Fails, NothingOpen
    <3>4. CASE ~Fails(ProcOf[t])
      <4>1. NewRow(t) BY <2>1, <3>4 DEF Insert, NewRow, TypeOK
      <4>2. QED BY <2>1, <3>1, <3>2, <4>1, WriteWithin DEF Insert
    <3>5. QED BY <3>3, <3>4
  <2>2. QED BY <1>1, <1>4, <2>1 DEF RequestStep, Count, Register, table
<1>5. ASSUME NEW c \in Cancels, CancelStep(c) PROVE Within
  <2>1. CASE DeleteRow(c)
    <3>1. AtOf[c] \in Procs BY DEF SchedulerAssumption
    <3>2. View(AtOf[c]) \subseteq rows \cup draft /\ View(AtOf[c]) \in SUBSET Tasks
      BY <3>1, ViewWithin
    <3>3. PICK S \in SUBSET View(AtOf[c]) :
             Commits(AtOf[c], S) \/ StaysOpen(AtOf[c], S) \/ Fails(AtOf[c])
      BY <2>1 DEF DeleteRow
    <3>4. S \in SUBSET Tasks BY <3>2, <3>3
    <3>5. QED BY <3>1, <3>2, <3>3, <3>4, WriteWithin
  <2>2. QED BY <1>1, <1>5, <2>1 DEF CancelStep, RemoveJob, table
<1>6. ASSUME NEW p \in Procs, NEW t \in Tasks, Fire(p, t) \/ RunStep(p, t) PROVE Within
  <2>1. CASE MarkRun(p, t)
    <3>1. View(p) \subseteq rows \cup draft /\ View(p) \in SUBSET Tasks BY ViewWithin
    <3>2. QED BY <2>1, <3>1, WriteWithin DEF MarkRun
  <2>2. QED BY <1>1, <1>6, <2>1 DEF Fire, RunStep, ReadTask, Work, Deliver, table
<1>7. QED BY <1>2, <1>3, <1>4, <1>5, <1>6 DEF Next

-----------------------------------------------------------------------------
(* The open transaction.                                                   *)

\* What the connection of a process sees: nothing that was struck out for good, of what
\* is not stored only what its own requests left open, and all that is stored but for
\* what a cancellation named.
LEMMA ViewKeeps ==
  ASSUME SchedulerAssumption, TypeOK, DraftInv, NEW p \in Procs
  PROVE  /\ View(p) \cap created \subseteq rows
         /\ \A t \in View(p) \ rows : ProcOf[t] = p /\ req[t] = "halfway"
         /\ rows \ HalfCancelled \subseteq View(p)
         /\ ~Serving(p) => View(p) = rows
BY DEF View, TypeOK, DraftInv, SchedulerAssumption

LEMMA NextDraft ==
  ASSUME SchedulerAssumption, TypeOK, RequestInv, DraftInv, [Next]_vars PROVE DraftInv'
<1> HalfCancelled \subseteq HalfCancelled' BY HalfwayStays
<1> rows \subseteq created /\ created \subseteq Tasks /\ draft \subseteq Tasks BY DEF TypeOK
<1>1. ASSUME draft' = {}, writer' = Nobody PROVE DraftInv' BY <1>1 DEF DraftInv
<1>2. ASSUME UNCHANGED <<rows, writer, draft, created>>,
             \A t \in Tasks : req[t] = "halfway" /\ ProcOf[t] = writer => req'[t] = "halfway"
      PROVE  DraftInv'
  BY <1>2 DEF DraftInv
\* A write that leaves S open.
<1>3. ASSUME NEW p \in Procs, NEW S, StaysOpen(p, S), S \cap created \subseteq rows,
             \A t \in S \ rows : ProcOf[t] = p /\ req'[t] = "halfway",
             rows \ HalfCancelled' \subseteq S
      PROVE  DraftInv'
  BY <1>3 DEF DraftInv, StaysOpen
<1>4. CASE UNCHANGED vars BY <1>2, <1>4 DEF vars, table
<1>5. ASSUME NEW p \in Procs, ProcStep(p) PROVE DraftInv'
  <2>1. CASE Stop(p) BY <1>1, <1>2, <2>1 DEF Stop, Ends, NothingOpen
  <2>2. CASE CloseStore(p) BY <1>1, <2>2 DEF CloseStore, NothingOpen
  <2>3. QED BY <1>2, <1>5, <2>1, <2>2
          DEF ProcStep, Start, ListEnabled, Rehydrate, Close, table
<1>6. ASSUME NEW t \in Tasks, RequestStep(t) PROVE DraftInv'
  <2> DEFINE p == ProcOf[t]
  <2> p \in Procs BY DEF SchedulerAssumption
  <2>1. CASE Insert(t)
    <3>1. /\ req[t] = "counted" /\ t \notin created \cup draft
          /\ \A s \in Tasks \ {t} : req'[s] = req[s]
      BY <2>1 DEF Insert, RequestInv, TypeOK
    <3>2. CASE Commits(p, View(p) \cup {t}) BY <1>1, <3>2 DEF Commits, NothingOpen
    <3>3. CASE Fails(p) BY <1>1, <1>2, <3>1, <3>3 DEF Fails, NothingOpen
    <3>4. CASE StaysOpen(p, View(p) \cup {t}) /\ req' = [req EXCEPT ![t] = "halfway"]
      <4>1. req'[t] = "halfway" BY <3>4 DEF TypeOK
      <4>2. View(p) \subseteq Tasks BY ViewWithin
      <4>3. \A s \in (View(p) \cup {t}) \ rows : ProcOf[s] = p /\ req'[s] = "halfway"
        BY <3>1, <4>1, <4>2, ViewKeeps
      <4>4. QED BY <1>3, <3>1, <3>4, <4>3, ViewKeeps
    <3>5. QED BY <2>1, <3>2, <3>3, <3>4 DEF Insert
  <2>2. CASE Count(t) BY <1>2, <2>2 DEF Count, TypeOK, table
  <2>3. CASE Register(t) BY <1>2, <2>3 DEF Register, TypeOK, table
  <2>4. QED BY <1>6, <2>1, <2>2, <2>3 DEF RequestStep
<1>7. ASSUME NEW c \in Cancels, CancelStep(c) PROVE DraftInv'
  <2> DEFINE p == AtOf[c]  t == TargetOf[c]
  <2> p \in Procs BY DEF SchedulerAssumption
  <2>1. CASE DeleteRow(c)
    <3>1. req' = req BY <2>1 DEF DeleteRow
    <3>2. CASE \E S : Commits(p, S) BY <1>1, <3>2 DEF Commits, NothingOpen
    <3>3. CASE Fails(p) BY <1>1, <1>2, <3>1, <3>3 DEF Fails, NothingOpen
    <3>4. CASE /\ StaysOpen(p, View(p)) \/ StaysOpen(p, View(p) \ {t})
               /\ cancel' = [cancel EXCEPT ![c] = "halfway"]
      <4>1. t \in HalfCancelled' BY <3>4 DEF HalfCancelled, TypeOK
      <4>2. QED BY <1>3, <3>1, <3>4, <4>1, ViewKeeps
    <3>5. QED BY <2>1, <3>2, <3>3, <3>4 DEF DeleteRow
  <2>2. CASE RemoveJob(c) BY <1>2, <2>2 DEF RemoveJob, table
  <2>3. QED BY <1>7, <2>1, <2>2 DEF CancelStep
<1>8. ASSUME NEW p \in Procs, NEW t \in Tasks, Fire(p, t) \/ RunStep(p, t) PROVE DraftInv'
  <2>1. CASE MarkRun(p, t)
    <3>1. req' = req BY <2>1 DEF MarkRun
    <3>2. CASE Commits(p, View(p)) BY <1>1, <3>2 DEF Commits, NothingOpen
    <3>3. CASE Fails(p) BY <1>1, <1>2, <3>1, <3>3 DEF Fails, NothingOpen
    <3>4. CASE StaysOpen(p, View(p)) BY <1>3, <3>1, <3>4, ViewKeeps
    <3>5. QED BY <2>1, <3>2, <3>3, <3>4 DEF MarkRun
  <2>2. QED BY <1>2, <1>8, <2>1 DEF Fire, RunStep, ReadTask, Work, Deliver, table
<1>9. QED BY <1>4, <1>5, <1>6, <1>7, <1>8 DEF Next

-----------------------------------------------------------------------------
(* Table, jobs and runs.                                                   *)

\* What a commit stores was never stored before or is stored still, and belongs to a
\* process that serves and stays as it is.
LEMMA CommitMoves ==
  ASSUME SchedulerAssumption, TypeOK, RequestInv, DraftInv, StoredInv, [Next]_vars
  PROVE  /\ rows' \cap created \subseteq rows
         /\ created' \ created \subseteq rows'
         /\ \A t \in rows' \ rows : Serving(ProcOf[t]) /\ mode' = mode
<1> DEFINE Moves == /\ rows' \cap created \subseteq rows
                    /\ created' \ created \subseteq rows'
                    /\ \A t \in rows' \ rows : Serving(ProcOf[t]) /\ mode' = mode
<1> rows \subseteq created BY DEF TypeOK
<1>1. ASSUME UNCHANGED <<rows, created>> PROVE Moves BY <1>1
<1>2. ASSUME NEW p \in Procs, NEW S, Commits(p, S), Serving(p), mode' = mode,
             S \cap created \subseteq rows, \A t \in S \ rows : ProcOf[t] = p
      PROVE  Moves
  BY <1>2 DEF Commits
<1>3. CASE UNCHANGED vars BY <1>1, <1>3 DEF vars, table
<1>4. ASSUME NEW p \in Procs, ProcStep(p) PROVE Moves
  BY <1>1, <1>4 DEF ProcStep, Start, ListEnabled, Rehydrate, Close, CloseStore, Stop, table
<1>5. ASSUME NEW t \in Tasks, RequestStep(t) PROVE Moves
  <2> ProcOf[t] \in Procs BY DEF SchedulerAssumption
  <2>1. CASE Insert(t)
    <3>1. Serving(ProcOf[t]) /\ t \notin created /\ mode' = mode
      BY <2>1 DEF Insert, RequestInv, InRequest
    <3>2. CASE Commits(ProcOf[t], View(ProcOf[t]) \cup {t}) BY <1>2, <3>1, <3>2, ViewKeeps
    <3>3. CASE UNCHANGED <<rows, created>> BY <1>1, <3>3
    <3>4. QED BY <2>1, <3>2, <3>3 DEF Insert, StaysOpen, Fails
  <2>2. QED BY <1>1, <1>5, <2>1 DEF RequestStep, Count, Register, table
<1>6. ASSUME NEW c \in Cancels, CancelStep(c) PROVE Moves
  <2> AtOf[c] \in Procs BY DEF SchedulerAssumption
  <2>1. CASE DeleteRow(c)
    <3>1. Serving(AtOf[c]) /\ mode' = mode BY <2>1 DEF DeleteRow
    <3>2. CASE \E S \in SUBSET View(AtOf[c]) : Commits(AtOf[c], S)
      <4>1. PICK S \in SUBSET View(AtOf[c]) : Commits(AtOf[c], S) BY <3>2
      <4>2. S \cap created \subseteq rows /\ \A t \in S \ rows : ProcOf[t] = AtOf[c]
        BY ViewKeeps
      <4>3. QED BY <1>2, <3>1, <4>1, <4>2
    <3>3. CASE UNCHANGED <<rows, created>> BY <1>1, <3>3
    <3>4. QED BY <2>1, <3>2, <3>3 DEF DeleteRow, StaysOpen, Fails
  <2>2. QED BY <1>1, <1>6, <2>1 DEF CancelStep, RemoveJob, table
<1>7. ASSUME NEW p \in Procs, NEW t \in Tasks, Fire(p, t) \/ RunStep(p, t) PROVE Moves
  <2>1. CASE MarkRun(p, t)
    <3>1. Serving(p) /\ mode' = mode BY <2>1 DEF MarkRun, StoredInv, Serving
    <3>2. CASE Commits(p, View(p)) BY <1>2, <3>1, <3>2, ViewKeeps
    <3>3. CASE UNCHANGED <<rows, created>> BY <1>1, <3>3
    <3>4. QED BY <2>1, <3>2, <3>3 DEF MarkRun, StaysOpen, Fails
  <2>2. QED BY <1>1, <1>7, <2>1 DEF Fire, RunStep, ReadTask, Work, Deliver, table
<1>8. QED BY <1>3, <1>4, <1>5, <1>6, <1>7 DEF Next

\* Runs touch neither jobs, requests nor cancellations.
LEMMA RunsKeepOut ==
  ASSUME NEW p \in Procs, NEW t \in Tasks, Fire(p, t) \/ RunStep(p, t)
  PROVE UNCHANGED <<mode, snapshot, jobs, req, cancel>>
BY DEF Fire, RunStep, ReadTask, Work, MarkRun, Deliver

LEMMA NextRequests ==
  ASSUME SchedulerAssumption, TypeOK, RequestInv, [Next]_vars PROVE RequestInv'
<1> USE DEF InRequest, Serving
<1> DEFINE Early == {"idle", "counted", "refused", "crashed", "failed"}
<1>1. \A t \in Tasks : NewRow(t) => req'[t] \notin Early BY DEF NewRow
<1>2. \A t \in Tasks : t \in created' \cup draft' => t \in created \cup draft \/ NewRow(t)
  BY StepWithin DEF TypeOK
<1>3. created \subseteq created' BY StepWithin
\* What is left is that a request is early only if it was, inserted only as it says, and
\* under way only while its process serves.
<1>4. ASSUME \A t \in Tasks : req'[t] \in Early => req[t] \in Early,
             \A t \in Tasks : req'[t] = "inserted" => req[t] = "inserted" \/ t \in created',
             \A t \in Tasks : req'[t] \in InRequest => mode'[ProcOf[t]] \in {"on", "closing"}
      PROVE  RequestInv'
  BY <1>1, <1>2, <1>3, <1>4 DEF RequestInv
<1>5. CASE UNCHANGED vars BY <1>4, <1>5 DEF vars, RequestInv
<1>6. ASSUME NEW p \in Procs, ProcStep(p) PROVE RequestInv'
  <2>1. CASE Start(p) BY <1>4, <2>1 DEF Start, TypeOK, RequestInv
  <2>2. CASE ListEnabled(p) BY <1>4, <2>2 DEF ListEnabled, TypeOK, RequestInv
  <2>3. CASE Rehydrate(p) BY <1>4, <2>3 DEF Rehydrate, TypeOK, RequestInv
  <2>4. CASE Close(p) BY <1>4, <2>4 DEF Close, TypeOK, RequestInv
  <2>5. CASE CloseStore(p) BY <1>4, <2>5 DEF CloseStore, TypeOK, RequestInv
  <2>6. CASE Stop(p) BY <1>4, <2>6 DEF Stop, Ends, TypeOK, RequestInv
  <2>7. QED BY <1>6, <2>1, <2>2, <2>3, <2>4, <2>5, <2>6 DEF ProcStep
<1>7. ASSUME NEW t \in Tasks, RequestStep(t) PROVE RequestInv'
  <2>1. CASE Count(t) BY <1>4, <2>1 DEF Count, CanAsk, TypeOK, RequestInv
  <2>2. CASE Insert(t) BY <1>4, <2>2 DEF Insert, TypeOK, RequestInv, Commits
  <2>3. CASE Register(t) BY <1>4, <2>3 DEF Register, TypeOK, RequestInv
  <2>4. QED BY <1>7, <2>1, <2>2, <2>3 DEF RequestStep
<1>8. ASSUME NEW c \in Cancels, CancelStep(c) PROVE RequestInv'
  BY <1>4, <1>8 DEF CancelStep, DeleteRow, RemoveJob, RequestInv
<1>9. ASSUME NEW p \in Procs, NEW t \in Tasks, Fire(p, t) \/ RunStep(p, t) PROVE RequestInv'
  BY <1>4, <1>9, RunsKeepOut DEF RequestInv
<1>10. QED BY <1>5, <1>6, <1>7, <1>8, <1>9 DEF Next

LEMMA NextStored ==
  ASSUME SchedulerAssumption, TypeOK, RequestInv, DraftInv, StoredInv, [Next]_vars
  PROVE  StoredInv'
<1> created \subseteq created' BY StepWithin
<1> rows \subseteq created BY DEF TypeOK
<1>0. \A p \in Procs, t \in Tasks : <<p, t>> \in Runs BY DEF Runs
\* A step that touches no process but p, and there adds nothing that was not stored.
<1>1. CASE UNCHANGED vars BY <1>1 DEF vars, table, StoredInv
<1>2. ASSUME NEW p \in Procs, ProcStep(p) PROVE StoredInv'
  <2>1. CASE Start(p) BY <2>1, <1>0 DEF Start, TypeOK, StoredInv
  <2>2. CASE ListEnabled(p)
    <3>1. View(p) = rows BY <2>2, ViewKeeps DEF ListEnabled, Serving
    <3>2. QED BY <2>2, <3>1, <1>0 DEF ListEnabled, TypeOK, StoredInv
  <2>3. CASE Rehydrate(p) BY <2>3, <1>0 DEF Rehydrate, TypeOK, StoredInv
  <2>4. CASE Close(p) BY <2>4, <1>0 DEF Close, TypeOK, StoredInv
  <2>5. CASE CloseStore(p) BY <2>5 DEF CloseStore, StoredInv
  <2>6. CASE Stop(p) BY <2>6, <1>0 DEF Stop, Ends, TypeOK, StoredInv
  <2>7. QED BY <1>2, <2>1, <2>2, <2>3, <2>4, <2>5, <2>6 DEF ProcStep
<1>3. ASSUME NEW t \in Tasks, RequestStep(t) PROVE StoredInv'
  <2> ProcOf[t] \in Procs BY DEF SchedulerAssumption
  <2>1. CASE Register(t)
    <3>1. t \in created BY <2>1 DEF Register, RequestInv
    <3>2. QED BY <2>1, <3>1 DEF Register, TypeOK, StoredInv
  <2>2. QED BY <1>3, <2>1 DEF RequestStep, Count, Insert, StoredInv
<1>4. ASSUME NEW c \in Cancels, CancelStep(c) PROVE StoredInv'
  BY <1>4 DEF CancelStep, DeleteRow, RemoveJob, TypeOK, StoredInv
<1>5. ASSUME NEW p \in Procs, NEW t \in Tasks, Fire(p, t) \/ RunStep(p, t) PROVE StoredInv'
  <2>1. t \in created /\ mode[p] = "on"
    BY <1>5 DEF Fire, RunStep, ReadTask, Work, MarkRun, Deliver, StoredInv
  <2>2. \A q \in Procs, s \in Tasks : run'[<<q, s>>] # "none" =>
           run[<<q, s>>] # "none" \/ <<q, s>> = <<p, t>>
    BY <1>5, <1>0 DEF Fire, RunStep, ReadTask, Work, MarkRun, Deliver, TypeOK
  <2>3. QED BY <1>5, <2>1, <2>2, RunsKeepOut DEF StoredInv
<1>6. QED BY <1>1, <1>2, <1>3, <1>4, <1>5 DEF Next

LEMMA NextCancels ==
  ASSUME SchedulerAssumption, TypeOK, RequestInv, DraftInv, CancelInv, [Next]_vars
  PROVE  CancelInv'
\* What is gone stays so, whatever else the step does.
<1>1. ASSUME NEW t \in Tasks, t \notin rows \cup draft, req[t] \notin {"idle", "counted"}
      PROVE  t \notin rows' \cup draft' /\ req'[t] \notin {"idle", "counted"}
  <2>1. t \notin rows' \cup draft'
    <3>1. ~NewRow(t) BY <1>1 DEF NewRow
    <3>2. QED BY <1>1, <3>1, StepWithin
  <2>2. req'[t] \notin {"idle", "counted"}
    <3>1. ASSUME NEW p \in Procs, ProcStep(p) PROVE req'[t] \in {req[t], "lost"}
      BY <3>1 DEF ProcStep, Start, ListEnabled, Rehydrate, Close, CloseStore, Stop, Ends, TypeOK
    <3>2. ASSUME NEW s \in Tasks, RequestStep(s)
          PROVE  req'[t] = req[t] \/ req'[t] \in {"inserted", "halfway", "failed", "done"}
      BY <1>1, <3>2 DEF RequestStep, Count, Insert, Register, TypeOK
    <3>3. ASSUME NEW c \in Cancels, CancelStep(c) PROVE req' = req
      BY <3>3 DEF CancelStep, DeleteRow, RemoveJob
    <3>4. ASSUME NEW p \in Procs, NEW s \in Tasks, Fire(p, s) \/ RunStep(p, s) PROVE req' = req
      BY <3>4, RunsKeepOut
    <3>5. UNCHANGED vars => req' = req BY DEF vars
    <3>6. QED BY <1>1, <3>1, <3>2, <3>3, <3>4, <3>5 DEF Next
  <2>3. QED BY <2>1, <2>2
<1>2. \A c \in Cancels : TargetOf[c] \in Tasks BY DEF SchedulerAssumption
<1>3. ASSUME \A c \in Cancels : cancel'[c] \in {"deleted", "done"} => cancel[c] \in {"deleted", "done"}
      PROVE  CancelInv'
  BY <1>1, <1>2, <1>3 DEF CancelInv
<1>4. CASE UNCHANGED vars BY <1>3, <1>4 DEF vars
<1>5. ASSUME NEW p \in Procs, ProcStep(p) PROVE CancelInv'
  BY <1>3, <1>5 DEF ProcStep, Start, ListEnabled, Rehydrate, Close, CloseStore, Stop, Ends, TypeOK
<1>6. ASSUME NEW t \in Tasks, RequestStep(t) PROVE CancelInv'
  BY <1>3, <1>6 DEF RequestStep, Count, Insert, Register
<1>7. ASSUME NEW c \in Cancels, CancelStep(c) PROVE CancelInv'
  <2> DEFINE p == AtOf[c]  t == TargetOf[c]
  <2>0. p \in Procs /\ t \in Tasks BY DEF SchedulerAssumption
  <2>1. CASE RemoveJob(c) BY <1>3, <2>1 DEF RemoveJob, TypeOK
  <2>2. CASE DeleteRow(c) /\ cancel'[c] # "deleted" BY <1>3, <2>2 DEF DeleteRow, TypeOK
  <2>3. CASE DeleteRow(c) /\ cancel'[c] = "deleted"
    <3>1. t \in View(p) /\ Commits(p, View(p) \ {t}) /\ req' = req
      BY <2>3 DEF DeleteRow, TypeOK
    <3>2. t \notin rows' \cup draft' BY <3>1 DEF Commits, NothingOpen
    <3>3. req'[t] \notin {"idle", "counted"}
      <4>1. t \in created \cup draft BY <2>0, <3>1, ViewWithin DEF TypeOK
      <4>2. QED BY <2>0, <3>1, <4>1 DEF RequestInv
    <3>4. \A d \in Cancels \ {c} : cancel'[d] = cancel[d] BY <2>3 DEF DeleteRow, TypeOK
    <3>5. QED BY <1>1, <1>2, <3>2, <3>3, <3>4 DEF CancelInv
  <2>4. QED BY <1>7, <2>1, <2>2, <2>3 DEF CancelStep
<1>8. ASSUME NEW p \in Procs, NEW t \in Tasks, Fire(p, t) \/ RunStep(p, t) PROVE CancelInv'
  BY <1>3, <1>8, RunsKeepOut
<1>9. QED BY <1>4, <1>5, <1>6, <1>7, <1>8 DEF Next

LEMMA NextSnapshots ==
  ASSUME SchedulerAssumption, TypeOK, RequestInv, DraftInv, StoredInv, SnapshotInv, [Next]_vars
  PROVE  SnapshotInv'
<1> rows \subseteq Tasks /\ rows' \subseteq Tasks /\ \A t \in Tasks : ProcOf[t] \in Procs
  BY NextSchedulerTyped DEF TypeOK, SchedulerAssumption
\* A commit adds only rows of a process that serves.
<1>1. ASSUME UNCHANGED <<mode, snapshot>> PROVE SnapshotInv'
  BY <1>1, CommitMoves DEF SnapshotInv, Serving
<1>2. CASE UNCHANGED vars BY <1>1, <1>2 DEF vars
<1>3. ASSUME NEW p \in Procs, ProcStep(p) PROVE SnapshotInv'
  <2>1. CASE Start(p) BY <2>1 DEF Start, TypeOK, SnapshotInv, table
  <2>2. CASE ListEnabled(p)
    <3>1. View(p) = rows BY <2>2, ViewKeeps DEF ListEnabled, Serving
    <3>2. QED BY <2>2, <3>1 DEF ListEnabled, TypeOK, SnapshotInv, table
  <2>3. CASE Rehydrate(p) BY <2>3 DEF Rehydrate, TypeOK, SnapshotInv, table
  <2>4. CASE Close(p) BY <2>4 DEF Close, TypeOK, SnapshotInv, table
  <2>5. CASE CloseStore(p) BY <2>5 DEF CloseStore, SnapshotInv
  <2>6. CASE Stop(p) BY <2>6 DEF Stop, Ends, TypeOK, SnapshotInv
  <2>7. QED BY <1>3, <2>1, <2>2, <2>3, <2>4, <2>5, <2>6 DEF ProcStep
<1>4. ASSUME NEW t \in Tasks, RequestStep(t) PROVE SnapshotInv'
  BY <1>1, <1>4 DEF RequestStep, Count, Insert, Register
<1>5. ASSUME NEW c \in Cancels, CancelStep(c) PROVE SnapshotInv'
  BY <1>1, <1>5 DEF CancelStep, DeleteRow, RemoveJob
<1>6. ASSUME NEW p \in Procs, NEW t \in Tasks, Fire(p, t) \/ RunStep(p, t) PROVE SnapshotInv'
  BY <1>1, <1>6, RunsKeepOut
<1>7. QED BY <1>2, <1>3, <1>4, <1>5, <1>6 DEF Next

LEMMA NextScheduled ==
  ASSUME SchedulerAssumption, TypeOK, RequestInv, DraftInv, StoredInv, CancelInv, SnapshotInv,
         TableIsScheduled, [Next]_vars
  PROVE  TableIsScheduled'
<1> DEFINE Listed == rows \cup draft
           Runs1(t) == t \in jobs[ProcOf[t]] \/ req[t] \in {"inserted", "halfway"}
<1>1. Listed \subseteq Tasks /\ \A t \in Tasks : ProcOf[t] \in Procs
  BY DEF TypeOK, SchedulerAssumption
<1>2. \A t \in Listed' : t \in Listed \/ NewRow(t) BY StepWithin
<1>3. \A t \in Tasks : NewRow(t) => req'[t] \in {"inserted", "halfway"} BY DEF NewRow
<1>4. \A t \in Listed : mode[ProcOf[t]] = "on" => Runs1(t) BY DEF TableIsScheduled
<1> HIDE DEF Listed
\* What had a job, or was between row and job, still has or is.
<1>5. ASSUME \A t \in Listed : mode'[ProcOf[t]] = "on" => Runs1(t)' PROVE TableIsScheduled'
  BY <1>1, <1>2, <1>3, <1>5 DEF TableIsScheduled, Listed, NewRow
<1>6. CASE UNCHANGED vars BY <1>4, <1>5, <1>6 DEF vars
<1>7. ASSUME NEW p \in Procs, ProcStep(p) PROVE TableIsScheduled'
  <2>1. CASE Start(p) BY <1>1, <1>4, <1>5, <2>1 DEF Start, TypeOK
  <2>2. CASE ListEnabled(p) BY <1>1, <1>4, <1>5, <2>2 DEF ListEnabled, TypeOK
  <2>3. CASE Rehydrate(p)
    <3>1. \A t \in Listed : ProcOf[t] = p => t \in snapshot[p]
      <4>1. TAKE t \in Listed
      <4>2. HAVE ProcOf[t] = p
      <4>3. mode[p] = "listed" BY <2>3 DEF Rehydrate
      <4>4. t \in rows BY <4>2, <4>3 DEF Listed, TypeOK, DraftInv, Serving
      <4>5. QED BY <4>2, <4>3, <4>4 DEF SnapshotInv
    <3>2. ASSUME NEW t \in Listed, mode'[ProcOf[t]] = "on" PROVE Runs1(t)'
      BY <1>1, <1>4, <2>3, <3>1, <3>2 DEF Rehydrate, TypeOK
    <3>3. QED BY <1>5, <3>2
  <2>4. CASE Close(p) BY <1>1, <1>4, <1>5, <2>4 DEF Close, TypeOK
  <2>5. CASE CloseStore(p) BY <1>1, <1>4, <1>5, <2>5 DEF CloseStore
  <2>6. CASE Stop(p) BY <1>1, <1>4, <1>5, <2>6 DEF Stop, Ends, TypeOK
  <2>7. QED BY <1>7, <2>1, <2>2, <2>3, <2>4, <2>5, <2>6 DEF ProcStep
<1>8. ASSUME NEW t \in Tasks, RequestStep(t) PROVE TableIsScheduled'
  <2>1. CASE Count(t)
    <3>1. t \notin Listed BY <2>1 DEF Count, RequestInv, Listed, TypeOK
    <3>2. QED BY <1>1, <1>4, <1>5, <2>1, <3>1 DEF Count, TypeOK
  <2>2. CASE Insert(t)
    <3>1. t \notin Listed BY <2>2 DEF Insert, RequestInv, Listed, TypeOK
    <3>2. QED BY <1>1, <1>4, <1>5, <2>2, <3>1 DEF Insert, TypeOK
  <2>3. CASE Register(t) BY <1>1, <1>4, <1>5, <2>3 DEF Register, TypeOK
  <2>4. QED BY <1>8, <2>1, <2>2, <2>3 DEF RequestStep
<1>9. ASSUME NEW c \in Cancels, CancelStep(c) PROVE TableIsScheduled'
  <2>1. CASE DeleteRow(c) BY <1>4, <1>5, <2>1 DEF DeleteRow
  <2>2. CASE RemoveJob(c)
    <3>1. TargetOf[c] \notin Listed BY <2>2 DEF RemoveJob, CancelInv, Listed
    <3>2. AtOf[c] \in Procs BY DEF SchedulerAssumption
    <3>3. QED BY <1>1, <1>4, <1>5, <2>2, <3>1, <3>2 DEF RemoveJob, TypeOK
  <2>3. QED BY <1>9, <2>1, <2>2 DEF CancelStep
<1>10. ASSUME NEW p \in Procs, NEW t \in Tasks, Fire(p, t) \/ RunStep(p, t)
       PROVE TableIsScheduled'
  BY <1>4, <1>5, <1>10, RunsKeepOut
<1>11. QED BY <1>6, <1>7, <1>8, <1>9, <1>10 DEF Next

-----------------------------------------------------------------------------
(* The limit of serial channels.                                           *)

LEMMA OwnedFinite ==
  ASSUME SchedulerAssumption, NEW S \in SUBSET Tasks, NEW u
  PROVE IsFiniteSet(Owned(S, u)) /\ Cardinality(Owned(S, u)) \in Nat
<1>1. Owned(S, u) \subseteq Tasks BY DEF Owned
<1>2. QED BY <1>1, FS_Subset, FS_CardinalityType DEF SchedulerAssumption

LEMMA OwnedMonotone ==
  ASSUME SchedulerAssumption, NEW S \in SUBSET Tasks, NEW T \in SUBSET S, NEW u
  PROVE Cardinality(Owned(T, u)) <= Cardinality(Owned(S, u))
<1>1. Owned(T, u) \subseteq Owned(S, u) BY DEF Owned
<1>2. QED BY <1>1, OwnedFinite, FS_Subset

\* What counts for a serial user was seen by the connection that counted it.
LEMMA KeptIsSeen ==
  ASSUME SchedulerAssumption, TypeOK, DraftInv, NEW t \in Tasks, SerialUser(UserOf[t])
  PROVE  Owned(Kept, UserOf[t]) \subseteq Owned(View(ProcOf[t]), UserOf[t])
<1>1. \A s \in Tasks : UserOf[s] = UserOf[t] => ProcOf[s] = ProcOf[t] BY DEF SerialUser
<1>2. ProcOf[t] \in Procs /\ Kept \subseteq Tasks BY DEF SchedulerAssumption, TypeOK, Kept
<1>3. ASSUME NEW s \in Kept, UserOf[s] = UserOf[t] PROVE s \in View(ProcOf[t])
  <2>1. CASE s \in rows BY <1>2, <2>1, ViewKeeps DEF Kept
  <2>2. CASE s \in draft \ rows
    <3>1. writer = ProcOf[t] BY <1>1, <1>2, <1>3, <2>2 DEF DraftInv
    <3>2. QED BY <2>2, <3>1 DEF View
  <2>3. QED BY <2>1, <2>2 DEF Kept
<1>4. QED BY <1>3 DEF Owned

LEMMA NextLimit ==
  ASSUME SchedulerAssumption, TypeOK, RequestInv, DraftInv, StoredInv, SerialInv, LimitKept,
         [Next]_vars
  PROVE  SerialInv' /\ LimitKept'
<1> DEFINE One(q) == \A s, t \in Tasks :
                       /\ ProcOf[s] = ProcOf[t] /\ ProcOf[t] \in SerialProcs
                       /\ q[s] \in InRequest /\ q[t] \in InRequest
                       => s = t
           Counted(q, K) == \A t \in Tasks : q[t] = "counted" /\ SerialUser(UserOf[t])
                              => Cardinality(Owned(K, UserOf[t])) < MaxJobs
           Limited(K) == \A u \in Users : SerialUser(u) => Cardinality(Owned(K, u)) <= MaxJobs
           K == Kept
           L == Kept'
<1> UserOf \in [Tasks -> Users] /\ MaxJobs \in Nat BY DEF SchedulerAssumption
<1>1. K \in SUBSET Tasks /\ L \in SUBSET Tasks
  BY NextSchedulerTyped DEF TypeOK, Kept
<1>2. One(req) /\ Counted(req, K) /\ Limited(K) BY DEF SerialInv, LimitKept
<1>3. \A t \in L : t \in K \/ NewRow(t) BY StepWithin, HalfwayStays DEF Kept
<1>4. ASSUME One(req'), Counted(req', L), Limited(L) PROVE SerialInv' /\ LimitKept'
  BY <1>4 DEF SerialInv, LimitKept, SerialUser
<1> HIDE DEF K, L
\* A step that brings no row and no request.
<1>5. ASSUME \A t \in Tasks : ~NewRow(t),
             \A t \in Tasks : req'[t] \in InRequest => req[t] \in InRequest,
             \A t \in Tasks : req'[t] = "counted" => req[t] = "counted"
      PROVE  SerialInv' /\ LimitKept'
  <2>1. L \in SUBSET K BY <1>1, <1>3, <1>5
  <2>2. \A u : /\ Cardinality(Owned(L, u)) <= Cardinality(Owned(K, u))
               /\ Cardinality(Owned(L, u)) \in Nat /\ Cardinality(Owned(K, u)) \in Nat
    BY <1>1, <2>1, OwnedMonotone, OwnedFinite
  <2>3. Limited(L) BY <1>2, <2>2
  <2>4. Counted(req', L) BY <1>2, <1>5, <2>2
  <2>5. One(req') BY <1>2, <1>5
  <2>6. QED BY <1>4, <2>3, <2>4, <2>5
<1>6. ASSUME req' = req PROVE SerialInv' /\ LimitKept' BY <1>5, <1>6 DEF NewRow
<1>7. CASE UNCHANGED vars BY <1>6, <1>7 DEF vars
<1>8. ASSUME NEW p \in Procs, ProcStep(p) PROVE SerialInv' /\ LimitKept'
  <2>1. CASE Stop(p) BY <1>5, <2>1 DEF Stop, Ends, TypeOK, InRequest, NewRow
  <2>2. QED BY <1>6, <1>8, <2>1 DEF ProcStep, Start, ListEnabled, Rehydrate, Close, CloseStore
<1>9. ASSUME NEW t \in Tasks, RequestStep(t) PROVE SerialInv' /\ LimitKept'
  <2>1. CASE Count(t)
    <3>1. \A s \in Tasks : ~NewRow(s) BY <2>1 DEF Count, TypeOK, NewRow
    <3>2. L \in SUBSET K BY <1>1, <1>3, <3>1
    <3>3. \A u : /\ Cardinality(Owned(L, u)) <= Cardinality(Owned(K, u))
                 /\ Cardinality(Owned(L, u)) \in Nat /\ Cardinality(Owned(K, u)) \in Nat
      BY <1>1, <3>2, OwnedMonotone, OwnedFinite
    <3>4. One(req') BY <1>2, <2>1 DEF Count, CanAsk, TypeOK, InRequest
    <3>5. ASSUME req'[t] = "counted", SerialUser(UserOf[t])
          PROVE  Cardinality(Owned(L, UserOf[t])) < MaxJobs
      <4> DEFINE V == View(ProcOf[t])
      <4>1. Cardinality(Owned(V, UserOf[t])) < MaxJobs
        BY <2>1, <3>5 DEF Count, BelowLimit, TypeOK
      <4>2. V \in SUBSET Tasks
        <5>1. ProcOf[t] \in Procs BY DEF SchedulerAssumption
        <5>2. QED BY <5>1, ViewWithin
      <4>3. Owned(K, UserOf[t]) \subseteq Owned(V, UserOf[t]) BY <3>5, KeptIsSeen DEF K
      <4>4. Cardinality(Owned(K, UserOf[t])) <= Cardinality(Owned(V, UserOf[t]))
        BY <4>2, <4>3, OwnedFinite, FS_Subset
      <4>5. Cardinality(Owned(V, UserOf[t])) \in Nat BY <4>2, OwnedFinite
      <4>6. QED BY <3>3, <4>1, <4>4, <4>5
    <3>6. \A s \in Tasks \ {t} : req'[s] = req[s] BY <2>1 DEF Count, TypeOK
    <3>7. Counted(req', L) BY <1>2, <3>3, <3>5, <3>6
    <3>8. Limited(L) BY <1>2, <3>3
    <3>9. QED BY <1>4, <3>4, <3>7, <3>8
  <2>2. CASE Insert(t)
    <3>1. One(req') BY <1>2, <2>2 DEF Insert, TypeOK, InRequest
    <3>2. /\ req[t] = "counted" /\ req'[t] # "counted"
          /\ \A s \in Tasks \ {t} : req'[s] = req[s] /\ ~NewRow(s)
      BY <2>2 DEF Insert, TypeOK, NewRow, InRequest
    <3>3. L \in SUBSET (K \cup {t}) BY <1>1, <1>3, <3>2
    <3> DEFINE w == UserOf[t]
    <3>4. \A u : u # w => Owned(L, u) \subseteq Owned(K, u) BY <3>3 DEF Owned
    <3>5. Owned(L, w) \subseteq Owned(K, w) \cup {t} BY <3>3 DEF Owned
    <3>6. \A u : /\ IsFiniteSet(Owned(K, u)) /\ Cardinality(Owned(K, u)) \in Nat
                 /\ Cardinality(Owned(L, u)) \in Nat
      BY <1>1, OwnedFinite
    <3>7. ASSUME SerialUser(w) PROVE Cardinality(Owned(L, w)) <= MaxJobs
      <4>1. Cardinality(Owned(K, w)) < MaxJobs BY <1>2, <3>2, <3>7
      <4>2. /\ IsFiniteSet(Owned(K, w) \cup {t})
            /\ \/ Cardinality(Owned(K, w) \cup {t}) = Cardinality(Owned(K, w))
               \/ Cardinality(Owned(K, w) \cup {t}) = Cardinality(Owned(K, w)) + 1
        BY <3>6, FS_AddElement
      <4>3. Cardinality(Owned(L, w)) <= Cardinality(Owned(K, w) \cup {t})
        BY <3>5, <4>2, FS_Subset
      <4>4. QED BY <3>6, <4>1, <4>2, <4>3
    <3>8. \A u : u # w => Cardinality(Owned(L, u)) <= Cardinality(Owned(K, u))
      BY <3>4, <3>6, FS_Subset
    <3>9. Limited(L) BY <1>2, <3>6, <3>7, <3>8
    <3>10. ASSUME NEW s \in Tasks, req'[s] = "counted", SerialUser(UserOf[s])
           PROVE  Cardinality(Owned(L, UserOf[s])) < MaxJobs
      <4>1. s # t /\ req[s] = "counted" BY <3>2, <3>10
      <4>2. UserOf[s] # w BY <1>2, <3>2, <3>10, <4>1 DEF SerialUser, InRequest
      <4>3. QED BY <1>2, <3>6, <3>8, <3>10, <4>1, <4>2
    <3>11. QED BY <1>4, <3>1, <3>9, <3>10
  <2>3. CASE Register(t) BY <1>5, <2>3 DEF Register, TypeOK, InRequest, NewRow
  <2>4. QED BY <1>9, <2>1, <2>2, <2>3 DEF RequestStep
<1>10. ASSUME NEW c \in Cancels, CancelStep(c) PROVE SerialInv' /\ LimitKept'
  BY <1>6, <1>10 DEF CancelStep, DeleteRow, RemoveJob
<1>11. ASSUME NEW p \in Procs, NEW t \in Tasks, Fire(p, t) \/ RunStep(p, t)
       PROVE SerialInv' /\ LimitKept'
  BY <1>6, <1>11, RunsKeepOut
<1>12. QED BY <1>7, <1>8, <1>9, <1>10, <1>11 DEF Next

-----------------------------------------------------------------------------
(* The invariants.                                                         *)

LEMMA InitSchedulerInv == ASSUME SchedulerAssumption, Init PROVE SchedulerInv
<1>1. TypeOK BY InitSchedulerTyped
<1>2. RequestInv /\ CancelInv /\ SnapshotInv /\ TableIsScheduled
  BY DEF Init, RequestInv, CancelInv, SnapshotInv, TableIsScheduled, InRequest, Serving
<1>3. DraftInv /\ StoredInv BY DEF Init, DraftInv, StoredInv, Runs
<1>4. SerialInv BY DEF Init, SerialInv, InRequest
<1>5. LimitKept
  <2>1. \A u : Owned(Kept, u) = {} BY DEF Init, Owned, Kept
  <2>2. QED BY <2>1, FS_EmptySet DEF LimitKept, SchedulerAssumption
<1>6. QED BY <1>1, <1>2, <1>3, <1>4, <1>5 DEF SchedulerInv

LEMMA NextSchedulerInv ==
  ASSUME SchedulerAssumption, SchedulerInv, [Next]_vars PROVE SchedulerInv'
BY NextSchedulerTyped, NextRequests, NextDraft, NextStored, NextCancels, NextSnapshots,
   NextScheduled, NextLimit
   DEF SchedulerInv

\* The inductive invariant holds in every reachable state.
THEOREM SchedulerInvariant == Spec => []SchedulerInv
<1>1. Init => SchedulerInv BY InitSchedulerInv, SchedulerAssumption
<1>2. SchedulerInv /\ [Next]_vars => SchedulerInv' BY NextSchedulerInv, SchedulerAssumption
<1>3. QED BY <1>1, <1>2, PTL DEF Spec

\* Every variable stays in its type, and no transaction outlives the handlers and runs
\* of its process.
THEOREM SchedulerTypeCorrect == Spec => []TypeOK
<1>1. SchedulerInv => TypeOK BY DEF SchedulerInv
<1>2. QED BY <1>1, SchedulerInvariant, PTL

\* While a process is on, every task it was asked for has its job there, whatever was
\* added, cancelled, stopped or started in whatever order and whichever commits failed;
\* without one is only a task between row and job, and one whose commit failed.
THEOREM TableStaysScheduled == Spec => []TableIsScheduled
<1>1. SchedulerInv => TableIsScheduled BY DEF SchedulerInv
<1>2. QED BY <1>1, SchedulerInvariant, PTL

\* One update at a time is enough for the limit of a user to hold, of what is stored and
\* what is open, but for tasks whose cancellation failed.
THEOREM SerialLimit == Spec => []LimitKept
<1>1. SchedulerInv => LimitKept BY DEF SchedulerInv
<1>2. QED BY <1>1, SchedulerInvariant, PTL

-----------------------------------------------------------------------------
(* The refinement.                                                         *)

LEMMA InitBook == ASSUME SchedulerAssumption, Init PROVE Book!BookInit
BY DEF Init, Book!BookInit, BookOf, BusyRuns, Runs

\* Whatever a step does to the table, one Write of the book does: it may store several
\* rows that were open and strike out others at once.
LEMMA StepWrites ==
  ASSUME SchedulerAssumption, SchedulerInv, [Next]_vars, BusyRuns' = BusyRuns
  PROVE  Book!Write
<1>1. /\ created \subseteq created' /\ created' \ created \subseteq rows'
      /\ rows' \cap created \subseteq rows
  BY StepWithin, CommitMoves DEF SchedulerInv
<1>2. rows \subseteq created /\ rows' \subseteq created'
  BY NextSchedulerTyped DEF SchedulerInv, TypeOK
<1>3. BookOf' \in [Tasks -> {"none", "active", "gone"}] BY DEF BookOf
<1>4. ASSUME NEW t \in Tasks, BookOf'[t] # BookOf[t]
      PROVE  <<BookOf[t], BookOf'[t]>> \in {<<"none", "active">>, <<"active", "gone">>}
  BY <1>1, <1>2, <1>4 DEF BookOf
<1>5. QED BY <1>3, <1>4 DEF Book!Write

LEMMA ProcKeepsBook ==
  ASSUME SchedulerInv, NEW p \in Procs, ProcStep(p)
  PROVE Book!Halt(p) \/ UNCHANGED <<BookOf, BusyRuns>>
<1>1. rows' = rows /\ created' = created
  BY DEF ProcStep, Start, ListEnabled, Rehydrate, Close, CloseStore, Stop, table
<1>2. BookOf' = BookOf BY <1>1 DEF BookOf
<1>3. CASE run' = run BY <1>2, <1>3 DEF BusyRuns
<1>4. CASE run' = [x \in Runs |-> IF x[1] = p THEN "none" ELSE run[x]]
  BY <1>2, <1>4 DEF Book!Halt, BusyRuns
<1>5. QED BY <1>3, <1>4 DEF ProcStep, Start, ListEnabled, Rehydrate, Close, CloseStore, Stop, Ends

LEMMA RunKeepsBook ==
  ASSUME SchedulerAssumption, SchedulerInv, NEW p \in Procs, NEW t \in Tasks,
         Fire(p, t) \/ RunStep(p, t)
  PROVE Book!Begin(p, t) \/ Book!End(p, t) \/ BusyRuns' = BusyRuns
<1> DEFINE x == <<p, t>>
<1> x \in Runs /\ run \in [Runs -> {"none", "fired", "working", "ok", "error", "telling"}]
  BY DEF Runs, SchedulerInv, TypeOK
<1>1. ASSUME UNCHANGED <<rows, created>> PROVE BookOf' = BookOf BY <1>1 DEF BookOf
<1>2. ASSUME x \in BusyRuns, BusyRuns' = BusyRuns \ {x}, UNCHANGED <<rows, created>>
      PROVE  Book!End(p, t)
  BY <1>1, <1>2 DEF Book!End
<1>3. CASE Fire(p, t) BY <1>3 DEF Fire, BusyRuns
<1>4. CASE ReadTask(p, t)
  <2>1. x \notin BusyRuns BY <1>4 DEF ReadTask, BusyRuns
  <2>2. CASE run'[x] = "working" /\ t \in View(p)
    <3>1. BusyRuns' = BusyRuns \cup {x} BY <1>4, <2>2 DEF ReadTask, BusyRuns
    <3>2. t \in rows
      <4>1. t \in created BY <1>4 DEF ReadTask, SchedulerInv, StoredInv
      <4>2. QED BY <2>2, <4>1, ViewKeeps DEF SchedulerInv
    <3>3. BookOf' = BookOf BY <1>1, <1>4 DEF ReadTask, table
    <3>4. QED BY <2>1, <3>1, <3>2, <3>3 DEF Book!Begin, BookOf
  <2>3. CASE run' = [run EXCEPT ![x] = "none"] BY <1>4, <2>3 DEF ReadTask, BusyRuns
  <2>4. QED BY <1>4, <2>2, <2>3 DEF ReadTask
<1>5. CASE Work(p, t) BY <1>5 DEF Work, BusyRuns
<1>6. CASE MarkRun(p, t)
  <2>1. x \in BusyRuns BY <1>6 DEF MarkRun, BusyRuns
  <2>2. CASE run' = [run EXCEPT ![x] = "telling"] BY <2>1, <2>2 DEF BusyRuns
  <2>3. CASE run' = [run EXCEPT ![x] = "none"] /\ UNCHANGED <<rows, created>>
    <3>1. BusyRuns' = BusyRuns \ {x} BY <2>3 DEF BusyRuns
    <3>2. QED BY <1>2, <2>1, <2>3, <3>1
  <2>4. QED BY <1>6, <2>2, <2>3 DEF MarkRun, StaysOpen, Fails
<1>7. CASE Deliver(p, t)
  <2>1. x \in BusyRuns BY <1>7 DEF Deliver, BusyRuns
  <2>2. BusyRuns' = BusyRuns \ {x} BY <1>7 DEF Deliver, BusyRuns
  <2>3. QED BY <1>2, <1>7, <2>1, <2>2 DEF Deliver, table
<1>8. QED BY <1>3, <1>4, <1>5, <1>6, <1>7 DEF RunStep

LEMMA NextBook ==
  ASSUME SchedulerAssumption, SchedulerInv, [Next]_vars
  PROVE [Book!BookNext]_(Book!bookVars)
<1> USE DEF Book!bookVars
<1>1. CASE BusyRuns' = BusyRuns BY <1>1, StepWrites DEF Book!BookNext
<1>2. CASE UNCHANGED vars BY <1>1, <1>2 DEF vars, BusyRuns
<1>3. ASSUME NEW p \in Procs, ProcStep(p) PROVE [Book!BookNext]_(Book!bookVars)
  BY <1>3, ProcKeepsBook DEF Book!BookNext, Book!Halt
<1>4. ASSUME NEW t \in Tasks, RequestStep(t) PROVE [Book!BookNext]_(Book!bookVars)
  BY <1>1, <1>4 DEF RequestStep, Count, Insert, Register, BusyRuns
<1>5. ASSUME NEW c \in Cancels, CancelStep(c) PROVE [Book!BookNext]_(Book!bookVars)
  BY <1>1, <1>5 DEF CancelStep, DeleteRow, RemoveJob, BusyRuns
<1>6. ASSUME NEW p \in Procs, NEW t \in Tasks, Fire(p, t) \/ RunStep(p, t)
      PROVE [Book!BookNext]_(Book!bookVars)
  BY <1>1, <1>6, RunKeepsBook DEF Book!BookNext
<1>7. QED BY <1>2, <1>3, <1>4, <1>5, <1>6 DEF Next

\* Table, jobs and runs together behave as the book of tasks: a task is entered
\* once, struck out once, and no process begins a task that is not entered, though
\* commits fail, stay open and store what an earlier call was told had failed.
THEOREM SchedulerKeepsBook == Spec => BookKept
<1>1. Init => Book!BookInit BY InitBook, SchedulerAssumption
<1>2. SchedulerInv /\ [Next]_vars => [Book!BookNext]_(Book!bookVars)
  BY NextBook, SchedulerAssumption
<1>3. QED BY <1>1, <1>2, SchedulerInvariant, PTL DEF Spec, BookKept, Book!BookSafe

-----------------------------------------------------------------------------
(* A cancelled task.                                                       *)

\* How many steps a run of a task has left before it is silent.
StepsLeft(r) ==
    CASE r = "working" -> 3
      [] r \in {"ok", "error"} -> 2
      [] r = "telling" -> 1
      [] OTHER -> 0

\* A stored task that was deleted never comes back, no process begins to work on it, and
\* every step of what is under way leaves less.
CancelledRunsOut ==
    [][\A t \in created \ rows :
          /\ t \in created' \ rows'
          /\ \A p \in Procs :
               LET left == StepsLeft(run[<<p, t>>]) IN
               /\ StepsLeft(run'[<<p, t>>]) <= left
               /\ RunStep(p, t) /\ left > 0 => StepsLeft(run'[<<p, t>>]) < left]_vars

LEMMA StepsLeftOf ==
  /\ StepsLeft("working") = 3 /\ StepsLeft("ok") = 2 /\ StepsLeft("error") = 2
  /\ StepsLeft("telling") = 1 /\ StepsLeft("fired") = 0 /\ StepsLeft("none") = 0
BY DEF StepsLeft

\* One step of a run, of a task that its process does not see in the table.
LEMMA RunGoesDown ==
  ASSUME TypeOK, NEW p \in Procs, NEW t \in Tasks, t \notin View(p), Fire(p, t) \/ RunStep(p, t)
  PROVE  LET x == <<p, t>> IN
         /\ StepsLeft(run'[x]) <= StepsLeft(run[x])
         /\ RunStep(p, t) /\ StepsLeft(run[x]) > 0 => StepsLeft(run'[x]) < StepsLeft(run[x])
         /\ \A y \in Runs : y # x => run'[y] = run[y]
<1> DEFINE x == <<p, t>>
<1> x \in Runs BY DEF Runs
<1>1. CASE Fire(p, t)
  <2>1. run[x] = "none" /\ run'[x] = "fired" BY <1>1 DEF Fire, TypeOK
  <2>2. ~RunStep(p, t)
    BY <2>1 DEF RunStep, ReadTask, Work, MarkRun, Deliver
  <2>3. QED BY <1>1, <2>1, <2>2, StepsLeftOf DEF Fire, TypeOK
<1>2. CASE ReadTask(p, t)
  <2>1. run[x] = "fired" /\ run'[x] = "none" BY <1>2 DEF ReadTask, TypeOK
  <2>2. QED BY <1>2, <2>1, StepsLeftOf DEF ReadTask, TypeOK
<1>3. CASE Work(p, t)
  <2>1. run[x] = "working" /\ run'[x] \in {"ok", "error"} BY <1>3 DEF Work, TypeOK
  <2>2. QED BY <1>3, <2>1, StepsLeftOf DEF Work, TypeOK
<1>4. CASE MarkRun(p, t)
  <2>1. run[x] \in {"ok", "error"} /\ run'[x] \in {"telling", "none"}
    BY <1>4 DEF MarkRun, TypeOK
  <2>2. \A y \in Runs : y # x => run'[y] = run[y] BY <1>4 DEF MarkRun, TypeOK
  <2>3. QED BY <2>1, <2>2, StepsLeftOf
<1>5. CASE Deliver(p, t)
  <2>1. run[x] = "telling" /\ run'[x] = "none" BY <1>5 DEF Deliver, TypeOK
  <2>2. QED BY <1>5, <2>1, StepsLeftOf DEF Deliver, TypeOK
<1>6. QED BY <1>1, <1>2, <1>3, <1>4, <1>5 DEF RunStep

\* After a cancellation the runs under way come to their end and none begins, in
\* whichever process: what is left of CancelledFallsSilent is that awaits return.
THEOREM CancelledComesToEnd == Spec => CancelledRunsOut
<1> DEFINE Down(t) ==
      /\ t \in created' \ rows'
      /\ \A p \in Procs :
           LET left == StepsLeft(run[<<p, t>>]) IN
           /\ StepsLeft(run'[<<p, t>>]) <= left
           /\ RunStep(p, t) /\ left > 0 => StepsLeft(run'[<<p, t>>]) < left
<1>1. ASSUME SchedulerAssumption, SchedulerInv, [Next]_vars, NEW t \in created \ rows
      PROVE  Down(t)
  <2> TypeOK /\ RequestInv /\ DraftInv /\ t \in Tasks BY <1>1 DEF SchedulerInv, TypeOK
  <2>1. \A p \in Procs : <<p, t>> \in Runs BY DEF Runs
  <2>2. \A p \in Procs : StepsLeft(run[<<p, t>>]) \in {0, 1, 2, 3} BY DEF StepsLeft
  <2>3. t \in created' \ rows' BY <1>1, StepWithin, CommitMoves DEF SchedulerInv
  <2>4. ASSUME UNCHANGED run, NEW p \in Procs, RunStep(p, t)
        PROVE  FALSE
    BY <2>1, <2>4 DEF RunStep, ReadTask, Work, MarkRun, Deliver, TypeOK
  <2>5. ASSUME UNCHANGED run PROVE Down(t) BY <2>2, <2>3, <2>4, <2>5
  <2>6. CASE UNCHANGED vars BY <2>5, <2>6 DEF vars
  <2>7. ASSUME NEW q \in Procs, ProcStep(q) PROVE Down(t)
    <3>1. CASE UNCHANGED run BY <2>5, <3>1
    <3>2. CASE /\ run' = [x \in Runs |-> IF x[1] = q THEN "none" ELSE run[x]]
               /\ mode' # mode
      <4>1. \A p \in Procs : run'[<<p, t>>] = IF p = q THEN "none" ELSE run[<<p, t>>]
        BY <2>1, <3>2
      <4>2. \A p \in Procs : ~RunStep(p, t)
        BY <3>2 DEF RunStep, ReadTask, Work, MarkRun, Deliver
      <4>3. QED BY <2>2, <2>3, <4>1, <4>2, StepsLeftOf
    <3>3. QED
      <4>1. mode \in [Procs -> {"down", "starting", "listed", "on", "closing"}]
        BY DEF TypeOK
      <4>2. Close(q) \/ Stop(q) => mode' # mode BY <4>1 DEF Close, Stop, Ends
      <4>3. QED BY <2>7, <3>1, <3>2, <4>2
              DEF ProcStep, Start, ListEnabled, Rehydrate, Close, CloseStore, Stop, Ends
  <2>8. ASSUME NEW s \in Tasks, RequestStep(s) PROVE Down(t)
    BY <2>5, <2>8 DEF RequestStep, Count, Insert, Register
  <2>9. ASSUME NEW c \in Cancels, CancelStep(c) PROVE Down(t)
    BY <2>5, <2>9 DEF CancelStep, DeleteRow, RemoveJob
  <2>10. ASSUME NEW q \in Procs, NEW s \in Tasks, Fire(q, s) \/ RunStep(q, s) PROVE Down(t)
    <3>1. t \notin View(q) BY <1>1, ViewKeeps
    <3>2. CASE s = t
      <4>1. /\ StepsLeft(run'[<<q, t>>]) <= StepsLeft(run[<<q, t>>])
            /\ RunStep(q, t) /\ StepsLeft(run[<<q, t>>]) > 0
                 => StepsLeft(run'[<<q, t>>]) < StepsLeft(run[<<q, t>>])
            /\ \A y \in Runs : y # <<q, t>> => run'[y] = run[y]
        BY <2>10, <3>1, <3>2, RunGoesDown
      <4>2. ASSUME NEW p \in Procs, p # q
            PROVE run'[<<p, t>>] = run[<<p, t>>] /\ ~RunStep(p, t)
        <5>1. run'[<<p, t>>] = run[<<p, t>>] BY <2>1, <4>1, <4>2
        <5>2. ~RunStep(p, t)
          BY <2>1, <5>1 DEF RunStep, ReadTask, Work, MarkRun, Deliver, TypeOK
        <5>3. QED BY <5>1, <5>2
      <4>3. QED BY <2>2, <2>3, <4>1, <4>2
    <3>3. CASE s # t
      <4>1. \A p \in Procs : run'[<<p, t>>] = run[<<p, t>>]
        BY <2>1, <2>10, <3>3 DEF Fire, RunStep, ReadTask, Work, MarkRun, Deliver, TypeOK
      <4>2. \A p \in Procs : ~RunStep(p, t)
        BY <2>1, <4>1 DEF RunStep, ReadTask, Work, MarkRun, Deliver, TypeOK
      <4>3. QED BY <2>2, <2>3, <4>1, <4>2
    <3>4. QED BY <3>2, <3>3
  <2>11. QED BY <1>1, <2>6, <2>7, <2>8, <2>9, <2>10 DEF Next
<1>2. SchedulerInv /\ [Next]_vars => [\A t \in created \ rows : Down(t)]_vars
  BY <1>1, SchedulerAssumption
<1>3. QED BY <1>2, SchedulerInvariant, PTL DEF Spec, CancelledRunsOut

\* A run that has begun moves by its own steps alone, each leaves less to do, or it goes
\* with the scheduler of its process; whether its task is still in the table or not.
BegunRunsOut ==
    [][\A p \in Procs, t \in Tasks : <<p, t>> \in BusyRuns =>
         \/ run'[<<p, t>>] = run[<<p, t>>] /\ ~RunStep(p, t)
         \/ RunStep(p, t) /\ StepsLeft(run'[<<p, t>>]) < StepsLeft(run[<<p, t>>])
         \/ run'[<<p, t>>] = "none" /\ mode'[p] \in {"closing", "down"}]_vars

LEMMA BusyRunGoesDown ==
  ASSUME TypeOK, NEW p \in Procs, NEW t \in Tasks, <<p, t>> \in BusyRuns, RunStep(p, t)
  PROVE  StepsLeft(run'[<<p, t>>]) < StepsLeft(run[<<p, t>>])
<1> DEFINE x == <<p, t>>
<1> x \in Runs BY DEF Runs
<1>1. ~ReadTask(p, t) BY DEF ReadTask, BusyRuns
<1>2. CASE Work(p, t)
  <2>1. run[x] = "working" /\ run'[x] \in {"ok", "error"} BY <1>2 DEF Work, TypeOK
  <2>2. QED BY <2>1, StepsLeftOf
<1>3. CASE MarkRun(p, t)
  <2>1. run[x] \in {"ok", "error"} /\ run'[x] \in {"telling", "none"}
    BY <1>3 DEF MarkRun, TypeOK
  <2>2. QED BY <2>1, StepsLeftOf
<1>4. CASE Deliver(p, t)
  <2>1. run[x] = "telling" /\ run'[x] = "none" BY <1>4 DEF Deliver, TypeOK
  <2>2. QED BY <2>1, StepsLeftOf
<1>5. QED BY <1>1, <1>2, <1>3, <1>4 DEF RunStep

\* What was begun comes to its end: what is left of BookEnds is that awaits return.
THEOREM BegunComesToEnd == Spec => BegunRunsOut
<1> DEFINE Down(p, t) ==
      \/ run'[<<p, t>>] = run[<<p, t>>] /\ ~RunStep(p, t)
      \/ RunStep(p, t) /\ StepsLeft(run'[<<p, t>>]) < StepsLeft(run[<<p, t>>])
      \/ run'[<<p, t>>] = "none" /\ mode'[p] \in {"closing", "down"}
<1>1. ASSUME TypeOK, [Next]_vars, NEW p \in Procs, NEW t \in Tasks, <<p, t>> \in BusyRuns
      PROVE  Down(p, t)
  <2> DEFINE x == <<p, t>>
  <2>0. x \in Runs BY DEF Runs
  <2>1. CASE RunStep(p, t) BY <1>1, <2>1, BusyRunGoesDown
  <2>2. CASE run'[x] = run[x] /\ ~RunStep(p, t) BY <2>2
  <2>3. ASSUME NEW q \in Procs, ProcStep(q), ~RunStep(p, t) PROVE Down(p, t)
    <3>1. CASE run' = run BY <2>3, <3>1
    <3>2. CASE Close(q) \/ Stop(q)
      <4>1. /\ run'[x] = IF q = p THEN "none" ELSE run[x]
            /\ mode'[q] \in {"closing", "down"}
        BY <1>1, <2>0, <3>2 DEF Close, Stop, Ends, TypeOK
      <4>2. QED BY <2>3, <4>1
    <3>3. QED BY <2>3, <3>1, <3>2 DEF ProcStep, Start, ListEnabled, Rehydrate, CloseStore
  <2>4. ASSUME NEW s \in Tasks, RequestStep(s) PROVE run' = run
    BY <2>4 DEF RequestStep, Count, Insert, Register
  <2>5. ASSUME NEW c \in Cancels, CancelStep(c) PROVE run' = run
    BY <2>5 DEF CancelStep, DeleteRow, RemoveJob
  <2>6. ASSUME NEW q \in Procs, NEW s \in Tasks, Fire(q, s) \/ RunStep(q, s), ~RunStep(p, t)
        PROVE  run'[x] = run[x]
    <3>1. <<q, s>> # x
      <4>1. ~Fire(p, t) BY <1>1 DEF Fire, BusyRuns
      <4>2. QED BY <2>6, <4>1
    <3>2. QED BY <1>1, <2>0, <2>6, <3>1
      DEF Fire, RunStep, ReadTask, Work, MarkRun, Deliver, TypeOK
  <2>7. CASE UNCHANGED vars BY <2>1, <2>2, <2>7 DEF vars
  <2>8. QED BY <1>1, <2>1, <2>2, <2>3, <2>4, <2>5, <2>6, <2>7 DEF Next
<1>2. TypeOK /\ [Next]_vars
        => [\A p \in Procs, t \in Tasks : <<p, t>> \in BusyRuns => Down(p, t)]_vars
  BY <1>1
<1>3. QED BY <1>2, SchedulerTypeCorrect, PTL DEF Spec, BegunRunsOut

=============================================================================
