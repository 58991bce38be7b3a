------------------------------ MODULE Runtime -------------------------------
(***************************************************************************)
(* The life of a process of one channel and the users table its handlers   *)
(* need before anything else.  main builds the components, serves until    *)
(* polling ends or a signal comes, and closes what it has built while      *)
(* handlers and threads may still be at work.  Several instances of the    *)
(* channel (an old one that is stopping and its successor) share the       *)
(* table; each has a connection and an asyncio.Lock of its own.            *)
(***************************************************************************)
EXTENDS Naturals, Sequences, FiniteSets

CONSTANTS
    Procs,       \* instances of the process
    Handlers,    \* messages that are handled
    HomeOf,      \* HomeOf[h]: the process that gets h
    Users,
    UserOf,      \* UserOf[h]: who sent h
    Parts,       \* the components in the order _shutdown_components closes them
    MaxBoots,    \* bound: starts of one process
    ThreadsEnd   \* blocking calls made in threads come to an end

Channels == {"telegram", "max", "console"}
PartSet == {Parts[i] : i \in 1..Len(Parts)}

ASSUME RuntimeAssumption ==
    /\ HomeOf \in [Handlers -> Procs] /\ UserOf \in [Handlers -> Users]
    /\ Parts \in Seq(STRING)
    /\ MaxBoots \in Nat /\ ThreadsEnd \in BOOLEAN

VARIABLES
    channel,   \* the channel of all instances; it does not change
    boots,     \* boots[p]: how often p was started
    phase,     \* phase[p]: where main of p is
    asked,     \* asked[p]: the shutdown event is set
    polling,   \* polling[p]: the polling task, or the loop of the console
    recovery,  \* recovery[p]: the recovery of the journal goes on
    next,      \* next[p]: the part to be closed
    closed,    \* closed[p]: parts that are closed
    pc,        \* pc[h]: where the handler of h is
    adrift,    \* handlers that were cancelled while a thread works for them
    out,       \* out[h]: the id that get_or_create has found; 0: none
    lock,      \* lock[p]: the one who is inside get_or_create, if any
    rows,      \* rows[u]: the id of u in the table; 0: no row
    open,      \* open[p]: rows of the open transaction of p, as <<user, id>>
    last,      \* the last id given, of AUTOINCREMENT
    made       \* history: made[u]: how often UserCreated was published

life == <<channel, boots, phase, asked, polling, recovery, next, closed>>
table == <<rows, open, last, made>>
vars == <<life, pc, adrift, out, lock, table>>

-----------------------------------------------------------------------------
Serial == channel # "telegram"
Of(p) == {h \in Handlers : HomeOf[h] = p}
InThread(h) == pc[h] \in {"select", "insert", "commit", "thread"}
Running(h) == pc[h] \notin {"idle", "done"} /\ h \notin adrift

Init ==
    /\ channel \in Channels
    /\ boots = [p \in Procs |-> 0]
    /\ phase = [p \in Procs |-> "down"]
    /\ asked = [p \in Procs |-> FALSE]
    /\ polling = [p \in Procs |-> "off"]
    /\ recovery = [p \in Procs |-> FALSE]
    /\ next = [p \in Procs |-> 1] /\ closed = [p \in Procs |-> {}]
    /\ pc = [h \in Handlers |-> "idle"] /\ adrift = {}
    /\ out = [h \in Handlers |-> 0] /\ lock = [p \in Procs |-> {}]
    /\ rows = [u \in Users |-> 0] /\ open = [p \in Procs |-> {}] /\ last = 0
    /\ made = [u \in Users |-> 0]

-----------------------------------------------------------------------------
(* main: build, serve, stop.                                               *)

\* Components are built, the scheduler is started, then recovery and polling
\* begin; the console has no recovery.  When the building raises, the process
\* ends before it serves, and nothing here changes.
Boot(p) ==
    /\ phase[p] = "down" /\ boots[p] < MaxBoots
    /\ boots' = [boots EXCEPT ![p] = @ + 1]
    /\ phase' = [phase EXCEPT ![p] = "serve"]
    /\ polling' = [polling EXCEPT ![p] = "on"]
    /\ recovery' = [recovery EXCEPT ![p] = channel # "console"]
    /\ UNCHANGED <<channel, asked, next, closed, pc, adrift, out, lock, table>>

\* SIGTERM or SIGINT sets the event, at any time; the console has no handler.
Signal(p) ==
    /\ channel # "console" /\ phase[p] = "serve" /\ ~asked[p]
    /\ asked' = [asked EXCEPT ![p] = TRUE]
    /\ UNCHANGED <<channel, boots, phase, polling, recovery, next, closed,
                   pc, adrift, out, lock, table>>

\* Polling ends by itself: aiogram stops, the user of the console leaves, or an
\* exception gets through.  A serial channel handles nothing at that point.
PollingEnds(p) ==
    /\ phase[p] = "serve" /\ polling[p] = "on"
    /\ Serial => \A h \in Of(p) : ~Running(h)
    /\ polling' = [polling EXCEPT ![p] = "over"]
    /\ UNCHANGED <<channel, boots, phase, asked, recovery, next, closed,
                   pc, adrift, out, lock, table>>

RecoveryEnds(p) ==
    /\ recovery[p]
    /\ recovery' = [recovery EXCEPT ![p] = FALSE]
    /\ UNCHANGED <<channel, boots, phase, asked, polling, next, closed,
                   pc, adrift, out, lock, table>>

\* Slip: a handler that is cancelled is counted as adrift wherever it was.
CancelIntoDrift(p, hs) ==
    LET gone == {h \in hs : Running(h)} IN
    /\ pc' = [h \in Handlers |-> IF h \in gone /\ ~InThread(h) THEN "done" ELSE pc[h]]
    /\ out' = [h \in Handlers |-> IF h \in gone /\ ~InThread(h) THEN 0 ELSE out[h]]
    /\ adrift' = adrift \cup gone
    /\ lock' = [lock EXCEPT ![p] = @ \ gone]

\* Handlers hs are cancelled: those that wait for a thread leave it adrift, the
\* others end, and the lock is given back.
CancelHandlers(p, hs) ==
    LET gone == {h \in hs : Running(h)} IN
    /\ pc' = [h \in Handlers |-> IF h \in gone /\ ~InThread(h) THEN "done" ELSE pc[h]]
    /\ out' = [h \in Handlers |-> IF h \in gone /\ ~InThread(h) THEN 0 ELSE out[h]]
    /\ adrift' = adrift \cup {h \in gone : InThread(h)}
    /\ lock' = [lock EXCEPT ![p] = @ \ gone]

\* Slip: only the signal is waited for.
AwaitSignal(p) ==
    /\ phase[p] = "serve" /\ asked[p]
    /\ phase' = [phase EXCEPT ![p] = "recover"]
    /\ polling' = [polling EXCEPT ![p] = "off"]
    /\ asked' = [asked EXCEPT ![p] = FALSE]
    /\ CancelHandlers(p, IF Serial /\ polling[p] = "on" THEN Of(p) ELSE {})
    /\ UNCHANGED <<channel, boots, recovery, next, closed, table>>

\* The first of polling's end and the signal ends the wait.  A signal cancels
\* polling, and with it the handler that a serial channel runs inside of it.
AwaitFirst(p) ==
    /\ phase[p] = "serve" /\ (asked[p] \/ polling[p] # "on")
    /\ phase' = [phase EXCEPT ![p] = "recover"]
    /\ polling' = [polling EXCEPT ![p] = "off"]
    /\ asked' = [asked EXCEPT ![p] = FALSE]
    /\ CancelHandlers(p, IF Serial /\ polling[p] = "on" THEN Of(p) ELSE {})
    /\ UNCHANGED <<channel, boots, recovery, next, closed, table>>

\* Slip: recovery is left to itself while the components are closed.
LeaveRecovery(p) ==
    /\ phase[p] = "recover"
    /\ phase' = [phase EXCEPT ![p] = "close"]
    /\ UNCHANGED <<channel, boots, asked, polling, recovery, next, closed,
                   pc, adrift, out, lock, table>>

\* The recovery is cancelled and awaited, then the transport is closed.
StopRecovery(p) ==
    /\ phase[p] = "recover"
    /\ recovery' = [recovery EXCEPT ![p] = FALSE]
    /\ phase' = [phase EXCEPT ![p] = "close"]
    /\ UNCHANGED <<channel, boots, asked, polling, next, closed,
                   pc, adrift, out, lock, table>>

\* The parts are closed in order; one that fails is logged and left.  With its
\* connection the users table loses what was not committed.
CloseNext(p) ==
    /\ phase[p] = "close" /\ next[p] <= Len(Parts)
    /\ \/ /\ closed' = [closed EXCEPT ![p] = @ \cup {Parts[next[p]]}]
          /\ open' = [open EXCEPT ![p] = IF Parts[next[p]] = "users" THEN {} ELSE @]
       \/ UNCHANGED <<closed, open>>
    /\ next' = [next EXCEPT ![p] = @ + 1]
    /\ UNCHANGED <<channel, boots, phase, asked, polling, recovery,
                   pc, adrift, out, lock, rows, last, made>>

\* After the last part or after five seconds, wherever the closing is then, main
\* returns and asyncio.run cancels the tasks that are left.
Leave(p) ==
    /\ phase[p] = "close"
    /\ phase' = [phase EXCEPT ![p] = "leave"]
    /\ CancelHandlers(p, Of(p))
    /\ UNCHANGED <<channel, boots, asked, polling, recovery, next, closed, table>>

\* Everything in the memory of p is gone.
Gone(p) ==
    /\ phase' = [phase EXCEPT ![p] = "down"]
    /\ polling' = [polling EXCEPT ![p] = "off"]
    /\ recovery' = [recovery EXCEPT ![p] = FALSE]
    /\ asked' = [asked EXCEPT ![p] = FALSE]
    /\ next' = [next EXCEPT ![p] = 1] /\ closed' = [closed EXCEPT ![p] = {}]
    /\ open' = [open EXCEPT ![p] = {}]
    /\ lock' = [lock EXCEPT ![p] = {}]
    /\ pc' = [h \in Handlers |-> IF h \in Of(p) /\ pc[h] # "idle" THEN "done" ELSE pc[h]]
    /\ adrift' = adrift \ Of(p)
    /\ out' = [h \in Handlers |-> IF h \in Of(p) THEN 0 ELSE out[h]]
    /\ UNCHANGED <<channel, boots, rows, last, made>>

\* asyncio.run and the interpreter wait for the threads of the default executor.
Exit(p) ==
    /\ phase[p] = "leave" /\ \A h \in Of(p) : ~InThread(h)
    /\ Gone(p)

Kill(p) == phase[p] # "down" /\ Gone(p)

-----------------------------------------------------------------------------
(* A handler: UserRepository.get_or_create, then its work with the parts.  *)

\* One message at a time on a serial channel.
Begin(h) ==
    LET p == HomeOf[h] IN
    /\ pc[h] = "idle" /\ phase[p] = "serve" /\ polling[p] = "on"
    /\ Serial => \A g \in Of(p) : ~Running(g)
    /\ pc' = [pc EXCEPT ![h] = "lock"]
    /\ UNCHANGED <<life, adrift, out, lock, table>>

\* Slip: the lock is not taken.
PassLock(h) ==
    /\ pc[h] = "lock"
    /\ pc' = [pc EXCEPT ![h] = "select"]
    /\ UNCHANGED <<life, adrift, out, lock, table>>

Lock(h) ==
    /\ pc[h] = "lock" /\ lock[HomeOf[h]] = {}
    /\ lock' = [lock EXCEPT ![HomeOf[h]] = {h}]
    /\ pc' = [pc EXCEPT ![h] = "select"]
    /\ UNCHANGED <<life, adrift, out, table>>

\* The thread of h has ended: a handler that still waits for it goes on at step
\* where with the id found, one that was cancelled is over.
Release(h) == lock' = [lock EXCEPT ![HomeOf[h]] = @ \ {h}]
Return(h, where, id) ==
    /\ pc' = [pc EXCEPT ![h] = IF h \in adrift THEN "done" ELSE where]
    /\ out' = [out EXCEPT ![h] = IF h \in adrift THEN 0 ELSE id]
    /\ adrift' = adrift \ {h}
    /\ IF where = "publish" /\ h \notin adrift THEN UNCHANGED lock ELSE Release(h)

\* The connection is closed: RuntimeError or ProgrammingError.
Shut(h) == "users" \in closed[HomeOf[h]]
Meet(h) == Shut(h) /\ Return(h, "done", 0) /\ UNCHANGED <<life, table>>

Visible(h) == ({rows[UserOf[h]]} \ {0})
                \cup {e[2] : e \in {o \in open[HomeOf[h]] : o[1] = UserOf[h]}}

Select(h) ==
    /\ pc[h] = "select"
    /\ \/ Meet(h)
       \/ /\ ~Shut(h) /\ Visible(h) = {}
          /\ pc' = [pc EXCEPT ![h] = "insert"]
          /\ UNCHANGED <<life, adrift, out, lock, table>>
       \/ /\ ~Shut(h)
          /\ \E id \in Visible(h) : Return(h, "work", id)
          /\ UNCHANGED <<life, table>>

NextId(p) == 1 + last + Cardinality(open[p])
\* Another process with an open transaction makes the insert wait for five
\* seconds, and then fail with OperationalError.
Blocked(p) == \E q \in Procs \ {p} : open[q] # {}

\* The insert.  UNIQUE(channel, external_id) refuses a second row: the transaction
\* of the connection is rolled back and the row of the other process read, which
\* an assert expects to be there.
Insert(h) ==
    LET p == HomeOf[h]  u == UserOf[h] IN
    /\ pc[h] = "insert"
    /\ \/ Meet(h)
       \/ /\ ~Shut(h) /\ Blocked(p)
          /\ Return(h, "done", 0) /\ UNCHANGED <<life, table>>
       \/ /\ ~Shut(h) /\ ~Blocked(p) /\ Visible(h) # {}
          /\ open' = [open EXCEPT ![p] = {}]
          /\ IF rows[u] # 0 THEN Return(h, "work", rows[u]) ELSE Return(h, "done", 0)
          /\ UNCHANGED <<life, rows, last, made>>
       \/ /\ ~Shut(h) /\ ~Blocked(p) /\ Visible(h) = {}
          /\ open' = [open EXCEPT ![p] = @ \cup {<<u, NextId(p)>>}]
          /\ out' = [out EXCEPT ![h] = NextId(p)]
          /\ pc' = [pc EXCEPT ![h] = "commit"]
          /\ UNCHANGED <<life, adrift, lock, rows, last, made>>

\* The commit stores all rows of the transaction.  It fails when a reader keeps
\* the file for five seconds; nobody rolls back then, and the rows stay open.
Commit(h) ==
    LET p == HomeOf[h] IN
    /\ pc[h] = "commit"
    /\ \/ Meet(h)
       \/ /\ ~Shut(h)
          /\ rows' = [u \in Users |-> IF \E e \in open[p] : e[1] = u
                                      THEN (CHOOSE e \in open[p] : e[1] = u)[2] ELSE rows[u]]
          /\ last' = last + Cardinality(open[p])
          /\ open' = [open EXCEPT ![p] = {}]
          /\ Return(h, "publish", out[h])
          /\ UNCHANGED <<life, made>>
       \/ ~Shut(h) /\ Return(h, "done", 0) /\ UNCHANGED <<life, table>>

\* UserCreated, still under the lock.
Publish(h) ==
    /\ pc[h] = "publish"
    /\ made' = [made EXCEPT ![UserOf[h]] = @ + 1]
    /\ pc' = [pc EXCEPT ![h] = "work"]
    /\ Release(h)
    /\ UNCHANGED <<life, adrift, out, rows, open, last>>

\* The rest of the handler: it uses a part, makes a call in a thread, or ends.
Work(h) ==
    /\ pc[h] = "work"
    /\ \E where \in {"thread", "done"} : pc' = [pc EXCEPT ![h] = where]
    /\ out' = [out EXCEPT ![h] = IF pc'[h] = "done" THEN 0 ELSE @]
    /\ UNCHANGED <<life, adrift, lock, table>>

ThreadEnds(h) ==
    /\ pc[h] = "thread"
    /\ Return(h, "work", out[h])
    /\ UNCHANGED <<life, table>>

\* The way of main to its end, and what a thread of h does.
Stopping(p) == AwaitFirst(p) \/ StopRecovery(p) \/ CloseNext(p) \/ Leave(p) \/ Exit(p)
Thread(h) == Select(h) \/ Insert(h) \/ Commit(h) \/ ThreadEnds(h)

Next ==
    \/ \E p \in Procs : \/ Boot(p) \/ Signal(p) \/ PollingEnds(p) \/ RecoveryEnds(p)
                       \/ Stopping(p) \/ Kill(p)
    \/ \E h \in Handlers : Begin(h) \/ Lock(h) \/ Thread(h) \/ Publish(h) \/ Work(h)

Spec == Init /\ [][Next]_vars

\* The event loop comes back to main, and a blocking call returns if calls do:
\* SQLite waits five seconds at most for a lock.  Nothing makes a user write, a
\* signal come or a process start.
FairSpec ==
    /\ Spec
    /\ \A p \in Procs : WF_vars(Stopping(p))
    /\ ThreadsEnd => \A h \in Handlers : WF_vars(Thread(h))

-----------------------------------------------------------------------------
TypeOK ==
    /\ channel \in Channels
    /\ boots \in [Procs -> 0..MaxBoots]
    /\ phase \in [Procs -> {"down", "serve", "recover", "close", "leave"}]
    /\ asked \in [Procs -> BOOLEAN] /\ recovery \in [Procs -> BOOLEAN]
    /\ polling \in [Procs -> {"off", "on", "over"}]
    /\ next \in [Procs -> 1..Len(Parts) + 1] /\ closed \in [Procs -> SUBSET PartSet]
    /\ pc \in [Handlers -> {"idle", "lock", "select", "insert", "commit", "publish",
                            "work", "thread", "done"}]
    /\ adrift \subseteq Handlers
    /\ out \in [Handlers -> Nat]
    /\ lock \in [Procs -> SUBSET Handlers]
    /\ rows \in [Users -> Nat] /\ last \in Nat /\ made \in [Users -> Nat]
    /\ open \in [Procs -> SUBSET (Users \X Nat)]
    /\ \A h \in adrift : InThread(h)

\* Two instances see the same new user at once, transactions fail and processes
\* die anywhere: the event of a new user is published at most once in all, after
\* its row is there, and whoever goes on with an id has the id of that user's row.
CreatedOnce == \A u \in Users : made[u] <= 1 /\ (made[u] = 1 => rows[u] # 0)
IdsAreRows ==
    \A h \in Handlers : pc[h] \in {"publish", "work", "thread"} /\ ~Shut(h) => out[h] \in Visible(h)
RowsDiffer == \A u, v \in Users : rows[u] = rows[v] /\ rows[u] # 0 => u = v
UsersAgree == CreatedOnce /\ IdsAreRows /\ RowsDiffer

\* Parts are closed under nobody who is waited for: not under the recovery, not
\* under polling, and on a channel that handles one message at a time not under
\* a handler either.
ClosedLast ==
    /\ \A p \in Procs : closed[p] # {} /\ phase[p] # "down" =>
          ~recovery[p] /\ polling[p] # "on"
    /\ Serial => \A h \in Handlers : Running(h) => closed[HomeOf[h]] = {}

\* After a signal, or when polling has ended or failed, the process ends, whatever its handlers
\* and their threads are doing.
StopEnds ==
    \A p \in Procs : (phase[p] = "serve" /\ (asked[p] \/ polling[p] = "over"))
                       ~> (phase[p] = "down")
=============================================================================
