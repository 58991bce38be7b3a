--------------------------- MODULE SessionArchive ---------------------------
(***************************************************************************)
(* The life of a dialog session: messages and replies are put in the       *)
(* in-memory log of ConversationStore and, one await later, in the         *)
(* append-only dialog_journal; /new moves the log into memory_chunks,      *)
(* /reset drops it, a crash loses it, and the recovery task of the next    *)
(* start archives whatever the journal still shows as unarchived.          *)
(* Every step below is one segment of a coroutine between two awaits, or   *)
(* one statement that a worker thread runs on the SQLite file.             *)
(***************************************************************************)
EXTENDS Integers, Sequences, FiniteSets, Functions

CONSTANTS
    Users,        \* users of all channels
    Msgs,         \* messages users send; each may get one reply
    News,         \* invocations of /new
    Procs,        \* one process per channel, all on the same memory.db
    Owner,        \* Owner[x]: the user who sends message or command x
    ChatOf,       \* ChatOf[m]: the chat of message m
    ProcOf,       \* ProcOf[u]: the process that serves user u
    SerialProcs,  \* processes that handle one update at a time (MAX, console)
    Recoverers,   \* processes that start the recovery task (Telegram, MAX)
    Misfiled,     \* users whose external_id fails str.isdigit (console: "-1")
    Chars,        \* Chars[e]: length of the stripped text of entry e
    MinChars,     \* JOURNAL_RECOVERY_MIN_CHARS
    LogMax,       \* SESSION_LOG_MAX_MESSAGES
    Slots,        \* JOURNAL_RECOVERY_CONCURRENCY
    MaxCrashes,   \* bound: crashes or restarts explored
    MaxResets     \* bound: /reset commands explored

\* What a dialog is made of: the user's message and the assistant's reply.
Entry == Msgs \X {"user", "assistant"}

ASSUME ConstantsAssumption ==
    /\ Owner \in [Msgs \cup News -> Users]
    /\ ProcOf \in [Users -> Procs]
    /\ SerialProcs \subseteq Procs /\ Recoverers \subseteq Procs
    /\ Misfiled \subseteq Users
    /\ Chars \in [Entry -> Nat]
    /\ MinChars \in Nat
    /\ LogMax \in Nat \ {0} /\ Slots \in Nat \ {0}
    /\ MaxCrashes \in Nat /\ MaxResets \in Nat

ASSUME ChatAssumption == DOMAIN ChatOf = Msgs

VARIABLES
    up,         \* up[p]: process p runs
    log,        \* ConversationStore._session_log, by user
    cid,        \* ConversationStore._conversation_ids, 0 when absent
    issued,     \* how many conversation ids were generated (uuid4: never twice)
    turn,       \* turn[m]: where the handler of message m is
    new,        \* new[n]: where the handler of /new n is, its snapshot and id
    journaled,  \* rows of dialog_journal
    archived,   \* rows whose archived_at is set
    memory,     \* batches of memory_chunks, in insertion order
    phase, listed, waiting, jobs, settled, failed,  \* the recovery task of p
    crashes, resets,
    home,       \* history: the session in which an entry was recorded
    evicted,    \* history: entries dropped from the head of a full log
    late,       \* history: rows inserted while their session was being archived
    worthless   \* history: rows closed as empty or below MinChars

recovery == <<phase, listed, waiting, jobs, settled, failed>>
store    == <<log, cid, issued, home, evicted>>
disk     == <<journaled, archived, memory, late, worthless>>
bounds   == <<crashes, resets>>
vars     == <<up, turn, new, recovery, store, disk, bounds>>

-----------------------------------------------------------------------------
OwnerOf(e) == Owner[e[1]]
MsgEntry(m) == <<m, "user">>
ReplyEntry(m) == <<m, "assistant">>

InTurn == {"asked", "thinking", "answered"}
InNew  == {"archiving", "marking", "closing"}
Finished(pc) == [pc |-> pc, cid |-> 0, hist |-> {}]

TurnOf(p) == {m \in Msgs : ProcOf[Owner[m]] = p}
NewOf(p)  == {n \in News : ProcOf[Owner[n]] = p}

Busy(p) == \/ \E m \in TurnOf(p) : turn[m] \in InTurn
           \/ \E n \in NewOf(p) : new[n].pc \in InNew

\* Telegram runs every update as a task of its own; MAX and the console
\* dispatch the next update only after the handler of the last returned.
CanStart(p) == up[p] /\ (p \in SerialProcs => ~Busy(p))

\* Slip: entries that never reached the journal are taken for rows.
RowsOfLog(u, c) == {e \in Entry : OwnerOf(e) = u /\ home[e] = c}
\* Slip: the WHERE clause forgets the session.
RowsOfUser(u, c) == {e \in journaled : OwnerOf(e) = u}
\* SELECT ... WHERE user_id = ? AND conversation_id = ?
RowsOf(u, c) == {e \in journaled : OwnerOf(e) = u /\ home[e] = c}

\* An archiving operation on session c of u has read its input and has not
\* yet marked the rows.
InFlight(u, c) ==
    \/ \E n \in News : /\ new[n].pc \in {"archiving", "marking"}
                       /\ Owner[n] = u /\ new[n].cid = c
    \/ \E p \in Procs : \E j \in jobs[p] : j.user = u /\ j.cid = c

\* _append_session_log: append, then drop the head above the limit.
Full(s) == Len(s) >= LogMax
PushLog(s, e) == Append(IF Full(s) THEN Tail(s) ELSE s, e)
Dropped(s) == IF Full(s) THEN {s[1]} ELSE {}

\* current_conversation_id generates the id of a user who has none.
CurrentCid(u) == IF cid[u] = 0 THEN issued + 1 ELSE cid[u]

\* Slip: rotate_conversation_id leaves _session_log alone.
OpenSessionKeepsLog(u) ==
    /\ cid' = [cid EXCEPT ![u] = issued + 1]
    /\ issued' = issued + 1
    /\ UNCHANGED log

\* Slip: clear without rotate_conversation_id.
OpenSessionKeepsId(u) == log' = [log EXCEPT ![u] = <<>>] /\ UNCHANGED <<cid, issued>>

\* clear and rotate_conversation_id: no log, and a session of a new id.
OpenSession(u) ==
    /\ log' = [log EXCEPT ![u] = <<>>]
    /\ cid' = [cid EXCEPT ![u] = issued + 1]
    /\ issued' = issued + 1

Batch(u, c, hist) == [user |-> u, cid |-> c, covers |-> hist]

-----------------------------------------------------------------------------
Init ==
    /\ up = [p \in Procs |-> TRUE]
    /\ log = [u \in Users |-> <<>>]
    /\ cid = [u \in Users |-> 0]
    /\ issued = 0
    /\ turn = [m \in Msgs |-> "idle"]
    /\ new = [n \in News |-> Finished("idle")]
    /\ journaled = {} /\ archived = {} /\ memory = <<>>
    /\ phase = [p \in Procs |-> IF p \in Recoverers THEN "delay" ELSE "done"]
    /\ listed = [p \in Procs |-> {}]
    /\ waiting = [p \in Procs |-> {}]
    /\ jobs = [p \in Procs |-> {}]
    /\ settled = [p \in Procs |-> {}]
    /\ failed = [p \in Procs |-> {}]
    /\ crashes = 0 /\ resets = 0
    /\ home = [e \in Entry |-> 0]
    /\ evicted = {} /\ late = {} /\ worthless = {}

-----------------------------------------------------------------------------
(* A message and its reply.                                                *)

\* on_message_received / on_response_generated, and the first synchronous
\* part of their journal subscribers: the entry enters the log of the current
\* session and the id of that session is read for the row to come.  The
\* console's subscriber files the entry under a string key nobody reads.
Record(u, e) ==
    LET c == CurrentCid(u) IN
    /\ cid' = [cid EXCEPT ![u] = c]
    /\ issued' = IF cid[u] = 0 THEN issued + 1 ELSE issued
    /\ home' = [home EXCEPT ![e] = c]
    /\ IF u \in Misfiled
       THEN UNCHANGED <<log, evicted>>
       ELSE /\ log' = [log EXCEPT ![u] = PushLog(@, e)]
            /\ evicted' = evicted \cup Dropped(log[u])

\* journal.append in a worker thread.
AppendRow(e) ==
    /\ journaled' = journaled \cup {e}
    /\ late' = IF InFlight(OwnerOf(e), home[e]) THEN late \cup {e} ELSE late

\* The handler publishes MessageReceived.
Receive(m) ==
    /\ CanStart(ProcOf[Owner[m]])
    /\ turn[m] = "idle"
    /\ Record(Owner[m], MsgEntry(m))
    /\ turn' = [turn EXCEPT ![m] = "asked"]
    /\ UNCHANGED <<up, new, recovery, disk, bounds>>

\* The row is written, or the error is logged and swallowed.
JournalMessage(m) ==
    /\ turn[m] = "asked"
    /\ turn' = [turn EXCEPT ![m] = "thinking"]
    /\ \/ AppendRow(MsgEntry(m))
       \/ UNCHANGED <<journaled, late>>
    /\ UNCHANGED <<up, new, recovery, store, archived, memory, worthless, bounds>>

\* handle_user_task returned and the handler publishes ResponseGenerated,
\* into the session that is current by now.
Reply(m) ==
    /\ turn[m] = "thinking"
    /\ Record(Owner[m], ReplyEntry(m))
    /\ turn' = [turn EXCEPT ![m] = "answered"]
    /\ UNCHANGED <<up, new, recovery, disk, bounds>>

\* The text was too long or the model failed: no reply is published.
GiveUp(m) ==
    /\ turn[m] = "thinking"
    /\ turn' = [turn EXCEPT ![m] = "done"]
    /\ UNCHANGED <<up, new, recovery, store, disk, bounds>>

JournalReply(m) ==
    /\ turn[m] = "answered"
    /\ turn' = [turn EXCEPT ![m] = "done"]
    /\ \/ AppendRow(ReplyEntry(m))
       \/ UNCHANGED <<journaled, late>>
    /\ UNCHANGED <<up, new, recovery, store, archived, memory, worthless, bounds>>

TurnStep(m) == Receive(m) \/ JournalMessage(m) \/ Reply(m) \/ GiveUp(m) \/ JournalReply(m)

-----------------------------------------------------------------------------
(* /new and /reset.                                                        *)

\* An empty log: only the id is rotated.
NewEmpty(n) ==
    /\ CanStart(ProcOf[Owner[n]])
    /\ new[n].pc = "idle"
    /\ log[Owner[n]] = <<>>
    /\ OpenSession(Owner[n])
    /\ new' = [new EXCEPT ![n] = Finished("done")]
    /\ UNCHANGED <<up, turn, recovery, disk, bounds, home, evicted>>

\* The log and the id are read, then the handler awaits Archiver.archive.
NewStart(n) ==
    /\ CanStart(ProcOf[Owner[n]])
    /\ new[n].pc = "idle"
    /\ log[Owner[n]] # <<>>
    /\ new' = [new EXCEPT ![n] = [pc   |-> "archiving",
                                  cid  |-> cid[Owner[n]],
                                  hist |-> Range(log[Owner[n]])]]
    /\ UNCHANGED <<up, turn, recovery, store, disk, bounds>>

\* Summary, embeddings and insert_batch succeeded.
NewArchived(n) ==
    /\ new[n].pc = "archiving"
    /\ memory' = Append(memory, Batch(Owner[n], new[n].cid, new[n].hist))
    /\ new' = [new EXCEPT ![n].pc = "marking"]
    /\ UNCHANGED <<up, turn, recovery, store, journaled, archived, late, worthless, bounds>>

\* Slip: the failure is logged and the session is closed all the same.
NewFailedGoesOn(n) ==
    /\ new[n].pc = "archiving"
    /\ new' = [new EXCEPT ![n].pc = "marking"]
    /\ UNCHANGED <<up, turn, recovery, store, disk, bounds>>

\* Any step of archive raised: the session is kept as it is.
NewFailed(n) ==
    /\ new[n].pc = "archiving"
    /\ new' = [new EXCEPT ![n] = Finished("done")]
    /\ UNCHANGED <<up, turn, recovery, store, disk, bounds>>

\* journal.mark_archived, whose failure is logged and ignored.
NewMark(n) ==
    /\ new[n].pc = "marking"
    /\ new' = [new EXCEPT ![n].pc = "closing"]
    /\ \/ archived' = archived \cup RowsOf(Owner[n], new[n].cid)
       \/ UNCHANGED archived
    /\ UNCHANGED <<up, turn, recovery, store, journaled, memory, late, worthless, bounds>>

\* Slip: the session is closed only when its process has nothing else to do.
NewCloseWhenIdle(n) ==
    /\ new[n].pc = "closing"
    /\ ~Busy(ProcOf[Owner[n]])
    /\ OpenSession(Owner[n])
    /\ new' = [new EXCEPT ![n] = Finished("done")]
    /\ UNCHANGED <<up, turn, recovery, disk, bounds, home, evicted>>

\* clear, rotate_conversation_id and the answer.
NewClose(n) ==
    /\ new[n].pc = "closing"
    /\ OpenSession(Owner[n])
    /\ new' = [new EXCEPT ![n] = Finished("done")]
    /\ UNCHANGED <<up, turn, recovery, disk, bounds, home, evicted>>

NewStep(n) == \/ NewEmpty(n) \/ NewStart(n) \/ NewArchived(n)
              \/ NewFailed(n) \/ NewMark(n) \/ NewClose(n)

\* /reset: the log goes, the rows stay an unarchived debt.
Reset(u) ==
    /\ CanStart(ProcOf[u])
    /\ resets < MaxResets
    /\ OpenSession(u)
    /\ resets' = resets + 1
    /\ UNCHANGED <<up, turn, new, recovery, disk, crashes, home, evicted>>

-----------------------------------------------------------------------------
(* The recovery task of process p.  A session is keyed by user, chat and id *)
(* when it is listed, but read and marked by user and id.                   *)

Key(e) == [user |-> OwnerOf(e), chat |-> ChatOf[e[1]], cid |-> home[e]]
KeyOf(j) == [user |-> j.user, chat |-> j.chat, cid |-> j.cid]
Pending == journaled \ archived

ListPending(p) ==
    /\ up[p] /\ phase[p] = "delay"
    /\ \/ /\ phase' = [phase EXCEPT ![p] = "running"]
          /\ listed' = [listed EXCEPT ![p] = {Key(e) : e \in Pending}]
          /\ waiting' = [waiting EXCEPT ![p] = {Key(e) : e \in Pending}]
       \/ /\ phase' = [phase EXCEPT ![p] = "unlisted"]  \* the query raised
          /\ UNCHANGED <<listed, waiting>>
    /\ UNCHANGED <<up, turn, new, jobs, settled, failed, store, disk, bounds>>

\* _entries_to_history drops blank rows; a short rest is not worth a summary.
History(rows) == {e \in rows : Chars[e] > 0}
Junk(hist) == hist = {} \/ SumFunctionOnSet(Chars, hist) < MinChars

\* The semaphore around one session's recovery.
FreeSlot(p) == Cardinality(jobs[p]) < Slots

\* A session gets a slot: every row of it is read, archived ones too.
JobStart(p, k) ==
    /\ up[p] /\ phase[p] = "running"
    /\ k \in waiting[p]
    /\ FreeSlot(p)
    /\ waiting' = [waiting EXCEPT ![p] = @ \ {k}]
    /\ LET rows == RowsOf(k.user, k.cid)
           hist == History(rows)
       IN /\ jobs' = [jobs EXCEPT ![p] = @ \cup
                {[user |-> k.user, chat |-> k.chat, cid |-> k.cid, hist |-> hist,
                  pc |-> IF Junk(hist) THEN "closing" ELSE "archiving"]}]
          /\ worthless' = worthless \cup (IF Junk(hist) THEN rows ELSE rows \ hist)
    /\ UNCHANGED <<up, turn, new, phase, listed, settled, failed, store,
                   journaled, archived, memory, late, bounds>>

\* Reading the rows failed: counted, and the next session goes on.
JobUnread(p, k) ==
    /\ up[p] /\ phase[p] = "running"
    /\ k \in waiting[p]
    /\ FreeSlot(p)
    /\ waiting' = [waiting EXCEPT ![p] = @ \ {k}]
    /\ failed' = [failed EXCEPT ![p] = @ \cup {k}]
    /\ UNCHANGED <<up, turn, new, phase, listed, jobs, settled, store, disk, bounds>>

JobArchived(p, j) ==
    /\ j \in jobs[p] /\ j.pc = "archiving"
    /\ memory' = Append(memory, Batch(j.user, j.cid, j.hist))
    /\ jobs' = [jobs EXCEPT ![p] = (@ \ {j}) \cup {[j EXCEPT !.pc = "marking"]}]
    /\ UNCHANGED <<up, turn, new, phase, listed, waiting, settled, failed, store,
                   journaled, archived, late, worthless, bounds>>

\* mark_archived closes every row of the session, whatever was read before.
JobMarked(p, j) ==
    /\ j \in jobs[p] /\ j.pc \in {"marking", "closing"}
    /\ archived' = archived \cup RowsOf(j.user, j.cid)
    /\ jobs' = [jobs EXCEPT ![p] = @ \ {j}]
    /\ settled' = [settled EXCEPT ![p] = @ \cup {KeyOf(j)}]
    /\ UNCHANGED <<up, turn, new, phase, listed, waiting, failed, store,
                   journaled, memory, late, worthless, bounds>>

\* Slip: the failure is not counted.
JobFailedSilently(p, j) ==
    /\ j \in jobs[p]
    /\ jobs' = [jobs EXCEPT ![p] = @ \ {j}]
    /\ UNCHANGED <<up, turn, new, phase, listed, waiting, settled, failed, store, disk, bounds>>

\* archive or mark_archived raised: counted, nothing is marked.
JobFailed(p, j) ==
    /\ j \in jobs[p]
    /\ jobs' = [jobs EXCEPT ![p] = @ \ {j}]
    /\ failed' = [failed EXCEPT ![p] = @ \cup {KeyOf(j)}]
    /\ UNCHANGED <<up, turn, new, phase, listed, waiting, settled, store, disk, bounds>>

\* Slip: the first failure ends the gather.
FinishOnFailure(p) ==
    /\ phase[p] = "running"
    /\ failed[p] # {} \/ (waiting[p] = {} /\ jobs[p] = {})
    /\ phase' = [phase EXCEPT ![p] = "done"]
    /\ UNCHANGED <<up, turn, new, listed, waiting, jobs, settled, failed, store, disk, bounds>>

FinishRecovery(p) ==
    /\ phase[p] = "running"
    /\ waiting[p] = {} /\ jobs[p] = {}
    /\ phase' = [phase EXCEPT ![p] = "done"]
    /\ UNCHANGED <<up, turn, new, listed, waiting, jobs, settled, failed, store, disk, bounds>>

RecoveryStep(p) ==
    \/ ListPending(p)
    \/ \E k \in waiting[p] : JobStart(p, k) \/ JobUnread(p, k)
    \/ \E j \in jobs[p] : JobArchived(p, j) \/ JobMarked(p, j) \/ JobFailed(p, j)
    \/ FinishRecovery(p)

-----------------------------------------------------------------------------
(* A process stops anywhere (kill, or shutdown that cancels its tasks) and  *)
(* starts again with empty stores; the database file stays.                 *)

Crash(p) ==
    /\ up[p] /\ crashes < MaxCrashes
    /\ crashes' = crashes + 1
    /\ up' = [up EXCEPT ![p] = FALSE]
    /\ log' = [u \in Users |-> IF ProcOf[u] = p THEN <<>> ELSE log[u]]
    /\ cid' = [u \in Users |-> IF ProcOf[u] = p THEN 0 ELSE cid[u]]
    /\ turn' = [m \in Msgs |-> IF m \in TurnOf(p) /\ turn[m] \in InTurn
                               THEN "lost" ELSE turn[m]]
    /\ new' = [n \in News |-> IF n \in NewOf(p) /\ new[n].pc \in InNew
                              THEN Finished("lost") ELSE new[n]]
    /\ phase' = [phase EXCEPT ![p] = "down"]
    /\ listed' = [listed EXCEPT ![p] = {}]
    /\ waiting' = [waiting EXCEPT ![p] = {}]
    /\ jobs' = [jobs EXCEPT ![p] = {}]
    /\ settled' = [settled EXCEPT ![p] = {}]
    /\ failed' = [failed EXCEPT ![p] = {}]
    /\ UNCHANGED <<issued, home, evicted, disk, resets>>

Restart(p) ==
    /\ ~up[p]
    /\ up' = [up EXCEPT ![p] = TRUE]
    /\ phase' = [phase EXCEPT ![p] = IF p \in Recoverers THEN "delay" ELSE "done"]
    /\ UNCHANGED <<turn, new, listed, waiting, jobs, settled, failed, store, disk, bounds>>

Next ==
    \/ \E m \in Msgs : TurnStep(m)
    \/ \E n \in News : NewStep(n)
    \/ \E u \in Users : Reset(u)
    \/ \E p \in Procs : RecoveryStep(p) \/ Crash(p) \/ Restart(p)

Spec == Init /\ [][Next]_vars

\* Every await of a handler or of the recovery task returns or raises: model
\* calls have a timeout and statements on the file end.  Nothing is assumed
\* of what users send, of crashes or of restarts.
FairSpec ==
    /\ Spec
    /\ \A m \in Msgs : WF_vars(turn[m] # "idle" /\ TurnStep(m))
    /\ \A n \in News : WF_vars(new[n].pc # "idle" /\ NewStep(n))
    /\ \A p \in Procs : WF_vars(RecoveryStep(p))

-----------------------------------------------------------------------------
(* What must hold.                                                         *)

SessionKeys == [user : Users, chat : Range(ChatOf), cid : Nat]
Jobs == [user : Users, chat : Range(ChatOf), cid : Nat, hist : SUBSET Entry,
         pc : {"archiving", "marking", "closing"}]
NewRecords == [pc : InNew \cup {"idle", "done", "lost"}, cid : Nat, hist : SUBSET Entry]
Batches == [user : Users, cid : Nat, covers : SUBSET Entry]

\* Every variable stays in its type.
TypeOK ==
    /\ up \in [Procs -> BOOLEAN]
    /\ log \in [Users -> Seq(Entry)]
    /\ cid \in [Users -> Nat] /\ issued \in Nat
    /\ turn \in [Msgs -> InTurn \cup {"idle", "done", "lost"}]
    /\ new \in [News -> NewRecords]
    /\ journaled \subseteq Entry /\ archived \subseteq journaled
    /\ memory \in Seq(Batches)
    /\ phase \in [Procs -> {"delay", "running", "done", "unlisted", "down"}]
    /\ listed \in [Procs -> SUBSET SessionKeys]
    /\ waiting \in [Procs -> SUBSET SessionKeys]
    /\ jobs \in [Procs -> SUBSET Jobs]
    /\ settled \in [Procs -> SUBSET SessionKeys]
    /\ failed \in [Procs -> SUBSET SessionKeys]
    /\ crashes \in Nat /\ resets \in Nat
    /\ home \in [Entry -> Nat]
    /\ evicted \subseteq Entry /\ late \subseteq Entry /\ worthless \subseteq Entry

Covered == UNION {memory[i].covers : i \in DOMAIN memory}

\* A row leaves the debt only if it is in long-term memory, or was closed as
\* junk, or was said after the snapshot of an archiving operation that was
\* still running (late), or had been pushed out of a full session log.  In
\* particular a failed or interrupted archiving, a /reset, a crash between
\* any two steps and two /new of one user at once lose no other row.
ArchivedRowsAreKept == archived \subseteq Covered \cup late \cup worthless \cup evicted

\* A batch of memory_chunks holds entries of its own user that were said in
\* the session it is filed under: /new, /reset, crashes and replies that come
\* after a rotation never carry an entry over into the archive of another.
BatchesAreOneSession ==
    \A i \in DOMAIN memory : \A e \in memory[i].covers :
        OwnerOf(e) = memory[i].user /\ home[e] = memory[i].cid

\* Whatever the journal holds of the current session of a user, the log that
\* /new is going to archive holds too, unless the log overflowed: the two
\* records of a dialog never diverge while the session is open.
LogHoldsSession(U) ==
    \A u \in U : \A e \in RowsOf(u, cid[u]) : e \in Range(log[u]) \cup evicted
SessionLogComplete == LogHoldsSession(Users \ Misfiled)

\* Every session of the recovery list is in exactly one place: still waiting,
\* being archived, settled or failed, so that the summary the task reports
\* adds up to the sessions it found.
Working(p) == {KeyOf(j) : j \in jobs[p]}
RecoveryAccounts ==
    \A p \in Procs :
        /\ listed[p] = waiting[p] \cup Working(p) \cup settled[p] \cup failed[p]
        /\ waiting[p] \cap (Working(p) \cup settled[p] \cup failed[p]) = {}
        /\ Working(p) \cap (settled[p] \cup failed[p]) = {}
        /\ settled[p] \cap failed[p] = {}
        /\ Cardinality(jobs[p]) <= Slots

\* A row that is debt when the recovery task wakes up is paid by that task,
\* unless its session is reported as failed, the list cannot be read or the
\* process stops: one broken session does not keep the others from it.
DebtIsPaid ==
    \A p \in Procs : \A e \in Entry :
        (phase[p] = "delay" /\ e \in Pending)
            ~> (e \in archived \/ phase[p] \in {"down", "unlisted"} \/ Key(e) \in failed[p])

\* /new always comes back to the user, whatever else runs.
NewReturns == \A n \in News : (new[n].pc \in InNew) ~> (new[n].pc \in {"done", "lost"})

-----------------------------------------------------------------------------
(* The inductive invariant behind ArchivedRowsAreKept and                  *)
(* BatchesAreOneSession.                                                   *)

Said == {e \in Entry : home[e] # 0}
OfSession(hist, u, c) == \A e \in hist : OwnerOf(e) = u /\ home[e] = c /\ c # 0

\* Ids come from one counter, and an entry is recorded once.
IdsInv ==
    /\ \A u \in Users : cid[u] <= issued
    /\ \A e \in Entry : home[e] <= issued
    /\ \A m \in Msgs : turn[m] = "idle" => home[MsgEntry(m)] = 0
    /\ \A m \in Msgs : turn[m] \in {"idle", "asked", "thinking"} => home[ReplyEntry(m)] = 0
    /\ \A m \in Msgs : turn[m] = "asked" => home[MsgEntry(m)] # 0
    /\ \A m \in Msgs : turn[m] = "answered" => home[ReplyEntry(m)] # 0
    /\ journaled \subseteq Said
    /\ \A p \in Procs : \A k \in waiting[p] : k.cid # 0

\* The log is the current session, whole but for what overflowed.
LogInv ==
    /\ \A u \in Users : OfSession(Range(log[u]), u, cid[u])
    /\ \A u \in Misfiled : log[u] = <<>>
    /\ \A u \in Users \ Misfiled : \A e \in Said :
          OwnerOf(e) = u /\ home[e] = cid[u] => e \in Range(log[u]) \cup evicted

\* What a running /new holds: the rows of its session that are not late.
NewInv ==
    \A n \in News : new[n].pc \in {"archiving", "marking"} =>
        /\ OfSession(new[n].hist, Owner[n], new[n].cid)
        /\ RowsOf(Owner[n], new[n].cid) \subseteq new[n].hist \cup late \cup evicted
        /\ new[n].pc = "marking" => new[n].hist \subseteq Covered

\* What a running recovery holds.
JobInv ==
    \A p \in Procs : \A j \in jobs[p] :
        /\ OfSession(j.hist, j.user, j.cid)
        /\ j.pc \in {"archiving", "marking"} =>
              RowsOf(j.user, j.cid) \subseteq j.hist \cup late \cup worthless
        /\ j.pc = "marking" => j.hist \subseteq Covered
        /\ j.pc = "closing" => RowsOf(j.user, j.cid) \subseteq late \cup worthless

BatchInv == \A i \in DOMAIN memory : OfSession(memory[i].covers, memory[i].user, memory[i].cid)

ArchiveInv == /\ TypeOK /\ IdsInv /\ LogInv /\ NewInv /\ JobInv /\ BatchInv
              /\ ArchivedRowsAreKept

-----------------------------------------------------------------------------
\* What the code's documents promise and it does not keep (see the findings).

\* A dialog stays in the journal until it is archived: a row with archived_at
\* is in memory_chunks, or is going to be (its session is still open), unless
\* it was worthless.
JournalUntilArchived ==
    \A e \in archived : e \in Covered \cup worthless \cup evicted \cup Range(log[OwnerOf(e)])

\* What /new or recovery archived is not archived a second time.
ArchivedOnce ==
    \A i, j \in DOMAIN memory : i # j => memory[i].covers \cap memory[j].covers = {}

\* /new sees the whole session, on every channel.
NewSeesSession == LogHoldsSession(Users)

=============================================================================
