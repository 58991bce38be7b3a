------------------------ MODULE SessionArchiveProofs ------------------------
(***************************************************************************)
(* Theorems about SessionArchive, for every choice of its constants: the   *)
(* invariants of the log, the journal and the archive, the accounts of the *)
(* recovery task, and that the task and /new come to their end.            *)
(***************************************************************************)
EXTENDS SessionArchive, FiniteSetTheorems, TLAPS

\* What PushLog does to the entries of a log: nothing but the new entry comes
\* in, and nothing but the dropped head goes out.
LEMMA PushLogLemma ==
    ASSUME NEW s \in Seq(Entry), NEW e \in Entry
    PROVE  /\ PushLog(s, e) \in Seq(Entry)
           /\ Range(PushLog(s, e)) \subseteq Range(s) \cup {e}
           /\ e \in Range(PushLog(s, e))
           /\ Range(s) \subseteq Range(PushLog(s, e)) \cup Dropped(s)
           /\ Dropped(s) \subseteq Entry
<1> DEFINE t == IF Full(s) THEN Tail(s) ELSE s
<1>1. Full(s) => Len(s) > 0
  BY ConstantsAssumption DEF Full
<1>2. t \in Seq(Entry)
  BY <1>1
<1>3. Range(t) \subseteq Range(s)
  <2>1. CASE Full(s)
    BY <1>1, <2>1 DEF Range
  <2>2. CASE ~Full(s)
    BY <2>2
  <2> QED BY <2>1, <2>2
<1>4. Range(s) \subseteq Range(t) \cup Dropped(s)
  <2>1. CASE Full(s)
    <3> SUFFICES ASSUME NEW i \in 1..Len(s), s[i] # s[1]
                 PROVE  s[i] \in Range(t)
      BY <2>1 DEF Range, Dropped
    <3>1. i - 1 \in 1..Len(t) /\ t[i - 1] = s[i]
      BY <1>1, <2>1
    <3>2. DOMAIN t = 1..Len(t)
      BY <1>2
    <3> HIDE DEF t
    <3> QED BY <3>1, <3>2 DEF Range
  <2>2. CASE ~Full(s)
    BY <2>2
  <2> QED BY <2>1, <2>2
<1>5. /\ Append(t, e) \in Seq(Entry)
      /\ Range(Append(t, e)) = Range(t) \cup {e}
  <2>1. Append(t, e) \in Seq(Entry) /\ Len(Append(t, e)) = Len(t) + 1
    BY <1>2
  <2>2. \A i \in 1..Len(t) : Append(t, e)[i] = t[i]
    BY <1>2
  <2>3. Append(t, e)[Len(t) + 1] = e
    BY <1>2
  <2>4. DOMAIN Append(t, e) = 1..(Len(t) + 1) /\ DOMAIN t = 1..Len(t) /\ Len(t) \in Nat
    BY <1>2, <2>1
  <2> HIDE DEF t
  <2> QED BY <2>1, <2>2, <2>3, <2>4 DEF Range
<1>6. Dropped(s) \subseteq Entry
  BY <1>1 DEF Dropped
<1> QED BY <1>3, <1>4, <1>5, <1>6 DEF PushLog

\* A batch appended to memory_chunks covers what it covers, and takes nothing
\* away from the others.
LEMMA AppendBatchLemma ==
    ASSUME NEW s \in Seq(Batches), NEW b \in Batches
    PROVE  /\ Append(s, b) \in Seq(Batches)
           /\ DOMAIN Append(s, b) = DOMAIN s \cup {Len(s) + 1}
           /\ Append(s, b)[Len(s) + 1] = b
           /\ \A i \in DOMAIN s : Append(s, b)[i] = s[i]
OBVIOUS

-----------------------------------------------------------------------------
\* Types.

LEMMA InitTyped == Init => TypeOK
BY ConstantsAssumption
DEF Init, TypeOK, Finished, NewRecords, InTurn, InNew, SessionKeys, Jobs, Batches, Entry

\* Recording an entry keeps the store typed.
LEMMA RecordTyped ==
    ASSUME TypeOK, NEW u \in Users, NEW e \in Entry, Record(u, e)
    PROVE  /\ log' \in [Users -> Seq(Entry)] /\ cid' \in [Users -> Nat] /\ issued' \in Nat
           /\ home' \in [Entry -> Nat] /\ evicted' \subseteq Entry
<1>1. log[u] \in Seq(Entry)
  BY DEF TypeOK
<1>2. PushLog(log[u], e) \in Seq(Entry) /\ Dropped(log[u]) \subseteq Entry
  BY <1>1, PushLogLemma
<1>3. CurrentCid(u) \in Nat
  BY DEF TypeOK, CurrentCid
<1>4. cid' \in [Users -> Nat] /\ issued' \in Nat /\ home' \in [Entry -> Nat]
  BY <1>3 DEF TypeOK, Record
<1>5. log' \in [Users -> Seq(Entry)] /\ evicted' \subseteq Entry
  <2>1. CASE u \in Misfiled
    BY <2>1 DEF TypeOK, Record
  <2>2. CASE u \notin Misfiled
    <3>1. log' = [log EXCEPT ![u] = PushLog(log[u], e)] /\ evicted' = evicted \cup Dropped(log[u])
      BY <2>2 DEF Record
    <3> QED BY <3>1, <1>2 DEF TypeOK
  <2> QED BY <2>1, <2>2
<1> QED BY <1>4, <1>5

\* The stores keep their types.
LEMMA NextTyped == TypeOK /\ [Next]_vars => TypeOK'
<1> SUFFICES ASSUME TypeOK, [Next]_vars PROVE TypeOK'
  OBVIOUS
<1> USE DEF bounds, store, disk, recovery
<1>1. ASSUME NEW m \in Msgs, TurnStep(m) PROVE TypeOK'
  <2>1. MsgEntry(m) \in Entry /\ ReplyEntry(m) \in Entry /\ (m \in Msgs => Owner[m] \in Users)
    BY ConstantsAssumption DEF MsgEntry, ReplyEntry, Entry
  <2>2. CASE Receive(m)
    <3>1. Record(Owner[m], MsgEntry(m))
      BY <2>2 DEF Receive
    <3> QED BY <2>1, <2>2, <3>1, RecordTyped DEF Receive, TypeOK, InTurn
  <2>3. CASE JournalMessage(m)
    BY <2>1, <2>3 DEF JournalMessage, AppendRow, TypeOK, InTurn
  <2>4. CASE Reply(m)
    <3>1. Record(Owner[m], ReplyEntry(m))
      BY <2>4 DEF Reply
    <3> QED BY <2>1, <2>4, <3>1, RecordTyped DEF Reply, TypeOK, InTurn
  <2>5. CASE GiveUp(m)
    BY <2>5 DEF GiveUp, TypeOK, InTurn
  <2>6. CASE JournalReply(m)
    BY <2>1, <2>6 DEF JournalReply, AppendRow, TypeOK, InTurn
  <2> QED BY <1>1, <2>2, <2>3, <2>4, <2>5, <2>6 DEF TurnStep
<1>2. ASSUME NEW n \in News, NewStep(n) PROVE TypeOK'
  <2>1. Owner[n] \in Users
    BY ConstantsAssumption
  <2>2. CASE NewEmpty(n)
    BY <2>1, <2>2 DEF NewEmpty, OpenSession, Finished, TypeOK, NewRecords, InNew
  <2>3. CASE NewStart(n)
    BY <2>1, <2>3 DEF NewStart, TypeOK, NewRecords, InNew, Range
  <2>4. CASE NewArchived(n)
    <3>1. Batch(Owner[n], new[n].cid, new[n].hist) \in Batches
      BY <2>1 DEF Batch, Batches, TypeOK, NewRecords
    <3>2. memory' \in Seq(Batches)
      BY <2>4, <3>1, AppendBatchLemma DEF NewArchived, TypeOK
    <3>3. new' \in [News -> NewRecords]
      BY <2>4 DEF NewArchived, TypeOK, NewRecords, InNew
    <3> QED BY <2>4, <3>2, <3>3 DEF NewArchived, TypeOK
  <2>5. CASE NewFailed(n)
    BY <2>5 DEF NewFailed, Finished, TypeOK, NewRecords, InNew
  <2>6. CASE NewMark(n)
    BY <2>6 DEF NewMark, TypeOK, NewRecords, InNew, RowsOf
  <2>7. CASE NewClose(n)
    BY <2>1, <2>7 DEF NewClose, OpenSession, Finished, TypeOK, NewRecords, InNew
  <2> QED BY <1>2, <2>2, <2>3, <2>4, <2>5, <2>6, <2>7 DEF NewStep
<1>3. ASSUME NEW u \in Users, Reset(u) PROVE TypeOK'
  BY <1>3 DEF Reset, OpenSession, TypeOK
<1>4. ASSUME NEW p \in Procs, RecoveryStep(p) PROVE TypeOK'
  <2>1. CASE ListPending(p)
    <3>1. {Key(e) : e \in Pending} \subseteq SessionKeys
      BY ConstantsAssumption, ChatAssumption
      DEF Key, Pending, SessionKeys, OwnerOf, TypeOK, Entry, Range
    <3> DEFINE keys == {Key(e) : e \in Pending}
    <3>2. \/ phase' = [phase EXCEPT ![p] = "running"] /\ listed' = [listed EXCEPT ![p] = keys]
             /\ waiting' = [waiting EXCEPT ![p] = keys]
          \/ phase' = [phase EXCEPT ![p] = "unlisted"] /\ UNCHANGED <<listed, waiting>>
      BY <2>1 DEF ListPending
    <3> HIDE DEF keys
    <3>3. /\ phase' \in [Procs -> {"delay", "running", "done", "unlisted", "down"}]
          /\ listed' \in [Procs -> SUBSET SessionKeys] /\ waiting' \in [Procs -> SUBSET SessionKeys]
      BY <3>1, <3>2 DEF TypeOK, keys
    <3> QED BY <2>1, <3>3 DEF ListPending, TypeOK
  <2>2. ASSUME NEW k \in waiting[p], JobStart(p, k) PROVE TypeOK'
    <3>1. k \in SessionKeys
      BY DEF TypeOK
    <3> DEFINE rows == RowsOf(k.user, k.cid)
               hist == History(rows)
               j == [user |-> k.user, chat |-> k.chat, cid |-> k.cid, hist |-> hist,
                     pc |-> IF Junk(hist) THEN "closing" ELSE "archiving"]
    <3>2. rows \subseteq Entry /\ hist \subseteq Entry
      BY DEF RowsOf, History, TypeOK
    <3>3. j \in Jobs
      BY <3>1, <3>2 DEF Jobs, SessionKeys
    <3>4. jobs' = [jobs EXCEPT ![p] = @ \cup {j}]
      BY <2>2 DEF JobStart
    <3>5. worthless' = worthless \cup (IF Junk(hist) THEN rows ELSE rows \ hist)
      BY <2>2 DEF JobStart
    <3> HIDE DEF rows, hist, j
    <3> QED BY <2>2, <3>2, <3>3, <3>4, <3>5 DEF JobStart, TypeOK
  <2>3. ASSUME NEW k \in waiting[p], JobUnread(p, k) PROVE TypeOK'
    BY <2>3 DEF JobUnread, TypeOK
  <2>4. ASSUME NEW j \in jobs[p], JobArchived(p, j) PROVE TypeOK'
    <3>1. j \in Jobs
      BY DEF TypeOK
    <3>2. Batch(j.user, j.cid, j.hist) \in Batches /\ [j EXCEPT !.pc = "marking"] \in Jobs
      BY <3>1 DEF Batch, Batches, Jobs
    <3> QED BY <2>4, <3>2, AppendBatchLemma DEF JobArchived, TypeOK
  <2>5. ASSUME NEW j \in jobs[p], JobMarked(p, j) PROVE TypeOK'
    <3>1. KeyOf(j) \in SessionKeys
      BY DEF KeyOf, SessionKeys, TypeOK, Jobs
    <3> QED BY <2>5, <3>1 DEF JobMarked, TypeOK, RowsOf
  <2>6. ASSUME NEW j \in jobs[p], JobFailed(p, j) PROVE TypeOK'
    <3>1. KeyOf(j) \in SessionKeys
      BY DEF KeyOf, SessionKeys, TypeOK, Jobs
    <3> QED BY <2>6, <3>1 DEF JobFailed, TypeOK
  <2>7. CASE FinishRecovery(p)
    BY <2>7 DEF FinishRecovery, TypeOK
  <2> QED BY <1>4, <2>1, <2>2, <2>3, <2>4, <2>5, <2>6, <2>7 DEF RecoveryStep
<1>5. ASSUME NEW p \in Procs, Crash(p) PROVE TypeOK'
  BY <1>5 DEF Crash, Finished, TypeOK, NewRecords, InNew, InTurn
<1>6. ASSUME NEW p \in Procs, Restart(p) PROVE TypeOK'
  BY <1>6 DEF Restart, TypeOK
<1>7. CASE UNCHANGED vars
  BY <1>7 DEF vars, TypeOK
<1> QED BY <1>1, <1>2, <1>3, <1>4, <1>5, <1>6, <1>7 DEF Next

\* Every reachable state of the session machine is typed.
THEOREM SessionTypeCorrect == Spec => []TypeOK
BY InitTyped, NextTyped, PTL DEF Spec
-----------------------------------------------------------------------------
\* What every step keeps: sessions of recorded entries, histories, coverage.

\* The entry a handler records was not recorded before and belongs to its user.
LEMMA EntryFacts ==
    ASSUME NEW m \in Msgs
    PROVE  /\ MsgEntry(m) \in Entry /\ ReplyEntry(m) \in Entry
           /\ OwnerOf(MsgEntry(m)) = Owner[m] /\ OwnerOf(ReplyEntry(m)) = Owner[m]
           /\ Owner[m] \in Users
BY ConstantsAssumption DEF MsgEntry, ReplyEntry, Entry, OwnerOf

\* Entries of different messages, or of different roles, differ.
LEMMA EntriesDiffer ==
    /\ \A m, k \in Msgs : MsgEntry(m) = MsgEntry(k) => m = k
    /\ \A m, k \in Msgs : ReplyEntry(m) = ReplyEntry(k) => m = k
    /\ \A m, k \in Msgs : MsgEntry(m) # ReplyEntry(k)
BY DEF MsgEntry, ReplyEntry

\* Appending a batch only adds to what long-term memory covers.
LEMMA CoverLemma ==
    ASSUME TypeOK, NEW b \in Batches, memory' = Append(memory, b)
    PROVE  Covered' = Covered \cup b.covers
<1>1. memory \in Seq(Batches)
  BY DEF TypeOK
<1>2. /\ DOMAIN memory' = DOMAIN memory \cup {Len(memory) + 1}
      /\ memory'[Len(memory) + 1] = b
      /\ \A i \in DOMAIN memory : memory'[i] = memory[i]
  BY <1>1, AppendBatchLemma
<1> QED BY <1>2 DEF Covered

\* The session given to an entry is the current one of its user, new or not.
LEMMA RecordFacts ==
    ASSUME TypeOK, IdsInv, NEW u \in Users, NEW e \in Entry, Record(u, e)
    PROVE  /\ cid' = [cid EXCEPT ![u] = cid'[u]] /\ cid'[u] \in Nat \ {0}
           /\ home' = [home EXCEPT ![e] = cid'[u]]
           /\ issued' \in Nat /\ issued <= issued' /\ cid'[u] <= issued'
           /\ cid[u] # 0 => cid'[u] = cid[u]
           /\ cid[u] = 0 => cid'[u] > issued
           /\ evicted \subseteq evicted'
BY DEF TypeOK, IdsInv, Record, CurrentCid

Monotone ==
    /\ \A e \in Said : home'[e] = home[e]
    /\ late \subseteq late' /\ worthless \subseteq worthless' /\ evicted \subseteq evicted'
    /\ Covered \subseteq Covered'
    /\ \A u \in Users : \A c \in Nat : InFlight(u, c) =>
          RowsOf(u, c)' \subseteq RowsOf(u, c) \cup late'

\* A step that appends one row flags it if its session is being archived.
LEMMA AppendRowMonotone ==
    ASSUME TypeOK, IdsInv, NEW e \in Said,
           AppendRow(e) \/ UNCHANGED <<journaled, late>>,
           UNCHANGED <<home, worthless, evicted, memory>>
    PROVE  Monotone
<1>1. Covered' = Covered
  BY DEF Covered
<1>2. CASE AppendRow(e)
  BY <1>1, <1>2 DEF AppendRow, Monotone, RowsOf
<1>3. CASE UNCHANGED <<journaled, late>>
  BY <1>1, <1>3 DEF Monotone, RowsOf
<1> QED BY <1>2, <1>3

\* A step that records one new entry and leaves the file alone.
LEMMA RecordMonotone ==
    ASSUME TypeOK, IdsInv, NEW u \in Users, NEW e \in Entry, home[e] = 0, Record(u, e),
           UNCHANGED <<journaled, late, worthless, memory>>
    PROVE  Monotone
<1>1. Covered' = Covered
  BY DEF Covered
<1>2. /\ \A x \in Said : home'[x] = home[x]
      /\ evicted \subseteq evicted'
  BY RecordFacts DEF Said, TypeOK
<1>3. journaled \subseteq Said
  BY DEF IdsInv
<1> QED BY <1>1, <1>2, <1>3 DEF Monotone, RowsOf

\* A step that records no entry and appends no row.
LEMMA QuietMonotone ==
    ASSUME TypeOK, UNCHANGED <<journaled, late, home>>,
           worthless \subseteq worthless', evicted \subseteq evicted', Covered \subseteq Covered'
    PROVE  Monotone
BY DEF Monotone, RowsOf

LEMMA NextMonotone ==
    ASSUME TypeOK, IdsInv, [Next]_vars
    PROVE  Monotone
<1> USE DEF bounds, store, disk, recovery
<1>1. ASSUME NEW m \in Msgs, TurnStep(m) PROVE Monotone
  <2> USE EntryFacts
  <2>1. CASE Receive(m)
    <3>1. home[MsgEntry(m)] = 0 /\ Record(Owner[m], MsgEntry(m))
      BY <2>1 DEF Receive, IdsInv
    <3> QED BY <2>1, <3>1, RecordMonotone DEF Receive
  <2>2. CASE JournalMessage(m)
    <3>1. MsgEntry(m) \in Said
      BY <2>2 DEF JournalMessage, IdsInv, Said
    <3> QED BY <2>2, <3>1, AppendRowMonotone DEF JournalMessage
  <2>3. CASE Reply(m)
    <3>1. home[ReplyEntry(m)] = 0 /\ Record(Owner[m], ReplyEntry(m))
      BY <2>3 DEF Reply, IdsInv
    <3> QED BY <2>3, <3>1, RecordMonotone DEF Reply
  <2>4. CASE GiveUp(m)
    BY <2>4, QuietMonotone DEF GiveUp, Covered
  <2>5. CASE JournalReply(m)
    <3>1. ReplyEntry(m) \in Said
      BY <2>5 DEF JournalReply, IdsInv, Said
    <3> QED BY <2>5, <3>1, AppendRowMonotone DEF JournalReply
  <2> QED BY <1>1, <2>1, <2>2, <2>3, <2>4, <2>5 DEF TurnStep
<1>2. ASSUME NEW n \in News, NewStep(n) PROVE Monotone
  <2>1. CASE NewArchived(n)
    <3>1. Batch(Owner[n], new[n].cid, new[n].hist) \in Batches
      BY ConstantsAssumption DEF Batch, Batches, TypeOK, NewRecords
    <3>2. Covered \subseteq Covered'
      BY <2>1, <3>1, CoverLemma DEF NewArchived
    <3> QED BY <2>1, <3>2, QuietMonotone DEF NewArchived
  <2>2. CASE NewEmpty(n) \/ NewStart(n) \/ NewFailed(n) \/ NewMark(n) \/ NewClose(n)
    BY <2>2, QuietMonotone DEF NewEmpty, NewStart, NewFailed, NewMark, NewClose, Covered
  <2> QED BY <1>2, <2>1, <2>2 DEF NewStep
<1>3. ASSUME NEW u \in Users, Reset(u) PROVE Monotone
  BY <1>3, QuietMonotone DEF Reset, Covered
<1>4. ASSUME NEW p \in Procs, RecoveryStep(p) PROVE Monotone
  <2>1. ASSUME NEW k \in waiting[p], JobStart(p, k) PROVE Monotone
    BY <2>1, QuietMonotone DEF JobStart, Covered
  <2>2. ASSUME NEW j \in jobs[p], JobArchived(p, j) PROVE Monotone
    <3>1. Batch(j.user, j.cid, j.hist) \in Batches
      BY DEF Batch, Batches, TypeOK, Jobs
    <3>2. Covered \subseteq Covered'
      BY <2>2, <3>1, CoverLemma DEF JobArchived
    <3> QED BY <2>2, <3>2, QuietMonotone DEF JobArchived
  <2>3. ASSUME NEW j \in jobs[p], JobMarked(p, j) \/ JobFailed(p, j) PROVE Monotone
    BY <2>3, QuietMonotone DEF JobMarked, JobFailed, Covered
  <2>4. ASSUME NEW k \in waiting[p], JobUnread(p, k) PROVE Monotone
    BY <2>4, QuietMonotone DEF JobUnread, Covered
  <2>5. CASE ListPending(p) \/ FinishRecovery(p)
    BY <2>5, QuietMonotone DEF ListPending, FinishRecovery, Covered
  <2> QED BY <1>4, <2>1, <2>2, <2>3, <2>4, <2>5 DEF RecoveryStep
<1>5. ASSUME NEW p \in Procs, Crash(p) \/ Restart(p) PROVE Monotone
  BY <1>5, QuietMonotone DEF Crash, Restart, Covered
<1>6. CASE UNCHANGED vars
  BY <1>6, QuietMonotone DEF vars, Covered
<1> QED BY <1>1, <1>2, <1>3, <1>4, <1>5, <1>6 DEF Next
-----------------------------------------------------------------------------
\* The inductive invariant, conjunct by conjunct.

LEMMA InitArchiveInv == Init => ArchiveInv
<1> SUFFICES ASSUME Init PROVE ArchiveInv
  OBVIOUS
<1>1. TypeOK
  BY InitTyped
<1>2. IdsInv
  BY EntryFacts DEF Init, IdsInv
<1>3. LogInv
  BY ConstantsAssumption DEF Init, LogInv, OfSession, Range, Said
<1>4. NewInv /\ JobInv /\ BatchInv /\ ArchivedRowsAreKept
  BY DEF Init, NewInv, JobInv, BatchInv, ArchivedRowsAreKept, Finished
<1> QED BY <1>1, <1>2, <1>3, <1>4 DEF ArchiveInv

\* Ids stay below the counter and an entry is recorded at most once.
LEMMA NextIds == ASSUME TypeOK, IdsInv, [Next]_vars PROVE IdsInv'
<1> USE DEF bounds, store, disk, recovery
<1>1. ASSUME NEW m \in Msgs, TurnStep(m) PROVE IdsInv'
  <2> USE EntryFacts
  <2>1. CASE Receive(m)
    <3> DEFINE e == MsgEntry(m)
    <3>1. home[e] = 0 /\ Record(Owner[m], e) /\ turn' = [turn EXCEPT ![m] = "asked"]
      BY <2>1 DEF Receive, IdsInv
    <3>2. journaled' = journaled /\ waiting' = waiting /\ turn[m] = "idle"
      BY <2>1 DEF Receive
    <3> HIDE DEF e
    <3>3. e = MsgEntry(m) /\ e \in Entry
      BY DEF e
    <3>4. /\ \A x \in Entry : x # e => home'[x] = home[x]
          /\ home'[e] # 0
      BY <3>1, <3>3, RecordFacts DEF TypeOK
    <3>5. /\ \A u \in Users : cid'[u] <= issued'
          /\ \A x \in Entry : home'[x] <= issued'
      <4> DEFINE c == cid'[Owner[m]]
      <4>1. /\ cid' = [cid EXCEPT ![Owner[m]] = c] /\ home' = [home EXCEPT ![e] = c]
            /\ issued \in Nat /\ issued' \in Nat /\ issued <= issued' /\ c <= issued'
        BY <3>1, <3>3, RecordFacts DEF TypeOK
      <4>2. /\ \A u \in Users : cid[u] \in Nat /\ cid[u] <= issued
            /\ \A x \in Entry : home[x] \in Nat /\ home[x] <= issued
        BY DEF TypeOK, IdsInv
      <4> HIDE DEF c
      <4> QED BY <4>1, <4>2, <3>3 DEF TypeOK
    <3> QED BY <3>1, <3>2, <3>3, <3>4, <3>5, EntriesDiffer DEF IdsInv, TypeOK, Said
  <2>2. CASE JournalMessage(m)
    BY <2>2 DEF JournalMessage, AppendRow, IdsInv, TypeOK, Said
  <2>3. CASE Reply(m)
    <3> DEFINE e == ReplyEntry(m)
    <3>1. home[e] = 0 /\ Record(Owner[m], e) /\ turn' = [turn EXCEPT ![m] = "answered"]
      BY <2>3 DEF Reply, IdsInv
    <3>2. journaled' = journaled /\ waiting' = waiting /\ turn[m] = "thinking"
      BY <2>3 DEF Reply
    <3> HIDE DEF e
    <3>3. e = ReplyEntry(m) /\ e \in Entry
      BY DEF e
    <3>4. /\ \A x \in Entry : x # e => home'[x] = home[x]
          /\ home'[e] # 0
      BY <3>1, <3>3, RecordFacts DEF TypeOK
    <3>5. /\ \A u \in Users : cid'[u] <= issued'
          /\ \A x \in Entry : home'[x] <= issued'
      <4> DEFINE c == cid'[Owner[m]]
      <4>1. /\ cid' = [cid EXCEPT ![Owner[m]] = c] /\ home' = [home EXCEPT ![e] = c]
            /\ issued \in Nat /\ issued' \in Nat /\ issued <= issued' /\ c <= issued'
        BY <3>1, <3>3, RecordFacts DEF TypeOK
      <4>2. /\ \A u \in Users : cid[u] \in Nat /\ cid[u] <= issued
            /\ \A x \in Entry : home[x] \in Nat /\ home[x] <= issued
        BY DEF TypeOK, IdsInv
      <4> HIDE DEF c
      <4> QED BY <4>1, <4>2, <3>3 DEF TypeOK
    <3> QED BY <3>1, <3>2, <3>3, <3>4, <3>5, EntriesDiffer DEF IdsInv, TypeOK, Said
  <2>4. CASE GiveUp(m)
    BY <2>4 DEF GiveUp, IdsInv, TypeOK, Said
  <2>5. CASE JournalReply(m)
    BY <2>5 DEF JournalReply, AppendRow, IdsInv, TypeOK, Said
  <2> QED BY <1>1, <2>1, <2>2, <2>3, <2>4, <2>5 DEF TurnStep
<1>2. ASSUME NEW u \in Users, OpenSession(u),
             UNCHANGED <<home, turn, journaled, waiting>>
      PROVE  IdsInv'
  BY <1>2 DEF OpenSession, IdsInv, TypeOK, Said
<1>3. ASSUME NEW n \in News, NewStep(n) PROVE IdsInv'
  <2>1. Owner[n] \in Users
    BY ConstantsAssumption
  <2>2. CASE NewEmpty(n) \/ NewClose(n)
    BY <2>1, <2>2, <1>2 DEF NewEmpty, NewClose
  <2>3. CASE NewStart(n) \/ NewArchived(n) \/ NewFailed(n) \/ NewMark(n)
    BY <2>3 DEF NewStart, NewArchived, NewFailed, NewMark, IdsInv, Said
  <2> QED BY <1>3, <2>2, <2>3 DEF NewStep
<1>4. ASSUME NEW u \in Users, Reset(u) PROVE IdsInv'
  BY <1>4, <1>2 DEF Reset
<1>5. ASSUME NEW p \in Procs, RecoveryStep(p) PROVE IdsInv'
  <2>1. CASE ListPending(p)
    <3>1. \A k \in {Key(e) : e \in Pending} : k.cid # 0
      BY DEF Key, Pending, IdsInv, Said
    <3>2. \A q \in Procs : \A k \in waiting'[q] : k.cid # 0
      BY <2>1, <3>1 DEF ListPending, IdsInv, TypeOK
    <3> QED BY <2>1, <3>2 DEF ListPending, IdsInv, Said
  <2>2. ASSUME NEW k \in waiting[p], JobStart(p, k) PROVE IdsInv'
    BY <2>2 DEF JobStart, IdsInv, TypeOK, Said
  <2>3. ASSUME NEW k \in waiting[p], JobUnread(p, k) PROVE IdsInv'
    BY <2>3 DEF JobUnread, IdsInv, TypeOK, Said
  <2>4. ASSUME NEW j \in jobs[p], JobArchived(p, j) \/ JobMarked(p, j) \/ JobFailed(p, j)
        PROVE  IdsInv'
    BY <2>4 DEF JobArchived, JobMarked, JobFailed, IdsInv, Said
  <2>5. CASE FinishRecovery(p)
    BY <2>5 DEF FinishRecovery, IdsInv, Said
  <2> QED BY <1>5, <2>1, <2>2, <2>3, <2>4, <2>5 DEF RecoveryStep
<1>6. ASSUME NEW p \in Procs, Crash(p) PROVE IdsInv'
  BY <1>6 DEF Crash, IdsInv, TypeOK, Said, InTurn
<1>7. ASSUME NEW p \in Procs, Restart(p) PROVE IdsInv'
  BY <1>7 DEF Restart, IdsInv, TypeOK, Said
<1>8. CASE UNCHANGED vars
  BY <1>8 DEF vars, IdsInv, Said
<1> QED BY <1>1, <1>3, <1>4, <1>5, <1>6, <1>7, <1>8 DEF Next

\* Recording a new entry keeps the log the exact record of its session.
LEMMA RecordLog ==
    ASSUME TypeOK, IdsInv, LogInv,
           NEW u \in Users, NEW e \in Entry, OwnerOf(e) = u, home[e] = 0, Record(u, e)
    PROVE  LogInv'
<1> DEFINE c == cid'[u]
<1>1. /\ cid' = [cid EXCEPT ![u] = c] /\ c \in Nat \ {0}
      /\ home' = [home EXCEPT ![e] = c]
      /\ cid[u] # 0 => c = cid[u]
      /\ cid[u] = 0 => c > issued
      /\ evicted \subseteq evicted'
  BY RecordFacts
<1>2. /\ u \in Misfiled => log' = log
      /\ u \notin Misfiled => /\ log' = [log EXCEPT ![u] = PushLog(log[u], e)]
                              /\ evicted' = evicted \cup Dropped(log[u])
  BY DEF Record
<1> HIDE DEF c
<1>3. log[u] \in Seq(Entry)
  BY DEF TypeOK
<1>4. \A v \in Users : \A x \in Range(log[v]) :
         x \in Entry /\ x # e /\ home'[x] = home[x] /\ cid'[v] = cid[v]
  <2> SUFFICES ASSUME NEW v \in Users, NEW x \in Range(log[v])
               PROVE  x \in Entry /\ x # e /\ home'[x] = home[x] /\ cid'[v] = cid[v]
    OBVIOUS
  <2>1. home[x] = cid[v] /\ cid[v] # 0
    BY DEF LogInv, OfSession
  <2>2. x \in Entry
    BY DEF TypeOK, Range
  <2> QED BY <1>1, <2>1, <2>2 DEF TypeOK
<1>5. \A v \in Users : OfSession(Range(log[v]), v, cid[v])'
  <2> SUFFICES ASSUME NEW v \in Users, NEW x \in Range(log'[v])
               PROVE  OwnerOf(x) = v /\ home'[x] = cid'[v] /\ cid'[v] # 0
    BY DEF OfSession
  <2>1. CASE x \in Range(log[v])
    BY <1>4, <2>1 DEF LogInv, OfSession
  <2>2. CASE x \notin Range(log[v])
    <3>1. v = u /\ u \notin Misfiled /\ log'[v] = PushLog(log[u], e)
      BY <1>2, <2>2 DEF TypeOK
    <3>2. x = e
      BY <1>3, <2>2, <3>1, PushLogLemma
    <3> QED BY <1>1, <3>1, <3>2 DEF TypeOK
  <2> QED BY <2>1, <2>2
<1>6. \A v \in Misfiled : log'[v] = <<>>
  BY <1>2, ConstantsAssumption DEF LogInv, TypeOK
<1>7. ASSUME NEW v \in Users \ Misfiled, NEW x \in Said', OwnerOf(x) = v, home'[x] = cid'[v]
      PROVE  x \in Range(log'[v]) \cup evicted'
  <2>1. x \in Entry /\ home'[x] # 0
    BY DEF Said
  <2>2. CASE x = e
    <3>1. v = u
      BY <1>7, <2>2
    <3>2. log'[u] = PushLog(log[u], e)
      BY <1>2, <3>1 DEF TypeOK
    <3> QED BY <1>3, <2>2, <3>1, <3>2, PushLogLemma
  <2>3. CASE x # e
    <3>1. home'[x] = home[x] /\ home[x] <= issued /\ home[x] # 0 /\ x \in Said
      BY <1>1, <2>1, <2>3 DEF TypeOK, IdsInv, Said
    <3>2. cid'[v] = cid[v]
      <4>1. CASE v # u
        BY <1>1, <4>1 DEF TypeOK
      <4>2. CASE v = u
        <5>1. cid[u] # 0
          BY <1>1, <1>7, <3>1, <4>2 DEF TypeOK
        <5> QED BY <1>1, <4>2, <5>1 DEF TypeOK
      <4> QED BY <4>1, <4>2
    <3>3. x \in Range(log[v]) \cup evicted
      BY <1>7, <3>1, <3>2 DEF LogInv
    <3>4. CASE v # u \/ u \in Misfiled
      <4>1. log'[v] = log[v]
        BY <1>2, <3>4 DEF TypeOK
      <4> QED BY <1>1, <3>3, <4>1
    <3>5. CASE v = u /\ u \notin Misfiled
      <4>1. log'[u] = PushLog(log[u], e) /\ evicted' = evicted \cup Dropped(log[u])
        BY <1>2, <3>5 DEF TypeOK
      <4> QED BY <1>3, <3>3, <3>5, <4>1, PushLogLemma
    <3> QED BY <3>4, <3>5
  <2> QED BY <2>2, <2>3
<1> QED BY <1>5, <1>6, <1>7 DEF LogInv

\* A session of a new id holds nothing that was said before.
LEMMA OpenSessionLog ==
    ASSUME TypeOK, IdsInv, LogInv, NEW u \in Users, OpenSession(u), UNCHANGED <<home, evicted>>
    PROVE  LogInv'
<1>1. /\ log' = [log EXCEPT ![u] = <<>>]
      /\ cid' = [cid EXCEPT ![u] = issued + 1]
  BY DEF OpenSession
<1>2. \A v \in Users : OfSession(Range(log[v]), v, cid[v])'
  BY <1>1 DEF LogInv, OfSession, TypeOK, Range
<1>3. \A v \in Misfiled : log'[v] = <<>>
  BY <1>1, ConstantsAssumption DEF LogInv, TypeOK
<1>4. ASSUME NEW v \in Users \ Misfiled, NEW x \in Said, OwnerOf(x) = v, home[x] = cid'[v]
      PROVE  x \in Range(log'[v]) \cup evicted
  <2>1. v # u
    BY <1>1, <1>4 DEF TypeOK, IdsInv, Said
  <2> QED BY <1>1, <1>4, <2>1 DEF LogInv, TypeOK
<1> QED BY <1>2, <1>3, <1>4 DEF LogInv, Said

LEMMA NextLog == ASSUME TypeOK, IdsInv, LogInv, [Next]_vars PROVE LogInv'
<1> USE DEF bounds, store, disk, recovery
<1>1. ASSUME UNCHANGED store PROVE LogInv'
  BY <1>1 DEF LogInv, OfSession, Said
<1>2. ASSUME NEW m \in Msgs, TurnStep(m) PROVE LogInv'
  <2>1. CASE Receive(m)
    BY <2>1, EntryFacts, RecordLog DEF Receive, IdsInv
  <2>2. CASE Reply(m)
    BY <2>2, EntryFacts, RecordLog DEF Reply, IdsInv
  <2>3. CASE JournalMessage(m) \/ GiveUp(m) \/ JournalReply(m)
    BY <1>1, <2>3 DEF JournalMessage, GiveUp, JournalReply
  <2> QED BY <1>2, <2>1, <2>2, <2>3 DEF TurnStep
<1>3. ASSUME NEW n \in News, NewStep(n) PROVE LogInv'
  <2>1. CASE NewEmpty(n) \/ NewClose(n)
    BY <2>1, OpenSessionLog, ConstantsAssumption DEF NewEmpty, NewClose
  <2>2. CASE NewStart(n) \/ NewArchived(n) \/ NewFailed(n) \/ NewMark(n)
    BY <1>1, <2>2 DEF NewStart, NewArchived, NewFailed, NewMark
  <2> QED BY <1>3, <2>1, <2>2 DEF NewStep
<1>4. ASSUME NEW u \in Users, Reset(u) PROVE LogInv'
  BY <1>4, OpenSessionLog DEF Reset
<1>5. ASSUME NEW p \in Procs, RecoveryStep(p) PROVE LogInv'
  <2>1. UNCHANGED store
    BY <1>5 DEF RecoveryStep, ListPending, JobStart, JobUnread, JobArchived, JobMarked,
                JobFailed, FinishRecovery
  <2> QED BY <1>1, <2>1
<1>6. ASSUME NEW p \in Procs, Crash(p) PROVE LogInv'
  <2>1. /\ log' = [u \in Users |-> IF ProcOf[u] = p THEN <<>> ELSE log[u]]
        /\ cid' = [u \in Users |-> IF ProcOf[u] = p THEN 0 ELSE cid[u]]
        /\ home' = home /\ evicted' = evicted
    BY <1>6 DEF Crash
  <2>2. \A v \in Users : OfSession(Range(log[v]), v, cid[v])'
    BY <2>1 DEF LogInv, OfSession, Range
  <2> QED BY <2>1, <2>2, ConstantsAssumption DEF LogInv, Said
<1>7. ASSUME NEW p \in Procs, Restart(p) PROVE LogInv'
  BY <1>1, <1>7 DEF Restart
<1>8. CASE UNCHANGED vars
  BY <1>1, <1>8 DEF vars
<1> QED BY <1>2, <1>3, <1>4, <1>5, <1>6, <1>7, <1>8 DEF Next
-----------------------------------------------------------------------------
\* Operations that were in flight before a step still hold their session.

NewHolds(n) ==
    /\ OfSession(new[n].hist, Owner[n], new[n].cid)
    /\ RowsOf(Owner[n], new[n].cid) \subseteq new[n].hist \cup late \cup evicted
    /\ new[n].pc = "marking" => new[n].hist \subseteq Covered

JobHolds(j) ==
    /\ OfSession(j.hist, j.user, j.cid)
    /\ j.pc \in {"archiving", "marking"} =>
          RowsOf(j.user, j.cid) \subseteq j.hist \cup late \cup worthless
    /\ j.pc = "marking" => j.hist \subseteq Covered
    /\ j.pc = "closing" => RowsOf(j.user, j.cid) \subseteq late \cup worthless

\* A history keeps its session: entries are recorded once.
LEMMA HistoryStable ==
    ASSUME NEW hist \in SUBSET Entry, NEW u, NEW c, OfSession(hist, u, c), Monotone
    PROVE  OfSession(hist, u, c)'
BY DEF OfSession, Monotone, Said

\* A /new whose record a step leaves alone still holds its session.
LEMMA NewHoldsStable ==
    ASSUME TypeOK, Monotone, NEW n \in News,
           new[n].pc \in {"archiving", "marking"}, NewHolds(n), new'[n] = new[n]
    PROVE  NewHolds(n)'
<1>1. new[n].hist \in SUBSET Entry /\ new[n].cid \in Nat /\ Owner[n] \in Users
  BY ConstantsAssumption DEF TypeOK, NewRecords
<1>2. InFlight(Owner[n], new[n].cid)
  BY DEF InFlight
<1>3. RowsOf(Owner[n], new[n].cid)' \subseteq RowsOf(Owner[n], new[n].cid) \cup late'
  BY <1>1, <1>2 DEF Monotone, RowsOf
<1>4. OfSession(new[n].hist, Owner[n], new[n].cid)'
  BY <1>1 DEF NewHolds, OfSession, Monotone, Said
<1> QED BY <1>3, <1>4 DEF NewHolds, Monotone

\* A recovery job that a step leaves in place still holds its session.
LEMMA JobHoldsStable ==
    ASSUME TypeOK, Monotone, NEW p \in Procs, NEW j \in jobs[p], JobHolds(j)
    PROVE  JobHolds(j)'
<1>1. j \in Jobs
  BY DEF TypeOK
<1>2. j.hist \in SUBSET Entry /\ j.cid \in Nat /\ j.user \in Users
  BY <1>1 DEF Jobs
<1>3. InFlight(j.user, j.cid)
  BY DEF InFlight
<1>4. RowsOf(j.user, j.cid)' \subseteq RowsOf(j.user, j.cid) \cup late'
  BY <1>2, <1>3 DEF Monotone
<1>5. OfSession(j.hist, j.user, j.cid)'
  BY <1>2, HistoryStable DEF JobHolds
<1> QED BY <1>4, <1>5 DEF JobHolds, Monotone

LEMMA NextNew ==
    ASSUME TypeOK, IdsInv, LogInv, NewInv, [Next]_vars
    PROVE  NewInv'
<1> USE DEF bounds, store, disk, recovery
<1>1. Monotone
  BY NextMonotone
<1> SUFFICES ASSUME NEW n \in News, new'[n].pc \in {"archiving", "marking"}
             PROVE  NewHolds(n)'
  BY DEF NewInv, NewHolds
<1>2. Owner[n] \in Users
  BY ConstantsAssumption
<1>3. ASSUME new'[n] = new[n] PROVE NewHolds(n)'
  BY <1>1, <1>3, NewHoldsStable DEF NewInv, NewHolds
<1>4. ASSUME UNCHANGED new PROVE NewHolds(n)'
  BY <1>3, <1>4
<1>5. ASSUME NEW k \in News, NewStep(k) PROVE NewHolds(n)'
  <2>1. CASE k # n
    <3>1. new'[n] = new[n]
      BY <1>5, <2>1
      DEF NewStep, NewEmpty, NewStart, NewArchived, NewFailed, NewMark, NewClose, TypeOK
    <3> QED BY <1>3, <3>1
  <2>2. CASE k = n /\ NewStart(n)
    <3> DEFINE u == Owner[n]
    <3>1. /\ new'[n].pc = "archiving" /\ new'[n].cid = cid[u] /\ new'[n].hist = Range(log[u])
          /\ log[u] # <<>> /\ home' = home /\ journaled' = journaled
          /\ late' = late /\ evicted' = evicted
      BY <2>2 DEF NewStart, TypeOK
    <3>2. u \in Users \ Misfiled
      BY <1>2, <3>1 DEF LogInv
    <3>3. OfSession(Range(log[u]), u, cid[u])
      BY <1>2 DEF LogInv
    <3>4. RowsOf(u, cid[u]) \subseteq Range(log[u]) \cup evicted
      BY <3>2 DEF LogInv, IdsInv, RowsOf
    <3> QED BY <3>1, <3>3, <3>4 DEF NewHolds, OfSession, RowsOf
  <2>3. CASE k = n /\ NewArchived(n)
    <3>1. /\ new'[n].pc = "marking" /\ new'[n].cid = new[n].cid /\ new'[n].hist = new[n].hist
          /\ new[n].pc = "archiving"
          /\ home' = home /\ journaled' = journaled /\ late' = late /\ evicted' = evicted
      BY <2>3 DEF NewArchived, TypeOK, NewRecords
    <3> DEFINE b == Batch(Owner[n], new[n].cid, new[n].hist)
    <3>2. b \in Batches /\ b.covers = new[n].hist /\ memory' = Append(memory, b)
      BY <1>2, <2>3 DEF NewArchived, Batch, Batches, TypeOK, NewRecords
    <3> HIDE DEF b
    <3>3. new[n].hist \subseteq Covered'
      BY <3>2, CoverLemma
    <3>4. NewHolds(n)
      BY <3>1 DEF NewInv, NewHolds
    <3> QED BY <3>1, <3>3, <3>4 DEF NewHolds, OfSession, RowsOf
  <2>4. CASE k = n /\ (NewEmpty(n) \/ NewFailed(n) \/ NewMark(n) \/ NewClose(n))
    <3>1. new'[n].pc \in {"done", "closing"}
      BY <2>4 DEF NewEmpty, NewFailed, NewMark, NewClose, Finished, TypeOK, NewRecords
    <3> QED BY <3>1
  <2> QED BY <1>5, <2>1, <2>2, <2>3, <2>4 DEF NewStep
<1>6. ASSUME NEW p \in Procs, Crash(p) PROVE NewHolds(n)'
  <2>1. new'[n] = new[n]
    BY <1>6 DEF Crash, Finished
  <2> QED BY <1>3, <2>1
<1>7. ASSUME NEW m \in Msgs, TurnStep(m) PROVE NewHolds(n)'
  BY <1>4, <1>7 DEF TurnStep, Receive, JournalMessage, Reply, GiveUp, JournalReply
<1>8. ASSUME NEW p \in Procs, RecoveryStep(p) PROVE NewHolds(n)'
  BY <1>4, <1>8 DEF RecoveryStep, ListPending, JobStart, JobUnread, JobArchived, JobMarked,
                    JobFailed, FinishRecovery
<1>9. ASSUME NEW u \in Users, Reset(u) PROVE NewHolds(n)'
  BY <1>4, <1>9 DEF Reset
<1>10. ASSUME NEW p \in Procs, Restart(p) PROVE NewHolds(n)'
  BY <1>4, <1>10 DEF Restart
<1>11. CASE UNCHANGED vars
  BY <1>4, <1>11 DEF vars
<1> QED BY <1>5, <1>6, <1>7, <1>8, <1>9, <1>10, <1>11 DEF Next

LEMMA NextJobs ==
    ASSUME TypeOK, IdsInv, JobInv, [Next]_vars
    PROVE  JobInv'
<1> USE DEF bounds, store, disk, recovery
<1>1. Monotone
  BY NextMonotone
<1> SUFFICES ASSUME NEW q \in Procs, NEW i \in jobs'[q] PROVE JobHolds(i)'
  BY DEF JobInv, JobHolds
<1>2. ASSUME i \in jobs[q] PROVE JobHolds(i)'
  <2>1. JobHolds(i)
    BY <1>2 DEF JobInv, JobHolds
  <2> QED BY <1>1, <1>2, <2>1, JobHoldsStable
<1>3. ASSUME UNCHANGED jobs PROVE JobHolds(i)'
  BY <1>2, <1>3
<1>4. ASSUME NEW p \in Procs, RecoveryStep(p) PROVE JobHolds(i)'
  <2>1. ASSUME NEW k \in waiting[p], JobStart(p, k), i \notin jobs[q] PROVE JobHolds(i)'
    <3> DEFINE rows == RowsOf(k.user, k.cid)
               hist == History(rows)
    <3>1. /\ i.user = k.user /\ i.cid = k.cid /\ i.hist = hist
          /\ i.pc = IF Junk(hist) THEN "closing" ELSE "archiving"
      BY <2>1 DEF JobStart, TypeOK
    <3>2. /\ home' = home /\ journaled' = journaled /\ late' = late
          /\ worthless' = worthless \cup (IF Junk(hist) THEN rows ELSE rows \ hist)
      BY <2>1 DEF JobStart
    <3>3. k.cid # 0
      BY DEF IdsInv
    <3>4. OfSession(i.hist, i.user, i.cid)'
      BY <3>1, <3>2, <3>3 DEF OfSession, History, RowsOf
    <3>5. RowsOf(i.user, i.cid)' = rows
      BY <3>1, <3>2 DEF RowsOf
    <3> HIDE DEF hist, rows
    <3>6. CASE Junk(hist)
      BY <3>1, <3>2, <3>4, <3>5, <3>6 DEF JobHolds
    <3>7. CASE ~Junk(hist)
      BY <3>1, <3>2, <3>4, <3>5, <3>7 DEF JobHolds
    <3> QED BY <3>6, <3>7
  <2>2. ASSUME NEW j \in jobs[p], JobArchived(p, j), i \notin jobs[q] PROVE JobHolds(i)'
    <3>1. j \in Jobs /\ JobHolds(j)
      BY DEF TypeOK, JobInv, JobHolds
    <3>2. i = [j EXCEPT !.pc = "marking"]
      BY <2>2 DEF JobArchived, TypeOK
    <3>3. /\ j.pc = "archiving" /\ home' = home /\ journaled' = journaled
          /\ late' = late /\ worthless' = worthless
      BY <2>2 DEF JobArchived
    <3>4. i.user = j.user /\ i.cid = j.cid /\ i.hist = j.hist /\ i.pc = "marking"
      BY <3>1, <3>2 DEF Jobs
    <3> DEFINE b == Batch(j.user, j.cid, j.hist)
    <3>5. b \in Batches /\ b.covers = j.hist /\ memory' = Append(memory, b)
      BY <2>2, <3>1 DEF JobArchived, Batch, Batches, Jobs
    <3> HIDE DEF b
    <3>6. j.hist \subseteq Covered'
      BY <3>5, CoverLemma
    <3> QED BY <3>1, <3>3, <3>4, <3>6 DEF JobHolds, OfSession, RowsOf
  <2>3. ASSUME NEW j \in jobs[p], JobMarked(p, j) \/ JobFailed(p, j) PROVE JobHolds(i)'
    BY <1>2, <2>3 DEF JobMarked, JobFailed, TypeOK
  <2>4. ASSUME NEW k \in waiting[p], JobUnread(p, k) PROVE JobHolds(i)'
    BY <1>3, <2>4 DEF JobUnread
  <2>5. CASE ListPending(p) \/ FinishRecovery(p)
    BY <1>3, <2>5 DEF ListPending, FinishRecovery
  <2> QED BY <1>2, <1>4, <2>1, <2>2, <2>3, <2>4, <2>5 DEF RecoveryStep
<1>5. ASSUME NEW p \in Procs, Crash(p) PROVE JobHolds(i)'
  BY <1>2, <1>5 DEF Crash, TypeOK
<1>6. ASSUME NEW m \in Msgs, TurnStep(m) PROVE JobHolds(i)'
  BY <1>3, <1>6 DEF TurnStep, Receive, JournalMessage, Reply, GiveUp, JournalReply
<1>7. ASSUME NEW n \in News, NewStep(n) PROVE JobHolds(i)'
  BY <1>3, <1>7 DEF NewStep, NewEmpty, NewStart, NewArchived, NewFailed, NewMark, NewClose
<1>8. ASSUME NEW u \in Users, Reset(u) PROVE JobHolds(i)'
  BY <1>3, <1>8 DEF Reset
<1>9. ASSUME NEW p \in Procs, Restart(p) PROVE JobHolds(i)'
  BY <1>3, <1>9 DEF Restart
<1>10. CASE UNCHANGED vars
  BY <1>3, <1>10 DEF vars
<1> QED BY <1>4, <1>5, <1>6, <1>7, <1>8, <1>9, <1>10 DEF Next
\* Batches stay as they are, and a new one is of one session.
LEMMA NextBatches ==
    ASSUME TypeOK, IdsInv, NewInv, JobInv, BatchInv, [Next]_vars
    PROVE  BatchInv'
<1> USE DEF bounds, store, disk, recovery
<1>1. Monotone
  BY NextMonotone
<1>2. \A i \in DOMAIN memory : memory[i] \in Batches
  BY DEF TypeOK
<1>3. ASSUME NEW b \in Batches, memory' = Append(memory, b), OfSession(b.covers, b.user, b.cid)
      PROVE  BatchInv'
  <2>1. memory \in Seq(Batches)
    BY DEF TypeOK
  <2>2. /\ DOMAIN memory' = DOMAIN memory \cup {Len(memory) + 1}
        /\ memory'[Len(memory) + 1] = b
        /\ \A i \in DOMAIN memory : memory'[i] = memory[i]
    BY <1>3, <2>1, AppendBatchLemma
  <2> SUFFICES ASSUME NEW i \in DOMAIN memory', NEW e \in memory'[i].covers
               PROVE  /\ OwnerOf(e) = memory'[i].user
                      /\ home'[e] = memory'[i].cid /\ memory'[i].cid # 0
    BY DEF BatchInv, OfSession
  <2>3. CASE i \in DOMAIN memory
    <3>1. e \in Entry /\ OfSession(memory[i].covers, memory[i].user, memory[i].cid)
      BY <1>2, <2>2, <2>3 DEF BatchInv, Batches
    <3> QED BY <1>1, <2>2, <2>3, <3>1 DEF OfSession, Monotone, Said
  <2>4. CASE i = Len(memory) + 1
    <3>1. e \in Entry
      BY <2>2, <2>4 DEF Batches
    <3> QED BY <1>1, <1>3, <2>2, <2>4, <3>1 DEF OfSession, Monotone, Said
  <2> QED BY <2>2, <2>3, <2>4
<1>4. ASSUME UNCHANGED memory PROVE BatchInv'
  <2> SUFFICES ASSUME NEW i \in DOMAIN memory, NEW e \in memory[i].covers
               PROVE  /\ OwnerOf(e) = memory[i].user
                      /\ home'[e] = memory[i].cid /\ memory[i].cid # 0
    BY <1>4 DEF BatchInv, OfSession
  <2>1. e \in Entry
    BY <1>2 DEF Batches
  <2> QED BY <1>1, <2>1 DEF BatchInv, OfSession, Monotone, Said
<1>5. ASSUME NEW n \in News, NewStep(n) PROVE BatchInv'
  <2>1. CASE NewArchived(n)
    <3> DEFINE b == Batch(Owner[n], new[n].cid, new[n].hist)
    <3>1. b \in Batches /\ memory' = Append(memory, b)
      BY <2>1, ConstantsAssumption DEF NewArchived, Batch, Batches, TypeOK, NewRecords
    <3>2. OfSession(b.covers, b.user, b.cid)
      BY <2>1 DEF NewArchived, NewInv, Batch
    <3> HIDE DEF b
    <3> QED BY <1>3, <3>1, <3>2
  <2>2. CASE NewEmpty(n) \/ NewStart(n) \/ NewFailed(n) \/ NewMark(n) \/ NewClose(n)
    BY <1>4, <2>2 DEF NewEmpty, NewStart, NewFailed, NewMark, NewClose
  <2> QED BY <1>5, <2>1, <2>2 DEF NewStep
<1>6. ASSUME NEW p \in Procs, RecoveryStep(p) PROVE BatchInv'
  <2>1. ASSUME NEW j \in jobs[p], JobArchived(p, j) PROVE BatchInv'
    <3> DEFINE b == Batch(j.user, j.cid, j.hist)
    <3>1. b \in Batches /\ memory' = Append(memory, b)
      BY <2>1 DEF JobArchived, Batch, Batches, Jobs, TypeOK
    <3>2. OfSession(b.covers, b.user, b.cid)
      BY <2>1 DEF JobArchived, JobInv, Batch
    <3> HIDE DEF b
    <3> QED BY <1>3, <3>1, <3>2
  <2>2. CASE UNCHANGED memory
    BY <1>4, <2>2
  <2> QED BY <1>6, <2>1, <2>2 DEF RecoveryStep, ListPending, JobStart, JobUnread, JobMarked,
                                 JobFailed, FinishRecovery
<1>7. ASSUME NEW m \in Msgs, TurnStep(m) PROVE BatchInv'
  BY <1>4, <1>7 DEF TurnStep, Receive, JournalMessage, Reply, GiveUp, JournalReply
<1>8. ASSUME NEW u \in Users, Reset(u) PROVE BatchInv'
  BY <1>4, <1>8 DEF Reset
<1>9. ASSUME NEW p \in Procs, Crash(p) \/ Restart(p) PROVE BatchInv'
  BY <1>4, <1>9 DEF Crash, Restart
<1>10. CASE UNCHANGED vars
  BY <1>4, <1>10 DEF vars
<1> QED BY <1>5, <1>6, <1>7, <1>8, <1>9, <1>10 DEF Next

\* Only the two marking steps archive rows, and they archive what they hold.
LEMMA NextKept ==
    ASSUME TypeOK, IdsInv, NewInv, JobInv, ArchivedRowsAreKept, [Next]_vars
    PROVE  ArchivedRowsAreKept'
<1> USE DEF bounds, store, disk, recovery
<1>1. Monotone
  BY NextMonotone
<1>2. ASSUME archived' \subseteq archived \cup Covered \cup late \cup worthless \cup evicted
      PROVE  ArchivedRowsAreKept'
  BY <1>1, <1>2 DEF ArchivedRowsAreKept, Monotone
<1>3. ASSUME UNCHANGED archived PROVE ArchivedRowsAreKept'
  BY <1>2, <1>3
<1>4. ASSUME NEW n \in News, NewStep(n) PROVE ArchivedRowsAreKept'
  <2>1. CASE NewMark(n)
    <3>1. RowsOf(Owner[n], new[n].cid) \subseteq Covered \cup late \cup evicted
      BY <2>1 DEF NewMark, NewInv
    <3>2. archived' \subseteq archived \cup RowsOf(Owner[n], new[n].cid)
      BY <2>1 DEF NewMark
    <3> QED BY <1>2, <3>1, <3>2
  <2>2. CASE NewEmpty(n) \/ NewStart(n) \/ NewArchived(n) \/ NewFailed(n) \/ NewClose(n)
    BY <1>3, <2>2 DEF NewEmpty, NewStart, NewArchived, NewFailed, NewClose
  <2> QED BY <1>4, <2>1, <2>2 DEF NewStep
<1>5. ASSUME NEW p \in Procs, RecoveryStep(p) PROVE ArchivedRowsAreKept'
  <2>1. ASSUME NEW j \in jobs[p], JobMarked(p, j) PROVE ArchivedRowsAreKept'
    <3>1. RowsOf(j.user, j.cid) \subseteq Covered \cup late \cup worthless
      BY <2>1 DEF JobMarked, JobInv
    <3>2. archived' = archived \cup RowsOf(j.user, j.cid)
      BY <2>1 DEF JobMarked
    <3> QED BY <1>2, <3>1, <3>2
  <2>2. CASE UNCHANGED archived
    BY <1>3, <2>2
  <2> QED BY <1>5, <2>1, <2>2 DEF RecoveryStep, ListPending, JobStart, JobUnread, JobArchived,
                                 JobFailed, FinishRecovery
<1>6. ASSUME NEW m \in Msgs, TurnStep(m) PROVE ArchivedRowsAreKept'
  BY <1>3, <1>6 DEF TurnStep, Receive, JournalMessage, Reply, GiveUp, JournalReply
<1>7. ASSUME NEW u \in Users, Reset(u) PROVE ArchivedRowsAreKept'
  BY <1>3, <1>7 DEF Reset
<1>8. ASSUME NEW p \in Procs, Crash(p) \/ Restart(p) PROVE ArchivedRowsAreKept'
  BY <1>3, <1>8 DEF Crash, Restart
<1>9. CASE UNCHANGED vars
  BY <1>3, <1>9 DEF vars
<1> QED BY <1>4, <1>5, <1>6, <1>7, <1>8, <1>9 DEF Next

-----------------------------------------------------------------------------
\* The invariant holds in every reachable state.
THEOREM SessionInvariant == Spec => []ArchiveInv
<1>1. ArchiveInv /\ [Next]_vars => ArchiveInv'
  BY NextTyped, NextIds, NextLog, NextNew, NextJobs, NextBatches, NextKept DEF ArchiveInv
<1> QED BY InitArchiveInv, <1>1, PTL DEF Spec

\* No row leaves the debt of the journal unless it is in long-term memory,
\* worthless, late or pushed out of a full log: whatever overlaps, fails or
\* crashes, for any number of users, messages, commands and processes.
THEOREM ArchivedRowsKept == Spec => []ArchivedRowsAreKept
<1>1. ArchiveInv => ArchivedRowsAreKept
  BY DEF ArchiveInv
<1> QED BY SessionInvariant, <1>1, PTL

\* A batch of memory_chunks never mixes users or sessions.
THEOREM BatchesOfOneSession == Spec => []BatchesAreOneSession
<1>1. ArchiveInv => BatchesAreOneSession
  BY DEF ArchiveInv, BatchInv, BatchesAreOneSession, OfSession
<1> QED BY SessionInvariant, <1>1, PTL

\* The log that /new archives holds all that the journal holds of the session.
THEOREM LogHoldsJournal == Spec => []SessionLogComplete
<1>1. ArchiveInv => SessionLogComplete
  BY DEF ArchiveInv, LogInv, IdsInv, SessionLogComplete, LogHoldsSession, RowsOf
<1> QED BY SessionInvariant, <1>1, PTL

-----------------------------------------------------------------------------
\* The accounts of the recovery task.

\* The sessions of list l are waiting w, in a job of J, settled s or failed f, each in
\* one place; a session has one job, and there are no more jobs than slots.
Keys(J) == {KeyOf(j) : j \in J}
Sound(l, w, J, s, f) ==
    /\ l = w \cup Keys(J) \cup s \cup f
    /\ w \cap (Keys(J) \cup s \cup f) = {} /\ Keys(J) \cap (s \cup f) = {} /\ s \cap f = {}
    /\ \A i, j \in J : KeyOf(i) = KeyOf(j) => i = j
    /\ IsFiniteSet(J) /\ Cardinality(J) <= Slots

\* A task that has not begun, or whose process is down, has no list yet.
AccountsInv ==
    \A p \in Procs :
        /\ Sound(listed[p], waiting[p], jobs[p], settled[p], failed[p])
        /\ ~up[p] \/ phase[p] = "delay" =>
             /\ listed[p] = {} /\ waiting[p] = {} /\ jobs[p] = {}
             /\ settled[p] = {} /\ failed[p] = {}
        /\ ~up[p] => phase[p] = "down"

LEMMA NothingSound == Sound({}, {}, {}, {}, {})
<1>1. IsFiniteSet({}) /\ Cardinality({}) = 0 BY FS_EmptySet
<1>2. QED BY <1>1, ConstantsAssumption DEF Sound, Keys

\* The list is made: every session waits.
LEMMA ListSound == ASSUME NEW l PROVE Sound(l, l, {}, {}, {})
<1>1. IsFiniteSet({}) /\ Cardinality({}) = 0 BY FS_EmptySet
<1>2. QED BY <1>1, ConstantsAssumption DEF Sound, Keys

\* A session gets a job.
LEMMA StartSound ==
  ASSUME NEW l, NEW w, NEW J, NEW s, NEW f, Sound(l, w, J, s, f),
         NEW j, KeyOf(j) \in w, Cardinality(J) < Slots
  PROVE  Sound(l, w \ {KeyOf(j)}, J \cup {j}, s, f)
<1>1. KeyOf(j) \notin Keys(J) \cup s \cup f BY DEF Sound
<1>2. Keys(J \cup {j}) = Keys(J) \cup {KeyOf(j)} BY DEF Keys
<1>3. \A i, k \in J \cup {j} : KeyOf(i) = KeyOf(k) => i = k BY <1>1 DEF Sound, Keys
<1>4. IsFiniteSet(J \cup {j}) /\ Cardinality(J \cup {j}) <= Slots
  <2>1. IsFiniteSet(J) BY DEF Sound
  <2>2. Cardinality(J) \in Nat BY <2>1, FS_CardinalityType
  <2>3. j \notin J BY <1>1 DEF Keys
  <2>4. IsFiniteSet(J \cup {j}) /\ Cardinality(J \cup {j}) = Cardinality(J) + 1
    BY <2>1, <2>3, FS_AddElement
  <2>5. QED BY <2>2, <2>4, ConstantsAssumption
<1>5. QED BY <1>1, <1>2, <1>3, <1>4 DEF Sound

\* A session that cannot be read has failed.
LEMMA UnreadSound ==
  ASSUME NEW l, NEW w, NEW J, NEW s, NEW f, Sound(l, w, J, s, f), NEW k \in w
  PROVE  Sound(l, w \ {k}, J, s, f \cup {k})
BY DEF Sound

\* Without job j its session is in none of the places.
LEMMA JobGone ==
  ASSUME NEW l, NEW w, NEW J, NEW s, NEW f, Sound(l, w, J, s, f), NEW j \in J
  PROVE  /\ Keys(J \ {j}) = Keys(J) \ {KeyOf(j)} /\ KeyOf(j) \in Keys(J)
         /\ IsFiniteSet(J \ {j}) /\ Cardinality(J \ {j}) \in Nat
         /\ Cardinality(J \ {j}) < Slots
<1>1. Keys(J \ {j}) = Keys(J) \ {KeyOf(j)} /\ KeyOf(j) \in Keys(J) BY DEF Sound, Keys
<1>2. IsFiniteSet(J) /\ Cardinality(J) <= Slots BY DEF Sound
<1>3. Cardinality(J) \in Nat BY <1>2, FS_CardinalityType
<1>4. IsFiniteSet(J \ {j}) /\ Cardinality(J \ {j}) = Cardinality(J) - 1
  BY <1>2, FS_RemoveElement
<1>5. Cardinality(J \ {j}) \in Nat BY <1>4, FS_CardinalityType
<1>6. QED BY <1>1, <1>2, <1>3, <1>4, <1>5, ConstantsAssumption

LEMMA EndSound ==
  ASSUME NEW l, NEW w, NEW J, NEW s, NEW f, Sound(l, w, J, s, f), NEW j \in J
  PROVE  /\ Sound(l, w, J \ {j}, s \cup {KeyOf(j)}, f)
         /\ Sound(l, w, J \ {j}, s, f \cup {KeyOf(j)})
<1>1. /\ Keys(J \ {j}) = Keys(J) \ {KeyOf(j)} /\ KeyOf(j) \in Keys(J)
      /\ IsFiniteSet(J \ {j}) /\ Cardinality(J \ {j}) \in Nat /\ Cardinality(J \ {j}) < Slots
  BY JobGone
<1>2. Cardinality(J \ {j}) <= Slots BY <1>1, ConstantsAssumption
<1>3. \A i, k \in J \ {j} : KeyOf(i) = KeyOf(k) => i = k BY DEF Sound
<1>4. QED BY <1>1, <1>2, <1>3 DEF Sound

LEMMA ArchivedSound ==
  ASSUME NEW l, NEW w, NEW J, NEW s, NEW f, Sound(l, w, J, s, f), NEW j \in J,
         NEW k, KeyOf(k) = KeyOf(j)
  PROVE  Sound(l, w, (J \ {j}) \cup {k}, s, f)
<1> DEFINE rest == J \ {j}
<1>1. /\ Keys(rest) = Keys(J) \ {KeyOf(j)} /\ KeyOf(j) \in Keys(J)
      /\ IsFiniteSet(rest) /\ Cardinality(rest) \in Nat /\ Cardinality(rest) < Slots
  BY JobGone
<1>2. Keys(rest \cup {k}) = Keys(J) BY <1>1 DEF Keys
<1>3. k \notin rest BY <1>1 DEF Keys
<1>4. IsFiniteSet(rest \cup {k}) /\ Cardinality(rest \cup {k}) = Cardinality(rest) + 1
  BY <1>1, <1>3, FS_AddElement
<1>5. Cardinality(rest \cup {k}) <= Slots BY <1>1, <1>4, ConstantsAssumption
<1>6. \A i, h \in rest \cup {k} : KeyOf(i) = KeyOf(h) => i = h BY <1>1 DEF Sound, Keys
<1>7. QED BY <1>2, <1>4, <1>5, <1>6 DEF Sound

\* What the task of p may leave behind: its own accounts in order, the others alone.
Balanced(p) ==
    /\ Sound(listed'[p], waiting'[p], jobs'[p], settled'[p], failed'[p])
    /\ up' = up /\ up[p] /\ phase'[p] # "delay"
    /\ \A q \in Procs \ {p} :
         /\ phase'[q] = phase[q] /\ listed'[q] = listed[q] /\ waiting'[q] = waiting[q]
         /\ jobs'[q] = jobs[q] /\ settled'[q] = settled[q] /\ failed'[q] = failed[q]

LEMMA TaskBalanced ==
  ASSUME TypeOK, AccountsInv, NEW p \in Procs, RecoveryStep(p)
  PROVE  Balanced(p)
<1> DEFINE S == Sound(listed[p], waiting[p], jobs[p], settled[p], failed[p])
<1>0. S BY DEF AccountsInv
<1>1. CASE ListPending(p)
  <2>1. jobs[p] = {} /\ settled[p] = {} /\ failed[p] = {} /\ listed[p] = {} /\ waiting[p] = {}
    BY <1>1 DEF ListPending, AccountsInv
  <2>2. \/ listed'[p] = {Key(e) : e \in Pending} /\ waiting'[p] = {Key(e) : e \in Pending}
        \/ listed'[p] = listed[p] /\ waiting'[p] = waiting[p]
    BY <1>1 DEF ListPending, TypeOK
  <2>3. UNCHANGED <<jobs, settled, failed, up>> /\ phase'[p] \in {"running", "unlisted"}
    BY <1>1 DEF ListPending, TypeOK
  <2>4. Sound(listed'[p], waiting'[p], jobs'[p], settled'[p], failed'[p])
    BY <2>1, <2>2, <2>3, ListSound, <1>0
  <2>5. QED BY <1>1, <2>3, <2>4 DEF Balanced, ListPending, TypeOK
<1>2. ASSUME NEW k \in waiting[p], JobStart(p, k) PROVE Balanced(p)
  <2>1. PICK j : KeyOf(j) = k /\ jobs' = [jobs EXCEPT ![p] = @ \cup {j}]
    <3>1. k \in SessionKeys BY DEF TypeOK
    <3> DEFINE hist == History(RowsOf(k.user, k.cid))
    <3> DEFINE j == [user |-> k.user, chat |-> k.chat, cid |-> k.cid, hist |-> hist,
                     pc |-> IF Junk(hist) THEN "closing" ELSE "archiving"]
    <3>2. jobs' = [jobs EXCEPT ![p] = @ \cup {j}] BY <1>2 DEF JobStart
    <3>3. j.user = k.user /\ j.chat = k.chat /\ j.cid = k.cid OBVIOUS
    <3>4. KeyOf(j) = k BY <3>1, <3>3 DEF KeyOf, SessionKeys
    <3> HIDE DEF j
    <3>5. QED BY <3>2, <3>4
  <2>2. Cardinality(jobs[p]) < Slots /\ waiting' = [waiting EXCEPT ![p] = @ \ {k}]
        /\ UNCHANGED <<up, phase, listed, settled, failed>> /\ up[p] /\ phase[p] = "running"
    BY <1>2 DEF JobStart, FreeSlot
  <2>3. Sound(listed[p], waiting[p] \ {k}, jobs[p] \cup {j}, settled[p], failed[p])
    BY <1>0, <2>1, <2>2, StartSound
  <2>4. QED BY <2>1, <2>2, <2>3 DEF Balanced, TypeOK
<1>3. ASSUME NEW k \in waiting[p], JobUnread(p, k) PROVE Balanced(p)
  <2>1. Sound(listed[p], waiting[p] \ {k}, jobs[p], settled[p], failed[p] \cup {k})
    BY <1>0, UnreadSound
  <2>2. QED BY <1>3, <2>1 DEF Balanced, JobUnread, TypeOK
<1>4. ASSUME NEW j \in jobs[p] PROVE up[p] /\ phase[p] # "delay"
  BY <1>4 DEF AccountsInv
<1>5. ASSUME NEW j \in jobs[p], JobArchived(p, j) PROVE Balanced(p)
  <2> DEFINE k == [j EXCEPT !.pc = "marking"]
  <2>1. KeyOf(k) = KeyOf(j)
    <3>1. j \in Jobs BY DEF TypeOK
    <3>2. k.user = j.user /\ k.chat = j.chat /\ k.cid = j.cid BY <3>1 DEF Jobs
    <3>3. QED BY <3>2 DEF KeyOf
  <2>2. jobs' = [jobs EXCEPT ![p] = (@ \ {j}) \cup {k}]
        /\ UNCHANGED <<up, phase, listed, waiting, settled, failed>>
    BY <1>5 DEF JobArchived
  <2> HIDE DEF k
  <2>3. Sound(listed[p], waiting[p], (jobs[p] \ {j}) \cup {k}, settled[p], failed[p])
    BY <1>0, <2>1, ArchivedSound
  <2>4. QED BY <1>4, <2>2, <2>3 DEF Balanced, TypeOK
<1>6. ASSUME NEW j \in jobs[p], JobMarked(p, j) PROVE Balanced(p)
  <2>1. Sound(listed[p], waiting[p], jobs[p] \ {j}, settled[p] \cup {KeyOf(j)}, failed[p])
    BY <1>0, EndSound
  <2>2. QED BY <1>4, <1>6, <2>1 DEF Balanced, JobMarked, TypeOK
<1>7. ASSUME NEW j \in jobs[p], JobFailed(p, j) PROVE Balanced(p)
  <2>1. Sound(listed[p], waiting[p], jobs[p] \ {j}, settled[p], failed[p] \cup {KeyOf(j)})
    BY <1>0, EndSound
  <2>2. QED BY <1>4, <1>7, <2>1 DEF Balanced, JobFailed, TypeOK
<1>8. CASE FinishRecovery(p)
  <2>1. up[p] BY <1>8 DEF FinishRecovery, AccountsInv
  <2>2. QED BY <1>0, <1>8, <2>1 DEF Balanced, FinishRecovery, TypeOK
<1>9. QED BY <1>1, <1>2, <1>3, <1>5, <1>6, <1>7, <1>8 DEF RecoveryStep

LEMMA NextAccounts ==
  ASSUME TypeOK, AccountsInv, [Next]_vars
  PROVE  AccountsInv'
<1>1. ASSUME UNCHANGED <<up, recovery>> PROVE AccountsInv' BY <1>1 DEF recovery, AccountsInv
<1>2. ASSUME NEW m \in Msgs, TurnStep(m) PROVE AccountsInv'
  BY <1>1, <1>2 DEF TurnStep, Receive, JournalMessage, Reply, GiveUp, JournalReply
<1>3. ASSUME NEW n \in News, NewStep(n) PROVE AccountsInv'
  BY <1>1, <1>3
  DEF NewStep, NewEmpty, NewStart, NewArchived, NewFailed, NewMark, NewClose
<1>4. ASSUME NEW u \in Users, Reset(u) PROVE AccountsInv' BY <1>1, <1>4 DEF Reset
<1>5. ASSUME NEW p \in Procs, RecoveryStep(p) PROVE AccountsInv'
  <2>1. Balanced(p) BY <1>5, TaskBalanced
  <2>2. QED BY <2>1 DEF Balanced, AccountsInv
<1>6. ASSUME NEW p \in Procs, Crash(p) PROVE AccountsInv'
  <2>1. \A q \in Procs \ {p} :
          /\ up'[q] = up[q] /\ phase'[q] = phase[q] /\ listed'[q] = listed[q]
          /\ waiting'[q] = waiting[q] /\ jobs'[q] = jobs[q]
          /\ settled'[q] = settled[q] /\ failed'[q] = failed[q]
    BY <1>6 DEF Crash, TypeOK
  <2>2. listed'[p] = {} /\ waiting'[p] = {} /\ jobs'[p] = {} /\ settled'[p] = {} /\ failed'[p] = {}
    BY <1>6 DEF Crash, TypeOK
  <2>3. phase'[p] = "down" BY <1>6 DEF Crash, TypeOK
  <2>4. QED BY <2>1, <2>2, <2>3, NothingSound DEF AccountsInv
<1>7. ASSUME NEW p \in Procs, Restart(p) PROVE AccountsInv'
  <2>1. \A q \in Procs \ {p} : up'[q] = up[q] /\ phase'[q] = phase[q]
    BY <1>7 DEF Restart, TypeOK
  <2>2. ~up[p] /\ UNCHANGED <<listed, waiting, jobs, settled, failed>> BY <1>7 DEF Restart
  <2>3. up'[p] BY <1>7 DEF Restart, TypeOK
  <2>4. QED BY <2>1, <2>2, <2>3 DEF AccountsInv
<1>8. CASE UNCHANGED vars BY <1>1, <1>8 DEF vars
<1>9. QED BY <1>2, <1>3, <1>4, <1>5, <1>6, <1>7, <1>8 DEF Next

\* The summary of the recovery adds up, for any number of sessions and slots, with
\* failures of each and restarts anywhere.
THEOREM RecoveryAddsUp == Spec => []RecoveryAccounts
<1>1. Init => AccountsInv BY NothingSound DEF Init, AccountsInv
<1>2. TypeOK /\ AccountsInv /\ [Next]_vars => AccountsInv' BY NextAccounts
<1>3. AccountsInv => RecoveryAccounts
  BY DEF AccountsInv, RecoveryAccounts, Sound, Keys, Working
<1>4. QED BY <1>1, <1>2, <1>3, SessionTypeCorrect, PTL DEF Spec
-----------------------------------------------------------------------------
(* The recovery task and /new come to their end.                           *)

\* How many steps session k has left, of those that wait (w) or have a job (J).
SessionLeft(w, J, k) ==
    CASE k \in w -> 3
      [] k \notin w /\ (\E j \in J : KeyOf(j) = k /\ j.pc = "archiving") -> 2
      [] k \notin w /\ k \in Keys(J) /\ (\A j \in J : KeyOf(j) = k => j.pc # "archiving") -> 1
      [] OTHER -> 0

\* Session k has less left, all others as much as before.
Lowered(w, J, v, K, k) ==
    /\ SessionLeft(v, K, k) < SessionLeft(w, J, k)
    /\ \A h : h # k => SessionLeft(v, K, h) = SessionLeft(w, J, h)

\* The task of p has yet to deal with the session of row e.
OnList(p, e) == phase[p] = "running" /\ Key(e) \in waiting[p] \cup Working(p)

\* Row e is no longer a matter for the task of p (as in DebtIsPaid).
Accounted(p, e) == e \in archived \/ phase[p] \in {"down", "unlisted"} \/ Key(e) \in failed[p]

\* The list has the session of every row that is debt when it is made, and such a
\* session leaves it only with its rows paid, as failed or with the process.
StaysOnList(p) ==
    \A e \in Pending :
        /\ phase[p] = "delay" => phase'[p] = "delay" \/ OnList(p, e)' \/ Accounted(p, e)'
        /\ OnList(p, e) => OnList(p, e)' \/ Accounted(p, e)'

\* The list does not grow, and each step of the task leaves less to do or is its last.
RunsDown(p) ==
    phase[p] = "running" /\ phase'[p] # "down" =>
        /\ listed'[p] = listed[p]
        /\ \A k \in listed[p] : SessionLeft(waiting'[p], jobs'[p], k)
                                   <= SessionLeft(waiting[p], jobs[p], k)
        /\ RecoveryStep(p) =>
             \/ phase'[p] = "done"
             \/ \E k \in listed[p] : SessionLeft(waiting'[p], jobs'[p], k)
                                        < SessionLeft(waiting[p], jobs[p], k)

DebtRunsOut == [][\A p \in Procs : StaysOnList(p) /\ RunsDown(p)]_vars

LEMMA SessionLeftNat == ASSUME NEW w, NEW J, NEW k PROVE SessionLeft(w, J, k) \in 0..3
BY DEF SessionLeft

LEMMA StartLowers ==
  ASSUME NEW w, NEW J, NEW k \in w, NEW j, KeyOf(j) = k
  PROVE  Lowered(w, J, w \ {k}, J \cup {j}, k)
<1>1. SessionLeft(w, J, k) = 3 BY DEF SessionLeft
<1>2. SessionLeft(w \ {k}, J \cup {j}, k) \in {0, 1, 2} BY DEF SessionLeft
<1>3. ASSUME NEW h, h # k PROVE SessionLeft(w \ {k}, J \cup {j}, h) = SessionLeft(w, J, h)
  BY <1>3 DEF SessionLeft, Keys
<1>4. QED BY <1>1, <1>2, <1>3 DEF Lowered

LEMMA UnreadLowers ==
  ASSUME NEW w, NEW J, NEW k \in w
  PROVE  Lowered(w, J, w \ {k}, J, k)
<1>1. SessionLeft(w, J, k) = 3 BY DEF SessionLeft
<1>2. SessionLeft(w \ {k}, J, k) \in {0, 1, 2} BY DEF SessionLeft
<1>3. ASSUME NEW h, h # k PROVE SessionLeft(w \ {k}, J, h) = SessionLeft(w, J, h)
  BY <1>3 DEF SessionLeft
<1>4. QED BY <1>1, <1>2, <1>3 DEF Lowered

\* A job that is the only one of its session ends, or goes on from archiving.
LEMMA JobLowers ==
  ASSUME NEW w, NEW J, NEW j \in J, KeyOf(j) \notin w,
         \A i \in J : KeyOf(i) = KeyOf(j) => i = j
  PROVE  /\ Lowered(w, J, w, J \ {j}, KeyOf(j))
         /\ \A i : KeyOf(i) = KeyOf(j) /\ j.pc = "archiving" /\ i.pc # "archiving"
              => Lowered(w, J, w, (J \ {j}) \cup {i}, KeyOf(j))
<1> DEFINE k == KeyOf(j)
<1>1. SessionLeft(w, J, k) \in {1, 2} /\ (j.pc = "archiving" => SessionLeft(w, J, k) = 2)
  BY DEF SessionLeft, Keys
<1>2. SessionLeft(w, J \ {j}, k) = 0 BY DEF SessionLeft, Keys
<1>3. ASSUME NEW h, h # k PROVE SessionLeft(w, J \ {j}, h) = SessionLeft(w, J, h)
  BY <1>3 DEF SessionLeft, Keys
<1>4. ASSUME NEW i, KeyOf(i) = k, j.pc = "archiving", i.pc # "archiving"
      PROVE  Lowered(w, J, w, (J \ {j}) \cup {i}, k)
  <2>1. SessionLeft(w, (J \ {j}) \cup {i}, k) \in {0, 1} BY <1>4 DEF SessionLeft, Keys
  <2>2. ASSUME NEW h, h # k PROVE SessionLeft(w, (J \ {j}) \cup {i}, h) = SessionLeft(w, J, h)
    BY <1>4, <2>2 DEF SessionLeft, Keys
  <2>3. QED BY <1>1, <1>4, <2>1, <2>2 DEF Lowered
<1>5. QED BY <1>1, <1>2, <1>3, <1>4 DEF Lowered

\* Each step of a task that has its list is its last or lowers one session of the list.
LEMMA TaskRunsDown ==
  ASSUME TypeOK, AccountsInv, NEW p \in Procs, phase[p] = "running", RecoveryStep(p)
  PROVE  /\ listed'[p] = listed[p]
         /\ \/ phase'[p] = "done" /\ waiting'[p] = waiting[p] /\ jobs'[p] = jobs[p]
            \/ \E k \in listed[p] : Lowered(waiting[p], jobs[p], waiting'[p], jobs'[p], k)
<1>0. Sound(listed[p], waiting[p], jobs[p], settled[p], failed[p]) BY DEF AccountsInv
<1>1. ~ListPending(p) BY DEF ListPending
<1>2. ASSUME NEW k \in waiting[p]
      PROVE  k \in listed[p] /\ k \in SessionKeys
  BY <1>0, <1>2 DEF Sound, TypeOK
<1>3. ASSUME NEW j \in jobs[p]
      PROVE  /\ KeyOf(j) \in listed[p] /\ KeyOf(j) \notin waiting[p] /\ j \in Jobs
             /\ \A i \in jobs[p] : KeyOf(i) = KeyOf(j) => i = j
  BY <1>0, <1>3 DEF Sound, TypeOK, Keys
<1>4. ASSUME NEW k \in waiting[p], JobStart(p, k)
      PROVE  /\ listed'[p] = listed[p]
             /\ Lowered(waiting[p], jobs[p], waiting'[p], jobs'[p], k)
  <2> DEFINE hist == History(RowsOf(k.user, k.cid))
  <2> DEFINE j == [user |-> k.user, chat |-> k.chat, cid |-> k.cid, hist |-> hist,
                   pc |-> IF Junk(hist) THEN "closing" ELSE "archiving"]
  <2>1. /\ waiting' = [waiting EXCEPT ![p] = @ \ {k}] /\ listed' = listed
        /\ jobs' = [jobs EXCEPT ![p] = @ \cup {j}]
    BY <1>4 DEF JobStart
  <2>2. j.user = k.user /\ j.chat = k.chat /\ j.cid = k.cid OBVIOUS
  <2>3. KeyOf(j) = k BY <1>2, <2>2 DEF KeyOf, SessionKeys
  <2> HIDE DEF j
  <2>4. Lowered(waiting[p], jobs[p], waiting[p] \ {k}, jobs[p] \cup {j}, k)
    BY <2>3, StartLowers
  <2>5. QED BY <2>1, <2>4 DEF TypeOK
<1>5. ASSUME NEW k \in waiting[p], JobUnread(p, k)
      PROVE  /\ listed'[p] = listed[p]
             /\ Lowered(waiting[p], jobs[p], waiting'[p], jobs'[p], k)
  <2>1. Lowered(waiting[p], jobs[p], waiting[p] \ {k}, jobs[p], k) BY UnreadLowers
  <2>2. QED BY <1>5, <2>1 DEF JobUnread, TypeOK
<1>6. ASSUME NEW j \in jobs[p], JobArchived(p, j)
      PROVE  /\ listed'[p] = listed[p]
             /\ Lowered(waiting[p], jobs[p], waiting'[p], jobs'[p], KeyOf(j))
  <2> DEFINE i == [j EXCEPT !.pc = "marking"]
  <2>1. /\ jobs' = [jobs EXCEPT ![p] = (@ \ {j}) \cup {i}] /\ j.pc = "archiving"
        /\ waiting' = waiting /\ listed' = listed
    BY <1>6 DEF JobArchived
  <2>2. /\ i.user = j.user /\ i.chat = j.chat /\ i.cid = j.cid /\ i.pc = "marking"
    BY <1>3 DEF Jobs
  <2>3. KeyOf(i) = KeyOf(j) BY <2>2 DEF KeyOf
  <2>4. i.pc # "archiving" BY <2>2
  <2> HIDE DEF i
  <2>5. Lowered(waiting[p], jobs[p], waiting[p], (jobs[p] \ {j}) \cup {i}, KeyOf(j))
    BY <1>3, <2>1, <2>3, <2>4, JobLowers
  <2>6. QED BY <2>1, <2>5 DEF TypeOK
<1>7. ASSUME NEW j \in jobs[p], JobMarked(p, j) \/ JobFailed(p, j)
      PROVE  /\ listed'[p] = listed[p]
             /\ Lowered(waiting[p], jobs[p], waiting'[p], jobs'[p], KeyOf(j))
  <2>1. Lowered(waiting[p], jobs[p], waiting[p], jobs[p] \ {j}, KeyOf(j))
    BY <1>3, JobLowers
  <2>2. QED BY <1>7, <2>1 DEF JobMarked, JobFailed, TypeOK
<1>8. ASSUME FinishRecovery(p)
      PROVE  /\ listed'[p] = listed[p] /\ phase'[p] = "done"
             /\ waiting'[p] = waiting[p] /\ jobs'[p] = jobs[p]
  BY <1>8 DEF FinishRecovery, TypeOK
<1>9. QED BY <1>1, <1>2, <1>3, <1>4, <1>5, <1>6, <1>7, <1>8 DEF RecoveryStep

\* A session leaves the list with its rows paid, or as failed.
LEMMA TaskKeepsDebt ==
  ASSUME TypeOK, AccountsInv, NEW p \in Procs, RecoveryStep(p), NEW e \in Pending
  PROVE  /\ phase[p] = "delay" => OnList(p, e)' \/ Accounted(p, e)'
         /\ OnList(p, e) => OnList(p, e)' \/ Accounted(p, e)'
<1> DEFINE k == Key(e)
<1>0. e \in Entry /\ e \in journaled BY DEF Pending, TypeOK
<1>1. home' = home /\ journaled' = journaled /\ k' = k
  BY DEF RecoveryStep, ListPending, JobStart, JobUnread, JobArchived, JobMarked, JobFailed,
         FinishRecovery, store, disk, Key
<1>2. k.user = OwnerOf(e) /\ k.cid = home[e] BY DEF Key
<1>3. ASSUME NEW j \in jobs[p], KeyOf(j) = k PROVE e \in RowsOf(j.user, j.cid)
  <2>1. j.user = k.user /\ j.cid = k.cid BY <1>3 DEF KeyOf, Key
  <2>2. QED BY <1>0, <1>2, <2>1 DEF RowsOf
<1>4. ASSUME phase[p] = "delay" PROVE OnList(p, e)' \/ Accounted(p, e)'
  <2>1. jobs[p] = {} /\ waiting[p] = {} BY <1>4 DEF AccountsInv
  <2>2. ListPending(p) BY <1>4, <2>1 DEF RecoveryStep, FinishRecovery
  <2>3. CASE phase'[p] = "unlisted" BY <2>3 DEF Accounted
  <2>4. CASE phase'[p] = "running" /\ waiting'[p] = {Key(d) : d \in Pending}
    <3>1. k \in waiting'[p] BY <2>4
    <3> HIDE DEF k
    <3>2. (k \in waiting[p] \cup Working(p))' BY <1>1, <3>1
    <3>3. QED BY <2>4, <3>2 DEF OnList, k
  <2>5. QED BY <2>2, <2>3, <2>4 DEF ListPending, TypeOK
<1>5. ASSUME OnList(p, e) PROVE OnList(p, e)' \/ Accounted(p, e)'
  <2> HIDE DEF k
  <2>0. phase[p] = "running" /\ k \in waiting[p] \cup Working(p) BY <1>5 DEF OnList, k
  <2>1. ASSUME phase'[p] = "running", k \in waiting'[p] \cup {KeyOf(j) : j \in jobs'[p]}
        PROVE  OnList(p, e)'
    BY <1>1, <2>1 DEF OnList, Working, k
  <2>2. ASSUME e \in archived' \/ k \in failed'[p] PROVE Accounted(p, e)'
    BY <1>1, <2>2 DEF Accounted, k
  <2>3. ASSUME NEW h \in waiting[p], JobStart(p, h) PROVE OnList(p, e)'
    <3> DEFINE hist == History(RowsOf(h.user, h.cid))
    <3> DEFINE j == [user |-> h.user, chat |-> h.chat, cid |-> h.cid, hist |-> hist,
                     pc |-> IF Junk(hist) THEN "closing" ELSE "archiving"]
    <3>1. waiting' = [waiting EXCEPT ![p] = @ \ {h}] /\ jobs' = [jobs EXCEPT ![p] = @ \cup {j}]
          /\ phase' = phase
      BY <2>3 DEF JobStart
    <3>2. j.user = h.user /\ j.chat = h.chat /\ j.cid = h.cid OBVIOUS
    <3>3. h \in SessionKeys BY DEF TypeOK
    <3>4. KeyOf(j) = h BY <3>2, <3>3 DEF KeyOf, SessionKeys
    <3> HIDE DEF j
    <3>5. waiting'[p] = waiting[p] \ {h} /\ jobs'[p] = jobs[p] \cup {j} /\ phase'[p] = "running"
      BY <2>0, <3>1 DEF TypeOK
    <3>6. k \in waiting'[p] \cup {KeyOf(i) : i \in jobs'[p]}
      BY <2>0, <3>4, <3>5 DEF Working
    <3>7. QED BY <2>1, <3>5, <3>6
  <2>4. ASSUME NEW h \in waiting[p], JobUnread(p, h) PROVE OnList(p, e)' \/ Accounted(p, e)'
    <3>1. /\ waiting'[p] = waiting[p] \ {h} /\ failed'[p] = failed[p] \cup {h}
          /\ jobs'[p] = jobs[p] /\ phase'[p] = phase[p]
      BY <2>4 DEF JobUnread, TypeOK
    <3>2. QED BY <2>0, <2>1, <2>2, <3>1 DEF Working
  <2>5. ASSUME NEW j \in jobs[p], JobArchived(p, j) PROVE OnList(p, e)'
    <3> DEFINE i == [j EXCEPT !.pc = "marking"]
    <3>1. /\ jobs' = [jobs EXCEPT ![p] = (@ \ {j}) \cup {i}]
          /\ waiting' = waiting /\ phase' = phase
      BY <2>5 DEF JobArchived
    <3>2. j \in Jobs BY DEF TypeOK
    <3>3. i.user = j.user /\ i.chat = j.chat /\ i.cid = j.cid BY <3>2 DEF Jobs
    <3>4. KeyOf(i) = KeyOf(j) BY <3>3 DEF KeyOf
    <3> HIDE DEF i
    <3>5. jobs'[p] = (jobs[p] \ {j}) \cup {i} BY <3>1 DEF TypeOK
    <3>6. k \in waiting'[p] \cup {KeyOf(h) : h \in jobs'[p]} BY <2>0, <3>1, <3>4, <3>5 DEF Working
    <3>7. QED BY <2>0, <2>1, <3>1, <3>6
  <2>6. ASSUME NEW j \in jobs[p], JobMarked(p, j) PROVE OnList(p, e)' \/ Accounted(p, e)'
    <3>1. CASE KeyOf(j) = k
      <4>1. e \in RowsOf(j.user, j.cid) BY <1>3, <3>1 DEF k
      <4>2. QED BY <2>2, <2>6, <4>1 DEF JobMarked
    <3>2. CASE KeyOf(j) # k
      <4>1. waiting'[p] = waiting[p] /\ jobs'[p] = jobs[p] \ {j} /\ phase'[p] = phase[p]
        BY <2>6 DEF JobMarked, TypeOK
      <4>2. QED BY <2>0, <2>1, <3>2, <4>1 DEF Working
    <3>3. QED BY <3>1, <3>2
  <2>7. ASSUME NEW j \in jobs[p], JobFailed(p, j) PROVE OnList(p, e)' \/ Accounted(p, e)'
    <3>1. /\ waiting'[p] = waiting[p] /\ jobs'[p] = jobs[p] \ {j} /\ phase'[p] = phase[p]
          /\ failed'[p] = failed[p] \cup {KeyOf(j)}
      BY <2>7 DEF JobFailed, TypeOK
    <3>2. QED BY <2>0, <2>1, <2>2, <3>1 DEF Working
  <2>8. ~FinishRecovery(p) /\ ~ListPending(p)
    BY <2>0 DEF FinishRecovery, ListPending, Working
  <2>9. QED BY <2>3, <2>4, <2>5, <2>6, <2>7, <2>8 DEF RecoveryStep
<1>6. QED BY <1>4, <1>5

\* Nobody else touches the task, unless its process stops.
LEMMA OthersLeaveTask ==
  ASSUME TypeOK, AccountsInv, [Next]_vars, NEW p \in Procs, ~RecoveryStep(p),
         phase[p] \in {"delay", "running"}
  PROVE  \/ phase'[p] = "down"
         \/ /\ phase'[p] = phase[p] /\ listed'[p] = listed[p] /\ waiting'[p] = waiting[p]
            /\ jobs'[p] = jobs[p] /\ failed'[p] = failed[p]
<1>1. CASE UNCHANGED recovery BY <1>1 DEF recovery
<1>2. ASSUME NEW m \in Msgs, TurnStep(m) PROVE UNCHANGED recovery
  BY <1>2 DEF TurnStep, Receive, JournalMessage, Reply, GiveUp, JournalReply
<1>3. ASSUME NEW n \in News, NewStep(n) PROVE UNCHANGED recovery
  BY <1>3 DEF NewStep, NewEmpty, NewStart, NewArchived, NewFailed, NewMark, NewClose
<1>4. ASSUME NEW u \in Users, Reset(u) PROVE UNCHANGED recovery BY <1>4 DEF Reset
<1>5. CASE UNCHANGED vars BY <1>1, <1>5 DEF vars
<1>6. ASSUME NEW q \in Procs, RecoveryStep(q)
      PROVE  /\ phase'[p] = phase[p] /\ listed'[p] = listed[p] /\ waiting'[p] = waiting[p]
             /\ jobs'[p] = jobs[p] /\ failed'[p] = failed[p]
  <2>1. q # p BY <1>6
  <2>2. Balanced(q) BY <1>6, TaskBalanced
  <2>3. QED BY <2>1, <2>2 DEF Balanced
<1>7. CASE \E q \in Procs : Crash(q) BY <1>7 DEF Crash, TypeOK
<1>8. CASE \E q \in Procs : Restart(q)
  <2>1. PICK q \in Procs : Restart(q) BY <1>8
  <2>2. q # p BY <2>1 DEF Restart, AccountsInv
  <2>3. QED BY <2>1, <2>2 DEF Restart, TypeOK
<1>9. QED BY <1>1, <1>2, <1>3, <1>4, <1>5, <1>6, <1>7, <1>8 DEF Next

\* The recovery of the journal comes to an end and leaves no debt it has seen behind but
\* that of failed sessions: what is left of DebtIsPaid is that its awaits return.
THEOREM DebtComesToEnd == Spec => DebtRunsOut
<1> DEFINE Left(p, k) == SessionLeft(waiting[p], jobs[p], k)
<1> DEFINE LeftNext(p, k) == SessionLeft(waiting'[p], jobs'[p], k)
<1>1. ASSUME ArchiveInv, AccountsInv, [Next]_vars, NEW p \in Procs, NEW e \in Pending
      PROVE  /\ phase[p] = "delay" => phase'[p] = "delay" \/ OnList(p, e)' \/ Accounted(p, e)'
             /\ OnList(p, e) => OnList(p, e)' \/ Accounted(p, e)'
  <2>0. TypeOK BY <1>1 DEF ArchiveInv
  <2>1. CASE RecoveryStep(p)
    <3>1. /\ phase[p] = "delay" => OnList(p, e)' \/ Accounted(p, e)'
          /\ OnList(p, e) => OnList(p, e)' \/ Accounted(p, e)'
      BY <1>1, <2>0, <2>1, TaskKeepsDebt
    <3>2. QED BY <3>1
  <2>2. CASE ~RecoveryStep(p)
    <3>1. Key(e)' = Key(e)
      <4>1. home'[e] = home[e] BY <1>1, NextMonotone DEF ArchiveInv, IdsInv, Monotone, Pending
      <4>2. QED BY <4>1 DEF Key
    <3>2. CASE phase'[p] = "down"
      <4>1. Accounted(p, e)' BY <3>2 DEF Accounted
      <4>2. QED BY <4>1
    <3>3. CASE phase[p] \notin {"delay", "running"} BY <3>3 DEF OnList
    <3>4. CASE phase[p] \in {"delay", "running"} /\ phase'[p] # "down"
      <4>1. phase'[p] = phase[p] /\ waiting'[p] = waiting[p] /\ jobs'[p] = jobs[p]
        BY <1>1, <2>0, <2>2, <3>4, OthersLeaveTask
      <4>2. OnList(p, e) => OnList(p, e)' BY <3>1, <4>1 DEF OnList, Working
      <4>3. QED BY <4>1, <4>2
    <3>5. QED BY <3>2, <3>3, <3>4
  <2>3. QED BY <2>1, <2>2
<1>2. ASSUME ArchiveInv, AccountsInv, [Next]_vars, NEW p \in Procs,
             phase[p] = "running", phase'[p] # "down"
      PROVE  /\ listed'[p] = listed[p]
             /\ \A k \in listed[p] : LeftNext(p, k) <= Left(p, k)
             /\ RecoveryStep(p) =>
                  phase'[p] = "done" \/ \E k \in listed[p] : LeftNext(p, k) < Left(p, k)
  <2>0. TypeOK BY <1>2 DEF ArchiveInv
  <2>1. \A k : Left(p, k) \in 0..3 /\ LeftNext(p, k) \in 0..3 BY SessionLeftNat
  <2>2. CASE RecoveryStep(p)
    <3>1. listed'[p] = listed[p] BY <1>2, <2>0, <2>2, TaskRunsDown
    <3>2. CASE phase'[p] = "done" /\ waiting'[p] = waiting[p] /\ jobs'[p] = jobs[p]
      <4>1. \A k : LeftNext(p, k) = Left(p, k) BY <3>2
      <4> HIDE DEF Left, LeftNext
      <4>2. QED BY <2>1, <3>1, <3>2, <4>1
    <3>3. CASE \E k \in listed[p] : Lowered(waiting[p], jobs[p], waiting'[p], jobs'[p], k)
      <4>1. PICK k \in listed[p] : LeftNext(p, k) < Left(p, k)
                                   /\ \A h : h # k => LeftNext(p, h) = Left(p, h)
        BY <3>3 DEF Lowered
      <4> HIDE DEF Left, LeftNext
      <4>2. \A h : LeftNext(p, h) <= Left(p, h) BY <2>1, <4>1
      <4>3. QED BY <3>1, <4>1, <4>2
    <3>4. QED BY <1>2, <2>0, <2>2, <3>2, <3>3, TaskRunsDown
  <2>3. CASE ~RecoveryStep(p)
    <3>1. listed'[p] = listed[p] /\ waiting'[p] = waiting[p] /\ jobs'[p] = jobs[p]
      BY <1>2, <2>0, <2>3, OthersLeaveTask
    <3>2. \A k : LeftNext(p, k) = Left(p, k) BY <3>1
    <3> HIDE DEF Left, LeftNext
    <3>3. QED BY <2>1, <2>3, <3>1, <3>2
  <2>4. QED BY <2>2, <2>3
<1>3. ArchiveInv /\ AccountsInv /\ [Next]_vars
        => [\A p \in Procs : StaysOnList(p) /\ RunsDown(p)]_vars
  <2> SUFFICES ASSUME ArchiveInv, AccountsInv, [Next]_vars, NEW p \in Procs
               PROVE  StaysOnList(p) /\ RunsDown(p)
    OBVIOUS
  <2>1. StaysOnList(p) BY <1>1 DEF StaysOnList
  <2>2. RunsDown(p) BY <1>2 DEF RunsDown
  <2>3. QED BY <2>1, <2>2
<1>4. Init => AccountsInv BY NothingSound DEF Init, AccountsInv
<1>5. ArchiveInv /\ AccountsInv /\ [Next]_vars => AccountsInv' BY NextAccounts DEF ArchiveInv
<1>6. QED BY <1>3, <1>4, <1>5, SessionInvariant, PTL DEF Spec, DebtRunsOut

\* How many steps a /new has left before it comes back to its user.
NewLeft(pc) ==
    CASE pc = "archiving" -> 3
      [] pc = "marking" -> 2
      [] pc = "closing" -> 1
      [] OTHER -> 0

\* A /new under way moves by its own steps alone, each leaves less to do, and it is lost
\* only with its process; what it read at its start stays what it archives and marks.
NewRunsOut ==
    [][\A n \in News : new[n].pc \in InNew =>
         \/ new'[n] = new[n] /\ ~NewStep(n)
         \/ /\ NewStep(n) /\ NewLeft(new'[n].pc) < NewLeft(new[n].pc)
            /\ new'[n].pc \in InNew => new'[n].cid = new[n].cid /\ new'[n].hist = new[n].hist
         \/ new'[n].pc = "lost" /\ ~up'[ProcOf[Owner[n]]]]_vars

LEMMA NewLeftOf ==
  /\ NewLeft("archiving") = 3 /\ NewLeft("marking") = 2 /\ NewLeft("closing") = 1
  /\ NewLeft("done") = 0 /\ NewLeft("lost") = 0
BY DEF NewLeft

LEMMA NewGoesDown ==
  ASSUME TypeOK, NEW n \in News, new[n].pc \in InNew, NewStep(n)
  PROVE  /\ NewLeft(new'[n].pc) < NewLeft(new[n].pc)
         /\ new'[n].pc \in InNew => new'[n].cid = new[n].cid /\ new'[n].hist = new[n].hist
         /\ \A k \in News \ {n} : new'[k] = new[k]
<1>0. new[n] \in NewRecords BY DEF TypeOK
<1>1. CASE NewArchived(n)
  <2>1. /\ new[n].pc = "archiving" /\ new' = [new EXCEPT ![n].pc = "marking"]
    BY <1>1 DEF NewArchived
  <2>2. new'[n] = [new[n] EXCEPT !.pc = "marking"] BY <2>1 DEF TypeOK
  <2>3. new'[n].pc = "marking" /\ new'[n].cid = new[n].cid /\ new'[n].hist = new[n].hist
    BY <1>0, <2>2 DEF NewRecords
  <2>4. QED BY <2>1, <2>3, NewLeftOf DEF TypeOK
<1>2. CASE NewMark(n)
  <2>1. /\ new[n].pc = "marking" /\ new' = [new EXCEPT ![n].pc = "closing"]
    BY <1>2 DEF NewMark
  <2>2. new'[n] = [new[n] EXCEPT !.pc = "closing"] BY <2>1 DEF TypeOK
  <2>3. new'[n].pc = "closing" /\ new'[n].cid = new[n].cid /\ new'[n].hist = new[n].hist
    BY <1>0, <2>2 DEF NewRecords
  <2>4. QED BY <2>1, <2>3, NewLeftOf DEF TypeOK
<1>3. CASE NewFailed(n) \/ NewClose(n)
  <2>1. new[n].pc \in {"archiving", "closing"} /\ new' = [new EXCEPT ![n] = Finished("done")]
    BY <1>3 DEF NewFailed, NewClose
  <2>2. new'[n].pc = "done" BY <2>1 DEF TypeOK, Finished
  <2>3. QED BY <2>1, <2>2, NewLeftOf DEF TypeOK, InNew
<1>4. ~NewEmpty(n) /\ ~NewStart(n) BY DEF NewEmpty, NewStart, InNew
<1>5. QED BY <1>1, <1>2, <1>3, <1>4 DEF NewStep

\* /new comes back: what is left of NewReturns is that its awaits return.
THEOREM NewComesToEnd == Spec => NewRunsOut
<1> DEFINE Down(n) ==
      \/ new'[n] = new[n] /\ ~NewStep(n)
      \/ /\ NewStep(n) /\ NewLeft(new'[n].pc) < NewLeft(new[n].pc)
         /\ new'[n].pc \in InNew => new'[n].cid = new[n].cid /\ new'[n].hist = new[n].hist
      \/ new'[n].pc = "lost" /\ ~up'[ProcOf[Owner[n]]]
<1>1. ASSUME TypeOK, [Next]_vars, NEW n \in News, new[n].pc \in InNew
      PROVE  Down(n)
  <2>1. CASE NewStep(n)
    <3>1. /\ NewLeft(new'[n].pc) < NewLeft(new[n].pc)
          /\ new'[n].pc \in InNew => new'[n].cid = new[n].cid /\ new'[n].hist = new[n].hist
      BY <1>1, <2>1, NewGoesDown
    <3>2. QED BY <2>1, <3>1
  <2>2. CASE ~NewStep(n) /\ new'[n] = new[n] BY <2>2
  <2>3. ASSUME NEW k \in News, NewStep(k), ~NewStep(n) PROVE new'[n] = new[n]
    <3>1. k # n BY <2>3
    <3>2. QED BY <1>1, <2>3, <3>1
      DEF NewStep, NewEmpty, NewStart, NewArchived, NewFailed, NewMark, NewClose, TypeOK
  <2>4. ASSUME NEW m \in Msgs, TurnStep(m) PROVE new' = new
    BY <2>4 DEF TurnStep, Receive, JournalMessage, Reply, GiveUp, JournalReply
  <2>5. ASSUME NEW u \in Users, Reset(u) PROVE new' = new BY <2>5 DEF Reset
  <2>6. ASSUME NEW p \in Procs, RecoveryStep(p) \/ Restart(p) PROVE new' = new
    BY <2>6 DEF RecoveryStep, ListPending, JobStart, JobUnread, JobArchived, JobMarked,
                JobFailed, FinishRecovery, Restart
  <2>7. ASSUME NEW p \in Procs, Crash(p)
        PROVE  new'[n] = new[n] \/ (new'[n].pc = "lost" /\ ~up'[ProcOf[Owner[n]]])
    <3>1. new'[n] = IF n \in NewOf(p) THEN Finished("lost") ELSE new[n]
      BY <1>1, <2>7 DEF Crash
    <3>2. ~up'[p] BY <1>1, <2>7 DEF Crash, TypeOK
    <3>3. QED BY <3>1, <3>2 DEF NewOf, Finished
  <2>8. CASE UNCHANGED vars BY <2>1, <2>2, <2>8 DEF vars
  <2>9. QED BY <1>1, <2>1, <2>2, <2>3, <2>4, <2>5, <2>6, <2>7, <2>8 DEF Next
<1>2. ASSUME TypeOK, [Next]_vars
      PROVE  \A n \in News : new[n].pc \in InNew => Down(n)
  BY <1>1, <1>2
<1>3. QED BY <1>2, SessionTypeCorrect, PTL DEF Spec, NewRunsOut
=============================================================================
