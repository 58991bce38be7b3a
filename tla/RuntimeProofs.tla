---------------------------- MODULE RuntimeProofs ----------------------------
(***************************************************************************)
(* Theorems about Runtime, for any processes, messages, users and parts:   *)
(* types, the agreement on users, the order of closing, and that a process *)
(* that is stopped comes to its end.                                       *)
(***************************************************************************)
EXTENDS Runtime, FiniteSetTheorems, SequenceTheorems, TLAPS

-----------------------------------------------------------------------------
(* The invariant.  The first half is about the life of a process: once its *)
(* handlers have been cancelled, none of them is waited for any more.      *)

Quiet(p) == phase[p] = "leave" \/ (Serial /\ phase[p] \in {"recover", "close"})

LifeInv ==
    /\ \A p \in Procs :
        /\ closed[p] # {} => phase[p] \in {"close", "leave"}
        /\ recovery[p] => phase[p] \in {"serve", "recover"}
        /\ polling[p] = "on" => phase[p] = "serve"
        /\ phase[p] = "serve" => polling[p] # "off"
    /\ \A h \in Handlers :
        /\ pc[h] \notin {"idle", "done"} => phase[HomeOf[h]] # "down"
        /\ h \in adrift => Quiet(HomeOf[h])
        /\ Running(h) => /\ ~Quiet(HomeOf[h])
                         /\ Serial => polling[HomeOf[h]] = "on"

\* The second half is about the table: one handler of a process is inside
\* get_or_create, adrift or with the lock, one process has an open transaction,
\* and where the handler is says what it finds there.
InTable(h) == pc[h] \in {"select", "insert", "commit", "publish"}

OneInTable ==
    /\ \A g, h \in Handlers :
          InTable(g) /\ InTable(h) /\ HomeOf[g] = HomeOf[h] => g = h
    /\ \A h \in Handlers : InTable(h) /\ h \notin adrift => lock[HomeOf[h]] = {h}

OpenRows ==
    /\ \A p, q \in Procs : p # q => open[p] = {} \/ open[q] = {}
    /\ \A p \in Procs :
        /\ IsFiniteSet(open[p])
        /\ \A e \in open[p] :
              rows[e[1]] = 0 /\ e[2] \in (last + 1)..(last + Cardinality(open[p]))
        /\ \A d, e \in open[p] : d[1] = e[1] \/ d[2] = e[2] => d = e

StoredRows == RowsDiffer /\ \A u \in Users : rows[u] \in 0..last

Inside ==
    \A h \in Handlers :
        LET p == HomeOf[h]  u == UserOf[h] IN
        /\ pc[h] = "insert" => /\ \A e \in open[p] : e[1] # u
                               /\ open[p] # {} => rows[u] = 0
        /\ pc[h] = "commit" /\ ~Shut(h) => <<u, out[h]>> \in open[p]
        /\ pc[h] = "publish" => rows[u] # 0 /\ made[u] = 0

OnePublish ==
    \A g, h \in Handlers :
        pc[g] = "publish" /\ pc[h] = "publish" /\ UserOf[g] = UserOf[h] => g = h

TableInv ==
    OneInTable /\ OpenRows /\ StoredRows /\ Inside /\ OnePublish /\ CreatedOnce /\ IdsAreRows

RuntimeInv == TypeOK /\ LifeInv /\ TableInv
-----------------------------------------------------------------------------
(* Types.                                                                  *)

Pcs == {"idle", "lock", "select", "insert", "commit", "publish", "work", "thread", "done"}
Phases == {"down", "serve", "recover", "close", "leave"}

LEMMA Typed ==
  ASSUME TypeOK
  PROVE  /\ boots \in [Procs -> 0..MaxBoots] /\ phase \in [Procs -> Phases]
         /\ asked \in [Procs -> BOOLEAN] /\ recovery \in [Procs -> BOOLEAN]
         /\ polling \in [Procs -> {"off", "on", "over"}]
         /\ next \in [Procs -> 1..Len(Parts) + 1] /\ closed \in [Procs -> SUBSET PartSet]
         /\ pc \in [Handlers -> Pcs] /\ adrift \subseteq Handlers
         /\ out \in [Handlers -> Nat] /\ lock \in [Procs -> SUBSET Handlers]
         /\ rows \in [Users -> Nat] /\ last \in Nat /\ made \in [Users -> Nat]
         /\ open \in [Procs -> SUBSET (Users \X Nat)]
BY DEF TypeOK, Pcs, Phases

LEMMA Homes == ASSUME RuntimeAssumption, NEW h \in Handlers
               PROVE HomeOf[h] \in Procs /\ UserOf[h] \in Users
BY DEF RuntimeAssumption

LEMMA OpenCount ==
  ASSUME TypeOK, TableInv, NEW p \in Procs PROVE Cardinality(open[p]) \in Nat
BY FS_CardinalityType DEF TableInv, OpenRows

LEMMA VisibleTyped ==
  ASSUME RuntimeAssumption, TypeOK, NEW h \in Handlers PROVE Visible(h) \subseteq Nat
<1>1. /\ rows[UserOf[h]] \in Nat
      /\ \A e \in open[HomeOf[h]] : e[2] \in Nat
  BY Homes, Typed
<1>2. QED BY <1>1 DEF Visible

LEMMA CancelTyped ==
  ASSUME TypeOK, NEW p \in Procs, NEW hs \in SUBSET Handlers, CancelHandlers(p, hs)
  PROVE  /\ pc' \in [Handlers -> Pcs] /\ adrift' \subseteq Handlers
         /\ out' \in [Handlers -> Nat] /\ lock' \in [Procs -> SUBSET Handlers]
         /\ \A h \in adrift' : InThread(h)'
<1> DEFINE gone == {h \in hs : Running(h)}
<1>1. /\ pc' = [h \in Handlers |-> IF h \in gone /\ ~InThread(h) THEN "done" ELSE pc[h]]
      /\ out' = [h \in Handlers |-> IF h \in gone /\ ~InThread(h) THEN 0 ELSE out[h]]
      /\ adrift' = adrift \cup {h \in gone : InThread(h)}
      /\ lock' = [lock EXCEPT ![p] = @ \ gone]
  BY DEF CancelHandlers
<1>2. gone \subseteq Handlers OBVIOUS
<1> HIDE DEF gone
<1>3. pc' \in [Handlers -> Pcs] BY <1>1, Typed DEF Pcs
<1>4. out' \in [Handlers -> Nat] BY <1>1, Typed
<1>5. lock' \in [Procs -> SUBSET Handlers] BY <1>1, Typed
<1>6. \A h \in adrift' : InThread(h)
  BY <1>1 DEF TypeOK
<1>7. \A h \in adrift' : pc'[h] = pc[h] BY <1>1, <1>2, <1>6, Typed
<1>8. \A h \in adrift' : InThread(h)' BY <1>6, <1>7 DEF InThread
<1>9. QED BY <1>1, <1>2, <1>3, <1>4, <1>5, <1>8, Typed

LEMMA ReturnTyped ==
  ASSUME RuntimeAssumption, TypeOK, NEW h \in Handlers, NEW where \in Pcs, NEW id \in Nat,
         Return(h, where, id)
  PROVE  /\ pc' \in [Handlers -> Pcs] /\ adrift' \subseteq Handlers
         /\ out' \in [Handlers -> Nat] /\ lock' \in [Procs -> SUBSET Handlers]
         /\ \A g \in adrift' : InThread(g)'
<1>1. /\ pc' = [pc EXCEPT ![h] = IF h \in adrift THEN "done" ELSE where]
      /\ out' = [out EXCEPT ![h] = IF h \in adrift THEN 0 ELSE id]
      /\ adrift' = adrift \ {h}
      /\ lock' = lock \/ lock' = [lock EXCEPT ![HomeOf[h]] = @ \ {h}]
  BY DEF Return, Release
<1>2. pc' \in [Handlers -> Pcs] /\ out' \in [Handlers -> Nat] BY <1>1, Typed DEF Pcs
<1>3. lock' \in [Procs -> SUBSET Handlers]
  <2>1. lock[HomeOf[h]] \ {h} \in SUBSET Handlers BY Homes, Typed
  <2>2. lock \in [Procs -> SUBSET Handlers] BY Typed
  <2>3. CASE lock' = lock BY <2>2, <2>3
  <2>4. CASE lock' = [lock EXCEPT ![HomeOf[h]] = @ \ {h}] BY <2>1, <2>2, <2>4
  <2>5. QED BY <1>1, <2>3, <2>4
<1>4. \A g \in adrift' : InThread(g)' BY <1>1, Typed DEF TypeOK, InThread
<1>5. QED BY <1>1, <1>2, <1>3, <1>4, Typed

LEMMA InitTyped == ASSUME RuntimeAssumption, Init PROVE TypeOK
<1>1. 1 \in 1..Len(Parts) + 1 /\ 0 \in 0..MaxBoots BY LenProperties DEF RuntimeAssumption
<1>2. QED BY <1>1 DEF Init, TypeOK

LEMMA ProcTyped ==
  ASSUME RuntimeAssumption, TypeOK, NEW p \in Procs,
         Boot(p) \/ Signal(p) \/ PollingEnds(p) \/ RecoveryEnds(p) \/ Stopping(p) \/ Kill(p)
  PROVE  TypeOK'
<1>0. Len(Parts) \in Nat /\ MaxBoots \in Nat BY LenProperties DEF RuntimeAssumption
<1>1. CASE Boot(p)
  <2>1. boots' \in [Procs -> 0..MaxBoots] BY <1>0, <1>1, Typed DEF Boot
  <2>2. recovery' \in [Procs -> BOOLEAN]
    <3>1. recovery' = [recovery EXCEPT ![p] = channel # "console"] BY <1>1 DEF Boot
    <3>2. (channel # "console") \in BOOLEAN OBVIOUS
    <3>3. QED BY <3>1, <3>2, Typed
  <2>3. phase' \in [Procs -> Phases] /\ polling' \in [Procs -> {"off", "on", "over"}]
    BY <1>1, Typed DEF Boot, Phases
  <2>4. QED BY <1>1, <2>1, <2>2, <2>3 DEF Boot, table, TypeOK, InThread, Phases
<1>2. CASE Signal(p)
  BY <1>2 DEF Signal, table, TypeOK, InThread
<1>3. CASE PollingEnds(p)
  BY <1>3 DEF PollingEnds, table, TypeOK, InThread
<1>4. CASE RecoveryEnds(p)
  BY <1>4 DEF RecoveryEnds, table, TypeOK, InThread
<1>5. CASE AwaitFirst(p)
  <2> DEFINE hs == IF Serial /\ polling[p] = "on" THEN Of(p) ELSE {}
  <2>1. CancelHandlers(p, hs) /\ hs \in SUBSET Handlers BY <1>5 DEF AwaitFirst, Of
  <2> HIDE DEF hs
  <2>2. /\ pc' \in [Handlers -> Pcs] /\ adrift' \subseteq Handlers
        /\ out' \in [Handlers -> Nat] /\ lock' \in [Procs -> SUBSET Handlers]
        /\ \A h \in adrift' : InThread(h)'
    BY <2>1, CancelTyped
  <2>3. /\ phase' \in [Procs -> Phases] /\ polling' \in [Procs -> {"off", "on", "over"}]
        /\ asked' \in [Procs -> BOOLEAN]
    BY <1>5, Typed DEF AwaitFirst, Phases
  <2>4. QED BY <1>5, <2>2, <2>3 DEF AwaitFirst, table, TypeOK, Pcs, Phases
<1>6. CASE StopRecovery(p)
  BY <1>6 DEF StopRecovery, table, TypeOK, InThread
<1>7. CASE CloseNext(p)
  <2>1. next[p] \in 1..Len(Parts) BY <1>0, <1>7, Typed DEF CloseNext
  <2>2. next' \in [Procs -> 1..Len(Parts) + 1] BY <1>0, <1>7, <2>1, Typed DEF CloseNext
  <2>3. Parts[next[p]] \in PartSet BY <2>1 DEF PartSet
  <2>4. closed' \in [Procs -> SUBSET PartSet]
    <3>1. closed[p] \cup {Parts[next[p]]} \in SUBSET PartSet BY <2>3, Typed
    <3>2. closed' = closed \/ closed' = [closed EXCEPT ![p] = closed[p] \cup {Parts[next[p]]}]
      BY <1>7 DEF CloseNext
    <3>3. closed \in [Procs -> SUBSET PartSet] BY Typed
    <3>4. CASE closed' = closed BY <3>3, <3>4
    <3>5. CASE closed' = [closed EXCEPT ![p] = closed[p] \cup {Parts[next[p]]}]
      BY <3>1, <3>3, <3>5
    <3>6. QED BY <3>2, <3>4, <3>5
  <2>5. open' \in [Procs -> SUBSET (Users \X Nat)] BY <1>7, Typed DEF CloseNext
  <2>6. QED BY <1>7, <2>2, <2>4, <2>5 DEF CloseNext, TypeOK, InThread
<1>8. CASE Leave(p)
  <2>1. CancelHandlers(p, Of(p)) /\ Of(p) \in SUBSET Handlers BY <1>8 DEF Leave, Of
  <2>2. /\ pc' \in [Handlers -> Pcs] /\ adrift' \subseteq Handlers
        /\ out' \in [Handlers -> Nat] /\ lock' \in [Procs -> SUBSET Handlers]
        /\ \A h \in adrift' : InThread(h)'
    BY <2>1, CancelTyped
  <2>3. phase' \in [Procs -> Phases] BY <1>8, Typed DEF Leave, Phases
  <2>4. QED BY <1>8, <2>2, <2>3 DEF Leave, table, TypeOK, Pcs, Phases
<1>9. CASE Gone(p)
  <2>1. /\ phase' \in [Procs -> Phases] /\ polling' \in [Procs -> {"off", "on", "over"}]
        /\ recovery' \in [Procs -> BOOLEAN] /\ asked' \in [Procs -> BOOLEAN]
        /\ closed' \in [Procs -> SUBSET PartSet]
        /\ open' \in [Procs -> SUBSET (Users \X Nat)] /\ lock' \in [Procs -> SUBSET Handlers]
    BY <1>9, Typed DEF Gone, Phases
  <2>2. next' \in [Procs -> 1..Len(Parts) + 1] BY <1>0, <1>9, Typed DEF Gone
  <2>3. pc' \in [Handlers -> Pcs] /\ out' \in [Handlers -> Nat] BY <1>9, Typed DEF Gone, Pcs
  <2>4. adrift' \subseteq Handlers /\ \A h \in adrift' : InThread(h)'
    BY <1>9, Typed DEF Gone, TypeOK, InThread
  <2>5. QED BY <1>9, <2>1, <2>2, <2>3, <2>4 DEF Gone, TypeOK, Pcs, Phases
<1>10. QED
  BY <1>1, <1>2, <1>3, <1>4, <1>5, <1>6, <1>7, <1>8, <1>9 DEF Stopping, Exit, Kill

LEMMA HandlerTyped ==
  ASSUME RuntimeAssumption, TypeOK, TableInv, NEW h \in Handlers,
         Begin(h) \/ Lock(h) \/ Thread(h) \/ Publish(h) \/ Work(h)
  PROVE  TypeOK'
<1>0. HomeOf[h] \in Procs /\ UserOf[h] \in Users BY Homes
<1>1. ASSUME UNCHANGED <<life, table>>, NEW where \in Pcs, NEW id \in Nat, Return(h, where, id)
      PROVE  TypeOK'
  BY <1>1, ReturnTyped DEF life, table, TypeOK, Pcs
<1>2. \A g \in adrift : InThread(g) BY DEF TypeOK
<1>3. ASSUME Meet(h) PROVE TypeOK'
  <2>1. "done" \in Pcs /\ 0 \in Nat BY DEF Pcs
  <2>2. QED BY <1>1, <1>3, <2>1 DEF Meet
<1>4. CASE Begin(h)
  <2>1. pc' \in [Handlers -> Pcs] BY <1>4, Typed DEF Begin, Pcs
  <2>2. \A g \in adrift' : InThread(g)'
    BY <1>2, <1>4, Typed DEF Begin, InThread
  <2>3. QED BY <1>4, <2>1, <2>2 DEF Begin, life, table, TypeOK, Pcs
<1>5. CASE Lock(h)
  <2>1. pc' \in [Handlers -> Pcs] /\ lock' \in [Procs -> SUBSET Handlers]
    BY <1>5, Typed DEF Lock, Pcs
  <2>2. \A g \in adrift' : InThread(g)'
    BY <1>2, <1>5, Typed DEF Lock, InThread
  <2>3. QED BY <1>5, <2>1, <2>2 DEF Lock, life, table, TypeOK, Pcs
<1>6. CASE Select(h)
  <2>1. CASE pc' = [pc EXCEPT ![h] = "insert"] /\ UNCHANGED <<life, adrift, out, lock, table>>
    <3>1. pc' \in [Handlers -> Pcs] BY <2>1, Typed DEF Pcs
    <3>2. \A g \in adrift' : InThread(g)' BY <1>2, <2>1, Typed DEF InThread
    <3>3. QED BY <2>1, <3>1, <3>2 DEF life, table, TypeOK, Pcs
  <2>2. ASSUME NEW id \in Visible(h), Return(h, "work", id), UNCHANGED <<life, table>>
        PROVE  TypeOK'
    <3>1. "work" \in Pcs /\ id \in Nat BY VisibleTyped DEF Pcs
    <3>2. QED BY <1>1, <2>2, <3>1
  <2>3. QED BY <1>3, <1>6, <2>1, <2>2 DEF Select
<1>7. CASE Insert(h)
  <2>1. CASE Return(h, "done", 0) /\ UNCHANGED <<life, table>>
    <3>1. "done" \in Pcs /\ 0 \in Nat BY DEF Pcs
    <3>2. QED BY <1>1, <2>1, <3>1
  <2>2. ASSUME open' = [open EXCEPT ![HomeOf[h]] = {}], UNCHANGED <<life, rows, last, made>>,
               Return(h, "work", rows[UserOf[h]]) \/ Return(h, "done", 0)
        PROVE  TypeOK'
    <3>1. open' \in [Procs -> SUBSET (Users \X Nat)] BY <2>2, Typed
    <3>2. /\ pc' \in [Handlers -> Pcs] /\ adrift' \subseteq Handlers
          /\ out' \in [Handlers -> Nat] /\ lock' \in [Procs -> SUBSET Handlers]
          /\ \A g \in adrift' : InThread(g)'
      <4>1. "work" \in Pcs /\ "done" \in Pcs /\ 0 \in Nat /\ rows[UserOf[h]] \in Nat
        BY <1>0, Typed DEF Pcs
      <4>2. CASE Return(h, "work", rows[UserOf[h]]) BY <4>1, <4>2, ReturnTyped
      <4>3. CASE Return(h, "done", 0) BY <4>1, <4>3, ReturnTyped
      <4>4. QED BY <2>2, <4>2, <4>3
    <3>3. QED BY <2>2, <3>1, <3>2 DEF life, TypeOK, Pcs
  <2>3. CASE /\ open' = [open EXCEPT ![HomeOf[h]] = @ \cup {<<UserOf[h], NextId(HomeOf[h])>>}]
             /\ out' = [out EXCEPT ![h] = NextId(HomeOf[h])]
             /\ pc' = [pc EXCEPT ![h] = "commit"]
             /\ UNCHANGED <<life, adrift, lock, rows, last, made>>
    <3>1. NextId(HomeOf[h]) \in Nat BY <1>0, OpenCount, Typed DEF NextId
    <3>2. open' \in [Procs -> SUBSET (Users \X Nat)] /\ out' \in [Handlers -> Nat]
      BY <1>0, <2>3, <3>1, Typed
    <3>3. pc' \in [Handlers -> Pcs] BY <2>3, Typed DEF Pcs
    <3>4. \A g \in adrift' : InThread(g)' BY <1>2, <2>3, Typed DEF InThread
    <3>5. QED BY <2>3, <3>2, <3>3, <3>4 DEF life, TypeOK, Pcs
  <2>4. QED BY <1>3, <1>7, <2>1, <2>2, <2>3 DEF Insert
<1>8. CASE Commit(h)
  <2>1. CASE Return(h, "done", 0) /\ UNCHANGED <<life, table>>
    <3>1. "done" \in Pcs /\ 0 \in Nat BY DEF Pcs
    <3>2. QED BY <1>1, <2>1, <3>1
  <2>2. CASE /\ rows' = [u \in Users |-> IF \E e \in open[HomeOf[h]] : e[1] = u
                                        THEN (CHOOSE e \in open[HomeOf[h]] : e[1] = u)[2]
                                        ELSE rows[u]]
             /\ last' = last + Cardinality(open[HomeOf[h]])
             /\ open' = [open EXCEPT ![HomeOf[h]] = {}]
             /\ Return(h, "publish", out[h])
             /\ UNCHANGED <<life, made>>
    <3>1. "publish" \in Pcs /\ out[h] \in Nat BY Typed DEF Pcs
    <3>2. /\ pc' \in [Handlers -> Pcs] /\ adrift' \subseteq Handlers
          /\ out' \in [Handlers -> Nat] /\ lock' \in [Procs -> SUBSET Handlers]
          /\ \A g \in adrift' : InThread(g)'
      BY <2>2, <3>1, ReturnTyped
    <3>3. open' \in [Procs -> SUBSET (Users \X Nat)] /\ last' \in Nat
      BY <1>0, <2>2, OpenCount, Typed
    <3>4. \A e \in open[HomeOf[h]] : e[2] \in Nat BY <1>0, Typed
    <3>5. rows' \in [Users -> Nat] BY <2>2, <3>4, Typed
    <3>6. QED BY <2>2, <3>2, <3>3, <3>5 DEF life, TypeOK, Pcs
  <2>3. QED BY <1>3, <1>8, <2>1, <2>2 DEF Commit
<1>9. CASE Publish(h)
  <2>1. made' \in [Users -> Nat] BY <1>0, <1>9, Typed DEF Publish
  <2>2. pc' \in [Handlers -> Pcs] /\ lock' \in [Procs -> SUBSET Handlers]
    BY <1>9, Typed DEF Publish, Release, Pcs
  <2>3. \A g \in adrift' : InThread(g)' BY <1>2, <1>9, Typed DEF Publish, InThread
  <2>4. QED BY <1>9, <2>1, <2>2, <2>3 DEF Publish, life, TypeOK, Pcs
<1>10. CASE Work(h)
  <2>1. pc' \in [Handlers -> Pcs] /\ out' \in [Handlers -> Nat] BY <1>10, Typed DEF Work, Pcs
  <2>2. \A g \in adrift' : InThread(g)' BY <1>2, <1>10, Typed DEF Work, InThread
  <2>3. QED BY <1>10, <2>1, <2>2 DEF Work, life, table, TypeOK, Pcs
<1>11. CASE ThreadEnds(h)
  <2>1. "work" \in Pcs /\ out[h] \in Nat BY Typed DEF Pcs
  <2>2. QED BY <1>1, <1>11, <2>1 DEF ThreadEnds
<1>12. QED BY <1>4, <1>5, <1>6, <1>7, <1>8, <1>9, <1>10, <1>11 DEF Thread

-----------------------------------------------------------------------------
(* The life of a process.                                                  *)

\* A step of a handler leaves the life of its process, the other handlers and the
\* other connections alone.
LEMMA HandlerStep ==
  ASSUME RuntimeAssumption, TypeOK, NEW h \in Handlers,
         Begin(h) \/ Lock(h) \/ Thread(h) \/ Publish(h) \/ Work(h)
  PROVE  /\ UNCHANGED life
         /\ \A g \in Handlers : g # h => /\ pc'[g] = pc[g] /\ out'[g] = out[g]
                                         /\ g \in adrift' <=> g \in adrift
         /\ h \in adrift' => h \in adrift
         /\ h \in adrift => h \in adrift' \/ pc'[h] = "done"
         /\ pc[h] \notin {"idle", "done"} \/ Begin(h)
         /\ \A p \in Procs : p # HomeOf[h] => lock'[p] = lock[p] /\ open'[p] = open[p]
<1>0. /\ pc \in [Handlers -> Pcs] /\ out \in [Handlers -> Nat]
      /\ lock \in [Procs -> SUBSET Handlers] /\ open \in [Procs -> SUBSET (Users \X Nat)]
      /\ HomeOf[h] \in Procs
  BY Typed, Homes
<1>1. ASSUME NEW where, NEW id, Return(h, where, id), UNCHANGED life,
             \A p \in Procs : p # HomeOf[h] => open'[p] = open[p],
             pc[h] \notin {"idle", "done"}
      PROVE  /\ UNCHANGED life
             /\ \A g \in Handlers : g # h => /\ pc'[g] = pc[g] /\ out'[g] = out[g]
                                             /\ g \in adrift' <=> g \in adrift
             /\ h \in adrift' => h \in adrift
             /\ h \in adrift => h \in adrift' \/ pc'[h] = "done"
             /\ pc[h] \notin {"idle", "done"} \/ Begin(h)
             /\ \A p \in Procs : p # HomeOf[h] => lock'[p] = lock[p] /\ open'[p] = open[p]
  BY <1>0, <1>1 DEF Return, Release
<1>2. CASE Begin(h) \/ Lock(h) \/ Publish(h) \/ Work(h)
  <2>1. UNCHANGED <<life, adrift, open>>
    BY <1>2 DEF Begin, Lock, Publish, Work, table
  <2>2. /\ \E l : pc' = [pc EXCEPT ![h] = l]
        /\ out' = out \/ \E x : out' = [out EXCEPT ![h] = x]
        /\ lock' = lock \/ \E x : lock' = [lock EXCEPT ![HomeOf[h]] = x]
        /\ pc[h] \notin {"idle", "done"} \/ Begin(h)
    BY <1>2 DEF Begin, Lock, Publish, Work, Release
  <2>3. \A g \in Handlers : g # h => pc'[g] = pc[g] /\ out'[g] = out[g] BY <1>0, <2>2
  <2>4. \A p \in Procs : p # HomeOf[h] => lock'[p] = lock[p] BY <1>0, <2>2
  <2>5. \A p : open'[p] = open[p] BY <2>1
  <2>6. QED BY <2>1, <2>2, <2>3, <2>4, <2>5
<1>3. ASSUME Meet(h), pc[h] \notin {"idle", "done"}
      PROVE  /\ \E where, id : Return(h, where, id)
             /\ UNCHANGED life
             /\ \A p \in Procs : p # HomeOf[h] => open'[p] = open[p]
  BY <1>3 DEF Meet, table
<1>4. CASE Select(h)
  <2>1. CASE pc' = [pc EXCEPT ![h] = "insert"] /\ UNCHANGED <<life, adrift, out, lock, table>>
    BY <1>0, <1>4, <2>1 DEF Select, table
  <2>2. CASE UNCHANGED <<life, table>> /\ \E where, id : Return(h, where, id)
    BY <1>1, <1>4, <2>2 DEF Select, table
  <2>3. QED BY <1>4, <2>1, <2>2 DEF Select, Meet
<1>5. CASE Insert(h)
  <2>0. pc[h] = "insert" BY <1>5 DEF Insert
  <2>1. CASE /\ pc' = [pc EXCEPT ![h] = "commit"] /\ UNCHANGED <<life, adrift, lock>>
             /\ \E x : open' = [open EXCEPT ![HomeOf[h]] = x]
             /\ \E x : out' = [out EXCEPT ![h] = x]
    BY <1>0, <2>0, <2>1
  <2>2. CASE /\ \E where, id : Return(h, where, id)
             /\ UNCHANGED life
             /\ open' = open \/ open' = [open EXCEPT ![HomeOf[h]] = {}]
    <3>1. \A p \in Procs : p # HomeOf[h] => open'[p] = open[p] BY <1>0, <2>2
    <3>2. QED BY <1>1, <2>0, <2>2, <3>1
  <2>3. QED BY <1>5, <2>1, <2>2 DEF Insert, Meet, table
<1>6. CASE Commit(h)
  <2>0. pc[h] = "commit" BY <1>6 DEF Commit
  <2>1. /\ \E where, id : Return(h, where, id)
        /\ UNCHANGED life
        /\ open' = open \/ open' = [open EXCEPT ![HomeOf[h]] = {}]
    BY <1>6 DEF Commit, Meet, table
  <2>2. \A p \in Procs : p # HomeOf[h] => open'[p] = open[p] BY <1>0, <2>1
  <2>3. QED BY <1>1, <2>0, <2>1, <2>2
<1>7. CASE ThreadEnds(h)
  BY <1>1, <1>7 DEF ThreadEnds, table
<1>8. QED BY <1>2, <1>4, <1>5, <1>6, <1>7 DEF Thread

LEMMA HandlerLife ==
  ASSUME RuntimeAssumption, TypeOK, LifeInv, NEW h \in Handlers,
         Begin(h) \/ Lock(h) \/ Thread(h) \/ Publish(h) \/ Work(h)
  PROVE  LifeInv'
<1>1. UNCHANGED <<channel, phase, recovery, polling, closed>> BY HandlerStep DEF life
<1>2. \A p : Quiet(p)' <=> Quiet(p) BY <1>1 DEF Quiet, Serial
<1>3. ASSUME NEW g \in Handlers
      PROVE  /\ pc'[g] \notin {"idle", "done"} => phase[HomeOf[g]] # "down"
             /\ g \in adrift' => Quiet(HomeOf[g])
             /\ Running(g)' => /\ ~Quiet(HomeOf[g])
                               /\ Serial => polling[HomeOf[g]] = "on"
  <2>1. CASE g # h
    BY <2>1, HandlerStep DEF LifeInv, Running
  <2>2. CASE g = h /\ pc[h] \notin {"idle", "done"}
    BY <2>2, HandlerStep DEF LifeInv, Running
  <2>3. CASE g = h /\ Begin(h)
    <3>1. phase[HomeOf[h]] = "serve" /\ polling[HomeOf[h]] = "on" /\ adrift' = adrift
      BY <2>3 DEF Begin
    <3>2. QED BY <2>3, <3>1 DEF LifeInv, Quiet
  <2>4. QED BY <2>1, <2>2, <2>3, HandlerStep
<1>4. QED BY <1>1, <1>2, <1>3 DEF LifeInv, Serial

\* After a cancellation none of the handlers is waited for.
LEMMA CancelStops ==
  ASSUME RuntimeAssumption, TypeOK, NEW p \in Procs, NEW hs \in SUBSET Of(p),
         CancelHandlers(p, hs)
  PROVE  /\ \A h \in hs : ~Running(h)'
         /\ \A h \in Handlers \ hs : pc'[h] = pc[h] /\ (h \in adrift' <=> h \in adrift)
         /\ \A h \in Handlers : Running(h)' => Running(h)
         /\ \A h \in Handlers : pc'[h] = "done" \/ (pc'[h] = pc[h] /\ out'[h] = out[h])
         /\ \A h \in Handlers : pc'[h] = pc[h] /\ h \notin adrift' => h \notin hs \/ ~Running(h)
         /\ \A h \in adrift : h \in adrift'
         /\ \A q \in Procs : q # p => lock'[q] = lock[q]
         /\ lock'[p] = lock[p] \ {h \in hs : Running(h)}
<1> DEFINE gone == {h \in hs : Running(h)}
<1>1. /\ pc' = [h \in Handlers |-> IF h \in gone /\ ~InThread(h) THEN "done" ELSE pc[h]]
      /\ out' = [h \in Handlers |-> IF h \in gone /\ ~InThread(h) THEN 0 ELSE out[h]]
      /\ adrift' = adrift \cup {h \in gone : InThread(h)}
      /\ lock' = [lock EXCEPT ![p] = @ \ gone]
  BY DEF CancelHandlers
<1>2. gone \subseteq hs /\ hs \subseteq Handlers BY DEF Of
<1>3. \A h \in gone : Running(h) /\ h \notin adrift BY DEF Running
<1>4. \A h \in hs : h \notin gone => ~Running(h) OBVIOUS
<1> HIDE DEF gone
<1>5. /\ \A h \in hs : ~Running(h)'
      /\ \A h \in Handlers : Running(h)' => Running(h)
  BY <1>1, <1>2, <1>3, <1>4 DEF Running, InThread
<1>6. /\ \A h \in Handlers \ hs : pc'[h] = pc[h] /\ (h \in adrift' <=> h \in adrift)
      /\ \A h \in Handlers : pc'[h] = "done" \/ (pc'[h] = pc[h] /\ out'[h] = out[h])
      /\ \A h \in adrift : h \in adrift'
  BY <1>1, <1>2
<1>7. \A h \in Handlers : pc'[h] = pc[h] /\ h \notin adrift' => h \notin hs \/ ~Running(h)
  BY <1>1, <1>2, <1>4 DEF Running, InThread
<1>8. (\A q \in Procs : q # p => lock'[q] = lock[q]) /\ lock'[p] = lock[p] \ gone
  BY <1>1, Typed
<1>9. QED BY <1>5, <1>6, <1>7, <1>8 DEF gone

LEMMA ProcLife ==
  ASSUME RuntimeAssumption, TypeOK, LifeInv, NEW p \in Procs,
         Boot(p) \/ Signal(p) \/ PollingEnds(p) \/ RecoveryEnds(p) \/ Stopping(p) \/ Kill(p)
  PROVE  LifeInv'
<1>0. \A h \in Handlers : HomeOf[h] \in Procs BY Homes
<1>1. CASE Boot(p)
  <2>1. /\ phase[p] = "down" /\ phase' = [phase EXCEPT ![p] = "serve"]
        /\ polling' = [polling EXCEPT ![p] = "on"]
        /\ recovery' = [recovery EXCEPT ![p] = channel # "console"]
        /\ UNCHANGED <<channel, closed, pc, adrift>>
    BY <1>1 DEF Boot
  <2>2. /\ phase'[p] = "serve" /\ polling'[p] = "on"
        /\ \A q \in Procs : q # p => /\ phase'[q] = phase[q] /\ polling'[q] = polling[q]
                                     /\ recovery'[q] = recovery[q]
    BY <2>1, Typed
  <2>3. closed[p] = {} BY <2>1 DEF LifeInv
  <2>4. \A h \in Of(p) : pc[h] \in {"idle", "done"} /\ h \notin adrift
    <3>1. \A h \in Of(p) : pc[h] \in {"idle", "done"} BY <2>1 DEF LifeInv, Of
    <3>2. QED BY <3>1 DEF TypeOK, InThread
  <2>5. QED BY <1>0, <2>1, <2>2, <2>3, <2>4 DEF LifeInv, Running, Quiet, Serial, Of
<1>2. CASE Signal(p) \/ RecoveryEnds(p)
  <2>1. /\ UNCHANGED <<channel, phase, polling, closed, pc, adrift>>
        /\ \A q \in Procs : recovery'[q] => recovery[q]
    BY <1>2, Typed DEF Signal, RecoveryEnds
  <2>2. QED BY <2>1 DEF LifeInv, Running, Quiet, Serial
<1>3. CASE PollingEnds(p)
  <2>1. /\ phase[p] = "serve" /\ Serial => \A h \in Of(p) : ~Running(h)
        /\ polling'[p] = "over" /\ \A q \in Procs : q # p => polling'[q] = polling[q]
        /\ UNCHANGED <<channel, phase, recovery, closed, pc, adrift>>
    BY <1>3, Typed DEF PollingEnds
  <2>2. QED BY <1>0, <2>1 DEF LifeInv, Running, Quiet, Serial, Of
<1>4. CASE AwaitFirst(p)
  <2> DEFINE hs == IF Serial /\ polling[p] = "on" THEN Of(p) ELSE {}
  <2>1. CancelHandlers(p, hs) /\ hs \in SUBSET Of(p) BY <1>4 DEF AwaitFirst
  <2>2. /\ phase[p] = "serve" /\ phase'[p] = "recover" /\ polling'[p] = "off"
        /\ \A q \in Procs : q # p => phase'[q] = phase[q] /\ polling'[q] = polling[q]
        /\ UNCHANGED <<channel, recovery, closed>>
    BY <1>4, Typed DEF AwaitFirst
  <2>3. Serial => \A h \in Of(p) : ~Running(h)'
    <3>1. CASE Serial /\ polling[p] = "on" BY <2>1, <3>1, CancelStops
    <3>2. CASE Serial /\ polling[p] # "on"
      <4>1. \A h \in Of(p) : ~Running(h) BY <3>2 DEF LifeInv, Of
      <4>2. QED BY <2>1, <4>1, CancelStops DEF Of
    <3>3. QED BY <3>1, <3>2
  <2>4. ~Serial => hs = {} OBVIOUS
  <2> HIDE DEF hs
  <2>5. ASSUME NEW h \in Handlers
        PROVE  /\ pc'[h] \notin {"idle", "done"} => phase'[HomeOf[h]] # "down"
               /\ h \in adrift' => Quiet(HomeOf[h])'
               /\ Running(h)' => /\ ~Quiet(HomeOf[h])'
                                 /\ Serial' => polling'[HomeOf[h]] = "on"
    <3>1. CASE HomeOf[h] = p
      <4>1. h \notin adrift BY <2>2, <3>1 DEF LifeInv, Quiet
      <4>2. ~Serial => h \notin adrift' BY <2>1, <2>4, <4>1, CancelStops
      <4>3. Serial => Quiet(p)' BY <2>2 DEF Quiet, Serial
      <4>4. ~Serial => ~Quiet(p)' BY <2>2 DEF Quiet, Serial
      <4>5. Serial => ~Running(h)' BY <2>3, <3>1 DEF Of
      <4>6. QED BY <2>2, <3>1, <4>2, <4>3, <4>4, <4>5 DEF Serial
    <3>2. CASE HomeOf[h] # p
      <4>1. h \notin hs BY <2>1, <3>2 DEF Of
      <4>2. pc'[h] = pc[h] /\ (h \in adrift' <=> h \in adrift) BY <2>1, <4>1, CancelStops
      <4>3. QED BY <1>0, <2>2, <3>2, <4>2 DEF LifeInv, Running, Quiet, Serial
    <3>3. QED BY <3>1, <3>2
  <2>6. QED BY <2>2, <2>5 DEF LifeInv
<1>5. CASE StopRecovery(p)
  <2>1. /\ phase[p] = "recover" /\ phase'[p] = "close" /\ ~recovery'[p]
        /\ \A q \in Procs : q # p => phase'[q] = phase[q] /\ recovery'[q] = recovery[q]
        /\ UNCHANGED <<channel, polling, closed, pc, adrift>>
    BY <1>5, Typed DEF StopRecovery
  <2>2. \A q \in Procs : Quiet(q)' <=> Quiet(q) BY <2>1 DEF Quiet, Serial
  <2>3. QED BY <1>0, <2>1, <2>2 DEF LifeInv, Running, Serial
<1>6. CASE CloseNext(p)
  <2>1. /\ phase[p] = "close" /\ UNCHANGED <<channel, phase, polling, recovery, pc, adrift>>
        /\ \A q \in Procs : q # p => closed'[q] = closed[q]
    BY <1>6, Typed DEF CloseNext
  <2>2. QED BY <2>1 DEF LifeInv, Running, Quiet, Serial
<1>7. CASE Leave(p)
  <2>1. CancelHandlers(p, Of(p)) /\ Of(p) \in SUBSET Of(p) BY <1>7 DEF Leave
  <2>2. /\ phase[p] = "close" /\ phase'[p] = "leave"
        /\ \A q \in Procs : q # p => phase'[q] = phase[q]
        /\ UNCHANGED <<channel, polling, recovery, closed>>
    BY <1>7, Typed DEF Leave
  <2>3. Quiet(p)' BY <2>2 DEF Quiet
  <2>4. \A h \in Of(p) : ~Running(h)' BY <2>1, CancelStops
  <2>5. \A h \in Handlers : HomeOf[h] # p => pc'[h] = pc[h] /\ (h \in adrift' <=> h \in adrift)
    BY <2>1, CancelStops DEF Of
  <2>6. QED BY <1>0, <2>2, <2>3, <2>4, <2>5 DEF LifeInv, Running, Quiet, Serial, Of
<1>8. CASE Gone(p)
  <2>1. /\ phase'[p] = "down" /\ polling'[p] = "off" /\ ~recovery'[p] /\ closed'[p] = {}
        /\ \A q \in Procs : q # p => /\ phase'[q] = phase[q] /\ polling'[q] = polling[q]
                                     /\ recovery'[q] = recovery[q] /\ closed'[q] = closed[q]
        /\ channel' = channel
    BY <1>8, Typed DEF Gone
  <2>2. \A h \in Of(p) : pc'[h] \in {"idle", "done"} /\ h \notin adrift'
    BY <1>8 DEF Gone, Of
  <2>3. \A h \in Handlers : HomeOf[h] # p => pc'[h] = pc[h] /\ (h \in adrift' <=> h \in adrift)
    BY <1>8 DEF Gone, Of
  <2>4. QED BY <1>0, <2>1, <2>2, <2>3 DEF LifeInv, Running, Quiet, Serial, Of
<1>9. QED BY <1>1, <1>2, <1>3, <1>4, <1>5, <1>6, <1>7, <1>8 DEF Stopping, Exit, Kill

-----------------------------------------------------------------------------
(* The users table: steps of a process.                                    *)

\* Nothing but open transactions is lost, and handlers only end.
LEMMA TableStays ==
  ASSUME RuntimeAssumption, TypeOK, TableInv, UNCHANGED <<rows, last, made>>,
         \A p \in Procs : \/ open'[p] = open[p]
                          \/ /\ open'[p] = {}
                             /\ \A h \in Of(p) : Shut(h)' \/ pc'[h] \in {"idle", "done"},
         \A h \in Handlers : \/ pc'[h] \in {"idle", "done"}
                             \/ pc'[h] = pc[h] /\ out'[h] = out[h] /\ (Shut(h) => Shut(h)'),
         \A h \in Handlers : InTable(h)' /\ h \notin adrift'
                                => h \notin adrift /\ (lock[HomeOf[h]] = {h} => lock'[HomeOf[h]] = {h})
  PROVE  TableInv'
<1>0. \A h \in Handlers : HomeOf[h] \in Procs /\ h \in Of(HomeOf[h]) BY Homes DEF Of
<1>1. \A h \in Handlers : InTable(h)' => InTable(h) BY DEF InTable
<1>2. OneInTable' BY <1>1 DEF TableInv, OneInTable
<1>3. OpenRows'
  <2>1. \A p \in Procs : open'[p] = open[p] \/ open'[p] = {} OBVIOUS
  <2>2. ASSUME NEW p \in Procs
        PROVE  /\ IsFiniteSet(open'[p])
               /\ \A e \in open'[p] :
                    rows'[e[1]] = 0 /\ e[2] \in (last' + 1)..(last' + Cardinality(open'[p]))
               /\ \A d, e \in open'[p] : d[1] = e[1] \/ d[2] = e[2] => d = e
    <3>1. CASE open'[p] = {} BY <3>1, FS_EmptySet
    <3>2. CASE open'[p] = open[p] BY <3>2 DEF TableInv, OpenRows
    <3>3. QED BY <2>1, <3>1, <3>2
  <2>3. \A p, q \in Procs : p # q => open'[p] = {} \/ open'[q] = {}
    BY <2>1 DEF TableInv, OpenRows
  <2>4. QED BY <2>2, <2>3 DEF OpenRows
<1>4. StoredRows' /\ CreatedOnce' BY DEF TableInv, StoredRows, RowsDiffer, CreatedOnce
<1>5. Inside' BY <1>0 DEF TableInv, Inside
<1>6. OnePublish' BY DEF TableInv, OnePublish
<1>7. IdsAreRows'
  <2> SUFFICES ASSUME NEW h \in Handlers, pc'[h] \in {"publish", "work", "thread"}, ~Shut(h)'
               PROVE  out'[h] \in Visible(h)'
    BY DEF IdsAreRows
  <2>1. pc'[h] = pc[h] /\ out'[h] = out[h] /\ ~Shut(h) OBVIOUS
  <2>2. open'[HomeOf[h]] = open[HomeOf[h]] BY <1>0
  <2>3. Visible(h)' = Visible(h) BY <2>2 DEF Visible
  <2>4. QED BY <2>1, <2>3 DEF TableInv, IdsAreRows
<1>8. QED BY <1>2, <1>3, <1>4, <1>5, <1>6, <1>7 DEF TableInv

LEMMA ProcTable ==
  ASSUME RuntimeAssumption, TypeOK, LifeInv, TableInv, NEW p \in Procs,
         Boot(p) \/ Signal(p) \/ PollingEnds(p) \/ RecoveryEnds(p) \/ Stopping(p) \/ Kill(p)
  PROVE  TableInv'
<1>0. \A h \in Handlers : HomeOf[h] \in Procs BY Homes
<1>1. CASE Boot(p) \/ Signal(p) \/ PollingEnds(p) \/ RecoveryEnds(p) \/ StopRecovery(p)
  <2>1. UNCHANGED <<closed, pc, adrift, out, lock, rows, open, last, made>>
    BY <1>1 DEF Boot, Signal, PollingEnds, RecoveryEnds, StopRecovery, table
  <2>2. QED BY <2>1, TableStays DEF Shut, InTable
<1>2. ASSUME NEW hs \in SUBSET Of(p), CancelHandlers(p, hs), UNCHANGED <<closed, table>>
      PROVE  TableInv'
  <2>1. \A h \in Handlers : Shut(h)' <=> Shut(h) BY <1>2 DEF Shut
  <2>2. ASSUME NEW h \in Handlers, InTable(h)', h \notin adrift'
        PROVE  h \notin adrift /\ (lock[HomeOf[h]] = {h} => lock'[HomeOf[h]] = {h})
    <3>1. pc'[h] = pc[h] /\ h \notin adrift BY <1>2, <2>2, CancelStops DEF InTable
    <3>2. h \notin hs \/ ~Running(h) BY <1>2, <2>2, <3>1, CancelStops
    <3>3. QED BY <1>0, <1>2, <3>1, <3>2, CancelStops
  <2>3. \A h \in Handlers : pc'[h] = "done" \/ (pc'[h] = pc[h] /\ out'[h] = out[h])
    BY <1>2, CancelStops
  <2>4. QED BY <1>2, <2>1, <2>2, <2>3, TableStays DEF table
<1>3. CASE AwaitFirst(p)
  <2>1. \E hs \in SUBSET Of(p) : CancelHandlers(p, hs) BY <1>3 DEF AwaitFirst
  <2>2. QED BY <1>2, <1>3, <2>1 DEF AwaitFirst
<1>4. CASE Leave(p)
  <2>1. \E hs \in SUBSET Of(p) : CancelHandlers(p, hs) BY <1>4 DEF Leave
  <2>2. QED BY <1>2, <1>4, <2>1 DEF Leave
<1>5. CASE CloseNext(p)
  <2>1. /\ UNCHANGED <<pc, adrift, out, lock, rows, last, made>>
        /\ \A q \in Procs : q # p => open'[q] = open[q] /\ closed'[q] = closed[q]
        /\ closed[p] \subseteq closed'[p]
        /\ open'[p] = open[p] \/ (open'[p] = {} /\ "users" \in closed'[p])
    BY <1>5, Typed DEF CloseNext
  <2>2. \A h \in Handlers : Shut(h) => Shut(h)' BY <1>0, <2>1 DEF Shut
  <2>3. open'[p] = open[p] \/ \A h \in Of(p) : Shut(h)' BY <2>1 DEF Shut, Of
  <2>4. QED BY <2>1, <2>2, <2>3, TableStays DEF InTable
<1>6. CASE Gone(p)
  <2>1. /\ UNCHANGED <<rows, last, made>> /\ open'[p] = {}
        /\ \A q \in Procs : q # p => /\ open'[q] = open[q] /\ closed'[q] = closed[q]
                                     /\ lock'[q] = lock[q]
    BY <1>6, Typed DEF Gone
  <2>2. \A h \in Of(p) : pc'[h] \in {"idle", "done"} BY <1>6 DEF Gone, Of
  <2>3. \A h \in Handlers : HomeOf[h] # p =>
            /\ pc'[h] = pc[h] /\ out'[h] = out[h] /\ (h \in adrift' <=> h \in adrift)
    BY <1>6 DEF Gone, Of
  <2>4. \A h \in Handlers : HomeOf[h] # p => (Shut(h)' <=> Shut(h)) BY <1>0, <2>1 DEF Shut
  <2>5. \A h \in Handlers : HomeOf[h] = p => h \in Of(p) BY DEF Of
  <2>6. QED BY <1>0, <2>1, <2>2, <2>3, <2>4, <2>5, TableStays DEF InTable
<1>7. QED BY <1>1, <1>3, <1>4, <1>5, <1>6 DEF Stopping, Exit, Kill

-----------------------------------------------------------------------------
(* The users table: steps of a handler.                                    *)

LEMMA HandlerOne ==
  ASSUME RuntimeAssumption, TypeOK, LifeInv, TableInv, NEW h \in Handlers,
         Begin(h) \/ Lock(h) \/ Thread(h) \/ Publish(h) \/ Work(h)
  PROVE  OneInTable'
<1> DEFINE p == HomeOf[h]
<1>0. /\ p \in Procs /\ pc \in [Handlers -> Pcs] /\ lock \in [Procs -> SUBSET Handlers]
      /\ \A g \in Handlers : HomeOf[g] \in Procs
  BY Typed, Homes
<1>1. CASE Lock(h)
  <2>1. /\ pc[h] = "lock" /\ lock[p] = {} /\ lock'[p] = {h} /\ pc'[h] = "select"
        /\ adrift' = adrift
    BY <1>0, <1>1 DEF Lock
  <2>2. ~Quiet(p)
    <3>1. h \notin adrift BY <2>1 DEF TypeOK, InThread
    <3>2. QED BY <2>1, <3>1 DEF LifeInv, Running
  <2>3. \A g \in Handlers : InTable(g) => HomeOf[g] # p
    <3>1. \A g \in Handlers : g \in adrift => HomeOf[g] # p BY <2>2 DEF LifeInv
    <3>2. QED BY <2>1, <3>1 DEF TableInv, OneInTable
  <2>4. \A g \in Handlers : g # h => (InTable(g)' <=> InTable(g)) BY HandlerStep DEF InTable
  <2>5. QED BY <1>0, <2>1, <2>3, <2>4, HandlerStep DEF TableInv, OneInTable
<1>2. CASE ~Lock(h)
  <2>1. /\ InTable(h)' => InTable(h)
        /\ InTable(h)' /\ h \notin adrift' => h \notin adrift /\ lock'[p] = lock[p]
        /\ lock'[p] = lock[p] \/ lock'[p] = lock[p] \ {h}
    <3>1. CASE Begin(h) BY <1>0, <3>1 DEF Begin, InTable
    <3>2. ASSUME NEW where, NEW id, Return(h, where, id), where \in {"done", "work"}
          PROVE  ~InTable(h)' /\ (lock'[p] = lock[p] \/ lock'[p] = lock[p] \ {h})
      BY <1>0, <3>2 DEF Return, Release, InTable
    <3>3. CASE Select(h)
      <4>1. CASE pc' = [pc EXCEPT ![h] = "insert"] /\ UNCHANGED <<adrift, lock>>
        BY <1>0, <3>3, <4>1 DEF Select, InTable
      <4>2. CASE \E where \in {"done", "work"} : \E id : Return(h, where, id) BY <3>2, <4>2
      <4>3. QED BY <3>3, <4>1, <4>2 DEF Select, Meet
    <3>4. CASE Insert(h)
      <4>1. CASE pc' = [pc EXCEPT ![h] = "commit"] /\ UNCHANGED <<adrift, lock>>
        BY <1>0, <3>4, <4>1 DEF Insert, InTable
      <4>2. CASE \E where \in {"done", "work"} : \E id : Return(h, where, id) BY <3>2, <4>2
      <4>3. QED BY <3>4, <4>1, <4>2 DEF Insert, Meet
    <3>5. CASE Commit(h)
      <4>1. CASE Return(h, "publish", out[h])
        <5>1. InTable(h) BY <3>5 DEF Commit, InTable
        <5>2. h \in adrift => pc'[h] = "done" BY <1>0, <4>1 DEF Return
        <5>3. lock'[p] = lock[p] \/ lock'[p] = lock[p] \ {h}
          BY <1>0, <4>1 DEF Return, Release
        <5>4. h \notin adrift => lock'[p] = lock[p] BY <4>1 DEF Return
        <5>5. QED BY <5>1, <5>2, <5>3, <5>4 DEF InTable
      <4>2. CASE Return(h, "done", 0) BY <3>2, <4>2
      <4>3. QED BY <3>5, <4>1, <4>2 DEF Commit, Meet
    <3>6. CASE Publish(h)
      <4>1. pc'[h] = "work" /\ lock'[p] = lock[p] \ {h} BY <1>0, <3>6 DEF Publish, Release
      <4>2. QED BY <4>1 DEF InTable
    <3>7. CASE Work(h) BY <1>0, <3>7 DEF Work, InTable
    <3>8. CASE ThreadEnds(h) BY <3>2, <3>8 DEF ThreadEnds
    <3>9. QED BY <1>2, <3>1, <3>3, <3>4, <3>5, <3>6, <3>7, <3>8 DEF Thread
  <2>2. \A g \in Handlers : g # h => (InTable(g)' <=> InTable(g)) BY HandlerStep DEF InTable
  <2>3. \A g, k \in Handlers : InTable(g)' /\ InTable(k)' /\ HomeOf[g] = HomeOf[k] => g = k
    BY <2>1, <2>2 DEF TableInv, OneInTable
  <2>4. ASSUME NEW g \in Handlers, InTable(g)', g \notin adrift' PROVE lock'[HomeOf[g]] = {g}
    <3>1. CASE g = h BY <2>1, <2>4, <3>1 DEF TableInv, OneInTable
    <3>2. CASE g # h
      <4>1. lock[HomeOf[g]] = {g} BY <2>2, <2>4, <3>2, HandlerStep DEF TableInv, OneInTable
      <4>2. CASE HomeOf[g] = p BY <2>1, <3>2, <4>1, <4>2
      <4>3. CASE HomeOf[g] # p BY <1>0, <4>1, <4>3, HandlerStep
      <4>4. QED BY <4>2, <4>3
    <3>3. QED BY <3>1, <3>2
  <2>5. QED BY <2>3, <2>4 DEF OneInTable
<1>3. QED BY <1>1, <1>2

Rest == OpenRows /\ StoredRows /\ Inside /\ OnePublish /\ CreatedOnce /\ IdsAreRows

LEMMA NoneVisible ==
  ASSUME NEW h, Visible(h) = {}
  PROVE  rows[UserOf[h]] = 0 /\ \A e \in open[HomeOf[h]] : e[1] # UserOf[h]
<1>1. {rows[UserOf[h]]} \ {0} = {} BY DEF Visible
<1>2. ASSUME NEW e \in open[HomeOf[h]], e[1] = UserOf[h] PROVE FALSE
  <2>1. e[2] \in Visible(h) BY <1>2 DEF Visible
  <2>2. QED BY <2>1
<1>3. QED BY <1>1, <1>2

\* A step that finds or waits, but does not write.
LEMMA SameTable ==
  ASSUME RuntimeAssumption, TypeOK, TableInv, NEW h \in Handlers,
         Begin(h) \/ Lock(h) \/ Thread(h) \/ Publish(h) \/ Work(h),
         UNCHANGED table,
         pc'[h] = "insert" => Visible(h) = {},
         pc'[h] \notin {"commit", "publish"},
         pc'[h] \in {"work", "thread"} => Shut(h) \/ out'[h] \in Visible(h)
  PROVE  Rest'
<1>0. /\ UNCHANGED <<rows, open, last, made, closed>>
      /\ \A g \in Handlers : g # h => pc'[g] = pc[g] /\ out'[g] = out[g]
  BY HandlerStep DEF table, life
<1>1. OpenRows' /\ StoredRows' /\ CreatedOnce'
  BY <1>0 DEF TableInv, OpenRows, StoredRows, RowsDiffer, CreatedOnce
<1>2. \A g \in Handlers : (Shut(g)' <=> Shut(g)) /\ Visible(g)' = Visible(g)
  BY <1>0 DEF Shut, Visible
<1>3. Inside'
  <2>1. pc'[h] = "insert" => /\ \A e \in open[HomeOf[h]] : e[1] # UserOf[h]
                             /\ rows[UserOf[h]] = 0
    BY NoneVisible
  <2>2. QED BY <1>0, <1>2, <2>1 DEF TableInv, Inside
<1>4. OnePublish' BY <1>0 DEF TableInv, OnePublish
<1>5. IdsAreRows' BY <1>0, <1>2 DEF TableInv, IdsAreRows
<1>6. QED BY <1>1, <1>3, <1>4, <1>5 DEF Rest

LEMMA ReturnParts ==
  ASSUME TypeOK, NEW h \in Handlers, NEW where, NEW id, Return(h, where, id)
  PROVE  \/ h \in adrift /\ pc'[h] = "done"
         \/ h \notin adrift /\ pc'[h] = where /\ out'[h] = id
BY Typed DEF Return

\* A row can be refused only for the sake of a committed one, and then nothing of
\* the connection is open that the rollback would lose.
LEMMA RefusedRow ==
  ASSUME RuntimeAssumption, TypeOK, TableInv, NEW h \in Handlers, pc[h] = "insert",
         Visible(h) # {}
  PROVE  rows[UserOf[h]] # 0 /\ rows[UserOf[h]] \in Visible(h) /\ open[HomeOf[h]] = {}
<1>1. \A e \in open[HomeOf[h]] : e[1] # UserOf[h] BY DEF TableInv, Inside
<1>2. {e[2] : e \in {o \in open[HomeOf[h]] : o[1] = UserOf[h]}} = {} BY <1>1
<1>3. rows[UserOf[h]] # 0 /\ rows[UserOf[h]] \in Visible(h) BY <1>2 DEF Visible
<1>4. QED BY <1>3 DEF TableInv, Inside

LEMMA InsertRow ==
  ASSUME RuntimeAssumption, TypeOK, TableInv, NEW h \in Handlers, Insert(h),
         ~Blocked(HomeOf[h]), Visible(h) = {},
         open' = [open EXCEPT ![HomeOf[h]] = @ \cup {<<UserOf[h], NextId(HomeOf[h])>>}],
         out' = [out EXCEPT ![h] = NextId(HomeOf[h])],
         pc' = [pc EXCEPT ![h] = "commit"],
         UNCHANGED <<life, adrift, lock, rows, last, made>>
  PROVE  Rest'
<1> DEFINE p == HomeOf[h]
<1> DEFINE u == UserOf[h]
<1> DEFINE id == NextId(p)
<1> DEFINE n == Cardinality(open[p])
<1>0. /\ p \in Procs /\ u \in Users /\ \A g \in Handlers : HomeOf[g] \in Procs
      /\ open \in [Procs -> SUBSET (Users \X Nat)] /\ pc \in [Handlers -> Pcs]
      /\ out \in [Handlers -> Nat] /\ rows \in [Users -> Nat] /\ last \in Nat
  BY Typed, Homes
<1>1. /\ rows[u] = 0 /\ \A e \in open[p] : e[1] # u
  BY NoneVisible
<1>2. /\ IsFiniteSet(open[p]) /\ n \in Nat /\ id = 1 + last + n
      /\ \A e \in open[p] : rows[e[1]] = 0 /\ e[2] \in (last + 1)..(last + n)
      /\ \A d, e \in open[p] : d[1] = e[1] \/ d[2] = e[2] => d = e
  BY <1>0, OpenCount DEF TableInv, OpenRows, NextId
<1>3. open'[p] = open[p] \cup {<<u, id>>} /\ \A q \in Procs : q # p => open'[q] = open[q]
  BY <1>0
<1>4. \A q \in Procs : q # p => open[q] = {} BY DEF Blocked
<1>5. /\ pc'[h] = "commit" /\ out'[h] = id
      /\ \A g \in Handlers : g # h => pc'[g] = pc[g] /\ out'[g] = out[g]
      /\ UNCHANGED <<rows, last, made, closed>>
  BY <1>0 DEF life
<1> HIDE DEF id, n
<1>6. OpenRows'
  <2>1. <<u, id>> \notin open[p] BY <1>1
  <2>2. IsFiniteSet(open'[p]) /\ Cardinality(open'[p]) = n + 1
    <3>1. /\ IsFiniteSet(open[p] \cup {<<u, id>>})
          /\ Cardinality(open[p] \cup {<<u, id>>}) = Cardinality(open[p]) + 1
      BY <1>2, <2>1, FS_AddElement
    <3>2. QED BY <1>3, <3>1 DEF n
  <2>3. \A e \in open'[p] : rows'[e[1]] = 0 /\ e[2] \in (last' + 1)..(last' + (n + 1))
    <3>1. \A e \in open[p] : rows'[e[1]] = 0 /\ e[2] \in (last' + 1)..(last' + (n + 1))
      BY <1>0, <1>2, <1>5
    <3>2. rows'[u] = 0 /\ id \in (last' + 1)..(last' + (n + 1)) BY <1>0, <1>1, <1>2, <1>5
    <3>3. QED BY <1>3, <3>1, <3>2
  <2>4. \A d, e \in open'[p] : d[1] = e[1] \/ d[2] = e[2] => d = e
    <3>1. \A e \in open[p] : e[1] # u /\ e[2] # id BY <1>0, <1>1, <1>2
    <3>2. QED BY <1>2, <1>3, <3>1
  <2>5. \A q \in Procs : q # p => open'[q] = {} BY <1>3, <1>4
  <2>6. QED BY <2>2, <2>3, <2>4, <2>5, FS_EmptySet DEF OpenRows
<1>7. StoredRows' /\ CreatedOnce' BY <1>5 DEF TableInv, StoredRows, RowsDiffer, CreatedOnce
<1>8. \A g \in Handlers : g # h => /\ HomeOf[g] = p => ~InTable(g)
                                   /\ HomeOf[g] # p => open'[HomeOf[g]] = {} /\ open[HomeOf[g]] = {}
  BY <1>0, <1>3, <1>4 DEF Insert, InTable, TableInv, OneInTable
<1>9. Inside'
  <2> SUFFICES ASSUME NEW g \in Handlers
               PROVE  /\ pc'[g] = "insert" => /\ \A e \in open'[HomeOf[g]] : e[1] # UserOf[g]
                                              /\ open'[HomeOf[g]] # {} => rows'[UserOf[g]] = 0
                      /\ pc'[g] = "commit" /\ ~Shut(g)' => <<UserOf[g], out'[g]>> \in open'[HomeOf[g]]
                      /\ pc'[g] = "publish" => rows'[UserOf[g]] # 0 /\ made'[UserOf[g]] = 0
    BY DEF Inside
  <2>1. CASE g = h BY <1>3, <1>5, <2>1
  <2>2. CASE g # h /\ HomeOf[g] = p BY <1>5, <1>8, <2>2 DEF InTable
  <2>3. CASE g # h /\ HomeOf[g] # p BY <1>5, <1>8, <2>3 DEF TableInv, Inside, Shut
  <2>4. QED BY <2>1, <2>2, <2>3
<1>10. OnePublish' BY <1>5 DEF TableInv, OnePublish
<1>11. IdsAreRows'
  <2> SUFFICES ASSUME NEW g \in Handlers, pc'[g] \in {"publish", "work", "thread"}, ~Shut(g)'
               PROVE  out'[g] \in Visible(g)'
    BY DEF IdsAreRows
  <2>1. g # h /\ pc'[g] = pc[g] /\ out'[g] = out[g] /\ ~Shut(g) BY <1>5 DEF Shut
  <2>2. out[g] \in Visible(g) BY <2>1 DEF TableInv, IdsAreRows
  <2>3. open[HomeOf[g]] \subseteq open'[HomeOf[g]] BY <1>0, <1>3
  <2>4. Visible(g) \subseteq Visible(g)' BY <1>5, <2>3 DEF Visible
  <2>5. QED BY <2>1, <2>2, <2>4
<1>12. QED BY <1>6, <1>7, <1>9, <1>10, <1>11 DEF Rest

LEMMA CommitRows ==
  ASSUME RuntimeAssumption, TypeOK, TableInv, NEW h \in Handlers, pc[h] = "commit", ~Shut(h),
         rows' = [u \in Users |-> IF \E e \in open[HomeOf[h]] : e[1] = u
                                  THEN (CHOOSE e \in open[HomeOf[h]] : e[1] = u)[2]
                                  ELSE rows[u]],
         last' = last + Cardinality(open[HomeOf[h]]),
         open' = [open EXCEPT ![HomeOf[h]] = {}],
         Return(h, "publish", out[h]), UNCHANGED <<life, made>>
  PROVE  Rest'
<1> DEFINE p == HomeOf[h]
<1> DEFINE n == Cardinality(open[p])
<1>0. /\ p \in Procs /\ UserOf[h] \in Users
      /\ \A g \in Handlers : HomeOf[g] \in Procs /\ UserOf[g] \in Users
      /\ open \in [Procs -> SUBSET (Users \X Nat)] /\ pc \in [Handlers -> Pcs]
      /\ out \in [Handlers -> Nat] /\ rows \in [Users -> Nat] /\ last \in Nat
      /\ made \in [Users -> Nat]
  BY Typed, Homes
<1>1. /\ n \in Nat
      /\ \A e \in open[p] : rows[e[1]] = 0 /\ e[2] \in (last + 1)..(last + n)
                            /\ e[1] \in Users
      /\ \A d, e \in open[p] : d[1] = e[1] \/ d[2] = e[2] => d = e
  <2>1. n \in Nat BY <1>0, OpenCount
  <2>2. \A e \in open[p] : e[1] \in Users BY <1>0
  <2>3. QED BY <1>0, <2>1, <2>2 DEF TableInv, OpenRows
<1>2. /\ \A e \in open[p] : rows'[e[1]] = e[2]
      /\ \A u \in Users : (\A e \in open[p] : e[1] # u) => rows'[u] = rows[u]
  BY <1>0, <1>1
<1>3. <<UserOf[h], out[h]>> \in open[p] BY DEF TableInv, Inside
<1>4. open'[p] = {} /\ \A q \in Procs : q # p => open'[q] = open[q] /\ open[q] = {}
  BY <1>0, <1>3 DEF TableInv, OpenRows
<1>5. /\ \A g \in Handlers : g # h => pc'[g] = pc[g] /\ out'[g] = out[g]
      /\ UNCHANGED <<made, closed>> /\ last' = last + n
  BY <1>0 DEF Return, life
<1> HIDE DEF n
<1>6. OpenRows'
  <2>1. \A q \in Procs : open'[q] = {} BY <1>4
  <2>2. QED BY <2>1, FS_EmptySet DEF OpenRows
<1>7. ASSUME NEW u \in Users
      PROVE  \/ \E e \in open[p] : e[1] = u /\ rows'[u] = e[2] /\ rows[u] = 0
             \/ rows'[u] = rows[u] /\ rows[u] \in 0..last
  <2>1. CASE \E e \in open[p] : e[1] = u
    <3>1. PICK e \in open[p] : e[1] = u BY <2>1
    <3>2. rows'[e[1]] = e[2] /\ rows[e[1]] = 0 BY <1>1, <1>2
    <3>3. rows'[u] = e[2] /\ rows[u] = 0 BY <3>1, <3>2
    <3>4. QED BY <3>1, <3>3
  <2>2. CASE \A e \in open[p] : e[1] # u BY <1>2, <2>2 DEF TableInv, StoredRows
  <2>3. QED BY <2>1, <2>2
<1>8. StoredRows'
  <2>1. \A u \in Users : rows'[u] \in 0..last'
    <3>1. \A e \in open[p] : e[2] \in 0..last' BY <1>0, <1>1, <1>5
    <3>2. 0..last \subseteq 0..last' BY <1>0, <1>1, <1>5
    <3>3. QED BY <1>7, <3>1, <3>2
  <2>2. ASSUME NEW u \in Users, NEW v \in Users, rows'[u] = rows'[v], rows'[u] # 0
        PROVE  u = v
    <3>1. \A e \in open[p] : e[2] \notin 0..last BY <1>0, <1>1
    <3>2. CASE rows'[u] \in 0..last
      <4>1. rows'[u] = rows[u] /\ rows'[v] = rows[v] BY <1>7, <2>2, <3>1, <3>2
      <4>2. QED BY <2>2, <4>1 DEF TableInv, StoredRows, RowsDiffer
    <3>3. CASE rows'[u] \notin 0..last
      <4>1. PICK d \in open[p] : d[1] = u /\ rows'[u] = d[2] BY <1>7, <3>3
      <4>2. PICK e \in open[p] : e[1] = v /\ rows'[v] = e[2] BY <1>7, <2>2, <3>3
      <4>3. d = e BY <1>1, <2>2, <4>1, <4>2
      <4>4. QED BY <4>1, <4>2, <4>3
    <3>4. QED BY <3>2, <3>3
  <2>3. QED BY <2>1, <2>2 DEF StoredRows, RowsDiffer
<1>9. \A u \in Users : rows[u] # 0 => rows'[u] = rows[u] BY <1>7
<1>10. CreatedOnce' BY <1>5, <1>9 DEF TableInv, CreatedOnce
<1>11. \A g \in Handlers : g # h /\ HomeOf[g] = p => ~InTable(g)
  BY DEF InTable, TableInv, OneInTable
<1>12. rows'[UserOf[h]] = out[h] /\ out[h] # 0 /\ rows[UserOf[h]] = 0 /\ made[UserOf[h]] = 0
  <2>1. rows[UserOf[h]] = 0 /\ out[h] \in (last + 1)..(last + n) BY <1>1, <1>3
  <2>2. rows'[UserOf[h]] = out[h] BY <1>2, <1>3
  <2>3. made[UserOf[h]] = 0
    <3>1. made[UserOf[h]] \in Nat /\ made[UserOf[h]] <= 1 /\ made[UserOf[h]] # 1
      BY <1>0, <2>1 DEF TableInv, CreatedOnce
    <3>2. QED BY <3>1
  <2>4. QED BY <1>0, <1>1, <2>1, <2>2, <2>3
<1>13. pc'[h] \in {"done", "publish"} /\ (pc'[h] = "publish" => out'[h] = out[h])
  BY ReturnParts
<1>14. Inside'
  <2> SUFFICES ASSUME NEW g \in Handlers
               PROVE  /\ pc'[g] = "insert" => /\ \A e \in open'[HomeOf[g]] : e[1] # UserOf[g]
                                              /\ open'[HomeOf[g]] # {} => rows'[UserOf[g]] = 0
                      /\ pc'[g] = "commit" /\ ~Shut(g)' => <<UserOf[g], out'[g]>> \in open'[HomeOf[g]]
                      /\ pc'[g] = "publish" => rows'[UserOf[g]] # 0 /\ made'[UserOf[g]] = 0
    BY DEF Inside
  <2>0. open'[HomeOf[g]] = {} BY <1>0, <1>4
  <2>1. CASE g = h BY <1>5, <1>12, <1>13, <2>1
  <2>2. CASE g # h
    <3>1. pc'[g] = "publish" => rows'[UserOf[g]] # 0 /\ made'[UserOf[g]] = 0
      BY <1>0, <1>5, <1>9, <2>2 DEF TableInv, Inside
    <3>2. pc'[g] = "commit" => Shut(g)'
      <4>1. SUFFICES ASSUME pc[g] = "commit", ~Shut(g) PROVE FALSE BY <1>5, <2>2 DEF Shut
      <4>2. <<UserOf[g], out[g]>> \in open[HomeOf[g]] BY <4>1 DEF TableInv, Inside
      <4>3. HomeOf[g] = p BY <1>0, <1>4, <4>2
      <4>4. QED BY <1>11, <2>2, <4>1, <4>3 DEF InTable
    <3>3. QED BY <2>0, <3>1, <3>2
  <2>3. QED BY <2>1, <2>2
<1>15. OnePublish'
  <2>1. \A g \in Handlers : g # h /\ pc'[g] = "publish" => UserOf[g] # UserOf[h]
    BY <1>5, <1>12 DEF TableInv, Inside
  <2>2. QED BY <1>5, <2>1 DEF TableInv, OnePublish
<1>16. IdsAreRows'
  <2> SUFFICES ASSUME NEW g \in Handlers, pc'[g] \in {"publish", "work", "thread"}, ~Shut(g)'
               PROVE  out'[g] \in Visible(g)'
    BY DEF IdsAreRows
  <2>1. rows'[UserOf[g]] # 0 => rows'[UserOf[g]] \in Visible(g)' BY DEF Visible
  <2>2. CASE g = h BY <1>12, <1>13, <2>1, <2>2
  <2>3. CASE g # h
    <3>1. out'[g] = out[g] /\ out[g] \in Visible(g)
      BY <1>5, <2>3 DEF TableInv, IdsAreRows, Shut
    <3>2. CASE out[g] = rows[UserOf[g]] /\ rows[UserOf[g]] # 0
      BY <1>0, <1>9, <2>1, <3>1, <3>2
    <3>3. CASE \E e \in open[HomeOf[g]] : e[1] = UserOf[g] /\ e[2] = out[g]
      <4>1. PICK e \in open[HomeOf[g]] : e[1] = UserOf[g] /\ e[2] = out[g] BY <3>3
      <4>2. HomeOf[g] = p BY <1>0, <1>4, <4>1
      <4>3. rows'[UserOf[g]] = out[g] BY <1>2, <4>1, <4>2
      <4>4. out[g] # 0 BY <1>0, <1>1, <4>1, <4>2
      <4>5. QED BY <2>1, <3>1, <4>3, <4>4
    <3>4. QED BY <3>1, <3>2, <3>3 DEF Visible
  <2>4. QED BY <2>2, <2>3
<1>17. QED BY <1>6, <1>8, <1>10, <1>14, <1>15, <1>16 DEF Rest

LEMMA PublishEvent ==
  ASSUME RuntimeAssumption, TypeOK, TableInv, NEW h \in Handlers, Publish(h)
  PROVE  Rest'
<1>0. /\ made \in [Users -> Nat] /\ pc \in [Handlers -> Pcs] /\ UserOf[h] \in Users
      /\ \A g \in Handlers : UserOf[g] \in Users
  BY Typed, Homes
<1>1. /\ pc[h] = "publish" /\ pc'[h] = "work" /\ \A g \in Handlers : g # h => pc'[g] = pc[g]
      /\ made' = [made EXCEPT ![UserOf[h]] = @ + 1]
      /\ UNCHANGED <<out, rows, open, last, closed>>
  BY <1>0 DEF Publish, life
<1>2. rows[UserOf[h]] # 0 /\ made[UserOf[h]] = 0 BY <1>1 DEF TableInv, Inside
<1>3. made'[UserOf[h]] = 1 /\ \A u \in Users : u # UserOf[h] => made'[u] = made[u]
  BY <1>0, <1>1, <1>2
<1>4. OpenRows' /\ StoredRows' BY <1>1 DEF TableInv, OpenRows, StoredRows, RowsDiffer
<1>5. CreatedOnce' BY <1>1, <1>2, <1>3 DEF TableInv, CreatedOnce
<1>6. \A g \in Handlers : g # h /\ pc[g] = "publish" => UserOf[g] # UserOf[h]
  BY <1>1 DEF TableInv, OnePublish
<1>7. Inside' BY <1>0, <1>1, <1>3, <1>6 DEF TableInv, Inside, Shut
<1>8. OnePublish' BY <1>1 DEF TableInv, OnePublish
<1>9. \A g : Visible(g)' = Visible(g) BY <1>1 DEF Visible
<1>10. IdsAreRows' BY <1>1, <1>9 DEF TableInv, IdsAreRows, Shut
<1>11. QED BY <1>4, <1>5, <1>7, <1>8, <1>10 DEF Rest

LEMMA HandlerTable ==
  ASSUME RuntimeAssumption, TypeOK, LifeInv, TableInv, NEW h \in Handlers,
         Begin(h) \/ Lock(h) \/ Thread(h) \/ Publish(h) \/ Work(h)
  PROVE  TableInv'
<1> SUFFICES Rest' BY HandlerOne DEF Rest, TableInv
<1>0. pc \in [Handlers -> Pcs] /\ out \in [Handlers -> Nat] BY Typed
<1>1. ASSUME Return(h, "done", 0), UNCHANGED table PROVE Rest'
  <2>1. pc'[h] = "done" BY <1>1, ReturnParts
  <2>2. QED BY <1>1, <2>1, SameTable
<1>2. ASSUME NEW id \in Visible(h), Return(h, "work", id), UNCHANGED table PROVE Rest'
  <2>1. pc'[h] = "done" \/ (pc'[h] = "work" /\ out'[h] = id) BY <1>2, ReturnParts
  <2>2. QED BY <1>2, <2>1, SameTable
<1>3. CASE Begin(h) \/ Lock(h)
  <2>1. pc'[h] \in {"lock", "select"} /\ UNCHANGED table BY <1>0, <1>3 DEF Begin, Lock
  <2>2. QED BY <2>1, SameTable
<1>4. CASE Select(h)
  <2>1. CASE Visible(h) = {} /\ pc' = [pc EXCEPT ![h] = "insert"] /\ UNCHANGED table
    <3>1. pc'[h] = "insert" BY <1>0, <2>1
    <3>2. QED BY <2>1, <3>1, SameTable
  <2>2. CASE Meet(h) BY <1>1, <2>2 DEF Meet
  <2>3. CASE UNCHANGED table /\ \E id \in Visible(h) : Return(h, "work", id) BY <1>2, <2>3
  <2>4. QED BY <1>4, <2>1, <2>2, <2>3 DEF Select
<1>5. CASE Insert(h)
  <2>1. CASE Meet(h) \/ (Return(h, "done", 0) /\ UNCHANGED <<life, table>>)
    BY <1>1, <2>1 DEF Meet
  <2>2. CASE /\ Visible(h) # {} /\ open' = [open EXCEPT ![HomeOf[h]] = {}]
             /\ IF rows[UserOf[h]] # 0 THEN Return(h, "work", rows[UserOf[h]])
                                       ELSE Return(h, "done", 0)
             /\ UNCHANGED <<life, rows, last, made>>
    <3>1. /\ rows[UserOf[h]] # 0 /\ rows[UserOf[h]] \in Visible(h)
          /\ open[HomeOf[h]] = {}
      BY <1>5, <2>2, RefusedRow DEF Insert
    <3>2. open' = open
      <4>1. open \in [Procs -> SUBSET (Users \X Nat)] BY Typed
      <4>2. QED BY <2>2, <3>1, <4>1
    <3>3. UNCHANGED table BY <2>2, <3>2 DEF table
    <3>4. QED BY <1>2, <2>2, <3>1, <3>3
  <2>3. CASE /\ ~Blocked(HomeOf[h]) /\ Visible(h) = {}
             /\ open' = [open EXCEPT ![HomeOf[h]] = @ \cup {<<UserOf[h], NextId(HomeOf[h])>>}]
             /\ out' = [out EXCEPT ![h] = NextId(HomeOf[h])]
             /\ pc' = [pc EXCEPT ![h] = "commit"]
             /\ UNCHANGED <<life, adrift, lock, rows, last, made>>
    BY <1>5, <2>3, InsertRow
  <2>4. QED BY <1>5, <2>1, <2>2, <2>3 DEF Insert
<1>6. CASE Commit(h)
  <2>1. CASE Meet(h) \/ (Return(h, "done", 0) /\ UNCHANGED <<life, table>>)
    BY <1>1, <2>1 DEF Meet
  <2>2. CASE ~(Meet(h) \/ (Return(h, "done", 0) /\ UNCHANGED <<life, table>>))
    BY <1>6, <2>2, CommitRows DEF Commit
  <2>3. QED BY <2>1, <2>2
<1>7. CASE Publish(h) BY <1>7, PublishEvent
<1>8. CASE Work(h)
  <2>1. pc[h] = "work" /\ pc'[h] \in {"thread", "done"} /\ UNCHANGED table
        /\ (pc'[h] = "thread" => out'[h] = out[h])
    BY <1>0, <1>8 DEF Work
  <2>2. Shut(h) \/ out[h] \in Visible(h) BY <2>1 DEF TableInv, IdsAreRows
  <2>3. QED BY <2>1, <2>2, SameTable
<1>9. CASE ThreadEnds(h)
  <2>1. pc[h] = "thread" /\ Return(h, "work", out[h]) /\ UNCHANGED table
    BY <1>9 DEF ThreadEnds
  <2>2. Shut(h) \/ out[h] \in Visible(h) BY <2>1 DEF TableInv, IdsAreRows
  <2>3. pc'[h] = "done" \/ (pc'[h] = "work" /\ out'[h] = out[h]) BY <2>1, ReturnParts
  <2>4. QED BY <2>1, <2>2, <2>3, SameTable
<1>10. QED BY <1>3, <1>4, <1>5, <1>6, <1>7, <1>8, <1>9 DEF Thread

-----------------------------------------------------------------------------
(* The theorems.                                                           *)

LEMMA InitRuntimeInv == ASSUME RuntimeAssumption, Init PROVE RuntimeInv
<1>1. TypeOK BY InitTyped
<1>2. \A h \in Handlers : HomeOf[h] \in Procs /\ pc[h] = "idle" BY Homes DEF Init
<1>3. LifeInv BY <1>2 DEF Init, LifeInv, Running
<1>4. OneInTable /\ Inside /\ OnePublish /\ IdsAreRows
  BY <1>2 DEF OneInTable, Inside, OnePublish, IdsAreRows, InTable
<1>5. OpenRows BY FS_EmptySet DEF Init, OpenRows
<1>6. StoredRows /\ CreatedOnce BY DEF Init, StoredRows, RowsDiffer, CreatedOnce
<1>7. QED BY <1>1, <1>3, <1>4, <1>5, <1>6 DEF RuntimeInv, TableInv

LEMMA NextRuntimeInv ==
  ASSUME RuntimeAssumption, RuntimeInv, [Next]_vars PROVE RuntimeInv'
<1> TypeOK /\ LifeInv /\ TableInv BY DEF RuntimeInv
<1>1. CASE UNCHANGED vars
  <2>1. UNCHANGED <<life, pc, adrift, out, lock, table>> BY <1>1 DEF vars
  <2>2. TypeOK' BY <2>1 DEF life, table, TypeOK, InThread
  <2>3. LifeInv' BY <2>1 DEF life, LifeInv, Running, Quiet, Serial
  <2>4. TableInv' BY <2>1, TableStays DEF life, table, Shut, InTable
  <2>5. QED BY <2>2, <2>3, <2>4 DEF RuntimeInv
<1>2. ASSUME NEW p \in Procs,
             Boot(p) \/ Signal(p) \/ PollingEnds(p) \/ RecoveryEnds(p) \/ Stopping(p) \/ Kill(p)
      PROVE  RuntimeInv'
  BY <1>2, ProcTyped, ProcLife, ProcTable DEF RuntimeInv
<1>3. ASSUME NEW h \in Handlers, Begin(h) \/ Lock(h) \/ Thread(h) \/ Publish(h) \/ Work(h)
      PROVE  RuntimeInv'
  BY <1>3, HandlerTyped, HandlerLife, HandlerTable DEF RuntimeInv
<1>4. QED BY <1>1, <1>2, <1>3 DEF Next

LEMMA RuntimeInvariant == Spec => []RuntimeInv
<1>1. Init => RuntimeInv BY InitRuntimeInv, RuntimeAssumption
<1>2. RuntimeInv /\ [Next]_vars => RuntimeInv' BY NextRuntimeInv, RuntimeAssumption
<1>3. QED BY <1>1, <1>2, PTL DEF Spec

\* Every variable stays in its type.
THEOREM RuntimeTypeCorrect == Spec => []TypeOK
<1>1. RuntimeInv => TypeOK BY DEF RuntimeInv
<1>2. QED BY <1>1, RuntimeInvariant, PTL

\* Whatever fails, is cancelled or dies: a user is announced once at most, after
\* the row is there; who goes on with an id has the id of the row of that user;
\* and no two users have one id.
THEOREM UsersStayAgreed == Spec => []UsersAgree
<1>1. RuntimeInv => UsersAgree
  BY DEF RuntimeInv, TableInv, StoredRows, UsersAgree
<1>2. QED BY <1>1, RuntimeInvariant, PTL

\* No part is closed under the recovery, under polling or under the handler of a
\* channel that handles one message at a time.
THEOREM PartsCloseLast == Spec => []ClosedLast
<1>1. RuntimeInv => ClosedLast
  <2> SUFFICES ASSUME RuntimeInv PROVE ClosedLast OBVIOUS
  <2>1. ASSUME NEW p \in Procs, closed[p] # {} PROVE ~recovery[p] /\ polling[p] # "on"
    BY <2>1 DEF RuntimeInv, LifeInv
  <2>2. ASSUME Serial, NEW h \in Handlers, Running(h) PROVE closed[HomeOf[h]] = {}
    <3>1. HomeOf[h] \in Procs BY RuntimeAssumption, Homes
    <3>2. polling[HomeOf[h]] = "on" BY <2>2 DEF RuntimeInv, LifeInv
    <3>3. QED BY <3>1, <3>2 DEF RuntimeInv, LifeInv
  <2>3. QED BY <2>1, <2>2 DEF ClosedLast
<1>2. QED BY <1>1, RuntimeInvariant, PTL
-----------------------------------------------------------------------------
(* The way to the end.                                                     *)

\* How many steps main has left, and how many a thread.
StagesLeft(p) ==
    CASE phase[p] = "down"    -> 0
      [] phase[p] = "leave"   -> 1
      [] phase[p] = "close"   -> Len(Parts) + 3 - next[p]
      [] phase[p] = "recover" -> Len(Parts) + 3
      [] phase[p] = "serve"   -> Len(Parts) + 4
CallsLeft(at) ==
    CASE at = "select" -> 3
      [] at = "insert" -> 2
      [] at \in {"commit", "thread"} -> 1
      [] OTHER -> 0

\* A process that has to stop keeps having to; main never goes back and every step of
\* it leaves less to do; while it waits for the threads nobody enters one, and every
\* call that returns leaves less to wait for.
HasToStop(p) == phase[p] = "serve" => asked[p] \/ polling[p] = "over"
StopRunsOut ==
    [][\A p \in Procs :
          /\ phase[p] # "down" => StagesLeft(p)' <= StagesLeft(p)
          /\ Stopping(p) => StagesLeft(p)' < StagesLeft(p)
          /\ phase[p] # "down" /\ HasToStop(p) => HasToStop(p)'
          /\ phase[p] = "leave" =>
               \A h \in Of(p) : /\ CallsLeft(pc'[h]) <= CallsLeft(pc[h])
                                /\ Thread(h) => CallsLeft(pc'[h]) < CallsLeft(pc[h])]_vars

LEMMA StagesLeftOf ==
  ASSUME NEW p
  PROVE  /\ phase[p] = "down" => StagesLeft(p) = 0
         /\ phase[p] = "leave" => StagesLeft(p) = 1
         /\ phase[p] = "close" => StagesLeft(p) = Len(Parts) + 3 - next[p]
         /\ phase[p] = "recover" => StagesLeft(p) = Len(Parts) + 3
         /\ phase[p] = "serve" => StagesLeft(p) = Len(Parts) + 4
BY DEF StagesLeft

LEMMA StagesLeftThen ==
  ASSUME NEW p
  PROVE  /\ phase'[p] = "down" => StagesLeft(p)' = 0
         /\ phase'[p] = "leave" => StagesLeft(p)' = 1
         /\ phase'[p] = "close" => StagesLeft(p)' = Len(Parts) + 3 - next'[p]
         /\ phase'[p] = "recover" => StagesLeft(p)' = Len(Parts) + 3
         /\ phase'[p] = "serve" => StagesLeft(p)' = Len(Parts) + 4
BY DEF StagesLeft

LEMMA CallsLeftOf ==
  /\ CallsLeft("select") = 3 /\ CallsLeft("insert") = 2 /\ CallsLeft("commit") = 1
  /\ CallsLeft("thread") = 1 /\ CallsLeft("idle") = 0 /\ CallsLeft("lock") = 0
  /\ CallsLeft("publish") = 0 /\ CallsLeft("work") = 0 /\ CallsLeft("done") = 0
BY DEF CallsLeft

\* The stages of a process, as numbers.
LEMMA StagesTyped ==
  ASSUME RuntimeAssumption, TypeOK, NEW p \in Procs
  PROVE  /\ Len(Parts) \in Nat /\ phase[p] \in Phases
         /\ next[p] \in 1..Len(Parts) + 1
         /\ phase[p] # "down" => StagesLeft(p) >= 1
         /\ StagesLeft(p) \in Nat
<1>1. Len(Parts) \in Nat BY LenProperties DEF RuntimeAssumption
<1>2. phase[p] \in Phases /\ next[p] \in 1..Len(Parts) + 1 BY Typed
<1>3. QED BY <1>1, <1>2, StagesLeftOf DEF Phases

LEMMA StoppingDown ==
  ASSUME RuntimeAssumption, TypeOK, NEW p \in Procs, Stopping(p)
  PROVE  StagesLeft(p)' < StagesLeft(p)
<1>1. /\ Len(Parts) \in Nat /\ next[p] \in 1..Len(Parts) + 1
      /\ p \in DOMAIN phase /\ p \in DOMAIN next
  BY StagesTyped, Typed
<1>2. CASE AwaitFirst(p)
  <2>1. phase[p] = "serve" /\ phase'[p] = "recover" BY <1>1, <1>2 DEF AwaitFirst
  <2>2. QED BY <1>1, <2>1, StagesLeftOf, StagesLeftThen
<1>3. CASE StopRecovery(p)
  <2>1. phase[p] = "recover" /\ phase'[p] = "close" /\ next'[p] = next[p]
    BY <1>1, <1>3 DEF StopRecovery
  <2>2. QED BY <1>1, <2>1, StagesLeftOf, StagesLeftThen
<1>4. CASE CloseNext(p)
  <2>1. phase[p] = "close" /\ phase'[p] = "close" /\ next'[p] = next[p] + 1
    BY <1>1, <1>4 DEF CloseNext
  <2>2. QED BY <1>1, <2>1, StagesLeftOf, StagesLeftThen
<1>5. CASE Leave(p)
  <2>1. phase[p] = "close" /\ phase'[p] = "leave" BY <1>1, <1>5 DEF Leave
  <2>2. QED BY <1>1, <2>1, StagesLeftOf, StagesLeftThen
<1>6. CASE Exit(p)
  <2>1. phase[p] = "leave" /\ phase'[p] = "down" BY <1>1, <1>6 DEF Exit, Gone
  <2>2. QED BY <1>1, <2>1, StagesLeftOf, StagesLeftThen
<1>7. QED BY <1>2, <1>3, <1>4, <1>5, <1>6 DEF Stopping

\* Whoever acts, a process that runs goes on to its end or stays where it is.
LEMMA NeverBack ==
  ASSUME RuntimeAssumption, TypeOK, [Next]_vars, NEW p \in Procs, phase[p] # "down"
  PROVE  /\ StagesLeft(p)' <= StagesLeft(p)
         /\ HasToStop(p) => HasToStop(p)'
<1>1. StagesLeft(p) \in Nat BY StagesTyped
<1>2. ASSUME phase'[p] = phase[p], next'[p] = next[p], asked'[p] = asked[p],
             polling'[p] = polling[p]
      PROVE  StagesLeft(p)' <= StagesLeft(p) /\ (HasToStop(p) => HasToStop(p)')
  <2>1. StagesLeft(p)' = StagesLeft(p) BY <1>2 DEF StagesLeft
  <2>2. QED BY <1>1, <1>2, <2>1 DEF HasToStop
<1>3. CASE UNCHANGED vars BY <1>2, <1>3 DEF vars, life
<1>4. ASSUME NEW h \in Handlers, Begin(h) \/ Lock(h) \/ Thread(h) \/ Publish(h) \/ Work(h)
      PROVE  StagesLeft(p)' <= StagesLeft(p) /\ (HasToStop(p) => HasToStop(p)')
  BY <1>2, <1>4, HandlerStep DEF life
<1>5. ASSUME NEW q \in Procs, Boot(q) \/ Signal(q) \/ PollingEnds(q) \/ RecoveryEnds(q)
                              \/ Stopping(q) \/ Kill(q)
      PROVE  StagesLeft(p)' <= StagesLeft(p) /\ (HasToStop(p) => HasToStop(p)')
  <2>0. p \in DOMAIN phase /\ p \in DOMAIN asked /\ p \in DOMAIN polling /\ p \in DOMAIN next
    BY Typed
  <2>1. CASE q # p
    BY <1>2, <1>5, <2>0, <2>1 DEF Boot, Signal, PollingEnds, RecoveryEnds, Stopping, AwaitFirst,
       StopRecovery, CloseNext, Leave, Exit, Kill, Gone
  <2>2. CASE q = p
    <3>1. CASE Stopping(p)
      <4>1. StagesLeft(p)' <= StagesLeft(p)
        <5>1. StagesLeft(p)' < StagesLeft(p) BY <3>1, StoppingDown
        <5>2. StagesLeft(p)' \in Int
          <6>1. /\ Len(Parts) \in Nat /\ phase[p] \in Phases
                /\ next[p] \in Nat
            BY StagesTyped
          <6>2. next'[p] \in Nat /\ phase'[p] \in Phases
            BY <2>0, <3>1, <6>1 DEF Stopping, AwaitFirst, StopRecovery, CloseNext, Leave,
               Exit, Gone, Phases
          <6>3. QED BY <6>1, <6>2, StagesLeftThen DEF Phases
        <5>3. QED BY <1>1, <5>1, <5>2
      <4>2. phase'[p] # "serve"
        BY <2>0, <3>1 DEF Stopping, AwaitFirst, StopRecovery, CloseNext, Leave, Exit, Gone
      <4>3. QED BY <4>1, <4>2 DEF HasToStop
    <3>2. CASE Boot(p) BY <3>2 DEF Boot
    <3>3. CASE Kill(p)
      <4>1. phase'[p] = "down" BY <2>0, <3>3 DEF Kill, Gone
      <4>2. QED BY <1>1, <4>1, StagesLeftThen DEF HasToStop
    <3>4. CASE Signal(p)
      <4>1. phase' = phase /\ next' = next /\ asked'[p] BY <2>0, <3>4 DEF Signal
      <4>2. StagesLeft(p)' = StagesLeft(p) BY <4>1 DEF StagesLeft
      <4>3. QED BY <1>1, <4>1, <4>2 DEF HasToStop
    <3>5. CASE PollingEnds(p)
      <4>1. phase' = phase /\ next' = next /\ polling'[p] = "over"
        BY <2>0, <3>5 DEF PollingEnds
      <4>2. StagesLeft(p)' = StagesLeft(p) BY <4>1 DEF StagesLeft
      <4>3. QED BY <1>1, <4>1, <4>2 DEF HasToStop
    <3>6. CASE RecoveryEnds(p) BY <1>2, <3>6 DEF RecoveryEnds
    <3>7. QED BY <1>5, <2>2, <3>1, <3>2, <3>3, <3>4, <3>5, <3>6
  <2>3. QED BY <2>1, <2>2
<1>6. QED BY <1>3, <1>4, <1>5 DEF Next

\* What a handler's thread does for somebody who no longer waits.
LEMMA ThreadDown ==
  ASSUME RuntimeAssumption, TypeOK, NEW h \in Handlers, h \in adrift, Thread(h)
  PROVE  CallsLeft(pc'[h]) < CallsLeft(pc[h])
<1>1. h \in DOMAIN pc BY Typed
<1>2. ASSUME NEW where, NEW id, Return(h, where, id) PROVE pc'[h] = "done"
  BY <1>1, <1>2 DEF Return
<1>3. CASE Select(h)
  <2>1. pc[h] = "select" /\ pc'[h] \in {"insert", "done"}
    BY <1>1, <1>2, <1>3 DEF Select, Meet
  <2>2. QED BY <2>1, CallsLeftOf
<1>4. CASE Insert(h)
  <2>1. pc[h] = "insert" /\ pc'[h] \in {"commit", "done"}
    BY <1>1, <1>2, <1>4 DEF Insert, Meet
  <2>2. QED BY <2>1, CallsLeftOf
<1>5. CASE Commit(h)
  <2>1. pc[h] = "commit" /\ pc'[h] = "done" BY <1>2, <1>5 DEF Commit, Meet
  <2>2. QED BY <2>1, CallsLeftOf
<1>6. CASE ThreadEnds(h)
  <2>1. pc[h] = "thread" /\ pc'[h] = "done" BY <1>2, <1>6 DEF ThreadEnds
  <2>2. QED BY <2>1, CallsLeftOf
<1>7. QED BY <1>3, <1>4, <1>5, <1>6 DEF Thread

\* While a process waits for its threads, handlers are adrift in one or have ended.
LEMMA OnlyThreads ==
  ASSUME RuntimeAssumption, TypeOK, LifeInv, NEW h \in Handlers, phase[HomeOf[h]] = "leave"
  PROVE  /\ pc[h] \in {"idle", "done"} \/ (h \in adrift /\ InThread(h))
         /\ Begin(h) \/ Lock(h) \/ Thread(h) \/ Publish(h) \/ Work(h)
              => h \in adrift /\ Thread(h)
<1>1. Quiet(HomeOf[h]) BY DEF Quiet
<1>2. ~Running(h) BY <1>1 DEF LifeInv
<1>3. pc[h] \in {"idle", "done"} \/ (h \in adrift /\ InThread(h))
  BY <1>2 DEF Running, TypeOK
<1>4. ~Begin(h) BY DEF Begin
<1>5. QED BY <1>3, <1>4 DEF InThread, Lock, Thread, Publish, Work, Select, Insert, Commit, ThreadEnds

LEMMA NobodyEnters ==
  ASSUME RuntimeAssumption, TypeOK, LifeInv, [Next]_vars, NEW h \in Handlers,
         phase[HomeOf[h]] = "leave"
  PROVE  CallsLeft(pc'[h]) <= CallsLeft(pc[h])
<1>1. CallsLeft(pc[h]) \in Nat
  <2>1. pc[h] \in Pcs BY Typed
  <2>2. QED BY <2>1, CallsLeftOf DEF Pcs
<1>2. ASSUME pc'[h] \in {pc[h], "done"} PROVE CallsLeft(pc'[h]) <= CallsLeft(pc[h])
  BY <1>1, <1>2, CallsLeftOf
<1>3. CASE UNCHANGED vars BY <1>2, <1>3 DEF vars
<1>4. ASSUME NEW g \in Handlers, Begin(g) \/ Lock(g) \/ Thread(g) \/ Publish(g) \/ Work(g)
      PROVE  CallsLeft(pc'[h]) <= CallsLeft(pc[h])
  <2>1. CASE g # h
    <3>1. pc'[h] = pc[h] BY <1>4, <2>1, HandlerStep
    <3>2. QED BY <1>2, <3>1
  <2>2. CASE g = h
    <3>1. h \in adrift /\ Thread(h) BY <1>4, <2>2, OnlyThreads
    <3>2. CallsLeft(pc'[h]) < CallsLeft(pc[h]) BY <3>1, ThreadDown
    <3>3. h \in adrift' \/ pc'[h] = "done" BY <1>4, <2>2, <3>1, HandlerStep
    <3>4. pc'[h] \in Pcs
      <4>1. h \in DOMAIN pc BY Typed
      <4>2. ASSUME NEW where, NEW id, Return(h, where, id) PROVE pc'[h] = "done"
        BY <3>1, <4>1, <4>2 DEF Return
      <4>3. QED
        BY <3>1, <4>1, <4>2 DEF Thread, Select, Insert, Commit, ThreadEnds, Meet, Pcs
    <3>5. CallsLeft(pc'[h]) \in Nat BY <3>4, CallsLeftOf DEF Pcs
    <3>6. QED BY <1>1, <3>2, <3>5
  <2>3. QED BY <2>1, <2>2
<1>5. ASSUME NEW q \in Procs, Boot(q) \/ Signal(q) \/ PollingEnds(q) \/ RecoveryEnds(q)
                              \/ Stopping(q) \/ Kill(q)
      PROVE  CallsLeft(pc'[h]) <= CallsLeft(pc[h])
  <2>1. CASE Gone(q)
    <3>1. pc'[h] \in {pc[h], "done"} BY <2>1 DEF Gone
    <3>2. QED BY <1>2, <3>1
  <2>2. CASE \E hs \in SUBSET Of(q) : CancelHandlers(q, hs)
    <3>1. pc'[h] \in {pc[h], "done"} BY <2>2 DEF CancelHandlers
    <3>2. QED BY <1>2, <3>1
  <2>3. CASE UNCHANGED pc BY <1>2, <2>3
  <2>4. QED BY <1>5, <2>1, <2>2, <2>3 DEF Boot, Signal, PollingEnds, RecoveryEnds, Stopping,
           AwaitFirst, StopRecovery, CloseNext, Leave, Exit, Kill
<1>6. QED BY <1>3, <1>4, <1>5 DEF Next

\* A stop cannot be taken back or delayed by the handlers: main takes a bounded number
\* of steps, and then waits for at most three calls of each handler that is adrift.
THEOREM StopComesToEnd == Spec => StopRunsOut
<1> DEFINE Out(p) ==
      /\ phase[p] # "down" => StagesLeft(p)' <= StagesLeft(p)
      /\ Stopping(p) => StagesLeft(p)' < StagesLeft(p)
      /\ phase[p] # "down" /\ HasToStop(p) => HasToStop(p)'
      /\ phase[p] = "leave" =>
           \A h \in Of(p) : /\ CallsLeft(pc'[h]) <= CallsLeft(pc[h])
                            /\ Thread(h) => CallsLeft(pc'[h]) < CallsLeft(pc[h])
<1>1. ASSUME RuntimeAssumption, RuntimeInv, [Next]_vars, NEW p \in Procs PROVE Out(p)
  <2> TypeOK /\ LifeInv BY <1>1 DEF RuntimeInv
  <2>1. ASSUME phase[p] = "leave", NEW h \in Of(p)
        PROVE  /\ CallsLeft(pc'[h]) <= CallsLeft(pc[h])
               /\ Thread(h) => CallsLeft(pc'[h]) < CallsLeft(pc[h])
    <3>1. h \in Handlers /\ phase[HomeOf[h]] = "leave" BY <2>1 DEF Of
    <3>2. CallsLeft(pc'[h]) <= CallsLeft(pc[h]) BY <1>1, <3>1, NobodyEnters
    <3>3. Thread(h) => CallsLeft(pc'[h]) < CallsLeft(pc[h])
      BY <1>1, <3>1, OnlyThreads, ThreadDown
    <3>4. QED BY <3>2, <3>3
  <2>2. Stopping(p) => StagesLeft(p)' < StagesLeft(p) BY <1>1, StoppingDown
  <2>3. phase[p] # "down" => /\ StagesLeft(p)' <= StagesLeft(p)
                             /\ HasToStop(p) => HasToStop(p)'
    BY <1>1, NeverBack
  <2>4. QED BY <2>1, <2>2, <2>3
<1>2. RuntimeInv /\ [Next]_vars => [\A p \in Procs : Out(p)]_vars
  BY <1>1, RuntimeAssumption
<1>3. QED BY <1>2, RuntimeInvariant, PTL DEF Spec, StopRunsOut

=============================================================================
