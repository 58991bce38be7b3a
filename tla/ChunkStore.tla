----------------------------- MODULE ChunkStore -----------------------------
(***************************************************************************)
(* SemanticMemory: texts in memory_chunks, vectors in memory_vec, joined   *)
(* by rowid.  Each process has one connection for all its worker threads,  *)
(* without a lock of its own; SQLite lets one connection write at a time.  *)
(* A transaction belongs to the connection, not to the thread: it opens    *)
(* with the first statement that writes and ends with anybody's commit or  *)
(* rollback.  A step is one call of the sqlite3 module.                    *)
(***************************************************************************)
EXTENDS Naturals, FiniteSets

CONSTANTS
    Procs,
    Jobs,        \* calls of insert, insert_batch and delete, a thread each
    ProcOf,      \* ProcOf[j]: the process that makes the call
    Size,        \* Size[j]: texts of an insert_batch, 1 for insert, 0 for delete
    Serial,      \* processes in which no two of these calls overlap
    Nobody

Batches == {j \in Jobs : Size[j] > 0}
ItemsOf == [b \in Batches |-> {b} \X (1..Size[b])]
Items == UNION {ItemsOf[b] : b \in Batches}

ASSUME ChunkAssumption ==
    /\ ProcOf \in [Jobs -> Procs]
    /\ Size \in [Jobs -> Nat]
    /\ Serial \subseteq Procs
    /\ Nobody \notin Procs

VARIABLES
    db,       \* what is committed: chunks and vecs, rowid -> text; seq of AUTOINCREMENT
    writer,   \* the process whose connection has an open transaction, or Nobody
    draft,    \* the database as that transaction leaves it
    last,     \* last[p]: sqlite3_last_insert_rowid of the connection of p
    pc,       \* pc[j]: the next statement of call j
    at,       \* at[j]: the text of the batch that is being inserted
    row       \* row[j]: cur.lastrowid of an insert, the rowid to be deleted

tx == <<writer, draft>>
vars == <<db, tx, last, pc, at, row>>

-----------------------------------------------------------------------------
Active(j) == pc[j] \notin {"idle", "kept", "refused"}
InProc(p) == {j \in Jobs : ProcOf[j] = p}

Content(chunks, vecs, seq) == [chunks |-> chunks, vecs |-> vecs, seq |-> seq]
Empty == Content(<<>>, <<>>, 0)

View(p) == IF writer = p THEN draft ELSE db

\* The RESERVED lock: a connection writes when no other has a transaction.
Write(p, content) ==
    /\ writer \in {p, Nobody}
    /\ writer' = p /\ draft' = content
EndTx(p) ==
    IF writer = p THEN writer' = Nobody /\ draft' = Empty ELSE UNCHANGED tx

Without(f, r) == [s \in DOMAIN f \ {r} |-> f[s]]
With(f, r, text) == [s \in DOMAIN f \cup {r} |-> IF s = r THEN text ELSE f[s]]

\* search: pairs of the text and the vector that are joined.  The search goes
\* through the connection of its process and sees its open transaction.
Hits(p) ==
    {<<View(p).chunks[r], View(p).vecs[r]>> :
        r \in DOMAIN View(p).chunks \cap DOMAIN View(p).vecs}

Goto(j, label) == pc' = [pc EXCEPT ![j] = label]

-----------------------------------------------------------------------------
Init ==
    /\ db = Empty /\ draft = Empty
    /\ writer = Nobody /\ last = [p \in Procs |-> 0]
    /\ pc = [j \in Jobs |-> "idle"]
    /\ at = [j \in Jobs |-> 1] /\ row = [j \in Jobs |-> 0]

Begin(j) ==
    /\ pc[j] = "idle"
    /\ ProcOf[j] \in Serial => \A i \in InProc(ProcOf[j]) : ~Active(i)

Insert(j) ==
    /\ Begin(j) /\ Size[j] > 0 /\ Goto(j, "chunk")
    /\ UNCHANGED <<db, tx, last, at, row>>

\* A statement that writes waits for the lock of another connection, five seconds
\* at most; the transaction opens with it.
InsertChunk(j) ==
    LET p == ProcOf[j]  v == View(p)  r == v.seq + 1 IN
    /\ pc[j] = "chunk" /\ Size[j] > 0
    /\ Write(p, Content(With(v.chunks, r, <<j, at[j]>>), v.vecs, r))
    /\ last' = [last EXCEPT ![p] = r]
    /\ Goto(j, "rowid")
    /\ UNCHANGED <<db, at, row>>

\* The module asks for the rowid in a second call, after it let go of the GIL.
ReadRowid(j) ==
    /\ pc[j] = "rowid"
    /\ row' = [row EXCEPT ![j] = last[ProcOf[j]]]
    /\ Goto(j, "vec")
    /\ UNCHANGED <<db, tx, last, at>>

\* Slip: one text too many.
InsertVecAndOneMore(j) ==
    LET p == ProcOf[j]  v == View(p) IN
    /\ pc[j] = "vec" /\ Size[j] > 0
    /\ row[j] \notin DOMAIN v.vecs
    /\ Write(p, Content(v.chunks, With(v.vecs, row[j], <<j, at[j]>>), v.seq))
    /\ last' = [last EXCEPT ![p] = row[j]]
    /\ IF at[j] <= Size[j]
       THEN at' = [at EXCEPT ![j] = @ + 1] /\ Goto(j, "chunk")
       ELSE UNCHANGED at /\ Goto(j, "commit")
    /\ UNCHANGED <<db, row>>

\* A second vector for one rowid is refused: see Fail.
InsertVec(j) ==
    LET p == ProcOf[j]  v == View(p) IN
    /\ pc[j] = "vec" /\ Size[j] > 0
    /\ row[j] \notin DOMAIN v.vecs
    /\ Write(p, Content(v.chunks, With(v.vecs, row[j], <<j, at[j]>>), v.seq))
    /\ last' = [last EXCEPT ![p] = row[j]]
    /\ IF at[j] < Size[j]
       THEN at' = [at EXCEPT ![j] = @ + 1] /\ Goto(j, "chunk")
       ELSE UNCHANGED at /\ Goto(j, "commit")
    /\ UNCHANGED <<db, row>>

-----------------------------------------------------------------------------
\* delete(rowid): the code has no caller of it but its tests.
Delete(j, r) ==
    /\ Begin(j) /\ Size[j] = 0 /\ Goto(j, "chunk")
    /\ row' = [row EXCEPT ![j] = r]
    /\ UNCHANGED <<db, tx, last, at>>

DeleteChunk(j) ==
    LET p == ProcOf[j]  v == View(p) IN
    /\ pc[j] = "chunk" /\ Size[j] = 0
    /\ Write(p, Content(Without(v.chunks, row[j]), v.vecs, v.seq))
    /\ Goto(j, "vec")
    /\ UNCHANGED <<db, last, at, row>>

DeleteVec(j) ==
    LET p == ProcOf[j]  v == View(p) IN
    /\ pc[j] = "vec" /\ Size[j] = 0
    /\ Write(p, Content(v.chunks, Without(v.vecs, row[j]), v.seq))
    /\ Goto(j, "commit")
    /\ UNCHANGED <<db, last, at, row>>

-----------------------------------------------------------------------------
\* Slip: every pair is committed at once.
CommitEach(j) ==
    /\ pc[j] = "commit" \/ (pc[j] = "chunk" /\ at[j] > 1)
    /\ db' = View(ProcOf[j]) /\ EndTx(ProcOf[j])
    /\ IF pc[j] = "commit" THEN Goto(j, "kept") ELSE UNCHANGED pc
    /\ UNCHANGED <<last, at, row>>

\* The call returns; without an open transaction commit does nothing.
Commit(j) ==
    /\ pc[j] = "commit"
    /\ db' = View(ProcOf[j]) /\ EndTx(ProcOf[j])
    /\ Goto(j, "kept")
    /\ UNCHANGED <<last, at, row>>

\* Any statement may raise: the lock was not freed in time, the disk is full, the
\* metadata are wrong, the rowid has a vector.
Fail(j) ==
    /\ pc[j] \in {"chunk", "vec", "commit"} /\ Goto(j, "rollback")
    /\ UNCHANGED <<db, tx, last, at, row>>

\* Slip: the error is passed on and the transaction left open.
RollbackForgotten(j) ==
    /\ pc[j] = "rollback" /\ Goto(j, "refused")
    /\ UNCHANGED <<db, tx, last, at, row>>

Rollback(j) ==
    /\ pc[j] = "rollback" /\ Goto(j, "refused")
    /\ EndTx(ProcOf[j])
    /\ UNCHANGED <<db, last, at, row>>

\* The connection is closed under its threads, or the process ends: SQLite undoes
\* what was open, and a thread that goes on gets an error from every statement.
Close(p) ==
    /\ \E j \in InProc(p) : Active(j)
    /\ EndTx(p) /\ last' = [last EXCEPT ![p] = 0]
    /\ pc' = [j \in Jobs |-> IF j \in InProc(p) /\ Active(j) THEN "refused" ELSE pc[j]]
    /\ UNCHANGED <<db, at, row>>

-----------------------------------------------------------------------------
JobStep(j) ==
    \/ Insert(j) \/ InsertChunk(j) \/ ReadRowid(j) \/ InsertVec(j)
    \/ \E r \in DOMAIN db.chunks : Delete(j, r)
    \/ DeleteChunk(j) \/ DeleteVec(j)
    \/ Commit(j) \/ Fail(j) \/ Rollback(j)

Next == (\E j \in Jobs : JobStep(j)) \/ (\E p \in Procs : Close(p))

Spec == Init /\ [][Next]_vars

-----------------------------------------------------------------------------
IsContent(d) ==
    /\ d = Content(d.chunks, d.vecs, d.seq)
    /\ d.seq \in Nat
    /\ d.chunks \in [DOMAIN d.chunks -> Items] /\ DOMAIN d.chunks \subseteq 1..d.seq
    /\ d.vecs \in [DOMAIN d.vecs -> Items] /\ DOMAIN d.vecs \subseteq 1..d.seq

\* Types, and no row beyond the sequence of rowids: a vector that is left there
\* would refuse every later insert, since the sequence is rolled back.
TypeOK ==
    /\ IsContent(db) /\ IsContent(draft) /\ writer \in Procs \cup {Nobody}
    /\ last \in [Procs -> Nat]
    /\ pc \in [Jobs ->
         {"idle", "chunk", "rowid", "vec", "commit", "rollback", "kept", "refused"}]
    /\ at \in [Jobs -> Nat] /\ \A b \in Batches : at[b] \in 1..Size[b]
    /\ row \in [Jobs -> Nat]

\* Where the calls of a process do not overlap, whatever fails or is closed half-way:
\* every stored text has one vector, its own, and no vector is without a text; a
\* search never finds a text by the vector of another, not even in a batch that is
\* being written; and no transaction outlives the calls of its connection, which
\* would keep every other process from writing for ever.
PairsKept == db.chunks = db.vecs
HitsMatch == \A p \in Procs : \A hit \in Hits(p) : hit[1] = hit[2]
LockIsUsed == writer # Nobody => \E j \in InProc(writer) : Active(j)
StoreIsSound == PairsKept /\ HitsMatch /\ LockIsUsed

\* The docstring of insert_batch: "insert several chunks in one transaction".
BatchWhole ==
    \A b \in Batches :
        LET stored == {i \in ItemsOf[b] : \E r \in DOMAIN db.chunks : db.chunks[r] = i} IN
        stored = {} \/ stored = ItemsOf[b]

\* The store keeps the promise of TextShelf.
Found ==
    {db.chunks[r] : r \in {r \in DOMAIN db.chunks \cap DOMAIN db.vecs :
                             db.chunks[r] = db.vecs[r]}}
FateOf == [b \in Batches |-> IF pc[b] \in {"kept", "refused"} THEN pc[b] ELSE "open"]

Promise == INSTANCE TextShelf WITH shelf <- Found, fate <- FateOf
PromiseKept == Promise!Shelf
=============================================================================
