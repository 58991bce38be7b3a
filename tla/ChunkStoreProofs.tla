-------------------------- MODULE ChunkStoreProofs --------------------------
(***************************************************************************)
(* Theorems about ChunkStore where the calls of a process do not overlap,  *)
(* for any processes, batches and deletes, with an error at any statement  *)
(* and a close at any moment: types, soundness of the store, and that it   *)
(* implements TextShelf.                                                   *)
(***************************************************************************)
EXTENDS ChunkStore, TLAPS

-----------------------------------------------------------------------------
(* The invariant.  One call of a process is under way, and where it is says *)
(* what the connection of the process sees.                                *)

OneCall == \A i, j \in Jobs : ProcOf[i] = ProcOf[j] /\ Active(i) /\ Active(j) => i = j

LockInv == writer # Nobody => \E j \in Jobs : ProcOf[j] = writer /\ Active(j)

Agree(d) == \A r \in DOMAIN d.chunks \cap DOMAIN d.vecs : d.chunks[r] = d.vecs[r]

\* A text whose vector is still to be written, at the last rowid.
HalfIn(d, text) ==
    /\ d.seq \in Nat \ {0} /\ d.seq \notin DOMAIN d.vecs
    /\ d.chunks = With(d.vecs, d.seq, text)

\* Call j finds content v in the connection of its process.
Finds(j, v) ==
    /\ pc[j] = "chunk" => v.chunks = v.vecs
    /\ pc[j] = "rowid" => Size[j] > 0 /\ last[ProcOf[j]] = v.seq /\ HalfIn(v, <<j, at[j]>>)
    /\ pc[j] = "vec" /\ Size[j] > 0 => row[j] = v.seq /\ HalfIn(v, <<j, at[j]>>)
    /\ pc[j] = "vec" /\ Size[j] = 0 => v.chunks = Without(v.vecs, row[j])
    /\ pc[j] = "commit" => v.chunks = v.vecs
    /\ pc[j] = "rollback" => Agree(v)
CallInv ==
    \A j \in Jobs :
        /\ pc[j] \in {"rowid", "vec", "commit"} => writer = ProcOf[j]
        /\ Finds(j, View(ProcOf[j]))

StoreInv == TypeOK /\ OneCall /\ LockInv /\ PairsKept /\ CallInv

-----------------------------------------------------------------------------
(* Operators on contents.                                                  *)

LEMMA WithDomain ==
  ASSUME NEW f, NEW r, NEW text
  PROVE  /\ DOMAIN With(f, r, text) = DOMAIN f \cup {r}
         /\ With(f, r, text)[r] = text
         /\ \A s \in DOMAIN f : s # r => With(f, r, text)[s] = f[s]
BY DEF With

LEMMA WithTyped ==
  ASSUME NEW S, NEW f, NEW r, NEW text \in S, f \in [DOMAIN f -> S]
  PROVE  With(f, r, text) \in [DOMAIN With(f, r, text) -> S]
BY DEF With

LEMMA WithoutTyped ==
  ASSUME NEW S, NEW f, NEW r, f \in [DOMAIN f -> S]
  PROVE  /\ Without(f, r) \in [DOMAIN Without(f, r) -> S]
         /\ DOMAIN Without(f, r) = DOMAIN f \ {r}
         /\ \A s \in DOMAIN f : s # r => Without(f, r)[s] = f[s]
BY DEF Without

LEMMA ContentParts ==
  ASSUME NEW c, NEW v, NEW s
  PROVE  Content(c, v, s).chunks = c /\ Content(c, v, s).vecs = v /\ Content(c, v, s).seq = s
BY DEF Content

LEMMA ContentTyped ==
  ASSUME NEW c, NEW v, NEW s \in Nat, c \in [DOMAIN c -> Items], v \in [DOMAIN v -> Items],
         DOMAIN c \subseteq 1..s, DOMAIN v \subseteq 1..s
  PROVE  IsContent(Content(c, v, s))
BY ContentParts DEF IsContent

LEMMA EmptyTyped == IsContent(Empty)
<1>1. <<>> \in [{} -> Items] /\ DOMAIN <<>> = {} OBVIOUS
<1>2. QED BY <1>1, ContentTyped DEF Empty

LEMMA TextTyped ==
  ASSUME TypeOK, NEW j \in Jobs, Size[j] > 0
  PROVE  j \in Batches /\ at[j] \in 1..Size[j] /\ <<j, at[j]>> \in Items
<1>1. j \in Batches BY DEF Batches
<1>2. at[j] \in 1..Size[j] BY <1>1 DEF TypeOK
<1>3. <<j, at[j]>> \in ItemsOf[j] BY <1>1, <1>2 DEF ItemsOf
<1>4. QED BY <1>1, <1>2, <1>3 DEF Items

LEMMA ViewTyped == ASSUME TypeOK, NEW p PROVE IsContent(View(p))
  BY DEF View, TypeOK

-----------------------------------------------------------------------------
(* Types.                                                                  *)

Pcs == {"idle", "chunk", "rowid", "vec", "commit", "rollback", "kept", "refused"}
LEMMA NextTyped ==
  ASSUME ChunkAssumption, StoreInv, [Next]_vars PROVE TypeOK'
<1> TypeOK BY DEF StoreInv
<1>0. /\ ProcOf \in [Jobs -> Procs] /\ Size \in [Jobs -> Nat]
      /\ last \in [Procs -> Nat] /\ pc \in [Jobs -> Pcs] /\ at \in [Jobs -> Nat]
      /\ row \in [Jobs -> Nat]
  BY DEF ChunkAssumption, TypeOK, Pcs
<1>1. CASE UNCHANGED vars BY <1>1 DEF vars, tx, TypeOK
<1>2. ASSUME NEW j \in Jobs, Insert(j) PROVE TypeOK'
  <2>1. pc' \in [Jobs -> Pcs] /\ UNCHANGED <<db, tx, last, at, row>>
    BY <1>0, <1>2 DEF Insert, Goto, Pcs
  <2>2. QED BY <2>1 DEF tx, TypeOK, IsContent, Pcs
<1>3. ASSUME NEW j \in Jobs, InsertChunk(j) PROVE TypeOK'
  <2> DEFINE p == ProcOf[j]
  <2> DEFINE v == View(p)
  <2> DEFINE r == v.seq + 1
  <2> DEFINE c == With(v.chunks, r, <<j, at[j]>>)
  <2>1. /\ Size[j] > 0 /\ writer' = p /\ draft' = Content(c, v.vecs, r)
        /\ last' = [last EXCEPT ![p] = r] /\ pc' = [pc EXCEPT ![j] = "rowid"]
        /\ UNCHANGED <<db, at, row>>
    BY <1>3 DEF InsertChunk, Write, Goto
  <2>2. p \in Procs BY <1>0
  <2>3. /\ v.seq \in Nat /\ r \in Nat /\ v.chunks \in [DOMAIN v.chunks -> Items]
        /\ v.vecs \in [DOMAIN v.vecs -> Items]
        /\ DOMAIN v.chunks \subseteq 1..v.seq /\ DOMAIN v.vecs \subseteq 1..v.seq
    BY ViewTyped DEF IsContent
  <2>4. c \in [DOMAIN c -> Items] BY <2>1, <2>3, TextTyped, WithTyped
  <2>5. DOMAIN c \subseteq 1..r
    <3>1. DOMAIN c = DOMAIN v.chunks \cup {r} BY WithDomain
    <3> HIDE DEF c, v
    <3>2. QED BY <2>3, <3>1
  <2>6. DOMAIN v.vecs \subseteq 1..r BY <2>3
  <2>7. IsContent(draft') BY <2>1, <2>3, <2>4, <2>5, <2>6, ContentTyped
  <2> HIDE DEF c, r, v
  <2>8. last' \in [Procs -> Nat] /\ pc' \in [Jobs -> Pcs] BY <1>0, <2>1, <2>3 DEF Pcs
  <2>9. QED BY <2>1, <2>2, <2>7, <2>8 DEF TypeOK, IsContent, Pcs
<1>4. ASSUME NEW j \in Jobs, ReadRowid(j) PROVE TypeOK'
  <2>1. last[ProcOf[j]] \in Nat BY <1>0
  <2>2. row' \in [Jobs -> Nat] /\ pc' \in [Jobs -> Pcs] BY <1>0, <1>4, <2>1 DEF ReadRowid, Goto, Pcs
  <2>3. QED BY <1>4, <2>2 DEF ReadRowid, tx, TypeOK, IsContent, Pcs
<1>5. ASSUME NEW j \in Jobs, InsertVec(j) PROVE TypeOK'
  <2> DEFINE p == ProcOf[j]
  <2> DEFINE v == View(p)
  <2> DEFINE c == With(v.vecs, row[j], <<j, at[j]>>)
  <2>1. /\ pc[j] = "vec" /\ Size[j] > 0 /\ writer' = p /\ draft' = Content(v.chunks, c, v.seq)
        /\ last' = [last EXCEPT ![p] = row[j]]
        /\ UNCHANGED <<db, row>>
    BY <1>5 DEF InsertVec, Write
  <2>2. p \in Procs BY <1>0
  <2>3. /\ v.seq \in Nat /\ v.chunks \in [DOMAIN v.chunks -> Items]
        /\ v.vecs \in [DOMAIN v.vecs -> Items]
        /\ DOMAIN v.chunks \subseteq 1..v.seq /\ DOMAIN v.vecs \subseteq 1..v.seq
    BY ViewTyped DEF IsContent
  <2>4. c \in [DOMAIN c -> Items] BY <2>1, <2>3, TextTyped, WithTyped
  <2>5. DOMAIN c \subseteq 1..v.seq
    <3>1. DOMAIN c = DOMAIN v.vecs \cup {row[j]} BY DEF With
    <3>2. row[j] = v.seq /\ v.seq # 0 BY <2>1 DEF StoreInv, CallInv, Finds, HalfIn
    <3> HIDE DEF c, v
    <3>3. QED BY <2>3, <3>1, <3>2
  <2>6. IsContent(draft') BY <2>1, <2>3, <2>4, <2>5, ContentTyped
  <2> HIDE DEF c, v
  <2>7. last' \in [Procs -> Nat] BY <1>0, <2>1
  <2>8. at[j] \in 1..Size[j] BY <2>1, TextTyped
  <2>9. pc' \in [Jobs -> Pcs] /\ at' \in [Jobs -> Nat] /\ \A b \in Batches : at'[b] \in 1..Size[b]
    <3>1. CASE at[j] < Size[j]
      <4>1. at' = [at EXCEPT ![j] = at[j] + 1] /\ pc' = [pc EXCEPT ![j] = "chunk"]
        BY <1>5, <3>1 DEF InsertVec, Goto
      <4>2. at[j] + 1 \in Nat /\ at[j] + 1 \in 1..Size[j] BY <1>0, <2>8, <3>1
      <4>3. \A b \in Batches : b \in Jobs /\ at[b] \in 1..Size[b] BY DEF Batches, TypeOK
      <4>4. QED BY <1>0, <4>1, <4>2, <4>3 DEF Pcs
    <3>2. CASE ~(at[j] < Size[j])
      <4>1. at' = at /\ pc' = [pc EXCEPT ![j] = "commit"] BY <1>5, <3>2 DEF InsertVec, Goto
      <4>2. QED BY <1>0, <4>1 DEF Pcs, TypeOK
    <3>3. QED BY <3>1, <3>2
  <2>10. QED BY <2>1, <2>2, <2>6, <2>7, <2>9 DEF TypeOK, IsContent, Pcs
<1>6. ASSUME NEW j \in Jobs, NEW r \in DOMAIN db.chunks, Delete(j, r) PROVE TypeOK'
  <2>1. r \in Nat BY DEF TypeOK, IsContent
  <2>2. row' \in [Jobs -> Nat] /\ pc' \in [Jobs -> Pcs] BY <1>0, <1>6, <2>1 DEF Delete, Goto, Pcs
  <2>3. QED BY <1>6, <2>2 DEF Delete, tx, TypeOK, IsContent, Pcs
<1>7. ASSUME NEW j \in Jobs, DeleteChunk(j) \/ DeleteVec(j) PROVE TypeOK'
  <2> DEFINE v == View(ProcOf[j])
  <2>1. /\ v.seq \in Nat /\ v.chunks \in [DOMAIN v.chunks -> Items]
        /\ v.vecs \in [DOMAIN v.vecs -> Items]
        /\ DOMAIN v.chunks \subseteq 1..v.seq /\ DOMAIN v.vecs \subseteq 1..v.seq
    BY ViewTyped DEF IsContent
  <2>2. /\ writer' = ProcOf[j] /\ UNCHANGED <<db, last, at, row>>
        /\ \/ draft' = Content(Without(v.chunks, row[j]), v.vecs, v.seq)
           \/ draft' = Content(v.chunks, Without(v.vecs, row[j]), v.seq)
        /\ \E l \in {"vec", "commit"} : pc' = [pc EXCEPT ![j] = l]
    BY <1>7 DEF DeleteChunk, DeleteVec, Write, Goto
  <2>3. ASSUME NEW f, f \in [DOMAIN f -> Items], DOMAIN f \subseteq 1..v.seq
        PROVE  /\ Without(f, row[j]) \in [DOMAIN Without(f, row[j]) -> Items]
               /\ DOMAIN Without(f, row[j]) \subseteq 1..v.seq
    <3>1. /\ Without(f, row[j]) \in [DOMAIN Without(f, row[j]) -> Items]
          /\ DOMAIN Without(f, row[j]) = DOMAIN f \ {row[j]}
      BY <2>3 DEF Without
    <3> HIDE DEF v
    <3>2. QED BY <2>3, <3>1
  <2>4. IsContent(draft')
    <3>1. CASE draft' = Content(Without(v.chunks, row[j]), v.vecs, v.seq)
      BY <2>1, <2>3, <3>1, ContentTyped
    <3>2. CASE draft' = Content(v.chunks, Without(v.vecs, row[j]), v.seq)
      BY <2>1, <2>3, <3>2, ContentTyped
    <3>3. QED BY <2>2, <3>1, <3>2
  <2>5. pc' \in [Jobs -> Pcs] BY <1>0, <2>2 DEF Pcs
  <2>6. ProcOf[j] \in Procs BY <1>0
  <2>7. QED BY <2>2, <2>4, <2>5, <2>6 DEF TypeOK, IsContent, Pcs
<1>8. ASSUME NEW j \in Jobs, Commit(j) PROVE TypeOK'
  <2>1. IsContent(db') BY <1>8, ViewTyped DEF Commit
  <2>2. IsContent(draft') /\ writer' \in Procs \cup {Nobody}
    BY <1>8, EmptyTyped DEF Commit, EndTx, tx, TypeOK
  <2>3. pc' \in [Jobs -> Pcs] /\ UNCHANGED <<last, at, row>> BY <1>0, <1>8 DEF Commit, Goto, Pcs
  <2>4. QED BY <2>1, <2>2, <2>3 DEF TypeOK, IsContent, Pcs
<1>9. ASSUME NEW j \in Jobs, Fail(j) PROVE TypeOK'
  BY <1>9 DEF Fail, Goto, tx, TypeOK
<1>10. ASSUME NEW j \in Jobs, Rollback(j) PROVE TypeOK'
  <2>1. IsContent(draft') /\ writer' \in Procs \cup {Nobody}
    BY <1>10, EmptyTyped DEF Rollback, EndTx, tx, TypeOK
  <2>2. pc' \in [Jobs -> Pcs] /\ UNCHANGED <<db, last, at, row>> BY <1>0, <1>10 DEF Rollback, Goto, Pcs
  <2>3. QED BY <2>1, <2>2 DEF TypeOK, IsContent, Pcs
<1>11. ASSUME NEW p \in Procs, Close(p) PROVE TypeOK'
  <2>1. IsContent(draft') /\ writer' \in Procs \cup {Nobody}
    BY <1>11, EmptyTyped DEF Close, EndTx, tx, TypeOK
  <2>2. last' \in [Procs -> Nat] /\ pc' \in [Jobs -> Pcs] /\ UNCHANGED <<db, at, row>>
    BY <1>0, <1>11 DEF Close, Pcs
  <2>3. QED BY <2>1, <2>2 DEF TypeOK, IsContent, Pcs
<1>12. QED
  BY <1>1, <1>2, <1>3, <1>4, <1>5, <1>6, <1>7, <1>8, <1>9, <1>10, <1>11 DEF Next, JobStep

-----------------------------------------------------------------------------
(* Calls one after the other.                                              *)

\* A step of a call is made by the only call of its process; it leaves the other
\* calls alone.
LEMMA StepIsAlone ==
  ASSUME ChunkAssumption, Serial = Procs, StoreInv, NEW j \in Jobs, JobStep(j)
  PROVE  /\ \A i \in Jobs \ {j} : ProcOf[i] = ProcOf[j] => ~Active(i)
         /\ \A i \in Jobs \ {j} : pc'[i] = pc[i] /\ at'[i] = at[i] /\ row'[i] = row[i]
         /\ \A i \in Jobs : ProcOf[i] # ProcOf[j] => last'[ProcOf[i]] = last[ProcOf[i]]
         /\ Active(j) \/ Begin(j)
<1>0. /\ ProcOf \in [Jobs -> Procs]
      /\ last \in [Procs -> Nat] /\ pc \in [Jobs -> Pcs] /\ at \in [Jobs -> Nat]
      /\ row \in [Jobs -> Nat]
  BY DEF ChunkAssumption, StoreInv, TypeOK, Pcs
<1>1. Active(j) \/ Begin(j)
  BY DEF JobStep, Insert, InsertChunk, ReadRowid, InsertVec, Delete, DeleteChunk, DeleteVec,
         Commit, Fail, Rollback, Active
<1>2. \A i \in Jobs \ {j} : ProcOf[i] = ProcOf[j] => ~Active(i)
  <2>1. Active(j) => \A i \in Jobs \ {j} : ProcOf[i] = ProcOf[j] => ~Active(i)
    BY DEF StoreInv, OneCall
  <2>2. Begin(j) => \A i \in Jobs : ProcOf[i] = ProcOf[j] => ~Active(i)
    BY <1>0 DEF Begin, InProc
  <2>3. QED BY <1>1, <2>1, <2>2
<1>3. /\ \E l : pc' = [pc EXCEPT ![j] = l]
      /\ at' = at \/ at' = [at EXCEPT ![j] = at[j] + 1]
      /\ row' = row \/ \E x : row' = [row EXCEPT ![j] = x]
      /\ last' = last \/ \E x : last' = [last EXCEPT ![ProcOf[j]] = x]
  BY DEF JobStep, Insert, InsertChunk, ReadRowid, InsertVec, Delete, DeleteChunk, DeleteVec,
         Commit, Fail, Rollback, Goto
<1>4. \A i \in Jobs \ {j} : pc'[i] = pc[i] /\ at'[i] = at[i] /\ row'[i] = row[i]
  BY <1>0, <1>3
<1>5. \A i \in Jobs : ProcOf[i] # ProcOf[j] => last'[ProcOf[i]] = last[ProcOf[i]]
  BY <1>0, <1>3
<1>6. QED BY <1>1, <1>2, <1>4, <1>5

LEMMA NextOneCall ==
  ASSUME ChunkAssumption, Serial = Procs, StoreInv, [Next]_vars PROVE OneCall'
<1>1. CASE UNCHANGED vars BY <1>1 DEF vars, StoreInv, OneCall, Active
<1>2. ASSUME NEW j \in Jobs, JobStep(j) PROVE OneCall'
  <2> SUFFICES ASSUME NEW i \in Jobs, NEW k \in Jobs, ProcOf[i] = ProcOf[k], i # k,
                      Active(i)', Active(k)'
               PROVE  FALSE
    BY DEF OneCall
  <2>1. CASE i # j /\ k # j
    BY <1>2, <2>1, StepIsAlone DEF StoreInv, OneCall, Active
  <2>2. CASE i = j
    <3>1. pc'[k] = pc[k] /\ ~Active(k) BY <1>2, <2>2, StepIsAlone
    <3>2. QED BY <3>1 DEF Active
  <2>3. CASE k = j
    <3>1. pc'[i] = pc[i] /\ ~Active(i) BY <1>2, <2>3, StepIsAlone
    <3>2. QED BY <3>1 DEF Active
  <2>4. QED BY <2>1, <2>2, <2>3
<1>3. ASSUME NEW p \in Procs, Close(p) PROVE OneCall'
  <2>1. \A j \in Jobs : Active(j)' => Active(j)
    BY <1>3 DEF Close, Active, StoreInv, TypeOK
  <2>2. QED BY <2>1 DEF StoreInv, OneCall
<1>4. QED BY <1>1, <1>2, <1>3 DEF Next

\* What a step of a call does to the store.
LEMMA StepStore ==
  ASSUME NEW j \in Jobs, JobStep(j)
  PROVE  \/ UNCHANGED <<db, writer, draft>>
         \/ /\ UNCHANGED db /\ writer \in {ProcOf[j], Nobody} /\ writer' = ProcOf[j]
            /\ pc[j] \in {"chunk", "vec"}
         \/ /\ Commit(j) /\ db' = View(ProcOf[j]) /\ EndTx(ProcOf[j])
         \/ /\ Rollback(j) /\ UNCHANGED db /\ EndTx(ProcOf[j])
BY DEF JobStep, Insert, InsertChunk, ReadRowid, InsertVec, Delete, DeleteChunk, DeleteVec,
       Commit, Fail, Rollback, Goto, Write, tx

LEMMA NextLock ==
  ASSUME ChunkAssumption, Serial = Procs, StoreInv, [Next]_vars PROVE LockInv'
<1>0. pc \in [Jobs -> Pcs] /\ ProcOf \in [Jobs -> Procs] /\ Nobody \notin Procs
  BY DEF ChunkAssumption, StoreInv, TypeOK, Pcs
<1>1. CASE UNCHANGED vars BY <1>1 DEF vars, tx, StoreInv, LockInv, Active
<1>2. ASSUME NEW j \in Jobs, JobStep(j) PROVE LockInv'
  <2> DEFINE p == ProcOf[j]
  <2>1. ASSUME UNCHANGED writer, writer # Nobody, writer # p PROVE LockInv'
    <3>1. PICK i \in Jobs : ProcOf[i] = writer /\ Active(i) BY <2>1 DEF StoreInv, LockInv
    <3>2. i # j /\ pc'[i] = pc[i] BY <1>2, <2>1, <3>1, StepIsAlone
    <3>3. QED BY <2>1, <3>1, <3>2 DEF LockInv, Active
  <2>2. CASE EndTx(p) /\ writer = p BY <2>2 DEF EndTx, LockInv
  <2>3. CASE EndTx(p) /\ writer # p BY <2>1, <2>3 DEF EndTx, tx, LockInv
  <2>4. ASSUME Active(j)', writer' \in {p, Nobody} PROVE LockInv'
    BY <2>4 DEF LockInv
  <2>5. Commit(j) \/ Rollback(j) \/ Active(j)'
    BY <1>0, <1>2 DEF JobStep, Insert, InsertChunk, ReadRowid, InsertVec, Delete, DeleteChunk,
                      DeleteVec, Fail, Goto, Active
  <2>6. CASE Commit(j) \/ Rollback(j) BY <2>2, <2>3, <2>6 DEF Commit, Rollback
  <2>7. CASE Active(j)' /\ ~Commit(j) /\ ~Rollback(j)
    <3>1. UNCHANGED writer \/ writer' = p BY <1>2, <2>7, StepStore
    <3>2. QED BY <2>1, <2>4, <2>7, <3>1 DEF LockInv
  <2>8. QED BY <2>5, <2>6, <2>7
<1>3. ASSUME NEW p \in Procs, Close(p) PROVE LockInv'
  <2>1. CASE writer = p BY <1>3, <2>1 DEF Close, EndTx, LockInv
  <2>2. CASE writer # p /\ writer # Nobody
    <3>1. PICK i \in Jobs : ProcOf[i] = writer /\ Active(i) BY <2>2 DEF StoreInv, LockInv
    <3>2. pc'[i] = pc[i] /\ writer' = writer BY <1>3, <2>2, <3>1 DEF Close, EndTx, tx, InProc
    <3>3. QED BY <3>1, <3>2 DEF LockInv, Active
  <2>3. CASE writer # p /\ writer = Nobody BY <1>3, <2>3 DEF Close, EndTx, tx, LockInv
  <2>4. QED BY <2>1, <2>2, <2>3
<1>4. QED BY <1>1, <1>2, <1>3 DEF Next

-----------------------------------------------------------------------------
(* What the calls find.                                                    *)

\* The connection of a process without a call shows what is committed.
LEMMA QuietView ==
  ASSUME StoreInv, NEW p \in Procs, Nobody \notin Procs, \A i \in InProc(p) : ~Active(i)
  PROVE  writer # p /\ View(p) = db
BY DEF StoreInv, LockInv, View, InProc

LEMMA NextPairs ==
  ASSUME ChunkAssumption, Serial = Procs, StoreInv, [Next]_vars PROVE PairsKept'
<1>1. CASE UNCHANGED db BY <1>1 DEF StoreInv, PairsKept
<1>2. ASSUME NEW j \in Jobs, Commit(j) PROVE PairsKept'
  <2>1. View(ProcOf[j]).chunks = View(ProcOf[j]).vecs
    BY <1>2 DEF Commit, StoreInv, CallInv, Finds
  <2>2. QED BY <1>2, <2>1 DEF Commit, PairsKept
<1>3. ASSUME NEW p \in Procs, Close(p) PROVE UNCHANGED db BY <1>3 DEF Close
<1>4. UNCHANGED vars => UNCHANGED db BY DEF vars
<1>5. QED BY <1>1, <1>2, <1>3, <1>4, StepStore DEF Next

\* Another process sees the same as before, or what was just committed.
LEMMA OtherViews ==
  ASSUME ChunkAssumption, Serial = Procs, StoreInv, NEW j \in Jobs, JobStep(j),
         NEW q \in Procs, q # ProcOf[j]
  PROVE  \/ View(q)' = View(q) /\ (writer = q => writer' = q)
         \/ Commit(j) /\ writer = ProcOf[j] /\ View(q)' = db'
<1>1. ProcOf[j] \in Procs /\ Nobody \notin Procs BY DEF ChunkAssumption
<1>2. CASE UNCHANGED <<db, writer, draft>> BY <1>2 DEF View
<1>3. CASE UNCHANGED db /\ writer \in {ProcOf[j], Nobody} /\ writer' = ProcOf[j]
  BY <1>1, <1>3 DEF View
<1>4. CASE Commit(j)
  <2>1. writer = ProcOf[j] BY <1>4 DEF Commit, StoreInv, CallInv
  <2>2. writer' = Nobody BY <1>4, <2>1 DEF Commit, EndTx
  <2>3. QED BY <1>1, <1>4, <2>1, <2>2 DEF View
<1>5. CASE UNCHANGED db /\ EndTx(ProcOf[j]) BY <1>1, <1>5 DEF EndTx, tx, View
<1>6. QED BY <1>2, <1>3, <1>4, <1>5, StepStore

LEMMA OthersFind ==
  ASSUME ChunkAssumption, Serial = Procs, StoreInv, NEW j \in Jobs, JobStep(j),
         NEW i \in Jobs, i # j
  PROVE  /\ pc'[i] \in {"rowid", "vec", "commit"} => writer' = ProcOf[i]
         /\ Finds(i, View(ProcOf[i]))'
<1> DEFINE q == ProcOf[i]
<1>0. q \in Procs /\ ProcOf[j] \in Procs /\ Nobody \notin Procs BY DEF ChunkAssumption
<1>1. pc'[i] = pc[i] /\ at'[i] = at[i] /\ row'[i] = row[i] BY StepIsAlone
<1>2. CASE q = ProcOf[j]
  <2>1. pc'[i] \in {"idle", "kept", "refused"} BY <1>1, <1>2, StepIsAlone DEF Active
  <2>2. QED BY <2>1 DEF Finds
<1>3. CASE q # ProcOf[j]
  <2>0. last'[q] = last[q] BY <1>3, StepIsAlone
  <2>1. /\ pc[i] \in {"rowid", "vec", "commit"} => writer = q
        /\ Finds(i, View(q))
    BY DEF StoreInv, CallInv
  <2>2. CASE View(q)' = View(q) /\ (writer = q => writer' = q)
    BY <1>1, <2>0, <2>1, <2>2 DEF Finds
  <2>3. CASE Commit(j) /\ writer = ProcOf[j] /\ View(q)' = db'
    <3>1. pc'[i] \notin {"rowid", "vec", "commit"} BY <1>1, <1>3, <2>1, <2>3
    <3>2. db'.chunks = db'.vecs BY NextPairs DEF PairsKept, Next
    <3>3. QED BY <2>3, <3>1, <3>2 DEF Finds, Agree
  <2>4. QED BY <1>0, <1>3, <2>2, <2>3, OtherViews
<1>4. QED BY <1>2, <1>3

\* Whatever an error interrupts, the texts that have a vector have their own.
LEMMA FindsAgree ==
  ASSUME TypeOK, NEW j \in Jobs, NEW v, Finds(j, v), Size[j] \in Nat,
         pc[j] \in {"chunk", "rowid", "vec", "commit", "rollback"}
  PROVE  Agree(v)
<1>1. CASE v.chunks = v.vecs BY <1>1 DEF Agree
<1>2. CASE HalfIn(v, <<j, at[j]>>)
  <2>1. v.seq \notin DOMAIN v.vecs /\ v.chunks = With(v.vecs, v.seq, <<j, at[j]>>)
    BY <1>2 DEF HalfIn
  <2>2. \A r \in DOMAIN v.vecs : v.chunks[r] = v.vecs[r] BY <2>1 DEF With
  <2>3. QED BY <2>2 DEF Agree
<1>3. CASE v.chunks = Without(v.vecs, row[j])
  <2>1. \A r \in DOMAIN v.chunks : v.chunks[r] = v.vecs[r] BY <1>3 DEF Without
  <2>2. QED BY <2>1 DEF Agree
<1>4. QED BY <1>1, <1>2, <1>3 DEF Finds

LEMMA ActorFinds ==
  ASSUME ChunkAssumption, Serial = Procs, StoreInv, NEW j \in Jobs, JobStep(j)
  PROVE  /\ pc'[j] \in {"rowid", "vec", "commit"} => writer' = ProcOf[j]
         /\ Finds(j, View(ProcOf[j]))'
<1> TypeOK BY DEF StoreInv
<1> DEFINE p == ProcOf[j]
<1> DEFINE v == View(p)
<1>0. /\ p \in Procs /\ Nobody \notin Procs /\ Size[j] \in Nat /\ last \in [Procs -> Nat]
      /\ pc \in [Jobs -> Pcs] /\ at \in [Jobs -> Nat] /\ row \in [Jobs -> Nat]
  BY DEF ChunkAssumption, TypeOK, Pcs
<1>1. /\ pc[j] \in {"rowid", "vec", "commit"} => writer = p
      /\ Finds(j, v)
  BY DEF StoreInv, CallInv
<1>2. ASSUME UNCHANGED <<db, tx>> PROVE View(p)' = v BY <1>2 DEF View, tx
<1>3. ASSUME NEW content, Write(p, content) PROVE writer' = p /\ View(p)' = content
  BY <1>3 DEF Write, View
<1>4. CASE Insert(j) \/ \E r \in DOMAIN db.chunks : Delete(j, r)
  <2>1. pc'[j] = "chunk" /\ View(p)' = v BY <1>0, <1>2, <1>4 DEF Insert, Delete, Goto
  <2>2. \A i \in InProc(p) : ~Active(i) BY <1>0, <1>4 DEF Insert, Delete, Begin
  <2>3. v = db BY <1>0, <2>2, QuietView
  <2>4. v.chunks = v.vecs BY <2>3 DEF StoreInv, PairsKept
  <2> HIDE DEF v
  <2>5. QED BY <2>1, <2>4 DEF Finds
<1>5. CASE InsertChunk(j)
  <2> DEFINE r == v.seq + 1
  <2>1. /\ pc[j] = "chunk" /\ Size[j] > 0
        /\ Write(p, Content(With(v.chunks, r, <<j, at[j]>>), v.vecs, r))
        /\ pc'[j] = "rowid" /\ last'[p] = r /\ at'[j] = at[j]
    BY <1>0, <1>5 DEF InsertChunk, Goto
  <2>2. v.chunks = v.vecs BY <1>1, <2>1 DEF Finds
  <2>3. r \in Nat \ {0} /\ r \notin DOMAIN v.vecs BY ViewTyped DEF IsContent
  <2> HIDE DEF r, v
  <2> DEFINE w == View(p)'
  <2>4. w = Content(With(v.chunks, r, <<j, at[j]>>), v.vecs, r) /\ writer' = p BY <1>3, <2>1
  <2> HIDE DEF w
  <2>5. w.chunks = With(v.vecs, r, <<j, at[j]>>) /\ w.vecs = v.vecs /\ w.seq = r
    BY <2>2, <2>4, ContentParts
  <2>6. HalfIn(w, <<j, at[j]>>) BY <2>3, <2>5 DEF HalfIn
  <2>7. QED BY <2>1, <2>4, <2>5, <2>6 DEF Finds, w
<1>6. CASE ReadRowid(j)
  <2>1. pc[j] = "rowid" /\ pc'[j] = "vec" /\ row'[j] = last[p] /\ at'[j] = at[j]
        /\ writer' = writer /\ View(p)' = v
    BY <1>0, <1>2, <1>6 DEF ReadRowid, Goto, tx
  <2> HIDE DEF v
  <2>2. QED BY <1>1, <2>1 DEF Finds
<1>7. CASE InsertVec(j)
  <2>1. /\ pc[j] = "vec" /\ Size[j] > 0
        /\ Write(p, Content(v.chunks, With(v.vecs, row[j], <<j, at[j]>>), v.seq))
        /\ pc'[j] \in {"chunk", "commit"}
    BY <1>0, <1>7 DEF InsertVec, Goto
  <2>2. v.chunks = With(v.vecs, row[j], <<j, at[j]>>) BY <1>1, <2>1 DEF Finds, HalfIn
  <2> HIDE DEF v
  <2> DEFINE w == View(p)'
  <2>3. w = Content(v.chunks, With(v.vecs, row[j], <<j, at[j]>>), v.seq) /\ writer' = p
    BY <1>3, <2>1
  <2> HIDE DEF w
  <2>4. w.chunks = w.vecs BY <2>2, <2>3, ContentParts
  <2>5. QED BY <2>1, <2>3, <2>4 DEF Finds, w
<1>8. CASE DeleteChunk(j)
  <2>1. /\ pc[j] = "chunk" /\ Size[j] = 0 /\ pc'[j] = "vec" /\ row'[j] = row[j]
        /\ Write(p, Content(Without(v.chunks, row[j]), v.vecs, v.seq))
    BY <1>0, <1>8 DEF DeleteChunk, Goto
  <2>2. v.chunks = v.vecs BY <1>1, <2>1 DEF Finds
  <2> HIDE DEF v
  <2> DEFINE w == View(p)'
  <2>3. w = Content(Without(v.chunks, row[j]), v.vecs, v.seq) /\ writer' = p BY <1>3, <2>1
  <2> HIDE DEF w
  <2>4. w.chunks = Without(w.vecs, row[j]) BY <2>2, <2>3, ContentParts
  <2>5. QED BY <2>1, <2>3, <2>4 DEF Finds, w
<1>9. CASE DeleteVec(j)
  <2>1. /\ pc[j] = "vec" /\ Size[j] = 0 /\ pc'[j] = "commit"
        /\ Write(p, Content(v.chunks, Without(v.vecs, row[j]), v.seq))
    BY <1>0, <1>9 DEF DeleteVec, Goto
  <2>2. v.chunks = Without(v.vecs, row[j]) BY <1>1, <2>1 DEF Finds
  <2> HIDE DEF v
  <2> DEFINE w == View(p)'
  <2>3. w = Content(v.chunks, Without(v.vecs, row[j]), v.seq) /\ writer' = p BY <1>3, <2>1
  <2> HIDE DEF w
  <2>4. w.chunks = w.vecs BY <2>2, <2>3, ContentParts
  <2>5. QED BY <2>1, <2>3, <2>4 DEF Finds, w
<1>10. CASE Commit(j) \/ Rollback(j)
  <2>1. pc'[j] \in {"kept", "refused"} BY <1>0, <1>10 DEF Commit, Rollback, Goto
  <2>2. QED BY <2>1 DEF Finds
<1>11. CASE Fail(j)
  <2>1. pc[j] \in {"chunk", "vec", "commit"} /\ pc'[j] = "rollback" /\ View(p)' = v
    BY <1>0, <1>2, <1>11 DEF Fail, Goto, tx
  <2> HIDE DEF v
  <2>2. Agree(v) BY <1>0, <1>1, <2>1, FindsAgree
  <2>3. Agree(View(p)') BY <2>1, <2>2
  <2>4. QED BY <2>1, <2>3 DEF Finds
<1>12. QED BY <1>4, <1>5, <1>6, <1>7, <1>8, <1>9, <1>10, <1>11 DEF JobStep

LEMMA NextCalls ==
  ASSUME ChunkAssumption, Serial = Procs, StoreInv, [Next]_vars PROVE CallInv'
<1>1. CASE UNCHANGED vars
  <2>1. \A p : View(p)' = View(p) BY <1>1 DEF vars, tx, View
  <2>2. QED BY <1>1, <2>1 DEF vars, tx, StoreInv, CallInv, Finds
<1>2. ASSUME NEW j \in Jobs, JobStep(j) PROVE CallInv'
  BY <1>2, ActorFinds, OthersFind DEF CallInv
<1>3. ASSUME NEW p \in Procs, Close(p) PROVE CallInv'
  <2> SUFFICES ASSUME NEW i \in Jobs
               PROVE  /\ pc'[i] \in {"rowid", "vec", "commit"} => writer' = ProcOf[i]
                      /\ Finds(i, View(ProcOf[i]))'
    BY DEF CallInv
  <2>0. ProcOf[i] \in Procs /\ Nobody \notin Procs /\ last \in [Procs -> Nat]
    BY DEF ChunkAssumption, StoreInv, TypeOK
  <2>1. CASE ProcOf[i] = p
    <3>1. pc'[i] \in {"idle", "kept", "refused"}
      BY <1>3, <2>1 DEF Close, InProc, Active
    <3>2. QED BY <3>1 DEF Finds
  <2>2. CASE ProcOf[i] # p
    <3>1. pc'[i] = pc[i] /\ UNCHANGED <<db, at, row>> /\ last'[ProcOf[i]] = last[ProcOf[i]]
      BY <1>3, <2>0, <2>2 DEF Close, InProc
    <3>2. View(ProcOf[i])' = View(ProcOf[i]) /\ (writer = ProcOf[i] => writer' = ProcOf[i])
      BY <1>3, <2>0, <2>2 DEF Close, EndTx, tx, View
    <3>3. QED BY <3>1, <3>2 DEF StoreInv, CallInv, Finds
  <2>3. QED BY <2>1, <2>2
<1>4. QED BY <1>1, <1>2, <1>3 DEF Next
-----------------------------------------------------------------------------
(* The invariant holds.                                                    *)

LEMMA InitStoreInv == ASSUME ChunkAssumption, Init PROVE StoreInv
<1>0. /\ db = Empty /\ draft = Empty /\ writer = Nobody /\ last = [p \in Procs |-> 0]
      /\ pc = [j \in Jobs |-> "idle"]
      /\ at = [j \in Jobs |-> 1] /\ row = [j \in Jobs |-> 0]
  BY DEF Init
<1>1. \A b \in Batches : at[b] \in 1..Size[b] BY <1>0 DEF ChunkAssumption, Batches
<1>2. TypeOK BY <1>0, <1>1, EmptyTyped DEF TypeOK
<1>3. OneCall /\ LockInv BY <1>0 DEF OneCall, LockInv, Active
<1>4. PairsKept BY <1>0, ContentParts DEF PairsKept, Empty
<1>5. CallInv BY <1>0 DEF CallInv, Finds
<1>6. QED BY <1>2, <1>3, <1>4, <1>5 DEF StoreInv

LEMMA NextStoreInv ==
  ASSUME ChunkAssumption, Serial = Procs, StoreInv, [Next]_vars PROVE StoreInv'
BY NextTyped, NextOneCall, NextLock, NextPairs, NextCalls DEF StoreInv

LEMMA StoreInvariant == ASSUME Serial = Procs PROVE Spec => []StoreInv
<1>1. Init => StoreInv BY InitStoreInv, ChunkAssumption
<1>2. StoreInv /\ [Next]_vars => StoreInv' BY NextStoreInv, ChunkAssumption
<1>3. QED BY <1>1, <1>2, PTL DEF Spec

\* Types, and no row beyond the sequence of rowids, whatever fails or is closed.
THEOREM ChunksTypeCorrect == ASSUME Serial = Procs PROVE Spec => []TypeOK
<1>1. StoreInv => TypeOK BY DEF StoreInv
<1>2. QED BY <1>1, StoreInvariant, PTL

\* A stored text has its own vector, no search joins a text to the vector of
\* another, and no transaction outlives the calls of its connection.
THEOREM StoreStaysSound == ASSUME Serial = Procs PROVE Spec => []StoreIsSound
<1>1. StoreInv => StoreIsSound
  <2> SUFFICES ASSUME StoreInv PROVE StoreIsSound OBVIOUS
  <2>0. Size \in [Jobs -> Nat] /\ Nobody \notin Procs /\ pc \in [Jobs -> Pcs]
    BY ChunkAssumption DEF ChunkAssumption, StoreInv, TypeOK, Pcs
  <2>1. ASSUME NEW p \in Procs PROVE Agree(View(p))
    <3>1. CASE \E j \in InProc(p) : Active(j)
      <4>1. PICK j \in Jobs : ProcOf[j] = p /\ Active(j) BY <3>1 DEF InProc
      <4>2. Finds(j, View(p)) BY <4>1 DEF StoreInv, CallInv
      <4>3. pc[j] \in {"chunk", "rowid", "vec", "commit", "rollback"}
        BY <2>0, <4>1 DEF Active, Pcs
      <4>4. QED BY <2>0, <4>2, <4>3, FindsAgree DEF StoreInv
    <3>2. CASE ~\E j \in InProc(p) : Active(j)
      <4>1. View(p) = db BY <2>0, <3>2, QuietView
      <4>2. QED BY <4>1 DEF StoreInv, PairsKept, Agree
    <3>3. QED BY <3>1, <3>2
  <2>2. HitsMatch BY <2>1 DEF HitsMatch, Hits, Agree
  <2>3. LockIsUsed BY DEF StoreInv, LockInv, LockIsUsed, InProc
  <2>4. QED BY <2>2, <2>3 DEF StoreInv, StoreIsSound
<1>2. QED BY <1>1, StoreInvariant, PTL
-----------------------------------------------------------------------------
(* What a call has put into the store so far: the second invariant, which  *)
(* the refinement of TextShelf needs.                                      *)

Texts(f) == {f[r] : r \in DOMAIN f}
OneEach(f) == \A r, s \in DOMAIN f : f[r] = f[s] => r = s

\* Content v is what is committed and the first n texts of call j.
Grown(v, j, n) ==
    OneEach(v.chunks) /\ Texts(v.chunks) = Texts(db.chunks) \cup ({j} \X (1..n))

Adds(j, v) ==
    /\ Size[j] > 0 /\ pc[j] = "chunk" => Grown(v, j, at[j] - 1)
    /\ Size[j] > 0 /\ pc[j] \in {"rowid", "vec"} => Grown(v, j, at[j])
    /\ Size[j] > 0 /\ pc[j] = "commit" => Grown(v, j, Size[j])
    /\ Size[j] = 0 /\ pc[j] = "chunk" => v.chunks = db.chunks
    /\ Size[j] = 0 /\ pc[j] \in {"vec", "commit"} => v.chunks = Without(db.chunks, row[j])

Fresh == \A b \in Batches : pc[b] # "kept" => Texts(db.chunks) \cap ItemsOf[b] = {}
FromOne ==
    \A b \in Batches :
        pc[b] = "idle" \/ (pc[b] = "chunk" /\ writer # ProcOf[b]) => at[b] = 1

KeptInv ==
    OneEach(db.chunks) /\ Fresh /\ FromOne /\ \A j \in Jobs : Adds(j, View(ProcOf[j]))

LEMMA WithText ==
  ASSUME NEW f, NEW r, NEW text, r \notin DOMAIN f, text \notin Texts(f), OneEach(f)
  PROVE  OneEach(With(f, r, text)) /\ Texts(With(f, r, text)) = Texts(f) \cup {text}
<1> DEFINE g == With(f, r, text)
<1>1. /\ DOMAIN g = DOMAIN f \cup {r} /\ g[r] = text
      /\ \A s \in DOMAIN f : g[s] = f[s]
  BY DEF With
<1>2. \A s \in DOMAIN f : f[s] # text BY DEF Texts
<1> HIDE DEF g
<1>3. OneEach(g) BY <1>1, <1>2 DEF OneEach
<1>4. Texts(g) = Texts(f) \cup {text}
  <2>1. Texts(g) \subseteq Texts(f) \cup {text} BY <1>1 DEF Texts
  <2>2. Texts(f) \cup {text} \subseteq Texts(g) BY <1>1 DEF Texts
  <2>3. QED BY <2>1, <2>2
<1>5. QED BY <1>3, <1>4 DEF g

LEMMA WithoutText ==
  ASSUME NEW f, NEW r, OneEach(f)
  PROVE  /\ OneEach(Without(f, r)) /\ Texts(Without(f, r)) \subseteq Texts(f)
         /\ r \in DOMAIN f => Texts(Without(f, r)) = Texts(f) \ {f[r]}
         /\ r \notin DOMAIN f => Texts(Without(f, r)) = Texts(f)
<1> DEFINE g == Without(f, r)
<1>1. DOMAIN g = DOMAIN f \ {r} /\ \A s \in DOMAIN g : g[s] = f[s] BY DEF Without
<1> HIDE DEF g
<1>2. OneEach(g) /\ Texts(g) \subseteq Texts(f) BY <1>1 DEF OneEach, Texts
<1>3. r \in DOMAIN f => Texts(g) = Texts(f) \ {f[r]}
  <2>1. \A s \in DOMAIN f : s # r => s \in DOMAIN g /\ g[s] = f[s] BY <1>1
  <2>2. r \in DOMAIN f => \A s \in DOMAIN g : f[s] # f[r] BY <1>1 DEF OneEach
  <2>3. QED BY <1>1, <2>1, <2>2 DEF Texts
<1>4. r \notin DOMAIN f => Texts(g) = Texts(f) BY <1>1 DEF Texts
<1>5. QED BY <1>2, <1>3, <1>4 DEF g

\* The commit of a batch adds its texts, the commit of a delete takes one at most.
LEMMA CommitTexts ==
  ASSUME ChunkAssumption, StoreInv, KeptInv, NEW j \in Jobs, Commit(j)
  PROVE  /\ OneEach(db'.chunks)
         /\ j \in Batches => Texts(db'.chunks) = Texts(db.chunks) \cup ItemsOf[j]
         /\ j \notin Batches =>
               \/ Texts(db'.chunks) = Texts(db.chunks)
               \/ \E text \in Texts(db.chunks) : Texts(db'.chunks) = Texts(db.chunks) \ {text}
<1>1. pc[j] = "commit" /\ db' = View(ProcOf[j]) /\ Size[j] \in Nat
  BY DEF Commit, ChunkAssumption
<1>2. Adds(j, db') BY <1>1 DEF KeptInv
<1>3. CASE Size[j] > 0
  <2>1. j \in Batches /\ ItemsOf[j] = {j} \X (1..Size[j]) BY <1>3 DEF Batches, ItemsOf
  <2>2. Grown(db', j, Size[j]) BY <1>1, <1>2, <1>3 DEF Adds
  <2>3. QED BY <2>1, <2>2 DEF Grown
<1>4. CASE Size[j] = 0
  <2>1. j \notin Batches BY <1>4 DEF Batches
  <2>2. db'.chunks = Without(db.chunks, row[j]) BY <1>1, <1>2, <1>4 DEF Adds
  <2>3. OneEach(db.chunks) BY DEF KeptInv
  <2>4. row[j] \in DOMAIN db.chunks => db.chunks[row[j]] \in Texts(db.chunks) BY DEF Texts
  <2>5. QED BY <2>1, <2>2, <2>3, <2>4, WithoutText
<1>5. QED BY <1>1, <1>3, <1>4

LEMMA NextFresh ==
  ASSUME ChunkAssumption, StoreInv, KeptInv, [Next]_vars PROVE OneEach(db.chunks)' /\ Fresh'
<1>0. pc \in [Jobs -> Pcs] BY DEF StoreInv, TypeOK, Pcs
<1>1. ASSUME UNCHANGED db, \A b \in Batches : pc[b] = "kept" => pc'[b] = "kept"
      PROVE  OneEach(db.chunks)' /\ Fresh'
  BY <1>1 DEF KeptInv, Fresh
<1>2. CASE UNCHANGED vars BY <1>1, <1>2 DEF vars
<1>3. ASSUME NEW j \in Jobs, JobStep(j) PROVE OneEach(db.chunks)' /\ Fresh'
  <2>1. (\E l : pc' = [pc EXCEPT ![j] = l]) /\ pc[j] # "kept"
    BY <1>3 DEF JobStep, Insert, InsertChunk, ReadRowid, InsertVec, Delete, DeleteChunk,
                DeleteVec, Commit, Fail, Rollback, Goto, Begin
  <2>2. \A b \in Batches : pc[b] = "kept" => pc'[b] = "kept" BY <1>0, <2>1 DEF Batches
  <2>3. CASE UNCHANGED db BY <1>1, <2>2, <2>3
  <2>4. CASE Commit(j)
    <3>1. pc'[j] = "kept" /\ \A b \in Batches : b # j => pc'[b] = pc[b]
      BY <1>0, <2>4 DEF Commit, Goto, Batches
    <3>2. CASE j \in Batches
      <4>1. Texts(db'.chunks) = Texts(db.chunks) \cup ItemsOf[j] BY <2>4, <3>2, CommitTexts
      <4>2. \A b \in Batches : b # j => ItemsOf[b] \cap ItemsOf[j] = {}
        BY <3>2 DEF ItemsOf
      <4>3. Fresh' BY <3>1, <4>1, <4>2 DEF KeptInv, Fresh
      <4>4. QED BY <2>4, <4>3, CommitTexts
    <3>3. CASE j \notin Batches
      <4>1. Texts(db'.chunks) \subseteq Texts(db.chunks) BY <2>4, <3>3, CommitTexts
      <4>2. Fresh' BY <3>1, <4>1 DEF KeptInv, Fresh
      <4>3. QED BY <2>4, <4>2, CommitTexts
    <3>4. QED BY <3>2, <3>3
  <2>5. QED BY <1>3, <2>3, <2>4, StepStore
<1>4. ASSUME NEW p \in Procs, Close(p) PROVE OneEach(db.chunks)' /\ Fresh'
  <2>1. \A b \in Batches : pc[b] = "kept" => pc'[b] = "kept"
    BY <1>4 DEF Close, InProc, Active, Batches
  <2>2. QED BY <1>1, <1>4, <2>1 DEF Close
<1>5. QED BY <1>2, <1>3, <1>4 DEF Next

LEMMA OthersAdd ==
  ASSUME ChunkAssumption, Serial = Procs, StoreInv, KeptInv, NEW j \in Jobs, JobStep(j),
         NEW i \in Jobs, i # j
  PROVE  /\ i \in Batches /\ (pc'[i] = "idle" \/ (pc'[i] = "chunk" /\ writer' # ProcOf[i]))
               => at'[i] = 1
         /\ Adds(i, View(ProcOf[i]))'
<1> DEFINE q == ProcOf[i]
<1>0. q \in Procs /\ ProcOf[j] \in Procs /\ Nobody \notin Procs BY DEF ChunkAssumption
<1>1. pc'[i] = pc[i] /\ at'[i] = at[i] /\ row'[i] = row[i] BY StepIsAlone
<1>2. CASE q = ProcOf[j]
  <2>1. pc'[i] \in {"idle", "kept", "refused"} BY <1>1, <1>2, StepIsAlone DEF Active
  <2>2. QED BY <1>1, <2>1 DEF Adds, KeptInv, FromOne
<1>3. CASE q # ProcOf[j]
  <2>1. /\ pc[i] \in {"rowid", "vec", "commit"} => writer = q
        /\ Adds(i, View(q))
        /\ i \in Batches /\ (pc[i] = "idle" \/ (pc[i] = "chunk" /\ writer # q)) => at[i] = 1
    BY DEF StoreInv, CallInv, KeptInv, FromOne
  <2>2. CASE UNCHANGED db
    <3>1. View(q)' = View(q) /\ (writer = q => writer' = q)
      BY <1>0, <1>3, <2>2, OtherViews DEF View, Commit, EndTx
    <3>2. QED BY <1>1, <2>1, <2>2, <3>1 DEF Adds, Grown
  <2>3. CASE Commit(j)
    <3>1. writer = ProcOf[j] BY <2>3 DEF Commit, StoreInv, CallInv
    <3>2. writer' = Nobody BY <2>3, <3>1 DEF Commit, EndTx
    <3>3. View(q)' = db' BY <1>0, <3>2 DEF View
    <3>4. OneEach(db'.chunks) BY <2>3, CommitTexts
    <3>5. Size[i] > 0 /\ pc[i] = "chunk" => at[i] = 1 BY <1>3, <2>1, <3>1 DEF Batches
    <3>6. Grown(db, i, 0)' BY <3>4 DEF Grown
    <3>7. QED BY <1>1, <1>3, <2>1, <3>1, <3>3, <3>5, <3>6 DEF Adds
  <2>4. QED BY <2>2, <2>3, StepStore
<1>4. QED BY <1>2, <1>3

LEMMA ActorAdds ==
  ASSUME ChunkAssumption, Serial = Procs, StoreInv, KeptInv, NEW j \in Jobs, JobStep(j)
  PROVE  /\ j \in Batches /\ (pc'[j] = "idle" \/ (pc'[j] = "chunk" /\ writer' # ProcOf[j]))
               => at'[j] = 1
         /\ Adds(j, View(ProcOf[j]))'
<1> TypeOK BY DEF StoreInv
<1> DEFINE p == ProcOf[j]
<1> DEFINE v == View(p)
<1>0. /\ p \in Procs /\ Nobody \notin Procs /\ Size[j] \in Nat
      /\ pc \in [Jobs -> Pcs] /\ at \in [Jobs -> Nat] /\ row \in [Jobs -> Nat]
      /\ at[j] \in Nat
  BY DEF ChunkAssumption, TypeOK, Pcs
<1>1. /\ Adds(j, v)
      /\ j \in Batches /\ (pc[j] = "idle" \/ (pc[j] = "chunk" /\ writer # p)) => at[j] = 1
  BY DEF KeptInv, FromOne
<1>2. ASSUME UNCHANGED <<db, tx>> PROVE View(p)' = v BY <1>2 DEF View, tx
<1>3. ASSUME NEW content, Write(p, content) PROVE writer' = p /\ View(p)' = content
  BY <1>3 DEF Write, View
<1>4. CASE Insert(j) \/ \E r \in DOMAIN db.chunks : Delete(j, r)
  <2>1. /\ pc[j] = "idle" /\ pc'[j] = "chunk" /\ View(p)' = v /\ db' = db /\ at' = at
        /\ Size[j] > 0 \/ Size[j] = 0
    BY <1>0, <1>2, <1>4 DEF Insert, Delete, Begin, Goto
  <2>2. \A i \in InProc(p) : ~Active(i) BY <1>0, <1>4 DEF Insert, Delete, Begin
  <2>3. v = db BY <1>0, <2>2, QuietView
  <2>4. j \in Batches => at'[j] = 1 BY <1>1, <2>1
  <2>5. Size[j] > 0 => Grown(v, j, at[j] - 1)
    <3>1. Size[j] > 0 => at[j] - 1 = 0 BY <1>1, <2>1 DEF Batches
    <3>2. Grown(db, j, 0) BY DEF Grown, KeptInv
    <3>3. QED BY <2>3, <3>1, <3>2
  <2> HIDE DEF v
  <2>6. Size[j] > 0 => Grown(View(p)', j, at'[j] - 1) BY <2>1, <2>5 DEF Grown
  <2>7. QED BY <2>1, <2>3, <2>4, <2>6 DEF Adds, Grown
<1>5. CASE InsertChunk(j)
  <2> DEFINE r == v.seq + 1
  <2> DEFINE text == <<j, at[j]>>
  <2>1. /\ pc[j] = "chunk" /\ Size[j] > 0
        /\ Write(p, Content(With(v.chunks, r, text), v.vecs, r))
        /\ pc'[j] = "rowid" /\ at' = at /\ db' = db
    BY <1>0, <1>5 DEF InsertChunk, Goto
  <2>2. Grown(v, j, at[j] - 1) BY <1>1, <2>1 DEF Adds
  <2>3. r \notin DOMAIN v.chunks BY ViewTyped DEF IsContent
  <2>4. j \in Batches /\ at[j] \in 1..Size[j] BY <2>1, TextTyped
  <2>5. text \notin Texts(v.chunks)
    <3>1. text \in ItemsOf[j] BY <2>4 DEF ItemsOf
    <3>2. text \notin Texts(db.chunks) BY <2>1, <2>4, <3>1 DEF KeptInv, Fresh
    <3>3. text \notin {j} \X (1..(at[j] - 1)) BY <1>0
    <3>4. QED BY <2>2, <3>2, <3>3 DEF Grown
  <2>6. {j} \X (1..at[j]) = ({j} \X (1..(at[j] - 1))) \cup {text} BY <2>4
  <2> HIDE DEF r, v, text
  <2> DEFINE w == View(p)'
  <2>7. w.chunks = With(v.chunks, r, text) /\ writer' = p
    <3>1. w = Content(With(v.chunks, r, text), v.vecs, r) /\ writer' = p BY <1>3, <2>1
    <3>2. QED BY <3>1, ContentParts
  <2> HIDE DEF w
  <2>8. OneEach(w.chunks) /\ Texts(w.chunks) = Texts(v.chunks) \cup {text}
    BY <2>2, <2>3, <2>5, <2>7, WithText DEF Grown
  <2>9. Grown(w, j, at[j]) BY <2>2, <2>6, <2>8 DEF Grown
  <2>10. QED BY <2>1, <2>9 DEF Adds, Grown, w
<1>6. CASE ReadRowid(j)
  <2>1. pc[j] = "rowid" /\ pc'[j] = "vec" /\ at' = at /\ db' = db /\ View(p)' = v
    BY <1>0, <1>2, <1>6 DEF ReadRowid, Goto, tx
  <2>2. Size[j] > 0 BY <2>1 DEF StoreInv, CallInv, Finds
  <2> HIDE DEF v
  <2>3. QED BY <1>1, <2>1, <2>2 DEF Adds, Grown
<1>7. CASE InsertVec(j)
  <2>1. /\ pc[j] = "vec" /\ Size[j] > 0 /\ db' = db
        /\ Write(p, Content(v.chunks, With(v.vecs, row[j], <<j, at[j]>>), v.seq))
    BY <1>0, <1>7 DEF InsertVec
  <2>2. Grown(v, j, at[j]) BY <1>1, <2>1 DEF Adds
  <2>3. at[j] \in 1..Size[j] BY <2>1, TextTyped
  <2>4. \/ pc'[j] = "chunk" /\ at'[j] - 1 = at[j]
        \/ pc'[j] = "commit" /\ at[j] = Size[j]
    <3>1. CASE at[j] < Size[j]
      <4>1. pc'[j] = "chunk" /\ at'[j] = at[j] + 1 BY <1>0, <1>7, <3>1 DEF InsertVec, Goto
      <4>2. QED BY <1>0, <4>1
    <3>2. CASE ~(at[j] < Size[j])
      <4>1. pc'[j] = "commit" BY <1>0, <1>7, <3>2 DEF InsertVec, Goto
      <4>2. QED BY <1>0, <2>3, <3>2, <4>1
    <3>3. QED BY <3>1, <3>2
  <2> HIDE DEF v
  <2> DEFINE w == View(p)'
  <2>5. w.chunks = v.chunks /\ writer' = p
    <3>1. w = Content(v.chunks, With(v.vecs, row[j], <<j, at[j]>>), v.seq) /\ writer' = p
      BY <1>3, <2>1
    <3>2. QED BY <3>1, ContentParts
  <2> HIDE DEF w
  <2>6. Grown(w, j, at[j]) BY <2>2, <2>5 DEF Grown
  <2>7. QED BY <2>1, <2>4, <2>5, <2>6 DEF Adds, Grown, w
<1>8. CASE DeleteChunk(j)
  <2>1. /\ pc[j] = "chunk" /\ Size[j] = 0 /\ pc'[j] = "vec" /\ row' = row /\ db' = db
        /\ Write(p, Content(Without(v.chunks, row[j]), v.vecs, v.seq))
    BY <1>0, <1>8 DEF DeleteChunk, Goto
  <2>2. v.chunks = db.chunks BY <1>1, <2>1 DEF Adds
  <2> HIDE DEF v
  <2>3. View(p)'.chunks = Without(db.chunks, row[j]) BY <1>3, <2>1, <2>2, ContentParts
  <2>4. QED BY <2>1, <2>3 DEF Adds
<1>9. CASE DeleteVec(j)
  <2>1. /\ pc[j] = "vec" /\ Size[j] = 0 /\ pc'[j] = "commit" /\ row' = row /\ db' = db
        /\ Write(p, Content(v.chunks, Without(v.vecs, row[j]), v.seq))
    BY <1>0, <1>9 DEF DeleteVec, Goto
  <2>2. v.chunks = Without(db.chunks, row[j]) BY <1>1, <2>1 DEF Adds
  <2> HIDE DEF v
  <2>3. View(p)'.chunks = Without(db.chunks, row[j]) BY <1>3, <2>1, <2>2, ContentParts
  <2>4. QED BY <2>1, <2>3 DEF Adds
<1>10. CASE Commit(j) \/ Rollback(j) \/ Fail(j)
  <2>1. pc'[j] \in {"kept", "refused", "rollback"}
    BY <1>0, <1>10 DEF Commit, Rollback, Fail, Goto
  <2>2. QED BY <2>1 DEF Adds
<1>11. QED BY <1>4, <1>5, <1>6, <1>7, <1>8, <1>9, <1>10 DEF JobStep

LEMMA NextKept ==
  ASSUME ChunkAssumption, Serial = Procs, StoreInv, KeptInv, [Next]_vars PROVE KeptInv'
<1>1. OneEach(db.chunks)' /\ Fresh' BY NextFresh
<1>2. CASE UNCHANGED vars
  <2>1. \A p : View(p)' = View(p) BY <1>2 DEF vars, tx, View
  <2>2. FromOne' BY <1>2 DEF vars, tx, KeptInv, FromOne
  <2>3. QED BY <1>1, <1>2, <2>1, <2>2 DEF vars, KeptInv, Adds, Grown
<1>3. ASSUME NEW j \in Jobs, JobStep(j) PROVE KeptInv'
  <2>1. FromOne' BY <1>3, ActorAdds, OthersAdd DEF FromOne, Batches
  <2>2. \A i \in Jobs : Adds(i, View(ProcOf[i]))' BY <1>3, ActorAdds, OthersAdd
  <2>3. QED BY <1>1, <2>1, <2>2 DEF KeptInv
<1>4. ASSUME NEW p \in Procs, Close(p) PROVE KeptInv'
  <2>1. ASSUME NEW i \in Jobs
        PROVE  /\ i \in Batches /\ (pc'[i] = "idle" \/ (pc'[i] = "chunk" /\ writer' # ProcOf[i]))
                     => at'[i] = 1
               /\ Adds(i, View(ProcOf[i]))'
    <3>0. ProcOf[i] \in Procs /\ Nobody \notin Procs /\ UNCHANGED <<db, at, row>>
      BY <1>4 DEF ChunkAssumption, Close
    <3>1. CASE ProcOf[i] = p
      <4>1. pc'[i] \in {"idle", "kept", "refused"} /\ (pc'[i] = "idle" => pc[i] = "idle")
        BY <1>4, <3>1 DEF Close, InProc, Active
      <4>2. QED BY <3>0, <4>1 DEF Adds, KeptInv, FromOne
    <3>2. CASE ProcOf[i] # p
      <4>1. pc'[i] = pc[i] BY <1>4, <3>2 DEF Close, InProc
      <4>2. View(ProcOf[i])' = View(ProcOf[i]) /\ (writer = ProcOf[i] => writer' = ProcOf[i])
        BY <1>4, <3>0, <3>2 DEF Close, EndTx, tx, View
      <4>3. QED BY <3>0, <4>1, <4>2 DEF KeptInv, FromOne, Adds, Grown
    <3>3. QED BY <3>1, <3>2
  <2>2. FromOne' BY <2>1 DEF FromOne, Batches
  <2>3. QED BY <1>1, <2>1, <2>2 DEF KeptInv
<1>5. QED BY <1>2, <1>3, <1>4 DEF Next

-----------------------------------------------------------------------------
(* The refinement.                                                         *)

LEMMA FoundTexts == ASSUME PairsKept PROVE Found = Texts(db.chunks)
BY DEF PairsKept, Found, Texts

LEMMA InitPromise == ASSUME ChunkAssumption, Init PROVE Promise!InitShelf
<1>1. Found = {} BY ContentParts DEF Init, Found, Empty
<1>2. FateOf = [b \in Batches |-> "open"] BY DEF Init, FateOf, Batches
<1>3. QED BY <1>1, <1>2 DEF Promise!InitShelf

LEMMA InitKept == ASSUME ChunkAssumption, Init PROVE KeptInv
<1>1. DOMAIN db.chunks = {} BY ContentParts DEF Init, Empty
<1>2. OneEach(db.chunks) /\ Fresh BY <1>1 DEF OneEach, Fresh, Texts
<1>3. FromOne BY DEF Init, FromOne, Batches
<1>4. \A j \in Jobs : pc[j] = "idle" BY DEF Init
<1>5. \A j \in Jobs : Adds(j, View(ProcOf[j])) BY <1>4 DEF Adds
<1>6. QED BY <1>2, <1>3, <1>5 DEF KeptInv

LEMMA NextPromise ==
  ASSUME ChunkAssumption, Serial = Procs, StoreInv, KeptInv, [Next]_vars
  PROVE  [Promise!NextShelf]_(Promise!shelfVars)
<1> USE DEF Promise!shelfVars
<1>0. /\ pc \in [Jobs -> Pcs] /\ Found = Texts(db.chunks) /\ Found' = Texts(db'.chunks)
  <2>1. PairsKept' BY NextPairs
  <2>2. Found' = Texts(db.chunks)' BY <2>1 DEF PairsKept, Found, Texts
  <2>3. QED BY <2>2, FoundTexts DEF StoreInv, TypeOK, Pcs
<1>1. CASE UNCHANGED vars BY <1>1 DEF vars, Found, FateOf
<1>2. ASSUME NEW j \in Jobs, JobStep(j) PROVE [Promise!NextShelf]_(Promise!shelfVars)
  <2>1. CASE Commit(j)
    <3>1. pc[j] = "commit" /\ pc' = [pc EXCEPT ![j] = "kept"] BY <2>1 DEF Commit, Goto
    <3>2. CASE j \in Batches
      <4>1. Found' = Found \cup ItemsOf[j] BY <1>0, <2>1, <3>2, CommitTexts
      <4>2. FateOf[j] = "open" /\ FateOf' = [FateOf EXCEPT ![j] = "kept"]
        BY <1>0, <3>1, <3>2 DEF FateOf, Batches
      <4>3. QED BY <3>2, <4>1, <4>2 DEF Promise!NextShelf, Promise!Keep
    <3>3. CASE j \notin Batches
      <4>1. FateOf' = FateOf BY <1>0, <3>1, <3>3 DEF FateOf, Batches
      <4>2. Found' = Found \/ \E text \in Found : Found' = Found \ {text}
        BY <1>0, <2>1, <3>3, CommitTexts
      <4>3. QED BY <4>1, <4>2 DEF Promise!NextShelf, Promise!Remove
    <3>4. QED BY <3>2, <3>3
  <2>2. CASE Rollback(j)
    <3>1. pc[j] = "rollback" /\ pc' = [pc EXCEPT ![j] = "refused"] /\ db' = db
      BY <2>2 DEF Rollback, Goto
    <3>2. Found' = Found BY <1>0, <3>1
    <3>3. CASE j \in Batches
      <4>1. /\ \A b \in {j} : FateOf[b] = "open"
            /\ FateOf' = [b \in Batches |-> IF b \in {j} THEN "refused" ELSE FateOf[b]]
        BY <1>0, <3>1, <3>3 DEF FateOf, Batches
      <4>2. {j} \in SUBSET Batches BY <3>3
      <4>3. Promise!Refuse({j}) BY <3>2, <4>1 DEF Promise!Refuse
      <4>4. QED BY <4>2, <4>3 DEF Promise!NextShelf
    <3>4. CASE j \notin Batches
      <4>1. FateOf' = FateOf BY <1>0, <3>1, <3>4 DEF FateOf, Batches
      <4>2. QED BY <3>2, <4>1
    <3>5. QED BY <3>3, <3>4
  <2>3. CASE ~Commit(j) /\ ~Rollback(j)
    <3>1. db' = db BY <1>2, <2>3, StepStore
    <3>2. \E l : pc' = [pc EXCEPT ![j] = l] /\ l \notin {"kept", "refused"}
      BY <1>2, <2>3 DEF JobStep, Insert, InsertChunk, ReadRowid, InsertVec, Delete,
                        DeleteChunk, DeleteVec, Fail, Goto
    <3>3. pc[j] \notin {"kept", "refused"}
      BY <1>2 DEF JobStep, Insert, InsertChunk, ReadRowid, InsertVec, Delete, DeleteChunk,
                  DeleteVec, Commit, Fail, Rollback, Begin
    <3>4. FateOf' = FateOf BY <1>0, <3>2, <3>3 DEF FateOf, Batches
    <3>5. QED BY <1>0, <3>1, <3>4
  <2>4. QED BY <2>1, <2>2, <2>3
<1>3. ASSUME NEW p \in Procs, Close(p) PROVE [Promise!NextShelf]_(Promise!shelfVars)
  <2> DEFINE bs == {b \in Batches : ProcOf[b] = p /\ Active(b)}
  <2>1. Found' = Found BY <1>0, <1>3 DEF Close
  <2>2. pc' = [j \in Jobs |-> IF ProcOf[j] = p /\ Active(j) THEN "refused" ELSE pc[j]]
    BY <1>3 DEF Close, InProc
  <2>3. FateOf' = [b \in Batches |-> IF b \in bs THEN "refused" ELSE FateOf[b]]
    BY <2>2 DEF FateOf, Batches
  <2>4. \A b \in bs : FateOf[b] = "open" BY DEF FateOf, Active
  <2>5. bs \in SUBSET Batches OBVIOUS
  <2>6. Promise!Refuse(bs) BY <2>1, <2>3, <2>4 DEF Promise!Refuse
  <2>7. QED BY <2>5, <2>6 DEF Promise!NextShelf
<1>4. QED BY <1>1, <1>2, <1>3 DEF Next

\* A batch is stored whole at its commit or not at all, and its texts can be found
\* from then on until they are deleted, whatever fails or is closed.
THEOREM StoreKeepsPromise == ASSUME Serial = Procs PROVE Spec => PromiseKept
<1>1. Init => StoreInv /\ KeptInv /\ Promise!InitShelf
  BY InitStoreInv, InitKept, InitPromise, ChunkAssumption
<1>2. StoreInv /\ KeptInv /\ [Next]_vars
         => (StoreInv /\ KeptInv)' /\ [Promise!NextShelf]_(Promise!shelfVars)
  BY NextStoreInv, NextKept, NextPromise, ChunkAssumption
<1>3. QED BY <1>1, <1>2, PTL DEF Spec, PromiseKept, Promise!Shelf
=============================================================================
