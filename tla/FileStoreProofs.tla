-------------------------- MODULE FileStoreProofs --------------------------
(***************************************************************************)
(* Theorems about FileStore for every set of users, files, paths and calls *)
(* and every number of restarts: types, what a tool reads under an         *)
(* identifier, identifiers of the journal, and who removes a file.         *)
(***************************************************************************)
EXTENDS FileStore, TLAPS

-----------------------------------------------------------------------------
(* The steps one by one: the handlers only arrange them for each kind.      *)

Kinds == {None, "document", "photo", "voice", "max file", "max media"}

Begins(i) == FetchBegin(i) /\ \E k \in Kinds : kind' = [kind EXCEPT ![i] = k]
Brings(i) ==
    \/ Fetch(i) \/ Hear(i) \/ Answer(i)
    \/ i \in Uploads /\ Decline(i)
Names(i) ==
    \/ NameUpload(i, "fetched") \/ NameUpload(i, "heard") \/ NameFetched(i)
Archives(u) == NewStart(u) \/ NewFailed(u) \/ NewArchived(u) \/ NewClose(u)

LEMMA KindUntouched == ASSUME TypeOK, NEW i, UNCHANGED kind PROVE
    \E k \in Kinds : kind' = [kind EXCEPT ![i] = k]
<1>1. CASE i \in Items
  <2>1. kind[i] \in Kinds BY <1>1 DEF TypeOK, Kinds
  <2>2. kind' = [kind EXCEPT ![i] = kind[i]] BY <1>1 DEF TypeOK
  <2>3. QED BY <2>1, <2>2
<1>2. CASE i \notin Items
  <2>1. kind' = [kind EXCEPT ![i] = None] BY <1>2 DEF TypeOK
  <2>2. QED BY <2>1 DEF Kinds
<1>3. QED BY <1>1, <1>2

LEMMA StepsOfNext ==
  ASSUME TypeOK, Next
  PROVE  \/ \E i \in Items : Begins(i) \/ Brings(i) \/ Names(i) \/ JournalUpload(i)
         \/ \E c \in Calls : Read(c) \/ \E k \in Items : Ask(c, k)
         \/ \E u \in Users : Talk(u) \/ Reset(u) \/ Archives(u)
         \/ \E p \in Paths : Age(p)
         \/ Restart
<1>1. ASSUME NEW i \in Uploads,
             HandleDocument(i) \/ HandlePhoto(i) \/ HandleVoice(i) \/ HandleAttachments(i)
      PROVE  i \in Items /\ (Begins(i) \/ Brings(i) \/ Names(i) \/ JournalUpload(i))
  BY <1>1 DEF HandleDocument, HandlePhoto, HandleVoice, HandleAttachments, Take, Reply,
              Begins, Brings, Names, Kinds, Items
<1>2. ASSUME NEW i \in Fetches, ToolFetches(i)
      PROVE  i \in Items /\ (Begins(i) \/ Brings(i) \/ Names(i))
  BY <1>2, KindUntouched DEF ToolFetches, Begins, Brings, Names, Items
<1>3. QED BY <1>1, <1>2 DEF Next, Archives

-----------------------------------------------------------------------------
(* The invariant.  Identifiers keep to their paths in every place that holds *)
(* them, and a file that the agent was told of and that nobody else writes   *)
(* is whole or gone.                                                         *)

MapsAgree ==
    /\ \A k \in Items : idToPath[k] \in {None, PathOf[k]}
    /\ \A p \in Paths : pathToId[p] # None => PathOf[pathToId[p]] = p

RowsAgree == \A k \in Items, p \in Paths : <<k, p>> \in rows => p = PathOf[k]

DiskAgrees == \A p \in Paths : disk[p] \in Items => PathOf[disk[p]] = p

\* Nobody is told an identifier before the file is named.
GivenAgrees ==
    \A i \in Items :
        /\ given[i] # None => PathOf[given[i]] = PathOf[i]
        /\ stage[i] \in {"idle", "fetching", "fetched", "heard"} => given[i] = None
        /\ stage[i] = "named" => given[i] # None

WholeOrGone ==
    \A i \in Items :
        Alone(i) /\ (given[i] # None \/ stage[i] \in {"fetched", "heard"}) =>
            disk[PathOf[i]] \in {i, Absent}

CallsAgree ==
    \A c \in Calls : call[c].pc = "reading" =>
        /\ call[c].id \in Items /\ idToPath[call[c].id] = PathOf[call[c].id]
        /\ \E i \in Items : given[i] = call[c].id

FilesInv ==
    /\ TypeOK /\ MapsAgree /\ RowsAgree /\ DiskAgrees /\ GivenAgrees
    /\ WholeOrGone /\ CallsAgree /\ ReadsWhatWasNamed

-----------------------------------------------------------------------------
(* Types.                                                                  *)

LEMMA ResolveTyped ==
  ASSUME FilesInv, NEW k \in Items PROVE Resolve(k) \in {None, PathOf[k]}
<1>1. CASE idToPath[k] # None BY <1>1 DEF Resolve, FilesInv, MapsAgree
<1>2. CASE idToPath[k] = None /\ \E p \in Paths : Journaled(k, p)
  <2> DEFINE q == CHOOSE p \in Paths : Journaled(k, p)
  <2>1. q \in Paths /\ Journaled(k, q) BY <1>2
  <2>2. Resolve(k) = q BY <1>2 DEF Resolve
  <2>3. QED BY <2>1, <2>2 DEF Journaled, FilesInv, RowsAgree
<1>3. CASE idToPath[k] = None /\ ~(\E p \in Paths : Journaled(k, p)) BY <1>3 DEF Resolve
<1>4. QED BY <1>1, <1>2, <1>3

LEMMA IdForAgrees ==
  ASSUME FilesAssumption, FilesInv, NEW i \in Items
  PROVE  IdFor(i) \in Items /\ IdFor(i) # None /\ PathOf[IdFor(i)] = PathOf[i]
<1>1. PathOf[i] \in Paths /\ i # None BY DEF FilesAssumption
<1>2. CASE pathToId[PathOf[i]] # None
  <2>1. pathToId[PathOf[i]] \in Items BY <1>1, <1>2 DEF FilesInv, TypeOK
  <2>2. QED BY <1>1, <1>2, <2>1 DEF IdFor, FilesInv, MapsAgree
<1>3. CASE pathToId[PathOf[i]] = None BY <1>1, <1>3 DEF IdFor
<1>4. QED BY <1>2, <1>3

LEMMA RestartMaps ==
  ASSUME FilesInv, Restart
  PROVE  /\ \A k \in Items : idToPath'[k] \in Paths \cup {None} /\ idToPath'[k] \in {None, PathOf[k]}
         /\ \A p \in Paths : pathToId'[p] \in Items \cup {None}
                             /\ (pathToId'[p] # None => PathOf[pathToId'[p]] = p)
<1>1. ASSUME NEW k \in Items
      PROVE  idToPath'[k] \in Paths \cup {None} /\ idToPath'[k] \in {None, PathOf[k]}
  <2>1. CASE \E p \in Paths : Journaled(k, p)
    <3> DEFINE q == CHOOSE p \in Paths : Journaled(k, p)
    <3>1. q \in Paths /\ Journaled(k, q) BY <2>1
    <3>2. idToPath'[k] = q BY <2>1 DEF Restart
    <3>3. QED BY <3>1, <3>2 DEF Journaled, FilesInv, RowsAgree
  <2>2. CASE ~(\E p \in Paths : Journaled(k, p)) BY <2>2 DEF Restart
  <2>3. QED BY <2>1, <2>2
<1>2. ASSUME NEW p \in Paths
      PROVE  /\ pathToId'[p] \in Items \cup {None}
             /\ pathToId'[p] # None => PathOf[pathToId'[p]] = p
  <2>1. CASE \E k \in Items : Journaled(k, p)
    <3> DEFINE j == CHOOSE k \in Items : Journaled(k, p)
    <3>1. j \in Items /\ Journaled(j, p) BY <2>1
    <3>2. pathToId'[p] = j BY <2>1 DEF Restart
    <3>3. QED BY <3>1, <3>2 DEF Journaled, FilesInv, RowsAgree
  <2>2. CASE ~(\E k \in Items : Journaled(k, p)) BY <2>2 DEF Restart
  <2>3. QED BY <2>1, <2>2
<1>3. QED BY <1>1, <1>2

LEMMA NextFilesTyped == ASSUME FilesAssumption, FilesInv, [Next]_vars PROVE TypeOK'
<1>0. /\ OwnerOf \in [Items -> Users] /\ PathOf \in [Items -> Paths]
      /\ MaxRestarts \in Nat
  BY DEF FilesAssumption
<1> TypeOK BY DEF FilesInv
<1> DEFINE Stages == {"idle", "fetching", "fetched", "heard", "named", "working", "done"}
<1>1. CASE UNCHANGED vars BY <1>1 DEF vars, maps, TypeOK
<1>2. ASSUME NEW i \in Items, Begins(i) PROVE TypeOK'
  <2>1. kind' \in [Items -> Kinds] BY <1>2 DEF Begins, Kinds, TypeOK
  <2>2. QED BY <1>2, <1>0, <2>1 DEF Begins, FetchBegin, Kinds, maps, TypeOK
<1>3. ASSUME NEW i \in Items, Brings(i) PROVE TypeOK'
  <2>1. disk' \in [Paths -> Items \cup {Absent, Partial}]
    <3>1. disk' = disk \/ \E x \in Items \cup {Absent, Partial} :
                              disk' = [disk EXCEPT ![PathOf[i]] = x]
      BY <1>3 DEF Brings, Fetch, FetchEnd, FetchFails, Hear, Answer, Decline
    <3>2. QED BY <3>1 DEF TypeOK
  <2>2. aged' \subseteq Paths
    BY <1>3 DEF Brings, Fetch, FetchEnd, FetchFails, Hear, Answer, Decline, TypeOK
  <2>3. kind' \in [Items -> Kinds]
    BY <1>3 DEF Brings, Fetch, FetchEnd, FetchFails, Hear, Answer, Decline, Return, Kinds, TypeOK
  <2>4. stage' \in [Items -> Stages]
    BY <1>3 DEF Brings, Fetch, FetchEnd, FetchFails, Hear, Answer, Decline, Return, TypeOK
  <2>5. talked' \subseteq Users
    <3>1. talked' \in {talked, talked \cup {OwnerOf[i]}}
      BY <1>3 DEF Brings, Fetch, FetchEnd, FetchFails, Hear, Answer, Decline
    <3>2. talked \subseteq Users /\ OwnerOf[i] \in Users BY <1>0 DEF TypeOK
    <3>3. QED BY <3>1, <3>2
  <2>6. UNCHANGED <<maps, rows, given, closing, call, restarts>>
    BY <1>3 DEF Brings, Fetch, FetchEnd, FetchFails, Hear, Answer, Decline
  <2>7. QED BY <2>1, <2>2, <2>3, <2>4, <2>5, <2>6 DEF Kinds, maps, TypeOK
<1>4. ASSUME NEW i \in Items, Names(i) PROVE TypeOK'
  <2>1. IdFor(i) \in Items BY IdForAgrees
  <2>2. given' \in [Items -> Items \cup {None}]
    BY <1>4, <2>1 DEF Names, NameUpload, NameFetched, Name, TypeOK
  <2>3. /\ idToPath' \in [Items -> Paths \cup {None}]
        /\ pathToId' \in [Paths -> Items \cup {None}]
    <3>1. Name(i) BY <1>4 DEF Names, NameUpload, NameFetched
    <3>2. \/ idToPath' = idToPath /\ pathToId' = pathToId
          \/ /\ idToPath' = [idToPath EXCEPT ![i] = PathOf[i]]
             /\ pathToId' = [pathToId EXCEPT ![PathOf[i]] = i]
      BY <3>1 DEF Name, Remember, maps
    <3>3. /\ idToPath \in [Items -> Paths \cup {None}] /\ PathOf[i] \in Paths
          /\ pathToId \in [Paths -> Items \cup {None}]
      BY <1>0 DEF TypeOK
    <3>4. QED BY <3>2, <3>3
  <2>4. stage' \in [Items -> Stages] /\ kind' \in [Items -> Kinds] /\ talked' \subseteq Users
    <3>1. stage' = [stage EXCEPT ![i] = "named"] \/ stage' = [stage EXCEPT ![i] = "done"]
      BY <1>4 DEF Names, NameUpload, NameFetched, Return
    <3>2. kind' = kind \/ kind' = [kind EXCEPT ![i] = None]
      BY <1>4 DEF Names, NameUpload, NameFetched, Return
    <3>3. talked' = talked \/ talked' = talked \cup {OwnerOf[i]}
      BY <1>4 DEF Names, NameUpload, NameFetched
    <3>4. talked \subseteq Users /\ OwnerOf[i] \in Users BY <1>0 DEF TypeOK
    <3>5. stage \in [Items -> Stages] /\ kind \in [Items -> Kinds] BY DEF Kinds, TypeOK
    <3>6. None \in Kinds BY DEF Kinds
    <3>7. QED BY <3>1, <3>2, <3>3, <3>4, <3>5, <3>6
  <2>5. UNCHANGED <<disk, aged, rows, closing, call, restarts>>
    BY <1>4 DEF Names, NameUpload, NameFetched
  <2>6. QED BY <2>2, <2>3, <2>4, <2>5 DEF Kinds, TypeOK
<1>5. ASSUME NEW i \in Items, JournalUpload(i) PROVE TypeOK'
  <2>1. given[i] \in Items /\ PathOf[i] \in Paths
    BY <1>5, <1>0 DEF JournalUpload, FilesInv, GivenAgrees, TypeOK
  <2>2. rows' \subseteq Items \X Paths
    <3>1. rows' = rows \/ rows' = rows \cup {<<given[i], PathOf[i]>>} BY <1>5 DEF JournalUpload
    <3>2. rows \subseteq Items \X Paths /\ <<given[i], PathOf[i]>> \in Items \X Paths
      BY <2>1 DEF TypeOK
    <3>3. QED BY <3>1, <3>2
  <2>3. stage' \in [Items -> Stages] BY <1>5 DEF JournalUpload, TypeOK
  <2>4. QED BY <1>5, <2>2, <2>3 DEF JournalUpload, maps, TypeOK
<1>6. ASSUME NEW c \in Calls, Read(c) PROVE TypeOK'
  <2> DEFINE content == disk[idToPath[call[c].id]]
  <2>1. content \in Items \cup {Absent, Partial}
    BY <1>6, <1>0 DEF Read, FilesInv, CallsAgree, TypeOK
  <2> DEFINE Answers == [pc : {"idle", "reading", "read"},
                        id : Items \cup {None}, got : Items \cup {None, Partial}]
  <2> DEFINE answer == IF content = Absent THEN NoCall
                       ELSE [pc |-> "read", id |-> call[c].id, got |-> content]
  <2>2. call \in [Calls -> Answers] BY DEF TypeOK
  <2>3. NoCall \in Answers BY DEF NoCall
  <2>4. answer \in Answers BY <2>1, <2>2, <2>3
  <2>5. call' = [call EXCEPT ![c] = answer] BY <1>6, Zenon DEF Read
  <2> HIDE DEF answer, Answers
  <2>6. call' \in [Calls -> Answers] BY <2>2, <2>4, <2>5
  <2>7. QED BY <1>6, <2>6 DEF Read, maps, TypeOK, Answers
<1>7. ASSUME NEW c \in Calls, NEW k \in Items, Ask(c, k) PROVE TypeOK'
  <2>1. Resolve(k) \in Paths \cup {None} BY <1>0, ResolveTyped
  <2>2. call' \in [Calls -> [pc : {"idle", "reading", "read"},
                             id : Items \cup {None}, got : Items \cup {None, Partial}]]
    BY <1>7 DEF Ask, NoCall, TypeOK
  <2>3. /\ idToPath' \in [Items -> Paths \cup {None}]
        /\ pathToId' \in [Paths -> Items \cup {None}]
    <3>1. \/ idToPath' = idToPath /\ pathToId' = pathToId
          \/ /\ Resolve(k) \in Paths
             /\ idToPath' = [idToPath EXCEPT ![k] = Resolve(k)]
             /\ pathToId' = [pathToId EXCEPT ![Resolve(k)] = k]
      BY <1>7, <2>1 DEF Ask, Remember, maps
    <3>2. /\ idToPath \in [Items -> Paths \cup {None}]
          /\ pathToId \in [Paths -> Items \cup {None}]
      BY DEF TypeOK
    <3>3. QED BY <3>1, <3>2
  <2>4. QED BY <1>7, <2>2, <2>3 DEF Ask, TypeOK
<1>8. ASSUME NEW u \in Users, Talk(u) \/ Reset(u) \/ Archives(u) PROVE TypeOK'
  <2>1. disk' \in [Paths -> Items \cup {Absent, Partial}] /\ aged' \subseteq Paths
    BY <1>8 DEF Talk, Reset, Archives, NewStart, NewFailed, NewArchived, NewClose, Sweep, TypeOK
  <2>2. talked' \subseteq Users /\ closing' \in [Users -> {"idle", "archiving", "closing"}]
    BY <1>8 DEF Talk, Reset, Archives, NewStart, NewFailed, NewArchived, NewClose, TypeOK
  <2>3. UNCHANGED <<kind, maps, rows, stage, given, call, restarts>>
    BY <1>8 DEF Talk, Reset, Archives, NewStart, NewFailed, NewArchived, NewClose
  <2>4. QED BY <2>1, <2>2, <2>3 DEF maps, TypeOK
<1>9. ASSUME NEW p \in Paths, Age(p) PROVE TypeOK' BY <1>9 DEF Age, maps, TypeOK
<1>10. ASSUME Restart PROVE TypeOK'
  <2>1. /\ idToPath' \in [Items -> Paths \cup {None}]
        /\ pathToId' \in [Paths -> Items \cup {None}]
    BY <1>10, RestartMaps DEF Restart
  <2>2. /\ stage' \in [Items -> Stages] /\ kind' \in [Items -> Kinds] /\ talked' \subseteq Users
        /\ closing' \in [Users -> {"idle", "archiving", "closing"}]
    BY <1>10 DEF Restart, Kinds, TypeOK
  <2>3. call' \in [Calls -> [pc : {"idle", "reading", "read"},
                             id : Items \cup {None}, got : Items \cup {None, Partial}]]
    BY <1>10 DEF Restart, NoCall, TypeOK
  <2>4. restarts' \in 0..MaxRestarts
    <3>1. restarts < MaxRestarts /\ restarts' = restarts + 1 BY <1>10 DEF Restart
    <3>2. restarts \in 0..MaxRestarts BY DEF TypeOK
    <3>3. QED BY <1>0, <3>1, <3>2
  <2>5. QED BY <1>10, <2>1, <2>2, <2>3, <2>4 DEF Restart, Kinds, TypeOK
<1>11. QED
  BY <1>1, <1>2, <1>3, <1>4, <1>5, <1>6, <1>7, <1>8, <1>9, <1>10, StepsOfNext

-----------------------------------------------------------------------------
(* What is known of the steps, for the other parts.                         *)

LEMMA NextMaps ==
  ASSUME FilesAssumption, FilesInv, [Next]_vars
  PROVE  \/ UNCHANGED maps
         \/ \E i \in Items : Remember(i, PathOf[i])
         \/ Restart
<1>1. ASSUME NEW i \in Items, Names(i) PROVE UNCHANGED maps \/ Remember(i, PathOf[i])
  BY <1>1 DEF Names, NameUpload, NameFetched, Name
<1>2. ASSUME NEW c \in Calls, NEW k \in Items, Ask(c, k)
      PROVE  UNCHANGED maps \/ Remember(k, PathOf[k])
  BY <1>2, ResolveTyped DEF Ask
<1>3. CASE UNCHANGED vars BY <1>3 DEF vars
<1>4. CASE Next
  <2>1. ASSUME NEW i \in Items, Begins(i) \/ Brings(i) \/ JournalUpload(i) PROVE UNCHANGED maps
    BY <2>1 DEF Begins, FetchBegin, Brings, Fetch, FetchEnd, FetchFails, Hear, Answer, Decline,
                JournalUpload
  <2>2. ASSUME NEW c \in Calls, Read(c) PROVE UNCHANGED maps BY <2>2 DEF Read
  <2>3. ASSUME NEW u \in Users, Talk(u) \/ Reset(u) \/ Archives(u) PROVE UNCHANGED maps
    BY <2>3 DEF Talk, Reset, Archives, NewStart, NewFailed, NewArchived, NewClose
  <2>4. ASSUME NEW p \in Paths, Age(p) PROVE UNCHANGED maps BY <2>4 DEF Age
  <2>5. TypeOK BY DEF FilesInv
  <2>6. QED BY <1>1, <1>2, <1>4, <2>1, <2>2, <2>3, <2>4, <2>5, StepsOfNext
<1>5. QED BY <1>3, <1>4

LEMMA NextMapsAgree == ASSUME FilesAssumption, FilesInv, [Next]_vars PROVE MapsAgree'
<1>1. CASE UNCHANGED maps BY <1>1 DEF maps, FilesInv, MapsAgree
<1>2. ASSUME NEW i \in Items, Remember(i, PathOf[i]) PROVE MapsAgree'
  <2>1. /\ idToPath \in [Items -> Paths \cup {None}]
        /\ pathToId \in [Paths -> Items \cup {None}] /\ PathOf[i] \in Paths
    BY DEF FilesInv, TypeOK, FilesAssumption
  <2>2. QED BY <1>2, <2>1 DEF Remember, FilesInv, MapsAgree
<1>3. CASE Restart BY <1>3, RestartMaps DEF MapsAgree
<1>4. QED BY <1>1, <1>2, <1>3, NextMaps

\* The handlers' own part of a step: who is told what, and which rows appear.
LEMMA NextGiven ==
  ASSUME FilesAssumption, FilesInv, [Next]_vars
  PROVE  \/ UNCHANGED given /\ \A i \in Items :
               /\ stage'[i] \in {"idle", "fetching", "fetched", "heard"} =>
                    stage[i] \in {"idle", "fetching", "fetched", "heard"}
               /\ stage'[i] = "named" => stage[i] = "named"
         \/ \E i \in Items :
              /\ stage[i] \in {"fetched", "heard"}
              /\ given' = [given EXCEPT ![i] = IdFor(i)]
              /\ stage' = [stage EXCEPT ![i] = "named"] \/ stage' = [stage EXCEPT ![i] = "done"]
<1> TypeOK BY DEF FilesInv
<1> DEFINE Early == {"idle", "fetching", "fetched", "heard"}
<1> DEFINE Keeps == UNCHANGED given /\ \A i \in Items :
             (stage'[i] \in Early => stage[i] \in Early) /\ (stage'[i] = "named" => stage[i] = "named")
<1>1. ASSUME NEW i \in Items, Names(i)
      PROVE  /\ stage[i] \in {"fetched", "heard"}
             /\ given' = [given EXCEPT ![i] = IdFor(i)]
             /\ stage' = [stage EXCEPT ![i] = "named"] \/ stage' = [stage EXCEPT ![i] = "done"]
  BY <1>1 DEF Names, NameUpload, NameFetched, Name, Return
<1>2. ASSUME NEW i \in Items, Begins(i) \/ Brings(i) \/ JournalUpload(i) PROVE Keeps
  <2>1. UNCHANGED given
    BY <1>2 DEF Begins, FetchBegin, Brings, Fetch, FetchEnd, FetchFails, Hear, Answer, Decline,
                JournalUpload
  <2>2. \/ stage' = stage
        \/ stage[i] \in Early /\ \E l \in {"fetching", "fetched", "heard"} :
             stage' = [stage EXCEPT ![i] = l]
        \/ \E l \in {"working", "done"} : stage' = [stage EXCEPT ![i] = l]
    BY <1>2 DEF Begins, FetchBegin, Brings, Fetch, FetchEnd, FetchFails, Hear, Answer, Decline,
                JournalUpload, Return
  <2>3. QED BY <2>1, <2>2 DEF TypeOK
<1>3. ASSUME NEW c \in Calls, Read(c) \/ \E k \in Items : Ask(c, k) PROVE Keeps
  BY <1>3 DEF Read, Ask
<1>4. ASSUME NEW u \in Users, Talk(u) \/ Reset(u) \/ Archives(u) PROVE Keeps
  BY <1>4 DEF Talk, Reset, Archives, NewStart, NewFailed, NewArchived, NewClose
<1>5. ASSUME NEW p \in Paths, Age(p) PROVE Keeps BY <1>5 DEF Age
<1>6. CASE Restart
  <2>1. \A i \in Items : stage'[i] = IF stage[i] = "idle" THEN "idle" ELSE "done"
    BY <1>6 DEF Restart
  <2>2. QED BY <1>6, <2>1 DEF Restart
<1>7. CASE UNCHANGED vars BY <1>7 DEF vars
<1>8. CASE Next BY <1>1, <1>2, <1>3, <1>4, <1>5, <1>6, <1>8, StepsOfNext
<1>9. QED BY <1>7, <1>8

LEMMA NextGivenAgrees == ASSUME FilesAssumption, FilesInv, [Next]_vars PROVE GivenAgrees'
<1> DEFINE Early == {"idle", "fetching", "fetched", "heard"}
<1>1. given \in [Items -> Items \cup {None}] /\ DOMAIN stage = Items BY DEF FilesInv, TypeOK
<1>2. CASE UNCHANGED given /\ \A i \in Items :
             (stage'[i] \in Early => stage[i] \in Early) /\ (stage'[i] = "named" => stage[i] = "named")
  BY <1>2 DEF FilesInv, GivenAgrees
<1>3. ASSUME NEW i \in Items, given' = [given EXCEPT ![i] = IdFor(i)],
             stage' = [stage EXCEPT ![i] = "named"] \/ stage' = [stage EXCEPT ![i] = "done"]
      PROVE GivenAgrees'
  <2>1. \A j \in Items : IF j = i THEN given'[j] = IdFor(i) /\ stage'[j] \in {"named", "done"}
                                  ELSE given'[j] = given[j] /\ stage'[j] = stage[j]
    BY <1>1, <1>3
  <2>2. QED BY <2>1, IdForAgrees DEF FilesInv, GivenAgrees
<1>4. QED BY <1>2, <1>3, NextGiven

LEMMA NextRowsAgree == ASSUME FilesAssumption, FilesInv, [Next]_vars PROVE RowsAgree'
<1> TypeOK BY DEF FilesInv
<1>1. ASSUME NEW i \in Items, JournalUpload(i) PROVE RowsAgree'
  <2>1. given[i] \in Items /\ PathOf[given[i]] = PathOf[i]
    BY <1>1 DEF JournalUpload, FilesInv, GivenAgrees, TypeOK
  <2>2. rows' = rows \/ rows' = rows \cup {<<given[i], PathOf[i]>>} BY <1>1 DEF JournalUpload
  <2>3. QED BY <2>1, <2>2 DEF FilesInv, RowsAgree
<1>2. CASE UNCHANGED rows BY <1>2 DEF FilesInv, RowsAgree
<1>3. ASSUME NEW i \in Items, Begins(i) \/ Brings(i) \/ Names(i) PROVE UNCHANGED rows
  BY <1>3 DEF Begins, FetchBegin, Brings, Fetch, FetchEnd, FetchFails, Hear, Answer, Decline,
              Names, NameUpload, NameFetched
<1>4. ASSUME NEW c \in Calls, Read(c) \/ \E k \in Items : Ask(c, k) PROVE UNCHANGED rows
  BY <1>4 DEF Read, Ask
<1>5. ASSUME NEW u \in Users, Talk(u) \/ Reset(u) \/ Archives(u) PROVE UNCHANGED rows
  BY <1>5 DEF Talk, Reset, Archives, NewStart, NewFailed, NewArchived, NewClose
<1>6. ASSUME NEW p \in Paths, Age(p) PROVE UNCHANGED rows BY <1>6 DEF Age
<1>7. Restart => UNCHANGED rows BY DEF Restart
<1>8. UNCHANGED vars => UNCHANGED rows BY DEF vars
<1>9. QED BY <1>1, <1>2, <1>3, <1>4, <1>5, <1>6, <1>7, <1>8, StepsOfNext

-----------------------------------------------------------------------------
(* The disk.                                                                *)

\* How a step changes the content of a path.
LEMMA NextDisk ==
  ASSUME FilesAssumption, FilesInv, [Next]_vars
  PROVE  \/ \A p \in Paths : disk'[p] \in {disk[p], Absent}
         \/ \E i \in Items :
              /\ given[i] = None /\ stage[i] \in {"idle", "fetching"}
              /\ \/ disk' = [disk EXCEPT ![PathOf[i]] = Partial]
                    /\ stage' = [stage EXCEPT ![i] = "fetching"]
                 \/ disk' = [disk EXCEPT ![PathOf[i]] = i]
                 \/ ~Alone(i) /\ disk' = [disk EXCEPT ![PathOf[i]] = Partial]
<1> TypeOK BY DEF FilesInv
<1> DEFINE Less == \A p \in Paths : disk'[p] \in {disk[p], Absent}
<1>1. ASSUME NEW i \in Items, Begins(i)
      PROVE  /\ given[i] = None /\ stage[i] = "idle"
             /\ disk' = [disk EXCEPT ![PathOf[i]] = Partial]
             /\ stage' = [stage EXCEPT ![i] = "fetching"]
  BY <1>1 DEF Begins, FetchBegin, FilesInv, GivenAgrees
<1>2. ASSUME NEW i \in Items, FetchEnd(i)
      PROVE  \/ Less
             \/ /\ given[i] = None /\ stage[i] = "fetching"
                /\ \/ disk' = [disk EXCEPT ![PathOf[i]] = i]
                   \/ ~Alone(i) /\ disk' = [disk EXCEPT ![PathOf[i]] = Partial]
  BY <1>2 DEF FetchEnd, FilesInv, GivenAgrees
<1>3. ASSUME NEW i \in Items, Brings(i), ~FetchEnd(i) PROVE Less
  BY <1>3 DEF Brings, Fetch, FetchFails, Hear, Answer, Decline, TypeOK
<1>4. ASSUME NEW i \in Items, Names(i) \/ JournalUpload(i) PROVE Less
  BY <1>4 DEF Names, NameUpload, NameFetched, JournalUpload
<1>5. ASSUME NEW c \in Calls, Read(c) \/ \E k \in Items : Ask(c, k) PROVE Less
  BY <1>5 DEF Read, Ask
<1>6. ASSUME NEW u \in Users, Talk(u) \/ Reset(u) \/ Archives(u) PROVE Less
  BY <1>6 DEF Talk, Reset, Archives, NewStart, NewFailed, NewArchived, NewClose, Sweep
<1>7. ASSUME NEW p \in Paths, Age(p) PROVE Less BY <1>7 DEF Age
<1>8. Restart => Less BY DEF Restart
<1>9. UNCHANGED vars => Less BY DEF vars
<1>10. QED
  BY <1>1, <1>2, <1>3, <1>4, <1>5, <1>6, <1>7, <1>8, <1>9, StepsOfNext DEF Brings, Fetch

LEMMA Overwritten ==
  ASSUME NEW P, NEW S, NEW f \in [P -> S], NEW g, NEW q \in P, NEW a \in S,
         g = [f EXCEPT ![q] = a]
  PROVE  \A p \in P : (p = q => g[p] = a) /\ (p # q => g[p] = f[p])
OBVIOUS

LEMMA NextDiskAgrees == ASSUME FilesAssumption, FilesInv, [Next]_vars PROVE DiskAgrees'
<1>1. CASE \A p \in Paths : disk'[p] \in {disk[p], Absent}
  <2>1. Absent \notin Items BY DEF FilesAssumption
  <2>2. QED BY <1>1, <2>1 DEF FilesInv, DiskAgrees
<1>2. ASSUME NEW i \in Items, NEW x \in {Partial, i}, disk' = [disk EXCEPT ![PathOf[i]] = x]
      PROVE  DiskAgrees'
  <2>1. Partial \notin Items /\ PathOf[i] \in Paths BY DEF FilesAssumption
  <2>2. disk \in [Paths -> Items \cup {Absent, Partial}] BY DEF FilesInv, TypeOK
  <2>3. x \in Items \cup {Absent, Partial} OBVIOUS
  <2>4. \A p \in Paths : (p = PathOf[i] => disk'[p] = x) /\ (p # PathOf[i] => disk'[p] = disk[p])
    BY <1>2, <2>1, <2>2, <2>3, Overwritten
  <2>5. QED BY <2>1, <2>4 DEF FilesInv, DiskAgrees
<1>3. QED BY <1>1, <1>2, NextDisk

\* Only a download that ends puts a file among those that may be named.
LEMMA NextNamable ==
  ASSUME FilesAssumption, FilesInv, [Next]_vars, NEW k \in Items, Alone(k),
         given'[k] # None \/ stage'[k] \in {"fetched", "heard"}
  PROVE  \/ given[k] # None \/ stage[k] \in {"fetched", "heard"}
         \/ disk'[PathOf[k]] \in {k, Absent}
<1> TypeOK BY DEF FilesInv
<1> PathOf[k] \in Paths BY DEF FilesAssumption
<1> DEFINE Namable == given[k] # None \/ stage[k] \in {"fetched", "heard"}
<1> DEFINE Same == given'[k] = given[k] /\
                   (stage'[k] \in {"fetched", "heard"} => stage[k] \in {"fetched", "heard"})
<1>1. ASSUME NEW i \in Items, Names(i) PROVE Same \/ Namable
  BY <1>1 DEF Names, NameUpload, NameFetched, Name, Return, TypeOK
<1>2. ASSUME NEW i \in Items, FetchEnd(i) PROVE Same \/ disk'[PathOf[k]] \in {k, Absent}
  <2>1. CASE i = k BY <1>2, <2>1 DEF FetchEnd, Present, TypeOK
  <2>2. CASE i # k BY <1>2, <2>2 DEF FetchEnd, TypeOK
  <2>3. QED BY <2>1, <2>2
<1>3. ASSUME NEW i \in Items, Begins(i) \/ JournalUpload(i) PROVE Same
  BY <1>3 DEF Begins, FetchBegin, JournalUpload, TypeOK
<1>4. ASSUME NEW i \in Items, Brings(i), ~FetchEnd(i) PROVE Same
  BY <1>4 DEF Brings, Fetch, FetchFails, Hear, Answer, Decline, Return, TypeOK
<1>5. ASSUME NEW c \in Calls, Read(c) \/ \E j \in Items : Ask(c, j) PROVE Same
  BY <1>5 DEF Read, Ask
<1>6. ASSUME NEW u \in Users, Talk(u) \/ Reset(u) \/ Archives(u) PROVE Same
  BY <1>6 DEF Talk, Reset, Archives, NewStart, NewFailed, NewArchived, NewClose
<1>7. ASSUME NEW p \in Paths, Age(p) PROVE Same BY <1>7 DEF Age
<1>8. Restart => Same BY DEF Restart
<1>9. UNCHANGED vars => Same BY DEF vars
<1>10. QED
  BY <1>1, <1>2, <1>3, <1>4, <1>5, <1>6, <1>7, <1>8, <1>9, StepsOfNext DEF Brings, Fetch

LEMMA NextWholeOrGone == ASSUME FilesAssumption, FilesInv, [Next]_vars PROVE WholeOrGone'
<1> SUFFICES ASSUME NEW k \in Items, Alone(k),
                    given'[k] # None \/ stage'[k] \in {"fetched", "heard"}
             PROVE  disk'[PathOf[k]] \in {k, Absent}
  BY DEF WholeOrGone, Alone
<1>1. PathOf \in [Items -> Paths] BY DEF FilesAssumption
<1>2. CASE disk'[PathOf[k]] \in {k, Absent} BY <1>2
<1>3. CASE given[k] # None \/ stage[k] \in {"fetched", "heard"}
  <2>1. disk[PathOf[k]] \in {k, Absent} BY <1>3 DEF FilesInv, WholeOrGone
  <2>2. CASE \A p \in Paths : disk'[p] \in {disk[p], Absent} BY <1>1, <2>1, <2>2
  <2>3. ASSUME NEW i \in Items, given[i] = None /\ stage[i] \in {"idle", "fetching"},
               NEW x, disk' = [disk EXCEPT ![PathOf[i]] = x]
        PROVE  disk'[PathOf[k]] \in {k, Absent}
    <3>1. i # k BY <1>3, <2>3
    <3>2. PathOf[i] # PathOf[k] BY <3>1 DEF Alone
    <3>3. QED BY <1>1, <2>1, <2>3, <3>2 DEF FilesInv, TypeOK
  <2>4. QED BY <2>2, <2>3, NextDisk
<1>4. QED BY <1>2, <1>3, NextNamable

-----------------------------------------------------------------------------
(* Calls.                                                                   *)

\* An identifier that was told is the item's own when nobody shares its path.
LEMMA ToldAlone ==
  ASSUME FilesInv, NEW i \in Items, NEW k \in Items, given[i] = k, k # None, Alone(k)
  PROVE  given[k] # None
BY DEF FilesInv, GivenAgrees, Alone

LEMMA NextCallsAgree == ASSUME FilesAssumption, FilesInv, [Next]_vars PROVE CallsAgree'
<1> TypeOK BY DEF FilesInv
<1>0. ASSUME NEW k \in Items, \E i \in Items : given[i] = k PROVE \E i \in Items : given'[i] = k
  <2>1. PICK i \in Items : given[i] = k BY <1>0
  <2>2. None \notin Items BY DEF FilesAssumption
  <2>3. given'[i] = given[i] BY <2>1, <2>2, NextGiven DEF FilesInv, GivenAgrees, TypeOK
  <2>4. QED BY <2>1, <2>3
<1>1. ASSUME ~Restart, NEW k \in Items, idToPath[k] = PathOf[k] PROVE idToPath'[k] = PathOf[k]
  <2>1. CASE UNCHANGED maps BY <1>1, <2>1 DEF maps
  <2>2. ASSUME NEW i \in Items, Remember(i, PathOf[i]) PROVE idToPath'[k] = PathOf[k]
    BY <1>1, <2>2 DEF Remember, TypeOK
  <2>3. QED BY <1>1, <2>1, <2>2, NextMaps
<1>2. ASSUME UNCHANGED call, ~Restart PROVE CallsAgree'
  BY <1>0, <1>1, <1>2 DEF FilesInv, CallsAgree
<1>3. CASE Restart
  <2>1. \A c \in Calls : call'[c].pc # "reading" BY <1>3 DEF Restart, NoCall, TypeOK
  <2>2. QED BY <2>1 DEF CallsAgree
<1>4. ASSUME NEW c \in Calls, NEW k \in Items, Ask(c, k), ~Restart PROVE CallsAgree'
  <2>1. idToPath'[k] = PathOf[k] \/ call'[c].pc = "idle"
    <3>1. CASE Resolve(k) = None BY <1>4, <3>1 DEF Ask, NoCall, TypeOK
    <3>2. CASE Resolve(k) = PathOf[k] /\ Resolve(k) # None /\ idToPath[k] = None
      BY <1>4, <3>2 DEF Ask, Remember, TypeOK
    <3>3. CASE Resolve(k) # None /\ idToPath[k] # None
      BY <1>4, <3>3 DEF Ask, maps, FilesInv, MapsAgree
    <3>4. QED BY <3>1, <3>2, <3>3, ResolveTyped
  <2>2. call'[c].pc = "reading" => call'[c].id = k BY <1>4 DEF Ask, NoCall, TypeOK
  <2>3. \A d \in Calls \ {c} : call'[d] = call[d] BY <1>4 DEF Ask, TypeOK
  <2>4. \E i \in Items : given'[i] = k BY <1>4 DEF Ask
  <2>5. QED BY <1>0, <1>1, <1>4, <2>1, <2>2, <2>3, <2>4 DEF FilesInv, CallsAgree
<1>5. ASSUME NEW c \in Calls, Read(c), ~Restart PROVE CallsAgree'
  <2>1. call'[c].pc # "reading" BY <1>5 DEF Read, NoCall, TypeOK
  <2>2. \A d \in Calls \ {c} : call'[d] = call[d] BY <1>5 DEF Read, TypeOK
  <2>3. QED BY <1>0, <1>1, <1>5, <2>1, <2>2 DEF FilesInv, CallsAgree
<1>6. ASSUME NEW i \in Items, Begins(i) \/ Brings(i) \/ Names(i) \/ JournalUpload(i)
      PROVE  UNCHANGED call
  BY <1>6 DEF Begins, FetchBegin, Brings, Fetch, FetchEnd, FetchFails, Hear, Answer, Decline,
              Names, NameUpload, NameFetched, JournalUpload
<1>7. ASSUME NEW u \in Users, Talk(u) \/ Reset(u) \/ Archives(u) PROVE UNCHANGED call
  BY <1>7 DEF Talk, Reset, Archives, NewStart, NewFailed, NewArchived, NewClose
<1>8. ASSUME NEW p \in Paths, Age(p) PROVE UNCHANGED call BY <1>8 DEF Age
<1>9. UNCHANGED vars => UNCHANGED call BY DEF vars
<1>10. QED BY <1>2, <1>3, <1>4, <1>5, <1>6, <1>7, <1>8, <1>9, StepsOfNext

\* What a worker thread opens under an identifier.
LEMMA ReadIsSound ==
  ASSUME FilesAssumption, FilesInv, NEW c \in Calls, call[c].pc = "reading",
         disk[idToPath[call[c].id]] # Absent
  PROVE  LET k == call[c].id  content == disk[idToPath[k]] IN
         IF Alone(k) THEN content = k
         ELSE content = Partial \/ PathOf[content] = PathOf[k]
<1> DEFINE k == call[c].id
<1>1. k \in Items /\ idToPath[k] = PathOf[k] /\ \E i \in Items : given[i] = k
  BY DEF FilesInv, CallsAgree
<1>2. PathOf[k] \in Paths /\ k # None BY <1>1 DEF FilesAssumption
<1>3. CASE Alone(k)
  <2>1. given[k] # None BY <1>1, <1>2, <1>3, ToldAlone
  <2>2. QED BY <1>1, <1>3, <2>1 DEF FilesInv, WholeOrGone
<1>4. CASE ~Alone(k)
  <2>1. disk[PathOf[k]] \in Items \cup {Partial}
    <3>1. disk[PathOf[k]] \in Items \cup {Absent, Partial} BY <1>2 DEF FilesInv, TypeOK
    <3>2. disk[PathOf[k]] # Absent BY <1>1
    <3>3. QED BY <3>1, <3>2
  <2>2. QED BY <1>1, <1>2, <1>4, <2>1 DEF FilesInv, DiskAgrees
<1>5. QED BY <1>3, <1>4

LEMMA NextReads == ASSUME FilesAssumption, FilesInv, [Next]_vars PROVE ReadsWhatWasNamed'
<1> TypeOK BY DEF FilesInv
<1> USE DEF Alone
<1>1. ASSUME \A d \in Calls : call'[d].pc = "read" => call'[d] = call[d] PROVE ReadsWhatWasNamed'
  BY <1>1 DEF FilesInv, ReadsWhatWasNamed
<1>2. ASSUME NEW c \in Calls, Read(c) PROVE ReadsWhatWasNamed'
  <2> DEFINE content == disk[idToPath[call[c].id]]
  <2>1. \A d \in Calls \ {c} : call'[d] = call[d] BY <1>2 DEF Read, TypeOK
  <2>2. CASE content = Absent
    <3>1. call'[c].pc # "read" BY <1>2, <2>2 DEF Read, NoCall, TypeOK
    <3>2. QED BY <2>1, <3>1 DEF FilesInv, ReadsWhatWasNamed
  <2>3. CASE content # Absent
    <3>1. call'[c].id = call[c].id /\ call'[c].got = content
      <4> DEFINE new == [pc |-> "read", id |-> call[c].id, got |-> content]
      <4> DEFINE next == IF content = Absent THEN NoCall ELSE new
      <4>1. call' = [call EXCEPT ![c] = next] BY <1>2, Zenon DEF Read
      <4>2. next = new BY <2>3
      <4>3. call'[c] = next BY <4>1 DEF TypeOK
      <4>4. QED BY <4>2, <4>3
    <3>2. call[c].pc = "reading" BY <1>2 DEF Read
    <3>3. QED BY <2>1, <2>3, <3>1, <3>2, ReadIsSound DEF FilesInv, ReadsWhatWasNamed
  <2>4. QED BY <2>2, <2>3
<1>3. ASSUME NEW c \in Calls, NEW k \in Items, Ask(c, k) PROVE ReadsWhatWasNamed'
  BY <1>1, <1>3 DEF Ask, NoCall, TypeOK
<1>4. CASE Restart BY <1>1, <1>4 DEF Restart, NoCall, TypeOK
<1>5. CASE UNCHANGED call BY <1>1, <1>5
<1>6. ASSUME NEW i \in Items, Begins(i) \/ Brings(i) \/ Names(i) \/ JournalUpload(i)
      PROVE  UNCHANGED call
  BY <1>6 DEF Begins, FetchBegin, Brings, Fetch, FetchEnd, FetchFails, Hear, Answer, Decline,
              Names, NameUpload, NameFetched, JournalUpload
<1>7. ASSUME NEW u \in Users, Talk(u) \/ Reset(u) \/ Archives(u) PROVE UNCHANGED call
  BY <1>7 DEF Talk, Reset, Archives, NewStart, NewFailed, NewArchived, NewClose
<1>8. ASSUME NEW p \in Paths, Age(p) PROVE UNCHANGED call BY <1>8 DEF Age
<1>9. UNCHANGED vars => UNCHANGED call BY DEF vars
<1>10. QED BY <1>2, <1>3, <1>4, <1>5, <1>6, <1>7, <1>8, <1>9, StepsOfNext

-----------------------------------------------------------------------------
LEMMA InitFilesInv == ASSUME FilesAssumption, Init PROVE FilesInv
<1>1. TypeOK BY DEF FilesAssumption, Init, TypeOK, NoCall
<1>2. MapsAgree /\ RowsAgree /\ GivenAgrees BY DEF Init, MapsAgree, RowsAgree, GivenAgrees
<1>3. DiskAgrees BY DEF FilesAssumption, Init, DiskAgrees
<1>4. WholeOrGone BY DEF Init, WholeOrGone
<1>5. CallsAgree /\ ReadsWhatWasNamed BY DEF Init, NoCall, CallsAgree, ReadsWhatWasNamed
<1>6. QED BY <1>1, <1>2, <1>3, <1>4, <1>5 DEF FilesInv

LEMMA NextFilesInv == ASSUME FilesAssumption, FilesInv, [Next]_vars PROVE FilesInv'
  BY NextFilesTyped, NextMapsAgree, NextRowsAgree, NextDiskAgrees, NextGivenAgrees,
     NextWholeOrGone, NextCallsAgree, NextReads DEF FilesInv

LEMMA FilesInvariant == Spec => []FilesInv
<1>1. Init => FilesInv BY InitFilesInv, FilesAssumption
<1>2. FilesInv /\ [Next]_vars => FilesInv' BY NextFilesInv, FilesAssumption
<1>3. QED BY <1>1, <1>2, PTL DEF Spec

\* Every variable stays in its type.
THEOREM FilesTypeCorrect == Spec => []TypeOK
<1>1. FilesInv => TypeOK BY DEF FilesInv
<1>2. QED BY <1>1, FilesInvariant, PTL

\* A tool that reads under an identifier gets the file the identifier was made
\* for, whole, unless another fetch wrote the same remote name; whatever /new,
\* archiving, failed downloads and restarts did in between.
THEOREM ReadsAreSound == Spec => []ReadsWhatWasNamed
<1>1. FilesInv => ReadsWhatWasNamed BY DEF FilesInv
<1>2. QED BY <1>1, FilesInvariant, PTL

\* An identifier in the journal leads to its file as long as the file exists,
\* whatever the dictionaries of the mapper hold.
THEOREM JournalResolves == Spec => []JournaledNamesResolve
<1>1. ASSUME FilesInv PROVE JournaledNamesResolve
  <2> SUFFICES ASSUME NEW k \in Items, NEW p \in Paths, <<k, p>> \in rows, Present(p)
               PROVE  Resolve(k) = p
    BY DEF JournaledNamesResolve
  <2>1. p = PathOf[k] BY <1>1 DEF FilesInv, RowsAgree
  <2>2. CASE idToPath[k] # None BY <1>1, <2>1, <2>2 DEF FilesInv, MapsAgree, Resolve
  <2>3. CASE idToPath[k] = None
    <3> DEFINE q == CHOOSE r \in Paths : Journaled(k, r)
    <3>1. Journaled(k, p) BY DEF Journaled
    <3>2. q \in Paths /\ Journaled(k, q) BY <3>1
    <3>3. Resolve(k) = q BY <2>3, <3>1 DEF Resolve
    <3>4. QED BY <1>1, <2>1, <3>2, <3>3 DEF Journaled, FilesInv, RowsAgree
  <2>4. QED BY <2>2, <2>3
<1>2. QED BY <1>1, FilesInvariant, PTL

\* A file goes by a /new of its own user, as an image nobody wrote for an hour
\* at the end of an archiving, or because a download of its own path broke off.
THEOREM FilesGoByTheirOwner == Spec => FilesGoByOwner
<1> DEFINE Goes(p) == /\ p \in Paths /\ Present(p) /\ disk'[p] = Absent
<1> DEFINE May(p) ==
          \/ DirOf[p] \in Users /\ closing[DirOf[p]] = "closing"
          \/ p \in aged /\ \E u \in Users : closing[u] = "archiving"
          \/ \E i \in Items : PathOf[i] = p /\ stage[i] = "fetching"
<1>1. ASSUME FilesInv, FilesAssumption, Next, NEW p, Goes(p) PROVE May(p)
  <2> TypeOK BY <1>1 DEF FilesInv
  <2>0. Absent # Partial /\ Absent \notin Items /\ PathOf \in [Items -> Paths]
    BY <1>1 DEF FilesAssumption
  <2>1. ASSUME NEW i \in Items, Begins(i) PROVE FALSE
    BY <1>1, <2>0, <2>1 DEF Begins, FetchBegin, Present, TypeOK
  <2>2. ASSUME NEW i \in Items, Brings(i) PROVE May(p)
    BY <1>1, <2>0, <2>2 DEF Brings, Fetch, FetchEnd, FetchFails, Hear, Answer, Decline, Present,
                            TypeOK
  <2>3. ASSUME NEW i \in Items, Names(i) \/ JournalUpload(i) PROVE FALSE
    BY <1>1, <2>3 DEF Names, NameUpload, NameFetched, JournalUpload, Present
  <2>4. ASSUME NEW c \in Calls, Read(c) \/ \E k \in Items : Ask(c, k) PROVE FALSE
    BY <1>1, <2>4 DEF Read, Ask, Present
  <2>5. ASSUME NEW u \in Users, Talk(u) \/ Reset(u) \/ Archives(u) PROVE May(p)
    BY <1>1, <2>5 DEF Talk, Reset, Archives, NewStart, NewFailed, NewArchived, NewClose, Sweep,
                      Present
  <2>6. ASSUME NEW q \in Paths, Age(q) PROVE FALSE BY <1>1, <2>6 DEF Age, Present
  <2>7. Restart => FALSE BY <1>1 DEF Restart, Present
  <2>8. QED BY <1>1, <2>1, <2>2, <2>3, <2>4, <2>5, <2>6, <2>7, StepsOfNext
<1>2. FilesInv /\ [Next]_vars =>
        [\A p \in Paths : Present(p) /\ disk'[p] = Absent =>
          \/ DirOf[p] \in Users /\ closing[DirOf[p]] = "closing"
          \/ p \in aged /\ \E u \in Users : closing[u] = "archiving"
          \/ \E i \in Items : PathOf[i] = p /\ stage[i] = "fetching"]_vars
  BY <1>1, FilesAssumption
<1>3. QED BY <1>2, FilesInvariant, PTL DEF Spec, FilesGoByOwner
=============================================================================
