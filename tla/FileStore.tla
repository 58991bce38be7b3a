----------------------------- MODULE FileStore -----------------------------
(***************************************************************************)
(* The files users send and tools fetch: they lie in the temporary tree,   *)
(* agents know them by an identifier that FileIdMapper resolves from two   *)
(* dictionaries or, after a restart, from the dialog journal.  Handlers    *)
(* download, name and use files while /new removes the directory of its    *)
(* user and the end of any archiving removes the old images of everybody.  *)
(* A step is what a coroutine or a worker thread does between two awaits.  *)
(***************************************************************************)
EXTENDS Naturals, FiniteSets

CONSTANTS
    Users,
    Uploads,      \* files that users send as messages
    Fetches,      \* files that tools fetch: Yandex.Disk, attachments of mail
    Calls,        \* calls of tools that take a file_id
    Paths,        \* paths below TMP_BASE_DIR
    OwnerOf,      \* OwnerOf[i]: the user whose upload or task brings item i
    PathOf,       \* PathOf[i]: where item i is written
    DirOf,        \* DirOf[p]: the user whose directory holds p, or Nobody
    Images,       \* paths with the extension of an image
    Nobody, None, Absent, Partial,
    MaxRestarts   \* bound: restarts explored

Items == Uploads \cup Fetches
Alone(i) == \A j \in Items \ {i} : PathOf[j] # PathOf[i]

\* The path of an upload has a uuid4 in it: no other item is written there.  A
\* fetched file keeps its remote name, so two of them may share a path.
ASSUME FilesAssumption ==
    /\ OwnerOf \in [Items -> Users] /\ PathOf \in [Items -> Paths]
    /\ DirOf \in [Paths -> Users \cup {Nobody}]
    /\ \A i \in Uploads : Alone(i) /\ DirOf[PathOf[i]] = OwnerOf[i]
    /\ {None, Absent, Partial} \cap (Items \cup Paths) = {}
    /\ None # Absent /\ None # Partial /\ Absent # Partial
    /\ Nobody \notin Users
    /\ MaxRestarts \in Nat

VARIABLES
    disk,      \* disk[p]: the item whose content lies at p, Partial or Absent
    aged,      \* image files that were written more than an hour ago
    idToPath,  \* FileIdMapper._id_to_path; an identifier is called after the
    pathToId,  \* item it was generated for; FileIdMapper._path_to_id
    rows,      \* rows of dialog_journal that have a file_id and a file_path
    kind,      \* kind[i]: the kind of message with file i that is being handled
    stage,     \* stage[i]: where the handler or tool that brings item i is
    given,     \* given[i]: the identifier the agent is told for item i
    talked,    \* users whose session log is not empty
    closing,   \* closing[u]: where the handler of /new of user u is
    call,      \* call[c]: a call of a tool with a file_id
    restarts

maps == <<idToPath, pathToId>>
vars == <<disk, aged, kind, maps, rows, stage, given, talked, closing, call, restarts>>

-----------------------------------------------------------------------------
NoCall == [pc |-> "idle", id |-> None, got |-> None]
Present(p) == disk[p] # Absent

\* Slip: only the rows of sessions that are still open are looked at.
JournaledOpen(k, p) == <<k, p>> \in rows /\ Present(p) /\ DirOf[p] \in talked

\* The rows the mapper loads or finds: those whose file still exists.
Journaled(k, p) == <<k, p>> \in rows /\ Present(p)

\* Slip: the latest row that has a path, whatever its file_id.
ResolveAnyRow(k) ==
    IF idToPath[k] # None THEN idToPath[k]
    ELSE IF \E j \in Items, p \in Paths : Journaled(j, p)
         THEN CHOOSE p \in Paths : \E j \in Items : Journaled(j, p)
         ELSE None

\* get_path: the dictionary is believed without a look at the disk, a row of the
\* journal only if its file exists.
Resolve(k) ==
    IF idToPath[k] # None THEN idToPath[k]
    ELSE IF \E p \in Paths : Journaled(k, p)
         THEN CHOOSE p \in Paths : Journaled(k, p)
         ELSE None

\* Slip: the path is returned where its identifier should be.
PathFor(i) == IF pathToId[PathOf[i]] # None THEN PathOf[i] ELSE i

\* generate_id: a path that has an identifier keeps it.
IdFor(i) == IF pathToId[PathOf[i]] # None THEN pathToId[PathOf[i]] ELSE i

Remember(k, p) ==
    /\ idToPath' = [idToPath EXCEPT ![k] = p]
    /\ pathToId' = [pathToId EXCEPT ![p] = k]

Name(i) ==
    /\ given' = [given EXCEPT ![i] = IdFor(i)]
    /\ IF pathToId[PathOf[i]] # None THEN UNCHANGED maps
       ELSE Remember(i, PathOf[i])

Sweep(paths) ==
    /\ disk' = [p \in Paths |-> IF p \in paths THEN Absent ELSE disk[p]]
    /\ aged' = aged \ paths

-----------------------------------------------------------------------------
Init ==
    /\ disk = [p \in Paths |-> Absent] /\ aged = {}
    /\ idToPath = [i \in Items |-> None] /\ pathToId = [p \in Paths |-> None]
    /\ rows = {}
    /\ kind = [i \in Items |-> None]
    /\ stage = [i \in Items |-> "idle"] /\ given = [i \in Items |-> None]
    /\ talked = {} /\ closing = [u \in Users |-> "idle"]
    /\ call = [c \in Calls |-> NoCall]
    /\ restarts = 0

\* The handler or the tool returns.
Return(i) ==
    /\ stage' = [stage EXCEPT ![i] = "done"]
    /\ kind' = [kind EXCEPT ![i] = None]

\* The download begins: the directory exists, the file is open and empty.
FetchBegin(i) ==
    /\ stage[i] = "idle"
    /\ stage' = [stage EXCEPT ![i] = "fetching"]
    /\ disk' = [disk EXCEPT ![PathOf[i]] = Partial]
    /\ aged' = aged \ {PathOf[i]}
    /\ UNCHANGED <<maps, rows, given, talked, closing, call, restarts>>

\* The download ends.  When /new has removed the directory meanwhile, the bytes
\* may be written to a file that has no name any more; when another download
\* writes the same path, the two may have mixed.
FetchEnd(i) ==
    /\ stage[i] = "fetching"
    /\ stage' = [stage EXCEPT ![i] = "fetched"]
    /\ \/ disk' = [disk EXCEPT ![PathOf[i]] = i]
       \/ ~Present(PathOf[i]) /\ UNCHANGED disk
       \/ ~Alone(i) /\ disk' = [disk EXCEPT ![PathOf[i]] = Partial]
    /\ aged' = aged \ {PathOf[i]}
    /\ UNCHANGED <<kind, maps, rows, given, talked, closing, call, restarts>>

\* The file is too large, the transfer breaks off or the directory is gone; what
\* was written so far may stay.  The handler answers with an error.
FetchFails(i) ==
    /\ stage[i] = "fetching" /\ Return(i)
    /\ disk' \in {disk, [disk EXCEPT ![PathOf[i]] = Absent]}
    /\ aged' = IF disk' = disk THEN aged ELSE aged \ {PathOf[i]}
    /\ UNCHANGED <<maps, rows, given, talked, closing, call, restarts>>

Fetch(i) == FetchEnd(i) \/ FetchFails(i)

\* A message with a file of kind k arrives.
Take(i, k) == FetchBegin(i) /\ kind' = [kind EXCEPT ![i] = k]

\* Without a transcriber or a vision model the handler answers and fetches nothing.
Decline(i) ==
    /\ stage[i] = "idle" /\ Return(i)
    /\ UNCHANGED <<disk, aged, maps, rows, given, talked, closing, call, restarts>>

\* Speech is transcribed, an image of MAX described, before the file is named.  An
\* error or an empty text ends the handler: the file stays without an identifier.
Hear(i) ==
    /\ stage[i] = "fetched"
    /\ \/ stage' = [stage EXCEPT ![i] = "heard"] /\ UNCHANGED kind
       \/ Return(i)
    /\ UNCHANGED <<disk, aged, maps, rows, given, talked, closing, call, restarts>>

\* The handler names the file and publishes MessageReceived: the session log has
\* the message at once, the journal one await later.
NameUpload(i, from) ==
    /\ stage[i] = from
    /\ Name(i)
    /\ stage' = [stage EXCEPT ![i] = "named"]
    /\ talked' = talked \cup {OwnerOf[i]}
    /\ UNCHANGED <<disk, aged, kind, rows, closing, call, restarts>>

\* A row that cannot be written is only logged.
JournalUpload(i) ==
    /\ stage[i] = "named"
    /\ rows' \in {rows \cup {<<given[i], PathOf[i]>>}, rows}
    /\ stage' = [stage EXCEPT ![i] = "working"]
    /\ UNCHANGED <<disk, aged, kind, maps, given, talked, closing, call, restarts>>

\* The task of the message is over: an answer is published and enters the session
\* that is open by now, an error of the model is only told to the user.
Answer(i) ==
    /\ stage[i] = "working" /\ Return(i)
    /\ talked' \in {talked, talked \cup {OwnerOf[i]}}
    /\ UNCHANGED <<disk, aged, maps, rows, given, closing, call, restarts>>

Reply(i) == JournalUpload(i) \/ Answer(i)

-----------------------------------------------------------------------------
\* The handlers of Telegram.  A document with a mime type audio/* is a voice.
HandleDocument(i) ==
    \/ Take(i, "document")
    \/ kind[i] = "document" /\ (Fetch(i) \/ NameUpload(i, "fetched") \/ Reply(i))

HandlePhoto(i) ==
    \/ Take(i, "photo")
    \/ kind[i] = "photo" /\ (Fetch(i) \/ NameUpload(i, "fetched") \/ Reply(i))

HandleVoice(i) ==
    \/ Take(i, "voice") \/ Decline(i)
    \/ kind[i] = "voice" /\ (Fetch(i) \/ Hear(i) \/ NameUpload(i, "heard") \/ Reply(i))

\* The handler of MAX for all kinds: only a document is named at once.
HandleAttachments(i) ==
    \/ \E k \in {"max file", "max media"} : Take(i, k)
    \/ Decline(i)
    \/ kind[i] = "max file" /\ (Fetch(i) \/ NameUpload(i, "fetched") \/ Reply(i))
    \/ kind[i] = "max media" /\ (Fetch(i) \/ Hear(i) \/ NameUpload(i, "heard") \/ Reply(i))

-----------------------------------------------------------------------------
\* A tool names what it fetched and puts the identifier in its result.
NameFetched(i) ==
    /\ stage[i] = "fetched"
    /\ Name(i) /\ Return(i)
    /\ UNCHANGED <<disk, aged, rows, talked, closing, call, restarts>>

\* disk_download writes into the directory of the user, email_read (the attachments
\* of one mail) into the root of the tree.
ToolFetches(i) ==
    \/ FetchBegin(i) /\ UNCHANGED kind
    \/ Fetch(i) \/ NameFetched(i)

-----------------------------------------------------------------------------
\* A tool gets an identifier the agent was told, in this session or before; when
\* nothing resolves it, the agent is told so and the call is over.
Ask(c, k) ==
    /\ call[c].pc # "reading" /\ \E i \in Items : given[i] = k
    /\ call' = [call EXCEPT ![c] =
         IF Resolve(k) = None THEN NoCall ELSE [pc |-> "reading", id |-> k, got |-> None]]
    /\ IF idToPath[k] = None /\ Resolve(k) # None
       THEN Remember(k, Resolve(k)) ELSE UNCHANGED maps
    /\ UNCHANGED <<disk, aged, kind, rows, stage, given, talked, closing, restarts>>

\* The worker thread opens the file, or reports that there is none.
Read(c) ==
    /\ call[c].pc = "reading"
    /\ LET k == call[c].id  content == disk[idToPath[k]] IN
       call' = [call EXCEPT ![c] = IF content = Absent THEN NoCall
                                   ELSE [pc |-> "read", id |-> k, got |-> content]]
    /\ UNCHANGED <<disk, aged, kind, maps, rows, stage, given, talked, closing, restarts>>

\* A message without a file.
Talk(u) ==
    /\ talked' = talked \cup {u}
    /\ UNCHANGED <<disk, aged, kind, maps, rows, stage, given, closing, call, restarts>>

Age(p) ==
    /\ p \in Images /\ Present(p) /\ aged' = aged \cup {p}
    /\ UNCHANGED <<disk, kind, maps, rows, stage, given, talked, closing, call, restarts>>

-----------------------------------------------------------------------------
\* A /new of an empty session changes nothing here: it removes no file.
NewStart(u) ==
    /\ closing[u] = "idle" /\ u \in talked
    /\ closing' = [closing EXCEPT ![u] = "archiving"]
    /\ UNCHANGED <<disk, aged, kind, maps, rows, stage, given, talked, call, restarts>>

NewFailed(u) ==
    /\ closing[u] = "archiving"
    /\ closing' = [closing EXCEPT ![u] = "idle"]
    /\ UNCHANGED <<disk, aged, kind, maps, rows, stage, given, talked, call, restarts>>

\* Slip: the age of the images is not looked at.
NewArchivedAnyAge(u) ==
    /\ closing[u] = "archiving"
    /\ closing' = [closing EXCEPT ![u] = "closing"]
    /\ Sweep(Images)
    /\ UNCHANGED <<kind, maps, rows, stage, given, talked, call, restarts>>

\* The archiver publishes ConversationArchived: old images of all users go.
NewArchived(u) ==
    /\ closing[u] = "archiving"
    /\ closing' = [closing EXCEPT ![u] = "closing"]
    /\ Sweep(aged)
    /\ UNCHANGED <<kind, maps, rows, stage, given, talked, call, restarts>>

\* The session is cleared and the directory of the user removed; the mapper is
\* not told.
NewClose(u) ==
    /\ closing[u] = "closing"
    /\ closing' = [closing EXCEPT ![u] = "idle"]
    /\ talked' = talked \ {u}
    /\ Sweep({p \in Paths : DirOf[p] = u})
    /\ UNCHANGED <<kind, maps, rows, stage, given, call, restarts>>

\* /reset clears the session and leaves the files.
Reset(u) ==
    /\ talked' = talked \ {u}
    /\ UNCHANGED <<disk, aged, kind, maps, rows, stage, given, closing, call, restarts>>

\* The process stops anywhere; the next start loads the rows whose file exists.
Restart ==
    /\ restarts < MaxRestarts /\ restarts' = restarts + 1
    /\ idToPath' = [k \in Items |->
         IF \E p \in Paths : Journaled(k, p)
         THEN CHOOSE p \in Paths : Journaled(k, p) ELSE None]
    /\ pathToId' = [p \in Paths |->
         IF \E k \in Items : Journaled(k, p)
         THEN CHOOSE k \in Items : Journaled(k, p) ELSE None]
    /\ stage' = [i \in Items |-> IF stage[i] = "idle" THEN "idle" ELSE "done"]
    /\ kind' = [i \in Items |-> None]
    /\ talked' = {}
    /\ closing' = [u \in Users |-> "idle"]
    /\ call' = [c \in Calls |-> IF call[c].pc = "reading" THEN NoCall ELSE call[c]]
    /\ UNCHANGED <<disk, aged, rows, given>>

Next ==
    \/ \E i \in Uploads : \/ HandleDocument(i) \/ HandlePhoto(i) \/ HandleVoice(i)
                          \/ HandleAttachments(i)
    \/ \E i \in Fetches : ToolFetches(i)
    \/ \E c \in Calls : Read(c) \/ \E k \in Items : Ask(c, k)
    \/ \E u \in Users : \/ Talk(u) \/ NewStart(u) \/ NewFailed(u)
                        \/ NewArchived(u) \/ NewClose(u) \/ Reset(u)
    \/ \E p \in Paths : Age(p)
    \/ Restart

Spec == Init /\ [][Next]_vars

-----------------------------------------------------------------------------
TypeOK ==
    /\ disk \in [Paths -> Items \cup {Absent, Partial}] /\ aged \subseteq Paths
    /\ idToPath \in [Items -> Paths \cup {None}]
    /\ pathToId \in [Paths -> Items \cup {None}]
    /\ rows \subseteq Items \X Paths
    /\ kind \in [Items -> {None, "document", "photo", "voice",
                             "max file", "max media"}]
    /\ stage \in [Items ->
         {"idle", "fetching", "fetched", "heard", "named", "working", "done"}]
    /\ given \in [Items -> Items \cup {None}]
    /\ talked \subseteq Users
    /\ closing \in [Users -> {"idle", "archiving", "closing"}]
    /\ call \in [Calls ->
         [pc : {"idle", "reading", "read"},
          id : Items \cup {None}, got : Items \cup {None, Partial}]]
    /\ restarts \in 0..MaxRestarts

\* What a tool reads under an identifier is the file the identifier was made for,
\* whole, whatever /new, other users' archiving, failed downloads and restarts did
\* in between: identifiers and paths are never mixed up or used again.  Only a
\* second fetch of the same remote name can put another content under it.
ReadsWhatWasNamed ==
    \A c \in Calls : call[c].pc = "read" =>
        LET k == call[c].id IN
        IF Alone(k) THEN call[c].got = k
        ELSE call[c].got = Partial \/ PathOf[call[c].got] = PathOf[k]

\* An identifier the agent has been told in a message of the journal leads to its
\* file as long as the file exists, through every restart.
JournaledNamesResolve ==
    \A k \in Items, p \in Paths :
        <<k, p>> \in rows /\ Present(p) => Resolve(k) = p

\* A file goes only by a /new of its own user, or as an image that nobody wrote
\* for an hour, at the end of an archiving; else a download of that very path
\* replaces it.  No command of one user takes the fresh file of another.
FilesGoByOwner ==
    [][\A p \in Paths : Present(p) /\ disk'[p] = Absent =>
          \/ DirOf[p] \in Users /\ closing[DirOf[p]] = "closing"
          \/ p \in aged /\ \E u \in Users : closing[u] = "archiving"
          \/ \E i \in Items : PathOf[i] = p /\ stage[i] = "fetching"]_vars
=============================================================================
