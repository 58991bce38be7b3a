# A TLA+ model of ai-multi-agent-system

The repository is a local assistant: one asyncio process per channel (Telegram,
MAX, console), an agent loop over a local model (Ollama), and one SQLite file,
`data/memory.db`, that the processes share. This directory models the parts of it
whose difficulty is in order, overlap and failure, and checks them with TLC on small
instances. TLAPS proves for every instance the safety properties among them that hold,
and of the liveness properties all but that awaits return.
All paths below are under `src/`.

## The system

| component | state | operations | hard because |
|---|---|---|---|
| `ConversationStore` (`app/services/conversation.py`) | `_messages` (window for the model), `_session_log` (whole session), `_conversation_ids`, file contexts; all in memory, by user | add, read, compact, clear, rotate | read before an await and changed after it by another handler; lost by a restart |
| `DialogJournal` (`dialog_journal.py`) | rows of a table, each with `archived_at` or NULL (a debt) | append, pending, read, mark | one thread call per operation; grouped by user, chat and session, marked by user and session |
| `/new`, `/reset` (`commands/registry.py`), `Archiver` | none of their own | snapshot, summarise, embed, insert, mark, clear, rotate | several seconds between the snapshot and the mark |
| `recover_pending_journals` | list, semaphore, summary | one job per session of the list | runs beside live traffic, once per process |
| `SemanticMemory` (`memory.py`) | `memory_chunks`, `memory_vec`, one connection without a lock | insert, insert_batch, search, delete | statements of two threads in one transaction |
| event bus (`core/events.py`) | subscribers | subscribe, publish | order of subscribers |
| orchestrator, executor, planner, critic | per call only | plan, loop, repair, review, revise | bounds, fallbacks, every exception on its own path |
| `OllamaClient` (`llm.py`) | a semaphore | chat, embed | shared by live and background work |
| scheduler (`scheduler.py`, `scheduler_runner.py`, `scheduled_tasks.py`) | table, in-memory jobs | add, remove, rehydrate, run | table and jobs are changed in two steps, in several processes |
| users (`users/repository.py`) | table | get_or_create | two processes at once |
| `FileIdMapper`, temporary files | two dictionaries | map, look up, clean | a name that outlives its file |
| process (`main.py`, `max_main.py`, `console_main.py`) | tasks | start, poll, stop | cancellation anywhere, five seconds to close |
| channel adapters (`app/adapters/`, `max_main.py`) | marker of the polling loop | poll, dispatch, reply in parts, retry | answers lost on the way, a stop between two polls |
| text functions (`archiver.chunk_text`, `utils/text.py`, `telegram/utils.py`, `agents/protocol.py`, `cron_parser.py`) | none | cut, format, parse | limits, overlaps, what a model writes, where a week begins |

Handlers call the event bus; its subscribers write the store and the journal; the
orchestrator reads the store, calls the model and answers; commands read and close
the store, write the archive and mark the journal; the recovery task reads the
journal and writes the archive without the store. Nothing locks a session: an
asyncio segment between two awaits is atomic, a statement in a worker thread is
atomic, and everything else interleaves. On Telegram each update is a task of its
own, so that handlers of one user overlap; MAX and the console dispatch one update
after the other, and only their background tasks overlap with it.

The hazards this gives are listed in `PROJECT.json`, each at its line, with the
properties that cover it or the reason why none does.

## Modules

| module | models | role |
|---|---|---|
| `SessionArchive` | session log, journal, /new, /reset, recovery, restarts | the core |
| `ContextWindow` | the window of messages, compaction, bootstrap | what the model is shown of the same session |
| `FileStore` | temporary files, identifiers, tools that read files | what /new and archiving do to files |
| `TextShelf` | what the long-term memory promises | abstract specification |
| `ChunkStore` | statements of `SemanticMemory` on its connections | implements `TextShelf` |
| `TaskBook` | what the scheduler promises of tasks | abstract specification |
| `Scheduler` | table, jobs, requests, cancellations, runs of several processes | implements `TaskBook` |
| `ModelGate` | the semaphore of `OllamaClient` and its queue | operations used by `AgentTask` |
| `AgentPromise` | what `handle_user_task` promises its caller | abstract specification |
| `AgentTask` | orchestrator, planner, executor, critic, tools, archiving jobs at the gate | implements `AgentPromise` |
| `Delivery` | polling, dispatch and replies of the three channels | around every handler |
| `Runtime` | start and stop of a process, the users table | around everything |
| `Texts` | chunks, message parts, code blocks, answers of a model, weekdays | pure functions |
| `MC...` | constants of the runs of a module | TLC |
| `...Proofs` | | theorems about a module; those about `Texts` are in `DeliveryProofs` |

`AgentTask` extends `ModelGate`; `Scheduler`, `AgentTask` and `ChunkStore` instantiate
their abstract specifications. The other modules meet in what one assumes and the
other shows: that a batch of `SessionArchive` is committed as a whole is `PromiseKept`
of `ChunkStore`; that a message handler gets an id of its user is `UsersAgree` of
`Runtime`; that a handled message may come again after a restart, which the handlers of
the other modules are not told, is `RepeatsNeedRestart` of `Delivery`.

### SessionArchive

State. `log` and `cid` are `_session_log` and `_conversation_ids`; `turn[m]` is the
place of the handler of message `m` (`asked`: recorded, row not yet written;
`thinking`: the agent works; `answered`: reply recorded, row not yet written);
`new[n]` is the place of a `/new` with the snapshot and the id it read; `journaled`
and `archived` are the rows and the marked rows; `memory` is the sequence of
committed batches of `memory_chunks`; `phase`, `listed`, `waiting`, `jobs`,
`settled`, `failed` are the recovery task of each process (its list, the sessions
without a slot, the running ones, the counters `archived` and `failed` of its
summary as sets). `home`, `evicted`, `late` and `worthless` are history: the session
in which an entry was recorded, what a full log dropped, which rows were inserted
while their session was being archived, which rows were closed as junk.

Actions. `Receive`, `JournalMessage`, `Reply`, `GiveUp`, `JournalReply` are the
segments of a message handler between its awaits, with the subscribers of the bus
they run; a journal write may fail, which the code logs. `NewEmpty`, `NewStart`,
`NewArchived`, `NewFailed`, `NewMark`, `NewClose` are `cmd_new`; `Reset` is
`cmd_reset`. `ListPending`, `JobStart`, `JobUnread`, `JobArchived`, `JobMarked`,
`JobFailed`, `FinishRecovery` are the recovery task. `Crash` is any stop: memory is
gone, the file stays; `Restart` starts the process and its recovery.

Data is abstracted: an entry is a pair of a message and a role, its text only a
length (the threshold of junk sessions); a batch is the set of entries it summarises
(the summary, its chunks and vectors are one committed insert, since `insert_batch`
commits once and an empty summary raises before it); conversation ids are numbers
that are never repeated, as uuid4 is taken to be. A console user's log stays empty
(`Misfiled`) because the subscriber files entries under a string key nobody reads.

Not in this module: the window of messages (`ContextWindow`), files (`FileStore`),
sending the reply (`Delivery`).

### ContextWindow

State. `window` is `_messages` of one user; `turn[m]` is the place of the handler of a
message, with what the bootstrap decided (`boot`) and the history a compaction has
read. `said` numbers what was said; `start`, `evicted` and `first` are history. An
entry is the set of numbers it covers: its own, or those a summary was made from.

Actions. `Receive` and `Answer` are the two writes of the subscriber; `ReadHistory` is
the read of `handle_user_task` with the decision to ask the archive; `CompactStart`,
`Compact` and `CompactFailed` are the summariser subscriber, whose call of the model
lies between its read and `replace_with_summary`; `Clear` is the end of `/new` or
`/reset`, `Restart` an empty store. In a run the channel is MAX, where a user's
handlers and commands come one after the other (`MayBegin`), or Telegram, where they
overlap. Roles, texts and the wording of the summary are left out.

### FileStore

State. `disk` says what lies at each path of the temporary tree (an item, part of one,
or nothing); `idToPath` and `pathToId` are the two dictionaries of `FileIdMapper`, `rows`
the rows of the journal with a file. `stage` and `kind` are the place of the handler or
tool that brings an item, `closing` that of `/new`, `call` a call of a tool that reads by
identifier. An identifier is called after the item it was made for.

Actions. `HandleDocument`, `HandlePhoto`, `HandleVoice` (Telegram) and `HandleAttachments`
(MAX) download, transcribe or describe, name, journal and answer; `ToolFetches` is
`disk_download` and `email_read`; `Ask` is `get_path` with its fallback to the journal,
`Read` the worker thread that opens the file. `NewArchived` removes the old images of
all users (the subscriber of `ConversationArchived`), `NewClose` the directory of its
user; `Restart` rebuilds the dictionaries. Contents are the items themselves; a download
that meets a removal or another download of the path has every outcome the file system
allows.

Not in this module: a removal that fails half-way, the images of a PDF.

### ChunkStore and TextShelf

State. `db` is what is committed (chunks and vectors by rowid, the sequence of
AUTOINCREMENT); `writer` and `draft` are the one open transaction SQLite allows and the
database as it leaves it; `last[p]` is the last rowid of the connection of process `p`;
`pc`, `at`, `row` are the place of each call.

Actions. One per call of the sqlite3 module in `insert`, `insert_batch` and `delete`:
`InsertChunk`, `ReadRowid`, `InsertVec`, `DeleteChunk`, `DeleteVec`, `Commit`, `Rollback`;
`Fail` is an error of any of them, `Close` a closed connection or a stop. A transaction
belongs to a connection, so that in a process that is not in `Serial` calls of two
threads mix. `Hits` is the join of `search`; distances, and the filter by user behind
them, are left out.

`TextShelf` has batches that are put on the shelf whole or refused whole, and texts that
are taken off. `Found` reads the shelf off the join of chunks and vectors.

### Delivery

State. By channel: `arrived` and `confirmed` are the server's (or the terminal's) side,
`todo` and `upTo` the batch in the process and the marker or offset of the next poll.
`run[m]` is the handler of message `m`: its kind, where it is, which part of how many it
sends, the failed attempts. `begun`, `ended`, `shown` are history; `shown[m]` is what the
chat shows of the reply.

Actions. `PollMax` and `DispatchMax` are the loop of `max_main`; `PollTelegram` is
aiogram's, external, which makes a task of every update; `ReadLine` is the loop of the
console. `ReplyText`, `ReplyCommand` and `Raise` are the outcomes of a handler's work,
`SendMax`, `SendText`, `SendPlain`, `SendResult`, `SaySorry`, `PrintReply` the ways a
reply is sent with their retries and fallbacks. A call of the server may have its
effect and lose its answer. `Restart` is a stop anywhere: the marker is gone.

### Runtime

State. `phase`, `asked`, `polling`, `recovery`, `next`, `closed` are `main` of each
instance; `pc` is the handler of a message, `adrift` those that were cancelled while a
thread works for them; `lock` is the `asyncio.Lock` of `UserRepository`, `rows`, `open`
and `last` the users table, the open transactions and the sequence; `made` counts
`UserCreated`.

Actions. `Boot`; `Signal`, `PollingEnds`, `AwaitFirst` are the wait for the first of two
tasks; `StopRecovery`, `CloseNext`, `Leave`, `Exit` are `_shutdown_components` (each
part may fail to close, five seconds may be over anywhere), the cancellation of what is
left by `asyncio.run` and the join of its threads; `Kill` is any other end. `Begin`,
`Lock`, `Select`, `Insert`, `Commit`, `Publish` are `get_or_create`, `Work` and
`ThreadEnds` the rest of a handler. Several instances of one channel exist while an old
one stops and a new one starts. `Parts` is the list of what is closed, in its order.

### Texts

`CallSpec` is one call of one function: `ChunksOf` is `chunk_text`, `PartsOf`
`split_long_message`, `Openers`, `Closers` and `Rendered` are `format_for_telegram`,
`ParseAgent`, `Salvage`, `ParsePlan` and `ParseCritic` the parsers of `protocol.py`. A text
to be cut is its length and a piece of it an interval; a reply is a sequence of words and
fences, a part of it an interval of them with its kind, text or code; an answer is a record
of what kind of value each field has. The loops are recursive functions of the place they
have come to (`ChunksFrom`, `RenderedFrom`), so that they can be reasoned about.
A weekday field is a list of parts, by numbers or names (`by`): all days, every n-th, one
day, a range, every n-th day of a range. `Converted` is `_convert_cron_dow_field`, with its
order of tests: a field with a letter anywhere stays as it is, and a list or a range that
does not pass `int()` or `_DOW_NAMES` is none. `FieldOf` is `parse_cron`, whose patterns
find Sunday only in its short form. `FiresOn` is what the scheduler library makes of a
field: names are days, numbers count from Monday (`scheduler.py:25`), and a range that ends
before it begins is refused. `CronDays` is the reference, the days a field means in cron.
The minutes, hours and days of the month go to the library as they are written. Left out
are what only the library gives a meaning: a range from a name to a number, a step behind a
name or a single number, and its own words for days of a month. A phrase has a time in it,
and the model that calls the tool gives no cron beside it; with one, a phrase that is not
understood is scheduled by that.

### Scheduler and TaskBook

State. `rows` is the table `scheduled_tasks` as it is stored, one file for all processes;
`writer` and `draft` are the open transaction of one connection, if there is one, and the
table as it leaves it. `jobs[p]` is what the APScheduler of process `p` holds in memory,
`mode[p]` where its lifecycle is and `snapshot[p]` the list that `_rehydrate` holds
between its await and its loop; `req`, `cancel` and `run` are the places of a
request to schedule, of a cancellation and of the run of a task in a process.
`created` is history.

A transaction stays open when the commit of `add`, `delete` or `mark_run` raises
(`scheduled_tasks.py:164`, `:229`, `:241`): the file is in use, and nobody rolls back. Every
write has three outcomes: `Commits` stores it with all that was left open, `StaysOpen`
raises and leaves it, `Fails` raises before it or after an error that SQLite rolls back
itself. The process that has a transaction open sees its own table (`View`), the others
cannot write. `CloseStore` and `Stop` drop it.

Actions. `Start`, `ListEnabled`, `Rehydrate` are `SchedulerService.start`, after
which polling begins; `Close` is the moment of `_shutdown_components` at which the
scheduler stops, while handlers that were under way may still go on; `Stop` is the
end of the process, anywhere. `Count`, `Insert`, `Register` are the awaits of
`cmd_schedule` and of the tool, `DeleteRow`, `RemoveJob` those of `remove_task`.
`Fire` is APScheduler's trigger (external: it fires at any time and not while the
same job still runs); `ReadTask`, `Work`, `MarkRun`, `Deliver` are the awaits of the
job, each of which may raise. Creation times, prompts, cron expressions and what is shown
of the last run are left out; tasks are always enabled, since nothing in the code disables
one. The processes are any number, and two of them may be instances of one channel, an old
one that stops and a new one; a request belongs to the process that gets it (`ProcOf`). So
`TableIsScheduled` says of such a pair that a task has its job in the instance that was
asked: one that is entered in the old instance after the new one has read the table gets
its job in the new one at the next start. `LimitKept` is about users whose requests all go
to one serial process.

`TaskBook` has neither jobs nor a table: a task is entered once, struck out once (`Write`,
of several tasks where one commit stores what others left open), begun only while it is
entered and by one process at most once at a time, and what is begun ends. `BookOf` reads the book from table and history, `BusyRuns` is the set
of runs that have passed `ReadTask`; a run that has only fired is not yet begun,
which is why a job left behind in another process is harmless.

### AgentTask, ModelGate and AgentPromise

State. `place[t]` is the await of task `t`, a call of `handle_user_task`: a model
call (`boot`, `plan`, `compact`, `decide`, `lookup`, `review`), or another one
(`search`, `tool`, `found`), or its end. `step` and `attempt` are the counters of the
loops in `run` and `_decide`, `round` counts the runs of the executor that have
returned, `reviews` is the number of iterations the mode allows (0 for OFF and after a
planner that raised). `job` and `embed` are the archiver's summary and the parallel
embeddings of its chunks; `part` numbers the model calls of a summary. `inside` and
`queue` are the semaphore, its holders and its waiters. `given` and `calls` are
history: the draft that was answered, and the model calls of a task.

Actions. One action per await that ends, up to the next one: the segment of code in
between is atomic in asyncio. What the model says is a choice: a final answer, a tool,
an answer to repair, an error; a plan or an exception; PASS or REVISE. So is whether a
context is large enough to be summarised. `Goto` gives back the slot of the call that
has ended and asks for the next one; when both happen without an await between them,
whoever waits is served first (`Again`), as `asyncio.Semaphore` does since it is fair.
`ArchiveBegin` to `ArchiveEnd` are `Archiver.archive` under the recovery task: a
summary in several calls, then the embeddings in the order of `gather`, `EmbedSlots`
at a time. `/new` runs the same code without the limit of `JobSlots`; it adds callers
of the same kind and no new step. A session that was archived may come again, with new
content, so that background work never ends.

Not in this module: the text of prompts and answers, what the parser accepts, the
timeouts inside a call (an error of the call), and the cancellation of a caller that
waits, which only the stop of the process does.

`AgentPromise` knows a task as idle, open, answered or failed, and how many drafts it
has: it ends once; the answer is the latest draft; with a draft there is no error. So
a revision that fails, after any number of reviews, gives the draft before it, and a
critic that fails the one it was to judge.

## Runs

| run | question | instance |
|---|---|---|
| `overlap` | does overlap, overflow, a failure anywhere or a restart lose or mix up rows? | Telegram; 1 message and its reply, 2 `/new`, log of 1, 1 crash, a second process that recovers too |
| `serial` | does recovery beside live traffic pay every debt, stay within its slots, end; does /new return? | MAX; 2 messages of one user in two chats, 1 `/new`, 1 `/reset`, 2 slots |
| `unarchived` | is every marked row archived, or going to be? (no) | Telegram; 2 messages, 1 `/new` |
| `window` | is the window the session, in order; when is the archive asked? | MAX or Telegram; 4 messages, a window of 4, compacted from 3 on, 1 `/new`, `/reset` or restart |
| `files` | does an identifier lead to its file and to no other, and who removes files? | 1 photo, 2 mail attachments of one name, 1 tool call, 2 users, 1 restart |
| `memory` | is a batch kept whole or refused whole, with its own vectors? | 2 processes, each serial; batches of 2, 2 and 1, a delete |
| `halves` | is a batch one transaction? (no) | 1 process, 2 batches of 2 in two threads |
| `tasks` | do table, jobs and runs agree, is the limit kept, is it the book of tasks, does it end? | MAX and a Telegram process; 2 tasks, a limit of 1, 1 cancellation |
| `agents` | is a slot lost, are calls bounded, is the promise kept, does the task come back? | 1 task (2 steps, 1 repair, 2 reviews), 2 sessions to archive of 4 chunks, one at a time, 3 embeddings at once, 2 slots |
| `delivery` | is a message lost, repeated, left lying; is a reply in order? | 3 of MAX, 1 of Telegram or 2 of the console; replies of 1 or 2 parts, 2 restarts |
| `runtime` | do instances agree on users, what is closed under whom, does a stop end? | 2 instances of one channel, 3 messages, 2 users, 1 start of each |
| `text` | do the pure functions do what their callers rely on? | texts of up to 11 characters, replies of 6 tokens, all answers, plans of 7 steps, weekday fields of one or two parts with numbers up to 8 and names, phrases of one or two days |

Bounds. `MaxCrashes`, `MaxResets`, `MaxRestarts`, `ClosesAllowed` and `MaxBoots` cap the
actions that could repeat for ever; messages, commands and calls are consumed, so
nothing else grows.
- Session. One message gives two entries, which is what a snapshot, an overlap and an
  overflow of a log of one need; two `/new` of the same user give the overlap of two
  snapshots, and with the recovery of two processes up to four archiving operations of
  one session at a time. Two chats make one session two keys of the recovery list. Users
  do not interact except through the recovery list, so one user is enough.
- Window. A threshold of three with a kept tail of two is the least at which a
  compaction compacts, and a window of four leaves a place in which it can overflow; four
  turns give eight entries, so that a second compaction covers the first summary. Turns
  play the same role and are symmetric.
- Files. Two fetched files of one name of two users are the only way in which two items
  share a path; a photo is an image that ages.
- Memory. A batch of two is the least that can be kept by half; with one more batch in
  the same process a rowid is given again after a rollback, and the delete meets a row
  that was committed by another process.
- Scheduler. A task is requested once and a cancellation called once; two requests at
  a limit of one (`MaxJobs`) are the case in which the count matters, and in which a row
  that a failed commit left open is stored by the next one. Processes start
  and stop without bound.
- Agents. Each limit is the least at which it is reached and passed by one: two steps,
  so that one is not the last; one repair; two reviews, so that DEEP differs from
  NORMAL; two parts of a summary; more embeddings at once than slots, with one chunk more
  than run at once, so that the archiver's semaphore and the gate's queue both fill. One
  task is enough: tasks meet at the gate only, where two jobs and eight embeddings
  compete with it. Nothing caps the background jobs.
- Delivery. Channels share nothing, so `Loads` takes one at a time. Three updates of MAX
  make a batch that ends in the middle at a stop; a handler of Telegram has the most
  steps, and one message with two parts (`MaxParts`) reaches them all.
- Runtime. Two instances are what a replacement needs; two of three messages are of one
  user in different instances, two of different users in the same.
- Texts. Eleven characters hold several pieces of every small size with every overlap. Two
  parts of a weekday field are what a name beside a number and a range in a list need, and
  8 is the first number that is no day.

The proofs have none of these bounds.

Fairness. Nothing is assumed of users, crashes, signals, starts or restarts.
- `SessionArchive`: a started handler, a started `/new` and the recovery task of a
  running process take a step when they can: their awaits are model calls with a
  timeout, SQLite statements and sleeps, all of which return or raise.
- `Scheduler`: the same for the steps of a request, a cancellation and a run; triggers
  may never come.
- `AgentTask`: a task, a job and an embedding that can step does: a call of the model
  ends by its timeout at the latest. No fairness is assumed of the gate: that a task gets
  its turn (`PromiseMet`) comes from the order of its queue, and with a gate that does not
  wake its waiters it fails.
- `Delivery`: a poll that is sent again and again is answered some time (strong
  fairness, since each attempt may lose its answer), the batch at hand is dispatched, and
  handlers step. A process that is down again and again is not assumed away: restarts
  are bounded, and `MessagesAreServed` excuses them on the channels that forget.
- `Runtime`: `main` steps when it can, and a blocking call made in a thread returns when
  `ThreadsEnd` says so. Handlers are not assumed to make progress: a stop does not wait
  for them.

## Disagreements

Two are runs and findings of `PROJECT.json`:
- `unarchived`: an exchange that overlaps `/new` is marked archived without being in the
  archive. `ArchivedRowsAreKept` is the form that holds: it names `late` as the only
  way, besides junk and overflow, for a row to leave the debt without being archived.
- `halves`: calls of two threads share the transaction of one connection, so that the
  commit of one stores half of another, which may then be rolled back. Where the calls
  of a process do not overlap the store is sound (`memory`, and the theorems).

The following are stated by a definition of the module and false in it, with a short
counterexample that no run repeats:
- `ArchivedOnce` (`SessionArchive`): the recovery takes the open session too, and `/new`
  archives it again.
- `NewSeesSession` (`SessionArchive`): the console user's `"-1"` is not a digit string,
  the subscriber files its messages under the string, and `/new` reads the key `-1`
  (`conversation_subscriber.py:29`).
- `ListedTasksRun` (`Scheduler`): when the commit of a request fails, its user is told of an
  error, but the row is in `/schedules` of that process and the next commit stores it
  (`scheduled_tasks.py:164`). It has no job until a process starts. `TableIsScheduled` is
  the form that holds: it names such a row as the only one without a job.
- `ToldInChannel` (`Scheduler`): every process runs the enabled tasks of all channels and
  delivers the result in its own, against `_docs/scheduler.md:90`.
- `LimitOfEveryone` (`Scheduler`): where handlers overlap two requests pass the limit,
  and on every channel a cancellation whose commit fails takes its task out of the count,
  and may come undone behind it, by an error after which SQLite rolls back. `LimitKept` is
  the form that holds.
- `ToolWorks` (`Scheduler`): the tool that schedules cannot create a task, since the
  executor's context has no channel (`schedule_task.py:94`).
- `LiveHasSlot` (`AgentTask`): the embeddings of one recovered session take every slot,
  against `_docs/memory.md:395`; live requests wait for as long as those calls last, but
  not for ever.
- `WeekdaysAreCron` (`Texts`): a weekday field `*/n` goes to the library as it is, which
  counts from Monday, so does a number beside a name, and `0-7` becomes Sunday to Sunday,
  against the docstrings at `scheduler.py:32` and `:53`: `*/2` fires on Sunday, Monday,
  Wednesday and Friday, `0,wed` on Monday and Wednesday. `WeekdaysHonoured` is about every
  other field: it fires on its days, or it is one of those that are refused (`NotTaken`),
  those with a number that is no day, ranges that go on behind a Sunday, such as `0-5`,
  ranges with a step (`1-5/2`) and, among numbers, lists with a range (`1-3,5`).
- `BatchWhole` (`ChunkStore`) is the finding above.

The others were met while modelling:
- `parse_cron` does not understand a Sunday that is written out, in "every Sunday" or in the
  plural (`cron_parser.py:23`, `:113`), takes the first of several days, and Sunday for every
  week whatever day is named after it. `WeekdaysHonoured` says so.
- `get_global_mapper` opens the journal at the default path (`security/file_id_mapper.py:54`)
  also when `MEMORY_DB_PATH` names another; `FileStore` has the two agree.
- The five seconds of the shutdown bound the closing of the parts. `asyncio.run` and the
  interpreter still join the threads of the default executor, so that `StopEnds` needs
  `ThreadsEnd`; `_docs/current-state.md:188` says the bound keeps such a thread from
  hanging the stop. Closing the transport and cancelling the recovery are outside it.
- On Telegram, where turns overlap, `WindowIsSession` and `BootstrapsFirstTurn` fail:
  a compaction that overlaps two other turns forgets their entries, one that overlaps
  `/new` puts the old summary into the new window, and two overlapping first messages
  get no bootstrap, against `_docs/memory.md:301`. `WindowInOrder` holds.
- `HISTORY_MAX_MESSAGES = 1` passes the validators (`config.py:293`), but the window then
  always holds one message, and the orchestrator asks the archive about every message as
  if it were the first (`orchestrator.py:75`). `ArchiveAskedOnce` needs two.
- `/new` of an empty session returns before it removes the user's files
  (`registry.py:152`), where FR-39 (`_docs/requirements.md:79`) has it clean them; the
  identifiers of removed files stay in memory and lead to "file not found".
- The cache of file contexts is keyed without the chat (`conversation.py:143`).
- A reply is split before its code blocks are formatted (`messages.py:238`): a block may
  be cut, and a part may grow over the limit it was cut to. The plain send that follows a
  refused part has no second attempt.
- On MAX, an exception of a handler that is none of the model's errors ends it without a
  word to the user.
- A commit of a new user that fails leaves its row in the open transaction, with the lock
  of the file, until the next commit of that connection; a stop before that loses a row
  whose id was used, and the id is given again. A stop between commit and publish loses
  `UserCreated`.
- A search takes `top_k * 4` neighbours of all users and filters afterwards
  (`memory.py:238`): many near texts of others can leave a user with none.
- The transcription of a Telegram voice message blocks the event loop.

## Proofs

Every invariant and every action property that a passing run checks is a theorem, for
every value of the constants that the hypotheses named below allow, and so are the safety
parts of the three refinements. Of the
seven liveness properties the proofs give what safety can say: that whoever is waited
for is not sent back, overtaken or restarted, and that each of its steps lowers a number of
steps left that nobody else raises. As far as the table says, what is left of them to TLC is
that the steps are taken, which is the fairness stated above.

| liveness, checked by TLC | its safety core, proved |
|---|---|
| `DebtIsPaid`, `NewReturns` | `DebtComesToEnd`, `NewComesToEnd` (`SessionArchiveProofs`) |
| `CancelledFallsSilent`, `BookEnds` | `CancelledComesToEnd`, `BegunComesToEnd` (`SchedulerProofs`) |
| `PromiseMet` | `GateIsFair`, `TasksEnd` (`AgentTaskProofs`) |
| `MessagesAreServed` for a handler that runs, not for the polling | `HandlersEnd` (`DeliveryProofs`) |
| `StopEnds` | `StopComesToEnd` (`RuntimeProofs`) |

`SessionArchiveProofs` proves, for every value of the constants that satisfies the
two named assumptions, `[]TypeOK`, `[]ArchivedRowsAreKept`, `[]BatchesAreOneSession`
and `[]SessionLogComplete`. The assumptions type the constants and say that every
message has a chat; no relation between processes, users or lengths is assumed.

`ArchivedRowsAreKept` is not inductive: that marking is safe depends on what the
operation that marks has read some steps ago. `ArchiveInv` adds
- `IdsInv`: ids come from one counter, an entry is recorded once, a row was said;
- `LogInv`: the log of a user is the current session, whole but for what overflowed;
- `NewInv`, `JobInv`: what a running `/new` or job holds includes every row of its
  session except the late, overflowed or worthless ones, and is covered by
  `memory` once it was inserted;
- `BatchInv`: the batches of the past are of one session.

The steps are proved by conjunct: `NextIds`, `NextLog`, `NextNew`, `NextJobs`,
`NextBatches`, `NextKept`. Two facts carry them: the history only grows
(`NextMonotone`), and a row that appears while an operation holds its snapshot is
`late` (`AppendRowMonotone`), which makes the claims about snapshots stable.

`SchedulerProofs` proves `[]TypeOK`, `[]TableIsScheduled`, `[]LimitKept` and that
`Spec` implements the safety part of `TaskBook` (`SchedulerKeepsBook`), from
`SchedulerAssumption`, which types the constants and takes the set of tasks to be
finite. The inductive invariant `SchedulerInv` adds: a request writes its row once
and only while its process serves (`RequestInv`); an open transaction adds only rows whose
request failed in it, brings none back and lacks only what a cancellation named
(`DraftInv`); jobs and runs are of tasks that were stored (`StoredInv`); what was deleted does not come
back (`CancelInv`); no row appears between the reading of the list and the loop that
registers it (`SnapshotInv`); and on a serial channel there is one request at a time,
which counted while it was under way (`SerialInv`). The refinement is proved action
by action: every step is a step of the book or leaves it alone. `CancelledComesToEnd`
follows a task that was deleted: its row does not come back, stored or open, no process
begins to work on it, and `StepsLeft` of every run under way only goes down, in whichever
process it is. `BegunComesToEnd` says of a run that was begun, deleted or not, that each of
its steps lowers the same number and nothing else moves it but the stop of its process.

`AgentTaskProofs` first proves for each operation of the gate that it keeps `GateSound`
and whom it makes known to the gate or removes from it; the facts about finite sets and
sequences are used there and nowhere else. Then it proves `[]TypeOK`,
`[]GateKept`, `[]CallsBounded` and that `Spec` implements the safety part of
`AgentPromise`, from `GateAssumption` (there is a slot), `AgentAssumption` (the limits
are numbers, those of steps and reviews positive) and `CallersAssumption` (tasks, jobs
and embeddings have different names). `RoundInv` says, by place, how many runs have
returned and what was answered; types and the promise follow from it. `GateKept` is
inductive with the types, since every segment of a task is one `Goto` (`TaskGoes`),
which needs only that the call it leaves is inside the gate. `CallsBounded` is not
inductive: `CallsInv` bounds the calls at every place by what the runs before
(`AfterRuns`), the steps before (`AfterSteps`) and the attempts of this step may have
made, and `StepCalls` and `RunsCalls` are the arithmetic of the two products.

`GateIsFair` says of the queue at the gate that nobody overtakes: with each slot given
back all who wait move up by one and the first gets it, and otherwise they keep their
places. `TasksEnd` counts what a task still can do: between two model calls lies at most one
other segment, so that `SegmentsLeft` is bounded by `CallsBounded` and goes down with every
segment, whatever the model, the tools and the critic answer, and stays as it is while
others move.

`ContextWindowProofs` proves `[]TypeOK`, `[]WindowInOrder`, `[]WindowIsSession` and,
for a window of two messages or more, `[]BootstrapsFirstTurn`, from
`WindowAssumption` (what the validators of the configuration require). The lemmas of
the first section say what `Last` and `ButLast` cut off and that nothing is lost between
them; `PushParts` and `CompactParts` say what the two writes make of a window.
`WindowInOrder` is not inductive, since a summary is put before entries that were not
there when its history was read: `SummaryFits` adds that what a summary under way
will stand for comes before all that is said in the last two entries, which survives
pushes, evictions and other compactions. On MAX, `MaxInv` adds that one turn is under
way, that the history a compaction holds is the window as it is, and that a session in
which nothing was said has an empty window; from these the first message is exactly the
one that makes the window one entry long.

`FileStoreProofs` proves `[]TypeOK`, `[]ReadsWhatWasNamed`, `[]JournaledNamesResolve`
and `FilesGoByOwner` for any users, files, paths, calls and restarts, from
`FilesAssumption`. `FilesInv` relates the places where an identifier lives: the two
dictionaries of a process (`MapsAgree`), the rows of the journal (`RowsAgree`), the
files (`DiskAgrees`), the prompts that mention an identifier (`GivenAgrees`), the files
that were brought and not yet removed, which are whole (`WholeOrGone`), and what a tool
is about to open (`CallsAgree`).

`ChunkStoreProofs` proves `[]TypeOK`, `[]StoreIsSound` and that `Spec` implements the
safety part of `TextShelf` (`StoreKeepsPromise`), all for `Serial = Procs`: the calls of
one process do not overlap. Without that they are false, which is what the run
`halves` shows. `StoreInv` adds that a process has one call under way (`OneCall`), that
whoever holds the lock of the file has a call (`LockInv`), and that a call that writes
holds the lock and finds in its connection what its place says (`CallInv`). The
refinement needs `KeptInv` besides: a text is in one row (`OneEach`), a batch that is not
kept has no text in the store (`Fresh`), and a transaction adds exactly the texts of its
batch so far (`Adds`).

`DeliveryProofs` proves `[]TypeOK`, `[]MaxLosesNothing`, `[]RepeatsNeedRestart` and
`[]ReplyReadsInOrder`, from `DeliveryAssumption`. `MaxInv` says which messages of MAX are
behind the marker, in the batch and under way; `BeginInv` bounds how often a message was
begun by the restarts. The order of replies is an invariant of its own, `ReplyInv`:
what the chat shows of a reply fits the part its handler is about to send (`Fits`), and
a part is shown at most once for each attempt that has failed. `HandlersEnd` is the measure
of a handler: `Left` goes down with every attempt and every part, no poll starts a handler
again before its end, and it stops only by ending its message or with its process. For this
`BeginInv` says too that a running handler has a message that was given out.

The same module proves `PiecesAreWhole` and `InputIsUnderstood` of `Texts`, for texts and
replies of any length, any size and any overlap that is smaller. `ChunksFrom` and
`RenderedFrom` are recursive, and two things are shown of each before anything else: that
the equation by which it is defined holds (`Unfolding`, since a CHOOSE without a witness
says nothing), and that what holds at the end of a text and carries over from a later place
to an earlier one holds everywhere (`Descent`). The library states induction for an operator,
which cannot be instantiated here; `Descent` has the set of places at which the claim holds
instead of the operator, and follows from the least counterexample (`WFMin`). `Least` is
what it is called by the same argument.

`RuntimeProofs` proves `[]TypeOK`, `[]UsersAgree` and `[]ClosedLast`, from
`RuntimeAssumption`. `LifeInv` follows a process through its stop: once its handlers are
cancelled none of them is waited for (`Quiet`), but threads may still run. `TableInv` is
about the users table: one handler of a process at a time is between its first statement
and its publish (`OneInTable`), one process has rows in an open transaction, of users who
have none and under the next ids (`OpenRows`), stored rows differ and have ids that were
given (`StoredRows`), and one handler is about to publish a user, whose row is committed
(`Inside`, `OnePublish`). `StopComesToEnd`: `main` never goes back and every step of a stop
lowers `StagesLeft`; once it waits for its threads nobody enters one, and every call that
returns lowers `CallsLeft` of its handler.

`SessionArchiveProofs` also proves `[]RecoveryAccounts`: `AccountsInv` says that a listed
session is in one place, that no two jobs are of one session, that there are no more
jobs than slots, and that a process which is down or has not listed yet has no list.

`DebtComesToEnd` follows a row from the moment the list is made: its session is on the
list, and leaves it only with the row marked, as failed, or with the process. A session that
waits has three steps left, one that is archived two, one that is marked one
(`SessionLeft`); since a session has one job (`AccountsInv`), each step of the task lowers
one session of the list and leaves the others, or is its last. `NewComesToEnd` is the same
for `/new`, with the three awaits it has.

Model-checked only are the seven properties of the table as they are stated, under the
fairness of each module: liveness and ENABLED are beyond the prover. No theorem says that
the polling of a channel goes on.

## What is left

The components that are part of the running system's behaviour are modelled. Of those
that are modelled in part, these could follow, in this order:
1. the cancellation of a task that waits at the gate of the model client, by the stop of
   its process (`Runtime` cancels handlers without looking at the gate);
2. the end of the console's dialog when its context cannot be built;
3. the progress messages of `/new`, which are edited while the archive works.

Not modelled, and why:
- the removal of a user's directory that fails half-way, and the images a PDF is turned
  into: neither changes which file an identifier leads to;
- the regular expressions of the cron parser and the calendar of the scheduler library but
  for the days of the week: when a trigger fires is a choice of the model;
- the distances of the vector search, and the wording of prompts, summaries and errors;
- user settings: one dictionary for each, set and read in one synchronous step;
- prompts and skills, read once; sanitizers, tracing, configuration, logging: text and
  values, on which no order of steps depends;
- the clients of mail, Yandex.Disk, OCR, vision and transcription beyond the files they
  write and the failures of a download: calls of a network without state here;
- the scripts of the repository, which are not part of the running system.

`PROJECT.json` has the same by component, and each hazard without a property has its
reason there.
