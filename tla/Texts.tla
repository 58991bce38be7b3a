------------------------------- MODULE Texts --------------------------------
(***************************************************************************)
(* The pure functions between the parts: cutting a text into the chunks of *)
(* the archive or the parts of a message, finding the code blocks of a     *)
(* reply, understanding what a model has answered, and the days of the     *)
(* week of a schedule.  A text that is cut is its length, a piece of it    *)
(* the interval <<from, to>>; an answer is a record of what kind of value  *)
(* each field has.  One call is made of one function.                      *)
(***************************************************************************)
EXTENDS Naturals, Sequences, FiniteSets

CONSTANTS
    MaxLen,      \* bound: characters of a text that is cut
    MaxTokens,   \* bound: words and fences of a reply
    MaxSteps     \* bound: steps of a plan that a model writes

ASSUME TextsAssumption == MaxLen \in Nat /\ MaxTokens \in Nat /\ MaxSteps \in Nat

VARIABLES
    job,       \* the call
    result,    \* what it returned
    done
callVars == <<job, result, done>>

Min2(a, b) == IF a < b THEN a ELSE b

-----------------------------------------------------------------------------
(* Cutting.                                                                *)

\* Slip: the loop runs to the end of the text.
ChunksToEnd(n, size, overlap) ==
    LET from[i \in Nat] ==
          IF i >= n THEN <<>>
          ELSE <<<<i, Min2(i + size, n)>>>> \o from[i + (size - overlap)]
    IN from[0]

\* chunk_text: a window of size that moves by size - overlap; the chunk that
\* reaches the end is the last.
ChunksFrom(n, size, overlap) ==
    LET from[i \in Nat] ==
          IF i + size >= n THEN <<<<i, n>>>>
          ELSE <<<<i, i + size>>>> \o from[i + (size - overlap)]
    IN from
ChunksOf(n, size, overlap) == IF n = 0 THEN <<>> ELSE ChunksFrom(n, size, overlap)[0]

\* split_long_message; an empty text has one empty part.
PartsOf(n, limit) ==
    IF n <= limit THEN <<<<0, n>>>>
    ELSE [k \in 1..((n + limit - 1) \div limit) |->
             <<(k - 1) * limit, Min2(k * limit, n)>>]

\* format_for_telegram.  Of a reply, "open" is a fence before a line end, which may
\* begin or end a block, "shut" any other fence, which may only end one.  A block
\* is the nearest pair.
Fence(t) == t \in {"open", "shut"}
Least(S) == CHOOSE x \in S : \A y \in S : x <= y
Closers(reply, a) == {b \in (a + 1)..Len(reply) : Fence(reply[b])}
Openers(reply, i) == {a \in i..Len(reply) : reply[a] = "open" /\ Closers(reply, a) # {}}

\* The parts of the reply in the order in which they are sent, text and code in turn;
\* the fences of the blocks are left out, and a part without tokens is nothing.
Part(kind, from, to) == [kind |-> kind, from |-> from, to |-> to]
RenderedFrom(reply) ==
    LET rest[i \in Nat] ==
          LET a == Least(Openers(reply, i))
              b == Least(Closers(reply, a))
          IN IF Openers(reply, i) = {} THEN <<Part("text", i, Len(reply))>>
             ELSE <<Part("text", i, a - 1), Part("code", a + 1, b - 1)>> \o rest[b + 1]
    IN rest
Rendered(reply) == RenderedFrom(reply)[1]

-----------------------------------------------------------------------------
(* Understanding answers.  A field is missing, null, of another type, a    *)
(* blank string or a text; action may be the word "final_answer".          *)

Fields == {"missing", "null", "other", "blank", "text"}
Present(f) == f \notin {"missing", "null"}

ParseAction(a) ==
    IF a.thought = "text" /\ a.action = "text" /\ a.args = "object" THEN "action"
    ELSE "refused"

\* Slip: a thought alone is given to the user.
ParseLeaky(a) ==
    IF a.final = "text" \/ (a.thought = "text" /\ ~Present(a.action)) THEN "final"
    ELSE ParseAction(a)

\* parse_agent_response of an object.
ParseAgent(a) ==
    IF a.final # "missing"
    THEN IF a.final = "text" THEN "final"
         ELSE IF Present(a.thought) \/ Present(a.action) \/ Present(a.args) THEN ParseAction(a)
         ELSE "refused"
    ELSE ParseAction(a)

\* Of a text that is no JSON only a readable final_answer is saved.
Salvage(a) == IF a.final = "text" THEN "final" ELSE "refused"

\* parse_planner_response: one to six steps, each an object with an int and a
\* description that is neither blank nor too long.
ParsePlan(steps) ==
    IF Len(steps) \in 1..6 /\ \A i \in 1..Len(steps) : steps[i] = "step" THEN "plan" ELSE "refused"

\* parse_critic_response; no feedback and null are the empty one.
ParseCritic(c) ==
    IF c.verdict = "other" \/ c.feedback = "other" THEN "refused"
    ELSE IF c.verdict = "REVISE" /\ c.feedback # "text" THEN "refused"
    ELSE c.verdict

-----------------------------------------------------------------------------
(* Days of the week.  Users and cron count from Sunday, 0 to 6, and take 7 *)
(* for Sunday too; the library counts from Monday and knows days by name.  *)
(* The last field of a schedule is a list of parts: all days, every n-th,  *)
(* one day, or a range of days and every n-th of it, by numbers or names.  *)
(* A name is the number of its day as cron counts.                         *)

Day == 0..6
Refused == [taken |-> FALSE, on |-> {}]
Taken(days) == [taken |-> TRUE, on |-> days]

One(d) == [kind |-> "one", by |-> "number", from |-> d, to |-> d, every |-> 1]
Span(from, to) == [kind |-> "range", by |-> "number", from |-> from, to |-> to, every |-> 1]
Spans(p) == p.kind \in {"one", "range"}
Names(f) == \E i \in DOMAIN f : Spans(f[i]) /\ f[i].by = "name"

\* _to_name.
ToName(n) == IF n = 7 THEN 0 ELSE n
Renamed(p) ==
    IF Spans(p) THEN [p EXCEPT !.by = "name", !.from = ToName(p.from), !.to = ToName(p.to)] ELSE p

\* What int() and _DOW_NAMES read: a number, a range of numbers, a list of numbers.
Convertible(f) ==
    /\ \A i \in DOMAIN f : Spans(f[i]) /\ f[i].from <= 7 /\ f[i].to <= 7 /\ f[i].every = 1
    /\ Len(f) > 1 => \A i \in DOMAIN f : f[i].kind = "one"

\* _convert_cron_dow_field: numbers become names, unless a letter is in the field or it
\* begins with an n-th day; other fields raise, and there is none.
Converted(f) ==
    IF (Len(f) = 1 /\ f[1].kind = "all") \/ f[1].kind = "step" \/ Names(f) THEN f
    ELSE IF Convertible(f) THEN [i \in DOMAIN f |-> Renamed(f[i])] ELSE <<>>

\* CronTrigger.from_crontab: the days on which a field fires; a number left in it counts
\* from Monday.
MondayFirst(d) == (d + 6) % 7
Place(p, n) == IF p.by = "name" THEN MondayFirst(n) ELSE n
Readable(p) ==
    Spans(p) => /\ Place(p, p.from) <= Place(p, p.to) /\ Place(p, p.to) <= 6
                /\ p.every > 1 => Place(p, p.from) + p.every <= Place(p, p.to)
Fires(p, d) ==
    CASE p.kind = "all" -> TRUE
      [] p.kind = "step" -> MondayFirst(d) % p.every = 0
      [] OTHER -> /\ MondayFirst(d) \in Place(p, p.from)..Place(p, p.to)
                  /\ (MondayFirst(d) - Place(p, p.from)) % p.every = 0
FiresOn(f) ==
    IF f # <<>> /\ \A i \in DOMAIN f : Readable(f[i])
    THEN Taken({d \in Day : \E i \in DOMAIN f : Fires(f[i], d)}) ELSE Refused

\* parse_cron, of words with a time: every day, on workdays, every week whatever day
\* is named after it, or days each named with "every", in the plural or in short.  It
\* takes the first day that it finds, and finds Sunday in short only; otherwise it
\* returns None.
FieldOf(said) ==
    LET found == IF said.form = "short" THEN said.days ELSE said.days \ {0} IN
    CASE said.form = "daily" -> <<[kind |-> "all"]>>
      [] said.form = "workdays" -> <<Span(1, 5)>>
      [] said.form = "weekly" -> <<One(0)>>
      [] OTHER -> IF found = {} THEN <<>>
                  ELSE <<One(CHOOSE d \in found : \A e \in found : d <= e)>>

-----------------------------------------------------------------------------
Agents == [final : Fields, thought : Fields, action : Fields \cup {"final_answer"},
           args : {"missing", "null", "other", "object"}]
Critics == [verdict : {"PASS", "REVISE", "other"}, feedback : Fields]
SeqsUpTo(S, n) == UNION {[1..k -> S] : k \in 0..n}
Numbers == 0..8
DayParts ==
    [kind : {"all"}] \cup [kind : {"step"}, every : 1..6]
      \cup [kind : {"one"}, by : {"number"}, from : Numbers, to : Numbers, every : {1}]
      \cup [kind : {"one"}, by : {"name"}, from : Day, to : Day, every : {1}]
      \cup [kind : {"range"}, by : {"number"}, from : Numbers, to : Numbers, every : 1..2]
      \cup [kind : {"range"}, by : {"name"}, from : Day, to : Day, every : {1}]
Possible(p) ==
    /\ p.kind = "one" => p.from = p.to
    /\ p.kind = "range" /\ p.from = p.to => p.every = 1
DayFields == SeqsUpTo({p \in DayParts : Possible(p)}, 2) \ {<<>>}
DaySets == {{d, e} : d \in Day, e \in Day}
Phrases ==
    [form : {"daily", "workdays"}] \cup [form : {"weekly", "each", "plural", "short"}, days : DaySets]

Jobs ==
    [kind : {"chunk"}, n : 0..MaxLen, size : 1..MaxLen, overlap : 0..MaxLen]
      \cup [kind : {"part"}, n : 0..MaxLen, size : 1..MaxLen]
      \cup [kind : {"format"}, reply : SeqsUpTo({"word", "open", "shut"}, MaxTokens)]
      \cup [kind : {"agent", "broken"}, answer : Agents]
      \cup [kind : {"plan"}, steps : SeqsUpTo({"step", "other"}, MaxSteps)]
      \cup [kind : {"critic"}, answer : Critics]
      \cup [kind : {"days"}, field : DayFields]
      \cup [kind : {"phrase"}, said : Phrases]

CallInit ==
    /\ job \in Jobs /\ (job.kind = "chunk" => job.overlap < job.size)
    /\ result = <<>> /\ done = FALSE

Cut ==
    /\ job.kind \in {"chunk", "part"}
    /\ result' = IF job.kind = "chunk" THEN ChunksOf(job.n, job.size, job.overlap)
                 ELSE PartsOf(job.n, job.size)
Format == job.kind = "format" /\ result' = Rendered(job.reply)
Understand ==
    \/ job.kind = "agent" /\ result' = ParseAgent(job.answer)
    \/ job.kind = "broken" /\ result' = Salvage(job.answer)
    \/ job.kind = "plan" /\ result' = ParsePlan(job.steps)
    \/ job.kind = "critic" /\ result' = ParseCritic(job.answer)

\* _cron_to_trigger, of what a user wrote in cron or in words; words that parse_cron does
\* not know are refused, where the model gave no cron beside them.
Schedule ==
    \/ job.kind = "days" /\ result' = FiresOn(Converted(job.field))
    \/ /\ job.kind = "phrase"
       /\ LET f == FieldOf(job.said) IN
          result' = IF f = <<>> THEN Refused ELSE FiresOn(Converted(f))

CallNext == ~done /\ (Cut \/ Format \/ Understand \/ Schedule) /\ done' = TRUE /\ UNCHANGED job

CallSpec == CallInit /\ [][CallNext]_callVars

-----------------------------------------------------------------------------
\* Pieces of a text follow one another from the first to the last character, each
\* begins overlap characters before the end of the one before, none is longer than
\* it may be, only the last is shorter, and none is within another.
CutWhole(pieces, first, n, size, overlap) ==
    LET k == Len(pieces) IN
    /\ pieces[1][1] = first /\ pieces[k][2] = n
    /\ \A i \in 1..(k - 1) : /\ pieces[i][2] = pieces[i][1] + size
                             /\ pieces[i + 1][1] + overlap = pieces[i][2]
                             /\ pieces[i][2] < pieces[i + 1][2]
    /\ pieces[k][2] - pieces[k][1] <= size

\* The parts of a reply follow one another from token first to the last one; between
\* two of them there is one fence, before code one that opens a block.  Code has no
\* fence in it, and in a text a fence that could open a block has none behind it.
ReplyWhole(parts, first, reply) ==
    LET k == Len(parts)
        tokens(i) == parts[i].from..parts[i].to IN
    /\ parts[1].from = first /\ parts[1].kind = "text"
    /\ parts[k].to = Len(reply) /\ parts[k].kind = "text"
    /\ \A i \in 1..(k - 1) :
         /\ parts[i + 1].kind # parts[i].kind
         /\ parts[i + 1].from = parts[i].to + 2
         /\ Fence(reply[parts[i].to + 1])
         /\ parts[i].kind = "text" => reply[parts[i].to + 1] = "open"
    /\ \A i \in 1..k, t \in 1..Len(reply) :
         t \in tokens(i) /\ Fence(reply[t]) =>
           /\ parts[i].kind = "text"
           /\ reply[t] = "open" => Closers(reply, t) = {}

\* Nothing is lost and nothing doubled where a text is cut: the archive gets every
\* character in chunks, a long message arrives whole in its parts, and a formatted
\* reply has every word and every fence that marks no code.
PiecesAreWhole ==
    done =>
      CASE job.kind = "chunk" ->
             IF job.n = 0 THEN result = <<>> ELSE CutWhole(result, 0, job.n, job.size, job.overlap)
        [] job.kind = "part" -> CutWhole(result, 0, job.n, job.size, 0)
        [] job.kind = "format" -> ReplyWhole(result, 1, job.reply)
        [] OTHER -> TRUE

\* The user gets a final answer only when the model gave one, a tool is called only
\* with all it needs, and neither a thought nor an answer in the wrong place is
\* taken for the one or the other; a plan is within its limits and a revision says
\* what to revise.
AnswersUnderstood ==
    done =>
      CASE job.kind \in {"agent", "broken"} ->
             LET a == job.answer IN
             /\ result = "final" <=> a.final = "text"
             /\ result = "action" <=> /\ job.kind = "agent" /\ a.final # "text"
                                      /\ a.thought = "text" /\ a.action = "text"
                                      /\ a.args = "object"
        [] job.kind = "plan" ->
             result = "plan" <=> Len(job.steps) > 0 /\ Len(job.steps) < 7
                                   /\ "other" \notin {job.steps[i] : i \in DOMAIN job.steps}
        [] job.kind = "critic" -> result = "REVISE" => job.answer.feedback = "text"
        [] OTHER -> TRUE

\* The days that a field means in cron, where a range may go around the week.
CronPart(p) ==
    CASE p.kind = "all" -> Day
      [] p.kind = "step" -> {d \in Day : d % p.every = 0}
      [] OTHER -> {x % 7 : x \in {y \in p.from..(IF p.from <= p.to THEN p.to ELSE p.to + 7) :
                                   (y - p.from) % p.every = 0}}
CronDays(f) == UNION {CronPart(f[i]) : i \in DOMAIN f}

\* Fields without every n-th day of all, without a number beside a name, and not 0-7.
Plain(f) ==
    /\ \A i \in DOMAIN f : f[i].kind # "step"
    /\ Names(f) => \A i \in DOMAIN f : Spans(f[i]) => f[i].by = "name"
    /\ Len(f) = 1 /\ f[1].kind = "range" => f[1].from # 0 \/ f[1].to # 7

\* Not every field of days is taken: no number above 7, no range that goes on behind a
\* Sunday, no n-th day of a range, and in a list of numbers nothing but numbers.
PassesSunday(p) == p.kind = "range" /\ 0 \in CronPart(p) /\ ToName(p.to) # 0
NotTaken(f) ==
    \/ \E i \in DOMAIN f : /\ Spans(f[i])
                           /\ \/ f[i].from > 7 \/ f[i].to > 7 \/ f[i].every > 1
                              \/ PassesSunday(f[i])
    \/ Len(f) > 1 /\ ~Names(f) /\ \E i \in DOMAIN f : f[i].kind # "one"

\* A task that is scheduled by a plain field runs on the days that the field means in
\* cron, or the field is one of those that are not taken, and refused.  A task that is
\* scheduled in words runs on days that the words name, on Sundays for every week;
\* refused is only a Sunday that is written out.
WeekdaysHonoured ==
    done =>
      CASE job.kind = "days" ->
             LET f == job.field IN
             Plain(f) => result = IF NotTaken(f) THEN Refused ELSE Taken(CronDays(f))
        [] job.kind = "phrase" ->
             CASE job.said.form = "daily" -> result = Taken(Day)
               [] job.said.form = "workdays" -> result = Taken(1..5)
               [] job.said.form = "weekly" -> result = Taken({0})
               [] job.said.form \in {"each", "plural"} /\ job.said.days = {0} -> result = Refused
               [] OTHER -> result.taken /\ result.on # {} /\ result.on \subseteq job.said.days
        [] OTHER -> TRUE

\* What a model answers and what a user schedules is taken as it was meant.
InputIsUnderstood == AnswersUnderstood /\ WeekdaysHonoured

\* Not so: _convert_cron_dow_field makes of a field of standard cron one that the library reads
\* in the same way: what is taken fires on the days that cron means.  0-7 is Sunday only,
\* every n-th day counts from Monday, and so does a number beside a name (0,wed).
WeekdaysAreCron ==
    done /\ job.kind = "days" /\ result.taken => result.on = CronDays(job.field)
=============================================================================
