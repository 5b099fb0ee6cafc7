------------------------------- MODULE Schedules -------------------------------
(***************************************************************************)
(* The calendar of BusinessServer: the start of the term, in the table      *)
(* sys_config and cached by the server; the timetables of members           *)
(* (course_templates) and the hours they are busy in each week and day      *)
(* (schedules), which are rebuilt from them; the week and hours filed with  *)
(* an activity; and the queries that look for members who are free.         *)
(*                                                                          *)
(* A handler is a program of steps, as in BusinessServer: SQL statements    *)
(* over the one session all threads share, and assignments to the cache.    *)
(***************************************************************************)
EXTENDS TimeConverter, Sequences, Functions

CONSTANTS Threads,      \* the IO threads there may be
          Users, Acts,  \* ids; ids of activities are 1, 2, ...
          Starts,       \* dates the term can be set to start
          Today,        \* the date the server is started on
          Plans,        \* the lists of [date, from, to] in one new activity
          Uploads,      \* the lists of courses in one upload; a course may be
                        \* one that the table refuses, or broken JSON
          RebuiltWeeks, \* 16, the weeks rebuildUserSchedules writes
          Dates, Times, \* the dates and times the conversions are asked about
          Summers,      \* the dates of summer time there may be
          MaxRequests   \* bound: requests served, fewer with more threads

\* A row of course_templates: in the weeks first to last, of the type, on a day.
Rules == [day : Int, hours : SUBSET Slots, first : Int, last : Int, type : Int]
Courses == [kind : {"good", "refused", "broken"}, rule : Rules]

\* Where an activity is in the calendar: a date and two times of that day.
Placements == [date : Nat, from : 0..1440, to : 0..1440]

ASSUME ScheduleAssumption ==
  /\ Acts = 1..Cardinality(Acts) /\ MaxRequests \in Nat
  /\ TermWeeks \in 1..20 /\ RebuiltWeeks \in 1..TermWeeks
  /\ Starts \union Dates \union {Today} \subseteq Nat /\ Times \subseteq 0..1440
  /\ IsFiniteSet(Threads)
  /\ Plans \subseteq Seq(Placements) /\ Uploads \subseteq Seq(Courses)

Weeks == 1..TermWeeks
Days == 1..7
NoDate == -1000         \* a string that is no date: mktime takes it for a day in 1899
Instances == UNION {Range(p) : p \in Plans}
Nowhere == [week |-> 0, day |-> 0]
Nobody == "nobody"      \* user_id IS NULL: the public timetable of the class

VARIABLES
  workers,      \* the IO threads of this run
  column,       \* whether course_templates has the column time_mask: the
                \* handlers use it, the tables of sql/ do not have it
  db,           \* the tables as the session sees them
  undo,         \* the tables when the open transaction began, or None
  cache,        \* m_cachedTermStartDate
  job,          \* [Threads -> what the handler has left to do, and the rules
                \* it has read]
  served,       \* how many requests have been taken
  rebuilt,      \* history: users whose schedule has been rebuilt since their
                \* timetable last changed
  filed         \* history: activities whose week and hours were computed from
                \* their present date, time and term

vars == <<workers, column, db, undo, cache, job, served, rebuilt, filed>>

None == [none |-> TRUE]
Idle == [todo |-> <<>>, rules |-> {}]
Committed == IF undo = None THEN db ELSE undo
Sole == Cardinality(workers) = 1

-----------------------------------------------------------------------------
(* What is read from the tables.                                            *)

\* The weeks of a rule: week_type 1 is odd weeks only, 2 even weeks only.
MutApplies(rule, week) ==
  /\ rule.first <= week /\ week < rule.last
  /\ (rule.type = 1 => week % 2 = 1) /\ (rule.type = 2 => week % 2 = 0)

Applies(rule, week) ==
  /\ rule.first <= week /\ week <= rule.last
  /\ (rule.type = 1 => week % 2 = 1) /\ (rule.type = 2 => week % 2 = 0)

DayMask(rules, week, day) ==
  UNION {r.hours : r \in {x \in rules : x.day = day /\ Applies(x, week)}}

\* handleGetTimeSlotAnalytics: who has no course in these hours.
FreeOfCourses(week, day, mask) ==
  {u \in Users : db.schedule[u][week, day] \intersect mask = {}}

MutFreeMembers(week, day, mask) == FreeOfCourses(week, day, mask)

\* handleFilterMembers: and is in no activity of the week that meets them. The
\* subquery on the date holds of every activity, whatever its day.
FreeMembers(week, day, mask) ==
  {u \in FreeOfCourses(week, day, mask) :
     \A a \in Acts : <<a, u>> \in db.members =>
       db.acts[a].week # week \/ db.acts[a].mask \intersect mask = {}}

\* loadSystemConfig: without a row the date of today is inserted.
Loaded(term) == IF term = NoDate THEN Today ELSE term

-----------------------------------------------------------------------------
(* The handlers: their steps, in their order.                               *)

Requests ==
  [op : {"upload"}, user : Users, courses : Uploads, public : BOOLEAN]
    \union [op : {"applyTemplate"}]
    \union [op : {"setTerm"}, date : Starts \union {NoDate}]
    \union [op : {"add"}, list : Plans]
    \union [op : {"move"}, act : Acts, to : Instances]
    \union [op : {"assign"}, act : Acts, user : Users]

Start == <<[do |-> "START"]>>
Commit == <<[do |-> "COMMIT"]>>
Rollback == <<[do |-> "ROLLBACK"]>>

\* The seven rows of a week are one step.
Rebuild(u) == <<[do |-> "rules", user |-> u]>>
                \o [w \in 1..RebuiltWeeks |-> [do |-> "week", user |-> u, week |-> w]]

Owner(r) == IF r.public THEN Nobody ELSE r.user

MutUpload(r) ==             \* the old timetable stays
  Start \o [i \in DOMAIN r.courses |->
             [do |-> "course", owner |-> Owner(r), course |-> r.courses[i]]]
        \o Commit \o Rebuild(r.user)

Upload(r) ==
  Start \o <<[do |-> "clear", owner |-> Owner(r)]>>
        \o [i \in DOMAIN r.courses |->
             [do |-> "course", owner |-> Owner(r), course |-> r.courses[i]]]
        \o Commit \o Rebuild(r.user)

\* The template and the members of the class are read, but the vector of rules
\* is never filled, so nothing is written.
ApplyTemplate == Start \o <<[do |-> "template"]>> \o Commit

MutSetTerm(r) == <<[do |-> "cache", date |-> r.date], [do |-> "term", date |-> r.date]>>
SetTerm(r) == <<[do |-> "term", date |-> r.date], [do |-> "cache", date |-> r.date]>>

Add(r) == Start \o [i \in DOMAIN r.list |-> [do |-> "insert", act |-> r.list[i]]] \o Commit

Program(r) == CASE r.op = "upload" -> Upload(r)
                [] r.op = "applyTemplate" -> ApplyTemplate
                [] r.op = "setTerm" -> SetTerm(r)
                [] r.op = "add" -> Add(r)
                [] r.op \in {"move", "assign"} -> <<[do |-> r.op, req |-> r]>>

-----------------------------------------------------------------------------
(* One step of a handler.                                                   *)

\* The week filed with a new activity is 1 when its date is before the term.
Filed(i) ==
  LET to == WeekAndDay({}, cache, i.date, [week |-> 1, day |-> 1]) IN
    [date |-> i.date, from |-> i.from, to |-> i.to,
     week |-> to.week, mask |-> HourMask(i.from, i.to)]

InTerm(date) == WeekAndDay({}, cache, date, Nowhere).ok
Exists(a) == db.acts[a] # None
NextAct == 1 + Cardinality({a \in Acts : Exists(a)})

\* Errors: chk_activity_week, a column, a foreign key; and the JSON of a course.
Fails(s) ==
  CASE s.do = "insert" -> Filed(s.act).week \notin Weeks
    [] s.do = "course" -> ~column \/ s.course.kind # "good"
    [] s.do = "rules" -> ~column
    [] s.do = "assign" -> ~Exists(s.req.act)
    [] OTHER -> FALSE

\* What is left to do then: a refused course is passed over, broken JSON throws.
AfterError(todo) ==
  LET s == Head(todo) IN
    IF s.do \in {"insert", "template"} \/ (s.do = "course" /\ s.course.kind = "broken") THEN Rollback
    ELSE IF s.do = "course" THEN Tail(todo) ELSE <<>>

Moved(s) == [db.acts[s.req.act] EXCEPT !.date = s.req.to.date, !.from = s.req.to.from,
                                       !.to = s.req.to.to]

Run(s, rules) ==
  CASE s.do = "clear" -> [db EXCEPT !.templates[s.owner] = {}]
    [] s.do = "course" -> [db EXCEPT !.templates[s.owner] = @ \union {s.course.rule}]
    [] s.do = "week" -> [db EXCEPT !.schedule[s.user] = [p \in Weeks \X Days |->
         IF p[1] = s.week THEN DayMask(rules, p[1], p[2]) ELSE @[p]]]
    [] s.do = "term" -> [db EXCEPT !.term = s.date]
    [] s.do = "insert" -> [db EXCEPT !.acts[NextAct] = Filed(s.act)]
    [] s.do = "move" -> IF Exists(s.req.act) THEN [db EXCEPT !.acts[s.req.act] = Moved(s)] ELSE db
    [] s.do = "assign" -> [db EXCEPT !.members = @ \union {<<s.req.act, s.req.user>>}]
    [] OTHER -> db

Init ==
  /\ workers \in (SUBSET Threads) \ {{}} /\ column \in BOOLEAN
  /\ \E term \in Starts \union {NoDate} :
       db = [term |-> Loaded(term), acts |-> [a \in Acts |-> None], members |-> {},
             templates |-> [o \in Users \union {Nobody} |-> {}],
             schedule |-> [u \in Users |-> [p \in Weeks \X Days |-> {}]]]
  /\ undo = None /\ cache = db.term
  /\ job = [t \in Threads |-> Idle] /\ served = 0
  /\ rebuilt = Users /\ filed = {}

\* Activities that handlers have yet to insert.
Promised == Cardinality(UNION {{<<t, i>> : i \in {j \in DOMAIN job[t].todo :
                                     job[t].todo[j].do = "insert"}} : t \in Threads})

\* The history: users rebuilt and activities filed by this step, and those that
\* it has not made out of date.
Recall(users, acts) ==
  /\ rebuilt' = users \union {u \in rebuilt : Committed'.templates[u] = Committed.templates[u]}
  /\ filed' = acts \union {a \in filed : db'.acts[a] = db.acts[a] /\ cache' = cache}

\* Bound: MaxRequests requests, one less for each further thread.
Receive(t, r) ==
  /\ t \in workers /\ job[t] = Idle /\ served + Cardinality(workers) <= MaxRequests
  /\ r.op = "add" => NextAct - 1 + Promised + Len(r.list) <= Cardinality(Acts)
  /\ job' = [job EXCEPT ![t].todo = Program(r)]
  /\ served' = served + 1
  /\ UNCHANGED <<workers, column, db, undo, cache, rebuilt, filed>>

\* A handler with nothing left to do answers and is done.
Left(todo, rules) == IF todo = <<>> THEN Idle ELSE [todo |-> todo, rules |-> rules]

Control(t) ==               \* START TRANSACTION, COMMIT, ROLLBACK
  /\ job[t].todo # <<>>
  /\ LET s == Head(job[t].todo) IN
       /\ s.do \in {"START", "COMMIT", "ROLLBACK"}
       /\ undo' = IF s.do = "START" THEN db ELSE None
       /\ db' = IF s.do = "ROLLBACK" THEN Committed ELSE db
       /\ job' = [job EXCEPT ![t] = Left(Tail(@.todo), @.rules)]
  /\ UNCHANGED <<workers, column, cache, served>>
  /\ Recall({}, {})

Statement(t) ==
  /\ job[t].todo # <<>>
  /\ LET s == Head(job[t].todo) IN
       /\ s.do \notin {"START", "COMMIT", "ROLLBACK"} /\ ~Fails(s)
       /\ db' = Run(s, job[t].rules)
       /\ cache' = IF s.do = "cache" THEN s.date ELSE cache
       /\ job' = [job EXCEPT ![t] = Left(Tail(@.todo),
                    IF s.do = "rules" THEN db.templates[s.user] ELSE @.rules)]
  /\ UNCHANGED <<workers, column, undo, served>>
  /\ LET s == Head(job[t].todo) IN
       Recall({u \in Users : s = [do |-> "week", user |-> u, week |-> RebuiltWeeks]},
              {a \in Acts \ filed : s.do = "insert" /\ a = NextAct /\ InTerm(s.act.date)})

\* These two handlers ask whether their statement has failed, whatever the reason.
Error(t) ==
  /\ job[t].todo # <<>>
  /\ Fails(Head(job[t].todo)) \/ Head(job[t].todo).do \in {"term", "template"}
  /\ job' = [job EXCEPT ![t] = Left(AfterError(@.todo), @.rules)]
  /\ UNCHANGED <<workers, column, db, undo, cache, served, rebuilt, filed>>

\* The process ends and is started again: the database undoes the open
\* transaction, loadSystemConfig reads the start of the term.
Crash ==
  /\ \E t \in workers : job[t] # Idle
  /\ db' = Committed /\ undo' = None /\ cache' = Committed.term
  /\ job' = [t \in Threads |-> Idle]
  /\ UNCHANGED <<workers, column, served>>
  /\ Recall({}, {})

Next == \/ \E t \in Threads : Control(t) \/ Statement(t) \/ Error(t)
        \/ \E t \in Threads, r \in Requests : Receive(t, r)
        \/ Crash

Spec == Init /\ [][Next]_vars

-----------------------------------------------------------------------------
(* With one IO thread the start of the term that the server computes with   *)
(* is the one in the table, also when the write to the table fails and      *)
(* after a restart; only a handler between the two writes lets them differ. *)
CacheFollows ==
  Sole /\ cache # db.term =>
    \E t \in workers : job[t].todo = <<[do |-> "cache", date |-> db.term]>>

(* With one IO thread an upload takes the place of the whole timetable it   *)
(* is for, and of no other, with exactly the courses the table accepts; one *)
(* with broken JSON, or cut off by a restart, changes nothing.              *)
UploadedIsValid ==
  [][Sole /\ column =>
       \E r \in [user : Users, courses : Uploads, public : BOOLEAN] :
         /\ "broken" \notin {c.kind : c \in Range(r.courses)}
         /\ Committed'.templates = [Committed.templates EXCEPT ![Owner(r)] =
              {c.rule : c \in {x \in Range(r.courses) : x.kind = "good"}}]]_(Committed.templates)

\* The weeks a course is taught in, odd or even ones by its type.
Taught(rule) == {w \in rule.first..rule.last : rule.type # 0 => w % 2 = rule.type % 2}

(* Who is offered for an activity is free: in no activity on record that    *)
(* day whose time meets it; and, with one IO thread and for the weeks that  *)
(* are rebuilt, in no course of the timetable. That is for activities filed *)
(* under the present term and not moved since, and users whose rebuilding   *)
(* was not cut short.                                                       *)
FilteredAreFree ==
  \A i \in {x \in Instances : InTerm(x.date)} :
    LET at == WeekAndDay({}, cache, i.date, Nowhere)
        mask == HourMask(i.from, i.to) IN
    \A u \in FreeMembers(at.week, at.day, mask) :
      /\ \A a \in filed : <<a, u>> \in db.members /\ db.acts[a].date = i.date =>
           db.acts[a].to <= i.from \/ i.to <= db.acts[a].from
      /\ Sole /\ u \in rebuilt /\ at.week <= RebuiltWeeks =>
           \A r \in Committed.templates[u] :
             r.day = at.day /\ at.week \in Taught(r) => r.hours \intersect mask = {}

(* The conversion gives the week and weekday that lead from the start of    *)
(* the term to the date, and refuses other dates. Summer time that begins   *)
(* between the two costs it a day: mktime is left to find it out. (Nothing  *)
(* that is served matters here: it is asked in the initial states.)         *)
WeekAndDayIsRight ==
  served = 0 =>
    \A summer \in Summers, start \in Starts, date \in Dates :
      LET got == WeekAndDay(summer, start, date, Nowhere)
          lost == IF date > start /\ date \in summer /\ start \notin summer THEN 1
                  ELSE IF date < start /\ start \in summer /\ date \notin summer THEN -1 ELSE 0
      IN got.ok = \E w \in Weeks, d \in Days :
           /\ got.week = w /\ got.day = d
           /\ start + 7 * (w - 1) + (d - 1) + lost = date

(* The mask of a time has the hours that some minute of it is in, its       *)
(* duration is enough for it; and each period of the timetable has the mask *)
(* of its lesson times (TimeConverter.h). (Asked in the initial states too.) *)
MasksAreRight ==
  served = 0 =>
    /\ \A from, to \in Times : from < to =>
         LET mask == HourMask(from, to) IN
           /\ mask = {m \div 60 - 7 : m \in {x \in from..(to - 1) : x \div 60 \in 7..21}}
           /\ from >= 420 /\ to <= 1320 => 60 * DurationByMask(mask) \in (to - from)..(to - from + 118)
    /\ [p \in 1..4 |-> PeriodMask(p)]
         = <<HourMask(480, 590), HourMask(610, 720), HourMask(850, 960), HourMask(970, 1070)>>
=============================================================================
