---------------------------- MODULE SchedulesProofs ----------------------------
(***************************************************************************)
(* The calendar for any users, timetables, activities and IO threads: the   *)
(* conversions of TimeConverter, the cached start of the term, and that the *)
(* members offered for an activity are free.                                *)
(***************************************************************************)
EXTENDS Schedules, SequenceTheorems, FiniteSetTheorems, TLAPS

-----------------------------------------------------------------------------
(* The conversions.                                                         *)

(* Division of C++ by a day, of a number of whole days and an hour more or  *)
(* less.                                                                    *)
LEMMA QuotientOfDays ==
  ASSUME NEW k \in Int
  PROVE  /\ Quotient(24 * k, 24) = k
         /\ Quotient(24 * k - 1, 24) = IF k > 0 THEN k - 1 ELSE k
         /\ Quotient(24 * k + 1, 24) = IF k < 0 THEN k + 1 ELSE k
BY DEF Quotient

(* The days that stringToDate finds between two dates.                      *)
LEMMA DaysFound ==
  ASSUME NEW summer, NEW start \in Int, NEW date \in Int
  PROVE  DaysBetween(summer, start, date) =
           (date - start) - (IF date > start /\ date \in summer /\ start \notin summer THEN 1
                             ELSE IF date < start /\ start \in summer /\ date \notin summer
                             THEN -1 ELSE 0)
<1> DEFINE k == date - start
<1>1. k \in Int /\ (date > start <=> k > 0) /\ (date < start <=> k < 0)
  OBVIOUS
<1>2. Midnight(summer, date) - Midnight(summer, start) =
        24 * k - (IF date \in summer THEN 1 ELSE 0) + (IF start \in summer THEN 1 ELSE 0)
  BY DEF Midnight
<1> HIDE DEF k
<1>3. /\ Quotient(24 * k, 24) = k
      /\ Quotient(24 * k - 1, 24) = IF k > 0 THEN k - 1 ELSE k
      /\ Quotient(24 * k + 1, 24) = IF k < 0 THEN k + 1 ELSE k
  BY <1>1, QuotientOfDays
<1>4. CASE date \in summer <=> start \in summer
  BY <1>1, <1>2, <1>3, <1>4 DEF DaysBetween, k
<1>5. CASE date \in summer /\ start \notin summer
  BY <1>1, <1>2, <1>3, <1>5 DEF DaysBetween, k
<1>6. CASE date \notin summer /\ start \in summer
  BY <1>1, <1>2, <1>3, <1>6 DEF DaysBetween, k
<1> QED  BY <1>4, <1>5, <1>6

(* The conversion is right in every state of every run.                     *)
LEMMA ConversionIsRight == WeekAndDayIsRight
<1> SUFFICES ASSUME NEW summer \in Summers, NEW start \in Starts, NEW date \in Dates
             PROVE  LET got == WeekAndDay(summer, start, date, Nowhere)
                        lost == IF date > start /\ date \in summer /\ start \notin summer THEN 1
                                ELSE IF date < start /\ start \in summer /\ date \notin summer
                                THEN -1 ELSE 0
                    IN got.ok = \E w \in Weeks, d \in Days :
                         /\ got.week = w /\ got.day = d
                         /\ start + 7 * (w - 1) + (d - 1) + lost = date
  BY DEF WeekAndDayIsRight
<1> DEFINE got == WeekAndDay(summer, start, date, Nowhere)
           lost == IF date > start /\ date \in summer /\ start \notin summer THEN 1
                   ELSE IF date < start /\ start \in summer /\ date \notin summer
                   THEN -1 ELSE 0
           found == \E w \in Weeks, d \in Days :
                         /\ got.week = w /\ got.day = d
                         /\ start + 7 * (w - 1) + (d - 1) + lost = date
<1>0. PICK days : days = DaysBetween(summer, start, date)
  OBVIOUS
<1>1. start \in Int /\ date \in Int /\ TermWeeks \in Int
  BY ScheduleAssumption
<1>2. days = (date - start) - lost /\ lost \in Int
  BY <1>0, <1>1, DaysFound
<1>3. /\ days \in Int
      /\ days < 0 => got = [ok |-> FALSE, week |-> 0, day |-> 0]
      /\ days >= 0 => /\ got = [ok |-> days \div 7 + 1 \in 1..TermWeeks,
                                week |-> days \div 7 + 1, day |-> (days % 7) + 1]
                      /\ days = 7 * (days \div 7) + (days % 7)
                      /\ days \div 7 \in Nat /\ days % 7 \in 0..6
  <2>1. days \in Int
    BY <1>1, <1>2
  <2>2. /\ days < 0 => WeekAndDay(summer, start, date, Nowhere)
                          = [ok |-> FALSE, week |-> Nowhere.week, day |-> Nowhere.day]
        /\ days >= 0 => WeekAndDay(summer, start, date, Nowhere)
                          = [ok |-> days \div 7 + 1 \in 1..TermWeeks,
                             week |-> days \div 7 + 1, day |-> (days % 7) + 1]
    BY <1>0, <2>1 DEF WeekAndDay
  <2>3. days >= 0 => /\ days = 7 * (days \div 7) + (days % 7)
                     /\ days \div 7 \in Nat /\ days % 7 \in 0..6
    BY <2>1
  <2> QED  BY <2>1, <2>2, <2>3 DEF Nowhere
<1> SUFFICES got.ok = found
  OBVIOUS
<1> HIDE DEF got, lost, found
<1>4. CASE days < 0
  <2>1. got.week = 0 /\ got.ok = FALSE
    BY <1>3, <1>4
  <2>2. ~found
    BY <1>1, <2>1 DEF Weeks, found
  <2>3. found = FALSE
    BY <2>2 DEF found
  <2> QED  BY <2>1, <2>3
<1>5. CASE days >= 0
  <2>1. PICK q \in Nat, r \in 0..6 : q = days \div 7 /\ r = days % 7
    BY <1>3, <1>5
  <2>2. days = 7 * q + r /\ got.week = q + 1 /\ got.day = r + 1 /\ got.ok = (q + 1 \in 1..TermWeeks)
    BY <1>3, <1>5, <2>1
  <2>3. start + 7 * ((q + 1) - 1) + ((r + 1) - 1) + lost = date
    BY <1>1, <1>2, <2>1, <2>2
  <2>4. r + 1 \in Days
    BY <2>1 DEF Days
  <2>5. found <=> q + 1 \in Weeks
    BY <2>2, <2>3, <2>4 DEF found
  <2>6. found \in BOOLEAN
    BY DEF found
  <2> QED  BY <2>2, <2>5, <2>6 DEF Weeks
<1> QED  BY <1>3, <1>4, <1>5

(* The date the client sends is filed under the week and weekday that lead  *)
(* to it from the start of the term, whatever the length of the term and    *)
(* the days of summer time.                                                 *)
THEOREM DatesConvertRight == Spec => []WeekAndDayIsRight
BY ConversionIsRight, PTL

(* The hours of a mask are those that some minute of the time is in.        *)
LEMMA HoursMet ==
  ASSUME NEW from \in Int, NEW to \in Int, from < to
  PROVE  HourMask(from, to) = {m \div 60 - 7 : m \in {x \in from..(to - 1) : x \div 60 \in 7..21}}
<1>1. ASSUME NEW i \in HourMask(from, to)
      PROVE  \E m \in from..(to - 1) : m \div 60 \in 7..21 /\ i = m \div 60 - 7
  <2>1. i \in 0..14 /\ from < 60 * (8 + i) /\ to > 60 * (7 + i)
    BY <1>1 DEF HourMask, Slots
  <2>2. CASE from >= 60 * (7 + i)
    <3>1. from \div 60 = 7 + i
      BY <2>1, <2>2
    <3>2. from \in from..(to - 1) /\ from \div 60 \in 7..21 /\ i = from \div 60 - 7
      BY <2>1, <3>1
    <3> QED  BY <3>2
  <2>3. CASE ~(from >= 60 * (7 + i))
    <3>1. PICK m \in Int : m = 60 * (7 + i)
      BY <2>1
    <3>2. m \in from..(to - 1) /\ m \div 60 = 7 + i
      BY <2>1, <2>3, <3>1
    <3>3. m \div 60 \in 7..21 /\ i = m \div 60 - 7
      BY <2>1, <3>2
    <3> QED  BY <3>2, <3>3
  <2> QED  BY <2>2, <2>3
<1>2. ASSUME NEW m \in from..(to - 1), m \div 60 \in 7..21
      PROVE  m \div 60 - 7 \in HourMask(from, to)
  <2>1. PICK q \in 7..21 : q = m \div 60
    BY <1>2
  <2>2. 60 * q <= m /\ m < 60 * (q + 1)
    BY <2>1
  <2>3. q - 7 \in 0..14 /\ from < 60 * (8 + (q - 7)) /\ to > 60 * (7 + (q - 7))
    BY <2>1, <2>2
  <2> QED  BY <2>1, <2>3 DEF HourMask, Slots
<1> QED  BY <1>1, <1>2

(* The hours of a time, counted.                                            *)
LEMMA HoursCounted ==
  ASSUME NEW from \in Int, NEW to \in Int, NEW a \in Int, NEW b \in Int,
         60 * a <= from, from < 60 * (a + 1), 60 * b <= to - 1, to - 1 < 60 * (b + 1),
         7 <= a, a <= b, b <= 21
  PROVE  DurationByMask(HourMask(from, to)) = b - a + 1
<1>1. HourMask(from, to) \intersect Slots = (a - 7)..(b - 7)
  <2>1. ASSUME NEW i \in 0..14
        PROVE  from < 60 * (8 + i) /\ to > 60 * (7 + i) <=> a - 7 <= i /\ i <= b - 7
    OBVIOUS
  <2>2. (a - 7)..(b - 7) \subseteq 0..14
    OBVIOUS
  <2> QED  BY <2>1, <2>2 DEF HourMask, Slots
<1>2. Cardinality((a - 7)..(b - 7)) = b - a + 1
  <2>1. a - 7 \in Int /\ b - 7 \in Int /\ ~(a - 7 > b - 7)
    OBVIOUS
  <2>2. Cardinality((a - 7)..(b - 7)) = (b - 7) - (a - 7) + 1
    BY <2>1, FS_Interval
  <2> QED  BY <2>2
<1>3. DurationByMask(HourMask(from, to)) = Cardinality(HourMask(from, to) \intersect Slots)
  BY DEF DurationByMask
<1> QED  BY <1>1, <1>2, <1>3

(* The duration of a time within the hours that have a bit.                 *)
LEMMA DurationIsEnough ==
  ASSUME NEW from \in Int, NEW to \in Int, from < to, from >= 420, to <= 1320
  PROVE  60 * DurationByMask(HourMask(from, to)) \in (to - from)..(to - from + 118)
<1>1. PICK a \in Int, b \in Int : a = from \div 60 /\ b = (to - 1) \div 60
  OBVIOUS
<1>2. /\ 60 * a <= from /\ from < 60 * (a + 1)
      /\ 60 * b <= to - 1 /\ to - 1 < 60 * (b + 1)
  BY <1>1
<1>3. 7 <= a /\ a <= b /\ b <= 21
  BY <1>2
<1>4. PICK n : n = DurationByMask(HourMask(from, to))
  OBVIOUS
<1>5. n = b - a + 1
  BY <1>2, <1>3, <1>4, HoursCounted
<1>6. 60 * n \in (to - from)..(to - from + 118)
  BY <1>2, <1>5
<1> QED  BY <1>4, <1>6

(* The lesson times of the four periods.                                    *)
LEMMA PeriodsMasked ==
  [p \in 1..4 |-> PeriodMask(p)]
    = <<HourMask(480, 590), HourMask(610, 720), HourMask(850, 960), HourMask(970, 1070)>>
<1>1. /\ HourMask(480, 590) = {1, 2} /\ HourMask(610, 720) = {3, 4}
      /\ HourMask(850, 960) = {7, 8} /\ HourMask(970, 1070) = {9, 10}
  BY DEF HourMask, Slots
<1>2. /\ PeriodMask(1) = {1, 2} /\ PeriodMask(2) = {3, 4}
      /\ PeriodMask(3) = {7, 8} /\ PeriodMask(4) = {9, 10}
  BY DEF PeriodMask
<1> QED  BY <1>1, <1>2

(* The masks of times and periods are right.                                *)
LEMMA MasksRight == MasksAreRight
<1>1. ASSUME NEW from \in Times, NEW to \in Times, from < to
      PROVE  LET mask == HourMask(from, to) IN
               /\ mask = {m \div 60 - 7 : m \in {x \in from..(to - 1) : x \div 60 \in 7..21}}
               /\ from >= 420 /\ to <= 1320
                    => 60 * DurationByMask(mask) \in (to - from)..(to - from + 118)
  <2>1. from \in Int /\ to \in Int
    BY ScheduleAssumption
  <2>2. HourMask(from, to) = {m \div 60 - 7 : m \in {x \in from..(to - 1) : x \div 60 \in 7..21}}
    BY <1>1, <2>1, HoursMet
  <2>3. from >= 420 /\ to <= 1320
          => 60 * DurationByMask(HourMask(from, to)) \in (to - from)..(to - from + 118)
    BY <1>1, <2>1, DurationIsEnough
  <2> QED  BY <2>2, <2>3, Zenon
<1> QED  BY <1>1, PeriodsMasked DEF MasksAreRight

(* The hours of every time are those it touches, the duration counted from  *)
(* them covers it and is at most two minutes short of two hours more, and a *)
(* period of the timetable has the hours of its lessons.                    *)
THEOREM TimesConvertRight == Spec => []MasksAreRight
BY MasksRight, PTL

-----------------------------------------------------------------------------
(* The programs of the handlers.                                            *)

Owners == Users \union {Nobody}

Steps ==
  [do : {"START", "COMMIT", "ROLLBACK", "template"}]
    \union [do : {"rules"}, user : Users]
    \union [do : {"week"}, user : Users, week : 1..RebuiltWeeks]
    \union [do : {"clear"}, owner : Owners]
    \union [do : {"course"}, owner : Owners, course : Courses]
    \union [do : {"term", "cache"}, date : Starts \union {NoDate}]
    \union [do : {"insert"}, act : Instances]
    \union [do : {"move"}, req : [op : {"move"}, act : Acts, to : Instances]]
    \union [do : {"assign"}, req : [op : {"assign"}, act : Acts, user : Users]]

Ends == {"COMMIT", "ROLLBACK"}
Inside == {"clear", "course", "insert", "template"}
Outside == {"rules", "week", "term", "cache", "move", "assign"}

(* Where a step can be in what a handler has left to do. A transaction that *)
(* is open has one end and nothing but its own statements before that; the  *)
(* weeks of a rebuild come last and in their order; the cache is written    *)
(* after the table.                                                         *)
Weekly(todo, i) ==
  \A j \in 1..Len(todo) : j > i => todo[j].do = "week" /\ todo[j].user = todo[i].user
Follows(todo, i) == \A j \in 1..Len(todo) : j + 1 = i => todo[j].do \in {"rules", "week"}
Placed(todo, i) ==
  LET do == todo[i].do
      after == Len(todo) - i IN
  /\ do = "START" => i = 1
  /\ do \in {"START"} \union Inside => \E j \in 1..Len(todo) : j > i /\ todo[j].do \in Ends
  /\ do \in Outside => \A j \in 1..Len(todo) : j >= i => todo[j].do \notin Ends
  /\ do \in Ends => \A j \in 1..Len(todo) : todo[j].do \in Ends => j = i
  /\ do = "rules" => after = RebuiltWeeks /\ Weekly(todo, i)
  /\ do = "week" => after = RebuiltWeeks - todo[i].week /\ Weekly(todo, i)
  /\ do = "week" => Follows(todo, i)
  /\ do = "term" => i = 1 /\ Len(todo) = 2 /\ todo[2] = [do |-> "cache", date |-> todo[1].date]
  /\ do = "cache" => after = 0 /\ (Len(todo) = 1 \/ todo[1].do = "term")
Shape(todo) == todo \in Seq(Steps) /\ \A i \in 1..Len(todo) : Placed(todo, i)

(* The first and the rest of a sequence of steps.                           *)
LEMMA FirstAndRest ==
  ASSUME NEW todo \in Seq(Steps), todo # <<>>
  PROVE  /\ Len(todo) \in Nat /\ Len(todo) >= 1 /\ todo[1] \in Steps /\ Head(todo) = todo[1]
         /\ Tail(todo) \in Seq(Steps) /\ Len(Tail(todo)) = Len(todo) - 1
         /\ \A i \in 1..(Len(todo) - 1) : Tail(todo)[i] = todo[i + 1]
<1>1. Len(todo) \in Nat /\ Len(todo) # 0
  BY LenProperties, EmptySeq
<1>2. 1 \in 1..Len(todo)
  BY <1>1
<1> QED  BY <1>1, <1>2, HeadTailProperties, ElementOfSeq

(* What is left after the first step keeps the shape.                       *)
LEMMA TailShape ==
  ASSUME NEW todo, Shape(todo), todo # <<>>
  PROVE  Shape(Tail(todo))
<1>0. PICK rest : rest = Tail(todo)
  OBVIOUS
<1>1. PICK n \in Nat : n = Len(todo)
  BY LenProperties DEF Shape
<1>2. /\ rest \in Seq(Steps) /\ Len(rest) = n - 1 /\ n >= 1
      /\ \A i \in 1..(n - 1) : rest[i] = todo[i + 1] /\ i + 1 \in 1..n
      /\ \A i \in 1..n : i > 1 => i - 1 \in 1..(n - 1) /\ rest[i - 1] = todo[i]
  <2>1. /\ rest \in Seq(Steps) /\ Len(rest) = n - 1 /\ n >= 1
        /\ \A i \in 1..(n - 1) : rest[i] = todo[i + 1]
    BY <1>0, <1>1, FirstAndRest DEF Shape
  <2>2. \A i \in 1..n : i > 1 => i - 1 \in 1..(n - 1) /\ (i - 1) + 1 = i
    BY <2>1
  <2> QED  BY <2>1, <2>2
<1> SUFFICES ASSUME NEW i \in 1..(n - 1)
             PROVE  Placed(rest, i)
  BY <1>0, <1>2 DEF Shape
<1>3. Placed(todo, i + 1) /\ rest[i] = todo[i + 1] /\ Len(rest) - i = n - (i + 1)
  BY <1>1, <1>2 DEF Shape
<1>4. ASSUME Weekly(todo, i + 1)
      PROVE  Weekly(rest, i)
  <2> SUFFICES ASSUME NEW j \in 1..(n - 1), j > i
               PROVE  rest[j].do = "week" /\ rest[j].user = rest[i].user
    BY <1>2 DEF Weekly
  <2>1. rest[j] = todo[j + 1] /\ j + 1 \in 1..n /\ j + 1 > i + 1
    BY <1>2
  <2> QED  BY <1>1, <1>3, <1>4, <2>1 DEF Weekly
<1>5. ASSUME rest[i].do \in {"START"} \union Inside
      PROVE  \E j \in 1..(n - 1) : j > i /\ rest[j].do \in Ends
  <2>1. PICK j \in 1..n : j > i + 1 /\ todo[j].do \in Ends
    BY <1>1, <1>3, <1>5 DEF Placed
  <2>2. j - 1 \in 1..(n - 1) /\ j - 1 > i /\ rest[j - 1] = todo[j]
    BY <1>2, <2>1
  <2> QED  BY <2>1, <2>2
<1>6. ASSUME rest[i].do \in Outside, NEW j \in 1..(n - 1), j >= i
      PROVE  rest[j].do \notin Ends
  <2>1. rest[j] = todo[j + 1] /\ j + 1 \in 1..n /\ j + 1 >= i + 1
    BY <1>2, <1>6
  <2> QED  BY <1>1, <1>3, <1>6, <2>1 DEF Placed
<1>7. ASSUME rest[i].do \in Ends, NEW j \in 1..(n - 1), rest[j].do \in Ends
      PROVE  j = i
  <2>1. rest[j] = todo[j + 1] /\ j + 1 \in 1..n
    BY <1>2
  <2>2. j + 1 = i + 1
    BY <1>1, <1>3, <1>7, <2>1 DEF Placed
  <2> QED  BY <2>2
<1>8. rest[i].do # "START" /\ rest[i].do # "term"
  <2>1. i + 1 # 1
    OBVIOUS
  <2>2. todo[i + 1].do # "START" /\ todo[i + 1].do # "term"
    BY <1>3, <2>1 DEF Placed
  <2> QED  BY <1>3, <2>2
<1>9. ASSUME rest[i].do = "cache"
      PROVE  (n - 1) - i = 0 /\ n - 1 = 1
  <2>1. n - (i + 1) = 0 /\ (n = 1 \/ todo[1].do = "term")
    BY <1>1, <1>3, <1>9 DEF Placed
  <2>2. n # 1 /\ 1 \in 1..n
    BY <2>1
  <2>3. Placed(todo, 1)
    BY <1>1, <2>2 DEF Shape
  <2>4. n = 2
    BY <1>1, <2>1, <2>2, <2>3 DEF Placed
  <2> QED  BY <2>1, <2>4
<1>10. /\ rest[i].do = "rules" => Len(rest) - i = RebuiltWeeks /\ Weekly(rest, i)
       /\ rest[i].do = "week" => Len(rest) - i = RebuiltWeeks - rest[i].week /\ Weekly(rest, i)
  BY <1>1, <1>3, <1>4 DEF Placed
<1>11. ASSUME rest[i].do = "week"
       PROVE  Follows(rest, i)
  <2> SUFFICES ASSUME NEW j \in 1..(n - 1), j + 1 = i
               PROVE  rest[j].do \in {"rules", "week"}
    BY <1>2 DEF Follows
  <2>1. rest[j] = todo[j + 1] /\ j + 1 \in 1..n /\ (j + 1) + 1 = i + 1
    BY <1>2
  <2>2. Follows(todo, i + 1)
    BY <1>3, <1>11 DEF Placed
  <2> QED  BY <1>1, <2>1, <2>2 DEF Follows
<1>12. rest[i].do \in {"START"} \union Inside => \E j \in 1..Len(rest) : j > i /\ rest[j].do \in Ends
  BY <1>2, <1>5
<1>13. rest[i].do \in Outside => \A j \in 1..Len(rest) : j >= i => rest[j].do \notin Ends
  BY <1>2, <1>6
<1>14. rest[i].do \in Ends => \A j \in 1..Len(rest) : rest[j].do \in Ends => j = i
  BY <1>2, <1>7
<1>15. rest[i].do = "cache" => Len(rest) - i = 0 /\ Len(rest) = 1
  BY <1>2, <1>9
<1> QED  BY <1>8, <1>10, <1>11, <1>12, <1>13, <1>14, <1>15 DEF Placed

(* One step.                                                                *)
LEMMA OneStep ==
  ASSUME NEW s \in Steps
  PROVE  <<s>> \in Seq(Steps) /\ Len(<<s>>) = 1 /\ <<s>>[1] = s
OBVIOUS

(* Steps put behind others.                                                 *)
LEMMA StepsJoined ==
  \A s, t \in Seq(Steps) :
    /\ s \o t \in Seq(Steps) /\ Len(s \o t) = Len(s) + Len(t)
    /\ \A i \in 1..(Len(s) + Len(t)) : (s \o t)[i] =
         IF i <= Len(s) THEN s[i] ELSE t[i - Len(s)]
BY ConcatProperties

(* A handler whose transaction is all it does.                              *)
LEMMA AddIs ==
  ASSUME NEW list \in Plans
  PROVE  \E p \in Seq(Steps) :
           /\ p = Start \o [i \in DOMAIN list |-> [do |-> "insert", act |-> list[i]]] \o Commit
           /\ Len(p) = Len(list) + 2 /\ p[1] = [do |-> "START"]
           /\ \A i \in 1..Len(list) : p[i + 1] = [do |-> "insert", act |-> list[i]]
           /\ p[Len(list) + 2] = [do |-> "COMMIT"]
<1>1. PICK m \in Nat : /\ m = Len(list) /\ DOMAIN list = 1..m
                       /\ \A i \in 1..m : list[i] \in Instances
  <2>1. list \in Seq(Placements)
    BY ScheduleAssumption
  <2>2. Len(list) \in Nat /\ DOMAIN list = 1..Len(list)
    BY <2>1, LenProperties
  <2>3. \A i \in DOMAIN list : list[i] \in Range(list)
    BY DEF Range
  <2>4. \A i \in DOMAIN list : list[i] \in Instances
    BY <2>3 DEF Instances
  <2> QED  BY <2>2, <2>4
<1> DEFINE body == [i \in DOMAIN list |-> [do |-> "insert", act |-> list[i]]]
<1>2. body \in Seq(Steps) /\ Len(body) = m /\ \A i \in 1..m : body[i] = [do |-> "insert", act |-> list[i]]
  <2>1. body \in [1..m -> Steps]
    BY <1>1 DEF Steps
  <2>2. \A i \in 1..m : body[i] = [do |-> "insert", act |-> list[i]]
    BY <1>1
  <2> HIDE DEF body
  <2> QED  BY <2>1, <2>2
<1> HIDE DEF body
<1>3. Start \in Seq(Steps) /\ Len(Start) = 1 /\ Start[1] = [do |-> "START"]
  <2>1. [do |-> "START"] \in Steps
    BY DEF Steps
  <2> QED  BY <2>1, OneStep DEF Start
<1>4. Commit \in Seq(Steps) /\ Len(Commit) = 1 /\ Commit[1] = [do |-> "COMMIT"]
  <2>1. [do |-> "COMMIT"] \in Steps
    BY DEF Steps
  <2> QED  BY <2>1, OneStep DEF Commit
<1>5. PICK a : a = Start \o body
  OBVIOUS
<1>6. /\ a \in Seq(Steps) /\ Len(a) = m + 1
      /\ \A i \in 1..(m + 1) : a[i] = IF i <= 1 THEN Start[i] ELSE body[i - 1]
  <2>1. PICK s \in Seq(Steps), t \in Seq(Steps) : s = Start /\ t = body
    BY <1>2, <1>3
  <2>2. /\ s \o t \in Seq(Steps) /\ Len(s \o t) = Len(s) + Len(t)
        /\ \A i \in 1..(Len(s) + Len(t)) : (s \o t)[i] =
             IF i <= Len(s) THEN s[i] ELSE t[i - Len(s)]
    BY StepsJoined
  <2>3. a = s \o t /\ Len(s) = 1 /\ Len(t) = m
    BY <1>2, <1>3, <1>5, <2>1
  <2> QED  BY <2>1, <2>2, <2>3
<1>7. PICK p : p = a \o Commit
  OBVIOUS
<1>8. /\ p \in Seq(Steps) /\ Len(p) = m + 2
      /\ \A i \in 1..(m + 2) : p[i] = IF i <= m + 1 THEN a[i] ELSE Commit[i - (m + 1)]
  <2>1. PICK s \in Seq(Steps), t \in Seq(Steps) : s = a /\ t = Commit
    BY <1>4, <1>6
  <2>2. /\ s \o t \in Seq(Steps) /\ Len(s \o t) = Len(s) + Len(t)
        /\ \A i \in 1..(Len(s) + Len(t)) : (s \o t)[i] =
             IF i <= Len(s) THEN s[i] ELSE t[i - Len(s)]
    BY StepsJoined
  <2>3. p = s \o t /\ Len(s) = m + 1 /\ Len(t) = 1
    BY <1>4, <1>6, <1>7, <2>1
  <2> QED  BY <2>1, <2>2, <2>3
<1>9. p[1] = [do |-> "START"] /\ p[m + 2] = [do |-> "COMMIT"]
  <2>1. 1 \in 1..(m + 1) /\ 1 \in 1..(m + 2) /\ 1 <= m + 1 /\ m + 2 \in 1..(m + 2)
        /\ ~(m + 2 <= m + 1) /\ (m + 2) - (m + 1) = 1
    OBVIOUS
  <2> QED  BY <1>3, <1>4, <1>6, <1>8, <2>1
<1>10. ASSUME NEW i \in 1..m
       PROVE  p[i + 1] = [do |-> "insert", act |-> list[i]]
  <2>1. i + 1 \in 1..(m + 1) /\ i + 1 \in 1..(m + 2) /\ i + 1 <= m + 1 /\ ~(i + 1 <= 1) /\ (i + 1) - 1 = i
    OBVIOUS
  <2> QED  BY <1>2, <1>6, <1>8, <2>1
<1> QED  BY <1>1, <1>5, <1>7, <1>8, <1>9, <1>10 DEF body

(* What an upload does, step by step.                                       *)
UploadIs(p, r) ==
  LET m == Len(r.courses) IN
    /\ Len(p) = m + 4 + RebuiltWeeks
    /\ p[1] = [do |-> "START"] /\ p[2] = [do |-> "clear", owner |-> Owner(r)]
    /\ \A i \in 1..m : p[i + 2] = [do |-> "course", owner |-> Owner(r), course |-> r.courses[i]]
    /\ p[m + 3] = [do |-> "COMMIT"] /\ p[m + 4] = [do |-> "rules", user |-> r.user]
    /\ \A w \in 1..RebuiltWeeks : p[m + 4 + w] = [do |-> "week", user |-> r.user, week |-> w]

UploadRequests == [op : {"upload"}, user : Users, courses : Uploads, public : BOOLEAN]

LEMMA UploadSteps ==
  ASSUME NEW r \in UploadRequests
  PROVE  Upload(r) \in Seq(Steps) /\ UploadIs(Upload(r), r)
<1>1. PICK m \in Nat : /\ m = Len(r.courses) /\ DOMAIN r.courses = 1..m
                       /\ \A i \in 1..m : r.courses[i] \in Courses
  <2>1. r.courses \in Seq(Courses)
    BY ScheduleAssumption DEF UploadRequests
  <2> QED  BY <2>1, LenProperties, ElementOfSeq
<1>2. PICK R \in Nat : R = RebuiltWeeks
  BY ScheduleAssumption
<1>3. r.user \in Users /\ Owner(r) \in Owners
  BY DEF UploadRequests, Owner, Owners
<1> DEFINE body == [i \in DOMAIN r.courses |->
                      [do |-> "course", owner |-> Owner(r), course |-> r.courses[i]]]
           weeks == [w \in 1..RebuiltWeeks |-> [do |-> "week", user |-> r.user, week |-> w]]
<1>4. body \in Seq(Steps) /\ Len(body) = m
      /\ \A i \in 1..m : body[i] = [do |-> "course", owner |-> Owner(r), course |-> r.courses[i]]
  <2>1. body \in [1..m -> Steps]
    BY <1>1, <1>3 DEF Steps
  <2>2. \A i \in 1..m : body[i] = [do |-> "course", owner |-> Owner(r), course |-> r.courses[i]]
    BY <1>1
  <2> HIDE DEF body
  <2> QED  BY <2>1, <2>2
<1>5. weeks \in Seq(Steps) /\ Len(weeks) = R
      /\ \A w \in 1..R : weeks[w] = [do |-> "week", user |-> r.user, week |-> w]
  <2>1. weeks \in [1..R -> Steps]
    BY <1>2, <1>3 DEF Steps
  <2>2. \A w \in 1..R : weeks[w] = [do |-> "week", user |-> r.user, week |-> w]
    BY <1>2
  <2> HIDE DEF weeks
  <2> QED  BY <2>1, <2>2
<1> HIDE DEF body, weeks
<1>6. PICK s1 \in Steps, s2 \in Steps, s3 \in Steps, s4 \in Steps :
        /\ s1 = [do |-> "START"] /\ s2 = [do |-> "clear", owner |-> Owner(r)]
        /\ s3 = [do |-> "COMMIT"] /\ s4 = [do |-> "rules", user |-> r.user]
  BY <1>3 DEF Steps
<1>7. Upload(r) = <<s1>> \o <<s2>> \o body \o <<s3>> \o (<<s4>> \o weeks)
  BY <1>6 DEF Upload, Rebuild, Start, Commit, body, weeks
<1>8. PICK a : a = <<s1>> \o <<s2>>
  OBVIOUS
<1>9. a \in Seq(Steps) /\ Len(a) = 2 /\ a[1] = s1 /\ a[2] = s2
  BY <1>8
<1>10. PICK b : b = a \o body
  OBVIOUS
<1>11. /\ b \in Seq(Steps) /\ Len(b) = m + 2 /\ b[1] = s1 /\ b[2] = s2
       /\ \A i \in 1..m : b[i + 2] = body[i]
  <2>1. /\ b \in Seq(Steps) /\ Len(b) = Len(a) + Len(body)
        /\ \A i \in 1..(Len(a) + Len(body)) : b[i] =
             IF i <= Len(a) THEN a[i] ELSE body[i - Len(a)]
    BY <1>4, <1>9, <1>10, ConcatProperties
  <2>2. Len(b) = m + 2 /\ b \in Seq(Steps)
        /\ \A i \in 1..(m + 2) : b[i] = IF i <= 2 THEN a[i] ELSE body[i - 2]
    BY <1>4, <1>9, <2>1
  <2>3. \A i \in 1..m : i + 2 \in 1..(m + 2) /\ ~(i + 2 <= 2) /\ (i + 2) - 2 = i
    OBVIOUS
  <2>4. 1 \in 1..(m + 2) /\ 2 \in 1..(m + 2) /\ 1 <= 2 /\ 2 <= 2
    OBVIOUS
  <2>5. b[1] = s1 /\ b[2] = s2
    BY <1>9, <2>2, <2>4
  <2> QED  BY <2>2, <2>3, <2>5
<1>12. PICK c : c = b \o <<s3>>
  OBVIOUS
<1>13. /\ c \in Seq(Steps) /\ Len(c) = m + 3 /\ c[m + 3] = s3
       /\ \A i \in 1..(m + 2) : c[i] = b[i]
  <2>1. c = Append(b, s3)
    BY <1>6, <1>11, <1>12
  <2>2. /\ Append(b, s3) \in Seq(Steps) /\ Len(Append(b, s3)) = Len(b) + 1
        /\ \A i \in 1..Len(b) : Append(b, s3)[i] = b[i]
        /\ Append(b, s3)[Len(b) + 1] = s3
    BY <1>6, <1>11, AppendProperties
  <2>3. (m + 2) + 1 = m + 3
    OBVIOUS
  <2> QED  BY <1>11, <2>1, <2>2, <2>3
<1>14. PICK d : d = <<s4>> \o weeks
  OBVIOUS
<1>15. d \in Seq(Steps) /\ Len(d) = R + 1 /\ d[1] = s4 /\ \A w \in 1..R : d[w + 1] = weeks[w]
  <2>1. <<s4>> \in Seq(Steps) /\ Len(<<s4>>) = 1 /\ <<s4>>[1] = s4
    BY <1>6
  <2>2. /\ d \in Seq(Steps) /\ Len(d) = Len(<<s4>>) + Len(weeks)
        /\ \A i \in 1..(Len(<<s4>>) + Len(weeks)) : d[i] =
             IF i <= Len(<<s4>>) THEN <<s4>>[i] ELSE weeks[i - Len(<<s4>>)]
    BY <1>5, <1>14, <2>1, ConcatProperties
  <2>3. Len(d) = R + 1 /\ d \in Seq(Steps)
        /\ \A i \in 1..(R + 1) : d[i] = IF i <= 1 THEN <<s4>>[i] ELSE weeks[i - 1]
    BY <1>5, <2>1, <2>2
  <2>4. \A w \in 1..R : w + 1 \in 1..(R + 1) /\ ~(w + 1 <= 1) /\ (w + 1) - 1 = w
    OBVIOUS
  <2>5. 1 \in 1..(R + 1) /\ 1 <= 1
    OBVIOUS
  <2>6. d[1] = s4
    BY <2>1, <2>3, <2>5
  <2> QED  BY <2>3, <2>4, <2>6
<1>16. PICK p : p = c \o d
  OBVIOUS
<1>17. /\ p \in Seq(Steps) /\ Len(p) = m + 4 + R
       /\ \A i \in 1..(m + 3) : p[i] = c[i]
       /\ \A i \in 1..(R + 1) : p[m + 3 + i] = d[i]
  <2>1. /\ p \in Seq(Steps) /\ Len(p) = Len(c) + Len(d)
        /\ \A i \in 1..(Len(c) + Len(d)) : p[i] =
             IF i <= Len(c) THEN c[i] ELSE d[i - Len(c)]
    BY <1>13, <1>15, <1>16, ConcatProperties
  <2>2. Len(p) = m + 4 + R /\ p \in Seq(Steps)
        /\ \A i \in 1..(m + 4 + R) : p[i] = IF i <= m + 3 THEN c[i] ELSE d[i - (m + 3)]
    <3>1. (m + 3) + (R + 1) = m + 4 + R
      OBVIOUS
    <3> QED  BY <1>13, <1>15, <2>1, <3>1
  <2>3. \A i \in 1..(R + 1) : /\ m + 3 + i \in 1..(m + 4 + R) /\ ~(m + 3 + i <= m + 3)
                              /\ (m + 3 + i) - (m + 3) = i
    OBVIOUS
  <2>4. \A i \in 1..(m + 3) : i \in 1..(m + 4 + R) /\ i <= m + 3
    OBVIOUS
  <2> QED  BY <2>2, <2>3, <2>4
<1>18. Upload(r) = p
  BY <1>7, <1>8, <1>10, <1>12, <1>14, <1>16
<1>19. p[1] = s1 /\ p[2] = s2 /\ p[m + 3] = s3 /\ p[m + 4] = s4
  <2>1. 1 \in 1..(m + 2) /\ 2 \in 1..(m + 2) /\ 1 \in 1..(m + 3) /\ 2 \in 1..(m + 3) /\ m + 3 \in 1..(m + 3)
        /\ 1 \in 1..(R + 1) /\ m + 3 + 1 = m + 4
    OBVIOUS
  <2>2. p[m + 3 + 1] = d[1]
    BY <1>17, <2>1
  <2> QED  BY <1>11, <1>13, <1>15, <1>17, <2>1, <2>2
<1>20. ASSUME NEW i \in 1..m
       PROVE  p[i + 2] = [do |-> "course", owner |-> Owner(r), course |-> r.courses[i]]
  <2>1. i + 2 \in 1..(m + 2) /\ i + 2 \in 1..(m + 3)
    OBVIOUS
  <2> QED  BY <1>4, <1>11, <1>13, <1>17, <2>1
<1>21. ASSUME NEW w \in 1..R
       PROVE  p[m + 4 + w] = [do |-> "week", user |-> r.user, week |-> w]
  <2>1. w + 1 \in 1..(R + 1) /\ m + 3 + (w + 1) = m + 4 + w
    OBVIOUS
  <2>2. p[m + 3 + (w + 1)] = d[w + 1]
    BY <1>17, <2>1
  <2> QED  BY <1>5, <1>15, <2>1, <2>2
<1> QED  BY <1>1, <1>2, <1>6, <1>17, <1>18, <1>19, <1>20, <1>21 DEF UploadIs

(* A step alone, when it is none that comes with others.                    *)
LEMMA AloneShape ==
  ASSUME NEW s \in Steps, s.do \in {"COMMIT", "ROLLBACK", "move", "assign", "cache"}
  PROVE  Shape(<<s>>)
BY OneStep DEF Shape, Placed, Weekly, Ends, Inside, Outside

(* An empty rest has every shape.                                           *)
LEMMA EmptyShape == Shape(<<>>)
BY EmptySeq DEF Shape

(* The write of the start of the term, and of the cache after it.           *)
LEMMA SetTermShape ==
  ASSUME NEW date \in Starts \union {NoDate}
  PROVE  Shape(<<[do |-> "term", date |-> date], [do |-> "cache", date |-> date]>>)
<1>1. PICK s \in Steps, c \in Steps : s = [do |-> "term", date |-> date] /\ c = [do |-> "cache", date |-> date]
  BY DEF Steps
<1>2. PICK p : p = <<s, c>>
  OBVIOUS
<1>3. p \in Seq(Steps) /\ Len(p) = 2 /\ p[1] = s /\ p[2] = c
  BY <1>2
<1>4. s.do = "term" /\ c.do = "cache" /\ c = [do |-> "cache", date |-> s.date]
  BY <1>1
<1>5. \A i \in 1..2 : i = 1 \/ i = 2
  OBVIOUS
<1>6. Placed(p, 1) /\ Placed(p, 2)
  BY <1>3, <1>4, <1>5 DEF Placed, Ends, Inside, Outside
<1> QED  BY <1>1, <1>2, <1>3, <1>5, <1>6 DEF Shape

(* A transaction that a handler is made of.                                 *)
LEMMA BracketShape ==
  ASSUME NEW p \in Seq(Steps), NEW n \in Nat, Len(p) = n, n >= 2,
         p[1].do = "START", p[n].do = "COMMIT",
         \A i \in 2..(n - 1) : p[i].do \in Inside
  PROVE  Shape(p)
<1> SUFFICES ASSUME NEW i \in 1..n
             PROVE  Placed(p, i)
  BY DEF Shape
<1>1. \A j \in 1..n : j = 1 \/ j = n \/ j \in 2..(n - 1)
  OBVIOUS
<1>2. \A j \in 1..n : p[j].do \in Ends => j = n
  BY <1>1 DEF Ends, Inside
<1>3. \A j \in 1..n : p[j].do = "START" => j = 1
  BY <1>1 DEF Inside
<1>4. p[i].do \in {"START"} \union Inside => n \in 1..n /\ n > i /\ p[n].do \in Ends
  BY <1>1 DEF Ends, Inside
<1>5. p[i].do \notin Outside /\ p[i].do \notin {"rules", "week", "term", "cache"}
  BY <1>1 DEF Outside, Inside
<1> QED  BY <1>2, <1>3, <1>4, <1>5 DEF Placed

(* The upload and the rebuilding that follows it.                           *)
LEMMA UploadShape ==
  ASSUME NEW r \in UploadRequests
  PROVE  Shape(Upload(r))
<1>1. PICK p \in Seq(Steps) : p = Upload(r) /\ UploadIs(p, r)
  BY UploadSteps
<1>2. PICK m \in Nat : m = Len(r.courses)
  <2>1. r.courses \in Seq(Courses)
    BY ScheduleAssumption DEF UploadRequests
  <2> QED  BY <2>1, LenProperties
<1>3. PICK R \in Nat : R = RebuiltWeeks
  BY ScheduleAssumption
<1>4. /\ Len(p) = m + 4 + R
      /\ p[1] = [do |-> "START"]
      /\ p[2] = [do |-> "clear", owner |-> Owner(r)]
      /\ \A i \in 1..m : p[i + 2] = [do |-> "course", owner |-> Owner(r), course |-> r.courses[i]]
      /\ p[m + 3] = [do |-> "COMMIT"]
      /\ p[m + 4] = [do |-> "rules", user |-> r.user]
      /\ \A w \in 1..R : p[m + 4 + w] = [do |-> "week", user |-> r.user, week |-> w]
  BY <1>1, <1>2, <1>3 DEF UploadIs
<1>5. p[1].do = "START" /\ p[2].do = "clear" /\ p[m + 3].do = "COMMIT"
      /\ p[m + 4].do = "rules" /\ p[m + 4].user = r.user
  BY <1>4
<1>6. \A j \in 3..(m + 2) : p[j].do = "course"
  <2>1. ASSUME NEW j \in 3..(m + 2)
        PROVE  p[j].do = "course"
    <3>1. j - 2 \in 1..m /\ (j - 2) + 2 = j
      OBVIOUS
    <3>2. p[(j - 2) + 2] = [do |-> "course", owner |-> Owner(r), course |-> r.courses[j - 2]]
      BY <1>4, <3>1
    <3> QED  BY <3>1, <3>2
  <2> QED  BY <2>1
<1>7. \A j \in 1..(m + 4 + R) : j > m + 4 =>
        p[j].do = "week" /\ p[j].user = r.user /\ p[j].week = j - (m + 4)
  <2>1. ASSUME NEW j \in 1..(m + 4 + R), j > m + 4
        PROVE  p[j].do = "week" /\ p[j].user = r.user /\ p[j].week = j - (m + 4)
    <3>1. PICK w \in 1..R : w = j - (m + 4)
      BY <2>1
    <3>2. m + 4 + w = j
      BY <3>1
    <3>3. p[m + 4 + w] = [do |-> "week", user |-> r.user, week |-> w]
      BY <1>4
    <3> QED  BY <3>1, <3>2, <3>3
  <2> QED  BY <2>1
<1>8. \A j \in 1..(m + 4 + R) :
        j = 1 \/ j = 2 \/ j \in 3..(m + 2) \/ j = m + 3 \/ j = m + 4 \/ j > m + 4
  OBVIOUS
<1>9. \A j \in 1..(m + 4 + R) :
        \/ j = 1 /\ p[j].do = "START"
        \/ j > 1 /\ j < m + 3 /\ p[j].do \in {"clear", "course"}
        \/ j = m + 3 /\ p[j].do = "COMMIT"
        \/ j = m + 4 /\ p[j].do = "rules"
        \/ j > m + 4 /\ p[j].do = "week"
  BY <1>5, <1>6, <1>7, <1>8
<1>10. \A j \in 1..(m + 4 + R) : p[j].do \in Ends <=> j = m + 3
  BY <1>9 DEF Ends
<1> SUFFICES ASSUME NEW i \in 1..(m + 4 + R)
             PROVE  Placed(p, i)
  BY <1>1, <1>4 DEF Shape
<1>11. CASE i = 1
  BY <1>4, <1>5, <1>10, <1>11 DEF Placed, Inside, Outside, Ends
<1>12. CASE i > 1 /\ i < m + 3 /\ p[i].do \in {"clear", "course"}
  <2>1. m + 3 \in 1..(m + 4 + R) /\ m + 3 > i /\ p[m + 3].do \in Ends
    BY <1>10, <1>12
  <2> QED  BY <1>4, <1>12, <2>1 DEF Placed, Inside, Outside, Ends
<1>13. CASE i = m + 3
  BY <1>4, <1>5, <1>10, <1>13 DEF Placed, Inside, Outside, Ends
<1>14. CASE i = m + 4
  <2>1. Weekly(p, i)
    BY <1>4, <1>5, <1>7, <1>14 DEF Weekly
  <2>2. \A j \in 1..(m + 4 + R) : j >= i => p[j].do \notin Ends
    BY <1>10, <1>14
  <2>3. (m + 4 + R) - i = RebuiltWeeks
    BY <1>3, <1>14
  <2> QED  BY <1>4, <1>5, <1>14, <2>1, <2>2, <2>3 DEF Placed, Inside, Outside, Ends
<1>15. CASE i > m + 4
  <2>1. p[i].do = "week" /\ p[i].user = r.user /\ p[i].week = i - (m + 4)
    BY <1>7, <1>15
  <2>2. Weekly(p, i)
    BY <1>4, <1>7, <1>15, <2>1 DEF Weekly
  <2>3. \A j \in 1..(m + 4 + R) : j >= i => p[j].do \notin Ends
    BY <1>10, <1>15
  <2>4. (m + 4 + R) - i = RebuiltWeeks - p[i].week
    BY <1>3, <1>15, <2>1
  <2>5. Follows(p, i)
    BY <1>4, <1>9, <1>15 DEF Follows
  <2> QED  BY <1>4, <2>1, <2>2, <2>3, <2>4, <2>5 DEF Placed, Inside, Outside, Ends
<1> QED  BY <1>9, <1>11, <1>12, <1>13, <1>14, <1>15

(* Every handler's program has the shape.                                   *)
LEMMA ProgramShape ==
  ASSUME NEW r \in Requests
  PROVE  Shape(Program(r))
<1>1. CASE r.op = "upload"
  <2>1. r \in UploadRequests
    BY <1>1 DEF Requests, UploadRequests
  <2> QED  BY <1>1, <2>1, UploadShape DEF Program
<1>2. CASE r.op = "applyTemplate"
  <2>1. PICK a \in Steps, b \in Steps, c \in Steps :
          a = [do |-> "START"] /\ b = [do |-> "template"] /\ c = [do |-> "COMMIT"]
    BY DEF Steps
  <2>2. PICK q : q = <<a>> \o <<b>>
    OBVIOUS
  <2>3. q \in Seq(Steps) /\ Len(q) = 2 /\ q[1] = a /\ q[2] = b
    BY <2>2
  <2>4. PICK p : p = q \o <<c>>
    OBVIOUS
  <2>5. Program(r) = p
    BY <1>2, <2>1, <2>2, <2>4 DEF Program, ApplyTemplate, Start, Commit
  <2>6. p = Append(q, c)
    BY <2>3, <2>4
  <2>7. /\ Append(q, c) \in Seq(Steps) /\ Len(Append(q, c)) = Len(q) + 1
        /\ \A i \in 1..Len(q) : Append(q, c)[i] = q[i]
        /\ Append(q, c)[Len(q) + 1] = c
    <3>1. q \in Seq(Steps) /\ c \in Steps
      BY <2>1, <2>3
    <3> QED  BY <3>1, AppendProperties
  <2>8. 2 + 1 = 3 /\ 1 \in 1..2 /\ 2 \in 1..2
    OBVIOUS
  <2>9. p \in Seq(Steps) /\ Len(p) = 3 /\ p[1] = a /\ p[2] = b /\ p[3] = c
    BY <2>3, <2>6, <2>7, <2>8
  <2>10. \A i \in 2..(3 - 1) : p[i].do \in Inside
    <3>1. \A i \in 2..(3 - 1) : i = 2
      OBVIOUS
    <3> QED  BY <2>1, <2>9, <3>1 DEF Inside
  <2>11. p[1].do = "START" /\ p[3].do = "COMMIT"
    BY <2>1, <2>9
  <2>12. PICK n \in Nat : n = 3 /\ n >= 2
    OBVIOUS
  <2> QED  BY <2>5, <2>9, <2>10, <2>11, <2>12, BracketShape
<1>3. CASE r.op = "setTerm"
  <2>1. r.date \in Starts \union {NoDate}
    BY <1>3 DEF Requests
  <2> QED  BY <1>3, <2>1, SetTermShape DEF Program, SetTerm
<1>4. CASE r.op = "add"
  <2>1. r.list \in Plans
    BY <1>4 DEF Requests
  <2>2. PICK p \in Seq(Steps) :
           /\ p = Start \o [i \in DOMAIN r.list |-> [do |-> "insert", act |-> r.list[i]]] \o Commit
           /\ Len(p) = Len(r.list) + 2 /\ p[1] = [do |-> "START"]
           /\ \A i \in 1..Len(r.list) : p[i + 1] = [do |-> "insert", act |-> r.list[i]]
           /\ p[Len(r.list) + 2] = [do |-> "COMMIT"]
    BY <2>1, AddIs
  <2>3. PICK m \in Nat : m = Len(r.list)
    <3>1. r.list \in Seq(Placements)
      BY <2>1, ScheduleAssumption
    <3> QED  BY <3>1, LenProperties
  <2>4. Program(r) = p
    BY <1>4, <2>2 DEF Program, Add
  <2>5. \A i \in 2..(m + 2 - 1) : p[i].do \in Inside
    <3>1. ASSUME NEW i \in 2..(m + 2 - 1)
          PROVE  p[i].do = "insert"
      <4>1. i - 1 \in 1..m /\ (i - 1) + 1 = i
        BY <3>1
      <4>2. p[(i - 1) + 1] = [do |-> "insert", act |-> r.list[i - 1]]
        BY <2>2, <2>3, <4>1
      <4> QED  BY <4>1, <4>2
    <3> QED  BY <3>1 DEF Inside
  <2>6. p[1].do = "START" /\ Len(p) = m + 2
    <3>1. p[1] = [do |-> "START"] /\ Len(p) = m + 2
      BY <2>2, <2>3
    <3> QED  BY <3>1
  <2>7. p[m + 2].do = "COMMIT"
    <3>1. p[m + 2] = [do |-> "COMMIT"]
      BY <2>2, <2>3
    <3> QED  BY <3>1
  <2>8. PICK n \in Nat : n = m + 2 /\ n >= 2
    OBVIOUS
  <2> QED  BY <2>4, <2>5, <2>6, <2>7, <2>8, BracketShape
<1>5. CASE r.op \in {"move", "assign"}
  <2>1. Program(r) = <<[do |-> r.op, req |-> r]>>
    BY <1>5 DEF Program
  <2>2. [do |-> r.op, req |-> r] \in Steps
    <3>1. CASE r.op = "move"
      <4>1. r \in [op : {"move"}, act : Acts, to : Instances]
        BY <3>1 DEF Requests
      <4> QED  BY <3>1, <4>1 DEF Steps
    <3>2. CASE r.op = "assign"
      <4>1. r \in [op : {"assign"}, act : Acts, user : Users]
        BY <3>2 DEF Requests
      <4> QED  BY <3>2, <4>1 DEF Steps
    <3> QED  BY <1>5, <3>1, <3>2
  <2> QED  BY <1>5, <2>1, <2>2, AloneShape
<1> QED  BY <1>1, <1>2, <1>3, <1>4, <1>5 DEF Requests

(* A handler begins with a transaction, or with a write that is none.       *)
LEMMA ProgramBegins ==
  ASSUME NEW r \in Requests
  PROVE  Program(r) # <<>> /\ Program(r)[1].do \in {"START", "term", "move", "assign"}
<1>1. PICK p : p = Program(r)
  OBVIOUS
<1>2. CASE r.op = "upload"
  <2>1. r \in UploadRequests
    BY <1>2 DEF Requests, UploadRequests
  <2>2. p = Upload(r)
    BY <1>1, <1>2 DEF Program
  <2>3. p[1] = [do |-> "START"] /\ Len(p) = Len(r.courses) + 4 + RebuiltWeeks
    BY <2>1, <2>2, UploadSteps DEF UploadIs
  <2>4. Len(r.courses) \in Nat /\ RebuiltWeeks \in Nat
    <3>1. r.courses \in Seq(Courses)
      BY <2>1, ScheduleAssumption DEF UploadRequests
    <3> QED  BY <3>1, LenProperties, ScheduleAssumption
  <2>5. Len(p) # 0 /\ p \in Seq(Steps)
    BY <2>1, <2>2, <2>3, <2>4, UploadSteps
  <2>6. p[1].do = "START"
    BY <2>3
  <2> QED  BY <1>1, <2>5, <2>6, EmptySeq
<1>3. CASE r.op = "add"
  <2>1. r.list \in Plans
    BY <1>3 DEF Requests
  <2>2. p = Start \o [i \in DOMAIN r.list |-> [do |-> "insert", act |-> r.list[i]]] \o Commit
    BY <1>1, <1>3 DEF Program, Add
  <2>3. p \in Seq(Steps) /\ Len(p) = Len(r.list) + 2 /\ p[1] = [do |-> "START"]
    BY <2>1, <2>2, AddIs
  <2>4. Len(r.list) \in Nat
    <3>1. r.list \in Seq(Placements)
      BY <2>1, ScheduleAssumption
    <3> QED  BY <3>1, LenProperties
  <2>5. Len(p) # 0
    BY <2>3, <2>4
  <2>6. p[1].do = "START"
    BY <2>3
  <2> QED  BY <1>1, <2>3, <2>5, <2>6, EmptySeq
<1>4. CASE r.op = "applyTemplate"
  <2>1. PICK a, b, c : a = [do |-> "START"] /\ b = [do |-> "template"] /\ c = [do |-> "COMMIT"]
    OBVIOUS
  <2>2. Program(r) = (<<a>> \o <<b>>) \o <<c>>
    BY <1>4, <2>1 DEF Program, ApplyTemplate, Start, Commit
  <2>3. <<a>> \o <<b>> # <<>> /\ (<<a>> \o <<b>>)[1] = a
    OBVIOUS
  <2>4. (<<a>> \o <<b>>) \o <<c>> # <<>> /\ ((<<a>> \o <<b>>) \o <<c>>)[1] = a
    OBVIOUS
  <2>5. a.do = "START"
    BY <2>1
  <2> QED  BY <2>2, <2>4, <2>5
<1>5. CASE r.op = "setTerm"
  <2>1. Program(r) = <<[do |-> "term", date |-> r.date], [do |-> "cache", date |-> r.date]>>
    BY <1>5 DEF Program, SetTerm
  <2> QED  BY <2>1
<1>6. CASE r.op \in {"move", "assign"}
  <2>1. Program(r) = <<[do |-> r.op, req |-> r]>>
    BY <1>6 DEF Program
  <2>2. Program(r)[1].do = r.op /\ Program(r) # <<>>
    BY <2>1
  <2> QED  BY <1>6, <2>2
<1> QED  BY <1>2, <1>3, <1>4, <1>5, <1>6 DEF Requests

-----------------------------------------------------------------------------
(* Types.                                                                   *)

Activities == [date : Nat, from : 0..1440, to : 0..1440, week : Weeks, mask : SUBSET Slots]
Timetables == [Weeks \X Days -> SUBSET Slots]
Tables == [term : Int, acts : [Acts -> Activities \union {None}], members : SUBSET (Acts \X Users),
           templates : [Owners -> SUBSET Rules], schedule : [Users -> Timetables]]
Jobs == [todo : Seq(Steps), rules : SUBSET Rules]

Types ==
  /\ workers \in SUBSET Threads
  /\ db \in Tables /\ undo \in Tables \union {None} /\ cache \in Int
  /\ job \in [Threads -> Jobs]
  /\ \A t \in Threads : Shape(job[t].todo) /\ (t \notin workers => job[t].todo = <<>>)
  /\ rebuilt \in SUBSET Users /\ filed \in SUBSET Acts

(* The columns of an activity.                                              *)
Minutes == 0..1440

LEMMA ActivityIs ==
  Activities = [date : Nat, from : Minutes, to : Minutes, week : Weeks, mask : SUBSET Slots]
BY DEF Activities, Minutes

(* A placement with its week and hours is an activity.                      *)
LEMMA PlacedIs ==
  ASSUME NEW p \in Placements, NEW w \in Weeks, NEW m \in SUBSET Slots
  PROVE  [date |-> p.date, from |-> p.from, to |-> p.to, week |-> w, mask |-> m] \in Activities
<1>1. p.date \in Nat /\ p.from \in Minutes /\ p.to \in Minutes
  BY DEF Placements, Minutes
<1> QED  BY <1>1, ActivityIs

(* Tables are not the mark for no tables.                                   *)
LEMMA NoneIsNoTable ==
  ASSUME NEW d \in Tables
  PROVE  d # None
<1>1. DOMAIN d = {"term", "acts", "members", "templates", "schedule"}
  BY DEF Tables
<1>2. DOMAIN None = {"none"}
  BY DEF None
<1> QED  BY <1>1, <1>2

(* Dates in the tables are days.                                            *)
LEMMA DatesAreDays ==
  /\ \A date \in Starts \union {NoDate} : date \in Int /\ Loaded(date) \in Int
  /\ \A i \in Instances : i \in Placements
<1>1. \A date \in Starts \union {NoDate} : date \in Int /\ Loaded(date) \in Int
  BY ScheduleAssumption DEF NoDate, Loaded
<1>2. ASSUME NEW p \in Plans, NEW i \in Range(p)
      PROVE  i \in Placements
  <2>1. p \in Seq(Placements)
    BY ScheduleAssumption
  <2>2. PICK k \in DOMAIN p : i = p[k]
    BY DEF Range
  <2>3. k \in 1..Len(p)
    BY <2>1, <2>2, LenProperties
  <2> QED  BY <2>1, <2>2, <2>3, ElementOfSeq
<1> QED  BY <1>1, <1>2 DEF Instances

(* What the steps that write have with them.                                *)
LEMMA StepFields ==
  ASSUME NEW s \in Steps
  PROVE  /\ s.do \in {"START", "COMMIT", "ROLLBACK"} \union Inside \union Outside
         /\ s.do \in {"rules", "week"} => s.user \in Users
         /\ s.do = "week" => s.week \in 1..RebuiltWeeks
         /\ s.do \in {"clear", "course"} => s.owner \in Owners
         /\ s.do = "course" => s.course \in Courses
         /\ s.do \in {"term", "cache"} => s.date \in Starts \union {NoDate}
         /\ s.do = "insert" => s.act \in Instances
         /\ s.do = "move" => s.req.act \in Acts /\ s.req.to \in Instances
         /\ s.do = "assign" => s.req.act \in Acts /\ s.req.user \in Users
<1>1. s.do \in {"START", "COMMIT", "ROLLBACK"} \union Inside \union Outside
  BY DEF Steps, Inside, Outside
<1>2. s.do \in {"rules", "week"} => s.user \in Users
  BY DEF Steps
<1>3. s.do = "week" => s.week \in 1..RebuiltWeeks
  BY DEF Steps
<1>4. s.do \in {"clear", "course"} => s.owner \in Owners
  BY DEF Steps
<1>5. s.do = "course" => s.course \in Courses
  BY DEF Steps
<1>6. s.do \in {"term", "cache"} => s.date \in Starts \union {NoDate}
  BY DEF Steps
<1>7. s.do = "insert" => s.act \in Instances
  BY DEF Steps
<1>8. s.do = "move" => s.req.act \in Acts /\ s.req.to \in Instances
  BY DEF Steps
<1>9. s.do = "assign" => s.req.act \in Acts /\ s.req.user \in Users
  BY DEF Steps
<1> QED  BY <1>1, <1>2, <1>3, <1>4, <1>5, <1>6, <1>7, <1>8, <1>9

(* A mask of hours has hours of the day.                                    *)
LEMMA MasksAreHours ==
  /\ \A from, to : HourMask(from, to) \in SUBSET Slots
  /\ \A rules \in SUBSET Rules : \A w, d : DayMask(rules, w, d) \in SUBSET Slots
BY DEF HourMask, DayMask, Rules

(* An activity that is moved stays one.                                     *)
MovedTo(x, a, b, c) == [x EXCEPT !.date = a, !.from = b, !.to = c]

LEMMA MovedStays ==
  ASSUME NEW x \in Activities, NEW a \in Nat, NEW b, NEW c, b \in Minutes, c \in Minutes
  PROVE  MovedTo(x, a, b, c) \in Activities
<1>1. /\ x.from \in Minutes /\ x.to \in Minutes /\ x.week \in Weeks
      /\ x.mask \in SUBSET Slots
  BY ActivityIs
<1>2. MovedTo(x, a, b, c) = [date |-> a, from |-> b, to |-> c, week |-> x.week, mask |-> x.mask]
  <2>1. PICK g, h, w, m, n : x = [date |-> n, from |-> g, to |-> h, week |-> w, mask |-> m]
    BY ActivityIs
  <2>2. PICK p : p = [x EXCEPT !.date = a]
    OBVIOUS
  <2>3. p = [date |-> a, from |-> g, to |-> h, week |-> w, mask |-> m]
    BY <2>1, <2>2
  <2>4. PICK q : q = [p EXCEPT !.from = b]
    OBVIOUS
  <2>5. q = [date |-> a, from |-> b, to |-> h, week |-> w, mask |-> m]
    BY <2>3, <2>4
  <2>6. MovedTo(x, a, b, c) = [q EXCEPT !.to = c]
    BY <2>2, <2>4 DEF MovedTo
  <2>7. MovedTo(x, a, b, c) = [date |-> a, from |-> b, to |-> c, week |-> w, mask |-> m]
    BY <2>5, <2>6
  <2> QED  BY <2>1, <2>7
<1> QED  BY <1>1, <1>2, ActivityIs

(* What a statement makes of the tables, and what it leaves alone.          *)
LEMMA RunIs ==
  ASSUME db \in Tables, NEW s \in Steps, NEW rules \in SUBSET Rules, ~Fails(s)
  PROVE  /\ Run(s, rules) \in Tables
         /\ Run(s, rules).term = IF s.do = "term" THEN s.date ELSE db.term
         /\ s.do # "week" => Run(s, rules).schedule = db.schedule
         /\ s.do = "week" => Run(s, rules).schedule = [db.schedule EXCEPT ![s.user] =
              [p \in Weeks \X Days |-> IF p[1] = s.week THEN DayMask(rules, p[1], p[2])
                                       ELSE db.schedule[s.user][p]]]
         /\ s.do \notin {"clear", "course"} => Run(s, rules).templates = db.templates
         /\ s.do \notin {"insert", "move"} => Run(s, rules).acts = db.acts
         /\ s.do = "insert" => Run(s, rules).acts = [db.acts EXCEPT ![NextAct] = Filed(s.act)]
<1>0. /\ db.term \in Int /\ db.acts \in [Acts -> Activities \union {None}]
      /\ db.members \in SUBSET (Acts \X Users) /\ db.templates \in [Owners -> SUBSET Rules]
      /\ db.schedule \in [Users -> Timetables]
  BY DEF Tables
<1>1. CASE s.do = "clear"
  <2>1. Run(s, rules) = [db EXCEPT !.templates[s.owner] = {}]
    BY <1>1 DEF Run
  <2>2. [db.templates EXCEPT ![s.owner] = {}] \in [Owners -> SUBSET Rules]
    BY <1>0
  <2> QED  BY <1>0, <1>1, <2>1, <2>2 DEF Tables
<1>2. CASE s.do = "course"
  <2>1. Run(s, rules) = [db EXCEPT !.templates[s.owner] = @ \union {s.course.rule}]
    BY <1>2 DEF Run
  <2>2. s.owner \in Owners /\ s.course.rule \in Rules
    BY <1>2, StepFields DEF Courses
  <2>3. [db.templates EXCEPT ![s.owner] = @ \union {s.course.rule}] \in [Owners -> SUBSET Rules]
    BY <1>0, <2>2
  <2> QED  BY <1>0, <1>2, <2>1, <2>3 DEF Tables
<1>3. CASE s.do = "week"
  <2>0. s.user \in Users
    BY <1>3, StepFields
  <2>1. PICK row : row = [p \in Weeks \X Days |-> IF p[1] = s.week THEN DayMask(rules, p[1], p[2])
                                                  ELSE db.schedule[s.user][p]]
    OBVIOUS
  <2>2. Run(s, rules) = [db EXCEPT !.schedule[s.user] = row]
    BY <1>3, <2>1 DEF Run
  <2>3. row \in Timetables
    <3>1. db.schedule[s.user] \in Timetables
      BY <1>0, <2>0
    <3> QED  BY <2>1, <3>1, MasksAreHours DEF Timetables
  <2>4. [db.schedule EXCEPT ![s.user] = row] \in [Users -> Timetables]
    BY <1>0, <2>3
  <2>5. Run(s, rules).schedule = [db.schedule EXCEPT ![s.user] = row]
    BY <1>0, <2>2 DEF Tables
  <2>6. /\ Run(s, rules).term = db.term /\ Run(s, rules).templates = db.templates
        /\ Run(s, rules).acts = db.acts
    BY <1>0, <2>2 DEF Tables
  <2>7. Run(s, rules) \in Tables
    BY <1>0, <2>2, <2>4 DEF Tables
  <2> QED  BY <1>3, <2>1, <2>5, <2>6, <2>7
<1>4. CASE s.do = "term"
  <2>1. Run(s, rules) = [db EXCEPT !.term = s.date]
    BY <1>4 DEF Run
  <2>2. s.date \in Int
    BY <1>4, StepFields, DatesAreDays
  <2> QED  BY <1>0, <1>4, <2>1, <2>2 DEF Tables
<1>5. CASE s.do = "insert"
  <2>1. PICK row : row = Filed(s.act)
    OBVIOUS
  <2>2. Run(s, rules) = [db EXCEPT !.acts[NextAct] = row]
    BY <1>5, <2>1 DEF Run
  <2>3. row \in Activities
    <3>1. s.act \in Placements
      BY <1>5, StepFields, DatesAreDays
    <3>2. row.week \in Weeks
      BY <1>5, <2>1 DEF Fails
    <3>3. HourMask(s.act.from, s.act.to) \in SUBSET Slots
      BY MasksAreHours
    <3>4. PICK p \in Placements : p = s.act
      BY <3>1
    <3>5. PICK w, m : /\ row = [date |-> p.date, from |-> p.from, to |-> p.to,
                                week |-> w, mask |-> m]
                      /\ m = HourMask(p.from, p.to)
      BY <2>1, <3>4 DEF Filed
    <3>6. w \in Weeks /\ m \in SUBSET Slots
      BY <3>2, <3>3, <3>4, <3>5
    <3> QED  BY <3>5, <3>6, PlacedIs
  <2>4. [db.acts EXCEPT ![NextAct] = row] \in [Acts -> Activities \union {None}]
    BY <1>0, <2>3
  <2>5. Run(s, rules).acts = [db.acts EXCEPT ![NextAct] = row]
    BY <1>0, <2>2 DEF Tables
  <2>6. /\ Run(s, rules).term = db.term /\ Run(s, rules).templates = db.templates
        /\ Run(s, rules).schedule = db.schedule
    BY <1>0, <2>2 DEF Tables
  <2>7. Run(s, rules) \in Tables
    BY <1>0, <2>2, <2>4 DEF Tables
  <2> QED  BY <1>5, <2>1, <2>5, <2>6, <2>7
<1>6. CASE s.do = "move" /\ Exists(s.req.act)
  <2>1. PICK row : row = Moved(s)
    OBVIOUS
  <2>2. Run(s, rules) = [db EXCEPT !.acts[s.req.act] = row]
    BY <1>6, <2>1 DEF Run
  <2>3. row \in Activities
    <3>1. s.req.act \in Acts /\ s.req.to \in Placements
      BY <1>6, StepFields, DatesAreDays
    <3>2. db.acts[s.req.act] \in Activities
      BY <1>0, <1>6, <3>1 DEF Exists
    <3>3. PICK x \in Activities, y \in Placements : x = db.acts[s.req.act] /\ y = s.req.to
      BY <3>1, <3>2
    <3>4. row = MovedTo(x, y.date, y.from, y.to)
      BY <2>1, <3>3 DEF Moved, MovedTo
    <3>5. y.date \in Nat /\ y.from \in 0..1440 /\ y.to \in 0..1440
      BY <3>3 DEF Placements
    <3>6. x \in Activities /\ y \in Placements
      BY <3>3
    <3>7. x \in Activities /\ y.date \in Nat /\ y.from \in Minutes /\ y.to \in Minutes
      BY <3>5, <3>6 DEF Minutes
    <3>8. MovedTo(x, y.date, y.from, y.to) \in Activities
      BY <3>7, MovedStays
    <3> QED  BY <3>4, <3>8
  <2>4. [db.acts EXCEPT ![s.req.act] = row] \in [Acts -> Activities \union {None}]
    BY <1>0, <2>3
  <2>5. /\ Run(s, rules).term = db.term /\ Run(s, rules).templates = db.templates
        /\ Run(s, rules).schedule = db.schedule
    BY <1>0, <2>2 DEF Tables
  <2>6. Run(s, rules) \in Tables
    BY <1>0, <2>2, <2>4 DEF Tables
  <2> QED  BY <1>6, <2>5, <2>6
<1>7. CASE s.do = "assign"
  <2>1. Run(s, rules) = [db EXCEPT !.members = @ \union {<<s.req.act, s.req.user>>}]
    BY <1>7 DEF Run
  <2>2. s.req.act \in Acts /\ s.req.user \in Users
    BY <1>7, StepFields
  <2> QED  BY <1>0, <1>7, <2>1, <2>2 DEF Tables
<1>8. CASE s.do \notin {"clear", "course", "week", "term", "insert", "move", "assign"}
           \/ (s.do = "move" /\ ~Exists(s.req.act))
  <2>1. Run(s, rules) = db
    BY <1>8 DEF Run
  <2> QED  BY <1>0, <1>8, <2>1
<1> QED  BY <1>1, <1>2, <1>3, <1>4, <1>5, <1>6, <1>7, <1>8

(* A handler that is left with the rest.                                    *)
LEMMA LeftIs ==
  ASSUME NEW todo, NEW rules
  PROVE  Left(todo, rules).todo = todo /\ (todo # <<>> => Left(todo, rules).rules = rules)
         /\ (todo = <<>> => Left(todo, rules) = Idle)
BY DEF Left, Idle

(* One handler goes on, the others stay where they are.                     *)
LEMMA JobGoes ==
  ASSUME Types, NEW t \in Threads, t \in workers, NEW rest, Shape(rest),
         NEW rules \in SUBSET Rules,
         workers' = workers, job' = [job EXCEPT ![t] = Left(rest, rules)]
  PROVE  /\ job' \in [Threads -> Jobs]
         /\ \A x \in Threads : Shape(job'[x].todo) /\ (x \notin workers' => job'[x].todo = <<>>)
         /\ job'[t].todo = rest /\ (rest # <<>> => job'[t].rules = rules)
         /\ \A x \in Threads : x # t => job'[x] = job[x]
<1>1. Left(rest, rules) \in Jobs
  <2>1. rest \in Seq(Steps)
    BY DEF Shape
  <2> QED  BY <2>1 DEF Left, Idle, Jobs
<1>2. job \in [Threads -> Jobs]
  BY DEF Types
<1>3. job' \in [Threads -> Jobs] /\ job'[t] = Left(rest, rules) /\ \A x \in Threads : x # t => job'[x] = job[x]
  BY <1>1, <1>2
<1>4. job'[t].todo = rest /\ (rest # <<>> => job'[t].rules = rules)
  BY <1>3, LeftIs
<1>5. \A x \in Threads : Shape(job'[x].todo) /\ (x \notin workers' => job'[x].todo = <<>>)
  BY <1>3, <1>4 DEF Types
<1> QED  BY <1>3, <1>4, <1>5

(* A handler with something to do: its first step, and the rest.            *)
LEMMA Working ==
  ASSUME Types, NEW t \in Threads, job[t].todo # <<>>
  PROVE  /\ t \in workers /\ Shape(job[t].todo) /\ Shape(Tail(job[t].todo))
         /\ Head(job[t].todo) = job[t].todo[1] /\ job[t].todo[1] \in Steps
         /\ job[t].rules \in SUBSET Rules
<1>1. t \in workers /\ Shape(job[t].todo) /\ job[t] \in Jobs
  BY DEF Types
<1>2. job[t].rules \in SUBSET Rules /\ job[t].todo \in Seq(Steps)
  BY <1>1 DEF Jobs
<1> QED  BY <1>1, <1>2, TailShape, FirstAndRest

(* What is left after an error.                                             *)
LEMMA AfterErrorIs ==
  ASSUME NEW todo, Shape(todo), todo # <<>>
  PROVE  /\ Shape(AfterError(todo))
         /\ \/ todo[1].do \in {"insert", "course", "template"} /\ AfterError(todo) = Rollback
            \/ todo[1].do = "course" /\ AfterError(todo) = Tail(todo)
            \/ todo[1].do \notin {"insert", "course", "template"} /\ AfterError(todo) = <<>>
<1>0. Head(todo) = todo[1]
  BY FirstAndRest DEF Shape
<1>1. Rollback # <<>> /\ Shape(Rollback)
  <2>1. PICK s \in Steps : s = [do |-> "ROLLBACK"]
    BY DEF Steps
  <2>2. s.do = "ROLLBACK"
    BY <2>1
  <2>3. Shape(<<s>>)
    BY <2>2, <2>1, AloneShape
  <2> QED  BY <2>1, <2>3 DEF Rollback
<1>2. CASE todo[1].do \in {"insert", "template"} \/ (todo[1].do = "course" /\ todo[1].course.kind = "broken")
  <2>1. AfterError(todo) = Rollback
    BY <1>0, <1>2 DEF AfterError
  <2> QED  BY <1>1, <1>2, <2>1
<1>3. CASE todo[1].do = "course" /\ ~(todo[1].course.kind = "broken")
  <2>1. AfterError(todo) = Tail(todo)
    BY <1>0, <1>3 DEF AfterError
  <2> QED  BY <1>3, <2>1, TailShape
<1>4. CASE todo[1].do \notin {"insert", "template", "course"}
  <2>1. AfterError(todo) = <<>>
    BY <1>0, <1>4 DEF AfterError
  <2> QED  BY <1>1, <1>4, <2>1, EmptyShape
<1> QED  BY <1>2, <1>3, <1>4

(* The history is of users and activities there are.                        *)
LEMMA RecallIs ==
  ASSUME Types, NEW users \in SUBSET Users, NEW acts \in SUBSET Acts, Recall(users, acts)
  PROVE  /\ rebuilt' \in SUBSET Users /\ filed' \in SUBSET Acts
         /\ \A u \in rebuilt' : u \in users \/ (u \in rebuilt
              /\ Committed'.templates[u] = Committed.templates[u])
         /\ \A a \in filed' : a \in acts \/ (a \in filed /\ db'.acts[a] = db.acts[a] /\ cache' = cache)
BY DEF Recall, Types

(* The tables as they are committed are tables.                             *)
LEMMA CommittedIs ==
  ASSUME Types
  PROVE  Committed \in Tables /\ (undo = None => Committed = db) /\ (undo # None => Committed = undo)
BY DEF Types, Committed

LEMMA CommittedThen ==
  (undo' = None => Committed' = db') /\ (undo' # None => Committed' = undo')
BY DEF Committed

(* The first states have the types.                                         *)
LEMMA InitTypes == Init => Types
<1> SUFFICES ASSUME Init PROVE Types
  OBVIOUS
<1>1. PICK term \in Starts \union {NoDate} :
        db = [term |-> Loaded(term), acts |-> [a \in Acts |-> None], members |-> {},
              templates |-> [o \in Users \union {Nobody} |-> {}],
              schedule |-> [u \in Users |-> [p \in Weeks \X Days |-> {}]]]
  BY DEF Init
<1>2. Loaded(term) \in Int
  BY DatesAreDays
<1>3. db \in Tables
  <2>1. [a \in Acts |-> None] \in [Acts -> Activities \union {None}]
    OBVIOUS
  <2>2. [o \in Users \union {Nobody} |-> {}] \in [Owners -> SUBSET Rules]
    BY DEF Owners
  <2>3. [u \in Users |-> [p \in Weeks \X Days |-> {}]] \in [Users -> Timetables]
    BY DEF Timetables
  <2> QED  BY <1>1, <1>2, <2>1, <2>2, <2>3 DEF Tables
<1>4. cache \in Int
  <2>1. db.term = Loaded(term)
    BY <1>1
  <2> QED  BY <1>2, <2>1 DEF Init
<1>5. job \in [Threads -> Jobs] /\ \A t \in Threads : job[t].todo = <<>>
  <2>1. Idle \in Jobs /\ Idle.todo = <<>>
    BY EmptySeq DEF Idle, Jobs
  <2> QED  BY <2>1 DEF Init
<1> QED  BY <1>3, <1>4, <1>5, EmptyShape DEF Init, Types

(* START TRANSACTION, COMMIT and ROLLBACK.                                  *)
LEMMA ControlDoes ==
  ASSUME Types, NEW t \in Threads, Control(t)
  PROVE  /\ Types' /\ t \in workers /\ job[t].todo # <<>> /\ workers' = workers /\ cache' = cache
         /\ job[t].todo[1].do \in {"START", "COMMIT", "ROLLBACK"}
         /\ job'[t].todo = Tail(job[t].todo)
         /\ Tail(job[t].todo) # <<>> => job'[t].rules = job[t].rules
         /\ \A x \in Threads : x # t => job'[x] = job[x]
         /\ undo' = (IF job[t].todo[1].do = "START" THEN db ELSE None)
         /\ db' = (IF job[t].todo[1].do = "ROLLBACK" THEN Committed ELSE db)
         /\ Recall({}, {})
<1>1. job[t].todo # <<>> /\ workers' = workers /\ cache' = cache /\ Recall({}, {})
  BY DEF Control
<1>2. /\ t \in workers /\ Shape(Tail(job[t].todo)) /\ Head(job[t].todo) = job[t].todo[1]
      /\ job[t].rules \in SUBSET Rules
  BY <1>1, Working
<1>3. /\ job[t].todo[1].do \in {"START", "COMMIT", "ROLLBACK"}
      /\ undo' = (IF job[t].todo[1].do = "START" THEN db ELSE None)
      /\ db' = (IF job[t].todo[1].do = "ROLLBACK" THEN Committed ELSE db)
      /\ job' = [job EXCEPT ![t] = Left(Tail(job[t].todo), job[t].rules)]
  BY <1>2 DEF Control, Types
<1>4. /\ job' \in [Threads -> Jobs]
      /\ \A x \in Threads : Shape(job'[x].todo) /\ (x \notin workers' => job'[x].todo = <<>>)
      /\ job'[t].todo = Tail(job[t].todo)
      /\ Tail(job[t].todo) # <<>> => job'[t].rules = job[t].rules
      /\ \A x \in Threads : x # t => job'[x] = job[x]
  <2>1. PICK rest, rules : rest = Tail(job[t].todo) /\ rules = job[t].rules
    OBVIOUS
  <2>2. /\ t \in workers /\ Shape(rest) /\ rules \in SUBSET Rules
        /\ workers' = workers /\ job' = [job EXCEPT ![t] = Left(rest, rules)]
    BY <1>1, <1>2, <1>3, <2>1
  <2>3. /\ job' \in [Threads -> Jobs]
        /\ \A x \in Threads : Shape(job'[x].todo) /\ (x \notin workers' => job'[x].todo = <<>>)
        /\ job'[t].todo = rest /\ (rest # <<>> => job'[t].rules = rules)
        /\ \A x \in Threads : x # t => job'[x] = job[x]
    BY <2>2, JobGoes
  <2> QED  BY <2>1, <2>3
<1>5. db' \in Tables /\ undo' \in Tables \union {None}
  BY <1>3, CommittedIs DEF Types
<1>6. rebuilt' \in SUBSET Users /\ filed' \in SUBSET Acts
  BY <1>1, RecallIs
<1>7. Types'
  BY <1>1, <1>4, <1>5, <1>6 DEF Types
<1> QED  BY <1>1, <1>2, <1>3, <1>4, <1>7

(* One statement, or the write of the cache.                                *)
LEMMA StatementDoes ==
  ASSUME Types, NEW t \in Threads, Statement(t)
  PROVE  /\ Types' /\ t \in workers /\ job[t].todo # <<>> /\ workers' = workers /\ undo' = undo
         /\ job[t].todo[1].do \in Inside \union Outside /\ ~Fails(job[t].todo[1])
         /\ db' = Run(job[t].todo[1], job[t].rules)
         /\ cache' = IF job[t].todo[1].do = "cache" THEN job[t].todo[1].date ELSE cache
         /\ job'[t].todo = Tail(job[t].todo)
         /\ Tail(job[t].todo) # <<>> => job'[t].rules =
              IF job[t].todo[1].do = "rules" THEN db.templates[job[t].todo[1].user] ELSE job[t].rules
         /\ \A x \in Threads : x # t => job'[x] = job[x]
         /\ Recall({u \in Users : job[t].todo[1] = [do |-> "week", user |-> u, week |-> RebuiltWeeks]},
                   {a \in Acts \ filed : job[t].todo[1].do = "insert" /\ a = NextAct
                                         /\ InTerm(job[t].todo[1].act.date)})
<1>1. job[t].todo # <<>> /\ workers' = workers /\ undo' = undo
  BY DEF Statement
<1>2. /\ t \in workers /\ Shape(Tail(job[t].todo)) /\ Head(job[t].todo) = job[t].todo[1]
      /\ job[t].rules \in SUBSET Rules /\ job[t].todo[1] \in Steps
  BY <1>1, Working
<1>3. PICK s \in Steps : s = job[t].todo[1]
  BY <1>2
<1>4. /\ s.do \notin {"START", "COMMIT", "ROLLBACK"} /\ ~Fails(s)
      /\ db' = Run(s, job[t].rules)
      /\ cache' = (IF s.do = "cache" THEN s.date ELSE cache)
      /\ job' = [job EXCEPT ![t] = Left(Tail(job[t].todo),
                   IF s.do = "rules" THEN db.templates[s.user] ELSE job[t].rules)]
  BY <1>2, <1>3 DEF Statement, Types
<1>5. Recall({u \in Users : s = [do |-> "week", user |-> u, week |-> RebuiltWeeks]},
             {a \in Acts \ filed : s.do = "insert" /\ a = NextAct /\ InTerm(s.act.date)})
  BY <1>2, <1>3 DEF Statement
<1>6. PICK rules : rules = IF s.do = "rules" THEN db.templates[s.user] ELSE job[t].rules
  OBVIOUS
<1>7. rules \in SUBSET Rules
  <2>1. ASSUME s.do = "rules"
        PROVE  db.templates[s.user] \in SUBSET Rules
    <3>1. s.user \in Owners
      BY <2>1, StepFields DEF Owners
    <3> QED  BY <3>1 DEF Types, Tables
  <2> QED  BY <1>2, <1>6, <2>1
<1>8. /\ job' \in [Threads -> Jobs]
      /\ \A x \in Threads : Shape(job'[x].todo) /\ (x \notin workers' => job'[x].todo = <<>>)
      /\ job'[t].todo = Tail(job[t].todo)
      /\ Tail(job[t].todo) # <<>> => job'[t].rules = rules
      /\ \A x \in Threads : x # t => job'[x] = job[x]
  <2>1. PICK rest : rest = Tail(job[t].todo)
    OBVIOUS
  <2>2. job' = [job EXCEPT ![t] = Left(rest, rules)]
    BY <1>4, <1>6, <2>1
  <2>3. workers' = workers /\ t \in workers /\ Shape(rest)
    BY <1>1, <1>2, <2>1
  <2>4. /\ job' \in [Threads -> Jobs]
        /\ \A x \in Threads : Shape(job'[x].todo) /\ (x \notin workers' => job'[x].todo = <<>>)
        /\ job'[t].todo = rest /\ (rest # <<>> => job'[t].rules = rules)
        /\ \A x \in Threads : x # t => job'[x] = job[x]
    BY <1>7, <2>2, <2>3, JobGoes
  <2> QED  BY <2>1, <2>4
<1>9. s.do \in Inside \union Outside
  BY <1>4, StepFields
<1>10. db' \in Tables
  BY <1>2, <1>4, RunIs DEF Types
<1>11. cache' \in Int
  BY <1>4, StepFields, DatesAreDays DEF Types
<1>12. rebuilt' \in SUBSET Users /\ filed' \in SUBSET Acts
  <2>1. {u \in Users : s = [do |-> "week", user |-> u, week |-> RebuiltWeeks]} \in SUBSET Users
    OBVIOUS
  <2>2. {a \in Acts \ filed : s.do = "insert" /\ a = NextAct /\ InTerm(s.act.date)} \in SUBSET Acts
    OBVIOUS
  <2> QED  BY <1>5, <2>1, <2>2, RecallIs
<1>13. undo' \in Tables \union {None}
  BY <1>1 DEF Types
<1>14. Types'
  BY <1>1, <1>8, <1>10, <1>11, <1>12, <1>13 DEF Types
<1> QED  BY <1>1, <1>2, <1>3, <1>4, <1>5, <1>6, <1>8, <1>9, <1>14

(* A statement that fails.                                                  *)
LEMMA ErrorDoes ==
  ASSUME Types, NEW t \in Threads, Error(t)
  PROVE  /\ Types' /\ t \in workers /\ job[t].todo # <<>> /\ UNCHANGED <<workers, db, undo, cache>>
         /\ rebuilt' = rebuilt /\ filed' = filed
         /\ Fails(job[t].todo[1]) \/ job[t].todo[1].do \in {"term", "template"}
         /\ job'[t].todo = AfterError(job[t].todo)
         /\ AfterError(job[t].todo) # <<>> => job'[t].rules = job[t].rules
         /\ \A x \in Threads : x # t => job'[x] = job[x]
<1>1. job[t].todo # <<>> /\ UNCHANGED <<workers, db, undo, cache, rebuilt, filed>>
  BY DEF Error
<1>2. /\ t \in workers /\ Shape(job[t].todo) /\ Head(job[t].todo) = job[t].todo[1]
      /\ job[t].rules \in SUBSET Rules
  BY <1>1, Working
<1>3. /\ Fails(job[t].todo[1]) \/ job[t].todo[1].do \in {"term", "template"}
      /\ job' = [job EXCEPT ![t] = Left(AfterError(job[t].todo), job[t].rules)]
  BY <1>2 DEF Error, Types
<1>4. Shape(AfterError(job[t].todo))
  BY <1>1, <1>2, AfterErrorIs
<1>5. /\ job' \in [Threads -> Jobs]
      /\ \A x \in Threads : Shape(job'[x].todo) /\ (x \notin workers' => job'[x].todo = <<>>)
      /\ job'[t].todo = AfterError(job[t].todo)
      /\ AfterError(job[t].todo) # <<>> => job'[t].rules = job[t].rules
      /\ \A x \in Threads : x # t => job'[x] = job[x]
  <2>1. PICK rest : rest = AfterError(job[t].todo)
    OBVIOUS
  <2>2. job' = [job EXCEPT ![t] = Left(rest, job[t].rules)]
    BY <1>3, <2>1
  <2>3. workers' = workers /\ t \in workers /\ Shape(rest) /\ job[t].rules \in SUBSET Rules
    BY <1>1, <1>2, <1>4, <2>1
  <2>4. /\ job' \in [Threads -> Jobs]
        /\ \A x \in Threads : Shape(job'[x].todo) /\ (x \notin workers' => job'[x].todo = <<>>)
        /\ job'[t].todo = rest /\ (rest # <<>> => job'[t].rules = job[t].rules)
        /\ \A x \in Threads : x # t => job'[x] = job[x]
    BY <2>2, <2>3, JobGoes
  <2> QED  BY <2>1, <2>4
<1>6. Types'
  BY <1>1, <1>5 DEF Types
<1> QED  BY <1>1, <1>2, <1>3, <1>5, <1>6

(* A request is taken.                                                      *)
LEMMA ReceiveDoes ==
  ASSUME Types, NEW t \in Threads, NEW r \in Requests, Receive(t, r)
  PROVE  /\ Types' /\ t \in workers /\ UNCHANGED <<workers, db, undo, cache, rebuilt, filed>>
         /\ job[t].todo = <<>> /\ job'[t].todo = Program(r)
         /\ \A x \in Threads : x # t => job'[x] = job[x]
<1>1. t \in workers /\ job[t] = Idle /\ UNCHANGED <<workers, db, undo, cache, rebuilt, filed>>
      /\ job' = [job EXCEPT ![t].todo = Program(r)]
  BY DEF Receive
<1>2. PICK p : p = Program(r)
  OBVIOUS
<1>3. Shape(p) /\ p \in Seq(Steps)
  BY <1>2, ProgramShape DEF Shape
<1>4. /\ job' \in [Threads -> Jobs] /\ job'[t].todo = p
      /\ \A x \in Threads : x # t => job'[x] = job[x]
  <2>1. job \in [Threads -> Jobs]
    BY DEF Types
  <2>2. job' = [job EXCEPT ![t] = [job[t] EXCEPT !.todo = p]]
    BY <1>1, <1>2
  <2>3. [job[t] EXCEPT !.todo = p] \in Jobs /\ [job[t] EXCEPT !.todo = p].todo = p
    BY <1>3, <2>1 DEF Jobs
  <2> QED  BY <2>1, <2>2, <2>3
<1>5. \A x \in Threads : Shape(job'[x].todo) /\ (x \notin workers' => job'[x].todo = <<>>)
  BY <1>1, <1>3, <1>4 DEF Types
<1>6. job[t].todo = <<>>
  BY <1>1 DEF Idle
<1>7. Types'
  BY <1>1, <1>4, <1>5 DEF Types
<1> QED  BY <1>1, <1>2, <1>4, <1>6, <1>7

(* The process ends and is started again.                                   *)
LEMMA CrashDoes ==
  ASSUME Types, Crash
  PROVE  /\ Types' /\ workers' = workers
         /\ db' = Committed /\ undo' = None /\ cache' = Committed.term
         /\ \A t \in Threads : job'[t].todo = <<>>
         /\ Recall({}, {})
<1>1. /\ workers' = workers /\ db' = Committed /\ undo' = None /\ cache' = Committed.term
      /\ job' = [t \in Threads |-> Idle] /\ Recall({}, {})
  BY DEF Crash
<1>2. Committed \in Tables /\ Committed.term \in Int
  BY CommittedIs DEF Tables
<1>3. job' \in [Threads -> Jobs] /\ \A t \in Threads : job'[t].todo = <<>>
  <2>1. Idle \in Jobs /\ Idle.todo = <<>>
    BY EmptySeq DEF Idle, Jobs
  <2> QED  BY <1>1, <2>1
<1>4. rebuilt' \in SUBSET Users /\ filed' \in SUBSET Acts
  BY <1>1, RecallIs
<1>5. Types'
  BY <1>1, <1>2, <1>3, <1>4, EmptyShape DEF Types
<1> QED  BY <1>1, <1>3, <1>5

-----------------------------------------------------------------------------
(* With one IO thread.                                                      *)

(* The handler is between START TRANSACTION and its end.                    *)
InTransaction(todo) == todo # <<>> /\ todo[1].do \in Inside \union Ends

(* What a handler comes to after its first step.                            *)
LEMMA TailIs ==
  ASSUME NEW todo, Shape(todo), todo # <<>>
  PROVE  /\ todo[1].do \in {"START"} \union Inside => InTransaction(Tail(todo))
         /\ todo[1].do \in Ends \union Outside => ~InTransaction(Tail(todo))
         /\ todo[1].do = "term" => Tail(todo) # <<>> /\ Tail(todo)[1] = [do |-> "cache", date |-> todo[1].date]
         /\ todo[1].do # "term" => Tail(todo) = <<>> \/ Tail(todo)[1].do # "cache"
         /\ todo[1].do = "rules" => Tail(todo) = <<>> \/ (Tail(todo)[1].user = todo[1].user
                                                           /\ Tail(todo)[1].week = 1)
         /\ todo[1].do = "week" => Tail(todo) = <<>> \/ (Tail(todo)[1].user = todo[1].user
                                                          /\ Tail(todo)[1].week = todo[1].week + 1)
         /\ todo[1].do \notin {"rules", "week"} => Tail(todo) = <<>> \/ Tail(todo)[1].do # "week"
<1>1. PICK n \in Nat : n = Len(todo) /\ n >= 1
  BY FirstAndRest DEF Shape
<1>2. PICK rest : rest = Tail(todo)
  OBVIOUS
<1>3. /\ rest \in Seq(Steps) /\ Len(rest) = n - 1 /\ \A i \in 1..(n - 1) : rest[i] = todo[i + 1]
      /\ todo \in Seq(Steps)
  BY <1>1, <1>2, FirstAndRest DEF Shape
<1>4. Placed(todo, 1)
  <2>1. 1 \in 1..n
    BY <1>1
  <2> QED  BY <1>1, <2>1 DEF Shape
<1>5. CASE n = 1
  <2>1. rest = <<>>
    BY <1>3, <1>5, EmptySeq
  <2>2. ~(todo[1].do \in {"START"} \union Inside)
    BY <1>1, <1>4, <1>5 DEF Placed
  <2>3. todo[1].do # "term"
    BY <1>1, <1>4, <1>5 DEF Placed
  <2> QED  BY <1>2, <2>1, <2>2, <2>3 DEF InTransaction
<1>6. CASE n > 1
  <2>1. rest # <<>> /\ rest[1] = todo[2] /\ 2 \in 1..n /\ todo[2] \in Steps
    <3>1. 1 \in 1..(n - 1) /\ 2 \in 1..n /\ 1 + 1 = 2
      BY <1>6
    <3>2. todo[2] \in Steps
      BY <1>1, <1>3, <3>1, ElementOfSeq
    <3> QED  BY <1>3, <1>6, <3>1, <3>2, EmptySeq
  <2>2. Placed(todo, 2)
    BY <1>1, <2>1 DEF Shape
  <2>3. todo[2].do \in Ends \union Inside \union Outside
    <3>1. todo[2].do # "START"
      BY <2>2 DEF Placed
    <3> QED  BY <2>1, <3>1, StepFields DEF Ends
  <2>4. ASSUME todo[1].do \in {"START"} \union Inside
        PROVE  todo[2].do \in Ends \union Inside
    <3>1. PICK j \in 1..n : j > 1 /\ todo[j].do \in Ends
      BY <1>1, <1>4, <2>4 DEF Placed
    <3>2. j >= 2
      BY <3>1
    <3>3. todo[2].do \notin Outside
      BY <1>1, <2>2, <3>1, <3>2 DEF Placed
    <3> QED  BY <2>3, <3>3
  <2>5. ASSUME todo[1].do \in Ends \union Outside
        PROVE  todo[2].do \in Outside
    <3>1. \A j \in 1..n : j >= 2 => todo[j].do \notin Ends
      BY <1>1, <1>4, <2>5 DEF Placed
    <3>2. todo[2].do \notin Inside
      BY <1>1, <2>2, <3>1 DEF Placed
    <3> QED  BY <2>1, <2>3, <3>1, <3>2
  <2>6. todo[1].do = "term" => todo[2] = [do |-> "cache", date |-> todo[1].date]
    BY <1>4 DEF Placed
  <2>7. todo[1].do # "term" => todo[2].do # "cache"
    BY <1>1, <1>6, <2>2 DEF Placed
  <2>8. todo[1].do \notin {"rules", "week"} => todo[2].do # "week"
    <3>1. todo[2].do = "week" => Follows(todo, 2)
      BY <2>2 DEF Placed
    <3>2. 1 \in 1..n /\ 1 + 1 = 2
      BY <1>6
    <3> QED  BY <1>1, <3>1, <3>2 DEF Follows
  <2>9. todo[1].do \in {"rules", "week"} =>
          todo[2].do = "week" /\ todo[2].user = todo[1].user /\ n - 2 = RebuiltWeeks - todo[2].week
    <3>1. todo[1].do \in {"rules", "week"} => todo[2].do = "week" /\ todo[2].user = todo[1].user
      BY <1>1, <1>4, <2>1 DEF Placed, Weekly
    <3>2. todo[2].do = "week" => n - 2 = RebuiltWeeks - todo[2].week
      BY <1>1, <2>2 DEF Placed
    <3> QED  BY <3>1, <3>2
  <2>10. RebuiltWeeks \in Int /\ (todo[1].do \in {"rules", "week"} => todo[2].week \in Int)
         /\ (todo[1].do = "week" => todo[1].week \in Int)
    <3>1. todo[1] \in Steps /\ todo[2] \in Steps
      BY <2>1, FirstAndRest DEF Shape
    <3>2. todo[1].do \in {"rules", "week"} => todo[2].week \in Int
      BY <2>9, <3>1, StepFields
    <3>3. todo[1].do = "week" => todo[1].week \in Int
      BY <3>1, StepFields
    <3> QED  BY <3>2, <3>3, ScheduleAssumption
  <2>11. todo[1].do = "rules" => todo[2].user = todo[1].user /\ todo[2].week = 1
    <3>1. todo[1].do = "rules" => n - 1 = RebuiltWeeks
      BY <1>1, <1>4 DEF Placed
    <3> QED  BY <2>9, <2>10, <3>1
  <2>12. todo[1].do = "week" => todo[2].user = todo[1].user /\ todo[2].week = todo[1].week + 1
    <3>1. todo[1].do = "week" => n - 1 = RebuiltWeeks - todo[1].week
      BY <1>1, <1>4 DEF Placed
    <3> QED  BY <2>9, <2>10, <3>1
  <2>13. /\ todo[1].do \in {"START"} \union Inside => InTransaction(rest)
         /\ todo[1].do \in Ends \union Outside => ~InTransaction(rest)
    BY <2>1, <2>4, <2>5 DEF InTransaction, Outside, Inside, Ends
  <2> QED  BY <1>2, <2>1, <2>6, <2>7, <2>8, <2>11, <2>12, <2>13
<1> QED  BY <1>1, <1>5, <1>6

(* The timetable of a user as far as it is rebuilt from these rules.        *)
Right(schedule, rules, u, n) ==
  \A w \in Weeks, d \in Days : w <= n => schedule[u][w, d] = DayMask(rules, w, d)

(* What holds when t is the only IO thread: a transaction is open when its  *)
(* handler is inside one, and holds back neither the start of the term nor  *)
(* the hours of members; the cache is the start of the term but between the *)
(* two writes; the hours of users who have been rebuilt are those of their  *)
(* committed timetable; and a handler that rebuilds them works with the     *)
(* rules there are.                                                         *)
Bracketed(t) == (undo # None) <=> InTransaction(job[t].todo)
Held == undo # None => undo.term = db.term /\ undo.schedule = db.schedule
Cached(t) ==
  IF job[t].todo # <<>> /\ job[t].todo[1].do = "cache" THEN job[t].todo[1].date = db.term
  ELSE cache = db.term
Rebuilt == \A u \in rebuilt : Right(db.schedule, Committed.templates[u], u, RebuiltWeeks)
Rebuilding(t) ==
  job[t].todo # <<>> /\ job[t].todo[1].do = "week" =>
    /\ job[t].rules = db.templates[job[t].todo[1].user]
    /\ Right(db.schedule, job[t].rules, job[t].todo[1].user, job[t].todo[1].week - 1)
Solitary(t) == Bracketed(t) /\ Held /\ Cached(t) /\ Rebuilt /\ Rebuilding(t)
Alone == \A t \in Threads : workers = {t} => Solitary(t)

(* Users who stay rebuilt when the tables of the session do not change.     *)
LEMMA RebuiltStays ==
  ASSUME Types, Rebuilt, db'.schedule = db.schedule, Recall({}, {})
  PROVE  Rebuilt'
<1> SUFFICES ASSUME NEW u \in rebuilt'
             PROVE  Right(db'.schedule, Committed'.templates[u], u, RebuiltWeeks)
  BY DEF Rebuilt
<1>1. u \in rebuilt /\ Committed'.templates[u] = Committed.templates[u]
  BY RecallIs
<1> QED  BY <1>1 DEF Rebuilt

(* The only thread with something to do is the one there is.                *)
LEMMA OnlyThread ==
  ASSUME Types, NEW t \in Threads, workers = {t}, NEW x \in Threads, job[x].todo # <<>>
  PROVE  x = t
BY Working

(* The first states.                                                        *)
LEMMA InitAlone == Init => Alone
<1> SUFFICES ASSUME Init, NEW t \in Threads
             PROVE  Solitary(t)
  BY DEF Alone
<1>1. undo = None /\ cache = db.term /\ job[t].todo = <<>>
  BY DEF Init, Idle
<1>2. Rebuilt
  <2> SUFFICES ASSUME NEW u \in Users
               PROVE  Right(db.schedule, Committed.templates[u], u, RebuiltWeeks)
    BY DEF Init, Rebuilt
  <2>1. PICK term \in Starts \union {NoDate} :
          db = [term |-> Loaded(term), acts |-> [a \in Acts |-> None], members |-> {},
                templates |-> [o \in Users \union {Nobody} |-> {}],
                schedule |-> [v \in Users |-> [p \in Weeks \X Days |-> {}]]]
    BY DEF Init
  <2>2. db.templates[u] = {} /\ db.schedule[u] = [p \in Weeks \X Days |-> {}]
    BY <2>1
  <2>3. \A w \in Weeks, d \in Days : db.schedule[u][w, d] = {}
    BY <2>2
  <2>4. \A w, d : DayMask({}, w, d) = {}
    BY DEF DayMask
  <2> QED  BY <1>1, <2>2, <2>3, <2>4 DEF Right, Committed
<1> QED  BY <1>1, <1>2 DEF Solitary, Bracketed, Held, Cached, Rebuilding, InTransaction

(* START TRANSACTION, COMMIT and ROLLBACK of the only thread.               *)
LEMMA ControlAlone ==
  ASSUME Types, NEW t \in Threads, workers = {t}, Solitary(t), Control(t)
  PROVE  Solitary(t)'
<1>1. /\ Types' /\ t \in workers /\ job[t].todo # <<>> /\ workers' = workers /\ cache' = cache
      /\ job[t].todo[1].do \in {"START", "COMMIT", "ROLLBACK"}
      /\ job'[t].todo = Tail(job[t].todo)
      /\ undo' = (IF job[t].todo[1].do = "START" THEN db ELSE None)
      /\ db' = (IF job[t].todo[1].do = "ROLLBACK" THEN Committed ELSE db)
      /\ Recall({}, {})
  BY ControlDoes
<1>2. PICK todo : todo = job[t].todo /\ Shape(todo)
  BY <1>1, Working
<1>3. /\ todo[1].do = "START" => InTransaction(Tail(todo))
      /\ todo[1].do # "START" => ~InTransaction(Tail(todo))
      /\ Tail(todo) = <<>> \/ (Tail(todo)[1].do # "cache" /\ Tail(todo)[1].do # "week")
  <2>1. todo # <<>> /\ todo[1].do \in {"START", "COMMIT", "ROLLBACK"}
    BY <1>1, <1>2
  <2>2. todo[1].do = "START" => InTransaction(Tail(todo))
    BY <1>2, <2>1, TailIs
  <2>3. todo[1].do # "START" => ~InTransaction(Tail(todo))
    BY <1>2, <2>1, TailIs DEF Ends
  <2>4. Tail(todo) = <<>> \/ Tail(todo)[1].do # "cache"
    BY <1>2, <2>1, TailIs
  <2>5. Tail(todo) = <<>> \/ Tail(todo)[1].do # "week"
    BY <1>2, <2>1, TailIs
  <2> QED  BY <2>2, <2>3, <2>4, <2>5
<1>4. Bracketed(t)'
  <2>1. undo' # None <=> todo[1].do = "START"
    BY <1>1, <1>2, NoneIsNoTable DEF Types
  <2> QED  BY <1>1, <1>2, <1>3, <2>1 DEF Bracketed
<1>5. db'.schedule = db.schedule /\ db'.term = db.term
  <2>1. todo[1].do = "ROLLBACK" => undo # None
    BY <1>1, <1>2 DEF Solitary, Bracketed, InTransaction, Ends
  <2> QED  BY <1>1, <1>2, <2>1 DEF Solitary, Held, Committed
<1>6. Held'
  <2>1. undo' # None => undo' = db /\ db' = db
    BY <1>1
  <2> QED  BY <2>1 DEF Held
<1>7. Cached(t)'
  <2>1. cache = db.term
    BY <1>1, <1>2 DEF Solitary, Cached
  <2> QED  BY <1>1, <1>2, <1>3, <1>5, <2>1 DEF Cached
<1>8. Rebuilt'
  BY <1>1, <1>5, RebuiltStays DEF Solitary
<1>9. Rebuilding(t)'
  BY <1>1, <1>2, <1>3 DEF Rebuilding
<1> QED  BY <1>4, <1>6, <1>7, <1>8, <1>9 DEF Solitary

(* A statement of the only thread that fails.                               *)
LEMMA ErrorAlone ==
  ASSUME Types, NEW t \in Threads, workers = {t}, Solitary(t), Error(t)
  PROVE  Solitary(t)'
<1>1. /\ Types' /\ job[t].todo # <<>> /\ UNCHANGED <<workers, db, undo, cache>> /\ rebuilt' = rebuilt
      /\ Fails(job[t].todo[1]) \/ job[t].todo[1].do \in {"term", "template"}
      /\ job'[t].todo = AfterError(job[t].todo)
  BY ErrorDoes
<1>2. PICK todo : todo = job[t].todo /\ Shape(todo)
  BY <1>1, Working
<1>3. todo[1].do \in {"insert", "course", "template", "rules", "assign", "term"}
  BY <1>1, <1>2 DEF Fails
<1>4. PICK rest : rest = AfterError(todo)
  OBVIOUS
<1>5. /\ InTransaction(rest) <=> InTransaction(todo)
      /\ rest # <<>> => rest[1].do # "cache" /\ rest[1].do # "week"
  <2>1. todo # <<>>
    BY <1>1, <1>2
  <2>2. CASE todo[1].do \in {"insert", "course", "template"} /\ rest = Rollback
    <3>1. rest # <<>> /\ rest[1].do = "ROLLBACK"
      BY <2>2 DEF Rollback
    <3> QED  BY <2>1, <2>2, <3>1 DEF InTransaction, Inside, Ends
  <2>3. CASE todo[1].do = "course" /\ rest = Tail(todo)
    <3>1. InTransaction(Tail(todo))
      BY <1>2, <2>1, <2>3, TailIs DEF Inside
    <3> QED  BY <2>1, <2>3, <3>1 DEF InTransaction, Inside, Ends
  <2>4. CASE todo[1].do \notin {"insert", "course", "template"} /\ rest = <<>>
    BY <1>3, <2>1, <2>4 DEF InTransaction, Inside, Ends
  <2> QED  BY <1>2, <1>4, <2>1, <2>2, <2>3, <2>4, AfterErrorIs
<1>6. job'[t].todo = rest
  BY <1>1, <1>2, <1>4
<1>7. Bracketed(t)'
  BY <1>1, <1>2, <1>5, <1>6 DEF Solitary, Bracketed
<1>8. Held' /\ Rebuilt'
  BY <1>1 DEF Solitary, Held, Rebuilt, Committed
<1>9. Cached(t)'
  <2>1. cache = db.term
    BY <1>2, <1>3 DEF Solitary, Cached
  <2> QED  BY <1>1, <1>5, <1>6, <2>1 DEF Cached
<1>10. Rebuilding(t)'
  BY <1>5, <1>6 DEF Rebuilding
<1> QED  BY <1>7, <1>8, <1>9, <1>10 DEF Solitary

(* A request taken by the only thread.                                      *)
LEMMA ReceiveAlone ==
  ASSUME Types, NEW t \in Threads, workers = {t}, Solitary(t), NEW r \in Requests, Receive(t, r)
  PROVE  Solitary(t)'
<1>1. /\ Types' /\ UNCHANGED <<workers, db, undo, cache>> /\ rebuilt' = rebuilt
      /\ job[t].todo = <<>> /\ job'[t].todo = Program(r)
  BY ReceiveDoes
<1>2. PICK p : p = Program(r)
  OBVIOUS
<1>3. p # <<>> /\ p[1].do \in {"START", "term", "move", "assign"}
  BY <1>2, ProgramBegins
<1>4. ~InTransaction(p)
  BY <1>3 DEF InTransaction, Inside, Ends
<1>5. Bracketed(t)'
  BY <1>1, <1>2, <1>4 DEF Solitary, Bracketed, InTransaction
<1>6. Held' /\ Rebuilt'
  BY <1>1 DEF Solitary, Held, Rebuilt, Committed
<1>7. Cached(t)'
  BY <1>1, <1>2, <1>3 DEF Solitary, Cached
<1>8. Rebuilding(t)'
  BY <1>1, <1>2, <1>3 DEF Rebuilding
<1> QED  BY <1>5, <1>6, <1>7, <1>8 DEF Solitary

(* A restart with only one thread.                                          *)
LEMMA CrashAlone ==
  ASSUME Types, NEW t \in Threads, workers = {t}, Solitary(t), Crash
  PROVE  Solitary(t)'
<1>1. /\ Types' /\ db' = Committed /\ undo' = None /\ cache' = Committed.term
      /\ job'[t].todo = <<>> /\ Recall({}, {})
  BY CrashDoes
<1>2. db'.schedule = db.schedule
  BY <1>1 DEF Solitary, Held, Committed
<1>3. Rebuilt'
  BY <1>1, <1>2, RebuiltStays DEF Solitary
<1>4. cache' = db'.term
  BY <1>1
<1> QED  BY <1>1, <1>3, <1>4 DEF Solitary, Bracketed, Held, Cached, Rebuilding, InTransaction

(* A week written into the hours of a user.                                 *)
WeekWritten(schedule, s, rules) ==
  schedule = [db.schedule EXCEPT ![s.user] =
    [p \in Weeks \X Days |-> IF p[1] = s.week THEN DayMask(rules, p[1], p[2])
                             ELSE db.schedule[s.user][p]]]

WeekShows(schedule, s, rules) ==
  /\ \A u \in Users : u # s.user => schedule[u] = db.schedule[u]
  /\ \A w \in Weeks, d \in Days : schedule[s.user][w, d] =
       IF w = s.week THEN DayMask(rules, w, d) ELSE db.schedule[s.user][w, d]

LEMMA WeekIs ==
  ASSUME db \in Tables, NEW s \in Steps, s.do = "week", NEW rules \in SUBSET Rules,
         NEW schedule, WeekWritten(schedule, s, rules)
  PROVE  WeekShows(schedule, s, rules)
<1>1. s.user \in Users /\ db.schedule \in [Users -> Timetables]
  BY StepFields DEF Tables
<1>2. PICK row : row = [p \in Weeks \X Days |-> IF p[1] = s.week THEN DayMask(rules, p[1], p[2])
                                                ELSE db.schedule[s.user][p]]
  OBVIOUS
<1>3. schedule = [db.schedule EXCEPT ![s.user] = row]
  BY <1>2 DEF WeekWritten
<1>4. schedule[s.user] = row /\ \A u \in Users : u # s.user => schedule[u] = db.schedule[u]
  BY <1>1, <1>3
<1>5. \A w \in Weeks, d \in Days : row[w, d] =
        IF w = s.week THEN DayMask(rules, w, d) ELSE db.schedule[s.user][w, d]
  BY <1>2
<1> QED  BY <1>4, <1>5 DEF WeekShows

(* A week written by the rules of its timetable leaves every user's schedule*)
(* as right as it was.                                                      *)
WeekTo(before, after, v, k, rules) ==
  \A w \in Weeks, d \in Days : after[v][w, d] =
    IF w = k THEN DayMask(rules, w, d) ELSE before[v][w, d]

LEMMA RightStays ==
  ASSUME NEW before, NEW after, NEW v, NEW rules, NEW u, NEW own, NEW n, NEW k,
         v = u => own = rules, v # u => after[u] = before[u],
         WeekTo(before, after, v, k, rules), Right(before, own, u, n)
  PROVE  Right(after, own, u, n)
<1> SUFFICES ASSUME NEW w \in Weeks, NEW d \in Days, w <= n
             PROVE  after[u][w, d] = DayMask(own, w, d)
  BY DEF Right
<1>1. before[u][w, d] = DayMask(own, w, d)
  BY DEF Right
<1>2. CASE v = u
  BY <1>1, <1>2 DEF WeekTo
<1>3. CASE v # u
  BY <1>1, <1>3
<1> QED  BY <1>2, <1>3

(* A statement of the only thread, or its write of the cache.               *)
LEMMA StatementAlone ==
  ASSUME Types, NEW t \in Threads, workers = {t}, Solitary(t), Statement(t)
  PROVE  Solitary(t)'
<1>1. /\ Types' /\ t \in workers /\ job[t].todo # <<>> /\ undo' = undo
      /\ job[t].todo[1].do \in Inside \union Outside /\ ~Fails(job[t].todo[1])
      /\ db' = Run(job[t].todo[1], job[t].rules)
      /\ cache' = IF job[t].todo[1].do = "cache" THEN job[t].todo[1].date ELSE cache
      /\ job'[t].todo = Tail(job[t].todo)
      /\ Tail(job[t].todo) # <<>> => job'[t].rules =
           IF job[t].todo[1].do = "rules" THEN db.templates[job[t].todo[1].user] ELSE job[t].rules
      /\ Recall({u \in Users : job[t].todo[1] = [do |-> "week", user |-> u, week |-> RebuiltWeeks]},
                {a \in Acts \ filed : job[t].todo[1].do = "insert" /\ a = NextAct
                                      /\ InTerm(job[t].todo[1].act.date)})
  BY StatementDoes
<1>2. PICK todo : todo = job[t].todo /\ Shape(todo) /\ todo # <<>>
  BY <1>1, Working
<1>3. PICK s \in Steps : s = todo[1]
  BY <1>1, <1>2, Working
<1>4. PICK rules \in SUBSET Rules : rules = job[t].rules
  BY <1>1, Working
<1>5. PICK rest : rest = Tail(todo)
  OBVIOUS
<1>6. /\ s.do \in Inside \union Outside /\ ~Fails(s) /\ db' = Run(s, rules) /\ undo' = undo
      /\ cache' = (IF s.do = "cache" THEN s.date ELSE cache)
      /\ job'[t].todo = rest
      /\ rest # <<>> => job'[t].rules = IF s.do = "rules" THEN db.templates[s.user] ELSE rules
  BY <1>1, <1>2, <1>3, <1>4, <1>5
<1>7. PICK users \in SUBSET Users, acts \in SUBSET Acts :
        /\ users = {u \in Users : s = [do |-> "week", user |-> u, week |-> RebuiltWeeks]}
        /\ Recall(users, acts)
  BY <1>1, <1>2, <1>3
<1>8. \A u \in rebuilt' : u \in users \/ (u \in rebuilt /\ Committed'.templates[u] = Committed.templates[u])
  BY <1>7, RecallIs
<1>9. /\ db'.term = IF s.do = "term" THEN s.date ELSE db.term
      /\ s.do # "week" => db'.schedule = db.schedule
      /\ s.do = "week" => db'.schedule = [db.schedule EXCEPT ![s.user] =
           [p \in Weeks \X Days |-> IF p[1] = s.week THEN DayMask(rules, p[1], p[2])
                                    ELSE db.schedule[s.user][p]]]
      /\ s.do \notin {"clear", "course"} => db'.templates = db.templates
  BY <1>6, RunIs DEF Types
<1>10. /\ s.do \in Inside => InTransaction(rest)
       /\ s.do \in Outside => ~InTransaction(rest)
       /\ s.do = "term" => rest # <<>> /\ rest[1] = [do |-> "cache", date |-> s.date]
       /\ s.do # "term" => rest = <<>> \/ rest[1].do # "cache"
  BY <1>2, <1>3, <1>5, TailIs
<1>11. /\ s.do = "rules" => rest = <<>> \/ (rest[1].user = s.user /\ rest[1].week = 1)
       /\ s.do = "week" => rest = <<>> \/ (rest[1].user = s.user /\ rest[1].week = s.week + 1)
       /\ s.do \notin {"rules", "week"} => rest = <<>> \/ rest[1].do # "week"
  BY <1>2, <1>3, <1>5, TailIs
<1>12. undo # None <=> s.do \in Inside
  BY <1>2, <1>3, <1>6 DEF Solitary, Bracketed, InTransaction, Inside, Outside, Ends
<1>13. Bracketed(t)'
  BY <1>6, <1>10, <1>12 DEF Bracketed, Inside, Outside
<1>14. Held'
  <2>1. ASSUME undo # None
        PROVE  db'.term = db.term /\ db'.schedule = db.schedule
    BY <1>9, <1>12, <2>1 DEF Inside
  <2> QED  BY <1>6, <2>1 DEF Solitary, Held
<1>15. Cached(t)'
  <2>1. CASE s.do = "term"
    <3>1. rest[1].do = "cache" /\ rest[1].date = s.date /\ rest # <<>>
      BY <1>10, <2>1
    <3> QED  BY <1>6, <1>9, <2>1, <3>1 DEF Cached
  <2>2. CASE s.do # "term"
    <3>1. cache' = db.term
      BY <1>2, <1>3, <1>6 DEF Solitary, Cached
    <3> QED  BY <1>6, <1>9, <1>10, <2>2, <3>1 DEF Cached
  <2> QED  BY <2>1, <2>2
<1>16. ASSUME s.do = "week"
       PROVE  /\ undo = None /\ undo' = None /\ rules = db.templates[s.user]
              /\ db'.templates = db.templates
              /\ \A u \in Users : u # s.user => db'.schedule[u] = db.schedule[u]
              /\ \A w \in Weeks, d \in Days : db'.schedule[s.user][w, d] =
                   IF w = s.week THEN DayMask(rules, w, d) ELSE db.schedule[s.user][w, d]
              /\ Right(db'.schedule, rules, s.user, s.week)
  <2>1. undo = None /\ undo' = None
    BY <1>6, <1>12, <1>16 DEF Inside
  <2>2. rules = db.templates[s.user] /\ Right(db.schedule, rules, s.user, s.week - 1)
    BY <1>2, <1>3, <1>4, <1>16 DEF Solitary, Rebuilding
  <2>3. PICK schedule : schedule = db'.schedule
    OBVIOUS
  <2>4. /\ \A u \in Users : u # s.user => schedule[u] = db.schedule[u]
        /\ \A w \in Weeks, d \in Days : schedule[s.user][w, d] =
             IF w = s.week THEN DayMask(rules, w, d) ELSE db.schedule[s.user][w, d]
    <3>1. WeekWritten(schedule, s, rules)
      BY <1>9, <1>16, <2>3 DEF WeekWritten
    <3>2. db \in Tables /\ s \in Steps /\ s.do = "week" /\ rules \in SUBSET Rules
      BY <1>3, <1>4, <1>16 DEF Types
    <3>3. WeekShows(schedule, s, rules)
      BY <3>1, <3>2, WeekIs
    <3> QED  BY <3>3 DEF WeekShows
  <2>5. Right(schedule, rules, s.user, s.week)
    <3> SUFFICES ASSUME NEW w \in Weeks, NEW d \in Days, w <= s.week
                 PROVE  schedule[s.user][w, d] = DayMask(rules, w, d)
      BY DEF Right
    <3>1. w = s.week \/ w <= s.week - 1
      <4>1. s.week \in Int /\ w \in Int
        BY <1>16, StepFields DEF Weeks
      <4> QED  BY <4>1
    <3> QED  BY <2>2, <2>4, <3>1 DEF Right
  <2>6. db'.templates = db.templates
    BY <1>9, <1>16
  <2> QED  BY <2>1, <2>2, <2>3, <2>4, <2>5, <2>6
<1>17. Rebuilt'
  <2> SUFFICES ASSUME NEW u \in rebuilt'
               PROVE  Right(db'.schedule, Committed'.templates[u], u, RebuiltWeeks)
    BY DEF Rebuilt
  <2>1. CASE s.do # "week"
    <3>1. users = {}
      <4>1. \A u2 \in Users : s # [do |-> "week", user |-> u2, week |-> RebuiltWeeks]
        BY <2>1
      <4> QED  BY <1>7, <4>1
    <3>2. u \in rebuilt /\ Committed'.templates[u] = Committed.templates[u]
      BY <1>8, <3>1
    <3> QED  BY <1>9, <2>1, <3>2 DEF Solitary, Rebuilt
  <2>2. CASE s.do = "week"
    <3>1. Committed' = db' /\ Committed = db /\ rules = db.templates[s.user] /\ db'.templates = db.templates
      BY <1>16, <2>2 DEF Committed
    <3>2. CASE u \in users
      <4>1. s = [do |-> "week", user |-> u, week |-> RebuiltWeeks]
        BY <1>7, <3>2
      <4>2. s.user = u /\ s.week = RebuiltWeeks
        BY <4>1
      <4> QED  BY <1>16, <2>2, <3>1, <4>2
    <3>3. CASE u \in rebuilt
      <4>1. Right(db.schedule, db.templates[u], u, RebuiltWeeks) /\ u \in Users
        BY <3>1, <3>3 DEF Solitary, Rebuilt, Types
      <4>2. PICK before, after, own, v, k :
              /\ before = db.schedule /\ after = db'.schedule /\ own = db.templates[u]
              /\ v = s.user /\ k = s.week
        OBVIOUS
      <4>3. v = u => own = rules
        BY <2>2, <3>1, <4>2
      <4>4. v # u => after[u] = before[u]
        BY <1>16, <2>2, <4>1, <4>2
      <4>5. WeekTo(before, after, v, k, rules)
        BY <1>16, <2>2, <4>2 DEF WeekTo
      <4>6. Right(after, own, u, RebuiltWeeks)
        BY <4>1, <4>2, <4>3, <4>4, <4>5, RightStays
      <4>7. Right(db'.schedule, db.templates[u], u, RebuiltWeeks)
        BY <4>2, <4>6
      <4>8. Committed'.templates[u] = db.templates[u]
        BY <3>1
      <4> QED  BY <4>7, <4>8
    <3> QED  BY <1>8, <3>2, <3>3
  <2> QED  BY <2>1, <2>2
<1>18. Rebuilding(t)'
  <2> SUFFICES ASSUME rest # <<>>, rest[1].do = "week"
               PROVE  /\ job'[t].rules = db'.templates[rest[1].user]
                      /\ Right(db'.schedule, job'[t].rules, rest[1].user, rest[1].week - 1)
    BY <1>6 DEF Rebuilding
  <2>1. CASE s.do = "rules"
    <3>1. job'[t].rules = db'.templates[rest[1].user]
      BY <1>6, <1>9, <1>11, <2>1
    <3>2. \A w \in Weeks : ~(w <= 1 - 1)
      BY DEF Weeks
    <3>3. rest[1].week = 1
      BY <1>11, <2>1
    <3> QED  BY <3>1, <3>2, <3>3 DEF Right
  <2>2. CASE s.do = "week"
    <3>1. rest[1].user = s.user /\ rest[1].week = s.week + 1
      BY <1>11, <2>2
    <3>2. s.week \in Int
      BY <2>2, StepFields
    <3>3. rest[1].week - 1 = s.week
      BY <3>1, <3>2
    <3>4. job'[t].rules = rules
      BY <1>6, <2>2
    <3> QED  BY <1>16, <2>2, <3>1, <3>3, <3>4
  <2> QED  BY <1>11, <2>1, <2>2
<1> QED  BY <1>13, <1>14, <1>15, <1>17, <1>18 DEF Solitary

(* Every step keeps all this.                                               *)
LEMMA StepKeeps ==
  ASSUME Types, Alone, [Next]_vars
  PROVE  Types' /\ Alone'
<1>1. CASE UNCHANGED vars
  <2>1. /\ workers' = workers /\ db' = db /\ undo' = undo /\ cache' = cache /\ job' = job
        /\ rebuilt' = rebuilt /\ filed' = filed
    BY <1>1 DEF vars
  <2>2. Types'
    BY <2>1 DEF Types
  <2>3. Alone'
    BY <2>1 DEF Alone, Solitary, Bracketed, Held, Cached, Rebuilt, Rebuilding, Committed
  <2> QED  BY <2>2, <2>3
<1>2. ASSUME NEW t \in Threads, Control(t)
      PROVE  Types' /\ Alone'
  <2>1. Types' /\ workers' = workers /\ job[t].todo # <<>>
    BY <1>2, ControlDoes
  <2>2. ASSUME NEW x \in Threads, workers' = {x}
        PROVE  Solitary(x)'
    <3>1. x = t /\ workers = {x} /\ Solitary(x)
      BY <2>1, <2>2, OnlyThread DEF Alone
    <3> QED  BY <1>2, <3>1, ControlAlone
  <2> QED  BY <2>1, <2>2 DEF Alone
<1>3. ASSUME NEW t \in Threads, Statement(t)
      PROVE  Types' /\ Alone'
  <2>1. Types' /\ workers' = workers /\ job[t].todo # <<>>
    BY <1>3, StatementDoes
  <2>2. ASSUME NEW x \in Threads, workers' = {x}
        PROVE  Solitary(x)'
    <3>1. x = t /\ workers = {x} /\ Solitary(x)
      BY <2>1, <2>2, OnlyThread DEF Alone
    <3> QED  BY <1>3, <3>1, StatementAlone
  <2> QED  BY <2>1, <2>2 DEF Alone
<1>4. ASSUME NEW t \in Threads, Error(t)
      PROVE  Types' /\ Alone'
  <2>1. Types' /\ workers' = workers /\ job[t].todo # <<>>
    BY <1>4, ErrorDoes
  <2>2. ASSUME NEW x \in Threads, workers' = {x}
        PROVE  Solitary(x)'
    <3>1. x = t /\ workers = {x} /\ Solitary(x)
      BY <2>1, <2>2, OnlyThread DEF Alone
    <3> QED  BY <1>4, <3>1, ErrorAlone
  <2> QED  BY <2>1, <2>2 DEF Alone
<1>5. ASSUME NEW t \in Threads, NEW r \in Requests, Receive(t, r)
      PROVE  Types' /\ Alone'
  <2>1. Types' /\ workers' = workers /\ t \in workers
    BY <1>5, ReceiveDoes
  <2>2. ASSUME NEW x \in Threads, workers' = {x}
        PROVE  Solitary(x)'
    <3>1. x = t /\ workers = {x} /\ Solitary(x)
      BY <2>1, <2>2 DEF Alone
    <3> QED  BY <1>5, <3>1, ReceiveAlone
  <2> QED  BY <2>1, <2>2 DEF Alone
<1>6. ASSUME Crash
      PROVE  Types' /\ Alone'
  <2>1. Types' /\ workers' = workers
    BY <1>6, CrashDoes
  <2>2. ASSUME NEW x \in Threads, workers' = {x}
        PROVE  Solitary(x)'
    <3>1. workers = {x} /\ Solitary(x)
      BY <2>1, <2>2 DEF Alone
    <3> QED  BY <1>6, <3>1, CrashAlone
  <2> QED  BY <2>1, <2>2 DEF Alone
<1> QED  BY <1>1, <1>2, <1>3, <1>4, <1>5, <1>6 DEF Next

(* One IO thread is a thread.                                               *)
LEMMA SoleIs ==
  ASSUME Types, Sole
  PROVE  \E t \in Threads : workers = {t}
<1>1. workers \subseteq Threads /\ IsFiniteSet(Threads)
  BY ScheduleAssumption DEF Types
<1>2. IsFiniteSet(workers)
  BY <1>1, FS_Subset
<1>3. PICK t : workers = {t}
  BY <1>2, FS_Singleton DEF Sole
<1> QED  BY <1>1, <1>3

(* The cache differs from the table only between the two writes.            *)
LEMMA CacheIs == Types /\ Alone => CacheFollows
<1> SUFFICES ASSUME Types, Alone, Sole, cache # db.term
             PROVE  \E t \in workers : job[t].todo = <<[do |-> "cache", date |-> db.term]>>
  BY DEF CacheFollows
<1>1. PICK t \in Threads : workers = {t}
  BY SoleIs
<1>2. PICK todo : todo = job[t].todo
  OBVIOUS
<1>3. todo # <<>> /\ todo[1].do = "cache" /\ todo[1].date = db.term
  BY <1>1, <1>2 DEF Alone, Solitary, Cached
<1>4. Shape(todo) /\ todo \in Seq(Steps) /\ todo[1] \in Steps /\ Len(todo) \in Nat /\ Len(todo) >= 1
  BY <1>2, <1>3, FirstAndRest DEF Types, Shape
<1>5. Placed(todo, 1)
  <2>1. 1 \in 1..Len(todo)
    BY <1>4
  <2> QED  BY <1>4, <2>1 DEF Shape
<1>6. Len(todo) = 1
  BY <1>3, <1>4, <1>5 DEF Placed
<1>7. PICK s : s = todo[1]
  OBVIOUS
<1>8. todo = <<s>>
  BY <1>4, <1>6, <1>7
<1>9. s = [do |-> "cache", date |-> db.term]
  <2>1. s \in Steps /\ s.do = "cache" /\ s.date = db.term
    BY <1>3, <1>4, <1>7
  <2>2. s \in [do : {"term", "cache"}, date : Starts \union {NoDate}]
    BY <2>1 DEF Steps
  <2>3. s = [do |-> s.do, date |-> s.date]
    BY <2>2
  <2> QED  BY <2>1, <2>3
<1> QED  BY <1>1, <1>2, <1>8, <1>9

(* With one IO thread the start of the term that the server computes with   *)
(* is the one in the table, but for the handler that is between the two     *)
(* writes (handleUpdateTermStartDate), whatever fails and whenever it is    *)
(* restarted.                                                               *)
THEOREM TermIsCached == Spec => []CacheFollows
<1>1. Init => Types /\ Alone
  BY InitTypes, InitAlone
<1>2. Types /\ Alone /\ [Next]_vars => Types' /\ Alone'
  BY StepKeeps
<1> QED  BY <1>1, <1>2, CacheIs, PTL DEF Spec

-----------------------------------------------------------------------------
(* Members who are offered are free.                                        *)

(* The times of activities lie in the hours that a mask has bits for. Of a  *)
(* time outside them calculateHourMask knows nothing.                       *)
WithinHours == \A i \in Instances : 420 <= i.from /\ i.from < i.to /\ i.to <= 1320

(* The hours of a request for an activity, as numbers.                      *)
LEMMA InstanceHours ==
  ASSUME WithinHours, NEW i \in Instances
  PROVE  /\ i.from \in Int /\ i.to \in Int
         /\ 420 <= i.from /\ i.from < i.to /\ i.to <= 1320
<1>1. i \in Placements
  BY DatesAreDays
<1>2. i.from \in 0..1440 /\ i.to \in 0..1440
  BY <1>1 DEF Placements
<1>3. 420 <= i.from /\ i.from < i.to /\ i.to <= 1320
  BY DEF WithinHours
<1>4. i.from \in Int
  <2>1. PICK n : n = i.from
    OBVIOUS
  <2>2. n \in 0..1440
    BY <1>2, <2>1
  <2>3. n \in Int
    BY <2>2
  <2> QED  BY <2>1, <2>3
<1>5. i.to \in Int
  <2>1. PICK n : n = i.to
    OBVIOUS
  <2>2. n \in 0..1440
    BY <1>2, <2>1
  <2>3. n \in Int
    BY <2>2
  <2> QED  BY <2>1, <2>3
<1> QED  BY <1>3, <1>4, <1>5

(* Two times whose masks have no hour in common do not meet.                *)
LEMMA TimesApart ==
  ASSUME NEW f \in Int, NEW g \in Int, NEW h \in Int, NEW k \in Int,
         420 <= f, f < g, g <= 1320, 420 <= h, h < k, k <= 1320,
         HourMask(f, g) \intersect HourMask(h, k) = {}
  PROVE  g <= h \/ k <= f
<1> SUFFICES ASSUME h < g, f < k
             PROVE  FALSE
  OBVIOUS
<1>1. PICK m \in Int : m = IF f < h THEN h ELSE f
  OBVIOUS
<1>2. f <= m /\ m < g /\ h <= m /\ m < k /\ 420 <= m /\ m < 1320
  BY <1>1
<1>3. PICK b \in Int : b = (m - 420) \div 60
  OBVIOUS
<1>4. 60 * b <= m - 420 /\ m - 420 < 60 * b + 60 /\ 0 <= b /\ b <= 14
  BY <1>2, <1>3
<1>5. b \in Slots /\ 60 * (8 + b) = 60 * b + 480 /\ 60 * (7 + b) = 60 * b + 420
  BY <1>4 DEF Slots
<1>6. f < 60 * (8 + b) /\ g > 60 * (7 + b) /\ h < 60 * (8 + b) /\ k > 60 * (7 + b)
  BY <1>2, <1>4, <1>5
<1>7. b \in HourMask(f, g) /\ b \in HourMask(h, k)
  BY <1>5, <1>6 DEF HourMask
<1> QED  BY <1>7

(* An activity filed under the week and the hours of its date and time.     *)
Fits(x) ==
  /\ [date |-> x.date, from |-> x.from, to |-> x.to] \in Instances
  /\ InTerm(x.date) /\ x.week = WeekAndDay({}, cache, x.date, Nowhere).week
  /\ x.mask = HourMask(x.from, x.to)
FiledRight == \A a \in filed : Fits(db.acts[a])

(* A new activity is.                                                       *)
LEMMA FiledFits ==
  ASSUME NEW i \in Instances, InTerm(i.date)
  PROVE  Fits(Filed(i))
<1>1. i \in Placements
  BY DatesAreDays
<1>2. i = [date |-> i.date, from |-> i.from, to |-> i.to]
  BY <1>1 DEF Placements
<1>3. PICK w : w = WeekAndDay({}, cache, i.date, [week |-> 1, day |-> 1]).week
  OBVIOUS
<1>4. Filed(i) = [date |-> i.date, from |-> i.from, to |-> i.to,
                  week |-> w, mask |-> HourMask(i.from, i.to)]
  BY <1>3 DEF Filed
<1>5. WeekAndDay({}, cache, i.date, Nowhere).week = w
  <2>1. WeekAndDay({}, cache, i.date, Nowhere).ok
    BY DEF InTerm
  <2>2. ~(DaysBetween({}, cache, i.date) < 0)
    BY <2>1 DEF WeekAndDay
  <2> QED  BY <1>3, <2>2 DEF WeekAndDay
<1>6. PICK x : x = Filed(i)
  OBVIOUS
<1>7. x.date = i.date /\ x.from = i.from /\ x.to = i.to /\ x.week = w /\ x.mask = HourMask(i.from, i.to)
  BY <1>4, <1>6
<1> QED  BY <1>2, <1>5, <1>6, <1>7 DEF Fits

(* Activities stay filed as they are when neither they nor the cache change.*)
LEMMA FiledStays ==
  ASSUME FiledRight, NEW acts,
         \A a \in filed' : a \in acts \/ (a \in filed /\ db'.acts[a] = db.acts[a] /\ cache' = cache),
         \A a \in acts : Fits(db.acts[a])'
  PROVE  FiledRight'
<1> SUFFICES ASSUME NEW a \in filed'
             PROVE  Fits(db.acts[a])'
  BY DEF FiledRight
<1>1. CASE a \in acts
  BY <1>1
<1>2. CASE a \in filed /\ db'.acts[a] = db.acts[a] /\ cache' = cache
  BY <1>2 DEF FiledRight, Fits, InTerm
<1> QED  BY <1>1, <1>2

(* Every step keeps the activities filed right.                             *)
LEMMA FiledKept ==
  ASSUME Types, FiledRight, [Next]_vars
  PROVE  FiledRight'
<1>1. CASE UNCHANGED vars
  BY <1>1 DEF vars, FiledRight, Fits, InTerm
<1>2. ASSUME Recall({}, {})
      PROVE  FiledRight'
  <2>1. PICK none : none = {} /\ Recall(none, none)
    BY <1>2
  <2>2. \A a \in filed' : a \in none \/ (a \in filed /\ db'.acts[a] = db.acts[a] /\ cache' = cache)
    BY <2>1, RecallIs
  <2>3. \A a \in none : Fits(db.acts[a])'
    BY <2>1
  <2> QED  BY <2>2, <2>3, FiledStays
<1>3. ASSUME NEW t \in Threads, Control(t)
      PROVE  FiledRight'
  BY <1>2, <1>3, ControlDoes
<1>4. ASSUME Crash
      PROVE  FiledRight'
  BY <1>2, <1>4, CrashDoes
<1>5. ASSUME NEW t \in Threads, Error(t)
      PROVE  FiledRight'
  <2>1. db' = db /\ cache' = cache /\ filed' = filed
    BY <1>5, ErrorDoes
  <2> QED  BY <2>1 DEF FiledRight, Fits, InTerm
<1>6. ASSUME NEW t \in Threads, NEW r \in Requests, Receive(t, r)
      PROVE  FiledRight'
  <2>1. db' = db /\ cache' = cache /\ filed' = filed
    BY <1>6, ReceiveDoes
  <2> QED  BY <2>1 DEF FiledRight, Fits, InTerm
<1>7. ASSUME NEW t \in Threads, Statement(t)
      PROVE  FiledRight'
  <2>1. PICK s \in Steps : s = job[t].todo[1]
    BY <1>7, StatementDoes, Working
  <2>2. PICK rules \in SUBSET Rules : rules = job[t].rules
    BY <1>7, StatementDoes, Working
  <2>3. /\ ~Fails(s) /\ db' = Run(s, rules)
        /\ cache' = (IF s.do = "cache" THEN s.date ELSE cache)
    BY <1>7, <2>1, <2>2, StatementDoes
  <2>4. PICK acts \in SUBSET Acts, users \in SUBSET Users :
          /\ acts = {a \in Acts \ filed : s.do = "insert" /\ a = NextAct /\ InTerm(s.act.date)}
          /\ Recall(users, acts)
    BY <1>7, <2>1, StatementDoes
  <2>5. \A a \in filed' : a \in acts \/ (a \in filed /\ db'.acts[a] = db.acts[a] /\ cache' = cache)
    BY <2>4, RecallIs
  <2>6. ASSUME NEW a \in acts
        PROVE  Fits(db.acts[a])'
    <3>1. s.do = "insert" /\ a = NextAct /\ InTerm(s.act.date) /\ a \in Acts
      BY <2>4, <2>6
    <3>2. s.act \in Instances /\ cache' = cache
      BY <2>1, <2>3, <3>1, StepFields
    <3>3. db' = Run(s, rules) /\ db \in Tables /\ ~Fails(s) /\ s \in Steps /\ rules \in SUBSET Rules
      BY <2>1, <2>2, <2>3 DEF Types
    <3>4. db'.acts = [db.acts EXCEPT ![NextAct] = Filed(s.act)]
      BY <3>1, <3>3, RunIs
    <3>5. db'.acts[a] = Filed(s.act)
      BY <3>1, <3>3, <3>4 DEF Tables
    <3>6. Fits(Filed(s.act))
      BY <3>1, <3>2, FiledFits
    <3>7. PICK x : x = Filed(s.act)
      OBVIOUS
    <3> QED  BY <3>2, <3>5, <3>6, <3>7 DEF Fits, InTerm
  <2> QED  BY <2>5, <2>6, FiledStays
<1> QED  BY <1>1, <1>3, <1>4, <1>5, <1>6, <1>7 DEF Next

(* A rule for this day and week has its hours among those of the day.       *)
LEMMA TaughtHours ==
  ASSUME NEW rules \in SUBSET Rules, NEW r \in rules, NEW w \in Weeks, w \in Taught(r)
  PROVE  r.hours \subseteq DayMask(rules, w, r.day)
<1>1. r.type \in Int /\ r.first \in Int /\ r.last \in Int /\ w \in Int
  BY DEF Rules, Weeks
<1>2. r.first <= w /\ w <= r.last /\ (r.type # 0 => w % 2 = r.type % 2)
  BY <1>1 DEF Taught
<1>3. Applies(r, w)
  BY <1>1, <1>2 DEF Applies
<1> QED  BY <1>3 DEF DayMask

(* The members offered for an activity are free of it.                      *)
LEMMA FreeIs ==
  ASSUME WithinHours, Types, Alone, FiledRight
  PROVE  FilteredAreFree
<1> SUFFICES ASSUME NEW i \in Instances, InTerm(i.date)
             PROVE  LET at == WeekAndDay({}, cache, i.date, Nowhere)
                        mask == HourMask(i.from, i.to) IN
                    \A u \in FreeMembers(at.week, at.day, mask) :
                      /\ \A a \in filed : <<a, u>> \in db.members /\ db.acts[a].date = i.date =>
                           db.acts[a].to <= i.from \/ i.to <= db.acts[a].from
                      /\ Sole /\ u \in rebuilt /\ at.week <= RebuiltWeeks =>
                           \A r \in Committed.templates[u] :
                             r.day = at.day /\ at.week \in Taught(r) => r.hours \intersect mask = {}
  BY DEF FilteredAreFree
<1>1. PICK at : at = WeekAndDay({}, cache, i.date, Nowhere)
  OBVIOUS
<1>2. PICK mask : mask = HourMask(i.from, i.to)
  OBVIOUS
<1> SUFFICES ASSUME NEW u \in FreeMembers(at.week, at.day, mask)
             PROVE  /\ \A a \in filed : <<a, u>> \in db.members /\ db.acts[a].date = i.date =>
                         db.acts[a].to <= i.from \/ i.to <= db.acts[a].from
                    /\ Sole /\ u \in rebuilt /\ at.week <= RebuiltWeeks =>
                         \A r \in Committed.templates[u] :
                           r.day = at.day /\ at.week \in Taught(r) => r.hours \intersect mask = {}
  BY <1>1, <1>2
<1>3. /\ u \in Users /\ db.schedule[u][at.week, at.day] \intersect mask = {}
      /\ \A a \in Acts : <<a, u>> \in db.members =>
           db.acts[a].week # at.week \/ db.acts[a].mask \intersect mask = {}
  BY DEF FreeMembers, FreeOfCourses
<1>4. ASSUME NEW a \in filed, <<a, u>> \in db.members, db.acts[a].date = i.date
      PROVE  db.acts[a].to <= i.from \/ i.to <= db.acts[a].from
  <2>1. PICK x : x = db.acts[a]
    OBVIOUS
  <2>2. /\ [date |-> x.date, from |-> x.from, to |-> x.to] \in Instances
        /\ x.week = WeekAndDay({}, cache, x.date, Nowhere).week /\ x.mask = HourMask(x.from, x.to)
    BY <2>1 DEF FiledRight, Fits
  <2>3. x.week = at.week
    BY <1>1, <1>4, <2>1, <2>2
  <2>4. x.mask \intersect mask = {}
    <3>1. a \in Acts
      BY DEF Types
    <3> QED  BY <1>3, <1>4, <2>1, <2>3, <3>1
  <2>5. PICK y \in Instances : y.from = x.from /\ y.to = x.to
    <3>1. PICK y \in Instances : y = [date |-> x.date, from |-> x.from, to |-> x.to]
      BY <2>2
    <3> QED  BY <3>1
  <2>6. /\ y.from \in Int /\ y.to \in Int /\ 420 <= y.from /\ y.from < y.to /\ y.to <= 1320
        /\ i.from \in Int /\ i.to \in Int /\ 420 <= i.from /\ i.from < i.to /\ i.to <= 1320
    BY <2>5, InstanceHours
  <2>7. HourMask(y.from, y.to) \intersect HourMask(i.from, i.to) = {}
    BY <1>2, <2>2, <2>4, <2>5
  <2>8. y.to <= i.from \/ i.to <= y.from
    BY <2>6, <2>7, TimesApart
  <2> QED  BY <2>1, <2>5, <2>8
<1>5. ASSUME Sole, u \in rebuilt, at.week <= RebuiltWeeks, NEW r \in Committed.templates[u],
             r.day = at.day, at.week \in Taught(r)
      PROVE  r.hours \intersect mask = {}
  <2>1. PICK t \in Threads : workers = {t}
    BY <1>5, SoleIs
  <2>2. Right(db.schedule, Committed.templates[u], u, RebuiltWeeks)
    BY <1>5, <2>1 DEF Alone, Solitary, Rebuilt
  <2>3. PICK rules \in SUBSET Rules : rules = Committed.templates[u]
    <3>1. u \in Owners
      BY <1>3 DEF Owners
    <3> QED  BY <3>1, CommittedIs DEF Tables
  <2>4. at.week \in Weeks /\ at.day \in Days
    <3>1. at.ok
      BY <1>1 DEF InTerm
    <3>2. PICK k \in Int : k = DaysBetween({}, cache, i.date)
      <4>1. i.date \in Int /\ cache \in Int
        <5>1. i \in Placements
          BY DatesAreDays
        <5> QED  BY <5>1 DEF Placements, Types
      <4> QED  BY <4>1 DEF DaysBetween, Midnight, Quotient
    <3>3. ~(k < 0) /\ k \div 7 + 1 \in 1..TermWeeks /\ at.week = k \div 7 + 1 /\ at.day = (k % 7) + 1
      BY <1>1, <3>1, <3>2 DEF WeekAndDay
    <3>4. (k % 7) + 1 \in 1..7
      OBVIOUS
    <3> QED  BY <3>3, <3>4 DEF Weeks, Days
  <2>5. db.schedule[u][at.week, at.day] = DayMask(rules, at.week, at.day)
    BY <1>5, <2>2, <2>3, <2>4 DEF Right
  <2>6. r.hours \subseteq DayMask(rules, at.week, r.day)
    BY <1>5, <2>3, <2>4, TaughtHours
  <2> QED  BY <1>3, <1>5, <2>5, <2>6
<1> QED  BY <1>4, <1>5

(* Who is offered for an activity within the hours of the mask is in no     *)
(* other activity filed under the term that meets it, and, with one IO      *)
(* thread, in none of the courses of a timetable that has been rebuilt      *)
(* (handleFilterMembers, rebuildUserSchedules, handleAddActivity).          *)
THEOREM OfferedAreFree ==
  ASSUME WithinHours
  PROVE  Spec => []FilteredAreFree
<1>1. Init => Types /\ Alone /\ FiledRight
  <2>1. Init => FiledRight
    BY DEF Init, FiledRight
  <2> QED  BY <2>1, InitTypes, InitAlone
<1>2. Types /\ Alone /\ FiledRight /\ [Next]_vars => Types' /\ Alone' /\ FiledRight'
  BY StepKeeps, FiledKept
<1>3. Types /\ Alone /\ FiledRight => FilteredAreFree
  BY FreeIs
<1> QED  BY <1>1, <1>2, <1>3, PTL DEF Spec

-----------------------------------------------------------------------------
(* An upload takes the place of the whole timetable, or of nothing.         *)

\* These rules in the place of an owner's.
With(templates, owner, rules) == [templates EXCEPT ![owner] = rules]

(* Two writes to the same owner.                                            *)
LEMMA WithIs ==
  ASSUME NEW templates \in [Owners -> SUBSET Rules], NEW owner \in Owners, NEW a, NEW b
  PROVE  /\ With(templates, owner, a)[owner] = a
         /\ With(With(templates, owner, a), owner, b) = With(templates, owner, b)
BY DEF With

(* What an upload writes to the timetables.                                 *)
LEMMA RunWrites ==
  ASSUME db \in Tables, NEW s \in Steps, NEW rules
  PROVE  /\ s.do = "clear" => Run(s, rules).templates = With(db.templates, s.owner, {})
         /\ s.do = "course" => Run(s, rules).templates =
              With(db.templates, s.owner, db.templates[s.owner] \union {s.course.rule})
<1>1. ASSUME s.do = "clear"
      PROVE  Run(s, rules).templates = With(db.templates, s.owner, {})
  <2>1. Run(s, rules) = [db EXCEPT !.templates[s.owner] = {}]
    BY <1>1 DEF Run
  <2> QED  BY <2>1 DEF Tables, With
<1>2. ASSUME s.do = "course"
      PROVE  Run(s, rules).templates =
               With(db.templates, s.owner, db.templates[s.owner] \union {s.course.rule})
  <2>1. Run(s, rules) = [db EXCEPT !.templates[s.owner] = @ \union {s.course.rule}]
    BY <1>2 DEF Run
  <2> QED  BY <2>1 DEF Tables, With
<1> QED  BY <1>1, <1>2

\* What is left of an upload of which n steps are done.
Rest(todo, r, n) ==
  /\ Len(todo) = Len(r.courses) + 4 + RebuiltWeeks - n
  /\ \A j \in 1..Len(todo) : todo[j] = Upload(r)[j + n]

\* The rules of the courses that the table has accepted among the first k.
Kept(r, k) == {r.courses[j].rule : j \in {x \in 1..k : r.courses[x].kind = "good"}}
Unbroken(r, k) == \A j \in 1..k : r.courses[j].kind # "broken"

Progress(r, n) ==
  /\ n = 1 => db.templates = undo.templates
  /\ n >= 2 => /\ db.templates = With(undo.templates, Owner(r), Kept(r, n - 2))
               /\ Unbroken(r, n - 2)

\* No step of an upload is left, but for its end and the rebuilding.
Plain(todo) == \A j \in 1..Len(todo) : todo[j].do \notin {"clear", "course"}

(* With one IO thread that an upload goes on, or none does and the          *)
(* transaction, if there is one, has not touched the timetables or is       *)
(* undone next.                                                             *)
Amid(t) ==
  \/ /\ Plain(job[t].todo)
     /\ undo # None => job[t].todo[1].do = "ROLLBACK" \/ db.templates = undo.templates
  \/ \E r \in UploadRequests : \E n \in 0..(Len(r.courses) + 2) :
       Rest(job[t].todo, r, n) /\ Progress(r, n)
Orderly == column => \A t \in Threads : workers = {t} => Amid(t)

(* The courses of an upload.                                                *)
LEMMA UploadCourses ==
  ASSUME NEW r \in UploadRequests
  PROVE  /\ Len(r.courses) \in Nat /\ DOMAIN r.courses = 1..Len(r.courses)
         /\ \A i \in 1..Len(r.courses) : r.courses[i] \in Courses
         /\ Owner(r) \in Owners /\ RebuiltWeeks \in Nat
<1>1. r.courses \in Seq(Courses)
  BY ScheduleAssumption DEF UploadRequests
<1>2. Owner(r) \in Owners
  BY DEF UploadRequests, Owner, Owners
<1> QED  BY <1>1, <1>2, LenProperties, ElementOfSeq, ScheduleAssumption

(* The next step of an upload, and what is left after it.                   *)
LEMMA RestIs ==
  ASSUME NEW todo \in Seq(Steps), NEW r \in UploadRequests, NEW n \in 0..(Len(r.courses) + 2),
         Rest(todo, r, n)
  PROVE  /\ todo # <<>> /\ Rest(Tail(todo), r, n + 1)
         /\ n = 0 => todo[1].do = "START"
         /\ n = 1 => todo[1].do = "clear" /\ todo[1].owner = Owner(r)
         /\ n \in 2..(Len(r.courses) + 1) => /\ todo[1].do = "course" /\ todo[1].owner = Owner(r)
                                             /\ todo[1].course = r.courses[n - 1]
         /\ n = Len(r.courses) + 2 => todo[1].do = "COMMIT" /\ Plain(Tail(todo))
<1>1. PICK m \in Nat : m = Len(r.courses)
  BY UploadCourses
<1>2. PICK R \in Nat : R = RebuiltWeeks
  BY UploadCourses
<1>3. PICK p : p = Upload(r)
  OBVIOUS
<1>4. /\ p[1] = [do |-> "START"] /\ p[2] = [do |-> "clear", owner |-> Owner(r)]
      /\ \A i \in 1..m : p[i + 2] = [do |-> "course", owner |-> Owner(r), course |-> r.courses[i]]
      /\ p[m + 3] = [do |-> "COMMIT"] /\ p[m + 4] = [do |-> "rules", user |-> r.user]
      /\ \A w \in 1..R : p[m + 4 + w] = [do |-> "week", user |-> r.user, week |-> w]
  BY <1>1, <1>2, <1>3, UploadSteps DEF UploadIs
<1>5. n \in Int /\ 0 <= n /\ n <= m + 2
  BY <1>1
<1>6. Len(todo) = m + 4 + R - n /\ \A j \in 1..Len(todo) : todo[j] = p[j + n]
  BY <1>1, <1>2, <1>3 DEF Rest
<1>7. PICK l \in Nat : l = Len(todo) /\ l = m + 4 + R - n /\ l >= 2
  BY <1>5, <1>6
<1>8. todo # <<>> /\ Len(Tail(todo)) = l - 1 /\ \A j \in 1..(l - 1) : Tail(todo)[j] = todo[j + 1]
  <2>1. todo # <<>>
    <3>1. Len(todo) # 0
      BY <1>7
    <3> QED  BY <3>1, EmptySeq
  <2> QED  BY <1>7, <2>1, FirstAndRest
<1>9. \A j \in 1..(l - 1) : Tail(todo)[j] = p[j + (n + 1)]
  <2>1. ASSUME NEW j \in 1..(l - 1)
        PROVE  Tail(todo)[j] = p[j + (n + 1)]
    <3>1. j + 1 \in 1..l /\ (j + 1) + n = j + (n + 1)
      BY <1>5
    <3>2. todo[j + 1] = p[(j + 1) + n]
      BY <1>6, <1>7, <3>1
    <3> QED  BY <1>8, <3>1, <3>2
  <2> QED  BY <2>1
<1>10. Rest(Tail(todo), r, n + 1)
  <2>1. l - 1 = m + 4 + R - (n + 1)
    BY <1>5, <1>7
  <2> QED  BY <1>1, <1>2, <1>3, <1>8, <1>9, <2>1 DEF Rest
<1>11. todo[1] = p[n + 1]
  <2>1. 1 \in 1..l /\ 1 + n = n + 1
    BY <1>5, <1>7
  <2> QED  BY <1>6, <1>7, <2>1
<1>12. n = 0 => todo[1].do = "START"
  <2>1. p[1].do = "START"
    BY <1>4
  <2> QED  BY <1>11, <2>1
<1>13. n = 1 => todo[1].do = "clear" /\ todo[1].owner = Owner(r)
  <2>1. p[2].do = "clear" /\ p[2].owner = Owner(r)
    BY <1>4
  <2> QED  BY <1>11, <2>1
<1>14. ASSUME n \in 2..(m + 1)
       PROVE  todo[1].do = "course" /\ todo[1].owner = Owner(r) /\ todo[1].course = r.courses[n - 1]
  <2>1. PICK i \in 1..m : i = n - 1 /\ i + 2 = n + 1
    BY <1>14
  <2>2. p[i + 2] = [do |-> "course", owner |-> Owner(r), course |-> r.courses[i]]
    BY <1>4
  <2>3. p[i + 2].do = "course" /\ p[i + 2].owner = Owner(r) /\ p[i + 2].course = r.courses[i]
    BY <2>2
  <2> QED  BY <1>11, <2>1, <2>3
<1>15. ASSUME n = m + 2
       PROVE  todo[1].do = "COMMIT" /\ Plain(Tail(todo))
  <2>1. p[m + 3].do = "COMMIT" /\ n + 1 = m + 3
    BY <1>4, <1>15
  <2>2. ASSUME NEW j \in 1..(l - 1)
        PROVE  Tail(todo)[j].do \in {"rules", "week"}
    <3>1. Tail(todo)[j] = p[j + (m + 3)] /\ j \in 1..(R + 1) /\ (j = 1 \/ j > 1)
      <4>1. l - 1 = R + 1
        BY <1>7, <1>15
      <4>2. j \in 1..(R + 1) /\ (j = 1 \/ j > 1)
        BY <4>1
      <4>3. Tail(todo)[j] = p[j + (n + 1)]
        BY <1>9
      <4> QED  BY <2>1, <4>2, <4>3
    <3>2. CASE j = 1
      <4>1. j + (m + 3) = m + 4
        BY <3>2
      <4>2. p[m + 4].do = "rules"
        BY <1>4
      <4> QED  BY <3>1, <4>1, <4>2
    <3>3. CASE j > 1
      <4>1. PICK w \in 1..R : w = j - 1 /\ m + 4 + w = j + (m + 3)
        BY <3>1, <3>3
      <4>2. p[m + 4 + w] = [do |-> "week", user |-> r.user, week |-> w]
        BY <1>4
      <4>3. p[m + 4 + w].do = "week"
        BY <4>2
      <4> QED  BY <3>1, <4>1, <4>3
    <3> QED  BY <3>1, <3>2, <3>3
  <2> QED  BY <1>8, <1>11, <2>1, <2>2 DEF Plain
<1> QED  BY <1>1, <1>8, <1>10, <1>12, <1>13, <1>14, <1>15

(* The courses that the table accepts, one more at a time.                  *)
LEMMA KeptIs ==
  ASSUME NEW r \in UploadRequests
  PROVE  /\ Kept(r, 0) = {} /\ Unbroken(r, 0)
         /\ \A k \in 1..Len(r.courses) : r.courses[k].kind = "good" =>
              Kept(r, k) = Kept(r, k - 1) \union {r.courses[k].rule}
         /\ \A k \in 1..Len(r.courses) : r.courses[k].kind # "good" => Kept(r, k) = Kept(r, k - 1)
         /\ \A k \in 1..Len(r.courses) : Unbroken(r, k - 1) /\ r.courses[k].kind # "broken" => Unbroken(r, k)
<1>1. Kept(r, 0) = {} /\ Unbroken(r, 0)
  BY DEF Kept, Unbroken
<1>2. ASSUME NEW k \in 1..Len(r.courses)
      PROVE  \A j : j \in 1..k <=> j \in 1..(k - 1) \/ j = k
  <2>1. Len(r.courses) \in Nat
    BY UploadCourses
  <2> QED  BY <2>1
<1>3. ASSUME NEW k \in 1..Len(r.courses), r.courses[k].kind = "good"
      PROVE  Kept(r, k) = Kept(r, k - 1) \union {r.courses[k].rule}
  BY <1>2, <1>3 DEF Kept
<1>4. ASSUME NEW k \in 1..Len(r.courses), r.courses[k].kind # "good"
      PROVE  Kept(r, k) = Kept(r, k - 1)
  BY <1>2, <1>4 DEF Kept
<1>5. ASSUME NEW k \in 1..Len(r.courses), Unbroken(r, k - 1), r.courses[k].kind # "broken"
      PROVE  Unbroken(r, k)
  BY <1>2, <1>5 DEF Unbroken
<1> QED  BY <1>1, <1>3, <1>4, <1>5

(* All of them are those of the request.                                    *)
LEMMA KeptAll ==
  ASSUME NEW r \in UploadRequests
  PROVE  /\ Kept(r, Len(r.courses)) = {c.rule : c \in {x \in Range(r.courses) : x.kind = "good"}}
         /\ Unbroken(r, Len(r.courses)) => "broken" \notin {c.kind : c \in Range(r.courses)}
<1>1. DOMAIN r.courses = 1..Len(r.courses)
  BY UploadCourses
<1>2. Range(r.courses) = {r.courses[j] : j \in 1..Len(r.courses)}
  BY <1>1 DEF Range
<1>3. \A x : x \in Kept(r, Len(r.courses)) <=> x \in {c.rule : c \in {y \in Range(r.courses) : y.kind = "good"}}
  BY <1>2 DEF Kept
<1> QED  BY <1>2, <1>3 DEF Unbroken

(* The program of a request is an upload, or writes no timetable.           *)
LEMMA ProgramPlain ==
  ASSUME NEW r \in Requests
  PROVE  Plain(Program(r)) \/ (r \in UploadRequests /\ Rest(Program(r), r, 0))
<1>1. CASE r.op = "upload"
  <2>1. r \in UploadRequests
    BY <1>1 DEF Requests, UploadRequests
  <2>2. PICK p \in Seq(Steps) : p = Upload(r) /\ UploadIs(p, r)
    BY <2>1, UploadSteps
  <2>3. PICK l \in Nat : l = Len(p)
    BY <2>2, LenProperties
  <2>4. l = Len(r.courses) + 4 + RebuiltWeeks - 0
    BY <2>1, <2>2, <2>3, UploadCourses DEF UploadIs
  <2>5. \A j \in 1..l : j + 0 = j
    BY <2>3
  <2>6. Rest(p, r, 0)
    BY <2>2, <2>3, <2>4, <2>5 DEF Rest
  <2> QED  BY <1>1, <2>1, <2>2, <2>6 DEF Program
<1>2. CASE r.op = "add"
  <2>1. r.list \in Plans
    BY <1>2 DEF Requests
  <2>2. PICK p \in Seq(Steps) :
           /\ p = Start \o [i \in DOMAIN r.list |-> [do |-> "insert", act |-> r.list[i]]] \o Commit
           /\ Len(p) = Len(r.list) + 2 /\ p[1] = [do |-> "START"]
           /\ \A i \in 1..Len(r.list) : p[i + 1] = [do |-> "insert", act |-> r.list[i]]
           /\ p[Len(r.list) + 2] = [do |-> "COMMIT"]
    BY <2>1, AddIs
  <2>3. PICK m \in Nat : m = Len(r.list)
    <3>1. r.list \in Seq(Placements)
      BY <2>1, ScheduleAssumption
    <3> QED  BY <3>1, LenProperties
  <2>4. Program(r) = p
    BY <1>2, <2>2 DEF Program, Add
  <2>5. p[1].do = "START"
    <3>1. p[1] = [do |-> "START"]
      BY <2>2
    <3> QED  BY <3>1
  <2>6. p[m + 2].do = "COMMIT"
    <3>1. p[m + 2] = [do |-> "COMMIT"]
      BY <2>2, <2>3
    <3> QED  BY <3>1
  <2>7. ASSUME NEW j \in 1..(m + 2)
        PROVE  p[j].do \notin {"clear", "course"}
    <3>1. CASE j = 1
      BY <2>5, <3>1
    <3>2. CASE j \in 2..(m + 1)
      <4>1. j - 1 \in 1..m /\ (j - 1) + 1 = j
        BY <3>2
      <4>2. p[(j - 1) + 1] = [do |-> "insert", act |-> r.list[j - 1]]
        BY <2>2, <2>3, <4>1
      <4>3. p[j].do = "insert"
        BY <4>1, <4>2
      <4> QED  BY <4>3
    <3>3. CASE j = m + 2
      BY <2>6, <3>3
    <3> QED  BY <3>1, <3>2, <3>3
  <2>8. Len(p) = m + 2
    BY <2>2, <2>3
  <2> QED  BY <2>4, <2>7, <2>8 DEF Plain
<1>3. CASE r.op = "applyTemplate"
  <2>1. PICK a \in Steps, b \in Steps, c \in Steps :
          a = [do |-> "START"] /\ b = [do |-> "template"] /\ c = [do |-> "COMMIT"]
    BY DEF Steps
  <2>2. PICK q : q = <<a>> \o <<b>>
    OBVIOUS
  <2>3. q \in Seq(Steps) /\ Len(q) = 2 /\ q[1] = a /\ q[2] = b
    BY <2>2
  <2>4. PICK p : p = q \o <<c>>
    OBVIOUS
  <2>5. Program(r) = p
    BY <1>3, <2>1, <2>2, <2>4 DEF Program, ApplyTemplate, Start, Commit
  <2>6. p = Append(q, c)
    BY <2>3, <2>4
  <2>7. /\ Append(q, c) \in Seq(Steps) /\ Len(Append(q, c)) = Len(q) + 1
        /\ \A i \in 1..Len(q) : Append(q, c)[i] = q[i]
        /\ Append(q, c)[Len(q) + 1] = c
    <3>1. q \in Seq(Steps) /\ c \in Steps
      BY <2>1, <2>3
    <3> QED  BY <3>1, AppendProperties
  <2>8. 2 + 1 = 3 /\ 1 \in 1..2 /\ 2 \in 1..2
    OBVIOUS
  <2>9. Len(p) = 3 /\ p[1] = a /\ p[2] = b /\ p[3] = c
    BY <2>3, <2>6, <2>7, <2>8
  <2>10. a.do = "START" /\ b.do = "template" /\ c.do = "COMMIT"
    BY <2>1
  <2>11. \A j \in 1..3 : j = 1 \/ j = 2 \/ j = 3
    OBVIOUS
  <2>12. Plain(p)
    BY <2>9, <2>10, <2>11 DEF Plain
  <2> QED  BY <2>5, <2>12
<1>4. CASE r.op = "setTerm"
  <2>1. PICK p : p = <<[do |-> "term", date |-> r.date], [do |-> "cache", date |-> r.date]>>
    OBVIOUS
  <2>2. Len(p) = 2 /\ p[1].do = "term" /\ p[2].do = "cache"
    BY <2>1
  <2>3. \A j \in 1..2 : j = 1 \/ j = 2
    OBVIOUS
  <2>4. Plain(p)
    BY <2>2, <2>3 DEF Plain
  <2> QED  BY <1>4, <2>1, <2>4 DEF Program, SetTerm
<1>5. CASE r.op \in {"move", "assign"}
  <2>1. PICK p : p = <<[do |-> r.op, req |-> r]>>
    OBVIOUS
  <2>2. Len(p) = 1 /\ p[1].do = r.op
    BY <2>1
  <2>3. \A j \in 1..1 : j = 1
    OBVIOUS
  <2>4. Plain(p)
    BY <1>5, <2>2, <2>3 DEF Plain
  <2> QED  BY <1>5, <2>1, <2>4 DEF Program
<1> QED  BY <1>1, <1>2, <1>3, <1>4, <1>5 DEF Requests

(* The rest of a handler that writes no timetable writes none.              *)
LEMMA PlainTail ==
  ASSUME NEW todo \in Seq(Steps), todo # <<>>, Plain(todo)
  PROVE  Plain(Tail(todo)) /\ todo[1].do \notin {"clear", "course"}
<1>1. PICK n \in Nat : n = Len(todo) /\ n >= 1
  BY FirstAndRest
<1>2. Len(Tail(todo)) = n - 1 /\ \A i \in 1..(n - 1) : Tail(todo)[i] = todo[i + 1]
  BY <1>1, FirstAndRest
<1>3. \A i \in 1..(n - 1) : i + 1 \in 1..n
  OBVIOUS
<1>4. 1 \in 1..n
  BY <1>1
<1> QED  BY <1>1, <1>2, <1>3, <1>4 DEF Plain

(* A rollback, and nothing, write none.                                     *)
LEMMA PlainEnds == Plain(<<>>) /\ Plain(Rollback) /\ Rollback[1].do = "ROLLBACK"
<1>1. Rollback[1].do = "ROLLBACK" /\ Len(Rollback) = 1
  BY DEF Rollback
<1>2. \A j \in 1..1 : j = 1
  OBVIOUS
<1>3. \A j \in 1..0 : FALSE
  OBVIOUS
<1>4. Len(<<>>) = 0
  OBVIOUS
<1> QED  BY <1>1, <1>2, <1>3, <1>4 DEF Plain

\* The timetables that are committed change by one upload, or do not.
Replaced ==
  \E r \in [user : Users, courses : Uploads, public : BOOLEAN] :
    /\ "broken" \notin {c.kind : c \in Range(r.courses)}
    /\ Committed'.templates = [Committed.templates EXCEPT ![Owner(r)] =
         {c.rule : c \in {x \in Range(r.courses) : x.kind = "good"}}]
Taken == Committed'.templates = Committed.templates \/ Replaced

(* START TRANSACTION, COMMIT and ROLLBACK of the only thread: only the end  *)
(* of an upload shows in the committed timetables.                          *)
LEMMA ControlOrderly ==
  ASSUME Types, NEW t \in Threads, Bracketed(t), Amid(t), Control(t)
  PROVE  Amid(t)' /\ Taken
<1>1. /\ t \in workers /\ job[t].todo # <<>>
      /\ job[t].todo[1].do \in {"START", "COMMIT", "ROLLBACK"}
      /\ job'[t].todo = Tail(job[t].todo)
      /\ undo' = (IF job[t].todo[1].do = "START" THEN db ELSE None)
      /\ db' = (IF job[t].todo[1].do = "ROLLBACK" THEN Committed ELSE db)
  BY ControlDoes
<1>2. PICK todo \in Seq(Steps) : todo = job[t].todo /\ todo # <<>>
  BY <1>1, Working DEF Shape
<1>3. undo = None <=> todo[1].do = "START"
  BY <1>1, <1>2 DEF Bracketed, InTransaction, Inside, Ends
<1>4. CASE todo[1].do = "START"
  <2>1. undo' = db /\ db' = db /\ undo = None /\ undo' # None
    BY <1>1, <1>2, <1>3, <1>4, NoneIsNoTable DEF Types
  <2>2. Committed' = Committed
    BY <2>1 DEF Committed
  <2>3. CASE Plain(todo)
    <3>1. Plain(Tail(todo))
      BY <1>2, <2>3, PlainTail
    <3> QED  BY <1>1, <1>2, <2>1, <2>2, <3>1 DEF Amid, Taken
  <2>4. ASSUME NEW r \in UploadRequests, NEW n \in 0..(Len(r.courses) + 2), Rest(todo, r, n)
        PROVE  Amid(t)' /\ Taken
    <3>1. Len(r.courses) \in Nat
      BY UploadCourses
    <3>2. n = 0 \/ n = 1 \/ n \in 2..(Len(r.courses) + 1) \/ n = Len(r.courses) + 2
      BY <3>1
    <3>3. n = 0
      BY <1>2, <1>4, <2>4, <3>2, RestIs
    <3>4. Rest(Tail(todo), r, 1) /\ 1 \in 0..(Len(r.courses) + 2)
      <4>1. Rest(Tail(todo), r, n + 1)
        BY <1>2, <2>4, RestIs
      <4> QED  BY <3>1, <3>3, <4>1
    <3>5. Progress(r, 1)'
      BY <2>1 DEF Progress
    <3> QED  BY <1>1, <1>2, <2>2, <3>4, <3>5 DEF Amid, Taken
  <2> QED  BY <1>2, <2>3, <2>4 DEF Amid
<1>5. CASE todo[1].do = "ROLLBACK"
  <2>1. undo' = None /\ db' = Committed
    BY <1>1, <1>2, <1>5
  <2>2. Committed' = Committed
    BY <2>1 DEF Committed
  <2>3. CASE Plain(todo)
    <3>1. Plain(Tail(todo))
      BY <1>2, <2>3, PlainTail
    <3> QED  BY <1>1, <1>2, <2>1, <2>2, <3>1 DEF Amid, Taken
  <2>4. ASSUME NEW r \in UploadRequests, NEW n \in 0..(Len(r.courses) + 2), Rest(todo, r, n)
        PROVE  FALSE
    <3>1. Len(r.courses) \in Nat
      BY UploadCourses
    <3>2. n = 0 \/ n = 1 \/ n \in 2..(Len(r.courses) + 1) \/ n = Len(r.courses) + 2
      BY <3>1
    <3> QED  BY <1>2, <1>5, <2>4, <3>2, RestIs
  <2> QED  BY <1>2, <2>3, <2>4 DEF Amid
<1>6. CASE todo[1].do = "COMMIT"
  <2>1. undo' = None /\ db' = db /\ undo # None /\ Committed' = db /\ Committed = undo
    BY <1>1, <1>2, <1>3, <1>6 DEF Committed
  <2>2. CASE Plain(todo) /\ (undo # None => todo[1].do = "ROLLBACK" \/ db.templates = undo.templates)
    <3>1. Plain(Tail(todo))
      BY <1>2, <2>2, PlainTail
    <3> QED  BY <1>1, <1>2, <1>6, <2>1, <2>2, <3>1 DEF Amid, Taken
  <2>3. ASSUME NEW r \in UploadRequests, NEW n \in 0..(Len(r.courses) + 2), Rest(todo, r, n), Progress(r, n)
        PROVE  Amid(t)' /\ Taken
    <3>1. Len(r.courses) \in Nat
      BY UploadCourses
    <3>2. n = 0 \/ n = 1 \/ n \in 2..(Len(r.courses) + 1) \/ n = Len(r.courses) + 2
      BY <3>1
    <3>3. n = Len(r.courses) + 2
      BY <1>2, <1>6, <2>3, <3>2, RestIs
    <3>4. Plain(Tail(todo))
      BY <1>2, <2>3, <3>3, RestIs
    <3>5. n >= 2 /\ n - 2 = Len(r.courses)
      BY <3>1, <3>3
    <3>6. db.templates = With(undo.templates, Owner(r), Kept(r, Len(r.courses)))
          /\ Unbroken(r, Len(r.courses))
      BY <2>3, <3>5 DEF Progress
    <3>7. PICK x \in [user : Users, courses : Uploads, public : BOOLEAN] :
            x.courses = r.courses /\ Owner(x) = Owner(r)
      <4>1. r.user \in Users /\ r.courses \in Uploads /\ r.public \in BOOLEAN
        BY DEF UploadRequests
      <4>2. PICK x : x = [user |-> r.user, courses |-> r.courses, public |-> r.public]
        OBVIOUS
      <4>3. x \in [user : Users, courses : Uploads, public : BOOLEAN]
        BY <4>1, <4>2
      <4>4. x.courses = r.courses /\ Owner(x) = Owner(r)
        BY <4>2 DEF Owner
      <4> QED  BY <4>3, <4>4
    <3>8. Replaced
      BY <2>1, <3>6, <3>7, KeptAll DEF Replaced, With
    <3> QED  BY <1>1, <1>2, <2>1, <3>4, <3>8 DEF Amid, Taken
  <2> QED  BY <1>2, <2>2, <2>3 DEF Amid
<1> QED  BY <1>1, <1>2, <1>4, <1>5, <1>6

(* A statement of the only thread: the courses of an upload are written to  *)
(* its owner one by one, and none of it is committed.                       *)
LEMMA StatementOrderly ==
  ASSUME Types, NEW t \in Threads, Bracketed(t), Amid(t), column, Statement(t)
  PROVE  Amid(t)' /\ Taken
<1>1. /\ t \in workers /\ job[t].todo # <<>> /\ undo' = undo
      /\ job[t].todo[1].do \in Inside \union Outside /\ ~Fails(job[t].todo[1])
      /\ db' = Run(job[t].todo[1], job[t].rules) /\ job'[t].todo = Tail(job[t].todo)
  BY StatementDoes
<1>2. PICK todo \in Seq(Steps) : todo = job[t].todo /\ todo # <<>>
  BY <1>1, Working DEF Shape
<1>3. PICK s \in Steps : s = todo[1]
  BY <1>2, FirstAndRest
<1>4. /\ s.do \in Inside \union Outside /\ ~Fails(s) /\ db' = Run(s, job[t].rules)
      /\ job'[t].todo = Tail(todo) /\ db \in Tables /\ job[t].rules \in SUBSET Rules
  BY <1>1, <1>2, <1>3, Working DEF Types
<1>5. undo = None <=> s.do \in Outside
  BY <1>2, <1>3, <1>4 DEF Bracketed, InTransaction, Inside, Outside, Ends
<1>6. s.do \notin {"clear", "course"} => db'.templates = db.templates
  BY <1>4, RunIs
<1>7. Taken
  <2>1. CASE undo = None
    <3>1. s.do \notin {"clear", "course"}
      BY <1>5, <2>1 DEF Outside
    <3>2. Committed' = db' /\ Committed = db
      BY <1>1, <2>1 DEF Committed
    <3> QED  BY <1>6, <3>1, <3>2 DEF Taken
  <2>2. CASE undo # None
    <3>1. Committed' = undo /\ Committed = undo
      BY <1>1, <2>2 DEF Committed
    <3> QED  BY <3>1 DEF Taken
  <2> QED  BY <2>1, <2>2
<1>8. CASE Plain(todo) /\ (undo # None => todo[1].do = "ROLLBACK" \/ db.templates = undo.templates)
  <2>1. Plain(Tail(todo)) /\ s.do \notin {"clear", "course"}
    BY <1>2, <1>3, <1>8, PlainTail
  <2>2. s.do # "ROLLBACK"
    BY <1>4 DEF Inside, Outside
  <2>3. undo' # None => db'.templates = undo'.templates
    BY <1>1, <1>3, <1>6, <1>8, <2>1, <2>2
  <2> QED  BY <1>4, <1>7, <2>1, <2>3 DEF Amid
<1>9. ASSUME NEW r \in UploadRequests, NEW n \in 0..(Len(r.courses) + 2), Rest(todo, r, n), Progress(r, n)
      PROVE  Amid(t)' /\ Taken
  <2>1. PICK m \in Nat : m = Len(r.courses)
    BY UploadCourses
  <2>2. n = 0 \/ n = 1 \/ n \in 2..(m + 1) \/ n = m + 2
    BY <2>1
  <2>3. n # 0 /\ n # m + 2
    BY <1>2, <1>3, <1>4, <1>9, <2>1, RestIs DEF Inside, Outside
  <2>4. n \in 1..(m + 1) /\ n + 1 \in 0..(m + 2) /\ n + 1 # 1 /\ n + 1 >= 2 /\ (n + 1) - 2 = n - 1
    BY <2>1, <2>2, <2>3
  <2>5. Rest(Tail(todo), r, n + 1)
    BY <1>2, <1>9, RestIs
  <2>6. s.do \in {"clear", "course"} /\ s.owner = Owner(r)
    BY <1>2, <1>3, <1>9, <2>1, <2>2, <2>3, RestIs
  <2>7. undo # None /\ undo.templates \in [Owners -> SUBSET Rules] /\ Owner(r) \in Owners
    <3>1. undo # None
      BY <1>5, <2>6 DEF Outside
    <3> QED  BY <3>1, UploadCourses DEF Types, Tables
  <2>8. db'.templates = With(undo.templates, Owner(r), Kept(r, n - 1)) /\ Unbroken(r, n - 1)
    <3>1. CASE n = 1
      <4>1. s.do = "clear" /\ db.templates = undo.templates /\ n - 1 = 0
        BY <1>2, <1>3, <1>9, <3>1, RestIs DEF Progress
      <4>2. db'.templates = With(db.templates, s.owner, {})
        BY <1>4, <4>1, RunWrites
      <4>3. Kept(r, 0) = {} /\ Unbroken(r, 0)
        BY KeptIs
      <4> QED  BY <2>6, <4>1, <4>2, <4>3
    <3>2. CASE n \in 2..(m + 1)
      <4>0. n \in 2..(Len(r.courses) + 1)
        BY <2>1, <3>2
      <4>1. s.do = "course" /\ s.course = r.courses[n - 1]
        BY <1>2, <1>3, <1>9, <4>0, RestIs
      <4>2. PICK k \in 1..m : k = n - 1 /\ k - 1 = n - 2
        BY <3>2
      <4>3. r.courses[k].kind = "good"
        BY <1>4, <4>1, <4>2 DEF Fails
      <4>4. Kept(r, k) = Kept(r, k - 1) \union {r.courses[k].rule}
        BY <2>1, <4>3, KeptIs
      <4>5. db.templates = With(undo.templates, Owner(r), Kept(r, k - 1)) /\ Unbroken(r, k - 1)
        BY <1>9, <3>2, <4>2 DEF Progress
      <4>6. Unbroken(r, k)
        <5>1. r.courses[k].kind # "broken"
          BY <4>3
        <5> QED  BY <2>1, <4>5, <5>1, KeptIs
      <4>7. db'.templates = With(db.templates, Owner(r), db.templates[Owner(r)] \union {r.courses[k].rule})
        BY <1>4, <2>6, <4>1, <4>2, RunWrites
      <4>8. db.templates[Owner(r)] = Kept(r, k - 1)
        BY <2>7, <4>5 DEF With
      <4>9. db'.templates = With(db.templates, Owner(r), Kept(r, k))
        BY <4>4, <4>7, <4>8
      <4>10. db'.templates = With(undo.templates, Owner(r), Kept(r, k))
        BY <2>7, <4>5, <4>9, WithIs
      <4> QED  BY <4>2, <4>6, <4>10
    <3> QED  BY <2>2, <2>3, <3>1, <3>2
  <2>9. Progress(r, n + 1)'
    <3>1. PICK k : k = n + 1 /\ k # 1 /\ k - 2 = n - 1
      BY <2>4
    <3>2. Progress(r, k)'
      BY <1>1, <2>8, <3>1 DEF Progress
    <3> QED  BY <3>1, <3>2
  <2> QED  BY <1>4, <1>7, <2>1, <2>4, <2>5, <2>9 DEF Amid
<1> QED  BY <1>2, <1>8, <1>9 DEF Amid

(* A statement that fails: a course that is refused is passed over, broken  *)
(* JSON makes the handler undo what it has written.                         *)
LEMMA ErrorOrderly ==
  ASSUME Types, NEW t \in Threads, Bracketed(t), Amid(t), column, Error(t)
  PROVE  Amid(t)' /\ Taken
<1>1. /\ t \in workers /\ job[t].todo # <<>> /\ undo' = undo /\ db' = db
      /\ Fails(job[t].todo[1]) \/ job[t].todo[1].do \in {"term", "template"}
      /\ job'[t].todo = AfterError(job[t].todo)
  BY ErrorDoes
<1>2. PICK todo \in Seq(Steps) : todo = job[t].todo /\ todo # <<>> /\ Shape(todo)
  BY <1>1, Working DEF Shape
<1>3. PICK s \in Steps : s = todo[1] /\ Head(todo) = s
  BY <1>2, FirstAndRest
<1>4. PICK rest : rest = job'[t].todo /\ rest = AfterError(todo)
  BY <1>1, <1>2
<1>5. /\ Fails(s) \/ s.do \in {"term", "template"}
      /\ s.do \in {"insert", "course", "rules", "assign", "term", "template"}
  <2>1. Fails(s) \/ s.do \in {"term", "template"}
    BY <1>1, <1>2, <1>3
  <2>2. Fails(s) => s.do \in {"insert", "course", "rules", "assign"}
    BY DEF Fails
  <2> QED  BY <2>1, <2>2
<1>6. Taken
  BY <1>1 DEF Taken, Committed
<1>7. CASE Plain(todo) /\ (undo # None => todo[1].do = "ROLLBACK" \/ db.templates = undo.templates)
  <2>1. s.do # "course"
    BY <1>2, <1>3, <1>7, PlainTail
  <2>2. Plain(rest)
    BY <1>2, <1>3, <1>4, <2>1, AfterErrorIs, PlainEnds
  <2>3. s.do # "ROLLBACK"
    BY <1>5
  <2>4. undo' # None => db'.templates = undo'.templates
    BY <1>1, <1>3, <1>7, <2>3
  <2> QED  BY <1>4, <1>6, <2>2, <2>4 DEF Amid
<1>8. ASSUME NEW r \in UploadRequests, NEW n \in 0..(Len(r.courses) + 2), Rest(todo, r, n), Progress(r, n)
      PROVE  Amid(t)' /\ Taken
  <2>1. PICK m \in Nat : m = Len(r.courses)
    BY UploadCourses
  <2>2. n = 0 \/ n = 1 \/ n \in 2..(m + 1) \/ n = m + 2
    BY <2>1
  <2>3. n \in 2..(m + 1)
    BY <1>2, <1>3, <1>5, <1>8, <2>1, <2>2, RestIs
  <2>4. s.do = "course" /\ s.course = r.courses[n - 1] /\ Rest(Tail(todo), r, n + 1)
    BY <1>2, <1>3, <1>8, <2>1, <2>3, RestIs
  <2>5. PICK k \in 1..m : k = n - 1 /\ k - 1 = n - 2 /\ k = (n + 1) - 2 /\ n >= 2
    BY <2>3
  <2>6. r.courses[k].kind # "good"
    BY <1>5, <2>4, <2>5 DEF Fails
  <2>7. CASE s.course.kind = "broken"
    <3>1. rest = Rollback
      BY <1>3, <1>4, <2>4, <2>7 DEF AfterError
    <3>2. Plain(rest) /\ rest[1].do = "ROLLBACK"
      BY <3>1, PlainEnds
    <3> QED  BY <1>4, <1>6, <3>2 DEF Amid
  <2>8. CASE s.course.kind # "broken"
    <3>1. rest = Tail(todo)
      BY <1>3, <1>4, <2>4, <2>8 DEF AfterError
    <3>2. Kept(r, k) = Kept(r, k - 1)
      BY <2>1, <2>6, KeptIs
    <3>3. db.templates = With(undo.templates, Owner(r), Kept(r, k - 1)) /\ Unbroken(r, k - 1)
      BY <1>8, <2>5 DEF Progress
    <3>4. Unbroken(r, k)
      <4>1. r.courses[k].kind # "broken"
        BY <2>4, <2>5, <2>8
      <4> QED  BY <2>1, <3>3, <4>1, KeptIs
    <3>5. Progress(r, n + 1)'
      <4>1. PICK l : l = n + 1 /\ l # 1 /\ l - 2 = k
        BY <2>5
      <4>2. Progress(r, l)'
        BY <1>1, <3>2, <3>3, <3>4, <4>1 DEF Progress
      <4> QED  BY <4>1, <4>2
    <3>6. n + 1 \in 0..(m + 2)
      BY <2>3
    <3> QED  BY <1>4, <1>6, <2>1, <2>4, <3>1, <3>5, <3>6 DEF Amid
  <2> QED  BY <2>7, <2>8
<1> QED  BY <1>2, <1>7, <1>8 DEF Amid

(* A request is taken: no transaction is open then.                         *)
LEMMA ReceiveOrderly ==
  ASSUME Types, NEW t \in Threads, Bracketed(t), NEW r \in Requests, Receive(t, r)
  PROVE  Amid(t)' /\ Taken
<1>1. job[t].todo = <<>> /\ job'[t].todo = Program(r) /\ undo' = undo /\ db' = db
  BY ReceiveDoes
<1>2. undo' = None
  BY <1>1 DEF Bracketed, InTransaction
<1>3. Taken
  BY <1>1 DEF Taken, Committed
<1>4. CASE Plain(Program(r))
  BY <1>1, <1>2, <1>3, <1>4 DEF Amid
<1>5. CASE r \in UploadRequests /\ Rest(Program(r), r, 0)
  <2>1. 0 \in 0..(Len(r.courses) + 2)
    BY <1>5, UploadCourses
  <2>2. Progress(r, 0)'
    BY DEF Progress
  <2> QED  BY <1>1, <1>3, <1>5, <2>1, <2>2 DEF Amid
<1> QED  BY <1>4, <1>5, ProgramPlain

(* A restart undoes what is not committed.                                  *)
LEMMA CrashOrderly ==
  ASSUME Types, NEW t \in Threads, Crash
  PROVE  Amid(t)' /\ Taken
<1>1. db' = Committed /\ undo' = None /\ job'[t].todo = <<>>
  BY CrashDoes
<1>2. Taken
  BY <1>1 DEF Taken, Committed
<1> QED  BY <1>1, <1>2, PlainEnds DEF Amid

(* The first states.                                                        *)
LEMMA InitOrderly == Init => Orderly
<1> SUFFICES ASSUME Init, NEW t \in Threads
             PROVE  Amid(t)
  BY DEF Orderly
<1>1. job[t].todo = <<>> /\ undo = None
  BY DEF Init, Idle
<1> QED  BY <1>1, PlainEnds DEF Amid

(* Every step.                                                              *)
LEMMA StepOrderly ==
  ASSUME Types, Alone, Orderly, [Next]_vars
  PROVE  Orderly' /\ (Sole /\ column => Taken)
<1>0. column' = column /\ workers' = workers
  BY DEF Next, Control, Statement, Error, Receive, Crash, vars
<1> SUFFICES ASSUME column, NEW t \in Threads, workers = {t}
             PROVE  Amid(t)' /\ Taken
  <2>1. Orderly'
    BY <1>0 DEF Orderly
  <2>2. Sole => \E t \in Threads : workers = {t}
    BY SoleIs
  <2> QED  BY <2>1, <2>2
<1>1. Bracketed(t) /\ Amid(t)
  BY DEF Alone, Solitary, Orderly
<1>2. CASE UNCHANGED vars
  <2>1. db' = db /\ undo' = undo /\ job' = job
    BY <1>2 DEF vars
  <2> QED  BY <1>1, <2>1 DEF Amid, Progress, Taken, Committed
<1>3. ASSUME NEW x \in Threads, Control(x)
      PROVE  Amid(t)' /\ Taken
  <2>1. x = t
    BY <1>3, ControlDoes
  <2> QED  BY <1>1, <1>3, <2>1, ControlOrderly
<1>4. ASSUME NEW x \in Threads, Statement(x)
      PROVE  Amid(t)' /\ Taken
  <2>1. x = t
    BY <1>4, StatementDoes
  <2> QED  BY <1>1, <1>4, <2>1, StatementOrderly
<1>5. ASSUME NEW x \in Threads, Error(x)
      PROVE  Amid(t)' /\ Taken
  <2>1. x = t
    BY <1>5, ErrorDoes
  <2> QED  BY <1>1, <1>5, <2>1, ErrorOrderly
<1>6. ASSUME NEW x \in Threads, NEW r \in Requests, Receive(x, r)
      PROVE  Amid(t)' /\ Taken
  <2>1. x = t
    BY <1>6, ReceiveDoes
  <2> QED  BY <1>1, <1>6, <2>1, ReceiveOrderly
<1>7. ASSUME Crash
      PROVE  Amid(t)' /\ Taken
  BY <1>7, CrashOrderly
<1> QED  BY <1>2, <1>3, <1>4, <1>5, <1>6, <1>7 DEF Next

(* With one IO thread the committed timetables change only by an upload     *)
(* that takes the place of the whole timetable it is for, and of no other,  *)
(* with the courses the table accepts; broken JSON or a restart in between  *)
(* changes nothing.                                                         *)
THEOREM UploadsTakeThePlace == Spec => UploadedIsValid
<1>1. Init => Types /\ Alone /\ Orderly
  BY InitTypes, InitAlone, InitOrderly
<1>2. Types /\ Alone /\ Orderly /\ [Next]_vars => (Types /\ Alone /\ Orderly)'
  BY StepKeeps, StepOrderly
<1>3. Types /\ Alone /\ Orderly /\ [Next]_vars => [Sole /\ column => Replaced]_(Committed.templates)
  <2>1. SUFFICES ASSUME Types, Alone, Orderly, [Next]_vars, Sole, column
                 PROVE  Replaced \/ Committed'.templates = Committed.templates
    OBVIOUS
  <2> QED  BY <2>1, StepOrderly DEF Taken
<1>4. UploadedIsValid <=> [][Sole /\ column => Replaced]_(Committed.templates)
  BY DEF UploadedIsValid, Replaced
<1> QED  BY <1>1, <1>2, <1>3, <1>4, PTL DEF Spec
=============================================================================
