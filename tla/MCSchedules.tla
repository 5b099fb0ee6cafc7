------------------------------ MODULE MCSchedules ------------------------------
(* One or two IO threads, a term of three weeks of which two are rebuilt.   *)
EXTENDS Schedules, TLC

Rule(hours, type) == [day |-> 2, hours |-> hours, first |-> 1, last |-> 2, type |-> type]
Good(rule) == [kind |-> "good", rule |-> rule]
Bad(kind) == [kind |-> kind, rule |-> Rule({}, 0)]

CONSTANTS t1, t2
MCThreads == {t1, t2}
Symmetry == Permutations(MCThreads)

MCUploads == {<<Good(Rule({1, 2}, 0)), Bad("refused"), Good(Rule({3, 4}, 1))>>,
              <<Good(Rule({3, 4}, 2))>>,
              <<Good(Rule({7, 8}, 0)), Bad("broken")>>}

Morning(date) == [date |-> date, from |-> 510, to |-> 630]
Noon(date) == [date |-> date, from |-> 630, to |-> 720]
MCPlans == {<<Morning(9), Morning(16)>>, <<Noon(16), Noon(31)>>, <<Noon(9)>>}

MCSummers == {{}} \union {a..b : a \in {8, 12, 16}, b \in {14, 20, 45}}
MCTimes == {15 * q : q \in 24..96} \union {479, 481, 719}
=============================================================================
