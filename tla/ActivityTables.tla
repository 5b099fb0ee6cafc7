---------------------------- MODULE ActivityTables ----------------------------
(***************************************************************************)
(* The tables behind activities (sql/qinyun_all.sql): users, activities,    *)
(* activity_applications and activity_members, with their keys; and for     *)
(* each request of the clients what it should do to them as a whole.        *)
(*                                                                          *)
(* A row of the last two is named by its pair of activity and user, which   *)
(* is a unique key of both.                                                 *)
(***************************************************************************)
EXTENDS Integers, FiniteSets, Functions

CONSTANTS Users, Acts   \* ids; an id is never given to a second row

Pairs == Acts \X Users

Database == [users   : SUBSET Users,
             status  : [Acts -> {"none", "recruiting", "settled"}],
             cap     : [Acts -> Nat],      \* max_participants, 0 for no limit
             apps    : [Pairs -> {"none", "pending", "approved", "rejected"}],
             members : [Pairs -> {"none", "assigned", "applied"}],
             signed  : SUBSET Pairs]       \* sign_in_status is 1

-----------------------------------------------------------------------------
(* Rows and keys.                                                           *)

Exists(d, a) == d.status[a] # "none"
IsMember(d, a, u) == d.members[a, u] # "none"
MembersOf(d, a) == {u \in Users : IsMember(d, a, u)}

\* The foreign keys of activity_members.
CanJoin(d, a, u) == Exists(d, a) /\ u \in d.users

Join(d, a, u, type) == [d EXCEPT !.members[<<a, u>>] = type]

\* ON DELETE CASCADE takes the members along; applications have no foreign key.
Without(d, gone) ==
  [d EXCEPT !.members = [p \in Pairs |-> IF p \in gone THEN "none" ELSE @[p]],
            !.signed = @ \ gone]

DeleteAct(d, a) == Without([d EXCEPT !.status[a] = "none"], {a} \X Users)
MutDeleteUsers(d, us) == [d EXCEPT !.users = @ \ us]   \* no cascade
DeleteUsers(d, us) == Without([d EXCEPT !.users = @ \ us], Acts \X us)

\* What handleApplyActivity and handleLeaveActivity ask before they write.
MayApply(d, a) == /\ d.status[a] = "recruiting"
                  /\ d.cap[a] = 0 \/ Cardinality(MembersOf(d, a)) < d.cap[a]
MayLeave(d, a) == d.status[a] = "recruiting"

\* A duration out of the range of its column is an error if a row takes it.
CanSign(d, a, r) == r.ok \/ ~IsMember(d, a, r.user)
Sign(d, a, u) ==
  IF IsMember(d, a, u) THEN [d EXCEPT !.signed = @ \union {<<a, u>>}] ELSE d

-----------------------------------------------------------------------------
(* Requests as a whole: all of it, or nothing. made are the ids given to    *)
(* the activities of an "add".                                              *)

Approved(d, a, u) ==
  IF CanJoin(d, a, u) /\ ~IsMember(d, a, u) THEN Join(d, a, u, "applied") ELSE d

Effect(d, r, made) ==
  CASE r.op = "apply" ->
         IF MayApply(d, r.act) THEN [d EXCEPT !.apps[<<r.act, r.user>>] = "pending"] ELSE d
    [] r.op = "approve" ->
         IF d.apps[r.act, r.user] = "none" THEN d
         ELSE LET e == [d EXCEPT !.apps[<<r.act, r.user>>] = r.verdict] IN
              IF r.verdict = "approved" THEN Approved(e, r.act, r.user) ELSE e
    [] r.op = "assign" ->
         IF \A u \in Range(r.users) : CanJoin(d, r.act, u)
         THEN [d EXCEPT !.members = [p \in Pairs |->
                IF p \in {r.act} \X Range(r.users) THEN "assigned" ELSE @[p]]]
         ELSE d
    [] r.op = "confirm" ->
         IF \A u \in Range(r.users) : CanJoin(d, r.act, u)
         THEN [d EXCEPT !.members = [p \in Pairs |->
                IF p \in {r.act} \X Range(r.users) /\ @[p] = "none"
                THEN "assigned" ELSE @[p]]]
         ELSE d
    [] r.op = "settle" ->
         IF \A x \in Range(r.results) : CanSign(d, r.act, x)
         THEN [d EXCEPT
                !.signed = @ \union {<<r.act, x.user>> : x \in
                             {y \in Range(r.results) : IsMember(d, r.act, y.user)}},
                !.status[r.act] = IF @ = "none" THEN @ ELSE "settled"]
         ELSE d
    [] r.op = "add" ->
         IF \A w \in Range(r.weeks) : w
         THEN [d EXCEPT !.status = [a \in Acts |-> IF a \in made THEN "recruiting" ELSE @[a]],
                        !.cap = [a \in Acts |-> IF a \in made THEN r.cap ELSE @[a]]]
         ELSE d
    [] r.op = "update" ->
         IF Exists(d, r.act) THEN [d EXCEPT !.cap[r.act] = r.cap] ELSE d
    [] r.op = "leave" ->
         IF MayLeave(d, r.act) THEN Without(d, {<<r.act, r.user>>}) ELSE d
    [] r.op = "deleteActivity" -> DeleteAct(d, r.act)
    [] r.op \in {"deleteMember", "batchDelete"} -> DeleteUsers(d, r.users)
    [] r.op = "register" -> [d EXCEPT !.users = @ \union r.users]
=============================================================================
