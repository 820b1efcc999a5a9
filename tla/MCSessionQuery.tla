--------------------------- MODULE MCSessionQuery ---------------------------
(* Instances of SessionQuery for TLC. *)
EXTENDS SessionQuery, TLC

(* Two sessions of one user, and one of a user of another tenant. *)
KeyOne == [tenant |-> 1, username |-> 2, ip |-> 1]
KeyTwo == [tenant |-> 2, username |-> 1, ip |-> 1]

KeysOne == {KeyOne}
KeysTwo == {KeyOne, KeyTwo}

TagsNone == {}
TagsOne  == {{1}}

(* The texts 1 and 2 are canonical; 3 is another spelling of 1, as an IP,  *)
(* a UUID or a timestamp, and 4 stands for none of these; 5 is blank; the  *)
(* timestamp 0 is 0 and 6 is the zero time.                                *)
Strings    == [t \in 0..6 |-> IF t = 5 THEN Invalid ELSE t]
Spelled    == [t \in 0..6 |-> CASE t \in {1, 3} -> 1 [] t = 2 -> 2 [] OTHER -> Invalid]
Timestamps == [t \in 0..6 |->
  CASE t = 0 -> 0 [] t \in {1, 3} -> 1 [] t = 6 -> ZeroTime [] OTHER -> Invalid]

MCCanonical ==
  [string |-> Strings, ip |-> Spelled, uuid |-> Spelled, timestamp |-> Timestamps]

AText(t) == [form |-> "text", text |-> t]
AList(t) == [form |-> "list", items |-> <<AText(t), AText(t)>>]
Between(from, to) == [form |-> "object", fields |-> [from |-> AText(from), to |-> AText(to)]]
Since(from) == [form |-> "object", fields |-> [from |-> AText(from), to |-> [form |-> "null"]]]

Filter(field, operator, value) == [field |-> field, operator |-> operator, value |-> value]

AboutLogins(operator) ==
  <<Filter("loginTime", operator, AText(0)), Filter("tags", "containsAll", AList(1)),
    Filter("activity", "at", AText(3))>>

(* All sessions open now; those of an address that carried a tag in a      *)
(* range of time; those that carried it at an instant and logged in early, *)
(* or late; and what is refused.                                           *)
FilteredQueries ==
  {<<>>,
   <<Filter("loginTime", "between", Since(0)), Filter("ip", "eq", AText(3)),
     Filter("tags", "containsAny", AList(1)), Filter("activity", "overlaps", Between(0, 3))>>,
   AboutLogins("lte"), AboutLogins("gte"),
   <<Filter("loginTime", "between", Between(1, 3))>>,
   <<Filter("ip", "in", AList(4))>>, <<Filter("tags", "eq", AText(1))>>,
   <<Filter("activity", "at", AText(6))>>}

NoQueries == {}

EventIDSymmetry == Permutations(EventIDs)
=============================================================================
