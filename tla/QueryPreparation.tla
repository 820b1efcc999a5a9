-------------------------- MODULE QueryPreparation --------------------------
(***************************************************************************)
(* What stands between a query request and the database: the registry      *)
(* resolves each filter and normalises its value (registry.go), Prepare    *)
(* bounds the page, fingerprints the filters and opens the cursor          *)
(* (prepare.go, cursor.go).                                                *)
(*                                                                         *)
(* A request's value is JSON: a record whose form is "text", "list",       *)
(* "object", "null", or "other" for a number or a boolean.  A text is an   *)
(* integer, and Canonical says what it stands for as a string, an IP       *)
(* address, a UUID or a timestamp: net.ParseIP(...).String(), the lower    *)
(* case, the instant in UTC, or Invalid.  A normalised value is the        *)
(* sequence of its parts.  A fingerprint is the bag that it is a hash of,  *)
(* and a cursor the record that its base64 text encodes.                   *)
(***************************************************************************)
EXTENDS Integers, Sequences, FiniteSets

Seqs == INSTANCE SequencesExt

CONSTANTS
  Absent,        \* a bound, a value or a cursor that is not there
  Invalid,       \* what an error returns
  Canonical,     \* kind -> text -> its canonical value, or Invalid
  ZeroTime,      \* the zero time.Time
  DefaultLimit, MaxLimit

TextKinds == {"string", "ip", "uuid", "timestamp"}

(* Every text a client may send. *)
Texts == DOMAIN Canonical["string"]

Scalar == [form : {"text"}, text : Texts] \cup [form : {"null", "other"}]

(* A list or an object inside of a list or an object is an "other". *)
IsJSON(raw) ==
  \/ raw \in Scalar
  \/ raw.form = "list" /\ raw.items \in Seq(Scalar)
  \/ raw.form = "object" /\ \A name \in DOMAIN raw.fields : raw.fields[name] \in Scalar

ASSUME PreparationAssumption ==
  /\ Invalid \notin Int \cup Seq(Int \cup {Absent}) \cup {Absent} /\ Absent \notin Int
  /\ DOMAIN Canonical = TextKinds
  /\ Texts \subseteq Int
  /\ \A kind \in TextKinds : Canonical[kind] \in [Texts -> Int \cup {Invalid}]
  /\ MaxLimit \in Int /\ DefaultLimit \in 1..MaxLimit

(* A finite set in the order Before.  Unlike SetToSortSeq this can be      *)
(* reasoned about: the SortSeq of module TLC has no definition.            *)
InOrder(S, Before(_,_)) ==
  CHOOSE q \in [1..Cardinality(S) -> S] :
    \A i, j \in DOMAIN q : i < j => Before(q[i], q[j])

TextBefore(a, b) == a < b
-----------------------------------------------------------------------------
(***************************** normalisation *******************************)

(* Slip: the spelling is kept as it is. *)
KeepText(kind, raw) ==
  IF raw.form # "text" \/ Canonical[kind][raw.text] = Invalid THEN Invalid ELSE raw.text

NormalizeText(kind, raw) ==
  IF raw.form # "text" THEN Invalid ELSE Canonical[kind][raw.text]

(* Slip: the texts are neither sorted nor compared. *)
NormalizeListAsIs(kind, raw) ==
  IF raw.form # "list" \/ raw.items = <<>> THEN Invalid
  ELSE LET values == [i \in DOMAIN raw.items |-> NormalizeText(kind, raw.items[i])] IN
       IF Invalid \in Seqs!ToSet(values) THEN Invalid ELSE values

(* Sorted, each text once; a list may not be empty. *)
NormalizeList(kind, raw) ==
  IF raw.form # "list" \/ raw.items = <<>> THEN Invalid
  ELSE LET values == {NormalizeText(kind, raw.items[i]) : i \in DOMAIN raw.items} IN
       IF Invalid \in values THEN Invalid ELSE InOrder(values, TextBefore)

NormalizeTimestamp(raw) ==
  LET at == NormalizeText("timestamp", raw) IN IF at = ZeroTime THEN Invalid ELSE at

Bound(fields, name) ==
  IF name \notin DOMAIN fields THEN Absent
  ELSE IF fields[name].form = "null" THEN Absent
  ELSE NormalizeTimestamp(fields[name])

ValidInterval(from, to) ==
  /\ Invalid \notin {from, to}
  /\ from # Absent \/ to # Absent
  /\ from # Absent /\ to # Absent => from < to

NormalizeInterval(raw) ==
  IF raw.form # "object" THEN Invalid
  ELSE LET from == Bound(raw.fields, "from")
           to   == Bound(raw.fields, "to") IN
       IF DOMAIN raw.fields \subseteq {"from", "to"} /\ ValidInterval(from, to)
       THEN <<from, to>> ELSE Invalid

One(value) == IF value = Invalid THEN Invalid ELSE <<value>>

NormalizeValue(kind, raw) ==
  CASE kind \in {"string", "ip", "uuid"} -> One(NormalizeText(kind, raw))
    [] kind = "string_list" -> NormalizeList("string", raw)
    [] kind = "ip_list"     -> NormalizeList("ip", raw)
    [] kind = "uuid_list"   -> NormalizeList("uuid", raw)
    [] kind = "timestamp"   -> One(NormalizeTimestamp(raw))
    [] kind = "interval"    -> NormalizeInterval(raw)
-----------------------------------------------------------------------------
(******************************** registry *********************************)

(* The kind of value that a field and an operator take; no other pair of   *)
(* them is supported.                                                      *)
Registry == [
  sessionId |-> [eq |-> "uuid", in |-> "uuid_list"],
  tenantId  |-> [eq |-> "string", in |-> "string_list"],
  username  |-> [eq |-> "string", in |-> "string_list"],
  ip        |-> [eq |-> "ip", in |-> "ip_list"],
  tags      |-> [containsAny |-> "string_list", containsAll |-> "string_list"],
  activity  |-> [at |-> "timestamp", overlaps |-> "interval"],
  loginTime |-> [eq |-> "timestamp", gt |-> "timestamp", gte |-> "timestamp",
                 lt |-> "timestamp", lte |-> "timestamp", between |-> "interval"]]

ScopeOf(field) == IF field \in {"tags", "activity"} THEN "state" ELSE "session"

ResolvedFilter ==
  [field : DOMAIN Registry, operator : UNION {DOMAIN Registry[field] : field \in DOMAIN Registry},
   scope : {"session", "state"}, value : Seq(Int \cup {Absent})]

ResolveFilter(f) ==
  IF f.field \notin DOMAIN Registry THEN Invalid
  ELSE IF f.operator \notin DOMAIN Registry[f.field] THEN Invalid
  ELSE LET value == NormalizeValue(Registry[f.field][f.operator], f.value) IN
       IF value = Invalid THEN Invalid
       ELSE [field |-> f.field, operator |-> f.operator, scope |-> ScopeOf(f.field),
             value |-> value]

Resolve(filters) ==
  LET resolved == [i \in DOMAIN filters |-> ResolveFilter(filters[i])] IN
  IF Invalid \in Seqs!ToSet(resolved) THEN Invalid ELSE resolved
-----------------------------------------------------------------------------
(******************************** preparing ********************************)

(* Slip: the operators are left out. *)
FingerprintOfValues(filters) ==
  Seqs!ToBag([i \in DOMAIN filters |->
    [field |-> filters[i].field, operator |-> "any", value |-> filters[i].value]])

(* The filters in any order, each as often as it is given. *)
Fingerprint(filters) ==
  Seqs!ToBag([i \in DOMAIN filters |->
    [field |-> filters[i].field, operator |-> filters[i].operator, value |-> filters[i].value]])

CursorVersion == 1

CursorIsComplete(c) ==
  /\ c.storage # Absent /\ c.fingerprint # Absent /\ c.evaluatedAt \notin {Absent, ZeroTime}
  /\ \A part \in DOMAIN c.after : c.after[part] # Absent
  /\ c.after.loginAt # ZeroTime

EncodeCursor(c) ==
  IF CursorIsComplete(c) THEN [version |-> CursorVersion, payload |-> c] ELSE Invalid

(* A text that is no cursor at all is Invalid to begin with. *)
DecodeCursor(encoded, storage, fingerprint) ==
  IF encoded = Invalid THEN Invalid
  ELSE IF /\ encoded.version = CursorVersion
          /\ CursorIsComplete(encoded.payload)
          /\ encoded.payload.storage = storage
          /\ encoded.payload.fingerprint = fingerprint
       THEN encoded.payload
       ELSE Invalid

Limit(requested) == IF requested = 0 THEN DefaultLimit ELSE requested

(* Prepare without a cursor, and with one: a first page is evaluated at    *)
(* the service's clock, a later one at the time in its cursor.             *)
Prepare(filters, limit, cursor, evaluatedAt, storage) ==
  LET resolved == Resolve(filters)
      decoded  == DecodeCursor(cursor, storage, Fingerprint(resolved))
      prepared(at, after) == [filters |-> resolved, limit |-> Limit(limit),
                              evaluatedAt |-> at, after |-> after]
  IN  IF storage = Absent \/ Limit(limit) \notin 1..MaxLimit \/ resolved = Invalid
        THEN Invalid
      ELSE IF cursor = Absent
        THEN IF evaluatedAt = ZeroTime THEN Invalid ELSE prepared(evaluatedAt, Absent)
      ELSE IF decoded = Invalid THEN Invalid
      ELSE prepared(decoded.evaluatedAt, decoded.after)
=============================================================================
