--------------------------- MODULE Configuration ---------------------------
(***************************************************************************)
(* What the process makes of its environment: FromLookup and Validate of   *)
(* internal/config, and what the two components that take options from the *)
(* configuration, the Kafka source and the event processor, demand of them *)
(* in turn.  An environment gives each variable its trimmed value: Unset   *)
(* when it is missing or blank, Malformed when a number or a duration does *)
(* not parse, a number (of milliseconds, for a duration), or a text.       *)
(***************************************************************************)
EXTENDS Integers, Sequences

CONSTANTS
  Environments,  \* records: variable -> raw value
  Unset,         \* also a blank part of a comma-separated list
  Malformed,
  Text,          \* any text that is not blank
  NoConfig

Numbers ==
  {"EVENT_RETRY_ATTEMPTS", "KAFKA_MAX_POLL_RECORDS", "EVENT_RETRY_DELAY",
   "STARTUP_TIMEOUT", "SHUTDOWN_TIMEOUT"}
Texts == {"HTTP_ADDR", "KAFKA_TOPIC", "KAFKA_CONSUMER_GROUP", "KAFKA_CLIENT_ID"}

ASSUME ConfigurationAssumption ==
  \A env \in Environments :
    /\ DOMAIN env = Numbers \cup Texts \cup {"KAFKA_BROKERS"}
    /\ \A v \in Numbers : env[v] \in Int \cup {Unset, Malformed}
    /\ \A v \in Texts : env[v] \in {Unset, Text}
    /\ env.KAFKA_BROKERS \in (Seq({Unset, Text}) \ {<<>>}) \cup {Unset}

ValueOrDefault(raw, fallback) == IF raw = Unset THEN fallback ELSE raw

(* The Config that the environment stands for, defaults filled in. *)
Lookup(env) ==
  [addr     |-> ValueOrDefault(env.HTTP_ADDR, Text),
   brokers  |-> ValueOrDefault(env.KAFKA_BROKERS, <<Text>>),
   topic    |-> ValueOrDefault(env.KAFKA_TOPIC, Text),
   group    |-> ValueOrDefault(env.KAFKA_CONSUMER_GROUP, Text),
   client   |-> ValueOrDefault(env.KAFKA_CLIENT_ID, Text),
   attempts |-> ValueOrDefault(env.EVENT_RETRY_ATTEMPTS, 3),
   maxPoll  |-> ValueOrDefault(env.KAFKA_MAX_POLL_RECORDS, 128),
   delay    |-> ValueOrDefault(env.EVENT_RETRY_DELAY, 100),
   startup  |-> ValueOrDefault(env.STARTUP_TIMEOUT, 10000),
   shutdown |-> ValueOrDefault(env.SHUTDOWN_TIMEOUT, 10000)]

NoneBlank(parts) == \A i \in DOMAIN parts : parts[i] # Unset

(* Slip: a trailing comma is let through. *)
ValidateKafkaLoosely(c) ==
  /\ c.brokers[1] # Unset
  /\ c.topic # Unset /\ c.group # Unset /\ c.client # Unset
  /\ c.maxPoll \in 1..10000

ValidateKafka(c) ==
  /\ NoneBlank(c.brokers)
  /\ c.topic # Unset /\ c.group # Unset /\ c.client # Unset
  /\ c.maxPoll \in 1..10000

Validate(c) ==
  /\ c.addr # Unset
  /\ ValidateKafka(c)
  /\ c.attempts \in 1..100
  /\ c.delay > 0
  /\ c.startup > 0 /\ c.shutdown > 0

(* FromLookup: a variable that does not parse fails before the validation. *)
FromLookup(env) ==
  LET c == Lookup(env) IN
  IF (\E v \in Numbers : env[v] = Malformed) \/ ~Validate(c) THEN NoConfig ELSE c

(* validateOptions of the Kafka source, on what newKafkaSource passes it. *)
SourceAccepts(c) ==
  /\ c.brokers # <<>>
  /\ NoneBlank(c.brokers)
  /\ c.topic # Unset /\ c.group # Unset /\ c.client # Unset
  /\ c.maxPoll > 0

(* The checks of eventstream.NewProcessor. *)
ProcessorAccepts(c) == c.attempts > 0 /\ c.delay >= 0
=============================================================================
