----------------------------- MODULE MCRuntime -----------------------------
(* Environments that differ from the defaults in at most two variables. *)
EXTENDS Runtime

Defaults == [v \in Numbers \cup Texts \cup {"KAFKA_BROKERS"} |-> Unset]

Brokers == {<<Text>>, <<Text, Text>>, <<Text, Unset>>, <<Unset, Text>>, <<Unset, Unset>>}

Variations ==
  ({"EVENT_RETRY_ATTEMPTS"} \X {Malformed, -1, 0, 1, 100, 101}) \cup
  ({"KAFKA_MAX_POLL_RECORDS"} \X {Malformed, 0, 1, 10000, 10001}) \cup
  ({"EVENT_RETRY_DELAY", "STARTUP_TIMEOUT", "SHUTDOWN_TIMEOUT"} \X {Malformed, -1, 0, 1}) \cup
  (Texts \X {Text}) \cup ({"KAFKA_BROKERS"} \X Brokers)

MCEnvironments ==
  {[Defaults EXCEPT ![v[1]] = v[2], ![w[1]] = w[2]] : v, w \in Variations}
=============================================================================
