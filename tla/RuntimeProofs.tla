--------------------------- MODULE RuntimeProofs ---------------------------
(***************************************************************************)
(* Theorems of Runtime, for any environments, partitions and requests,     *)
(* with or without failures: what a process has closed, answered and       *)
(* reported by the time it ends, whatever it was doing when it was told to.*)
(***************************************************************************)
EXTENDS Runtime, TLAPS

Starting == {"load", "open", "source", "processor", "serve"}
Closing  == {"closeRepository", "return", "exited"}
Drained  == {"closeSource", "wait"} \cup Closing

(* What main has opened, started and closed by the time it is where it is. *)
StageOK ==
  /\ main \in {"load", "open"} => repo = "none"
  /\ main \in {"source", "processor", "serve", "running", "shutdown", "drain",
               "closeSource", "wait"} => repo = "open"
  /\ main = "closeRepository" => repo \in {"open", "closing"}
  /\ main \in {"return", "exited"} => repo \in {"none", "closed"}
  /\ main \in {"load", "open", "source"} => source = "none"
  /\ main \in {"processor", "serve"} => source = "idle"
  /\ main \in Starting => ~Started /\ errors = {}
  /\ main \in {"running", "shutdown", "drain", "wait"} => Started
  /\ main \in Starting \cup {"running", "shutdown", "drain", "closeSource"} => ~closed
  /\ main \in {"wait"} \cup Closing => source = "none" \/ closed
  /\ main \in {"drain"} \cup Drained => server \notin {"starting", "listening"}
  /\ ready => main = "running"

(* Nothing is served or consumed before the process serves; Consume has an *)
(* outcome once it is done, and workers only while it has a batch.         *)
ConsumerOK ==
  /\ Started <=> source \notin {"none", "idle"}
  /\ source = "done" <=> outcome # "none"
  /\ source \notin {"process", "commit"} => workers = NoWorkers
  /\ outcome = "nil" => ctxDone \/ closed
  /\ stopped => source = "done"

RequestsOK ==
  \A r \in Requests :
    /\ ~Started => requests[r].pc = "none"
    /\ requests[r].pc = "none" <=> requests[r].kind = "none"
    /\ requests[r].pc # "answered" => requests[r].status = 0 /\ ~requests[r].faulted
    /\ requests[r].pc \in {"decoded", "reading"} => requests[r].kind \in {"query", "badQuery"}

(* What the shutdown has waited for.                                       *)
ShutdownOK ==
  /\ main \in Drained => InFlight = {} \/ timedOut
  /\ main \in Closing => source \in {"none", "idle", "done"} \/ timedOut

(* What the process will report, and what the absence of errors says.      *)
ErrorsOK ==
  /\ errors \cap {"configuration", "open", "options", "ping", "processor"} # {} => ~Started
  /\ errors \cap {"source", "error"} # {} => outcome = "error"
  /\ "server" \in errors => server = "failed"
  /\ errors \cap {"drain", "deadline"} # {} => timedOut
  /\ errors = {} =>
       /\ main \in {"shutdown", "drain"} \cup Drained => ctxDone
       /\ main \in Drained => Started /\ InFlight = {}
       /\ stopped \/ main \in Closing => outcome = "nil"
  /\ exit = IF main # "exited" THEN "none" ELSE IF errors = {} THEN "ok" ELSE "error"

(* A configuration that has been loaded is accepted everywhere.            *)
ConfigOK ==
  main \in {"open", "source", "processor", "serve"} =>
    SourceAccepts(config) /\ ProcessorAccepts(config)

RuntimeInv ==
  /\ TypeOK
  /\ StageOK /\ ConsumerOK /\ RequestsOK /\ ShutdownOK /\ ErrorsOK /\ ConfigOK
  /\ CloseWaitsForOperations /\ AnswersAreHonest /\ ConfigurationSuffices
-----------------------------------------------------------------------------
(*************************** the configuration *****************************)

(* The validation implies what each taker of options checks for itself,    *)
(* once there is a broker and the delay is a number.                       *)
LEMMA ValidationSuffices ==
  ASSUME NEW c, Validate(c), c.brokers # <<>>, c.delay \in Int
  PROVE  SourceAccepts(c) /\ ProcessorAccepts(c)
<1>1. \A n : n \in 1..10000 => n > 0
  OBVIOUS
<1>2. \A n : n \in 1..100 => n > 0
  OBVIOUS
<1>3. \A n \in Int : n > 0 => n >= 0
  OBVIOUS
<1>4. SourceAccepts(c)
  <2>1. ValidateKafka(c)
    BY DEF Validate
  <2>2. c.maxPoll \in 1..10000
    BY <2>1, SMTT(60) DEF ValidateKafka
  <2>3. c.maxPoll > 0
    BY <1>1, <2>2, SMTT(60)
  <2>4. NoneBlank(c.brokers) /\ c.topic # Unset /\ c.group # Unset /\ c.client # Unset
    BY <2>1, SMT DEF ValidateKafka
  <2> QED
    BY <2>3, <2>4 DEF SourceAccepts
<1>5. ProcessorAccepts(c)
  BY <1>2, <1>3, Zenon DEF Validate, ProcessorAccepts
<1> QED
  BY <1>4, <1>5

(* What FromLookup lets through, newKafkaSource and NewProcessor accept.   *)
LEMMA ValidIsAccepted ==
  ASSUME NEW env \in Environments, FromLookup(env) # NoConfig
  PROVE  SourceAccepts(FromLookup(env)) /\ ProcessorAccepts(FromLookup(env))
<1> DEFINE c == Lookup(env)
<1>1. FromLookup(env) = c /\ Validate(c) /\ \A v \in Numbers : env[v] # Malformed
  BY DEF FromLookup
<1>2. c.brokers # <<>>
  <2>1. env.KAFKA_BROKERS \in (Seq({Unset, Text}) \ {<<>>}) \cup {Unset}
    BY ConfigurationAssumption
  <2>2. Len(<<Text>>) = 1 /\ Len(<<>>) = 0
    OBVIOUS
  <2>3. c.brokers = IF env.KAFKA_BROKERS = Unset THEN <<Text>> ELSE env.KAFKA_BROKERS
    BY DEF Lookup, ValueOrDefault
  <2>4. CASE env.KAFKA_BROKERS = Unset
    BY <2>2, <2>3, <2>4
  <2>5. CASE env.KAFKA_BROKERS # Unset
    BY <2>1, <2>3, <2>5
  <2> QED
    BY <2>4, <2>5
<1>3. c.delay \in Int
  <2>1. env["EVENT_RETRY_DELAY"] \in Int \cup {Unset, Malformed}
    BY ConfigurationAssumption DEF Numbers
  <2>2. env["EVENT_RETRY_DELAY"] # Malformed
    BY <1>1 DEF Numbers
  <2> QED
    BY <2>1, <2>2 DEF Lookup, ValueOrDefault
<1> QED
  BY <1>1, <1>2, <1>3, ValidationSuffices, Zenon
-----------------------------------------------------------------------------
(********************************* types ***********************************)

LEMMA TypeInit == Init => TypeOK
<1> SUFFICES ASSUME Init PROVE TypeOK
  OBVIOUS
<1>1. ProcessTypeOK
  BY DEF Init, ProcessTypeOK, Configurations
<1>2. HttpTypeOK
  BY DEF Init, HttpTypeOK, NoRequest
<1>3. ConsumerTypeOK
  BY DEF Init, ConsumerTypeOK, NoWorkers
<1> QED
  BY <1>1, <1>2, <1>3 DEF TypeOK

(* Whatever is reported has one of the known reasons.                      *)
LEMMA ReasonsKnown ==
  ASSUME TypeOK, ConsumerOK, [Next]_vars
  PROVE  errors' \subseteq Reasons
<1> SUFFICES ASSUME NEW e \in errors', e \notin errors PROVE e \in Reasons
  BY DEF TypeOK, ProcessTypeOK
<1> USE DEF Reasons
<1>1. CASE LoadConfiguration \/ OpenRepository
  BY <1>1 DEF LoadConfiguration, OpenRepository
<1>2. CASE CreateSource \/ CreateProcessor
  BY <1>2 DEF CreateSource, CreateProcessor
<1>3. CASE StopOnSignal \/ StopOnSource \/ StopOnServer
  BY <1>3 DEF StopOnSignal, StopOnSource, StopOnServer, StopServing
<1>4. CASE Drain \/ CloseRepository
  BY <1>4 DEF Drain, CloseRepository
<1>5. CASE WaitForSource
  BY <1>5 DEF WaitForSource, ConsumerOK, TypeOK, ConsumerTypeOK
<1>6. CASE UNCHANGED errors
  BY <1>6
<1>7. CASE \/ Serve \/ ShutdownServer \/ CloseSource \/ LockRepository \/ Exit
           \/ Signal \/ DeadlinePasses
  BY <1>6, <1>7 DEF Serve, ShutdownServer, CloseSource, LockRepository, Exit, Signal,
     DeadlinePasses, process
<1>8. CASE Listen \/ ListenFails \/ Consume
  BY <1>6, <1>8 DEF Listen, ListenFails, Consume, Poll, PollReturns, PollFails, BatchReturns,
     Commit, ConsumeReturns, process
<1>9. ASSUME NEW r \in Requests, Accept(r) \/ Decode(r) \/ Query(r) \/ AnswerQuery(r)
      PROVE  UNCHANGED errors
  BY <1>9 DEF Accept, Decode, Query, AnswerQuery, process
<1>10. ASSUME NEW p \in Partitions, Work(p) PROVE UNCHANGED errors
  BY <1>10 DEF Work, process
<1>11. CASE UNCHANGED vars
  BY <1>6, <1>11 DEF vars
<1> QED
  BY <1>1, <1>2, <1>3, <1>4, <1>5, <1>6, <1>7, <1>8, <1>9, <1>10, <1>11
     DEF Next, Startup, Shutdown, Terminated

RequestRecord ==
  [pc : {"none", "body", "decoded", "reading", "answered"},
   kind : {"none", "query", "badQuery", "badBody"},
   status : {0, 200, 400, 500}, faulted : BOOLEAN]

LEMMA RequestTaken ==
  ASSUME NEW q \in RequestRecord, NEW kind \in {"query", "badQuery", "badBody"}
  PROVE  [q EXCEPT !.pc = "body", !.kind = kind] \in RequestRecord
<1>1. /\ q = [pc |-> q.pc, kind |-> q.kind, status |-> q.status, faulted |-> q.faulted]
      /\ q.status \in {0, 200, 400, 500} /\ q.faulted \in BOOLEAN
  BY DEF RequestRecord
<1> DEFINE a == [q EXCEPT !.pc = "body"]
           b == [q EXCEPT !.pc = "body", !.kind = kind]
<1>2. a = [pc |-> "body", kind |-> q.kind, status |-> q.status, faulted |-> q.faulted]
  BY <1>1
<1>3. b = [a EXCEPT !.kind = kind]
  OBVIOUS
<1> HIDE DEF a
<1>4. b = [pc |-> "body", kind |-> kind, status |-> q.status, faulted |-> q.faulted]
  BY <1>2, <1>3
<1> HIDE DEF b
<1>5. kind \in {"none", "query", "badQuery", "badBody"}
  OBVIOUS
<1>6. b \in RequestRecord
  BY <1>1, <1>4, <1>5 DEF RequestRecord
<1> QED
  BY <1>6 DEF b

LEMMA TypeNext == TypeOK /\ ConsumerOK /\ [Next]_vars => TypeOK'
<1> SUFFICES ASSUME TypeOK, ConsumerOK, [Next]_vars PROVE TypeOK'
  OBVIOUS
<1>0. errors' \subseteq Reasons
  BY ReasonsKnown
<1> USE DEF TypeOK
<1>1. UNCHANGED <<server, requests>> => HttpTypeOK'
  BY DEF HttpTypeOK
<1>2. UNCHANGED <<source, outcome, closed, workers>> => ConsumerTypeOK'
  BY DEF ConsumerTypeOK
<1>3. UNCHANGED <<main, config, stopped, exit, ctxDone, ready, timedOut, repo>>
        => ProcessTypeOK'
  BY <1>0 DEF ProcessTypeOK
<1>4. ASSUME Signal PROVE TypeOK'
  BY <1>0, <1>4, <1>1, <1>2
     DEF Signal, ProcessTypeOK, process, shutdown, http, consumer
<1>5. ASSUME LoadConfiguration PROVE TypeOK'
  BY <1>0, <1>5, <1>1, <1>2
     DEF LoadConfiguration, ProcessTypeOK, Configurations, process, shutdown, http, consumer
<1>6. ASSUME OpenRepository PROVE TypeOK'
  BY <1>0, <1>6, <1>1, <1>2
     DEF OpenRepository, ProcessTypeOK, process, shutdown, http, consumer
<1>7. ASSUME CreateSource PROVE TypeOK'
  BY <1>0, <1>7, <1>1
     DEF CreateSource, ProcessTypeOK, ConsumerTypeOK, process, shutdown, http, consumer
<1>8. ASSUME CreateProcessor PROVE TypeOK'
  BY <1>0, <1>8, <1>1, <1>2
     DEF CreateProcessor, ProcessTypeOK, process, shutdown, http, consumer
<1>9. ASSUME Serve PROVE TypeOK'
  BY <1>0, <1>9
     DEF Serve, ProcessTypeOK, HttpTypeOK, ConsumerTypeOK, Configurations, process, shutdown,
         http, consumer
<1>10. ASSUME StopOnSignal PROVE TypeOK'
  BY <1>0, <1>10, <1>1, <1>2
     DEF StopOnSignal, StopServing, ProcessTypeOK, process, shutdown, http, consumer
<1>11. ASSUME StopOnSource PROVE TypeOK'
  BY <1>0, <1>11, <1>1, <1>2
     DEF StopOnSource, StopServing, ProcessTypeOK, process, shutdown, http, consumer
<1>12. ASSUME StopOnServer PROVE TypeOK'
  BY <1>0, <1>12, <1>1, <1>2
     DEF StopOnServer, StopServing, ProcessTypeOK, process, shutdown, http, consumer
<1>13. ASSUME ShutdownServer PROVE TypeOK'
  BY <1>0, <1>13, <1>2
     DEF ShutdownServer, ProcessTypeOK, HttpTypeOK, process, shutdown, http, consumer
<1>14. ASSUME DeadlinePasses PROVE TypeOK'
  BY <1>0, <1>14, <1>1, <1>2
     DEF DeadlinePasses, ProcessTypeOK, process, shutdown, http, consumer
<1>15. ASSUME Drain PROVE TypeOK'
  BY <1>0, <1>15, <1>1, <1>2
     DEF Drain, ProcessTypeOK, process, shutdown, http, consumer
<1>16. ASSUME CloseSource PROVE TypeOK'
  BY <1>0, <1>16, <1>1
     DEF CloseSource, ProcessTypeOK, ConsumerTypeOK, process, shutdown, http, consumer
<1>17. ASSUME WaitForSource PROVE TypeOK'
  BY <1>0, <1>17, <1>1, <1>2
     DEF WaitForSource, ProcessTypeOK, process, shutdown, http, consumer
<1>18. ASSUME LockRepository PROVE TypeOK'
  BY <1>0, <1>18, <1>1, <1>2
     DEF LockRepository, ProcessTypeOK, process, shutdown, http, consumer
<1>19. ASSUME CloseRepository PROVE TypeOK'
  BY <1>0, <1>19, <1>1, <1>2
     DEF CloseRepository, ProcessTypeOK, process, shutdown, http, consumer
<1>20. ASSUME Exit PROVE TypeOK'
  BY <1>0, <1>20, <1>1, <1>2
     DEF Exit, ProcessTypeOK, process, shutdown, http, consumer
<1>21. ASSUME Listen PROVE TypeOK'
  BY <1>21, <1>2, <1>3
     DEF Listen, HttpTypeOK, process, shutdown, http, consumer
<1>22. ASSUME ListenFails PROVE TypeOK'
  BY <1>22, <1>2, <1>3
     DEF ListenFails, HttpTypeOK, process, shutdown, http, consumer
<1>23. ASSUME NEW r \in Requests, Accept(r) PROVE TypeOK'
  <2>1. PICK kind \in {"query", "badQuery", "badBody"} :
          requests' = [requests EXCEPT ![r].pc = "body", ![r].kind = kind]
    BY <1>23 DEF Accept
  <2>2. requests' = [requests EXCEPT ![r] = [requests[r] EXCEPT !.pc = "body", !.kind = kind]]
    BY <2>1
  <2>3. [requests[r] EXCEPT !.pc = "body", !.kind = kind] \in RequestRecord
    <3>1. requests[r] \in RequestRecord
      BY DEF HttpTypeOK, RequestRecord
    <3> QED
      BY <3>1, RequestTaken
  <2>4. HttpTypeOK'
    BY <1>23, <2>2, <2>3 DEF Accept, HttpTypeOK, RequestRecord
  <2> QED
    BY <1>23, <2>4, <1>2, <1>3 DEF Accept, process, shutdown, consumer
<1>24. ASSUME NEW r \in Requests, Decode(r) PROVE TypeOK'
  BY <1>24, <1>2, <1>3
     DEF Decode, Answer, HttpTypeOK, process, shutdown, http, consumer
<1>25. ASSUME NEW r \in Requests, Query(r) PROVE TypeOK'
  BY <1>25, <1>2, <1>3
     DEF Query, Answer, HttpTypeOK, process, shutdown, http, consumer
<1>26. ASSUME NEW r \in Requests, AnswerQuery(r) PROVE TypeOK'
  BY <1>26, <1>2, <1>3
     DEF AnswerQuery, Answer, HttpTypeOK, process, shutdown, http, consumer
<1>27. ASSUME Poll PROVE TypeOK'
  BY <1>27, <1>1, <1>3
     DEF Poll, ConsumerTypeOK, process, shutdown, http, consumer
<1>28. ASSUME PollReturns PROVE TypeOK'
  BY <1>28, <1>1, <1>3
     DEF PollReturns, ConsumeReturns, ConsumerTypeOK, NoWorkers, process, shutdown, http, consumer
<1>29. ASSUME PollFails PROVE TypeOK'
  BY <1>29, <1>1, <1>3
     DEF PollFails, ConsumeReturns, ConsumerTypeOK, NoWorkers, process, shutdown, http, consumer
<1>30. ASSUME BatchReturns PROVE TypeOK'
  BY <1>30, <1>1, <1>3
     DEF BatchReturns, ConsumeReturns, ConsumerTypeOK, NoWorkers, process, shutdown, http, consumer
<1>31. ASSUME Commit PROVE TypeOK'
  BY <1>31, <1>1, <1>3
     DEF Commit, ConsumeReturns, ConsumerTypeOK, NoWorkers, process, shutdown, http, consumer
<1>32. ASSUME NEW p \in Partitions, Work(p) PROVE TypeOK'
  BY <1>32, <1>1, <1>3
     DEF Work, Load, Loaded, Apply, Applied, Retry, Abort, Enter, Transient,
         OperationReturns, ConsumerTypeOK, process, shutdown, http, consumer
<1>33. CASE UNCHANGED vars
  BY <1>1, <1>2, <1>3, <1>33 DEF vars
<1> HIDE DEF TypeOK
<1> QED
  BY <1>4, <1>5, <1>6, <1>7, <1>8, <1>9, <1>10, <1>11, <1>12, <1>13, <1>14, <1>15,
     <1>16, <1>17, <1>18, <1>19, <1>20, <1>21, <1>22, <1>23, <1>24, <1>25, <1>26, <1>27,
     <1>28, <1>29, <1>30, <1>31, <1>32, <1>33
     DEF Next, Startup, Shutdown, Consume, Terminated
-----------------------------------------------------------------------------
(*********************** the invariant, step by step ***********************)

LEMMA RuntimeInit == Init => RuntimeInv
<1> SUFFICES ASSUME Init PROVE RuntimeInv
  OBVIOUS
<1>1. TypeOK
  BY TypeInit
<1>2. StageOK /\ ConsumerOK /\ RequestsOK /\ ShutdownOK
  BY DEF Init, StageOK, ConsumerOK, RequestsOK, ShutdownOK, Starting, Closing, Drained,
     Started, NoRequest
<1>3. ErrorsOK /\ ConfigOK
  BY DEF Init, ErrorsOK, ConfigOK, Starting, Closing, Drained, Started
<1>4. CloseWaitsForOperations /\ AnswersAreHonest /\ ConfigurationSuffices
  BY DEF Init, CloseWaitsForOperations, AnswersAreHonest, ConfigurationSuffices, NoRequest
<1> QED
  BY <1>1, <1>2, <1>3, <1>4 DEF RuntimeInv

(* Nothing is in flight before the process serves.                         *)
LEMMA NothingInFlight == RequestsOK /\ ~Started => InFlight = {}
  BY DEF RequestsOK, InFlight

LEMMA RuntimeNext == RuntimeInv /\ [Next]_vars => RuntimeInv'
<1> SUFFICES ASSUME RuntimeInv, [Next]_vars PROVE RuntimeInv'
  OBVIOUS
<1>0. TypeOK'
  BY TypeNext DEF RuntimeInv
<1> USE DEF RuntimeInv, process, shutdown, http, consumer
<1>1. UNCHANGED <<main, repo, source, server, errors, closed, ready>> => StageOK'
  BY DEF StageOK, Started
<1>2. UNCHANGED <<server, source, outcome, workers, ctxDone, closed, stopped>> => ConsumerOK'
  BY DEF ConsumerOK, Started
<1>3. UNCHANGED <<server, requests>> => RequestsOK'
  BY DEF RequestsOK, Started
<1>4. UNCHANGED <<main, requests, timedOut, source>> => ShutdownOK'
  BY DEF ShutdownOK, InFlight
<1>5. UNCHANGED <<errors, server, outcome, timedOut, main, ctxDone, requests, stopped, exit>>
        => ErrorsOK'
  BY DEF ErrorsOK, Started, InFlight
<1>6. UNCHANGED <<main, config>> => ConfigOK'
  BY DEF ConfigOK
<1>7. UNCHANGED <<repo, workers, requests>> => CloseWaitsForOperations'
  BY DEF CloseWaitsForOperations, Inside
<1>8. UNCHANGED <<requests, timedOut, ready, server, closed, repo>> => AnswersAreHonest'
  BY DEF AnswersAreHonest
<1>9. UNCHANGED errors => ConfigurationSuffices'
  BY DEF ConfigurationSuffices
<1>10. ASSUME Signal PROVE RuntimeInv'
  <2>1. ConsumerOK'
    BY <1>10 DEF Signal, StageOK, ConsumerOK, Started
  <2>2. ErrorsOK'
    BY <1>10
       DEF Signal, StageOK, ConsumerOK, ErrorsOK, Starting, Closing, Drained, Started,
         InFlight
  <2> QED
    BY <1>0, <1>10, <2>1, <2>2, <1>1, <1>3, <1>4, <1>6, <1>7, <1>8, <1>9 DEF Signal
<1>11. ASSUME LoadConfiguration PROVE RuntimeInv'
  <2>1. StageOK'
    BY <1>11 DEF LoadConfiguration, ConsumerOK, StageOK, Starting, Closing, Drained, Started
  <2>2. ShutdownOK'
    BY <1>11, NothingInFlight
       DEF LoadConfiguration, StageOK, ConsumerOK, ShutdownOK, Starting, Closing,
       Drained, InFlight
  <2>3. ErrorsOK'
    BY <1>11
       DEF LoadConfiguration, StageOK, ConsumerOK, ErrorsOK, Starting, Closing, Drained,
         Started, InFlight
  <2>4. ConfigOK'
    BY <1>11, ValidIsAccepted DEF LoadConfiguration, ConfigOK
  <2>5. ConfigurationSuffices'
    BY <1>11 DEF LoadConfiguration, ConfigurationSuffices
  <2> QED
    BY <1>0, <1>11, <2>1, <2>2, <2>3, <2>4, <2>5, <1>2, <1>3, <1>7, <1>8 DEF LoadConfiguration
<1>12. ASSUME OpenRepository PROVE RuntimeInv'
  <2>1. StageOK'
    BY <1>12 DEF OpenRepository, ConsumerOK, StageOK, Starting, Closing, Drained, Started
  <2>2. ShutdownOK'
    BY <1>12, NothingInFlight
       DEF OpenRepository, StageOK, ConsumerOK, ShutdownOK, Starting, Closing,
       Drained, InFlight
  <2>3. ErrorsOK'
    BY <1>12
       DEF OpenRepository, StageOK, ConsumerOK, ErrorsOK, Starting, Closing, Drained, Started,
         InFlight
  <2>4. ConfigOK'
    BY <1>12 DEF OpenRepository, ConfigOK
  <2>5. CloseWaitsForOperations'
    BY <1>12 DEF OpenRepository, StageOK, CloseWaitsForOperations, Inside
  <2>6. AnswersAreHonest'
    BY <1>12 DEF OpenRepository, StageOK, AnswersAreHonest
  <2>7. ConfigurationSuffices'
    BY <1>12 DEF OpenRepository, ConfigurationSuffices
  <2> QED
    BY <1>0, <1>12, <2>1, <2>2, <2>3, <2>4, <2>5, <2>6, <2>7, <1>2, <1>3 DEF OpenRepository
<1>13. ASSUME CreateSource PROVE RuntimeInv'
  <2>1. StageOK'
    BY <1>13 DEF CreateSource, ConsumerOK, StageOK, Starting, Closing, Drained, Started
  <2>2. ConsumerOK'
    BY <1>13 DEF CreateSource, StageOK, ConsumerOK, Started
  <2>3. ShutdownOK'
    BY <1>13, NothingInFlight
       DEF CreateSource, StageOK, ConsumerOK, ShutdownOK, Starting, Closing,
       Drained, InFlight
  <2>4. ErrorsOK'
    BY <1>13
       DEF CreateSource, StageOK, ConsumerOK, ErrorsOK, Starting, Closing, Drained, Started,
         InFlight
  <2>5. ConfigOK'
    BY <1>13 DEF CreateSource, ConfigOK
  <2>6. ConfigurationSuffices'
    BY <1>13 DEF CreateSource, StageOK, ConfigOK, ConfigurationSuffices, Starting
  <2> QED
    BY <1>0, <1>13, <2>1, <2>2, <2>3, <2>4, <2>5, <2>6, <1>3, <1>7, <1>8 DEF CreateSource
<1>14. ASSUME CreateProcessor PROVE RuntimeInv'
  <2>1. StageOK'
    BY <1>14 DEF CreateProcessor, ConsumerOK, StageOK, Starting, Closing, Drained, Started
  <2>2. ShutdownOK'
    BY <1>14, NothingInFlight
       DEF CreateProcessor, StageOK, ConsumerOK, ShutdownOK, Starting, Closing,
       Drained, InFlight
  <2>3. ErrorsOK'
    BY <1>14
       DEF CreateProcessor, StageOK, ConsumerOK, ErrorsOK, Starting, Closing, Drained,
         Started, InFlight
  <2>4. ConfigOK'
    BY <1>14 DEF CreateProcessor, ConfigOK
  <2>5. ConfigurationSuffices'
    BY <1>14 DEF CreateProcessor, StageOK, ConfigOK, ConfigurationSuffices, Starting
  <2> QED
    BY <1>0, <1>14, <2>1, <2>2, <2>3, <2>4, <2>5, <1>2, <1>3, <1>7, <1>8 DEF CreateProcessor
<1>15. ASSUME Serve PROVE RuntimeInv'
  <2>1. StageOK'
    BY <1>15 DEF Serve, ConsumerOK, StageOK, Starting, Closing, Drained, Started
  <2>2. ConsumerOK'
    BY <1>15 DEF Serve, StageOK, ConsumerOK, Started
  <2>3. RequestsOK'
    BY <1>15 DEF Serve, RequestsOK, Started
  <2>4. ShutdownOK'
    BY <1>15 DEF Serve, StageOK, ConsumerOK, ShutdownOK, Starting, Closing, Drained, InFlight
  <2>5. ErrorsOK'
    BY <1>15
       DEF Serve, StageOK, ConsumerOK, ErrorsOK, Starting, Closing, Drained, Started, InFlight
  <2>6. ConfigOK'
    BY <1>15 DEF Serve, ConfigOK
  <2>7. AnswersAreHonest'
    BY <1>15 DEF Serve, StageOK, AnswersAreHonest, Starting
  <2> QED
    BY <1>0, <1>15, <2>1, <2>2, <2>3, <2>4, <2>5, <2>6, <2>7, <1>7, <1>9 DEF Serve
<1>16. ASSUME StopOnSignal PROVE RuntimeInv'
  <2>1. StageOK'
    BY <1>16
       DEF StopOnSignal, StopServing, ConsumerOK, StageOK, Starting, Closing, Drained, Started
  <2>2. ConsumerOK'
    BY <1>16 DEF StopOnSignal, StopServing, StageOK, ConsumerOK, Started
  <2>3. ShutdownOK'
    BY <1>16
       DEF StopOnSignal, StopServing, StageOK, ConsumerOK, ShutdownOK, Starting, Closing,
         Drained, InFlight
  <2>4. ErrorsOK'
    BY <1>16
       DEF StopOnSignal, StopServing, StageOK, ConsumerOK, ErrorsOK, Starting, Closing,
         Drained, Started, InFlight
  <2>5. ConfigOK'
    BY <1>16 DEF StopOnSignal, StopServing, ConfigOK
  <2>6. AnswersAreHonest'
    BY <1>16 DEF StopOnSignal, StopServing, StageOK, AnswersAreHonest
  <2>7. ConfigurationSuffices'
    BY <1>16 DEF StopOnSignal, StopServing, ConfigurationSuffices
  <2> QED
    BY <1>0, <1>16, <2>1, <2>2, <2>3, <2>4, <2>5, <2>6, <2>7, <1>3, <1>7
       DEF StopOnSignal, StopServing
<1>17. ASSUME StopOnSource PROVE RuntimeInv'
  <2>1. StageOK'
    BY <1>17
       DEF StopOnSource, StopServing, ConsumerOK, StageOK, Starting, Closing, Drained, Started
  <2>2. ConsumerOK'
    BY <1>17 DEF StopOnSource, StopServing, StageOK, ConsumerOK, Started
  <2>3. ShutdownOK'
    BY <1>17
       DEF StopOnSource, StopServing, StageOK, ConsumerOK, ShutdownOK, Starting, Closing,
         Drained, InFlight
  <2>4. ErrorsOK'
    <3>1. CASE outcome = "error" \/ ~ctxDone
      <4>1. errors' = {"source"} /\ main' = "shutdown" /\ main = "running"
        BY <1>17, <3>1 DEF StopOnSource, StopServing
      <4>2. outcome' = "error"
        BY <1>17, <3>1
           DEF StopOnSource, StopServing, ConsumerOK, StageOK, TypeOK, ConsumerTypeOK,
           Starting
      <4> QED
        BY <1>17, <4>1, <4>2 DEF StopOnSource, StopServing, ErrorsOK
    <3>2. CASE outcome # "error" /\ ctxDone
      <4>1. errors' = {} /\ main' = "shutdown" /\ stopped' /\ ctxDone'
        BY <1>17, <3>2 DEF StopOnSource, StopServing
      <4>2. outcome' = "nil"
        BY <1>17, <3>2 DEF StopOnSource, StopServing, ConsumerOK, TypeOK, ConsumerTypeOK
      <4> QED
        BY <1>17, <4>1, <4>2 DEF StopOnSource, StopServing, ErrorsOK, Closing, Drained
    <3> QED
      BY <3>1, <3>2
  <2>5. ConfigOK'
    BY <1>17 DEF StopOnSource, StopServing, ConfigOK
  <2>6. AnswersAreHonest'
    BY <1>17 DEF StopOnSource, StopServing, StageOK, AnswersAreHonest
  <2>7. ConfigurationSuffices'
    BY <1>17 DEF StopOnSource, StopServing, ConfigurationSuffices
  <2> QED
    BY <1>0, <1>17, <2>1, <2>2, <2>3, <2>4, <2>5, <2>6, <2>7, <1>3, <1>7
       DEF StopOnSource, StopServing
<1>18. ASSUME StopOnServer PROVE RuntimeInv'
  <2>1. StageOK'
    BY <1>18
       DEF StopOnServer, StopServing, ConsumerOK, StageOK, Starting, Closing, Drained, Started
  <2>2. ConsumerOK'
    BY <1>18 DEF StopOnServer, StopServing, StageOK, ConsumerOK, Started
  <2>3. ShutdownOK'
    BY <1>18
       DEF StopOnServer, StopServing, StageOK, ConsumerOK, ShutdownOK, Starting, Closing,
         Drained, InFlight
  <2>4. ErrorsOK'
    BY <1>18
       DEF StopOnServer, StopServing, StageOK, ConsumerOK, ErrorsOK, Starting, Closing,
         Drained, Started, InFlight
  <2>5. ConfigOK'
    BY <1>18 DEF StopOnServer, StopServing, ConfigOK
  <2>6. AnswersAreHonest'
    BY <1>18 DEF StopOnServer, StopServing, StageOK, AnswersAreHonest
  <2>7. ConfigurationSuffices'
    BY <1>18 DEF StopOnServer, StopServing, ConfigurationSuffices
  <2> QED
    BY <1>0, <1>18, <2>1, <2>2, <2>3, <2>4, <2>5, <2>6, <2>7, <1>3, <1>7
       DEF StopOnServer, StopServing
<1>19. ASSUME ShutdownServer PROVE RuntimeInv'
  <2>1. StageOK'
    BY <1>19 DEF ShutdownServer, ConsumerOK, StageOK, Starting, Closing, Drained, Started
  <2>2. ConsumerOK'
    BY <1>19 DEF ShutdownServer, StageOK, ConsumerOK, Started
  <2>3. RequestsOK'
    BY <1>19 DEF ShutdownServer, RequestsOK, Started
  <2>4. ShutdownOK'
    BY <1>19
       DEF ShutdownServer, StageOK, ConsumerOK, ShutdownOK, Starting, Closing, Drained,
         InFlight
  <2>5. ErrorsOK'
    BY <1>19
       DEF ShutdownServer, StageOK, ConsumerOK, ErrorsOK, Starting, Closing, Drained, Started,
         InFlight
  <2>6. ConfigOK'
    BY <1>19 DEF ShutdownServer, ConfigOK
  <2>7. AnswersAreHonest'
    BY <1>19 DEF ShutdownServer, StageOK, AnswersAreHonest
  <2> QED
    BY <1>0, <1>19, <2>1, <2>2, <2>3, <2>4, <2>5, <2>6, <2>7, <1>7, <1>9 DEF ShutdownServer
<1>20. ASSUME DeadlinePasses PROVE RuntimeInv'
  <2>1. ShutdownOK'
    BY <1>20
       DEF DeadlinePasses, StageOK, ConsumerOK, ShutdownOK, Starting, Closing, Drained,
         InFlight
  <2>2. ErrorsOK'
    BY <1>20
       DEF DeadlinePasses, StageOK, ConsumerOK, ErrorsOK, Starting, Closing, Drained, Started,
         InFlight
  <2>3. AnswersAreHonest'
    BY <1>20 DEF DeadlinePasses, StageOK, AnswersAreHonest
  <2> QED
    BY <1>0, <1>20, <2>1, <2>2, <2>3, <1>1, <1>2, <1>3, <1>6, <1>7, <1>9 DEF DeadlinePasses
<1>21. ASSUME Drain PROVE RuntimeInv'
  <2>1. StageOK'
    BY <1>21 DEF Drain, ConsumerOK, StageOK, Starting, Closing, Drained, Started
  <2>2. ShutdownOK'
    BY <1>21 DEF Drain, StageOK, ConsumerOK, ShutdownOK, Starting, Closing, Drained, InFlight
  <2>3. ErrorsOK'
    BY <1>21
       DEF Drain, StageOK, ConsumerOK, ErrorsOK, Starting, Closing, Drained, Started, InFlight
  <2>4. ConfigOK'
    BY <1>21 DEF Drain, ConfigOK
  <2>5. ConfigurationSuffices'
    BY <1>21 DEF Drain, ConfigurationSuffices
  <2> QED
    BY <1>0, <1>21, <2>1, <2>2, <2>3, <2>4, <2>5, <1>2, <1>3, <1>7, <1>8 DEF Drain
<1>22. ASSUME CloseSource PROVE RuntimeInv'
  <2>1. StageOK'
    BY <1>22 DEF CloseSource, ConsumerOK, StageOK, Starting, Closing, Drained, Started
  <2>2. ConsumerOK'
    BY <1>22 DEF CloseSource, StageOK, ConsumerOK, Started
  <2>3. ShutdownOK'
    BY <1>22
       DEF CloseSource, StageOK, ConsumerOK, ShutdownOK, Starting, Closing, Drained, InFlight
  <2>4. ErrorsOK'
    BY <1>22
       DEF CloseSource, StageOK, ConsumerOK, ErrorsOK, Starting, Closing, Drained, Started,
         InFlight
  <2>5. ConfigOK'
    BY <1>22 DEF CloseSource, ConfigOK
  <2>6. AnswersAreHonest'
    BY <1>22 DEF CloseSource, StageOK, AnswersAreHonest
  <2> QED
    BY <1>0, <1>22, <2>1, <2>2, <2>3, <2>4, <2>5, <2>6, <1>3, <1>7, <1>9 DEF CloseSource
<1>23. ASSUME WaitForSource PROVE RuntimeInv'
  <2>1. StageOK'
    BY <1>23 DEF WaitForSource, ConsumerOK, StageOK, Starting, Closing, Drained, Started
  <2>2. ShutdownOK'
    BY <1>23
       DEF WaitForSource, StageOK, ConsumerOK, ShutdownOK, Starting, Closing, Drained,
         InFlight
  <2>3. ErrorsOK'
    <3>1. CASE source = "done" /\ errors' = errors \cup ({outcome} \ {"nil"})
      <4>1. outcome \in {"nil", "error"}
        BY <3>1 DEF ConsumerOK, TypeOK, ConsumerTypeOK
      <4>2. CASE outcome = "nil"
        <5>1. errors' = errors
          BY <3>1, <4>2
        <5> QED
          BY <1>23, <4>2, <5>1 DEF WaitForSource, ErrorsOK, Started, InFlight, Closing, Drained
      <4>3. CASE outcome = "error"
        <5>1. errors' = errors \cup {"error"}
          BY <3>1, <4>3
        <5> QED
          BY <1>23, <4>3, <5>1 DEF WaitForSource, ErrorsOK, Started
      <4> QED
        BY <4>1, <4>2, <4>3
    <3>2. CASE timedOut /\ errors' = errors \cup {"deadline"}
      BY <1>23, <3>2 DEF WaitForSource, ErrorsOK, Started
    <3> QED
      BY <1>23, <3>1, <3>2 DEF WaitForSource
  <2>4. ConfigOK'
    BY <1>23 DEF WaitForSource, ConfigOK
  <2>5. ConfigurationSuffices'
    <3>1. outcome \notin {"options", "processor"}
      BY DEF TypeOK, ConsumerTypeOK
    <3> QED
      BY <1>23, <3>1 DEF WaitForSource, ConfigurationSuffices
  <2> QED
    BY <1>0, <1>23, <2>1, <2>2, <2>3, <2>4, <2>5, <1>2, <1>3, <1>7, <1>8 DEF WaitForSource
<1>24. ASSUME LockRepository PROVE RuntimeInv'
  <2>1. StageOK'
    BY <1>24 DEF LockRepository, ConsumerOK, StageOK, Starting, Closing, Drained, Started
  <2>2. CloseWaitsForOperations'
    BY <1>24 DEF LockRepository, StageOK, CloseWaitsForOperations, Inside
  <2>3. AnswersAreHonest'
    BY <1>24 DEF LockRepository, StageOK, AnswersAreHonest
  <2> QED
    BY <1>0, <1>24, <2>1, <2>2, <2>3, <1>2, <1>3, <1>4, <1>5, <1>6, <1>9 DEF LockRepository
<1>25. ASSUME CloseRepository PROVE RuntimeInv'
  <2>1. StageOK'
    BY <1>25 DEF CloseRepository, ConsumerOK, StageOK, Starting, Closing, Drained, Started
  <2>2. ShutdownOK'
    BY <1>25
       DEF CloseRepository, StageOK, ConsumerOK, ShutdownOK, Starting, Closing, Drained,
         InFlight
  <2>3. ErrorsOK'
    BY <1>25
       DEF CloseRepository, StageOK, ConsumerOK, ErrorsOK, Starting, Closing, Drained,
         Started, InFlight
  <2>4. ConfigOK'
    BY <1>25 DEF CloseRepository, ConfigOK
  <2>5. CloseWaitsForOperations'
    BY <1>25 DEF CloseRepository, StageOK, CloseWaitsForOperations, Inside
  <2>6. AnswersAreHonest'
    BY <1>25 DEF CloseRepository, StageOK, AnswersAreHonest
  <2>7. ConfigurationSuffices'
    BY <1>25 DEF CloseRepository, ConfigurationSuffices
  <2> QED
    BY <1>0, <1>25, <2>1, <2>2, <2>3, <2>4, <2>5, <2>6, <2>7, <1>2, <1>3 DEF CloseRepository
<1>26. ASSUME Exit PROVE RuntimeInv'
  <2>1. StageOK'
    BY <1>26 DEF Exit, ConsumerOK, StageOK, Starting, Closing, Drained, Started
  <2>2. ShutdownOK'
    BY <1>26 DEF Exit, StageOK, ConsumerOK, ShutdownOK, Starting, Closing, Drained, InFlight
  <2>3. ErrorsOK'
    BY <1>26
       DEF Exit, StageOK, ConsumerOK, ErrorsOK, Starting, Closing, Drained, Started, InFlight
  <2>4. ConfigOK'
    BY <1>26 DEF Exit, ConfigOK
  <2> QED
    BY <1>0, <1>26, <2>1, <2>2, <2>3, <2>4, <1>2, <1>3, <1>7, <1>8, <1>9 DEF Exit
<1>27. ASSUME Listen PROVE RuntimeInv'
  <2>1. StageOK'
    BY <1>27 DEF Listen, ConsumerOK, StageOK, Starting, Closing, Drained, Started
  <2>2. ConsumerOK'
    BY <1>27 DEF Listen, StageOK, ConsumerOK, Started
  <2>3. RequestsOK'
    BY <1>27 DEF Listen, RequestsOK, Started
  <2>4. ErrorsOK'
    BY <1>27
       DEF Listen, StageOK, ConsumerOK, ErrorsOK, Starting, Closing, Drained, Started,
         InFlight
  <2>5. AnswersAreHonest'
    BY <1>27 DEF Listen, StageOK, AnswersAreHonest
  <2> QED
    BY <1>0, <1>27, <2>1, <2>2, <2>3, <2>4, <2>5, <1>4, <1>6, <1>7, <1>9 DEF Listen
<1>28. ASSUME ListenFails PROVE RuntimeInv'
  <2>1. StageOK'
    BY <1>28 DEF ListenFails, ConsumerOK, StageOK, Starting, Closing, Drained, Started
  <2>2. ConsumerOK'
    BY <1>28 DEF ListenFails, StageOK, ConsumerOK, Started
  <2>3. RequestsOK'
    BY <1>28 DEF ListenFails, RequestsOK, Started
  <2>4. ErrorsOK'
    BY <1>28
       DEF ListenFails, StageOK, ConsumerOK, ErrorsOK, Starting, Closing, Drained, Started,
         InFlight
  <2>5. AnswersAreHonest'
    BY <1>28 DEF ListenFails, StageOK, AnswersAreHonest
  <2> QED
    BY <1>0, <1>28, <2>1, <2>2, <2>3, <2>4, <2>5, <1>4, <1>6, <1>7, <1>9 DEF ListenFails
<1>29. ASSUME NEW r \in Requests, Accept(r) PROVE RuntimeInv'
  <2>1. \A q \in Requests : q # r => requests'[q] = requests[q]
    BY <1>29 DEF Accept, TypeOK, HttpTypeOK
  <2>2. /\ requests'[r].pc = "body" /\ requests'[r].kind # "none"
        /\ requests'[r].status = 0 /\ ~requests'[r].faulted
    BY <1>29 DEF Accept, RequestsOK, TypeOK, HttpTypeOK
  <2>3. RequestsOK'
    BY <1>29, <2>1, <2>2 DEF Accept, RequestsOK, StageOK, Started
  <2>4. ShutdownOK'
    BY <1>29 DEF Accept, StageOK, ShutdownOK, Closing, Drained
  <2>5. ErrorsOK'
    BY <1>29 DEF Accept, StageOK, ErrorsOK, Closing, Drained, Started
  <2>6. CloseWaitsForOperations'
    BY <1>29, <2>1, <2>2 DEF Accept, CloseWaitsForOperations, Inside
  <2>7. AnswersAreHonest'
    <3>1. UNCHANGED <<timedOut, ready, server, closed, repo>>
      BY <1>29 DEF Accept
    <3> QED
      BY <2>1, <2>2, <3>1 DEF AnswersAreHonest
  <2> QED
    BY <1>0, <1>29, <2>3, <2>4, <2>5, <2>6, <2>7, <1>1, <1>2, <1>6, <1>9 DEF Accept
<1>30. ASSUME NEW r \in Requests, Decode(r) PROVE RuntimeInv'
  <2>1. \A q \in Requests : q # r => requests'[q] = requests[q]
    BY <1>30 DEF Decode, Answer, TypeOK, HttpTypeOK
  <2>2. /\ requests'[r].kind = requests[r].kind
        /\ requests'[r].faulted = requests[r].faulted
        /\ \/ requests'[r].pc = "answered" /\ requests'[r].status = 400
               /\ requests[r].kind = "badBody"
           \/ requests'[r].pc = "decoded" /\ requests'[r].status = requests[r].status
               /\ requests[r].kind # "badBody"
    BY <1>30 DEF Decode, Answer, TypeOK, HttpTypeOK
  <2>3. RequestsOK'
    <3>1. requests[r].kind \in {"query", "badQuery", "badBody"}
      BY <1>30 DEF Decode, RequestsOK, TypeOK, HttpTypeOK
    <3> QED
      BY <1>30, <2>1, <2>2, <3>1 DEF Decode, RequestsOK, Started
  <2>4. ShutdownOK'
    BY <1>30, <2>1, <2>2 DEF Decode, ShutdownOK, InFlight, Closing, Drained
  <2>5. ErrorsOK'
    BY <1>30, <2>1, <2>2 DEF Decode, ErrorsOK, InFlight, Closing, Drained, Started
  <2>6. CloseWaitsForOperations'
    BY <1>30, <2>1, <2>2 DEF Decode, CloseWaitsForOperations, Inside
  <2>7. AnswersAreHonest'
    BY <1>30, <2>1, <2>2 DEF Decode, RequestsOK, AnswersAreHonest
  <2> QED
    BY <1>0, <1>30, <2>3, <2>4, <2>5, <2>6, <2>7, <1>1, <1>2, <1>6, <1>9 DEF Decode, Answer
<1>31. ASSUME NEW r \in Requests, Query(r) PROVE RuntimeInv'
  <2>1. \A q \in Requests : q # r => requests'[q] = requests[q]
    BY <1>31 DEF Query, Answer, TypeOK, HttpTypeOK
  <2>2. /\ requests'[r].kind = requests[r].kind
        /\ requests'[r].faulted = requests[r].faulted
        /\ \/ requests'[r].pc = "answered" /\ requests'[r].status = 500 /\ repo = "closed"
           \/ requests'[r].pc = "reading" /\ requests'[r].status = requests[r].status
               /\ repo # "closed"
    BY <1>31 DEF Query, Answer, TypeOK, HttpTypeOK
  <2>3. RequestsOK'
    BY <1>31, <2>1, <2>2 DEF Query, RequestsOK, StageOK, Started
  <2>4. ShutdownOK'
    BY <1>31, <2>1, <2>2 DEF Query, ShutdownOK, InFlight, Closing, Drained
  <2>5. ErrorsOK'
    BY <1>31, <2>1, <2>2 DEF Query, ErrorsOK, InFlight, Closing, Drained, Started
  <2>6. CloseWaitsForOperations'
    BY <1>31, <2>1, <2>2 DEF Query, CloseWaitsForOperations, Inside
  <2>7. AnswersAreHonest'
    <3>1. repo = "closed" => timedOut
      BY <1>31 DEF Query, StageOK, ShutdownOK, InFlight, TypeOK, ProcessTypeOK, Drained, Closing
    <3> QED
      BY <1>31, <2>1, <2>2, <3>1 DEF Query, RequestsOK, AnswersAreHonest
  <2> QED
    BY <1>0, <1>31, <2>3, <2>4, <2>5, <2>6, <2>7, <1>1, <1>2, <1>6, <1>9 DEF Query, Answer
<1>32. ASSUME NEW r \in Requests, AnswerQuery(r) PROVE RuntimeInv'
  <2>1. \A q \in Requests : q # r => requests'[q] = requests[q]
    BY <1>32 DEF AnswerQuery, Answer, TypeOK, HttpTypeOK
  <2>2. /\ requests'[r].kind = requests[r].kind /\ requests'[r].pc = "answered"
        /\ \/ /\ requests'[r].status = IF requests[r].kind = "badQuery" THEN 400 ELSE 200
              /\ requests'[r].faulted = requests[r].faulted
           \/ requests'[r].status = 500 /\ requests'[r].faulted
    BY <1>32 DEF AnswerQuery, Answer, TypeOK, HttpTypeOK
  <2>3. RequestsOK'
    BY <1>32, <2>1, <2>2 DEF AnswerQuery, RequestsOK, StageOK, Started
  <2>4. ShutdownOK'
    BY <1>32, <2>1, <2>2 DEF AnswerQuery, ShutdownOK, InFlight, Closing, Drained
  <2>5. ErrorsOK'
    BY <1>32, <2>1, <2>2 DEF AnswerQuery, ErrorsOK, InFlight, Closing, Drained, Started
  <2>6. CloseWaitsForOperations'
    BY <1>32, <2>1, <2>2 DEF AnswerQuery, CloseWaitsForOperations, Inside
  <2>7. AnswersAreHonest'
    BY <1>32, <2>1, <2>2 DEF AnswerQuery, RequestsOK, AnswersAreHonest
  <2> QED
    BY <1>0, <1>32, <2>3, <2>4, <2>5, <2>6, <2>7, <1>1, <1>2, <1>6, <1>9 DEF AnswerQuery, Answer
<1>33. ASSUME Poll PROVE RuntimeInv'
  <2>1. StageOK'
    BY <1>33 DEF Poll, ConsumerOK, StageOK, Starting, Closing, Drained, Started
  <2>2. ConsumerOK'
    BY <1>33 DEF Poll, StageOK, ConsumerOK, Started
  <2>3. ShutdownOK'
    BY <1>33 DEF Poll, StageOK, ConsumerOK, ShutdownOK, Starting, Closing, Drained, InFlight
  <2>4. CloseWaitsForOperations'
    BY <1>33 DEF Poll, StageOK, CloseWaitsForOperations, Inside
  <2> QED
    BY <1>0, <1>33, <2>1, <2>2, <2>3, <2>4, <1>3, <1>5, <1>6, <1>8, <1>9 DEF Poll
<1>34. ASSUME PollReturns PROVE RuntimeInv'
  <2>1. StageOK'
    BY <1>34
       DEF PollReturns, ConsumeReturns, ConsumerOK, StageOK, Starting, Closing, Drained,
         Started
  <2>2. ConsumerOK'
    BY <1>34 DEF PollReturns, ConsumeReturns, StageOK, ConsumerOK, Started
  <2>3. ShutdownOK'
    BY <1>34
       DEF PollReturns, ConsumeReturns, StageOK, ConsumerOK, ShutdownOK, Starting, Closing,
         Drained, InFlight
  <2>4. ErrorsOK'
    BY <1>34
       DEF PollReturns, ConsumeReturns, StageOK, ConsumerOK, ErrorsOK, Starting, Closing,
         Drained, Started, InFlight
  <2>5. CloseWaitsForOperations'
    BY <1>34 DEF PollReturns, ConsumeReturns, CloseWaitsForOperations, Inside, NoWorkers
  <2> QED
    BY <1>0, <1>34, <2>1, <2>2, <2>3, <2>4, <2>5, <1>3, <1>6, <1>8, <1>9
       DEF PollReturns, ConsumeReturns
<1>35. ASSUME PollFails PROVE RuntimeInv'
  <2>1. StageOK'
    BY <1>35
       DEF PollFails, ConsumeReturns, ConsumerOK, StageOK, Starting, Closing, Drained, Started
  <2>2. ConsumerOK'
    BY <1>35 DEF PollFails, ConsumeReturns, StageOK, ConsumerOK, Started
  <2>3. ShutdownOK'
    BY <1>35
       DEF PollFails, ConsumeReturns, StageOK, ConsumerOK, ShutdownOK, Starting, Closing,
         Drained, InFlight
  <2>4. ErrorsOK'
    BY <1>35
       DEF PollFails, ConsumeReturns, StageOK, ConsumerOK, ErrorsOK, Starting, Closing,
         Drained, Started, InFlight
  <2>5. CloseWaitsForOperations'
    BY <1>35 DEF PollFails, ConsumeReturns, CloseWaitsForOperations, Inside, NoWorkers
  <2> QED
    BY <1>0, <1>35, <2>1, <2>2, <2>3, <2>4, <2>5, <1>3, <1>6, <1>8, <1>9
       DEF PollFails, ConsumeReturns
<1>36. ASSUME BatchReturns PROVE RuntimeInv'
  <2>1. StageOK'
    BY <1>36
       DEF BatchReturns, ConsumeReturns, ConsumerOK, StageOK, Starting, Closing, Drained,
         Started
  <2>2. ConsumerOK'
    BY <1>36 DEF BatchReturns, ConsumeReturns, StageOK, ConsumerOK, Started
  <2>3. ShutdownOK'
    BY <1>36
       DEF BatchReturns, ConsumeReturns, StageOK, ConsumerOK, ShutdownOK, Starting, Closing,
         Drained, InFlight
  <2>4. ErrorsOK'
    BY <1>36
       DEF BatchReturns, ConsumeReturns, StageOK, ConsumerOK, ErrorsOK, Starting, Closing,
         Drained, Started, InFlight
  <2>5. CloseWaitsForOperations'
    BY <1>36 DEF BatchReturns, ConsumeReturns, CloseWaitsForOperations, Inside, NoWorkers
  <2> QED
    BY <1>0, <1>36, <2>1, <2>2, <2>3, <2>4, <2>5, <1>3, <1>6, <1>8, <1>9
       DEF BatchReturns, ConsumeReturns
<1>37. ASSUME Commit PROVE RuntimeInv'
  <2>1. StageOK'
    BY <1>37
       DEF Commit, ConsumeReturns, ConsumerOK, StageOK, Starting, Closing, Drained, Started
  <2>2. ConsumerOK'
    BY <1>37 DEF Commit, ConsumeReturns, StageOK, ConsumerOK, Started
  <2>3. ShutdownOK'
    BY <1>37
       DEF Commit, ConsumeReturns, StageOK, ConsumerOK, ShutdownOK, Starting, Closing,
         Drained, InFlight
  <2>4. ErrorsOK'
    BY <1>37
       DEF Commit, ConsumeReturns, StageOK, ConsumerOK, ErrorsOK, Starting, Closing, Drained,
         Started, InFlight
  <2>5. CloseWaitsForOperations'
    BY <1>37 DEF Commit, ConsumeReturns, CloseWaitsForOperations, Inside, NoWorkers
  <2> QED
    BY <1>0, <1>37, <2>1, <2>2, <2>3, <2>4, <2>5, <1>3, <1>6, <1>8, <1>9
       DEF Commit, ConsumeReturns
<1>38. ASSUME NEW p \in Partitions, Work(p) PROVE RuntimeInv'
  <2>1. ConsumerOK'
    <3>1. workers # NoWorkers
      BY <1>38 DEF Work, Load, Loaded, Apply, Applied, Retry, Abort, NoWorkers
    <3> QED
      BY <1>38, <3>1 DEF Work, ConsumerOK, Started
  <2>2. CloseWaitsForOperations'
    <3> SUFFICES ASSUME repo = "closed" PROVE Inside' = {}
      BY <1>38 DEF Work, CloseWaitsForOperations
    <3>1. Inside = {}
      BY DEF CloseWaitsForOperations
    <3>2. PICK next \in {"backoff", "failed", "attempt"} : workers' = [workers EXCEPT ![p] = next]
      BY <1>38, <3>1
         DEF Work, Load, Loaded, Apply, Applied, Retry, Abort, Enter, Transient, Inside
    <3>3. \A q \in Partitions : workers'[q] \in {"loading", "applying"} =>
            workers[q] \in {"loading", "applying"}
      BY <3>2 DEF TypeOK, ConsumerTypeOK
    <3> QED
      BY <1>38, <3>1, <3>3 DEF Work, Inside
  <2> QED
    BY <1>0, <1>38, <2>1, <2>2, <1>1, <1>3, <1>4, <1>5, <1>6, <1>8, <1>9
       DEF Work, Load, Loaded, Apply, Applied, Retry, Abort, Enter, Transient,
         OperationReturns
<1>39. CASE UNCHANGED vars
  BY <1>0, <1>39, <1>1, <1>2, <1>3, <1>4, <1>5, <1>6, <1>7, <1>8, <1>9 DEF vars
<1> HIDE DEF RuntimeInv
<1> QED
  BY <1>10, <1>11, <1>12, <1>13, <1>14, <1>15, <1>16, <1>17, <1>18, <1>19, <1>20, <1>21,
     <1>22, <1>23, <1>24, <1>25, <1>26, <1>27, <1>28, <1>29, <1>30, <1>31, <1>32, <1>33,
     <1>34, <1>35, <1>36, <1>37, <1>38, <1>39
     DEF Next, Startup, Shutdown, Consume, Terminated
-----------------------------------------------------------------------------
(******************************* theorems **********************************)

(* Every state of runWithSourceFactory and its goroutines satisfies the    *)
(* invariant: what is open, who runs, and what has been reported agree     *)
(* with the point that the startup or the shutdown has reached.            *)
THEOREM RuntimeSafety == Spec => []RuntimeInv
  BY RuntimeInit, RuntimeNext, PTL DEF Spec

(* The variables of the process keep their types; in particular its error  *)
(* is joined from known causes only, whatever Consume returned.            *)
THEOREM RuntimeTypeCorrect == Spec => []TypeOK
<1>1. RuntimeInv => TypeOK
  BY DEF RuntimeInv
<1> QED
  BY <1>1, RuntimeSafety, PTL

(* Repository.Close waits for every Query and every operation of a worker  *)
(* that holds the lock, and none begins once it has closed the database.   *)
THEOREM NoOperationOnClosed == Spec => []CloseWaitsForOperations
<1>1. RuntimeInv => CloseWaitsForOperations
  BY DEF RuntimeInv
<1> QED
  BY <1>1, RuntimeSafety, PTL

(* A shutdown that keeps its deadline closes the repository only when no   *)
(* query is in flight and Consume has returned, whatever ended the process.*)
THEOREM GracefulClose == Spec => []ClosedOnlyWhenIdle
<1>1. RuntimeInv => ClosedOnlyWhenIdle
  <2> SUFFICES ASSUME RuntimeInv, repo \in {"closing", "closed"}, ~timedOut
               PROVE  InFlight = {} /\ source \in {"none", "idle", "done"}
    BY DEF ClosedOnlyWhenIdle
  <2>1. main \in Closing
    BY DEF RuntimeInv, TypeOK, ProcessTypeOK, StageOK, Closing
  <2> QED
    BY <2>1 DEF RuntimeInv, ShutdownOK, Drained
<1> QED
  BY <1>1, RuntimeSafety, PTL

(* Whichever step of the startup fails and whatever stops the process, it  *)
(* exits with its repository and its source closed and its server down.    *)
THEOREM EverythingIsClosed == Spec => []NothingLeaks
<1>1. RuntimeInv => NothingLeaks
  BY DEF RuntimeInv, StageOK, NothingLeaks, Closing, Drained
<1> QED
  BY <1>1, RuntimeSafety, PTL

(* The exit status of main: zero only after a signal, with Consume ended   *)
(* without error and every query answered; and once the process has served *)
(* not zero only for a failure, never for the signal.                      *)
THEOREM ExitIsTruthful == Spec => []ExitStatusIsTruthful
<1>1. RuntimeInv => ExitStatusIsTruthful
  <2> SUFFICES ASSUME RuntimeInv PROVE ExitStatusIsTruthful
    OBVIOUS
  <2>1. ASSUME exit = "ok" PROVE ctxDone /\ outcome = "nil" /\ InFlight = {}
    <3>1. main = "exited" /\ errors = {}
      BY <2>1 DEF RuntimeInv, ErrorsOK
    <3> QED
      BY <3>1 DEF RuntimeInv, ErrorsOK, Drained, Closing
  <2>2. ASSUME exit = "error", Started
        PROVE  outcome = "error" \/ server = "failed" \/ timedOut \/ "close" \in errors
    <3>1. PICK reason \in Reasons : reason \in errors
      <4>1. errors # {}
        BY <2>2 DEF RuntimeInv, ErrorsOK
      <4> QED
        BY <4>1 DEF RuntimeInv, TypeOK, ProcessTypeOK
    <3> QED
      BY <2>2, <3>1 DEF RuntimeInv, ErrorsOK, Reasons
  <2> QED
    BY <2>1, <2>2 DEF ExitStatusIsTruthful
<1> QED
  BY <1>1, RuntimeSafety, PTL

(* serveQuery answers 400 only to a bad request and, while the shutdown    *)
(* keeps its deadline, 500 only after a failed read: no client is told of  *)
(* an internal error because the process was asked to stop.                *)
THEOREM HonestAnswers == Spec => []AnswersAreHonest
<1>1. RuntimeInv => AnswersAreHonest
  BY DEF RuntimeInv
<1> QED
  BY <1>1, RuntimeSafety, PTL

(* Whatever the environment, a configuration that FromLookup returns is    *)
(* accepted by newKafkaSource and by NewProcessor.                         *)
THEOREM ConfigurationIsEnough == Spec => []ConfigurationSuffices
<1>1. RuntimeInv => ConfigurationSuffices
  BY DEF RuntimeInv
<1> QED
  BY <1>1, RuntimeSafety, PTL
=============================================================================
