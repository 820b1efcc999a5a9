------------------------------ MODULE Runtime ------------------------------
(***************************************************************************)
(* One process, from its environment to its exit status: main, the startup *)
(* and shutdown of runWithSourceFactory, and the goroutines it shares the  *)
(* repository with: the HTTP server and its query handlers, the source's   *)
(* Consume loop and its partition workers.  They meet in the cancelled     *)
(* context, in the two result channels, in the shutdown deadline and in    *)
(* the lock of the repository, which every operation holds shared and      *)
(* Close holds exclusively.                                                *)
(*                                                                         *)
(* What an operation does to the database is SessionStore's and            *)
(* SessionQuery's; which records a batch has, and its offsets, are         *)
(* KafkaSource's; here each only returns or fails.                         *)
(***************************************************************************)
EXTENDS Configuration, FiniteSets

CONSTANTS
  Partitions,  \* one worker each, while a batch is processed
  Requests,    \* bound: the queries clients send
  Failures     \* TRUE when startup, network and database calls may fail

ASSUME FailuresAssumption == Failures \in BOOLEAN

VARIABLES
  main,       \* where main and runWithSourceFactory are
  config,     \* the loaded configuration, until the process serves
  ctxDone,    \* a signal has cancelled the context
  ready,      \* what /readyz reports
  timedOut,   \* the shutdown deadline has passed
  stopped,    \* sourceStopped: the result of Consume has been taken
  errors,     \* what the process will join into its error
  exit,       \* "none", then "ok" or "error"
  server,     \* the HTTP server
  requests,   \* request -> [pc, kind, status, faulted]
  source,     \* where Consume is
  outcome,    \* what Consume has returned
  closed,     \* Source.Close has been called
  workers,    \* partition -> where its worker is
  repo        \* the repository and its lock

process == <<main, config, stopped, errors, exit>>
shutdown == <<ctxDone, ready, timedOut>>
http == <<server, requests>>
consumer == <<source, outcome, closed, workers>>
vars == <<main, config, stopped, errors, exit, ctxDone, ready, timedOut, server,
          requests, source, outcome, closed, workers, repo>>

NoRequest == [pc |-> "none", kind |-> "none", status |-> 0, faulted |-> FALSE]
NoWorkers == [p \in Partitions |-> "none"]

Init ==
  /\ main = "load"
  /\ config = NoConfig
  /\ ctxDone = FALSE
  /\ ready = FALSE
  /\ timedOut = FALSE
  /\ stopped = FALSE
  /\ errors = {}
  /\ exit = "none"
  /\ server = "none"
  /\ requests = [r \in Requests |-> NoRequest]
  /\ source = "none"
  /\ outcome = "none"
  /\ closed = FALSE
  /\ workers = NoWorkers
  /\ repo = "none"

Running == main # "exited"
Started == server # "none"

(* The operations that hold the repository's lock shared. *)
Inside ==
  {p \in Partitions : workers[p] \in {"loading", "applying"}} \cup
  {r \in Requests : requests[r].pc = "reading"}

(* RLock waits for a Close that is waiting or at work. *)
LockIsFree == repo # "closing"
-----------------------------------------------------------------------------
(******************************** startup **********************************)

(* A signal cancels the context that everything but the shutdown runs      *)
(* with.  (Before the configuration is loaded it just kills the process.)  *)
Signal ==
  /\ main \notin {"load", "exited"}
  /\ ~ctxDone
  /\ ctxDone' = TRUE
  /\ UNCHANGED <<process, ready, timedOut, http, consumer, repo>>

LoadConfiguration ==
  /\ main = "load"
  /\ \E env \in Environments : config' = FromLookup(env)
  /\ IF config' = NoConfig
     THEN errors' = {"configuration"} /\ main' = "return"
     ELSE main' = "open" /\ UNCHANGED errors
  /\ UNCHANGED <<stopped, exit, shutdown, http, consumer, repo>>

(* Slip: the repository is left open when the source cannot be created. *)
CreateSourceOrReturn ==
  /\ main = "source"
  /\ \/ /\ SourceAccepts(config) /\ ~ctxDone
        /\ source' = "idle" /\ main' = "processor"
        /\ UNCHANGED errors
     \/ /\ ~SourceAccepts(config) \/ Failures \/ ctxDone
        /\ errors' = {IF SourceAccepts(config) THEN "ping" ELSE "options"}
        /\ main' = "return"
        /\ UNCHANGED source
  /\ UNCHANGED <<config, stopped, exit, shutdown, http, outcome, closed, workers, repo>>

(* sqlite.Open with the startup context: a new, empty database. *)
OpenRepository ==
  /\ main = "open"
  /\ \/ /\ ~ctxDone
        /\ repo' = "open" /\ main' = "source"
        /\ UNCHANGED errors
     \/ /\ Failures \/ ctxDone
        /\ errors' = {"open"} /\ main' = "return"
        /\ UNCHANGED repo
  /\ UNCHANGED <<config, stopped, exit, shutdown, http, consumer>>

(* newKafkaSource: the options are checked, the brokers pinged. *)
CreateSource ==
  /\ main = "source"
  /\ \/ /\ SourceAccepts(config) /\ ~ctxDone
        /\ source' = "idle" /\ main' = "processor"
        /\ UNCHANGED errors
     \/ /\ ~SourceAccepts(config) \/ Failures \/ ctxDone
        /\ errors' = {IF SourceAccepts(config) THEN "ping" ELSE "options"}
        /\ main' = "closeRepository"
        /\ UNCHANGED source
  /\ UNCHANGED <<config, stopped, exit, shutdown, http, outcome, closed, workers, repo>>

CreateProcessor ==
  /\ main = "processor"
  /\ IF ProcessorAccepts(config) THEN main' = "serve" /\ UNCHANGED errors
     ELSE errors' = {"processor"} /\ main' = "closeSource"
  /\ UNCHANGED <<config, stopped, exit, shutdown, http, consumer, repo>>

(* ListenAndServe and Consume get a goroutine each, then the process is    *)
(* ready.  Of the configuration only the shutdown timeout is still used,   *)
(* and no length of time is modelled.                                      *)
Serve ==
  /\ main = "serve"
  /\ server' = "starting"
  /\ source' = "poll"
  /\ ready' = TRUE
  /\ main' = "running"
  /\ config' = NoConfig
  /\ UNCHANGED <<stopped, ctxDone, timedOut, errors, exit, requests, outcome, closed, workers, repo>>
-----------------------------------------------------------------------------
(******************************** shutdown *********************************)

(* The select of runWithSourceFactory: any case that is ready may be taken,*)
(* and the readiness goes first of all.                                    *)
StopServing(reason, taken) ==
  /\ main = "running"
  /\ errors' = reason
  /\ stopped' = taken
  /\ ready' = FALSE
  /\ main' = "shutdown"
  /\ UNCHANGED <<config, exit, ctxDone, timedOut, http, consumer, repo>>

StopOnSignal == ctxDone /\ StopServing({}, FALSE)

StopOnSource ==
  /\ source = "done"
  /\ StopServing(IF outcome = "error" \/ ~ctxDone THEN {"source"} ELSE {}, TRUE)

StopOnServer == server = "failed" /\ StopServing({"server"}, FALSE)

(* server.Shutdown first closes the listeners ... *)
ShutdownServer ==
  /\ main = "shutdown"
  /\ server' = IF server = "failed" THEN "failed" ELSE "closed"
  /\ main' = "drain"
  /\ UNCHANGED <<config, stopped, errors, exit, shutdown, requests, consumer, repo>>

(* The shutdown context times out, whatever goes on. *)
DeadlinePasses ==
  /\ Started /\ main \in {"drain", "closeSource", "wait"}
  /\ ~timedOut
  /\ timedOut' = TRUE
  /\ UNCHANGED <<process, ctxDone, ready, http, consumer, repo>>

InFlight == {r \in Requests : requests[r].pc \notin {"none", "answered"}}

(* Slip: the requests in flight are not waited for. *)
StopDraining ==
  /\ main = "drain"
  /\ main' = "closeSource"
  /\ UNCHANGED <<config, stopped, errors, exit, shutdown, http, consumer, repo>>

(* Slip: Shutdown is given a context without a deadline. *)
DrainForever ==
  /\ main = "drain"
  /\ InFlight = {}
  /\ main' = "closeSource"
  /\ UNCHANGED <<config, stopped, errors, exit, shutdown, http, consumer, repo>>

(* ... and then waits for the requests in flight, or the deadline.         *)
Drain ==
  /\ main = "drain"
  /\ \/ InFlight = {} /\ UNCHANGED errors
     \/ timedOut /\ errors' = errors \cup {"drain"}
  /\ main' = "closeSource"
  /\ UNCHANGED <<config, stopped, exit, shutdown, http, consumer, repo>>

(* The source leaves its group and its client stops polling; a batch that  *)
(* is being processed goes on.                                             *)
CloseSource ==
  /\ main = "closeSource"
  /\ closed' = TRUE
  /\ main' = IF stopped \/ ~Started THEN "closeRepository" ELSE "wait"
  /\ UNCHANGED <<config, stopped, errors, exit, shutdown, http, source, outcome, workers, repo>>

(* Slip: the time-out is not reported. *)
GiveUpQuietly ==
  /\ main = "wait"
  /\ \/ source = "done" /\ errors' = errors \cup ({outcome} \ {"nil"})
     \/ timedOut /\ UNCHANGED errors
  /\ main' = "closeRepository"
  /\ UNCHANGED <<config, stopped, exit, shutdown, http, consumer, repo>>

(* Slip: nil results are joined as well. *)
WaitForSourceOrNil ==
  /\ main = "wait"
  /\ \/ source = "done" /\ errors' = errors \cup {outcome}
     \/ timedOut /\ errors' = errors \cup {"deadline"}
  /\ main' = "closeRepository"
  /\ UNCHANGED <<config, stopped, exit, shutdown, http, consumer, repo>>

(* shutdownSource waits for Consume to return until the deadline. *)
WaitForSource ==
  /\ main = "wait"
  /\ \/ source = "done" /\ errors' = errors \cup ({outcome} \ {"nil"})
     \/ timedOut /\ errors' = errors \cup {"deadline"}
  /\ main' = "closeRepository"
  /\ UNCHANGED <<config, stopped, exit, shutdown, http, consumer, repo>>

(* repo.Close asks for the lock; from then on no operation gets it shared. *)
LockRepository ==
  /\ main = "closeRepository" /\ repo = "open"
  /\ repo' = "closing"
  /\ UNCHANGED <<process, shutdown, http, consumer>>

(* Slip: Close does not take the lock. *)
CloseAtOnce ==
  /\ main = "closeRepository" /\ repo = "closing"
  /\ repo' = "closed"
  /\ main' = "return"
  /\ UNCHANGED <<config, stopped, errors, exit, shutdown, http, consumer>>

(* It gets the lock once no operation holds it.  There is no deadline.     *)
(* The repository is closed even if the database reports an error.         *)
CloseRepository ==
  /\ main = "closeRepository" /\ repo = "closing"
  /\ Inside = {}
  /\ repo' = "closed"
  /\ \/ UNCHANGED errors
     \/ Failures /\ errors' = errors \cup {"close"}
  /\ main' = "return"
  /\ UNCHANGED <<config, stopped, exit, shutdown, http, consumer>>

(* main: the process ends, with whatever is still running in it. *)
Exit ==
  /\ main = "return"
  /\ exit' = IF errors = {} THEN "ok" ELSE "error"
  /\ main' = "exited"
  /\ UNCHANGED <<config, stopped, errors, shutdown, http, consumer, repo>>
-----------------------------------------------------------------------------
(******************************* HTTP queries ******************************)

(* The goroutine of ListenAndServe: it may fail to listen, fail later, or  *)
(* start so late that the server has been shut down already.               *)
Listen ==
  /\ Running
  /\ server = "starting" /\ server' = "listening"
  /\ UNCHANGED <<process, shutdown, requests, consumer, repo>>

ListenFails ==
  /\ Running /\ Failures
  /\ server \in {"starting", "listening"} /\ server' = "failed"
  /\ UNCHANGED <<process, shutdown, requests, consumer, repo>>

(* A client's request: its body may be no query request at all, or its     *)
(* query may be invalid.                                                   *)
Accept(r) ==
  /\ Running /\ server = "listening"
  /\ requests[r].pc = "none"
  /\ \E kind \in {"query", "badQuery", "badBody"} :
       requests' = [requests EXCEPT ![r].pc = "body", ![r].kind = kind]
  /\ UNCHANGED <<process, shutdown, server, consumer, repo>>

Answer(r, status) ==
  requests' = [requests EXCEPT ![r].pc = "answered", ![r].status = status]

(* serveQuery reads the body at the client's pace. *)
Decode(r) ==
  /\ Running /\ requests[r].pc = "body"
  /\ IF requests[r].kind = "badBody" THEN Answer(r, 400)
     ELSE requests' = [requests EXCEPT ![r].pc = "decoded"]
  /\ UNCHANGED <<process, shutdown, server, consumer, repo>>

(* Repository.Query: ErrClosed is no invalid query, so it is a 500. *)
Query(r) ==
  /\ Running /\ requests[r].pc = "decoded"
  /\ LockIsFree
  /\ IF repo = "closed" THEN Answer(r, 500)
     ELSE requests' = [requests EXCEPT ![r].pc = "reading"]
  /\ UNCHANGED <<process, shutdown, server, consumer, repo>>

(* Slip: every error of the service is taken for an invalid query. *)
AnswerAlways400(r) ==
  /\ Running /\ requests[r].pc = "reading"
  /\ \/ Answer(r, IF requests[r].kind = "badQuery" THEN 400 ELSE 200)
     \/ /\ Failures /\ requests[r].kind = "query"
        /\ Answer(r, 400)
  /\ UNCHANGED <<process, shutdown, server, consumer, repo>>

(* The query is prepared, then read in a transaction. *)
AnswerQuery(r) ==
  /\ Running /\ requests[r].pc = "reading"
  /\ \/ Answer(r, IF requests[r].kind = "badQuery" THEN 400 ELSE 200)
     \/ /\ Failures /\ requests[r].kind = "query"
        /\ requests' = [requests EXCEPT ![r].pc = "answered", ![r].status = 500,
                                        ![r].faulted = TRUE]
  /\ UNCHANGED <<process, shutdown, server, consumer, repo>>
-----------------------------------------------------------------------------
(***************************** event processing ****************************)

(* Records of some partitions arrive; each partition's worker takes its    *)
(* first.  One that does not decode is dead-lettered before any attempt.   *)
Poll ==
  /\ Running /\ source = "poll" /\ ~ctxDone /\ ~closed
  /\ workers' \in [Partitions -> {"none", "attempt", "deadLetter"}] \ {NoWorkers}
  /\ source' = "process"
  /\ UNCHANGED <<process, shutdown, http, outcome, closed, repo>>

(* An error once the context is cancelled is no error of Consume. *)
ConsumeReturns(err) ==
  /\ source' = "done"
  /\ outcome' = IF ctxDone THEN "nil" ELSE err
  /\ workers' = NoWorkers
  /\ UNCHANGED <<process, shutdown, http, closed, repo>>

PollReturns ==
  /\ Running /\ source = "poll"
  /\ ctxDone \/ closed
  /\ ConsumeReturns("nil")

PollFails ==
  /\ Running /\ source = "poll"
  /\ Failures /\ ~closed
  /\ ConsumeReturns("error")

(* Handle at the start of an attempt, and between the two operations of    *)
(* ApplyEvent: the operation gets the lock and runs, or finds the          *)
(* repository closed, which is a transient error like any other.           *)
Transient(p) ==
  \E next \in {"backoff", "failed"} : workers' = [workers EXCEPT ![p] = next]

Enter(p, next) ==
  /\ ~ctxDone /\ LockIsFree
  /\ IF repo = "closed" THEN Transient(p)
     ELSE workers' = [workers EXCEPT ![p] = next]

Load(p)  == workers[p] = "attempt" /\ Enter(p, "loading")
Apply(p) == workers[p] = "loaded" /\ Enter(p, "applying")

(* The operation returns.  After the load the event is decided on, and may *)
(* be rejected for good; then it is logged as a dead letter and handled.   *)
OperationReturns(p, success) ==
  \/ workers' = [workers EXCEPT ![p] = success]
  \/ workers' = [workers EXCEPT ![p] = "deadLetter"]
  \/ Failures /\ Transient(p)
  \/ ctxDone /\ workers' = [workers EXCEPT ![p] = "failed"]

Loaded(p)  == workers[p] = "loading" /\ OperationReturns(p, "loaded")
Applied(p) == workers[p] = "applying" /\ OperationReturns(p, "applied")

Retry(p) ==
  workers[p] = "backoff" /\ ~ctxDone /\ workers' = [workers EXCEPT ![p] = "attempt"]

(* Slip: the retry delay is slept through. *)
AbortExceptInBackoff(p) ==
  /\ workers[p] \in {"attempt", "loaded"} /\ ctxDone
  /\ workers' = [workers EXCEPT ![p] = "failed"]

Abort(p) ==
  /\ workers[p] \in {"attempt", "loaded", "backoff"} /\ ctxDone
  /\ workers' = [workers EXCEPT ![p] = "failed"]

Work(p) ==
  /\ Running
  /\ Load(p) \/ Loaded(p) \/ Apply(p) \/ Applied(p) \/ Retry(p) \/ Abort(p)
  /\ UNCHANGED <<process, shutdown, http, source, outcome, closed, repo>>

(* workers.Wait, and then the commit. *)
BatchReturns ==
  /\ Running /\ source = "process"
  /\ \A p \in Partitions : workers[p] \in {"none", "applied", "deadLetter", "failed"}
  /\ IF \E p \in Partitions : workers[p] = "failed" THEN ConsumeReturns("error")
     ELSE /\ source' = "commit"
          /\ UNCHANGED <<process, shutdown, http, outcome, closed, workers, repo>>

Commit ==
  /\ Running /\ source = "commit"
  /\ \/ /\ ~closed
        /\ source' = "poll"
        /\ workers' = NoWorkers
        /\ UNCHANGED <<process, shutdown, http, outcome, closed, repo>>
     \/ /\ Failures \/ ctxDone \/ closed
        /\ ConsumeReturns("error")
-----------------------------------------------------------------------------
Startup ==
  LoadConfiguration \/ OpenRepository \/ CreateSource \/ CreateProcessor \/ Serve
Shutdown ==
  \/ StopOnSignal \/ StopOnSource \/ StopOnServer \/ ShutdownServer \/ Drain
  \/ CloseSource \/ WaitForSource \/ LockRepository \/ CloseRepository \/ Exit
Consume == Poll \/ PollReturns \/ PollFails \/ BatchReturns \/ Commit

Terminated == main = "exited" /\ UNCHANGED vars

Next ==
  \/ Signal \/ Startup \/ Shutdown \/ DeadlinePasses
  \/ Listen \/ ListenFails
  \/ \E r \in Requests : Accept(r) \/ Decode(r) \/ Query(r) \/ AnswerQuery(r)
  \/ Consume
  \/ \E p \in Partitions : Work(p)
  \/ Terminated

(* A goroutine that can run does run, and an operation on the database     *)
(* comes to an end.  Nothing obliges a client to connect or to send the    *)
(* rest of its request, a record to arrive, a failure to happen or a       *)
(* signal to come.  That the deadline, once set, does pass is assumed by   *)
(* the one property that needs it.                                         *)
Fairness ==
  /\ WF_vars(Startup) /\ WF_vars(Shutdown)
  /\ WF_vars(Listen)
  /\ WF_vars(PollReturns) /\ WF_vars(BatchReturns) /\ WF_vars(Commit)
  /\ \A r \in Requests : WF_vars(Query(r)) /\ WF_vars(AnswerQuery(r))
  /\ \A p \in Partitions : WF_vars(Work(p))

Spec == Init /\ [][Next]_vars /\ Fairness
-----------------------------------------------------------------------------
(*************************** What must be true *****************************)

Configurations == {NoConfig} \cup {FromLookup(env) : env \in Environments}

Reasons ==
  {"configuration", "open", "options", "ping", "processor", "source", "server", "drain",
   "error", "deadline", "close"}

ProcessTypeOK ==
  /\ main \in {"load", "open", "source", "processor", "serve", "running", "shutdown",
               "drain", "closeSource", "wait", "closeRepository", "return", "exited"}
  /\ config \in Configurations
  /\ errors \subseteq Reasons
  /\ exit \in {"none", "ok", "error"}
  /\ stopped \in BOOLEAN /\ ctxDone \in BOOLEAN /\ ready \in BOOLEAN /\ timedOut \in BOOLEAN
  /\ repo \in {"none", "open", "closing", "closed"}

HttpTypeOK ==
  /\ server \in {"none", "starting", "listening", "failed", "closed"}
  /\ requests \in [Requests ->
       [pc : {"none", "body", "decoded", "reading", "answered"},
        kind : {"none", "query", "badQuery", "badBody"},
        status : {0, 200, 400, 500}, faulted : BOOLEAN]]

ConsumerTypeOK ==
  /\ source \in {"none", "idle", "poll", "process", "commit", "done"}
  /\ outcome \in {"none", "nil", "error"}
  /\ closed \in BOOLEAN
  /\ workers \in [Partitions -> {"none", "attempt", "loading", "loaded", "applying",
                                 "backoff", "applied", "deadLetter", "failed"}]

TypeOK == ProcessTypeOK /\ HttpTypeOK /\ ConsumerTypeOK

(* The repository is closed under no operation: Close waits for those that *)
(* have begun, and those that come later find it closed.  All that keeps   *)
(* them apart is Repository.mu.                                            *)
CloseWaitsForOperations == repo = "closed" => Inside = {}

(* Only a shutdown that has run out of time closes the repository while a  *)
(* query is in flight or the source still processes; otherwise both have   *)
(* come to an end by themselves, in whichever order and for whatever       *)
(* reason the process stops.                                               *)
ClosedOnlyWhenIdle ==
  repo \in {"closing", "closed"} /\ ~timedOut =>
    InFlight = {} /\ source \in {"none", "idle", "done"}

(* Whichever step of the startup fails, and whatever ends the process, it  *)
(* closes all that it has opened, in time for nothing of it to be left.    *)
NothingLeaks ==
  main = "exited" =>
    /\ repo \in {"none", "closed"}
    /\ source = "none" \/ closed
    /\ server # "listening"

(* The exit status tells the truth.  Success: a signal asked for the stop, *)
(* Consume ended without an error and every query taken was answered.  A   *)
(* failure, once the process has served: the source, the server, the       *)
(* database's close or the shutdown timeout failed; the signal itself      *)
(* never makes one.                                                        *)
ExitStatusIsTruthful ==
  /\ exit = "ok" => ctxDone /\ outcome = "nil" /\ InFlight = {}
  /\ exit = "error" /\ Started =>
       outcome = "error" \/ server = "failed" \/ timedOut \/ "close" \in errors

(* A client gets a 400 only for its own mistake, and a 500 only when its   *)
(* read has failed or the shutdown has run out of time: a shutdown that    *)
(* keeps its deadline is never an internal error to anybody.  And /readyz  *)
(* says ready only while nothing has been taken down.                      *)
AnswersAreHonest ==
  \A r \in Requests :
    LET q == requests[r] IN
    /\ q.status = 400 => q.kind \in {"badBody", "badQuery"}
    /\ q.status = 200 => q.kind = "query" /\ ~q.faulted
    /\ q.status = 500 => q.faulted \/ timedOut
    /\ ready => server # "closed" /\ ~closed /\ repo = "open"

(* A configuration that the validation lets through is accepted by all     *)
(* that take options from it: no bad option is discovered only after the   *)
(* database is open.                                                       *)
ConfigurationSuffices == errors \cap {"options", "processor"} = {}

(* A shutdown ends, whatever clients, records and failures do.  Up to the  *)
(* repository's Close the deadline sees to it; Close has none and depends  *)
(* on every operation coming to an end.                                    *)
ShutdownEnds ==
  WF_vars(DeadlinePasses) => (main = "shutdown" ~> main = "exited")

(* A signal ends the source with no help from the deadline: no worker goes *)
(* on retrying, waiting or writing once its context is cancelled.          *)
SignalStopsSource == ctxDone /\ source = "process" ~> source = "done" \/ timedOut
=============================================================================
