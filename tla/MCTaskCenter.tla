---------------------------- MODULE MCTaskCenter ----------------------------
(***************************************************************************)
(* Small instances of TaskCenter for TLC.  In calm weather the database     *)
(* does what it is told (Outages is FALSE in the cfg); in a storm it may    *)
(* refuse any statement, and then a row may wait for the next restart.      *)
(***************************************************************************)
EXTENDS TaskCenter, TLC

CONSTANTS r1, d1

VARIABLE weather

OnlyRun == r1 :> d1

Stormy == INSTANCE TaskCenter WITH Outages <- TRUE

Steady == UNCHANGED weather
Calm == weather = "calm" /\ UNCHANGED weather
Storm == weather = "stormy" /\ UNCHANGED weather

\* Next, one action a disjunct: those that may meet an outage in each weather.
WeatherNext ==
  \/ \E r \in Runs, i \in Instances : Begin(r, i) /\ Steady
  \/ \E r \in Runs : Decide(r) /\ Steady
  \/ \E r \in Runs : Leave(r) /\ Steady
  \/ \E r \in Runs : QueueStops(r) /\ Steady
  \/ \E r \in Runs : Purge(r) /\ Steady
  \/ \E c \in Completers : ReadDefinition(c) /\ Steady
  \/ \E c \in Completers : WriteDefinition(c) /\ Steady
  \/ \E c \in Completers : NotifyFinished(c) /\ Steady
  \/ \E q \in Requests, r \in Runs, i \in Instances : Ask(q, r, i) /\ Steady
  \/ \E q \in Requests : Signal(q) /\ Steady
  \/ \E i \in Instances : Boot(i) /\ Steady
  \/ \E i \in Instances, r \in Runs : FailInterrupted(i, r) /\ Steady
  \/ \E i \in Instances : Serve(i) /\ Steady
  \/ \E i \in Instances : Crash(i) /\ Steady
  \/ \E r \in Runs : CreateRow(r) /\ Calm
  \/ \E r \in Runs : CreateRowFails(r) /\ Calm
  \/ \E r \in Runs : StartRow(r) /\ Calm
  \/ \E r \in Runs : CompleteExecution(r) /\ Calm
  \/ \E q \in Requests : Mark(q) /\ Calm
  \/ \E q \in Requests : Revert(q) /\ Calm
  \/ \E r \in Runs : Stormy!CreateRowFails(r) /\ Storm
  \/ \E r \in Runs : Stormy!CreateRow(r) /\ Storm
  \/ \E r \in Runs : Stormy!StartRow(r) /\ Storm
  \/ \E r \in Runs : Stormy!CompleteExecution(r) /\ Storm
  \/ \E q \in Requests : Stormy!Mark(q) /\ Storm
  \/ \E q \in Requests : Stormy!Revert(q) /\ Storm
  \/ \E i \in Instances : Stormy!RecoveryFails(i) /\ Storm

WeatherInit == Init /\ weather \in {"calm", "stormy"}

Forecast ==
  /\ WeatherInit
  /\ [][WeatherNext]_<<vars, weather>>
  /\ weather = "calm" => Fairness

\* Unless the database refuses a statement, a row does not stay in canceling
\* with nobody at work on it (taskcenter/service.go:328-343).
CalmCancelingIsHeard == weather = "calm" => CancelingIsHeard

\* Unless the database refuses a statement, every run that got a row ends,
\* although the instance crashes and requests to cancel come at any time.
CalmRunsEnd == weather = "calm" => RunsEnd
=============================================================================
