----------------------------- MODULE MCTransfers -----------------------------
(***************************************************************************)
(* Instances of Transfers for the model checker.  Transfers do not         *)
(* interact but through the server, which stops for all of them at once.   *)
(* In calm weather no statement is refused (Outages is FALSE in the cfg)    *)
(* and there is fairness; in a storm any may be refused, and the server    *)
(* stops once at most (a bound).                                           *)
(***************************************************************************)
EXTENDS Transfers

VARIABLE weather

Stormy == INSTANCE Transfers WITH Outages <- TRUE, MaxCrashes <- 1

Calm == weather = "calm" /\ UNCHANGED weather
Storm == weather = "stormy" /\ UNCHANGED weather

WeatherInit == Init /\ weather \in {"calm", "stormy"}

WeatherNext ==
  \/ Next /\ Calm
  \/ Stormy!Next /\ Storm

weatherVars == <<vars, weather>>

\* Fairness of Transfers, in calm weather.
Forecast ==
  /\ WeatherInit
  /\ [][WeatherNext]_weatherVars
  /\ \A p \in Procs :
       WF_weatherVars(Calm /\ ProcessStep(p)) /\ SF_weatherVars(Calm /\ TransferOver(p))
  /\ \A t \in Transfers :
       /\ SF_weatherVars(Calm /\ StagingOver(t))
       /\ WF_weatherVars(Calm /\ Take(t))
       /\ WF_weatherVars(Calm /\ Expire(t))
  /\ WF_weatherVars(Calm /\ BootStep)

\* Unless a statement is refused, a job that the queue counts as a success
\* leaves no transfer open (transferjob/service.go:754).
CalmDoneMeansEnded == weather = "calm" => DoneMeansEnded

\* Unless a statement is refused, a transfer that was accepted ends while the
\* server keeps running, whenever a cancellation comes (transferjob/service.go:269).
CalmTransfersEnd == weather = "calm" => TransfersEnd

\* Unless a statement is refused, a run that was created for a transfer ends
\* while the server keeps running and nobody cancels (transferjob/service.go:1250).
CalmRunsEnd == weather = "calm" => RunsEnd
=============================================================================
