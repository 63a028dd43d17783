--------------------------- MODULE AnalysisPools ---------------------------
(***************************************************************************)
(* An analysis pipeline as it runs: requests of HTTP handlers with a       *)
(* time-out of two seconds, the engine's trigger on a detection, the       *)
(* dispatcher, the workers, the aggregator, and the end that main waits    *)
(* for.  The two pipelines share nothing, and a behaviour is about one:    *)
(*   "routes"     Pipeline 1 answers GET /analysis/routes through its      *)
(*                workers                                                  *)
(*   "intercept"  Pipeline 2 has the same stages and an aggregator, but    *)
(*                only the trigger uses them: GET /analysis/intercept is   *)
(*                computed by a goroutine of its own, as is a request that *)
(*                comes before Pipeline 1 runs                             *)
(***************************************************************************)
EXTENDS RouteAnalysis

CONSTANTS
    Handlers,       \* the requests of HTTP handlers, each made once
    Triggers,       \* the detections of the engine
    Workers,        \* the workers of a pipeline
    DispatchCap,    \* the capacity of dispatchCh
    WorkerCap,      \* the capacity of workerCh and of aggregateCh
    Worlds          \* the states that are published, one after the other

Requests == Handlers \cup Triggers

ASSUME PoolAssumption ==
    /\ Handlers \cap Triggers = {} /\ Workers # {}
    /\ DispatchCap \in Nat \ {0} /\ WorkerCap \in Nat \ {0}
    /\ Worlds \in Seq(WorldState) /\ Len(Worlds) > 0

VARIABLES
    pipeline,       \* which of the two this is
    published,      \* the number of the state in the cache
    caller,         \* caller[r], where the handler (or the engine) is
    snapshot,       \* snapshot[r], the state r is about
    resultCh,       \* resultCh[r], of capacity 1
    answer,         \* answer[r], what the handler responds with
    helper,         \* helper[r], the goroutine of a request that has one
    running,        \* Start has been called
    dispatchCh, dispatcher, held,
    workerCh, worker, job,
    aggregateCh, aggregateOpen, aggregator,
    done,           \* closed on SIGTERM
    wgDone          \* the pipeline has told main that it has ended

data == <<pipeline, published, snapshot>>
requests == <<caller, resultCh, answer, helper>>
stages == <<running, dispatchCh, dispatcher, held, workerCh, worker, job>>
aggregation == <<aggregateCh, aggregateOpen, aggregator>>
shutdown == <<done, wgDone>>
vars == <<data, requests, stages, aggregation, shutdown>>

Init ==
    /\ pipeline \in {"routes", "intercept"} /\ published = 1
    /\ caller = [r \in Requests |-> "new"] /\ snapshot = [r \in Requests |-> 1]
    /\ resultCh = [r \in Handlers |-> <<>>] /\ answer = [r \in Handlers |-> <<>>]
    /\ helper = [r \in Handlers |-> "none"]
    /\ running = FALSE
    /\ dispatchCh = <<>> /\ dispatcher = "idle" /\ held = {}
    /\ workerCh = <<>>
    /\ worker = [w \in Workers |-> "idle"] /\ job = [w \in Workers |-> {}]
    /\ aggregateCh = <<>> /\ aggregateOpen = TRUE /\ aggregator = "running"
    /\ done = FALSE /\ wgDone = FALSE

\* the engine publishes the next state
Publish ==
    /\ published < Len(Worlds) /\ published' = published + 1
    /\ UNCHANGED <<pipeline, snapshot, requests, stages, aggregation, shutdown>>

\* the goroutine that main starts gets to run
Start ==
    /\ ~running /\ running' = TRUE
    /\ UNCHANGED <<data, requests, dispatchCh, dispatcher, held, workerCh, worker, job,
                   aggregation, shutdown>>

----------------------------------------------------------------------------
(***************************************************************************)
(* Handlers and the engine: Request, TriggerAsync.                         *)
(***************************************************************************)
\* what the computation finds in each state
Analyses ==
    [k \in DOMAIN Worlds |->
       [routes |-> RankRoutes(Worlds[k]),
        intercept |-> [b \in {Worlds[k].trueRegion, ""} |->
                         ComputeInterceptionPlans(Worlds[k], b)]]]

\* where the request says the Ring Bearer is: the engine knows; the handlers read
\* DarkView.LastDetectedRegion, to which nothing is ever written
Bearer(r) == IF r \in Triggers THEN Worlds[snapshot[r]].trueRegion ELSE ""

AnalysisOf(r, k) ==
    IF pipeline = "routes" THEN Analyses[k].routes ELSE Analyses[k].intercept[Bearer(r)]

\* mutant: the computation reads the cache and not its copy
AnalyseCurrent(r) == AnalysisOf(r, published)

\* computed from the copy that came with the request
Analyse(r) == AnalysisOf(r, snapshot[r])

\* the requests whose context is done; a trigger has none that could be
Cancelled == {r \in Handlers : caller[r] \in {"answered", "gone"}}

Ask(r) ==
    /\ ~done /\ caller[r] = "new"
    /\ snapshot' = [snapshot EXCEPT ![r] = published]
    /\ IF pipeline = "routes" /\ running
       THEN caller' = [caller EXCEPT ![r] = "sending"] /\ UNCHANGED helper
       ELSE /\ caller' = [caller EXCEPT ![r] = "waiting"]
            /\ helper' = [helper EXCEPT ![r] = "working"]
    /\ UNCHANGED <<pipeline, published, resultCh, answer, stages, aggregation, shutdown>>

\* mutant: the queue has no limit
SendAnyway(r) ==
    /\ caller[r] = "sending" /\ caller' = [caller EXCEPT ![r] = "waiting"]
    /\ dispatchCh' = Append(dispatchCh, r)
    /\ UNCHANGED <<data, resultCh, answer, helper, running, dispatcher, held,
                   workerCh, worker, job, aggregation, shutdown>>

Send(r) ==
    /\ caller[r] = "sending" /\ caller' = [caller EXCEPT ![r] = "waiting"]
    /\ Len(dispatchCh) < DispatchCap /\ dispatchCh' = Append(dispatchCh, r)
    /\ UNCHANGED <<data, resultCh, answer, helper, running, dispatcher, held,
                   workerCh, worker, job, aggregation, shutdown>>

\* two seconds have passed: "pipeline_full" or "analysis_timeout"
GiveUp(r) ==
    /\ caller[r] \in {"sending", "waiting"}
    /\ caller' = [caller EXCEPT ![r] = "gone"]
    /\ UNCHANGED <<data, resultCh, answer, helper, stages, aggregation, shutdown>>

TakeResult(r) ==
    /\ caller[r] = "waiting" /\ resultCh[r] # <<>>
    /\ caller' = [caller EXCEPT ![r] = "answered"]
    /\ answer' = [answer EXCEPT ![r] = resultCh[r]]
    /\ resultCh' = [resultCh EXCEPT ![r] = <<>>]
    /\ UNCHANGED <<data, helper, stages, aggregation, shutdown>>

\* a turn that detects the Ring Bearer passes on the state that it will publish;
\* the engine never waits: without room the trigger is dropped
Trigger(r) ==
    /\ pipeline = "intercept" /\ caller[r] = "new"
    /\ published < Len(Worlds) /\ \A t \in Triggers : snapshot[t] <= published
    /\ snapshot' = [snapshot EXCEPT ![r] = published + 1]
    /\ caller' = [caller EXCEPT ![r] = "gone"]
    /\ dispatchCh' = IF Len(dispatchCh) < DispatchCap THEN Append(dispatchCh, r)
                     ELSE dispatchCh
    /\ UNCHANGED <<pipeline, published, resultCh, answer, helper, running, dispatcher, held,
                   workerCh, worker, job, aggregation, shutdown>>

\* the goroutine of Request itself, for want of a pipeline
HelperAnswers(r) ==
    /\ helper[r] = "working" /\ helper' = [helper EXCEPT ![r] = "ended"]
    /\ \/ resultCh[r] = <<>> /\ resultCh' = [resultCh EXCEPT ![r] = <<Analyse(r)>>]
       \/ r \in Cancelled /\ UNCHANGED resultCh
    /\ UNCHANGED <<data, caller, answer, stages, aggregation, shutdown>>

----------------------------------------------------------------------------
(***************************************************************************)
(* The stages.                                                             *)
(***************************************************************************)
\* mutant: the request stays in the channel
DispatchAndKeep ==
    /\ running /\ dispatcher = "idle" /\ dispatchCh # <<>>
    /\ dispatcher' = "sending" /\ held' = {Head(dispatchCh)}
    /\ UNCHANGED <<data, requests, running, dispatchCh, workerCh, worker, job, aggregation,
                   shutdown>>

Dispatch ==
    /\ running /\ dispatcher = "idle" /\ dispatchCh # <<>>
    /\ dispatcher' = "sending" /\ held' = {Head(dispatchCh)}
    /\ dispatchCh' = Tail(dispatchCh)
    /\ UNCHANGED <<data, requests, running, workerCh, worker, job, aggregation, shutdown>>

\* to the workers, or nowhere when nobody waits any more
HandOver ==
    /\ dispatcher = "sending" /\ dispatcher' = "idle" /\ held' = {}
    /\ \/ /\ Len(workerCh) < WorkerCap
          /\ \E r \in held : workerCh' = Append(workerCh, r)
       \/ held \subseteq Cancelled /\ UNCHANGED workerCh
    /\ UNCHANGED <<data, requests, running, dispatchCh, worker, job, aggregation, shutdown>>

\* what is in dispatchCh stays there; workerCh is closed
EndDispatcher ==
    /\ running /\ done /\ dispatcher # "ended"
    /\ dispatcher' = "ended" /\ held' = {}
    /\ UNCHANGED <<data, requests, running, dispatchCh, workerCh, worker, job, aggregation,
                   shutdown>>

\* what nobody waits for is not computed
TakeJob(w) ==
    /\ running /\ worker[w] = "idle" /\ workerCh # <<>>
    /\ workerCh' = Tail(workerCh)
    /\ IF Head(workerCh) \in Cancelled THEN UNCHANGED <<worker, job>>
       ELSE /\ worker' = [worker EXCEPT ![w] = "sending"]
            /\ job' = [job EXCEPT ![w] = {Head(workerCh)}]
    /\ UNCHANGED <<data, requests, running, dispatchCh, dispatcher, held, aggregation, shutdown>>

EndJob(w) ==
    /\ worker[w] = "sending"
    /\ worker' = [worker EXCEPT ![w] = "idle"] /\ job' = [job EXCEPT ![w] = {}]

\* mutant: the worker waits for the handler to take the result
HandToHandler(w) ==
    /\ pipeline = "routes" /\ EndJob(w)
    /\ \E r \in job[w] :
         caller[r] = "waiting" /\ resultCh' = [resultCh EXCEPT ![r] = <<Analyse(r)>>]
    /\ UNCHANGED <<data, caller, answer, helper, running, dispatchCh, dispatcher, held,
                   workerCh, aggregation, shutdown>>

\* Pipeline 1: a late answer blocks nobody
Deliver(w) ==
    /\ pipeline = "routes" /\ EndJob(w)
    /\ \E r \in job[w] :
         \/ resultCh[r] = <<>> /\ resultCh' = [resultCh EXCEPT ![r] = <<Analyse(r)>>]
         \/ r \in Cancelled /\ UNCHANGED resultCh
    /\ UNCHANGED <<data, caller, answer, helper, running, dispatchCh, dispatcher, held,
                   workerCh, aggregation, shutdown>>

\* Pipeline 2: a trigger has no context that could end
Aggregate(w) ==
    /\ pipeline = "intercept" /\ EndJob(w)
    /\ Len(aggregateCh) < WorkerCap
    /\ \E r \in job[w] : aggregateCh' = Append(aggregateCh, r)
    /\ UNCHANGED <<data, requests, running, dispatchCh, dispatcher, held, workerCh,
                   aggregateOpen, aggregator, shutdown>>

EndWorker(w) ==
    /\ worker[w] = "idle" /\ workerCh = <<>> /\ dispatcher = "ended"
    /\ worker' = [worker EXCEPT ![w] = "ended"]
    /\ UNCHANGED <<data, requests, running, dispatchCh, dispatcher, held, workerCh, job,
                   aggregation, shutdown>>

AllEnded == \A w \in Workers : worker[w] = "ended"

\* the plan goes to game.analysis.intercept, a topic RouteEvent does not know
RoutePlan ==
    /\ aggregator = "running" /\ aggregateCh # <<>>
    /\ aggregateCh' = Tail(aggregateCh)
    /\ UNCHANGED <<data, requests, stages, aggregateOpen, aggregator, shutdown>>

\* mutant: aggregateCh is closed when the dispatcher is done
CloseEarly ==
    /\ dispatcher = "ended" /\ aggregateOpen /\ aggregateOpen' = FALSE
    /\ UNCHANGED <<data, requests, stages, aggregateCh, aggregator, shutdown>>

CloseAggregate ==
    /\ AllEnded /\ aggregateOpen /\ aggregateOpen' = FALSE
    /\ UNCHANGED <<data, requests, stages, aggregateCh, aggregator, shutdown>>

EndAggregator ==
    /\ aggregator = "running" /\ ~aggregateOpen /\ aggregateCh = <<>>
    /\ aggregator' = "ended"
    /\ UNCHANGED <<data, requests, stages, aggregateCh, aggregateOpen, shutdown>>

----------------------------------------------------------------------------
\* a signal
Shutdown ==
    /\ ~done /\ done' = TRUE
    /\ UNCHANGED <<data, requests, stages, aggregation, wgDone>>

\* Pipeline1.Start waits for its workers and calls wg.Done; Pipeline2.Start has
\* returned long ago and did not
CallDone ==
    /\ pipeline = "routes" /\ AllEnded /\ ~wgDone /\ wgDone' = TRUE
    /\ UNCHANGED <<data, requests, stages, aggregation, done>>

Handle(r) == Send(r) \/ GiveUp(r) \/ TakeResult(r)

Dispatcher == Dispatch \/ HandOver \/ EndDispatcher

Work(w) == TakeJob(w) \/ Deliver(w) \/ Aggregate(w) \/ EndWorker(w)

Aggregator == RoutePlan \/ EndAggregator

Next ==
    \/ Publish \/ Start \/ Shutdown
    \/ \E r \in Handlers : Ask(r) \/ Handle(r) \/ HelperAnswers(r)
    \/ \E r \in Triggers : Trigger(r)
    \/ Dispatcher
    \/ \E w \in Workers : Work(w)
    \/ CloseAggregate \/ Aggregator \/ CallDone

Spec == Init /\ [][Next]_vars

\* every goroutine that can go on does, and the clock runs
FairSpec ==
    /\ Spec
    /\ WF_vars(Start) /\ WF_vars(Dispatcher)
    /\ \A r \in Handlers : WF_vars(Handle(r)) /\ WF_vars(HelperAnswers(r))
    /\ \A w \in Workers : WF_vars(Work(w))
    /\ WF_vars(CloseAggregate) /\ WF_vars(Aggregator) /\ WF_vars(CallDone)
=============================================================================
