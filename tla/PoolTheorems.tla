---------------------------- MODULE PoolTheorems ----------------------------
(***************************************************************************)
(* The analysis pipelines, for every number of handlers, triggers and      *)
(* workers, all capacities, and every map, route and published state.      *)
(***************************************************************************)
EXTENDS RouteTheorems

----------------------------------------------------------------------------
(***************************************************************************)
(* Channels: sequences in which nothing is twice.                          *)
(***************************************************************************)
NoDuplicates(ch) == \A i, j \in DOMAIN ch : ch[i] = ch[j] => i = j

LEMMA Entered ==
    ASSUME NEW S, NEW ch \in Seq(S), NEW r \in S
    PROVE  /\ Append(ch, r) \in Seq(S) /\ Len(Append(ch, r)) = Len(ch) + 1
           /\ ToSet(Append(ch, r)) = ToSet(ch) \cup {r}
           /\ NoDuplicates(ch) /\ r \notin ToSet(ch) => NoDuplicates(Append(ch, r))
<1>1. /\ Append(ch, r) \in Seq(S) /\ Len(Append(ch, r)) = Len(ch) + 1
      /\ DOMAIN Append(ch, r) = 1..(Len(ch) + 1) /\ DOMAIN ch = 1..Len(ch)
      /\ Append(ch, r)[Len(ch) + 1] = r /\ \A i \in 1..Len(ch) : Append(ch, r)[i] = ch[i]
      /\ Len(ch) \in Nat
  OBVIOUS
<1> DEFINE new == Append(ch, r)
<1> HIDE DEF new
<1>2. ToSet(new) = ToSet(ch) \cup {r}
  <2>1. ASSUME NEW x \in ToSet(new) PROVE x \in ToSet(ch) \cup {r}
    BY <1>1 DEF ToSet, new
  <2>2. ASSUME NEW x \in ToSet(ch) PROVE x \in ToSet(new)
    BY <1>1 DEF ToSet, new
  <2>3. r \in ToSet(new)
    BY <1>1 DEF ToSet, new
  <2> QED
    BY <2>1, <2>2, <2>3
<1>3. NoDuplicates(ch) /\ r \notin ToSet(ch) => NoDuplicates(new)
  BY <1>1 DEF ToSet, NoDuplicates, new
<1> QED
  BY <1>1, <1>2, <1>3 DEF new

LEMMA Taken ==
    ASSUME NEW S, NEW ch \in Seq(S), ch # <<>>
    PROVE  /\ Head(ch) \in S /\ Tail(ch) \in Seq(S) /\ Len(Tail(ch)) = Len(ch) - 1
           /\ Head(ch) \in ToSet(ch) /\ ToSet(Tail(ch)) \subseteq ToSet(ch)
           /\ NoDuplicates(ch) => NoDuplicates(Tail(ch)) /\ Head(ch) \notin ToSet(Tail(ch))
<1>1. /\ Head(ch) = ch[1] /\ ch[1] \in S /\ Tail(ch) \in Seq(S) /\ Len(Tail(ch)) = Len(ch) - 1
      /\ DOMAIN Tail(ch) = 1..(Len(ch) - 1) /\ DOMAIN ch = 1..Len(ch)
      /\ \A i \in 1..(Len(ch) - 1) : Tail(ch)[i] = ch[i + 1]
      /\ Len(ch) \in Nat /\ Len(ch) > 0
  OBVIOUS
<1> DEFINE rest == Tail(ch)
<1> HIDE DEF rest
<1>2. ToSet(rest) \subseteq ToSet(ch) /\ ch[1] \in ToSet(ch)
  BY <1>1 DEF ToSet, rest
<1>3. NoDuplicates(ch) => NoDuplicates(rest)
  BY <1>1 DEF NoDuplicates, rest
<1>4. NoDuplicates(ch) => ch[1] \notin ToSet(rest)
  BY <1>1 DEF NoDuplicates, ToSet, rest
<1> QED
  BY <1>1, <1>2, <1>3, <1>4 DEF rest

LEMMA EmptyChannel ==
    ASSUME NEW S
    PROVE  <<>> \in Seq(S) /\ Len(<<>>) = 0 /\ ToSet(<<>>) = {} /\ NoDuplicates(<<>>)
  BY DEF ToSet, NoDuplicates

----------------------------------------------------------------------------
(***************************************************************************)
(* The inductive invariant.  Every place where a request can be is apart   *)
(* from the others, and a request is nowhere before its caller has sent    *)
(* it; what a worker holds is one request; what is computed is computed    *)
(* from the snapshot, which is not replaced any more; and the aggregator   *)
(* only sees triggers.                                                     *)
(***************************************************************************)
Jobs == UNION {job[w] : w \in Workers}

\* the requests with a goroutine of their own, or with a result that waits
Own == {h \in Handlers : helper[h] = "working" \/ resultCh[h] # <<>>}

Queued == ToSet(dispatchCh) \cup held \cup ToSet(workerCh) \cup Jobs \cup ToSet(aggregateCh)

Sent == {r \in Requests : caller[r] \notin {"new", "sending"}}

Apart ==
    /\ NoDuplicates(dispatchCh) /\ NoDuplicates(workerCh) /\ NoDuplicates(aggregateCh)
    /\ ToSet(dispatchCh) \cap (held \cup ToSet(workerCh) \cup Jobs \cup ToSet(aggregateCh)) = {}
    /\ held \cap (ToSet(workerCh) \cup Jobs \cup ToSet(aggregateCh)) = {}
    /\ ToSet(workerCh) \cap (Jobs \cup ToSet(aggregateCh)) = {}
    /\ Jobs \cap ToSet(aggregateCh) = {}
    /\ Own \cap Queued = {}
    /\ Own \cup Queued \subseteq Sent

Busy ==
    /\ \/ dispatcher = "sending" /\ \E r \in Requests : held = {r}
       \/ dispatcher # "sending" /\ held = {}
    /\ \A w \in Workers :
         \/ worker[w] = "sending" /\ \E r \in Requests : job[w] = {r}
         \/ worker[w] # "sending" /\ job[w] = {}
    /\ \A w, v \in Workers : w # v => job[w] \cap job[v] = {}

Kinds ==
    /\ Queued \subseteq (IF pipeline = "routes" THEN Handlers ELSE Triggers)
    /\ pipeline = "routes" => aggregateCh = <<>>
    /\ \A r \in Handlers : caller[r] = "sending" => pipeline = "routes"

Results ==
    /\ resultCh = [r \in Handlers |-> resultCh[r]] /\ answer = [r \in Handlers |-> answer[r]]
    /\ \A r \in Handlers :
         /\ resultCh[r] \in {<<>>, <<Analyse(r)>>} /\ answer[r] \in {<<>>, <<Analyse(r)>>}
         /\ caller[r] \in {"new", "sending"} => resultCh[r] = <<>> /\ answer[r] = <<>>
         /\ caller[r] = "answered" => answer[r] # <<>>

PoolInv == TypeOK /\ Apart /\ Busy /\ Kinds /\ Results /\ NothingAfterClose

----------------------------------------------------------------------------
(***************************************************************************)
(* Types.                                                                  *)
(***************************************************************************)
LEMMA InitTypes == Init => TypeOK
<1> SUFFICES ASSUME Init PROVE TypeOK
  OBVIOUS
<1>1. 1 \in DOMAIN Worlds
  BY PoolAssumption
<1>2. <<>> \in Seq(Requests) /\ Len(<<>>) = 0
  BY EmptyChannel
<1>3. DispatchCap \in Nat /\ WorkerCap \in Nat
  BY PoolAssumption
<1>4. /\ published \in DOMAIN Worlds /\ snapshot \in [Requests -> DOMAIN Worlds]
      /\ caller \in [Requests -> {"new", "sending", "waiting", "answered", "gone"}]
      /\ helper \in [Handlers -> {"none", "working", "ended"}]
      /\ worker \in [Workers -> {"idle", "sending", "ended"}] /\ job \in [Workers -> {{}}]
      /\ \A r \in Handlers : resultCh[r] = <<>> /\ answer[r] = <<>>
  BY <1>1 DEF Init
<1>5. job \in [Workers -> SUBSET Requests] /\ held \in SUBSET Requests
  BY <1>4 DEF Init
<1>6. \A r \in Handlers : Len(resultCh[r]) \in 0..1 /\ Len(answer[r]) \in 0..1
  BY <1>2, <1>4
<1>7. /\ dispatchCh \in Seq(Requests) /\ Len(dispatchCh) <= DispatchCap
      /\ workerCh \in Seq(Requests) /\ Len(workerCh) <= WorkerCap
      /\ aggregateCh \in Seq(Requests) /\ Len(aggregateCh) <= WorkerCap
  BY <1>2, <1>3 DEF Init
<1>8. /\ pipeline \in {"routes", "intercept"} /\ dispatcher \in {"idle", "sending", "ended"}
      /\ aggregator \in {"running", "ended"}
      /\ {running, aggregateOpen, done, wgDone} \subseteq BOOLEAN
  BY DEF Init
<1> QED
  BY <1>4, <1>5, <1>6, <1>7, <1>8 DEF TypeOK

\* what a handler and its goroutine do
LEMMA RequestTypes ==
    ASSUME TypeOK, Results, NEW r \in Handlers,
           Ask(r) \/ Handle(r) \/ HelperAnswers(r)
    PROVE  TypeOK'
<1> USE DEF TypeOK, data, requests, stages, aggregation, shutdown
<1>1. r \in Requests
  BY DEF Requests
<1>2. CASE Ask(r)
  BY <1>1, <1>2 DEF Ask
<1>3. CASE Send(r)
  <2>1. DispatchCap \in Nat /\ Len(dispatchCh) \in Nat
    BY PoolAssumption
  <2>2. dispatchCh' \in Seq(Requests) /\ Len(dispatchCh') = Len(dispatchCh) + 1
    BY <1>1, <1>3, Entered DEF Send
  <2> QED
    BY <1>1, <1>3, <2>1, <2>2 DEF Send
<1>4. CASE GiveUp(r)
  BY <1>1, <1>4 DEF GiveUp
<1>5. CASE TakeResult(r)
  BY <1>1, <1>5, EmptyChannel DEF TakeResult, Results
<1>6. CASE HelperAnswers(r)
  BY <1>1, <1>6 DEF HelperAnswers, Results
<1> QED
  BY <1>2, <1>3, <1>4, <1>5, <1>6 DEF Handle

LEMMA TriggerTypes ==
    ASSUME TypeOK, NEW r \in Triggers, Trigger(r) PROVE TypeOK'
<1> USE DEF TypeOK, data, requests, stages, aggregation, shutdown
<1>1. r \in Requests /\ published + 1 \in DOMAIN Worlds
  BY PoolAssumption DEF Requests, Trigger
<1>2. dispatchCh' \in Seq(Requests) /\ Len(dispatchCh') <= DispatchCap
  BY <1>1, Entered, PoolAssumption DEF Trigger
<1> QED
  BY <1>1, <1>2 DEF Trigger

LEMMA StageTypes ==
    ASSUME TypeOK, Busy, Kinds, Results,
           Dispatcher \/ (\E w \in Workers : Work(w)) \/ CloseAggregate \/ Aggregator
    PROVE  TypeOK'
<1> USE DEF TypeOK, data, requests, stages, aggregation, shutdown
<1>1. DispatchCap \in Nat /\ WorkerCap \in Nat
  BY PoolAssumption
<1>2. CASE Dispatch
  BY <1>1, <1>2, Taken DEF Dispatch
<1>3. CASE HandOver
  <2>1. workerCh' \in Seq(Requests) /\ Len(workerCh') <= WorkerCap
    <3>1. CASE UNCHANGED workerCh
      BY <1>1, <3>1
    <3>2. ASSUME NEW r \in held, Len(workerCh) < WorkerCap, workerCh' = Append(workerCh, r)
          PROVE  workerCh' \in Seq(Requests) /\ Len(workerCh') <= WorkerCap
      <4>1. r \in Requests /\ Len(workerCh) \in Nat
        BY <3>2
      <4>2. workerCh' \in Seq(Requests) /\ Len(workerCh') = Len(workerCh) + 1
        BY <3>2, <4>1, Entered
      <4> QED
        BY <1>1, <3>2, <4>1, <4>2
    <3> QED
      BY <1>3, <3>1, <3>2 DEF HandOver
  <2> QED
    BY <1>3, <2>1 DEF HandOver
<1>4. CASE EndDispatcher
  BY <1>4 DEF EndDispatcher
<1>5. ASSUME NEW w \in Workers, TakeJob(w) PROVE TypeOK'
  <2>1. /\ Head(workerCh) \in Requests /\ workerCh' \in Seq(Requests)
        /\ Len(workerCh') <= WorkerCap
    BY <1>1, <1>5, Taken DEF TakeJob
  <2>2. /\ worker' \in [Workers -> {"idle", "sending", "ended"}]
        /\ job' \in [Workers -> SUBSET Requests]
    <3>1. {Head(workerCh)} \in SUBSET Requests
      BY <2>1
    <3> QED
      BY <1>5, <3>1 DEF TakeJob
  <2> QED
    BY <1>5, <2>1, <2>2 DEF TakeJob
<1>6. ASSUME NEW w \in Workers, Deliver(w) PROVE TypeOK'
  <2>1. \A h \in Handlers : Len(resultCh'[h]) \in 0..1
    BY <1>6 DEF Deliver, Results
  <2> QED
    BY <1>6, <2>1 DEF Deliver, EndJob
<1>7. ASSUME NEW w \in Workers, Aggregate(w) PROVE TypeOK'
  <2>1. aggregateCh' \in Seq(Requests) /\ Len(aggregateCh') <= WorkerCap
    BY <1>1, <1>7, Entered DEF Aggregate
  <2> QED
    BY <1>7, <2>1 DEF Aggregate, EndJob
<1>8. ASSUME NEW w \in Workers, EndWorker(w) PROVE TypeOK'
  BY <1>8 DEF EndWorker
<1>9. CASE CloseAggregate
  BY <1>9 DEF CloseAggregate
<1>10. CASE RoutePlan
  BY <1>1, <1>10, Taken DEF RoutePlan
<1>11. CASE EndAggregator
  BY <1>11 DEF EndAggregator
<1> QED
  BY <1>2, <1>3, <1>4, <1>5, <1>6, <1>7, <1>8, <1>9, <1>10, <1>11
     DEF Dispatcher, Work, Aggregator

LEMMA Types ==
    ASSUME TypeOK, Busy, Kinds, Results, [Next]_vars PROVE TypeOK'
<1>1. CASE Publish \/ Start \/ Shutdown \/ CallDone
  <2>1. published' \in DOMAIN Worlds
    BY <1>1, PoolAssumption DEF Publish, Start, Shutdown, CallDone, TypeOK, data
  <2> QED
    BY <1>1, <2>1 DEF Publish, Start, Shutdown, CallDone, TypeOK, data, requests,
       stages, aggregation, shutdown
<1>2. CASE UNCHANGED vars
  BY <1>2 DEF TypeOK, vars, data, requests, stages, aggregation, shutdown
<1> QED
  BY <1>1, <1>2, RequestTypes, TriggerTypes, StageTypes DEF Next
----------------------------------------------------------------------------
(***************************************************************************)
(* Where the requests are: one action moves one request, into one place.   *)
(***************************************************************************)
LEMMA InitPlaces == Init => Apart /\ Busy /\ Kinds
<1> SUFFICES ASSUME Init PROVE Apart /\ Busy /\ Kinds
  OBVIOUS
<1>1. ToSet(<<>>) = {} /\ NoDuplicates(<<>>)
  BY EmptyChannel
<1>2. Jobs = {} /\ Own = {} /\ \A w \in Workers : worker[w] = "idle" /\ job[w] = {}
  BY DEF Init, Jobs, Own
<1>3. Queued = {} /\ \A r \in Handlers : caller[r] # "sending"
  BY <1>1, <1>2 DEF Init, Queued, Requests
<1>4. Apart
  BY <1>1, <1>2, <1>3 DEF Init, Apart
<1>5. Busy
  BY <1>2 DEF Init, Busy
<1> QED
  BY <1>3, <1>4, <1>5 DEF Init, Kinds

\* a request that is not sent enters dispatchCh
LEMMA Joins ==
    ASSUME TypeOK, Apart, NEW r \in Requests, r \notin Sent,
           dispatchCh' = Append(dispatchCh, r), Sent' = Sent \cup {r}, Own' = Own,
           UNCHANGED <<held, workerCh, job, aggregateCh>>
    PROVE  Apart' /\ Queued' = Queued \cup {r}
<1>1. r \notin Queued \cup Own
  BY DEF Apart
<1>2. NoDuplicates(dispatchCh') /\ ToSet(dispatchCh') = ToSet(dispatchCh) \cup {r}
  BY <1>1, Entered DEF Queued, TypeOK, Apart
<1>3. Jobs' = Jobs
  BY DEF Jobs
<1> QED
  BY <1>1, <1>2, <1>3 DEF Apart, Queued

LEMMA HandlerPlaces ==
    ASSUME TypeOK, Apart, Busy, Kinds, Results, NEW r \in Handlers,
           Ask(r) \/ Handle(r) \/ HelperAnswers(r)
    PROVE  Apart' /\ Busy' /\ Kinds'
<1> USE DEF data, stages, aggregation, shutdown, TypeOK
<1>1. r \in Requests
  BY DEF Requests
<1>2. Busy'
  BY DEF Busy, Ask, Handle, Send, GiveUp, TakeResult, HelperAnswers
<1>3. ASSUME UNCHANGED <<dispatchCh, held, workerCh, job, aggregateCh>>
      PROVE  Queued' = Queued /\ Jobs' = Jobs
  BY <1>3 DEF Queued, Jobs
<1>4. CASE Ask(r)
  <2>1. r \notin Sent
    BY <1>4 DEF Ask, Sent
  <2>2. Own' \subseteq Own \cup {r}
    BY <1>4 DEF Ask, Own
  <2>3. \/ Own' = Own /\ Sent' = Sent /\ pipeline = "routes"
        \/ Sent' = Sent \cup {r} /\ caller'[r] = "waiting"
    BY <1>1, <1>4, <2>1 DEF Ask, Sent, Own
  <2>4. \A h \in Handlers : caller'[h] = "sending" => caller[h] = "sending" \/ pipeline = "routes"
    BY <1>4 DEF Ask, Requests
  <2>5. Kinds'
    BY <1>3, <1>4, <2>4 DEF Ask, Kinds
  <2>6. Apart'
    BY <1>3, <1>4, <2>1, <2>2, <2>3 DEF Ask, Apart, Queued
  <2> QED
    BY <1>2, <2>5, <2>6
<1>5. CASE Send(r)
  <2>1. r \notin Sent /\ Own' = Own
    BY <1>5 DEF Send, Sent, Own
  <2>2. Sent' = Sent \cup {r}
    BY <1>1, <1>5 DEF Send, Sent
  <2>3. Apart' /\ Queued' = Queued \cup {r}
    BY <1>1, <1>5, <2>1, <2>2, Joins DEF Send
  <2>4. Kinds'
    BY <1>5, <2>3 DEF Send, Kinds
  <2> QED
    BY <1>2, <2>3, <2>4
<1>6. CASE GiveUp(r) \/ TakeResult(r) \/ HelperAnswers(r)
  <2>1. Own' \subseteq Own
    <3>1. ASSUME NEW h \in Handlers, resultCh'[h] # <<>>
          PROVE  resultCh[h] # <<>> \/ (h = r /\ helper[r] = "working")
      <4>1. resultCh = [k \in Handlers |-> resultCh[k]]
        BY DEF Results
      <4>2. CASE GiveUp(r)
        <5>1. resultCh' = resultCh
          BY <4>2 DEF GiveUp
        <5> QED
          BY <3>1, <5>1
      <4>3. CASE TakeResult(r)
        <5>1. resultCh' = [resultCh EXCEPT ![r] = <<>>]
          BY <4>3 DEF TakeResult
        <5> QED
          BY <3>1, <4>1, <5>1
      <4>4. CASE HelperAnswers(r)
        BY <3>1, <4>1, <4>4 DEF HelperAnswers
      <4> QED
        BY <1>6, <4>2, <4>3, <4>4
    <3>2. \A h \in Handlers : helper'[h] = "working" => helper[h] = "working"
      BY <1>6 DEF GiveUp, TakeResult, HelperAnswers
    <3> QED
      BY <3>1, <3>2 DEF Own
  <2>2. Sent \subseteq Sent'
    BY <1>6 DEF GiveUp, TakeResult, HelperAnswers, Sent
  <2>3. \A h \in Handlers : caller'[h] = "sending" => caller[h] = "sending"
    BY <1>6 DEF GiveUp, TakeResult, HelperAnswers, Requests
  <2>4. UNCHANGED <<dispatchCh, held, workerCh, job, aggregateCh, pipeline>>
    BY <1>6 DEF GiveUp, TakeResult, HelperAnswers
  <2>5. Apart'
    BY <1>3, <2>1, <2>2, <2>4 DEF Apart
  <2>6. Kinds'
    BY <1>3, <2>3, <2>4 DEF Kinds
  <2> QED
    BY <1>2, <2>5, <2>6
<1> QED
  BY <1>4, <1>5, <1>6 DEF Handle

LEMMA TriggerPlaces ==
    ASSUME TypeOK, Apart, Busy, Kinds, NEW r \in Triggers, Trigger(r)
    PROVE  Apart' /\ Busy' /\ Kinds'
<1> USE DEF stages, aggregation, shutdown, TypeOK
<1>1. r \in Requests /\ r \notin Sent /\ Own' = Own /\ pipeline = "intercept"
  BY DEF Requests, Trigger, Sent, Own
<1>2. Sent' = Sent \cup {r}
  BY <1>1 DEF Trigger, Sent
<1>3. Busy'
  BY DEF Busy, Trigger
<1>4. \A h \in Handlers : caller'[h] = caller[h]
  BY PoolAssumption DEF Trigger, Requests
<1>5. CASE dispatchCh' = Append(dispatchCh, r)
  <2>1. Apart' /\ Queued' = Queued \cup {r}
    BY <1>1, <1>2, <1>5, Joins DEF Trigger
  <2>2. Kinds'
    BY <1>1, <1>4, <2>1 DEF Trigger, Kinds
  <2> QED
    BY <1>3, <2>1, <2>2
<1>6. CASE dispatchCh' = dispatchCh
  <2>1. Queued' = Queued /\ Jobs' = Jobs
    BY <1>6 DEF Trigger, Queued, Jobs
  <2>2. Apart'
    BY <1>1, <1>2, <1>6, <2>1 DEF Trigger, Apart
  <2>3. Kinds'
    BY <1>1, <1>4, <2>1 DEF Trigger, Kinds
  <2> QED
    BY <1>3, <2>2, <2>3
<1> QED
  BY <1>5, <1>6 DEF Trigger
LEMMA DispatcherPlaces ==
    ASSUME TypeOK, Apart, Busy, Kinds, Dispatcher
    PROVE  Apart' /\ Busy' /\ Kinds'
<1> USE DEF data, requests, aggregation, shutdown, TypeOK
<1>1. Jobs' = Jobs /\ Own' = Own /\ Sent' = Sent
  BY DEF Dispatcher, Dispatch, HandOver, EndDispatcher, Jobs, Own, Sent
<1>2. CASE Dispatch
  <2> DEFINE r == Head(dispatchCh)
  <2>1. /\ r \in Requests /\ r \in ToSet(dispatchCh) /\ held = {} /\ held' = {r}
        /\ ToSet(dispatchCh') \subseteq ToSet(dispatchCh) \ {r} /\ NoDuplicates(dispatchCh')
    BY <1>2, Taken DEF Dispatch, Apart, Busy
  <2> HIDE DEF r
  <2>2. Queued' \subseteq Queued
    BY <1>1, <1>2, <2>1 DEF Dispatch, Queued
  <2>3. Apart'
    BY <1>1, <1>2, <2>1, <2>2 DEF Dispatch, Apart
  <2>4. Busy'
    BY <1>2, <2>1 DEF Dispatch, Busy
  <2>5. Kinds'
    BY <1>2, <2>2 DEF Dispatch, Kinds
  <2> QED
    BY <2>3, <2>4, <2>5
<1>3. CASE HandOver
  <2>1. PICK r \in Requests : held = {r}
    BY <1>3 DEF HandOver, Busy
  <2>2. \/ /\ ToSet(workerCh') = ToSet(workerCh) \cup {r}
           /\ NoDuplicates(workerCh')
        \/ workerCh' = workerCh
    <3>1. r \notin ToSet(workerCh) /\ NoDuplicates(workerCh)
      BY <2>1 DEF Apart
    <3>2. workerCh' = Append(workerCh, r) \/ workerCh' = workerCh
      BY <1>3, <2>1 DEF HandOver
    <3>3. /\ ToSet(Append(workerCh, r)) = ToSet(workerCh) \cup {r}
          /\ NoDuplicates(Append(workerCh, r))
      BY <3>1, Entered
    <3> QED
      BY <3>2, <3>3
  <2>3. Queued' \subseteq Queued
    BY <1>1, <1>3, <2>1, <2>2 DEF HandOver, Queued
  <2>4. Apart'
    BY <1>1, <1>3, <2>1, <2>2, <2>3 DEF HandOver, Apart
  <2>5. Busy' /\ Kinds'
    BY <1>3, <2>3 DEF HandOver, Busy, Kinds
  <2> QED
    BY <2>4, <2>5
<1>4. CASE EndDispatcher
  <2>1. Queued' \subseteq Queued
    BY <1>1, <1>4 DEF EndDispatcher, Queued
  <2>2. Apart'
    BY <1>1, <1>4, <2>1 DEF EndDispatcher, Apart
  <2>3. Busy' /\ Kinds'
    BY <1>4, <2>1 DEF EndDispatcher, Busy, Kinds
  <2> QED
    BY <2>2, <2>3
<1> QED
  BY <1>2, <1>3, <1>4 DEF Dispatcher

\* a worker that has done its job holds nothing, and nobody else holds it
LEMMA JobEnds ==
    ASSUME TypeOK, Busy, NEW w \in Workers, EndJob(w)
    PROVE  \E r \in Requests : job[w] = {r} /\ Jobs' = Jobs \ {r} /\ r \in Jobs
<1>1. PICK r \in Requests : job[w] = {r}
  BY DEF Busy, EndJob
<1>2. job'[w] = {} /\ \A v \in Workers : v # w => job'[v] = job[v] /\ r \notin job[v]
  BY <1>1 DEF Busy, EndJob, TypeOK
<1>3. Jobs' = Jobs \ {r}
  BY <1>1, <1>2 DEF Jobs
<1> QED
  BY <1>1, <1>3 DEF Jobs

LEMMA WorkerPlaces ==
    ASSUME TypeOK, Apart, Busy, Kinds, Results, NEW w \in Workers, Work(w)
    PROVE  Apart' /\ Busy' /\ Kinds'
<1> USE DEF data, requests, aggregation, shutdown, TypeOK
<1>1. Sent' = Sent
  BY DEF Work, TakeJob, Deliver, Aggregate, EndWorker, Sent
<1>2. CASE TakeJob(w)
  <2> DEFINE r == Head(workerCh)
  <2>1. /\ r \in Requests /\ r \in ToSet(workerCh) /\ job[w] = {}
        /\ ToSet(workerCh') \subseteq ToSet(workerCh) \ {r} /\ NoDuplicates(workerCh')
    BY <1>2, Taken DEF TakeJob, Apart, Busy
  <2>2. \/ worker' = worker /\ job' = job
        \/ worker'[w] = "sending" /\ job'[w] = {r} /\
           \A v \in Workers : v # w => worker'[v] = worker[v] /\ job'[v] = job[v]
    BY <1>2 DEF TakeJob
  <2> HIDE DEF r
  <2>3. Jobs' = Jobs \/ Jobs' = Jobs \cup {r}
    <3>1. CASE job' = job
      BY <3>1 DEF Jobs
    <3>2. CASE job'[w] = {r} /\ \A v \in Workers : v # w => job'[v] = job[v]
      <4>1. ASSUME NEW x PROVE x \in Jobs' <=> x \in Jobs \cup {r}
        <5>1. ASSUME NEW v \in Workers, x \in job'[v] PROVE x \in Jobs \cup {r}
          BY <3>2, <5>1 DEF Jobs
        <5>2. ASSUME NEW v \in Workers, x \in job[v] PROVE x \in Jobs'
          <6>1. x \in job'[v]
            BY <2>1, <3>2, <5>2
          <6> QED
            BY <6>1 DEF Jobs
        <5>3. r \in Jobs'
          BY <3>2 DEF Jobs
        <5> QED
          BY <5>1, <5>2, <5>3 DEF Jobs
      <4> QED
        BY <4>1
    <3> QED
      BY <2>2, <3>1, <3>2
  <2>4. r \notin Jobs
    BY <2>1 DEF Apart
  <2>5. Own' = Own /\ Queued' \subseteq Queued
    BY <1>2, <2>1, <2>3 DEF TakeJob, Own, Queued
  <2>6. Apart'
    BY <1>1, <1>2, <2>1, <2>3, <2>5 DEF TakeJob, Apart
  <2>7. Busy'
    <3>1. CASE worker' = worker /\ job' = job
      BY <1>2, <3>1 DEF TakeJob, Busy
    <3>2. CASE /\ worker'[w] = "sending" /\ job'[w] = {r}
               /\ \A v \in Workers : v # w => worker'[v] = worker[v] /\ job'[v] = job[v]
      <4>1. \A v \in Workers : r \notin job[v]
        BY <2>4 DEF Jobs
      <4>2. \A v \in Workers :
              \/ worker'[v] = "sending" /\ \E q \in Requests : job'[v] = {q}
              \/ worker'[v] # "sending" /\ job'[v] = {}
        BY <2>1, <3>2 DEF Busy
      <4>3. \A u, v \in Workers : u # v => job'[u] \cap job'[v] = {}
        <5>1. \A u, v \in Workers : u # v => job[u] \cap job[v] = {}
          BY DEF Busy
        <5> SUFFICES ASSUME NEW u \in Workers, NEW v \in Workers, u # v
                     PROVE  job'[u] \cap job'[v] = {}
          OBVIOUS
        <5>2. CASE u = w
          <6>1. job'[u] = {r} /\ job'[v] = job[v]
            BY <3>2, <5>2
          <6> QED
            BY <4>1, <6>1
        <5>3. CASE v = w
          <6>1. job'[v] = {r} /\ job'[u] = job[u]
            BY <3>2, <5>3
          <6> QED
            BY <4>1, <6>1
        <5>4. CASE u # w /\ v # w
          BY <3>2, <5>1, <5>4
        <5> QED
          BY <5>2, <5>3, <5>4
      <4> QED
        BY <1>2, <4>2, <4>3 DEF TakeJob, Busy
    <3> QED
      BY <2>2, <3>1, <3>2
  <2>8. Kinds'
    BY <1>2, <2>5 DEF TakeJob, Kinds
  <2> QED
    BY <2>6, <2>7, <2>8
<1>3. CASE Deliver(w) \/ Aggregate(w)
  <2>1. EndJob(w)
    BY <1>3 DEF Deliver, Aggregate
  <2>2. PICK r \in Requests : job[w] = {r} /\ Jobs' = Jobs \ {r} /\ r \in Jobs
    BY <2>1, JobEnds
  <2>3. Busy'
    <3>1. /\ worker'[w] = "idle" /\ job'[w] = {}
          /\ \A v \in Workers : v # w => worker'[v] = worker[v] /\ job'[v] = job[v]
      BY <2>1 DEF EndJob
    <3>2. \A v \in Workers :
            \/ worker'[v] = "sending" /\ \E q \in Requests : job'[v] = {q}
            \/ worker'[v] # "sending" /\ job'[v] = {}
      BY <3>1 DEF Busy
    <3>3. \A u, v \in Workers : u # v => job'[u] \cap job'[v] = {}
      BY <3>1 DEF Busy
    <3>4. dispatcher' = dispatcher /\ held' = held
      BY <1>3 DEF Deliver, Aggregate
    <3> QED
      BY <3>2, <3>3, <3>4 DEF Busy
  <2>4. CASE Deliver(w)
    <3>1. Own' \subseteq Own \cup {r}
      BY <2>2, <2>4 DEF Deliver, Own, Results
    <3>2. Queued' = Queued \ {r}
      BY <2>2, <2>4 DEF Deliver, Queued, Apart
    <3>3. r \in Sent
      BY <2>2 DEF Apart, Queued
    <3>4. Apart'
      BY <1>1, <2>2, <2>4, <3>1, <3>2, <3>3 DEF Deliver, Apart
    <3>5. Kinds'
      BY <2>4, <3>2 DEF Deliver, Kinds
    <3> QED
      BY <2>3, <3>4, <3>5
  <2>5. CASE Aggregate(w)
    <3>1. r \notin ToSet(aggregateCh)
      BY <2>2 DEF Apart
    <3>2. /\ ToSet(aggregateCh') = ToSet(aggregateCh) \cup {r}
          /\ NoDuplicates(aggregateCh')
      BY <2>2, <2>5, <3>1, Entered DEF Aggregate, Apart
    <3>3. Own' = Own /\ Queued' = Queued
      BY <2>2, <2>5, <3>2 DEF Aggregate, Own, Queued
    <3>4. Apart'
      BY <1>1, <2>2, <2>5, <3>2, <3>3 DEF Aggregate, Apart
    <3>5. Kinds'
      BY <2>5, <3>3 DEF Aggregate, Kinds
    <3> QED
      BY <2>3, <3>4, <3>5
  <2> QED
    BY <1>3, <2>4, <2>5
<1>4. CASE EndWorker(w)
  <2>1. Jobs' = Jobs /\ Own' = Own /\ Queued' = Queued
    BY <1>4 DEF EndWorker, Jobs, Own, Queued
  <2> QED
    BY <1>1, <1>4, <2>1 DEF EndWorker, Apart, Busy, Kinds
<1> QED
  BY <1>2, <1>3, <1>4 DEF Work
LEMMA AggregatorPlaces ==
    ASSUME TypeOK, Apart, Busy, Kinds, CloseAggregate \/ Aggregator
    PROVE  Apart' /\ Busy' /\ Kinds'
<1> USE DEF data, requests, stages, shutdown, TypeOK
<1>1. UNCHANGED <<data, requests, stages, shutdown>>
  BY DEF CloseAggregate, Aggregator, RoutePlan, EndAggregator
<1>2. Jobs' = Jobs /\ Own' = Own /\ Sent' = Sent
  BY <1>1 DEF Jobs, Own, Sent
<1>3. /\ ToSet(aggregateCh') \subseteq ToSet(aggregateCh)
      /\ NoDuplicates(aggregateCh) => NoDuplicates(aggregateCh')
      /\ aggregateCh = <<>> => aggregateCh' = <<>>
  BY Taken DEF CloseAggregate, Aggregator, RoutePlan, EndAggregator
<1>4. Queued' \subseteq Queued
  BY <1>1, <1>2, <1>3 DEF Queued
<1>5. Apart'
  BY <1>1, <1>2, <1>3, <1>4 DEF Apart
<1>6. Busy'
  BY <1>1 DEF Busy
<1>7. Kinds'
  BY <1>1, <1>3, <1>4 DEF Kinds
<1> QED
  BY <1>5, <1>6, <1>7

LEMMA Places ==
    ASSUME TypeOK, Apart, Busy, Kinds, Results, [Next]_vars
    PROVE  Apart' /\ Busy' /\ Kinds'
<1>1. CASE Publish \/ Start \/ Shutdown \/ CallDone \/ UNCHANGED vars
  <2> USE DEF vars, data, requests, stages, aggregation, shutdown
  <2>1. UNCHANGED <<pipeline, caller, helper, resultCh, dispatchCh, dispatcher, held,
                    workerCh, worker, job, aggregateCh>>
    BY <1>1 DEF Publish, Start, Shutdown, CallDone
  <2>2. Jobs' = Jobs /\ Own' = Own /\ Sent' = Sent /\ Queued' = Queued
    BY <2>1 DEF Jobs, Own, Sent, Queued
  <2> QED
    BY <2>1, <2>2 DEF Apart, Busy, Kinds
<1> QED
  BY <1>1, HandlerPlaces, TriggerPlaces, DispatcherPlaces, WorkerPlaces, AggregatorPlaces
     DEF Next

----------------------------------------------------------------------------
(***************************************************************************)
(* Results: what is computed is computed from the snapshot.                *)
(***************************************************************************)
LEMMA InitResults == Init => Results
  BY DEF Init, Results, Requests

\* the pipeline and the snapshot are all that an analysis depends on
LEMMA SameAnalysis ==
    ASSUME NEW r, pipeline' = pipeline, snapshot'[r] = snapshot[r]
    PROVE  Analyse(r)' = Analyse(r)
  BY DEF Analyse, AnalysisOf, Bearer

LEMMA ResultsKept ==
    ASSUME Results, UNCHANGED <<pipeline, snapshot, caller, resultCh, answer>>
    PROVE  Results'
<1>1. \A r \in Handlers : Analyse(r)' = Analyse(r)
  BY SameAnalysis
<1> QED
  BY <1>1 DEF Results
LEMMA HandlerResults ==
    ASSUME TypeOK, Apart, Results, NEW r \in Handlers,
           Ask(r) \/ Handle(r) \/ HelperAnswers(r)
    PROVE  Results'
<1> USE DEF data, stages, aggregation, shutdown, requests
<1>1. r \in Requests /\ caller = [h \in Requests |-> caller[h]]
  BY DEF Requests, TypeOK
<1>2. /\ resultCh = [h \in Handlers |-> resultCh[h]]
      /\ answer = [h \in Handlers |-> answer[h]]
  BY DEF Results
<1>3. \A h \in Handlers : h # r => Analyse(h)' = Analyse(h)
  <2>1. snapshot \in [Requests -> DOMAIN Worlds] /\ Handlers \subseteq Requests
    BY DEF TypeOK, Requests
  <2>2. \A h \in Handlers : h # r => snapshot'[h] = snapshot[h]
    BY <2>1 DEF Ask, Handle, Send, GiveUp, TakeResult, HelperAnswers
  <2>3. pipeline' = pipeline
    BY DEF Ask, Handle, Send, GiveUp, TakeResult, HelperAnswers
  <2> QED
    BY <2>2, <2>3, SameAnalysis
<1>4. \A h \in Handlers : h # r =>
        caller'[h] = caller[h] /\ resultCh'[h] = resultCh[h] /\ answer'[h] = answer[h]
  <2>1. Handlers \subseteq Requests
    BY DEF Requests
  <2> QED
    BY <1>1, <1>2, <2>1 DEF Ask, Handle, Send, GiveUp, TakeResult, HelperAnswers
<1>5. /\ resultCh' = [h \in Handlers |-> resultCh'[h]]
      /\ answer' = [h \in Handlers |-> answer'[h]]
  BY <1>2 DEF Ask, Handle, Send, GiveUp, TakeResult, HelperAnswers
<1>6. /\ resultCh'[r] \in {<<>>, <<Analyse(r)'>>} /\ answer'[r] \in {<<>>, <<Analyse(r)'>>}
      /\ caller'[r] \in {"new", "sending"} => resultCh'[r] = <<>> /\ answer'[r] = <<>>
      /\ caller'[r] = "answered" => answer'[r] # <<>>
  <2>1. /\ resultCh[r] \in {<<>>, <<Analyse(r)>>} /\ answer[r] \in {<<>>, <<Analyse(r)>>}
        /\ caller[r] \in {"new", "sending"} => resultCh[r] = <<>> /\ answer[r] = <<>>
        /\ caller[r] = "answered" => answer[r] # <<>>
    BY DEF Results
  <2>2. CASE Ask(r)
    BY <1>1, <2>1, <2>2 DEF Ask
  <2>3. CASE ~Ask(r)
    <3>1. Analyse(r)' = Analyse(r)
      BY <2>3, SameAnalysis DEF Handle, Send, GiveUp, TakeResult, HelperAnswers
    <3>2. CASE Send(r) \/ GiveUp(r)
      BY <1>1, <2>1, <3>1, <3>2 DEF Send, GiveUp
    <3>3. CASE TakeResult(r)
      BY <1>1, <1>2, <2>1, <3>1, <3>3 DEF TakeResult
    <3>4. CASE HelperAnswers(r)
      <4>1. r \in Sent
        BY <3>4 DEF HelperAnswers, Own, Apart
      <4>2. caller'[r] \notin {"new", "sending"}
        BY <3>4, <4>1 DEF Sent, HelperAnswers
      <4> QED
        BY <1>1, <1>2, <2>1, <3>1, <3>4, <4>2 DEF HelperAnswers
    <3> QED
      BY <2>3, <3>2, <3>3, <3>4 DEF Handle
  <2> QED
    BY <2>2, <2>3
<1> QED
  <2> SUFFICES ASSUME NEW h \in Handlers
               PROVE  /\ resultCh'[h] \in {<<>>, <<Analyse(h)'>>}
                      /\ answer'[h] \in {<<>>, <<Analyse(h)'>>}
                      /\ caller'[h] \in {"new", "sending"} => resultCh'[h] = <<>> /\ answer'[h] = <<>>
                      /\ caller'[h] = "answered" => answer'[h] # <<>>
    BY <1>5 DEF Results
  <2> QED
    BY <1>3, <1>4, <1>6 DEF Results

LEMMA TriggerResults ==
    ASSUME TypeOK, Results, NEW r \in Triggers, Trigger(r) PROVE Results'
<1>1. \A h \in Handlers : snapshot'[h] = snapshot[h] /\ caller'[h] = caller[h]
  BY PoolAssumption DEF Trigger, TypeOK, Requests
<1>2. UNCHANGED <<pipeline, resultCh, answer>>
  BY DEF Trigger
<1>3. \A h \in Handlers : Analyse(h)' = Analyse(h)
  BY <1>1, <1>2, SameAnalysis
<1> QED
  BY <1>1, <1>2, <1>3 DEF Results

LEMMA DeliverResults ==
    ASSUME TypeOK, Apart, Busy, Kinds, Results, NEW w \in Workers, Deliver(w) PROVE Results'
<1>1. UNCHANGED <<pipeline, snapshot, caller, answer>> /\ EndJob(w)
  BY DEF Deliver, data
<1>2. \A h \in Handlers : Analyse(h)' = Analyse(h)
  BY <1>1, SameAnalysis
<1>3. PICK r \in job[w] : \/ resultCh' = [resultCh EXCEPT ![r] = <<Analyse(r)>>]
                           \/ UNCHANGED resultCh
  BY DEF Deliver
<1>4. r \in Handlers /\ r \in Sent
  <2>1. r \in Queued
    BY DEF Queued, Jobs
  <2> QED
    BY <2>1 DEF Apart, Kinds, Deliver
<1>5. resultCh = [h \in Handlers |-> resultCh[h]]
  BY DEF Results
<1>6. CASE UNCHANGED resultCh
  BY <1>1, <1>6, ResultsKept
<1>7. CASE resultCh' = [resultCh EXCEPT ![r] = <<Analyse(r)>>]
  <2>1. resultCh' = [h \in Handlers |-> resultCh'[h]]
    BY <1>5, <1>7
  <2>2. \A h \in Handlers : resultCh'[h] = IF h = r THEN <<Analyse(r)>> ELSE resultCh[h]
    BY <1>5, <1>7
  <2>3. caller[r] \notin {"new", "sending"}
    BY <1>4 DEF Sent
  <2> QED
    BY <1>1, <1>2, <2>1, <2>2, <2>3 DEF Results
<1> QED
  BY <1>3, <1>6, <1>7

LEMMA ResultsStep ==
    ASSUME TypeOK, Apart, Busy, Kinds, Results, [Next]_vars PROVE Results'
<1>1. CASE \/ Publish \/ Start \/ Shutdown \/ CallDone \/ Dispatcher \/ CloseAggregate
           \/ Aggregator \/ UNCHANGED vars
           \/ \E w \in Workers : TakeJob(w) \/ Aggregate(w) \/ EndWorker(w)
  <2>1. UNCHANGED <<pipeline, snapshot, caller, resultCh, answer>>
    BY <1>1 DEF Publish, Start, Shutdown, CallDone, Dispatcher, Dispatch, HandOver,
       EndDispatcher, CloseAggregate, Aggregator, RoutePlan, EndAggregator, TakeJob, Aggregate,
       EndWorker, vars, data, requests, stages, aggregation, shutdown
  <2> QED
    BY <2>1, ResultsKept
<1> QED
  BY <1>1, HandlerResults, TriggerResults, DeliverResults DEF Next, Work

----------------------------------------------------------------------------
(***************************************************************************)
(* Together.                                                               *)
(***************************************************************************)
\* whoever has ended sends no more
LEMMA ClosedStays ==
    ASSUME TypeOK, NothingAfterClose, [Next]_vars PROVE NothingAfterClose'
<1>1. CASE UNCHANGED <<worker, aggregateOpen>>
  BY <1>1 DEF NothingAfterClose
<1>2. CASE CloseAggregate
  BY <1>2 DEF CloseAggregate, AllEnded, NothingAfterClose, stages
<1>3. ASSUME NEW w \in Workers, Work(w) PROVE NothingAfterClose'
  <2>1. \A v \in Workers : worker[v] = "ended" => worker'[v] = "ended"
    BY <1>3 DEF Work, TakeJob, Deliver, Aggregate, EndJob, EndWorker, TypeOK
  <2>2. aggregateOpen' = aggregateOpen
    BY <1>3 DEF Work, TakeJob, Deliver, Aggregate, EndWorker, aggregation
  <2> QED
    BY <2>1, <2>2 DEF NothingAfterClose
<1>4. CASE ~(CloseAggregate \/ \E w \in Workers : Work(w))
  <2>1. UNCHANGED <<worker, aggregateOpen>>
    BY <1>4 DEF Next, Publish, Start, Shutdown, CallDone, Ask, Handle, Send, GiveUp, TakeResult,
       HelperAnswers, Trigger, Dispatcher, Dispatch, HandOver, EndDispatcher, Aggregator,
       RoutePlan, EndAggregator, vars, data, requests, stages, aggregation, shutdown
  <2> QED
    BY <1>1, <2>1
<1> QED
  BY <1>2, <1>3, <1>4

LEMMA PoolInductive ==
    /\ Init => PoolInv
    /\ PoolInv /\ [Next]_vars => PoolInv'
<1>1. Init => NothingAfterClose
  BY DEF Init, NothingAfterClose
<1>2. Init => PoolInv
  BY <1>1, InitTypes, InitPlaces, InitResults DEF PoolInv
<1>3. PoolInv /\ [Next]_vars => PoolInv'
  BY Types, Places, ResultsStep, ClosedStays DEF PoolInv
<1> QED
  BY <1>2, <1>3

(***************************************************************************)
(* The invariant holds in every state that the pipelines can reach.        *)
(***************************************************************************)
THEOREM PoolCorrect == Spec => []PoolInv
  BY PoolInductive, PTL DEF Spec

----------------------------------------------------------------------------
(***************************************************************************)
(* What the invariant means.                                               *)
(***************************************************************************)
LEMMA OneOrNone ==
    ASSUME NEW S
    PROVE  /\ (\E x : S = {x}) => Cardinality(S) = 1
           /\ S = {} => Cardinality(S) = 0
  BY FS_Singleton, FS_EmptySet

LEMMA TimesInChannel ==
    ASSUME NEW ch, NoDuplicates(ch), NEW r
    PROVE  Cardinality(In(ch, r)) = IF r \in ToSet(ch) THEN 1 ELSE 0
<1>1. ASSUME r \in ToSet(ch) PROVE \E i : In(ch, r) = {i}
  <2>1. PICK i \in DOMAIN ch : ch[i] = r
    BY <1>1 DEF ToSet
  <2>2. In(ch, r) = {i}
    BY <2>1 DEF In, NoDuplicates
  <2> QED
    BY <2>2
<1>2. r \notin ToSet(ch) => In(ch, r) = {}
  BY DEF In, ToSet
<1> QED
  BY <1>1, <1>2, OneOrNone, Zenon

(***************************************************************************)
(* A request is in one place at a time.                                    *)
(***************************************************************************)
THEOREM HeldByOne == Spec => []OneHolder
<1>1. ASSUME PoolInv, NEW r \in Requests
      PROVE  Cardinality(In(dispatchCh, r)) + Cardinality(In(workerCh, r))
             + Cardinality(In(aggregateCh, r))
             + Cardinality({w \in Workers : r \in job[w]})
             + Cardinality({h \in {r} : h \in held})
             + Cardinality({h \in Handlers \cap {r} : helper[h] = "working" \/ resultCh[h] # <<>>})
             <= 1
  <2> USE <1>1 DEF PoolInv
  <2>1. Cardinality(In(dispatchCh, r)) = IF r \in ToSet(dispatchCh) THEN 1 ELSE 0
    BY TimesInChannel DEF Apart
  <2>2. Cardinality(In(workerCh, r)) = IF r \in ToSet(workerCh) THEN 1 ELSE 0
    BY TimesInChannel DEF Apart
  <2>3. Cardinality(In(aggregateCh, r)) = IF r \in ToSet(aggregateCh) THEN 1 ELSE 0
    BY TimesInChannel DEF Apart
  <2>4. Cardinality({w \in Workers : r \in job[w]}) = IF r \in Jobs THEN 1 ELSE 0
    <3> DEFINE S == {w \in Workers : r \in job[w]}
    <3>1. ASSUME r \in Jobs PROVE \E w : S = {w}
      <4>1. PICK w \in Workers : r \in job[w]
        BY <3>1 DEF Jobs
      <4>2. \A v \in Workers : r \in job[v] => v = w
        BY <4>1 DEF Busy
      <4>3. S = {w}
        BY <4>1, <4>2
      <4> QED
        BY <4>3
    <3>2. r \notin Jobs => S = {}
      BY DEF Jobs
    <3> QED
      BY <3>1, <3>2, OneOrNone, Zenon
  <2>5. Cardinality({h \in {r} : h \in held}) = IF r \in held THEN 1 ELSE 0
    <3>1. r \in held => {h \in {r} : h \in held} = {r}
      OBVIOUS
    <3>2. r \notin held => {h \in {r} : h \in held} = {}
      OBVIOUS
    <3> QED
      BY <3>1, <3>2, OneOrNone, Zenon
  <2>6. Cardinality({h \in Handlers \cap {r} : helper[h] = "working" \/ resultCh[h] # <<>>})
          = IF r \in Own THEN 1 ELSE 0
    <3> DEFINE S == {h \in Handlers \cap {r} : helper[h] = "working" \/ resultCh[h] # <<>>}
    <3>1. r \in Own => S = {r}
      BY DEF Own
    <3>2. r \notin Own => S = {}
      BY DEF Own
    <3> QED
      BY <3>1, <3>2, OneOrNone, Zenon
  <2>7. r \in ToSet(dispatchCh) => /\ r \notin ToSet(workerCh) /\ r \notin ToSet(aggregateCh)
                                   /\ r \notin Jobs /\ r \notin held /\ r \notin Own
    BY DEF Apart, Queued
  <2>8. r \in ToSet(workerCh) => r \notin ToSet(aggregateCh) /\ r \notin Jobs /\ r \notin held /\ r \notin Own
    BY DEF Apart, Queued
  <2>9. r \in ToSet(aggregateCh) => r \notin Jobs /\ r \notin held /\ r \notin Own
    BY DEF Apart, Queued
  <2>10. r \in Jobs => r \notin held /\ r \notin Own
    BY DEF Apart, Queued
  <2>11. r \in held => r \notin Own
    BY DEF Apart, Queued
  <2> QED
    BY <2>1, <2>2, <2>3, <2>4, <2>5, <2>6, <2>7, <2>8, <2>9, <2>10, <2>11
<1>2. PoolInv => OneHolder
  BY <1>1 DEF OneHolder
<1> QED
  BY <1>2, PoolCorrect, PTL

(***************************************************************************)
(* The variables have their types, and no channel exceeds its capacity.    *)
(***************************************************************************)
THEOREM PoolTypes == Spec => []TypeOK
<1>1. PoolInv => TypeOK
  BY DEF PoolInv
<1> QED
  BY <1>1, PoolCorrect, PTL

(***************************************************************************)
(* aggregateCh is closed only after its last sender has returned.          *)
(***************************************************************************)
THEOREM NoSendAfterClose == Spec => []NothingAfterClose
<1>1. PoolInv => NothingAfterClose
  BY DEF PoolInv
<1> QED
  BY <1>1, PoolCorrect, PTL

----------------------------------------------------------------------------
(***************************************************************************)
(* What is answered.                                                       *)
(***************************************************************************)
LEMMA SnapshotIsWorld ==
    ASSUME TypeOK, NEW r \in Requests
    PROVE  snapshot[r] \in DOMAIN Worlds /\ Worlds[snapshot[r]] \in WorldState
  BY PoolAssumption DEF TypeOK

LEMMA AnswerIsAnalysis ==
    ASSUME PoolInv, NEW kind, NEW r \in Answered(kind)
    PROVE  r \in Handlers /\ r \in Requests /\ pipeline = kind /\ answer[r][1] = Analyse(r)
<1>1. r \in Handlers /\ pipeline = kind /\ caller[r] = "answered"
  BY DEF Answered
<1>2. answer[r] = <<Analyse(r)>>
  BY <1>1 DEF PoolInv, Results
<1> QED
  BY <1>1, <1>2 DEF Requests

(***************************************************************************)
(* An answer about routes ranks all of them by the risk they had in the    *)
(* one state that the request was made with.                               *)
(***************************************************************************)
THEOREM AnswersRankOneState == Spec => []RanksOneState
<1>1. ASSUME PoolInv, NEW r \in Answered("routes")
      PROVE  LET list == answer[r][1].routes
                 place == [i \in DOMAIN list |-> list[i].route]
             IN  /\ {place[i] : i \in DOMAIN list} = DOMAIN CanonicalRoutes
                 /\ Len(list) = Len(CanonicalRoutes)
                 /\ \A i, j \in DOMAIN list : i < j => Risk(r)[place[i]] <= Risk(r)[place[j]]
                 /\ \A i \in DOMAIN CanonicalRoutes : Risk(r)[answer[r][1].recommended] <= Risk(r)[i]
                 /\ \A i \in DOMAIN CanonicalRoutes :
                      i \in answer[r][1].warnings
                        <=> \E p \in DOMAIN CanonicalRoutes[i].paths :
                              Worlds[snapshot[r]].status[CanonicalRoutes[i].paths[p]] = "BLOCKED"
  <2> DEFINE k == snapshot[r]
             w == Worlds[k]
             list == RankRoutes(w).routes
             place == [i \in DOMAIN list |-> list[i].route]
  <2>1. r \in Requests /\ pipeline = "routes" /\ answer[r][1] = Analyse(r)
    BY <1>1, AnswerIsAnalysis
  <2>2. k \in DOMAIN Worlds /\ w \in WorldState
    BY <1>1, <2>1, SnapshotIsWorld DEF PoolInv
  <2>3. answer[r][1] = RankRoutes(w)
    BY <2>1, <2>2 DEF Analyse, AnalysisOf, Analyses
  <2>4. \A i \in DOMAIN CanonicalRoutes : Risk(r)[i] = RiskScore(CanonicalRoutes[i], w)
    BY <2>2 DEF Risk, Risks
  <2> HIDE DEF k, w
  <2>5. /\ {place[i] : i \in DOMAIN list} = DOMAIN CanonicalRoutes
        /\ Len(list) = Len(CanonicalRoutes)
        /\ \A i, j \in DOMAIN list : i < j =>
             RiskScore(CanonicalRoutes[place[i]], w) <= RiskScore(CanonicalRoutes[place[j]], w)
        /\ \A i \in DOMAIN CanonicalRoutes :
             RiskScore(CanonicalRoutes[RankRoutes(w).recommended], w)
               <= RiskScore(CanonicalRoutes[i], w)
        /\ \A i \in DOMAIN CanonicalRoutes :
             i \in RankRoutes(w).warnings
               <=> \E p \in DOMAIN CanonicalRoutes[i].paths :
                     w.status[CanonicalRoutes[i].paths[p]] = "BLOCKED"
    BY <2>2, RankingIsRight
  <2>6. RankRoutes(w).recommended \in DOMAIN CanonicalRoutes
    BY <2>2, RecommendsARoute
  <2> HIDE DEF list, place
  <2>7. \A i \in DOMAIN list : place[i] \in DOMAIN CanonicalRoutes
    BY <2>5
  <2>8. \A i, j \in DOMAIN list : i < j => Risk(r)[place[i]] <= Risk(r)[place[j]]
    BY <2>4, <2>5, <2>7
  <2>9. \A i \in DOMAIN CanonicalRoutes : Risk(r)[RankRoutes(w).recommended] <= Risk(r)[i]
    BY <2>4, <2>5, <2>6
  <2> QED
    BY <2>3, <2>5, <2>8, <2>9 DEF list, place, w, k
<1>2. PoolInv => RanksOneState
  BY <1>1 DEF RanksOneState
<1> QED
  BY <1>2, PoolCorrect, PTL

(***************************************************************************)
(* The plans in aggregateCh and the answers to handlers can be carried out.*)
(***************************************************************************)
THEOREM PlansOnTheWay == Spec => []PlansAreFeasible
<1>1. ASSUME PoolInv, NEW r \in Answered("intercept") \cup ToSet(aggregateCh),
             NEW u \in DOMAIN Plans(r)
      PROVE  /\ u \in DOMAIN Worlds[snapshot[r]].detectors
             /\ Feasible(Worlds[snapshot[r]].detectors[u], Bearer(r), Plans(r)[u])
  <2> DEFINE w == Worlds[snapshot[r]]
  <2>1. r \in Requests /\ pipeline = "intercept" /\ Plans(r) = Analyse(r)
    <3>1. CASE r \in Answered("intercept")
      BY <1>1, <3>1, AnswerIsAnalysis DEF Plans
    <3>2. CASE r \in ToSet(aggregateCh)
      <4>1. aggregateCh # <<>>
        BY <3>2, EmptyChannel
      <4>2. pipeline = "intercept"
        BY <1>1, <4>1 DEF PoolInv, Kinds, TypeOK
      <4>3. r \in Triggers
        BY <1>1, <3>2, <4>2 DEF PoolInv, Kinds, Queued
      <4>4. r \notin Handlers
        BY <4>3, PoolAssumption
      <4> QED
        BY <4>2, <4>3, <4>4 DEF Plans, Requests
    <3> QED
      BY <3>1, <3>2
  <2>2. snapshot[r] \in DOMAIN Worlds /\ w \in WorldState
    BY <1>1, <2>1, SnapshotIsWorld DEF PoolInv
  <2>3. Bearer(r) \in {w.trueRegion, ""}
    BY DEF Bearer
  <2>4. Plans(r) = ComputeInterceptionPlans(w, Bearer(r))
    BY <2>1, <2>2, <2>3 DEF Analyse, AnalysisOf, Analyses
  <2> HIDE DEF w
  <2>5. /\ u \in DOMAIN w.detectors
        /\ Feasible(w.detectors[u], Bearer(r), ComputeInterceptionPlans(w, Bearer(r))[u])
    BY <1>1, <2>2, <2>4, PlansCanBeCarriedOut
  <2> QED
    BY <2>4, <2>5 DEF w
<1>2. PoolInv => PlansAreFeasible
  BY <1>1 DEF PlansAreFeasible, Feasible
<1> QED
  BY <1>2, PoolCorrect, PTL
=============================================================================
