--------------------------- MODULE PoolProperties ---------------------------
(***************************************************************************)
(* Properties of the analysis pipelines.                                   *)
(***************************************************************************)
EXTENDS AnalysisPools

TypeOK ==
    /\ pipeline \in {"routes", "intercept"} /\ published \in DOMAIN Worlds
    /\ snapshot \in [Requests -> DOMAIN Worlds]
    /\ caller \in [Requests -> {"new", "sending", "waiting", "answered", "gone"}]
    /\ helper \in [Handlers -> {"none", "working", "ended"}]
    /\ \A r \in Handlers : Len(resultCh[r]) \in 0..1 /\ Len(answer[r]) \in 0..1
    /\ {running, aggregateOpen, done, wgDone} \subseteq BOOLEAN
    /\ dispatchCh \in Seq(Requests) /\ Len(dispatchCh) <= DispatchCap
    /\ workerCh \in Seq(Requests) /\ Len(workerCh) <= WorkerCap
    /\ aggregateCh \in Seq(Requests) /\ Len(aggregateCh) <= WorkerCap
    /\ dispatcher \in {"idle", "sending", "ended"} /\ held \in SUBSET Requests
    /\ worker \in [Workers -> {"idle", "sending", "ended"}]
    /\ job \in [Workers -> SUBSET Requests]
    /\ aggregator \in {"running", "ended"}

In(ch, r) == {i \in DOMAIN ch : ch[i] = r}

(***************************************************************************)
(* A request is in one place at a time: in a channel, with the dispatcher, *)
(* with one worker, or with a goroutine of its own.  None is computed      *)
(* twice, and a result channel has one writer who writes once.             *)
(***************************************************************************)
OneHolder ==
    \A r \in Requests :
      Cardinality(In(dispatchCh, r)) + Cardinality(In(workerCh, r))
      + Cardinality(In(aggregateCh, r))
      + Cardinality({w \in Workers : r \in job[w]})
      + Cardinality({h \in {r} : h \in held})
      + Cardinality({h \in Handlers \cap {r} : helper[h] = "working" \/ resultCh[h] # <<>>}) <= 1

(***************************************************************************)
(* Nobody is about to send on a channel that is closed, which would end    *)
(* the program: aggregateCh is closed after its last sender has returned.  *)
(***************************************************************************)
NothingAfterClose ==
    ~aggregateOpen => \A w \in Workers : worker[w] = "ended"

\* the requests that got a result
Answered(kind) == {r \in Handlers : pipeline = kind /\ caller[r] = "answered"}

Risks == [k \in DOMAIN Worlds |->
            [i \in DOMAIN CanonicalRoutes |-> RiskScore(CanonicalRoutes[i], Worlds[k])]]

Risk(r) == Risks[snapshot[r]]

(***************************************************************************)
(* However late it comes, the answer about routes ranks all of them by the *)
(* risk they had in the one state the request was made with, none twice,   *)
(* recommends one of least risk and warns of those that are blocked.       *)
(***************************************************************************)
RanksOneState ==
    \A r \in Answered("routes") :
      LET list == answer[r][1].routes
          place == [i \in DOMAIN list |-> list[i].route]
      IN  /\ {place[i] : i \in DOMAIN list} = DOMAIN CanonicalRoutes
          /\ Len(list) = Len(CanonicalRoutes)
          /\ \A i, j \in DOMAIN list : i < j => Risk(r)[place[i]] <= Risk(r)[place[j]]
          /\ \A i \in DOMAIN CanonicalRoutes : Risk(r)[answer[r][1].recommended] <= Risk(r)[i]
          /\ \A i \in DOMAIN CanonicalRoutes :
               i \in answer[r][1].warnings
                 <=> \E p \in DOMAIN CanonicalRoutes[i].paths :
                       Worlds[snapshot[r]].status[CanonicalRoutes[i].paths[p]] = "BLOCKED"

\* a walk of this many paths
Walk(a, b, steps) ==
    \E walk \in [0..steps -> Regions] :
      /\ walk[0] = a /\ walk[steps] = b
      /\ \A i \in 1..steps : AreAdjacent(walk[i - 1], walk[i])

\* what route i costs from its region number j to its region number k
Way(i, j, k) == SumFunction([m \in j..(k - 1) |-> Cost[CanonicalRoutes[i].paths[m]]])

\* a Nazgul that gets there in time, for a Ring Bearer that is on its way there
MeetsBearer(bearer, plan) ==
    \E i \in DOMAIN CanonicalRoutes : LET route == CanonicalRoutes[i].regions IN
      \E k \in DOMAIN route :
        /\ route[k] = plan.target
        /\ \/ plan.turns = 0
           \/ \E j \in 1..(k - 1) : route[j] = bearer /\ plan.turns <= Way(i, j, k)

Plans(r) == IF r \in Handlers THEN answer[r][1] ELSE Analyse(r)

(***************************************************************************)
(* A plan can be carried out: its Nazgul is active and walks to the target *)
(* in the turns of the plan and in no fewer.  Either it stands there       *)
(* already, wherever the Ring Bearer is, also past it (pathCostToRegion is *)
(* 0 then, and such a plan passes); or the target lies ahead of the Ring   *)
(* Bearer on a route, and the paths between the two cost as many turns at  *)
(* least.  So it is for the plans of a detection, which nobody receives,   *)
(* and for the plans of a handler, which know of no Ring Bearer and only   *)
(* find Nazgul that stand on a route already.                              *)
(***************************************************************************)
PlansAreFeasible ==
    \A r \in Answered("intercept") \cup ToSet(aggregateCh) : LET w == Worlds[snapshot[r]] IN
      \A u \in DOMAIN Plans(r) : LET plan == Plans(r)[u] IN
        /\ u \in DOMAIN w.detectors
        /\ Walk(w.detectors[u], plan.target, plan.turns)
        /\ \A s \in 0..(plan.turns - 1) : ~Walk(w.detectors[u], plan.target, s)
        /\ MeetsBearer(Bearer(r), plan)

(***************************************************************************)
(* No goroutine waits for ever.  A worker that has begun comes back to its *)
(* channel, and a goroutine of a request ends, also when the handler went  *)
(* away; on done every goroutine of the pipeline ends, whatever is queued. *)
(***************************************************************************)
NobodyIsStuck ==
    /\ \A w \in Workers : worker[w] = "sending" ~> worker[w] = "idle"
    /\ \A r \in Handlers : helper[r] = "working" ~> helper[r] = "ended"
    /\ done ~> dispatcher = "ended" /\ AllEnded /\ aggregator = "ended"

(***************************************************************************)
(* main's wg.Wait comes to its end (main.go: "Graceful shutdown",          *)
(* "Shutdown complete"): each pipeline tells main when it has ended.       *)
(***************************************************************************)
ShutdownEnds == done ~> wgDone
=============================================================================
