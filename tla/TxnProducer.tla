---------------------------- MODULE TxnProducer ----------------------------
(***************************************************************************)
(* The one transactional Kafka producer of an instance and the four        *)
(* goroutines that call it without a lock:                                 *)
(*   "events"    main's goroutine behind producerCh, for what the engine   *)
(*               emits                                                     *)
(*   "orders"    main's goroutine behind kafkaOrderCh, for what browsers   *)
(*               sent                                                      *)
(*   "consumer"  the order consumer, for validated orders and dead letters *)
(*   "engine"    the engine itself, for GameOver                           *)
(* Produce and ProduceTransactional have the same steps, and so one action *)
(* for each step stands for both.  The client library and the broker are   *)
(* external: a transaction is begun only when none is open, an error makes *)
(* it abortable or the producer useless, and of a commit whose answer is   *)
(* lost one does not know whether it took place.  CommitTransaction and    *)
(* AbortTransaction get no context and so no time limit: while Kafka does  *)
(* not answer they do not return.  What AbortTransaction returns is thrown *)
(* away, and if it has failed the transaction is left as it is.            *)
(*                                                                         *)
(* A message is its number in the order of offering.                       *)
(***************************************************************************)
EXTENDS Naturals, Sequences, FiniteSets

CONSTANTS
    ProducerCap,    \* the capacity of producerCh
    OrderCap,       \* the capacity of kafkaOrderCh
    MaxMessages,    \* bound: how many messages are ever offered
    MaxErrors,      \* bound: how many errors Kafka makes
    MaxCrashes      \* bound: how often the instance crashes and starts again

ASSUME ProducerAssumption ==
    /\ ProducerCap \in Nat \ {0} /\ OrderCap \in Nat \ {0}
    /\ MaxMessages \in Nat /\ MaxErrors \in Nat /\ MaxCrashes \in Nat

VARIABLES
    offered,        \* offered[m], who wanted message m written
    producerCh,     \* from the engine to the "events" goroutine
    kafkaOrderCh,   \* from the HTTP handlers to the "orders" goroutine
    at,             \* at[c], where caller c is
    msg,            \* msg[c], the message c is busy with, 0 for none
    txn,            \* the producer's transaction; "left" after an abort that failed
    batch,          \* what the open transaction holds
    log,            \* what was committed, in order
    answering,      \* whether Kafka answers
    errors,         \* how many errors Kafka made
    crashes         \* how often the instance crashed

channels == <<producerCh, kafkaOrderCh>>
broker == <<txn, batch, log>>
faults == <<answering, errors, crashes>>
vars == <<offered, channels, at, msg, broker, faults>>

Callers == {"events", "orders", "consumer", "engine"}

Places == {"idle", "begin", "produce", "commit", "abort", "failed"}

TxnStates == {"ready", "open", "abortable", "left", "fatal"}

Message == 1..Len(offered)

Inside == {c \in Callers : at[c] \in {"produce", "commit", "abort"}}

AllIdle == [c \in Callers |-> "idle"]

NoMessages == [c \in Callers |-> 0]

Init ==
    /\ offered = <<>> /\ producerCh = <<>> /\ kafkaOrderCh = <<>>
    /\ at = AllIdle /\ msg = NoMessages
    /\ txn = "ready" /\ batch = <<>> /\ log = <<>>
    /\ answering = TRUE /\ errors = 0 /\ crashes = 0

----------------------------------------------------------------------------
(***************************************************************************)
(* What callers get to write.                                              *)
(***************************************************************************)
Fresh == Len(offered) + 1

Offer(c) ==
    /\ Fresh \in 1..MaxMessages
    /\ offered' = Append(offered, c)
    /\ UNCHANGED <<broker, faults>>

Go(c, place, m) ==
    /\ at' = [at EXCEPT ![c] = place]
    /\ msg' = [msg EXCEPT ![c] = m]

\* emit: the engine never waits, what does not fit is dropped
EmitEvent ==
    /\ at["engine"] = "idle" /\ Offer("events")
    /\ producerCh' = IF Len(producerCh) < ProducerCap
                     THEN Append(producerCh, Fresh) ELSE producerCh
    /\ UNCHANGED <<kafkaOrderCh, at, msg>>

\* emitGameOver: not through the channel
EmitGameOver ==
    /\ at["engine"] = "idle" /\ Offer("engine") /\ Go("engine", "begin", Fresh)
    /\ UNCHANGED channels

\* a handler; an order for which there is no room is answered with 503
AcceptOrder ==
    /\ Len(kafkaOrderCh) < OrderCap /\ Offer("orders")
    /\ kafkaOrderCh' = Append(kafkaOrderCh, Fresh)
    /\ UNCHANGED <<producerCh, at, msg>>

\* ProcessMessage: SendToValidated or SendToDLQ
ProcessOrder ==
    /\ at["consumer"] = "idle" /\ Offer("consumer") /\ Go("consumer", "begin", Fresh)
    /\ UNCHANGED channels

TakeEvent ==
    /\ at["events"] = "idle" /\ producerCh # <<>>
    /\ Go("events", "begin", Head(producerCh)) /\ producerCh' = Tail(producerCh)
    /\ UNCHANGED <<offered, kafkaOrderCh, broker, faults>>

\* mutant: the order stays in the channel while it is produced
TakeAndKeep ==
    /\ at["orders"] = "idle" /\ kafkaOrderCh # <<>>
    /\ Go("orders", "begin", Head(kafkaOrderCh))
    /\ UNCHANGED <<offered, channels, broker, faults>>

TakeOrder ==
    /\ at["orders"] = "idle" /\ kafkaOrderCh # <<>>
    /\ Go("orders", "begin", Head(kafkaOrderCh)) /\ kafkaOrderCh' = Tail(kafkaOrderCh)
    /\ UNCHANGED <<offered, producerCh, broker, faults>>

----------------------------------------------------------------------------
(***************************************************************************)
(* Produce and ProduceTransactional.                                       *)
(***************************************************************************)
\* BeginTransaction fails when the last one is not over, whosever it is
Begin(c) ==
    /\ at[c] = "begin"
    /\ \/ txn = "ready" /\ txn' = "open" /\ Go(c, "produce", msg[c])
       \/ txn # "ready" /\ txn' = txn /\ Go(c, "failed", msg[c])
    /\ UNCHANGED <<offered, channels, batch, log, faults>>

\* kp.Produce: into the transaction, or an error, which may be a full queue
Produce(c) ==
    /\ at[c] = "produce"
    /\ \/ /\ txn = "open" /\ batch' = Append(batch, msg[c])
          /\ Go(c, "commit", msg[c]) /\ UNCHANGED errors
       \/ /\ txn # "open" /\ Go(c, "abort", msg[c]) /\ UNCHANGED <<batch, errors>>
       \/ /\ errors < MaxErrors /\ errors' = errors + 1
          /\ Go(c, "abort", msg[c]) /\ UNCHANGED batch
    /\ UNCHANGED <<offered, channels, txn, log, answering, crashes>>

\* mutant: Produce writes outside of a transaction, as its comment has it, and
\* commits nothing
CommitGameOverOnly(c) ==
    /\ at[c] = "commit"
    /\ IF c = "engine"
       THEN txn = "open" /\ txn' = "ready" /\ log' = log \o batch /\ batch' = <<>>
       ELSE UNCHANGED broker
    /\ Go(c, "idle", 0)
    /\ UNCHANGED <<offered, channels, faults>>

\* mutant: emitGameOver goes on to the channel after a commit, too
CommitAndFallBack(c) ==
    /\ at[c] = "commit"
    /\ IF txn = "open"
       THEN txn' = "ready" /\ log' = log \o batch /\ batch' = <<>> /\ Go(c, "failed", msg[c])
       ELSE UNCHANGED broker /\ Go(c, "abort", msg[c])
    /\ UNCHANGED <<offered, channels, faults>>

\* Flush, which has a time limit, and CommitTransaction, which has none; only
\* GameOver looks at what Flush left behind
Commit(c) ==
    /\ at[c] = "commit"
    /\ \/ /\ answering /\ txn = "open" /\ txn' = "ready"
          /\ log' = log \o batch /\ batch' = <<>>
          /\ Go(c, "idle", 0) /\ UNCHANGED errors
       \/ /\ txn # "open"
          /\ Go(c, "abort", msg[c]) /\ UNCHANGED <<broker, errors>>
       \/ /\ c = "engine" /\ ~answering
          /\ Go(c, "abort", msg[c]) /\ UNCHANGED <<broker, errors>>
       \/ /\ c = "engine" /\ errors < MaxErrors /\ errors' = errors + 1
          /\ Go(c, "abort", msg[c]) /\ UNCHANGED broker
    /\ UNCHANGED <<offered, channels, answering, crashes>>

\* mutant: an error is returned without a call of AbortTransaction
ReturnAtOnce(c) ==
    /\ at[c] = "abort" /\ Go(c, "failed", msg[c])
    /\ UNCHANGED <<offered, channels, broker, faults>>

\* AbortTransaction, whose error nobody looks at
Abort(c) ==
    /\ at[c] = "abort" /\ Go(c, "failed", msg[c])
    /\ \/ /\ answering /\ txn # "fatal" /\ txn' = "ready"
          /\ batch' = <<>> /\ UNCHANGED errors
       \/ txn = "fatal" /\ UNCHANGED <<txn, batch, errors>>
       \/ /\ answering /\ txn # "fatal" /\ txn' = "left" /\ UNCHANGED batch
          /\ errors < MaxErrors /\ errors' = errors + 1
    /\ UNCHANGED <<offered, channels, log, answering, crashes>>

\* mutant: the goroutine puts what it could not write back into its channel
RequeueOnError(c) ==
    /\ at[c] = "failed" /\ Go(c, "idle", 0)
    /\ IF c \in {"engine", "events"}
       THEN Len(producerCh) < ProducerCap /\ producerCh' = Append(producerCh, msg[c])
       ELSE UNCHANGED producerCh
    /\ UNCHANGED <<offered, kafkaOrderCh, broker, faults>>

\* mutant: GameOver is forgotten before it is sent on the channel
ForgetThenSend(c) ==
    /\ at[c] = "failed" /\ Go(c, "idle", 0)
    /\ IF c = "engine"
       THEN Len(producerCh) < ProducerCap /\ producerCh' = Append(producerCh, msg'[c])
       ELSE UNCHANGED producerCh
    /\ UNCHANGED <<offered, kafkaOrderCh, broker, faults>>

\* the error is logged or thrown away; the engine sends GameOver on the
\* channel instead and waits until there is room
ReturnError(c) ==
    /\ at[c] = "failed" /\ Go(c, "idle", 0)
    /\ IF c = "engine"
       THEN Len(producerCh) < ProducerCap /\ producerCh' = Append(producerCh, msg[c])
       ELSE UNCHANGED producerCh
    /\ UNCHANGED <<offered, kafkaOrderCh, broker, faults>>

----------------------------------------------------------------------------
(***************************************************************************)
(* The environment.                                                        *)
(***************************************************************************)
Silence ==
    /\ answering /\ answering' = FALSE
    /\ errors < MaxErrors /\ errors' = errors + 1
    /\ UNCHANGED <<offered, channels, at, msg, broker, crashes>>

Answer ==
    /\ ~answering /\ answering' = TRUE
    /\ UNCHANGED <<offered, channels, at, msg, broker, errors, crashes>>

\* an error of the transaction that an abort repairs
TxnError ==
    /\ txn = "open" /\ txn' = "abortable"
    /\ errors < MaxErrors /\ errors' = errors + 1
    /\ UNCHANGED <<offered, channels, at, msg, batch, log, answering, crashes>>

\* what is being committed when an answer is lost may have been committed
Unanswered ==
    IF txn = "open" /\ (\E c \in Callers : at[c] = "commit")
    THEN {log, log \o batch} ELSE {log}

\* the producer is fenced: every later call fails
Fence ==
    /\ txn # "fatal" /\ txn' = "fatal" /\ batch' = <<>>
    /\ log' \in Unanswered
    /\ errors < MaxErrors /\ errors' = errors + 1
    /\ UNCHANGED <<offered, channels, at, msg, answering, crashes>>

\* NewProducer after a crash: InitTransactions, once Kafka answers, aborts what
\* was left open
CrashAndRestart ==
    /\ answering /\ crashes < MaxCrashes /\ crashes' = crashes + 1
    /\ log' \in Unanswered
    /\ producerCh' = <<>> /\ kafkaOrderCh' = <<>>
    /\ at' = AllIdle /\ msg' = NoMessages
    /\ txn' = "ready" /\ batch' = <<>>
    /\ UNCHANGED <<offered, answering, errors>>

Call(c) == Begin(c) \/ Produce(c) \/ Commit(c) \/ Abort(c) \/ ReturnError(c)

Next ==
    \/ EmitEvent \/ EmitGameOver \/ AcceptOrder \/ ProcessOrder
    \/ TakeEvent \/ TakeOrder
    \/ \E c \in Callers : Call(c)
    \/ Silence \/ Answer \/ TxnError \/ Fence \/ CrashAndRestart

Spec == Init /\ [][Next]_vars

\* Every goroutine that can go on does; nothing is assumed of Kafka.
FairSpec ==
    /\ Spec
    /\ WF_vars(TakeEvent) /\ WF_vars(TakeOrder)
    /\ \A c \in Callers : WF_vars(Call(c))
=============================================================================
