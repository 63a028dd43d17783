------------------------- MODULE ProducerProperties -------------------------
(***************************************************************************)
(* Properties of the shared transactional producer.                        *)
(***************************************************************************)
EXTENDS TxnProducer

TypeOK ==
    /\ offered \in Seq(Callers)
    /\ producerCh \in Seq(Message) /\ kafkaOrderCh \in Seq(Message)
    /\ at \in [Callers -> Places] /\ msg \in [Callers -> Message \cup {0}]
    /\ txn \in TxnStates /\ batch \in Seq(Message) /\ log \in Seq(Message)
    /\ answering \in BOOLEAN /\ errors \in Nat /\ crashes \in Nat

(***************************************************************************)
(* Nobody takes a lock, yet a transaction is one caller's: two callers are *)
(* never between BeginTransaction and its end, what is to be committed is  *)
(* the message of the caller that commits, and no transaction is left open *)
(* when its caller has returned, but by an abort that failed: and then     *)
(* nobody is inside one again.                                             *)
(***************************************************************************)
OneTransaction ==
    /\ \A c, d \in Inside : c = d
    /\ txn \in {"open", "abortable"} => Inside # {}
    /\ txn \in {"ready", "left"} => Inside = {}
    /\ \A c \in Callers : at[c] = "commit" /\ txn = "open" => batch = <<msg[c]>>

(***************************************************************************)
(* What one goroutine writes comes in the order in which it got it,        *)
(* whatever is lost in between.  GameOver is no part of this: one that     *)
(* fell back to the channel can be overtaken by that of the next game.     *)
(***************************************************************************)
CallersInOrder ==
    \A i, j \in DOMAIN log :
      /\ i < j
      /\ offered[log[i]] = offered[log[j]] /\ offered[log[i]] # "engine"
      => log[i] < log[j]

(***************************************************************************)
(* A message is given up only when its own transaction met an error, or    *)
(* another caller is in the middle of its transaction, or the producer is  *)
(* of no use any more, fenced or with a transaction that could not be      *)
(* aborted.  An error that was repaired costs no later message.            *)
(***************************************************************************)
LossHasReason ==
    [][\A c \in Callers :
         at[c] # "failed" /\ at'[c] = "failed"
         => \/ at[c] = "abort" /\ errors > 0
            \/ Inside \ {c} # {}
            \/ txn \in {"left", "fatal"}]_vars

\* in the hands of a goroutine or in a channel
InFlight ==
    {producerCh[i] : i \in DOMAIN producerCh}
      \cup {kafkaOrderCh[i] : i \in DOMAIN kafkaOrderCh}
      \cup {msg[c] : c \in {d \in Callers : at[d] # "idle"}}

Committed == {log[i] : i \in DOMAIN log}

\* what was offered is written, on its way, or lost
Messages == INSTANCE MessageLog
    WITH offered <- Message, lost <- (Message \ Committed) \ InFlight

(***************************************************************************)
(* Every message, GameOver with its way back through the channel included, *)
(* is written at most once, also across errors and crashes, and never      *)
(* after it was given up.                                                  *)
(***************************************************************************)
WrittenAtMostOnce == Messages!LogSpec

(***************************************************************************)
(* If Kafka answers in the end, a caller of the producer returns: the      *)
(* engine, too, which waits for room in producerCh with GameOver, is not   *)
(* held up for ever.  And an error that an abort can repair leaves no      *)
(* transaction that nobody ends, unless the abort itself has failed.       *)
(***************************************************************************)
CallersReturn ==
    <>[]answering
    => /\ \A c \in Callers : at[c] # "idle" ~> at[c] = "idle"
       /\ txn = "abortable" ~> txn \in {"ready", "left", "fatal"}

(***************************************************************************)
(* GameOver is written, as the comment of GameOverPublisher promises       *)
(* ("guaranteeing exactly-once delivery").                                 *)
(***************************************************************************)
GameOverIsWritten ==
    \A m \in 1..MaxMessages :
      (m \in Message /\ offered[m] = "engine") ~> m \in Committed
=============================================================================
