-------------------------- MODULE ProducerTheorems --------------------------
(***************************************************************************)
(* Proofs about the shared transactional producer, for any capacities and  *)
(* any number of messages, errors and crashes.                             *)
(***************************************************************************)
EXTENDS ProducerProperties, SequenceTheorems, TLAPS

(***************************************************************************)
(* Sequences of messages.                                                  *)
(***************************************************************************)
LEMMA WiderSequence ==
  ASSUME NEW S, NEW T, S \subseteq T, NEW s \in Seq(S)
  PROVE  s \in Seq(T)
  OBVIOUS

LEMMA AppendOne ==
  ASSUME NEW S, NEW s \in Seq(S), NEW e \in S
  PROVE  /\ Append(s, e) \in Seq(S) /\ s \o <<e>> = Append(s, e)
         /\ Len(Append(s, e)) = Len(s) + 1
         /\ DOMAIN Append(s, e) = 1..Len(s) + 1
         /\ \A i \in DOMAIN s : Append(s, e)[i] = s[i]
         /\ Append(s, e)[Len(s) + 1] = e
<1>1. <<e>> \in Seq(S) /\ Len(<<e>>) = 1 /\ <<e>>[1] = e
  OBVIOUS
<1>2. /\ Append(s, e) \in Seq(S) /\ Len(Append(s, e)) = Len(s) + 1
      /\ \A i \in 1..Len(s) : Append(s, e)[i] = s[i]
      /\ Append(s, e)[Len(s) + 1] = e
  BY AppendProperties
<1>3. s \o <<e>> = Append(s, e)
  BY AppendIsConcat
<1> QED
  BY <1>2, <1>3

LEMMA TailOne ==
  ASSUME NEW S, NEW s \in Seq(S), s # <<>>
  PROVE  /\ Head(s) \in S /\ Tail(s) \in Seq(S) /\ Head(s) = s[1] /\ 1 \in DOMAIN s
         /\ \A i \in DOMAIN Tail(s) : i + 1 \in DOMAIN s /\ Tail(s)[i] = s[i + 1]
         /\ \A i \in DOMAIN s : i = 1 \/ (i - 1 \in DOMAIN Tail(s) /\ Tail(s)[i - 1] = s[i])
<1>1. /\ Head(s) \in S /\ Tail(s) \in Seq(S) /\ Len(s) \in Nat \ {0}
      /\ Len(Tail(s)) = Len(s) - 1 /\ \A i \in 1..Len(Tail(s)) : Tail(s)[i] = s[i + 1]
  BY HeadTailProperties, EmptySeq, LenProperties
<1> QED
  BY <1>1

(***************************************************************************)
(* Types.  Offering widens the set of messages, everything else keeps it.  *)
(***************************************************************************)
LEMMA OfferType ==
  ASSUME TypeOK, NEW c \in Callers, Offer(c)
  PROVE  /\ offered' \in Seq(Callers) /\ Len(offered') = Len(offered) + 1
         /\ Message \subseteq Message' /\ Fresh \in Message'
         /\ \A m \in Message : offered'[m] = offered[m]
         /\ offered'[Fresh] = c
         /\ producerCh \in Seq(Message') /\ kafkaOrderCh \in Seq(Message')
         /\ batch' \in Seq(Message') /\ log' \in Seq(Message')
<1>1. /\ offered' \in Seq(Callers) /\ Len(offered') = Len(offered) + 1
      /\ \A m \in DOMAIN offered : offered'[m] = offered[m]
      /\ offered'[Len(offered) + 1] = c
  BY AppendOne DEF TypeOK, Offer
<1>2. Len(offered) \in Nat /\ DOMAIN offered = 1..Len(offered)
  BY DEF TypeOK
<1>3. Message \subseteq Message' /\ Fresh \in Message'
  BY <1>1, <1>2 DEF Message, Fresh
<1>4. \A s \in Seq(Message) : s \in Seq(Message')
  BY <1>3, WiderSequence
<1> QED
  BY <1>1, <1>2, <1>3, <1>4 DEF TypeOK, Offer, broker, Message, Fresh

LEMMA GoType ==
  ASSUME at \in [Callers -> Places], NEW T, msg \in [Callers -> T],
         NEW c \in Callers, NEW place \in Places, NEW m \in T, Go(c, place, m)
  PROVE  /\ at' \in [Callers -> Places] /\ msg' \in [Callers -> T]
         /\ at'[c] = place /\ msg'[c] = m
         /\ \A d \in Callers \ {c} : at'[d] = at[d] /\ msg'[d] = msg[d]
  BY DEF Go

LEMMA Names ==
  /\ {"events", "orders", "consumer", "engine"} \subseteq Callers
  /\ {"idle", "begin", "produce", "commit", "abort", "failed"} \subseteq Places
  BY DEF Callers, Places

LEMMA TypeInit == Init => TypeOK
<1> SUFFICES ASSUME Init PROVE TypeOK
  OBVIOUS
<1>1. <<>> \in Seq(Callers) /\ <<>> \in Seq(Message)
  OBVIOUS
<1> QED
  BY <1>1 DEF Init, TypeOK, AllIdle, NoMessages, Places, TxnStates

LEMMA OfferingType ==
  ASSUME TypeOK, EmitEvent \/ EmitGameOver \/ AcceptOrder \/ ProcessOrder
  PROVE  TypeOK'
<1> USE Names
<1>1. CASE EmitEvent
  <2>1. Offer("events")
    BY <1>1 DEF EmitEvent
  <2>2. Append(producerCh, Fresh) \in Seq(Message')
    BY <2>1, OfferType, AppendOne
  <2> QED
    BY <1>1, <2>1, <2>2, OfferType DEF EmitEvent, Offer, TypeOK, broker, faults
<1>2. CASE EmitGameOver
  <2>1. Offer("engine") /\ Go("engine", "begin", Fresh)
    BY <1>2 DEF EmitGameOver
  <2>2. msg \in [Callers -> Message' \cup {0}] /\ Fresh \in Message' \cup {0}
    BY <2>1, OfferType DEF TypeOK
  <2>3. at' \in [Callers -> Places] /\ msg' \in [Callers -> Message' \cup {0}]
    BY <2>1, <2>2, GoType DEF TypeOK
  <2> QED
    BY <1>2, <2>1, <2>3, OfferType DEF EmitGameOver, Offer, TypeOK, channels, broker, faults
<1>3. CASE AcceptOrder
  <2>1. Offer("orders")
    BY <1>3 DEF AcceptOrder
  <2>2. Append(kafkaOrderCh, Fresh) \in Seq(Message')
    BY <2>1, OfferType, AppendOne
  <2> QED
    BY <1>3, <2>1, <2>2, OfferType DEF AcceptOrder, Offer, TypeOK, broker, faults
<1>4. CASE ProcessOrder
  <2>1. Offer("consumer") /\ Go("consumer", "begin", Fresh)
    BY <1>4 DEF ProcessOrder
  <2>2. msg \in [Callers -> Message' \cup {0}] /\ Fresh \in Message' \cup {0}
    BY <2>1, OfferType DEF TypeOK
  <2>3. at' \in [Callers -> Places] /\ msg' \in [Callers -> Message' \cup {0}]
    BY <2>1, <2>2, GoType DEF TypeOK
  <2> QED
    BY <1>4, <2>1, <2>3, OfferType DEF ProcessOrder, Offer, TypeOK, channels, broker, faults
<1> QED
  BY <1>1, <1>2, <1>3, <1>4

LEMMA TakingType ==
  ASSUME TypeOK, TakeEvent \/ TakeOrder
  PROVE  TypeOK'
<1> USE Names
<1>1. CASE TakeEvent
  <2>1. Head(producerCh) \in Message /\ Tail(producerCh) \in Seq(Message)
    BY <1>1, TailOne DEF TakeEvent, TypeOK
  <2>2. at' \in [Callers -> Places] /\ msg' \in [Callers -> Message \cup {0}]
    BY <1>1, <2>1, GoType DEF TakeEvent, TypeOK
  <2> QED
    BY <1>1, <2>1, <2>2 DEF TakeEvent, TypeOK, broker, faults, Message
<1>2. CASE TakeOrder
  <2>1. Head(kafkaOrderCh) \in Message /\ Tail(kafkaOrderCh) \in Seq(Message)
    BY <1>2, TailOne DEF TakeOrder, TypeOK
  <2>2. at' \in [Callers -> Places] /\ msg' \in [Callers -> Message \cup {0}]
    BY <1>2, <2>1, GoType DEF TakeOrder, TypeOK
  <2> QED
    BY <1>2, <2>1, <2>2 DEF TakeOrder, TypeOK, broker, faults, Message
<1> QED
  BY <1>1, <1>2

\* A caller outside of "idle" holds a message.
HandsFull == \A c \in Callers : at[c] = "idle" <=> msg[c] = 0

LEMMA CallType ==
  ASSUME TypeOK, HandsFull, NEW c \in Callers, Call(c)
  PROVE  TypeOK'
<1> USE Names
<1>1. offered' = offered /\ Message' = Message /\ crashes' = crashes
  BY DEF Call, Begin, Produce, Commit, Abort, ReturnError, faults, Message
<1>2. at' \in [Callers -> Places] /\ msg' \in [Callers -> Message \cup {0}]
  <2>1. PICK place \in Places, m \in Message \cup {0} : Go(c, place, m)
    BY DEF Call, Begin, Produce, Commit, Abort, ReturnError, TypeOK
  <2> QED
    BY <2>1, GoType DEF TypeOK
<1>3. txn' \in TxnStates
  BY DEF Call, Begin, Produce, Commit, Abort, ReturnError, TypeOK, TxnStates, broker
<1>4. errors' \in Nat /\ answering' \in BOOLEAN
  BY DEF Call, Begin, Produce, Commit, Abort, ReturnError, TypeOK, faults
<1>5. at[c] # "idle" => msg[c] \in Message
  BY DEF HandsFull, TypeOK
<1>6. batch' \in Seq(Message) /\ log' \in Seq(Message)
  <2>1. CASE Produce(c)
    <3>1. Append(batch, msg[c]) \in Seq(Message)
      BY <2>1, <1>5, AppendOne DEF Produce, TypeOK
    <3> QED
      BY <2>1, <3>1 DEF Produce, TypeOK
  <2>2. CASE Commit(c)
    <3>1. log \o batch \in Seq(Message)
      BY ConcatProperties DEF TypeOK
    <3>2. <<>> \in Seq(Message)
      OBVIOUS
    <3> QED
      BY <2>2, <3>1, <3>2 DEF Commit, TypeOK, broker
  <2>3. CASE Abort(c)
    <3>1. <<>> \in Seq(Message)
      OBVIOUS
    <3> QED
      BY <2>3, <3>1 DEF Abort, TypeOK
  <2>4. CASE Begin(c) \/ ReturnError(c)
    BY <2>4 DEF Begin, ReturnError, TypeOK, broker
  <2> QED
    BY <2>1, <2>2, <2>3, <2>4 DEF Call
<1>7. producerCh' \in Seq(Message) /\ kafkaOrderCh' \in Seq(Message)
  <2>1. CASE ReturnError(c)
    <3>1. Append(producerCh, msg[c]) \in Seq(Message)
      BY <2>1, <1>5, AppendOne DEF ReturnError, TypeOK
    <3> QED
      BY <2>1, <3>1 DEF ReturnError, TypeOK
  <2>2. CASE ~ReturnError(c)
    BY <2>2 DEF Call, Begin, Produce, Commit, Abort, channels, TypeOK
  <2> QED
    BY <2>1, <2>2
<1> QED
  BY <1>1, <1>2, <1>3, <1>4, <1>6, <1>7 DEF TypeOK

\* What Kafka does, and what happens to the instance.
Fault == Silence \/ Answer \/ TxnError \/ Fence \/ CrashAndRestart

LEMMA FaultType ==
  ASSUME TypeOK, Fault
  PROVE  TypeOK'
<1> USE DEF Fault, Silence, Answer
<1>1. offered' = offered /\ Message' = Message /\ <<>> \in Seq(Message)
  BY DEF TxnError, Fence, CrashAndRestart, Message
<1>2. log' \in Seq(Message)
  <2>1. log \o batch \in Seq(Message)
    BY ConcatProperties DEF TypeOK
  <2> QED
    BY <2>1 DEF TxnError, Fence, CrashAndRestart, Unanswered, TypeOK, broker
<1>3. AllIdle \in [Callers -> Places] /\ NoMessages \in [Callers -> Message \cup {0}]
  BY DEF AllIdle, NoMessages, Places
<1>4. producerCh' \in Seq(Message) /\ kafkaOrderCh' \in Seq(Message)
      /\ batch' \in Seq(Message) /\ txn' \in TxnStates
  BY <1>1 DEF TxnError, Fence, CrashAndRestart, TypeOK, channels, broker, TxnStates
<1>5. at' \in [Callers -> Places] /\ msg' \in [Callers -> Message \cup {0}]
  BY <1>3 DEF TxnError, Fence, CrashAndRestart, TypeOK
<1>6. errors' \in Nat /\ crashes' \in Nat
  BY DEF TxnError, Fence, CrashAndRestart, TypeOK
<1>7. answering' \in BOOLEAN
  BY Zenon DEF TxnError, Fence, CrashAndRestart, TypeOK
<1> QED
  BY <1>1, <1>2, <1>4, <1>5, <1>6, <1>7 DEF TypeOK

LEMMA HandsInit == Init => HandsFull
  BY DEF Init, HandsFull, AllIdle, NoMessages

LEMMA HandsNext ==
  ASSUME TypeOK, HandsFull, [Next]_vars
  PROVE  HandsFull'
<1> USE Names
<1>1. CASE \E c \in Callers, place \in Places, m \in Nat :
             Go(c, place, m) /\ (place = "idle" <=> m = 0)
  BY <1>1 DEF Go, HandsFull, TypeOK
<1>2. CASE UNCHANGED <<at, msg>>
  BY <1>2 DEF HandsFull
<1>3. CASE CrashAndRestart
  BY <1>3 DEF CrashAndRestart, HandsFull, AllIdle, NoMessages
<1>4. Fresh \in Nat \ {0} /\ \A m \in Message : m \in Nat \ {0}
  BY DEF Fresh, Message, TypeOK
<1>5. \A c \in Callers : at[c] # "idle" => msg[c] \in Nat \ {0}
  BY <1>4 DEF HandsFull, TypeOK
<1>6. CASE EmitGameOver \/ ProcessOrder
  <2>1. Go("engine", "begin", Fresh) \/ Go("consumer", "begin", Fresh)
    BY <1>6 DEF EmitGameOver, ProcessOrder
  <2> QED
    BY <2>1, <1>1, <1>4
<1>7. CASE TakeEvent
  <2>1. Head(producerCh) \in Nat \ {0}
    BY <1>4, <1>7, TailOne DEF TakeEvent, TypeOK
  <2> QED
    BY <1>7, <2>1, <1>1 DEF TakeEvent
<1>8. CASE TakeOrder
  <2>1. Head(kafkaOrderCh) \in Nat \ {0}
    BY <1>4, <1>8, TailOne DEF TakeOrder, TypeOK
  <2> QED
    BY <1>8, <2>1, <1>1 DEF TakeOrder
<1>9. ASSUME NEW c \in Callers, Call(c) PROVE HandsFull'
  <2>1. at[c] # "idle"
    BY <1>9 DEF Call, Begin, Produce, Commit, Abort, ReturnError
  <2>2. \/ Go(c, "idle", 0)
        \/ \E place \in Places \ {"idle"} : Go(c, place, msg[c])
    BY <1>9 DEF Call, Begin, Produce, Commit, Abort, ReturnError
  <2> QED
    BY <2>1, <2>2, <1>1, <1>5
<1>10. CASE EmitEvent \/ AcceptOrder \/ Silence \/ Answer \/ TxnError \/ Fence \/ UNCHANGED vars
  BY <1>10, <1>2 DEF EmitEvent, AcceptOrder, Silence, Answer, TxnError, Fence, vars
<1> QED
  BY <1>3, <1>6, <1>7, <1>8, <1>9, <1>10 DEF Next

LEMMA TypeNext ==
  ASSUME TypeOK, HandsFull, [Next]_vars
  PROVE  TypeOK'
<1>1. CASE UNCHANGED vars
  BY <1>1 DEF vars, TypeOK, channels, broker, faults, Message
<1> QED
  BY <1>1, OfferingType, TakingType, CallType, FaultType DEF Next, Fault

(***************************************************************************)
(* Types are as declared: a message in a channel, in a hand, in the        *)
(* transaction or in the log is one that was offered.                      *)
(***************************************************************************)
THEOREM ProducerTypes == Spec => [](TypeOK /\ HandsFull)
<1>1. TypeOK /\ HandsFull /\ [Next]_vars => (TypeOK /\ HandsFull)'
  BY HandsNext, TypeNext
<1> QED
  BY <1>1, TypeInit, HandsInit, PTL DEF Spec

(***************************************************************************)
(* One transaction.  The batch is empty but for the caller that commits or *)
(* gives up, or when an abort has failed, and every abort has an error     *)
(* behind it, or that Kafka does not answer.                               *)
(***************************************************************************)
TxnInv ==
    /\ OneTransaction
    /\ txn = "ready" => batch = <<>>
    /\ \A c \in Callers : at[c] = "produce" => batch = <<>>
    /\ txn \in {"abortable", "left", "fatal"} => errors > 0
    /\ ~answering => errors > 0
    /\ \A c \in Callers : at[c] = "abort" => errors > 0

LEMMA TxnInit == Init => TxnInv
  BY DEF Init, TxnInv, OneTransaction, Inside, AllIdle

\* Steps outside of a transaction: nobody enters or leaves one.
LEMMA OutsideTxn ==
  ASSUME TxnInv, UNCHANGED <<txn, batch, answering, errors>>,
         NEW c \in Callers, at[c] \in {"idle", "failed"},
         at' = [at EXCEPT ![c] = at'[c]], at'[c] \in {"idle", "begin"},
         \A d \in Callers \ {c} : msg'[d] = msg[d],
         at \in [Callers -> Places]
  PROVE  TxnInv'
<1>1. \A d \in Callers : d # c => at'[d] = at[d]
  OBVIOUS
<1>2. Inside' = Inside /\ c \notin Inside
  BY <1>1 DEF Inside
<1> QED
  BY <1>1, <1>2 DEF TxnInv, OneTransaction

LEMMA SteadyTxn ==
  ASSUME TypeOK, TxnInv, UNCHANGED <<at, msg, txn, batch>>,
         errors' = errors \/ (errors' \in Nat /\ errors' > 0),
         ~answering' => ~answering \/ errors' > 0
  PROVE  TxnInv'
<1>1. Inside' = Inside
  BY DEF Inside
<1> QED
  BY <1>1 DEF TxnInv, OneTransaction

LEMMA CallTxn ==
  ASSUME TypeOK, TxnInv, NEW c \in Callers, Call(c)
  PROVE  TxnInv'
<1> USE DEF OneTransaction, TxnInv
<1>1. CASE Begin(c)
  <2>1. CASE txn = "ready"
    <3>1. at' = [at EXCEPT ![c] = "produce"] /\ txn' = "open" /\ msg' = [msg EXCEPT ![c] = msg[c]]
      BY <1>1, <2>1 DEF Begin, Go
    <3>2. Inside = {} /\ batch = <<>>
      BY <2>1
    <3>3. Inside' = {c}
      BY <3>1, <3>2 DEF Inside, TypeOK
    <3> QED
      BY <1>1, <3>1, <3>2, <3>3 DEF Begin, TypeOK, Inside, faults
  <2>2. CASE txn # "ready"
    <3>1. at' = [at EXCEPT ![c] = "failed"] /\ msg' = [msg EXCEPT ![c] = msg[c]]
          /\ UNCHANGED <<txn, batch, answering, errors>>
      BY <1>1, <2>2 DEF Begin, Go, faults
    <3>2. Inside' = Inside
      BY <1>1, <3>1 DEF Inside, TypeOK, Begin
    <3> QED
      BY <1>1, <3>1, <3>2 DEF TypeOK, Begin
  <2> QED
    BY <2>1, <2>2
<1>2. CASE Produce(c)
  <2>1. c \in Inside /\ txn # "ready" /\ \A d \in Inside : d = c
    BY <1>2 DEF Produce, Inside
  <2>2. PICK place \in {"commit", "abort"} : at' = [at EXCEPT ![c] = place]
    BY <1>2 DEF Produce, Go
  <2>3. Inside' = Inside /\ \A d \in Callers \ {c} : at'[d] \notin {"produce", "commit", "abort"}
    BY <1>2, <2>1, <2>2 DEF Inside, TypeOK, Produce
  <2>4. msg' = msg /\ answering' = answering
    BY <1>2 DEF Produce, Go, TypeOK
  <2>5. CASE place = "commit"
    <3>1. txn = "open" /\ batch' = Append(<<>>, msg[c]) /\ UNCHANGED <<txn, errors>>
      BY <1>2, <2>2, <2>5 DEF Produce, Go, TypeOK
    <3>2. Append(<<>>, msg[c]) = <<msg[c]>>
      OBVIOUS
    <3> QED
      BY <2>1, <2>2, <2>3, <2>4, <2>5, <3>1, <3>2 DEF TypeOK
  <2>6. CASE place = "abort"
    <3>1. UNCHANGED <<txn, batch>> /\ errors' > 0
      BY <1>2, <2>1, <2>2, <2>6 DEF Produce, Go, TypeOK, TxnStates
    <3>2. errors' \in Nat
      BY <1>2 DEF Produce, TypeOK
    <3> QED
      BY <2>1, <2>2, <2>3, <2>4, <2>6, <3>1 DEF TypeOK
  <2> QED
    BY <2>2, <2>5, <2>6
<1>3. CASE Commit(c)
  <2>1. c \in Inside /\ txn # "ready" /\ answering' = answering /\ \A d \in Inside : d = c
    BY <1>3 DEF Commit, Inside
  <2>2. CASE txn = "open" /\ txn' = "ready" /\ batch' = <<>> /\ Go(c, "idle", 0) /\ UNCHANGED errors
    <3>1. Inside' = {}
      BY <2>1, <2>2 DEF Inside, TypeOK, Go
    <3> QED
      BY <2>1, <2>2, <3>1 DEF Inside
  <2>3. CASE Go(c, "abort", msg[c]) /\ UNCHANGED broker /\ errors' > 0
    <3>1. Inside' = Inside /\ msg' = msg /\ at' = [at EXCEPT ![c] = "abort"]
      BY <2>1, <2>3 DEF Inside, TypeOK, Go
    <3> QED
      BY <2>1, <2>3, <3>1 DEF TypeOK, broker, Inside
  <2>4. \/ txn = "open" /\ txn' = "ready" /\ batch' = <<>> /\ Go(c, "idle", 0) /\ UNCHANGED errors
        \/ Go(c, "abort", msg[c]) /\ UNCHANGED broker /\ errors' > 0
    BY <1>3, <2>1 DEF Commit, TypeOK, TxnStates
  <2> QED
    BY <2>2, <2>3, <2>4
<1>4. CASE Abort(c)
  <2>1. c \in Inside /\ txn # "ready" /\ answering' = answering /\ \A d \in Inside : d = c
    BY <1>4 DEF Abort, Inside
  <2>2. Inside' = {}
    BY <1>4, <2>1 DEF Abort, Go, Inside, TypeOK
  <2>3. /\ txn' = "ready" => batch' = <<>>
        /\ txn' \in {"ready", "left", "fatal"}
        /\ txn' \in {"left", "fatal"} => errors' > 0
        /\ errors > 0 => errors' > 0
    BY <1>4, <2>1 DEF Abort, TypeOK
  <2> QED
    BY <2>1, <2>2, <2>3 DEF Inside
<1>5. CASE ReturnError(c)
  <2>1. at' = [at EXCEPT ![c] = "idle"] /\ msg' = [msg EXCEPT ![c] = 0] /\ at[c] = "failed"
        /\ UNCHANGED <<txn, batch, answering, errors>>
    BY <1>5 DEF ReturnError, Go, broker, faults
  <2>2. at'[c] = "idle" /\ \A d \in Callers \ {c} : msg'[d] = msg[d]
    BY <2>1 DEF TypeOK
  <2> QED
    BY <2>1, <2>2, OutsideTxn DEF TypeOK
<1> QED
  BY <1>1, <1>2, <1>3, <1>4, <1>5 DEF Call

LEMMA TxnNext ==
  ASSUME TypeOK, TxnInv, [Next]_vars
  PROVE  TxnInv'
<1> USE Names
<1>1. CASE EmitEvent \/ AcceptOrder \/ UNCHANGED vars
  BY <1>1, SteadyTxn DEF EmitEvent, AcceptOrder, vars, Offer, broker, faults
<1>8. CASE Silence \/ Answer
  BY <1>8, SteadyTxn DEF Silence, Answer, broker, TypeOK
<1>2. CASE EmitGameOver
  BY <1>2, OutsideTxn DEF EmitGameOver, Go, Offer, broker, faults, TypeOK
<1>3. CASE ProcessOrder
  BY <1>3, OutsideTxn DEF ProcessOrder, Go, Offer, broker, faults, TypeOK
<1>4. CASE TakeEvent
  BY <1>4, OutsideTxn DEF TakeEvent, Go, broker, faults, TypeOK
<1>5. CASE TakeOrder
  BY <1>5, OutsideTxn DEF TakeOrder, Go, broker, faults, TypeOK
<1>6. CASE TxnError \/ Fence
  <2>1. Inside' = Inside /\ at' = at /\ errors' > 0 /\ txn' # "ready"
    BY <1>6 DEF TxnError, Fence, Inside, TypeOK
  <2> QED
    BY <1>6, <2>1 DEF TxnError, Fence, TxnInv, OneTransaction
<1>7. CASE CrashAndRestart
  <2>1. Inside' = {} /\ at' = AllIdle /\ txn' = "ready" /\ batch' = <<>> /\ answering'
    BY <1>7 DEF CrashAndRestart, Inside, AllIdle
  <2> QED
    BY <2>1 DEF TxnInv, OneTransaction, AllIdle
<1> QED
  BY <1>1, <1>2, <1>3, <1>4, <1>5, <1>6, <1>7, <1>8, CallTxn DEF Next

LEMMA TxnAlways == Spec => [](TypeOK /\ HandsFull /\ TxnInv)
<1>1. TypeOK /\ HandsFull /\ TxnInv /\ [Next]_vars => (TypeOK /\ HandsFull /\ TxnInv)'
  BY HandsNext, TypeNext, TxnNext
<1> QED
  BY <1>1, TypeInit, HandsInit, TxnInit, PTL DEF Spec

(***************************************************************************)
(* A transaction is one caller's, and none is left open but by an abort    *)
(* that failed.                                                            *)
(***************************************************************************)
THEOREM TransactionsAreOwned == Spec => []OneTransaction
<1>1. TxnInv => OneTransaction
  BY DEF TxnInv
<1> QED
  BY <1>1, TxnAlways, PTL

(***************************************************************************)
(* A message is given up only for an error in its own transaction, because *)
(* another caller is in the middle of one, or because the producer is of   *)
(* no use any more.                                                        *)
(***************************************************************************)
THEOREM LossesAreExplained == Spec => LossHasReason
<1>1. ASSUME TypeOK, TxnInv, [Next]_vars, NEW c \in Callers,
             at[c] # "failed", at'[c] = "failed"
      PROVE  \/ at[c] = "abort" /\ errors > 0
             \/ Inside \ {c} # {}
             \/ txn \in {"left", "fatal"}
  <2>1. Begin(c) \/ Abort(c)
    BY <1>1, Names DEF Next, vars, Call, Begin, Produce, Commit, Abort, ReturnError,
       EmitEvent, EmitGameOver, AcceptOrder, ProcessOrder, TakeEvent, TakeOrder,
       Silence, Answer, TxnError, Fence, CrashAndRestart, AllIdle, Go, TypeOK
  <2>2. CASE Abort(c)
    BY <1>1, <2>2 DEF Abort, TxnInv
  <2>3. CASE Begin(c)
    <3>1. txn # "ready" /\ c \notin Inside
      BY <1>1, <2>3 DEF Begin, Go, Inside, TypeOK
    <3>2. txn \in {"left", "fatal"} \/ Inside # {}
      BY <1>1, <3>1 DEF TxnInv, OneTransaction, TypeOK, TxnStates
    <3> QED
      BY <1>1, <3>1, <3>2 DEF TxnInv
  <2> QED
    BY <2>1, <2>2, <2>3
<1>2. TypeOK /\ TxnInv /\ [Next]_vars
      => [\A c \in Callers :
            at[c] # "failed" /\ at'[c] = "failed"
            => \/ at[c] = "abort" /\ errors > 0
               \/ Inside \ {c} # {}
               \/ txn \in {"left", "fatal"}]_vars
  BY <1>1
<1> QED
  BY <1>2, TxnAlways, PTL DEF Spec, LossHasReason

(***************************************************************************)
(* The way of a message.  Numbers ascend from the log to the hands of a    *)
(* caller and from there to its channel; what the engine tries to write    *)
(* itself comes after all that waits in producerCh.  Whom a message is     *)
(* from says where it may be.  While the producer works, nothing that was  *)
(* committed is still on its way; afterwards it may be, but nothing is     *)
(* written any more.                                                       *)
(***************************************************************************)
Ascends(ch) == \A i, j \in DOMAIN ch : i < j => ch[i] < ch[j]

Later(m, ch) == \A i \in DOMAIN ch : m < ch[i]

Earlier(ch, m) == \A i \in DOMAIN ch : ch[i] < m

Busy(c) == at[c] # "idle"

FromEngine == {m \in Message : offered[m] \in {"events", "engine"}}

SourceInv ==
    /\ \A i \in DOMAIN producerCh : producerCh[i] \in FromEngine
    /\ \A i \in DOMAIN kafkaOrderCh : offered[kafkaOrderCh[i]] = "orders"
    /\ Busy("events") => msg["events"] \in FromEngine
    /\ \A c \in {"orders", "consumer", "engine"} : Busy(c) => offered[msg[c]] = c

AscentInv ==
    /\ Ascends(producerCh) /\ Ascends(kafkaOrderCh)
    /\ Busy("events") => Later(msg["events"], producerCh)
    /\ Busy("orders") => Later(msg["orders"], kafkaOrderCh)
    /\ Busy("engine") => /\ Earlier(producerCh, msg["engine"])
                         /\ Busy("events") => msg["events"] < msg["engine"]

Past(m) ==
    /\ offered[m] = "events" =>
         /\ Busy("events") => m < msg["events"]
         /\ Busy("engine") => m < msg["engine"]
         /\ Later(m, producerCh)
    /\ offered[m] = "orders" =>
         /\ Busy("orders") => m < msg["orders"]
         /\ Later(m, kafkaOrderCh)
    /\ offered[m] = "consumer" => (Busy("consumer") => m < msg["consumer"])
    /\ offered[m] = "engine" =>
         /\ Busy("events") => m # msg["events"]
         /\ Busy("engine") => m # msg["engine"]
         /\ \A i \in DOMAIN producerCh : m # producerCh[i]

LogInv == txn # "fatal" => \A k \in DOMAIN log : Past(log[k])

WayInv == SourceInv /\ AscentInv /\ LogInv /\ CallersInOrder

LEMMA AppendAscends ==
  ASSUME NEW S \in SUBSET Nat, NEW ch \in Seq(S), NEW m \in S, Ascends(ch), Earlier(ch, m)
  PROVE  /\ Ascends(Append(ch, m))
         /\ \A k \in Nat : Later(k, ch) /\ k < m => Later(k, Append(ch, m))
         /\ \A k \in Nat : Earlier(ch, k) /\ m < k => Earlier(Append(ch, m), k)
  BY AppendOne DEF Ascends, Earlier, Later

LEMMA TailAscends ==
  ASSUME NEW S \in SUBSET Nat, NEW ch \in Seq(S), ch # <<>>, Ascends(ch)
  PROVE  /\ Ascends(Tail(ch)) /\ Later(Head(ch), Tail(ch))
         /\ \A k \in Nat : Later(k, ch) => Later(k, Tail(ch)) /\ k < Head(ch)
         /\ \A k \in Nat : Earlier(ch, k) => Earlier(Tail(ch), k) /\ Head(ch) < k
<1>1. /\ Head(ch) \in S /\ Tail(ch) \in Seq(S) /\ Head(ch) = ch[1] /\ 1 \in DOMAIN ch
      /\ \A i \in DOMAIN Tail(ch) : i + 1 \in DOMAIN ch /\ Tail(ch)[i] = ch[i + 1]
  BY TailOne
<1>2. DOMAIN Tail(ch) \subseteq Nat \ {0} /\ DOMAIN ch \subseteq Nat \ {0}
  BY <1>1
<1> QED
  BY <1>1, <1>2 DEF Ascends, Earlier, Later

LEMMA WayInit == Init => WayInv
<1> SUFFICES ASSUME Init PROVE WayInv
  OBVIOUS
<1>1. DOMAIN producerCh = {} /\ DOMAIN kafkaOrderCh = {} /\ DOMAIN log = {}
  BY DEF Init
<1>2. \A c \in Callers : ~Busy(c)
  BY DEF Init, Busy, AllIdle
<1> QED
  BY <1>1, <1>2, Names DEF WayInv, SourceInv, AscentInv, LogInv, CallersInOrder, Ascends

\* Steps that leave the messages where they are.
LEMMA SteadyWay ==
  ASSUME WayInv, UNCHANGED <<offered, channels, msg, log>>,
         \A c \in Callers : Busy(c)' <=> Busy(c), txn = "fatal" => txn' = "fatal"
  PROVE  WayInv'
<1> USE Names DEF WayInv, SourceInv, AscentInv, LogInv, CallersInOrder, Ascends, Earlier, Later,
        Past, FromEngine, Message, channels
<1>1. SourceInv'
  OBVIOUS
<1>2. AscentInv'
  OBVIOUS
<1>3. \A m : Past(m) => Past(m)'
  OBVIOUS
<1>4. LogInv'
  BY <1>3
<1> QED
  BY <1>1, <1>2, <1>4

\* Numbers that were offered before are below a fresh one.
LEMMA Offered ==
  ASSUME TypeOK, HandsFull
  PROVE  /\ Message \in SUBSET Nat /\ Fresh \in Nat /\ \A m \in Message : m < Fresh
         /\ \A i \in DOMAIN producerCh : producerCh[i] \in Message
         /\ \A i \in DOMAIN kafkaOrderCh : kafkaOrderCh[i] \in Message
         /\ \A i \in DOMAIN log : log[i] \in Message
         /\ \A c \in Callers : Busy(c) => msg[c] \in Message
<1>1. Len(offered) \in Nat
  BY DEF TypeOK
<1>2. Message \in SUBSET Nat /\ Fresh \in Nat /\ \A m \in Message : m < Fresh
  BY <1>1 DEF Message, Fresh
<1>3. \A s \in Seq(Message) : \A i \in DOMAIN s : s[i] \in Message
  OBVIOUS
<1>4. \A c \in Callers : Busy(c) => msg[c] \in Message
  BY DEF TypeOK, HandsFull, Busy
<1> QED
  BY <1>2, <1>3, <1>4 DEF TypeOK

\* What holds of the log needs only that its sources are remembered.
LEMMA OrderKept ==
  ASSUME TypeOK, CallersInOrder, log' = log, \A m \in Message : offered'[m] = offered[m]
  PROVE  CallersInOrder'
<1>1. \A i \in DOMAIN log : log[i] \in Message
  BY DEF TypeOK
<1> QED
  BY <1>1 DEF CallersInOrder

LEMMA EmitEventWay ==
  ASSUME TypeOK, HandsFull, WayInv, EmitEvent
  PROVE  WayInv'
<1> USE Names, Offered DEF Busy, WayInv
<1>1. Offer("events") /\ ~Busy("engine")
  BY DEF EmitEvent
<1>2. /\ \A m \in Message : offered'[m] = offered[m]
      /\ offered'[Fresh] = "events" /\ Fresh \in Message' /\ Message \subseteq Message'
  BY <1>1, OfferType
<1>3. UNCHANGED <<at, msg, kafkaOrderCh, txn, log>> /\ at' = at
  BY <1>1 DEF EmitEvent, Offer, broker
<1>4. producerCh' = producerCh \/ producerCh' = Append(producerCh, Fresh)
  BY DEF EmitEvent
<1>5. Earlier(producerCh, Fresh) /\ producerCh \in Seq(Message) /\ producerCh \in Seq(Message')
  BY <1>1, OfferType DEF Earlier, TypeOK
<1>6. Message' \in SUBSET Nat
  BY <1>1, OfferType DEF TypeOK, Message
<1>7. /\ Ascends(producerCh)'
      /\ \A k \in Nat : Later(k, producerCh) /\ k < Fresh => Later(k, producerCh')
  BY <1>4, <1>5, <1>6, <1>2, AppendAscends DEF AscentInv
<1>8. \A i \in DOMAIN producerCh' : producerCh'[i] = Fresh \/ \E j \in DOMAIN producerCh : producerCh'[i] = producerCh[j]
  BY <1>4, <1>5, <1>2, AppendOne
<1>9. SourceInv'
  <2>1. FromEngine \subseteq FromEngine' /\ Fresh \in FromEngine'
    BY <1>2 DEF FromEngine
  <2> QED
    BY <1>2, <1>3, <1>8, <2>1 DEF SourceInv
<1>10. AscentInv'
  BY <1>1, <1>3, <1>7, <1>2, Offered DEF AscentInv, Ascends, Later
<1>11. ASSUME NEW m \in Message, Past(m) PROVE Past(m)'
  <2>1. Later(m, producerCh) => Later(m, producerCh')
    BY <1>7, <1>11
  <2> QED
    BY <1>11, <1>1, <1>2, <1>3, <1>8, <2>1 DEF Past, Later
<1>12. LogInv'
  BY <1>3, <1>11 DEF LogInv
<1> QED
  BY <1>9, <1>10, <1>12, <1>2, <1>3, OrderKept

LEMMA AcceptOrderWay ==
  ASSUME TypeOK, HandsFull, WayInv, AcceptOrder
  PROVE  WayInv'
<1> USE Names, Offered DEF Busy, WayInv
<1>1. Offer("orders")
  BY DEF AcceptOrder
<1>2. /\ \A m \in Message : offered'[m] = offered[m]
      /\ offered'[Fresh] = "orders" /\ Fresh \in Message' /\ Message \subseteq Message'
  BY <1>1, OfferType
<1>3. UNCHANGED <<at, msg, producerCh, txn, log>> /\ at' = at
  BY <1>1 DEF AcceptOrder, Offer, broker
<1>4. kafkaOrderCh' = Append(kafkaOrderCh, Fresh)
  BY DEF AcceptOrder
<1>5. Earlier(kafkaOrderCh, Fresh) /\ kafkaOrderCh \in Seq(Message) /\ kafkaOrderCh \in Seq(Message')
  BY <1>1, OfferType DEF Earlier, TypeOK
<1>6. Message' \in SUBSET Nat
  BY <1>1, OfferType DEF TypeOK, Message
<1>7. /\ Ascends(kafkaOrderCh)'
      /\ \A k \in Nat : Later(k, kafkaOrderCh) /\ k < Fresh => Later(k, kafkaOrderCh')
  BY <1>4, <1>5, <1>6, <1>2, AppendAscends DEF AscentInv
<1>8. \A i \in DOMAIN kafkaOrderCh' : kafkaOrderCh'[i] = Fresh \/ \E j \in DOMAIN kafkaOrderCh : kafkaOrderCh'[i] = kafkaOrderCh[j]
  BY <1>4, <1>5, <1>2, AppendOne
<1>9. SourceInv'
  <2>1. FromEngine \subseteq FromEngine'
    BY <1>2 DEF FromEngine
  <2> QED
    BY <1>2, <1>3, <1>8, <2>1 DEF SourceInv
<1>10. AscentInv'
  BY <1>1, <1>3, <1>7, <1>2, Offered DEF AscentInv, Ascends, Later, Earlier
<1>11. ASSUME NEW m \in Message, Past(m) PROVE Past(m)'
  <2>1. Later(m, kafkaOrderCh) => Later(m, kafkaOrderCh')
    BY <1>7, <1>11
  <2> QED
    BY <1>11, <1>1, <1>2, <1>3, <2>1 DEF Past, Later
<1>12. LogInv'
  BY <1>3, <1>11 DEF LogInv
<1> QED
  BY <1>9, <1>10, <1>12, <1>2, <1>3, OrderKept

LEMMA OfferDirectWay ==
  ASSUME TypeOK, HandsFull, WayInv, EmitGameOver \/ ProcessOrder
  PROVE  WayInv'
<1> USE Names, Offered DEF Busy, WayInv
<1>1. PICK c \in {"engine", "consumer"} :
        /\ Offer(c) /\ ~Busy(c) /\ Go(c, "begin", Fresh) /\ UNCHANGED channels
  BY DEF EmitGameOver, ProcessOrder
<1>2. /\ \A m \in Message : offered'[m] = offered[m]
      /\ offered'[Fresh] = c /\ Fresh \in Message' /\ Message \subseteq Message'
  BY <1>1, OfferType
<1>3. /\ UNCHANGED <<producerCh, kafkaOrderCh, txn, log>>
      /\ at'[c] = "begin" /\ msg'[c] = Fresh
      /\ \A d \in Callers \ {c} : at'[d] = at[d] /\ msg'[d] = msg[d]
  BY <1>1 DEF Offer, broker, channels, Go, TypeOK
<1>4. SourceInv'
  <2>1. FromEngine \subseteq FromEngine'
    BY <1>2 DEF FromEngine
  <2> QED
    BY <1>2, <1>3, <2>1 DEF SourceInv
<1>5. Earlier(producerCh, Fresh) /\ (Busy("events") => msg["events"] < Fresh)
  BY DEF Earlier
<1>6. AscentInv'
  BY <1>1, <1>3, <1>5 DEF AscentInv, Ascends, Later, Earlier
<1>7. ASSUME NEW m \in Message, Past(m) PROVE Past(m)'
  <2>1. m < Fresh /\ m # Fresh
    OBVIOUS
  <2> QED
    BY <1>7, <1>1, <1>2, <1>3, <2>1 DEF Past, Later
<1>8. LogInv'
  BY <1>3, <1>7 DEF LogInv
<1> QED
  BY <1>2, <1>3, <1>4, <1>6, <1>8, OrderKept

LEMMA TakeWay ==
  ASSUME TypeOK, HandsFull, WayInv, TakeEvent \/ TakeOrder
  PROVE  WayInv'
<1> USE Names, Offered DEF Busy, WayInv
<1>1. CASE TakeEvent
  <2> DEFINE m == Head(producerCh)
  <2>1. /\ producerCh # <<>> /\ ~Busy("events") /\ producerCh' = Tail(producerCh)
        /\ UNCHANGED <<offered, kafkaOrderCh, txn, log>>
    BY <1>1 DEF TakeEvent, broker
  <2>2. /\ m \in Message /\ m \in FromEngine
        /\ \E i \in DOMAIN producerCh : m = producerCh[i]
        /\ \A i \in DOMAIN producerCh' :
             \E j \in DOMAIN producerCh : producerCh'[i] = producerCh[j]
    BY <2>1, TailOne DEF TypeOK, SourceInv
  <2>3. /\ Ascends(producerCh)' /\ Later(m, producerCh')
        /\ \A k \in Nat : Later(k, producerCh) => Later(k, producerCh') /\ k < m
        /\ \A k \in Nat : Earlier(producerCh, k) => Earlier(producerCh', k) /\ m < k
    BY <2>1, TailAscends DEF TypeOK, AscentInv
  <2>4. /\ at'["events"] = "begin" /\ msg'["events"] = m
        /\ \A d \in Callers \ {"events"} : at'[d] = at[d] /\ msg'[d] = msg[d]
    BY <1>1, <2>2 DEF TakeEvent, Go, TypeOK
  <2>5. SourceInv'
    <3>1. FromEngine' = FromEngine
      BY <2>1 DEF FromEngine, Message
    <3>2. \A i \in DOMAIN producerCh' : producerCh'[i] \in FromEngine
      BY <2>2 DEF SourceInv
    <3> QED
      BY <2>1, <2>2, <2>4, <3>1, <3>2 DEF SourceInv
  <2>6. AscentInv'
    BY <2>1, <2>3, <2>4 DEF AscentInv, Ascends, Later
  <2>7. ASSUME NEW k \in Message, Past(k) PROVE Past(k)'
    <3>1. Later(k, producerCh) => Later(k, producerCh') /\ k < m
      BY <2>3
    <3>2. (\A i \in DOMAIN producerCh : k # producerCh[i])
          => k # m /\ \A i \in DOMAIN producerCh' : k # producerCh'[i]
      BY <2>2
    <3> QED
      BY <2>7, <2>1, <2>4, <3>1, <3>2 DEF Past, Later
  <2>8. LogInv'
    BY <2>1, <2>7 DEF LogInv
  <2> QED
    BY <2>1, <2>5, <2>6, <2>8, OrderKept
<1>2. CASE TakeOrder
  <2> DEFINE m == Head(kafkaOrderCh)
  <2>1. /\ kafkaOrderCh # <<>> /\ ~Busy("orders") /\ kafkaOrderCh' = Tail(kafkaOrderCh)
        /\ UNCHANGED <<offered, producerCh, txn, log>>
    BY <1>2 DEF TakeOrder, broker
  <2>2. /\ m \in Message /\ offered[m] = "orders"
        /\ \A i \in DOMAIN kafkaOrderCh' :
             \E j \in DOMAIN kafkaOrderCh : kafkaOrderCh'[i] = kafkaOrderCh[j]
    BY <2>1, TailOne DEF TypeOK, SourceInv
  <2>3. /\ Ascends(kafkaOrderCh)' /\ Later(m, kafkaOrderCh')
        /\ \A k \in Nat : Later(k, kafkaOrderCh) => Later(k, kafkaOrderCh') /\ k < m
    BY <2>1, TailAscends DEF TypeOK, AscentInv
  <2>4. /\ at'["orders"] = "begin" /\ msg'["orders"] = m
        /\ \A d \in Callers \ {"orders"} : at'[d] = at[d] /\ msg'[d] = msg[d]
    BY <1>2, <2>2 DEF TakeOrder, Go, TypeOK
  <2>5. SourceInv'
    BY <2>1, <2>2, <2>4 DEF SourceInv, FromEngine, Message
  <2>6. AscentInv'
    BY <2>1, <2>3, <2>4 DEF AscentInv, Ascends, Later, Earlier
  <2>7. ASSUME NEW k \in Message, Past(k) PROVE Past(k)'
    <3>1. Later(k, kafkaOrderCh) => Later(k, kafkaOrderCh') /\ k < m
      BY <2>3
    <3> QED
      BY <2>7, <2>1, <2>4, <3>1 DEF Past, Later
  <2>8. LogInv'
    BY <2>1, <2>7 DEF LogInv
  <2> QED
    BY <2>1, <2>5, <2>6, <2>8, OrderKept
<1> QED
  BY <1>1, <1>2

\* The engine falls back to the channel; the others drop their message.
LEMMA ReturnErrorWay ==
  ASSUME TypeOK, HandsFull, WayInv, NEW c \in Callers, ReturnError(c)
  PROVE  WayInv'
<1> USE Names, Offered DEF Busy, WayInv
<1>1. /\ at[c] = "failed" /\ at'[c] = "idle"
      /\ \A d \in Callers \ {c} : at'[d] = at[d] /\ msg'[d] = msg[d]
      /\ UNCHANGED <<offered, kafkaOrderCh, txn, log>>
  BY DEF ReturnError, Go, TypeOK, broker
<1>2. CASE c # "engine"
  <2>1. producerCh' = producerCh
    BY <1>2 DEF ReturnError
  <2>2. SourceInv'
    BY <1>1, <2>1 DEF SourceInv, FromEngine, Message
  <2>3. AscentInv'
    BY <1>1, <2>1 DEF AscentInv, Ascends, Later, Earlier
  <2>4. \A k \in Message : Past(k) => Past(k)'
    BY <1>1, <2>1 DEF Past, Later
  <2>5. LogInv'
    BY <1>1, <2>4 DEF LogInv
  <2> QED
    BY <1>1, <2>2, <2>3, <2>5, OrderKept
<1>3. CASE c = "engine"
  <2> DEFINE m == msg["engine"]
  <2>1. producerCh' = Append(producerCh, m) /\ m \in Message /\ m \in Nat
        /\ offered[m] = "engine" /\ Busy("engine")
    BY <1>1, <1>3 DEF ReturnError, SourceInv
  <2>2. /\ Ascends(producerCh)'
        /\ \A k \in Nat : Later(k, producerCh) /\ k < m => Later(k, producerCh')
    BY <2>1, AppendAscends DEF AscentInv, TypeOK
  <2>3. \A i \in DOMAIN producerCh' : producerCh'[i] = m \/ \E j \in DOMAIN producerCh : producerCh'[i] = producerCh[j]
    <3>1. producerCh \in Seq(Message) /\ DOMAIN producerCh = 1..Len(producerCh) /\ Len(producerCh) \in Nat
      BY DEF TypeOK
    <3>2. /\ DOMAIN producerCh' = 1..Len(producerCh) + 1
          /\ \A i \in DOMAIN producerCh : producerCh'[i] = producerCh[i]
          /\ producerCh'[Len(producerCh) + 1] = m
      BY <2>1, <3>1, AppendOne
    <3> QED
      BY <3>1, <3>2
  <2>4. SourceInv'
    BY <1>1, <1>3, <2>1, <2>3 DEF SourceInv, FromEngine, Message
  <2>5. AscentInv'
    BY <1>1, <1>3, <2>1, <2>2 DEF AscentInv, Ascends, Later
  <2>6. ASSUME NEW k \in Message, Past(k) PROVE Past(k)'
    <3>1. Later(k, producerCh) /\ k < m => Later(k, producerCh')
      BY <2>2
    <3>2. (\A i \in DOMAIN producerCh : k # producerCh[i]) /\ k # m
          => \A i \in DOMAIN producerCh' : k # producerCh'[i]
      BY <2>3
    <3> QED
      BY <2>6, <1>1, <1>3, <2>1, <3>1, <3>2 DEF Past, Later
  <2>7. LogInv'
    BY <1>1, <2>6 DEF LogInv
  <2> QED
    BY <1>1, <2>4, <2>5, <2>7, OrderKept
<1> QED
  BY <1>2, <1>3

\* What is committed was on its way only in the hands of its caller, and it
\* comes after all that this caller's source wrote before.
LEMMA LogGrows ==
  ASSUME TypeOK, HandsFull, TxnInv, WayInv, NEW c \in Callers,
         at[c] = "commit", txn = "open", offered' = offered, log' = log \o batch
  PROVE  /\ log' = Append(log, msg[c]) /\ msg[c] \in Message
         /\ msg[c] \notin Committed /\ Committed' = Committed \cup {msg[c]}
         /\ DOMAIN log' = 1..Len(log) + 1 /\ log'[Len(log) + 1] = msg[c]
         /\ \A i \in DOMAIN log : log'[i] = log[i]
         /\ CallersInOrder'
<1> USE Names, Offered DEF Busy
<1>1. batch = <<msg[c]>> /\ msg[c] \in Message /\ Busy(c)
  BY DEF TxnInv, OneTransaction
<1>2. /\ log' = Append(log, msg[c])
      /\ DOMAIN log' = 1..Len(log) + 1 /\ log'[Len(log) + 1] = msg[c]
      /\ \A i \in DOMAIN log : log'[i] = log[i]
  BY <1>1, AppendOne DEF TypeOK
<1>3. DOMAIN log = 1..Len(log) /\ Len(log) \in Nat
  BY DEF TypeOK
<1>4. c = "events" => offered[msg[c]] \in {"events", "engine"}
  BY <1>1 DEF WayInv, SourceInv, FromEngine
<1>5. c # "events" => offered[msg[c]] = c
  BY <1>1 DEF WayInv, SourceInv, Callers
<1>6. ASSUME NEW k \in DOMAIN log
      PROVE  log[k] # msg[c] /\ (offered[log[k]] = offered[msg[c]] /\ offered[log[k]] # "engine" => log[k] < msg[c])
  <2>1. Past(log[k]) /\ log[k] \in Message /\ log[k] \in Nat
    BY DEF WayInv, LogInv
  <2>2. CASE c = "events"
    BY <1>1, <1>4, <2>1, <2>2 DEF Past
  <2>3. CASE c = "orders" \/ c = "consumer" \/ c = "engine"
    BY <1>1, <1>5, <2>1, <2>3 DEF Past
  <2> QED
    BY <2>2, <2>3 DEF Callers
<1>7. msg[c] \notin Committed /\ Committed' = Committed \cup {msg[c]}
  BY <1>2, <1>3, <1>6 DEF Committed
<1>8. CallersInOrder'
  <2> SUFFICES ASSUME NEW i \in DOMAIN log', NEW j \in DOMAIN log', i < j,
                      offered[log'[i]] = offered[log'[j]], offered[log'[i]] # "engine"
               PROVE  log'[i] < log'[j]
    BY DEF CallersInOrder
  <2>1. i \in DOMAIN log /\ log'[i] = log[i]
    BY <1>2, <1>3
  <2>2. CASE j \in DOMAIN log
    BY <1>2, <2>1, <2>2 DEF WayInv, CallersInOrder
  <2>3. CASE j = Len(log) + 1
    BY <1>2, <1>6, <2>1, <2>3
  <2> QED
    BY <1>2, <1>3, <2>2, <2>3
<1> QED
  BY <1>1, <1>2, <1>7, <1>8

LEMMA CallWay ==
  ASSUME TypeOK, HandsFull, TxnInv, WayInv, NEW c \in Callers, Call(c)
  PROVE  WayInv'
<1> USE Names, Offered DEF Busy
<1>1. CASE at'[c] # "idle" /\ ~ReturnError(c)
  <2>1. UNCHANGED <<offered, channels, msg, log>> /\ (txn = "fatal" => txn' = "fatal")
        /\ \A d \in Callers \ {c} : at'[d] = at[d]
    BY <1>1 DEF Call, Begin, Produce, Commit, Abort, Go, TypeOK, broker
  <2>2. at[c] # "idle"
    BY <1>1 DEF Call, Begin, Produce, Commit, Abort
  <2>3. \A d \in Callers : Busy(d)' <=> Busy(d)
    BY <1>1, <2>1, <2>2
  <2> QED
    BY <2>1, <2>3, SteadyWay DEF WayInv
<1>2. CASE ReturnError(c)
  BY <1>2, ReturnErrorWay
<1>3. CASE at'[c] = "idle" /\ ~ReturnError(c)
  <2>1. /\ at[c] = "commit" /\ txn = "open" /\ log' = log \o batch /\ txn' = "ready"
        /\ at'[c] = "idle" /\ UNCHANGED <<offered, producerCh, kafkaOrderCh>>
        /\ \A d \in Callers \ {c} : at'[d] = at[d] /\ msg'[d] = msg[d]
    BY <1>3 DEF Call, Begin, Produce, Commit, Abort, Go, TypeOK, channels
  <2>2. /\ msg[c] \in Message /\ CallersInOrder'
        /\ \A i \in DOMAIN log' : (i \in DOMAIN log /\ log'[i] = log[i]) \/ log'[i] = msg[c]
    <3>1. DOMAIN log = 1..Len(log) /\ Len(log) \in Nat
      BY DEF TypeOK
    <3> QED
      BY <2>1, <3>1, LogGrows
  <2>3. SourceInv'
    BY <2>1 DEF WayInv, SourceInv, FromEngine, Message
  <2>4. AscentInv'
    BY <2>1 DEF WayInv, AscentInv, Ascends, Later, Earlier
  <2>5. \A k \in Message : Past(k) => Past(k)'
    BY <2>1 DEF Past, Later
  <2>6. PICK m \in Message : m = msg[c]
    BY <2>2
  <2>7. Past(m)'
    <3>1. CASE c = "events"
      <4>1. /\ offered[m] \in {"events", "engine"} /\ Later(m, producerCh)
            /\ (Busy("engine") => m < msg["engine"])
        BY <2>1, <2>6, <3>1 DEF WayInv, SourceInv, AscentInv, FromEngine
      <4>2. \A i \in DOMAIN producerCh : m # producerCh[i]
        BY <4>1 DEF Later
      <4> QED
        BY <2>1, <2>6, <3>1, <4>1, <4>2 DEF Past, Later
    <3>2. CASE c = "orders"
      BY <2>1, <2>6, <3>2 DEF WayInv, SourceInv, AscentInv, Past, Later
    <3>3. CASE c = "consumer"
      BY <2>1, <2>6, <3>3 DEF WayInv, SourceInv, Past
    <3>4. CASE c = "engine"
      <4>1. offered[m] = "engine" /\ (Busy("events") => msg["events"] < m) /\ Earlier(producerCh, m)
        BY <2>1, <2>6, <3>4 DEF WayInv, SourceInv, AscentInv
      <4>2. \A i \in DOMAIN producerCh : m # producerCh[i]
        BY <4>1 DEF Earlier
      <4> QED
        BY <2>1, <2>6, <3>4, <4>1, <4>2 DEF Past
    <3> QED
      BY <3>1, <3>2, <3>3, <3>4 DEF Callers
  <2>8. \A i \in DOMAIN log' : Past(log[i])'
    <3> SUFFICES ASSUME NEW i \in DOMAIN log' PROVE Past(log[i])'
      OBVIOUS
    <3>1. CASE i \in DOMAIN log /\ log'[i] = log[i]
      <4>1. PICK k \in Message : k = log[i]
        BY <3>1
      <4>2. Past(k)
        BY <2>1, <3>1, <4>1 DEF WayInv, LogInv
      <4>3. Past(k)' /\ log'[i] = k
        BY <2>5, <3>1, <4>1, <4>2
      <4> QED
        BY <4>3 DEF Past
    <3>2. CASE log'[i] = msg[c]
      <4>1. Past(m)' /\ log'[i] = m
        BY <2>6, <2>7, <3>2
      <4> QED
        BY <4>1 DEF Past
    <3> QED
      BY <2>2, <3>1, <3>2
  <2>9. LogInv'
    BY <2>8 DEF LogInv
  <2> QED
    BY <2>2, <2>3, <2>4, <2>9 DEF WayInv
<1> QED
  BY <1>1, <1>2, <1>3

LEMMA FaultWay ==
  ASSUME TypeOK, HandsFull, TxnInv, WayInv, Fault
  PROVE  WayInv'
<1> USE Names DEF Busy
<1>1. CASE Silence \/ Answer \/ TxnError
  BY <1>1, SteadyWay DEF Silence, Answer, TxnError, channels, broker
<1>2. ASSUME Fence \/ CrashAndRestart
      PROVE  CallersInOrder' /\ offered' = offered
  <2>1. log' = log \/ (txn = "open" /\ log' = log \o batch /\ \E c \in Callers : at[c] = "commit")
    BY <1>2 DEF Fence, CrashAndRestart, Unanswered
  <2>2. offered' = offered
    BY <1>2 DEF Fence, CrashAndRestart
  <2> QED
    BY <2>1, <2>2, LogGrows, OrderKept DEF WayInv
<1>3. CASE Fence
  <2>1. UNCHANGED <<offered, producerCh, kafkaOrderCh, at, msg>> /\ txn' = "fatal"
    BY <1>3 DEF Fence, channels
  <2>2. SourceInv'
    BY <2>1 DEF WayInv, SourceInv, FromEngine, Message
  <2>3. AscentInv'
    BY <2>1 DEF WayInv, AscentInv, Ascends, Later, Earlier
  <2> QED
    BY <1>2, <1>3, <2>1, <2>2, <2>3 DEF WayInv, LogInv
<1>4. CASE CrashAndRestart
  <2>1. producerCh' = <<>> /\ kafkaOrderCh' = <<>> /\ \A c \in Callers : ~Busy(c)'
    BY <1>4 DEF CrashAndRestart, AllIdle
  <2>2. DOMAIN producerCh' = {} /\ DOMAIN kafkaOrderCh' = {}
    BY <2>1
  <2>3. SourceInv'
    BY <2>1, <2>2 DEF SourceInv
  <2>4. AscentInv'
    BY <2>1, <2>2 DEF AscentInv, Ascends
  <2>5. LogInv'
    BY <2>1, <2>2 DEF LogInv, Past, Later
  <2> QED
    BY <1>2, <1>4, <2>3, <2>4, <2>5 DEF WayInv
<1> QED
  BY <1>1, <1>3, <1>4 DEF Fault

LEMMA WayNext ==
  ASSUME TypeOK, HandsFull, TxnInv, WayInv, [Next]_vars
  PROVE  WayInv'
<1>1. CASE UNCHANGED vars
  BY <1>1, SteadyWay DEF vars, broker, Busy
<1> QED
  BY <1>1, EmitEventWay, AcceptOrderWay, OfferDirectWay, TakeWay, CallWay, FaultWay DEF Next, Fault

ProducerInv == TypeOK /\ HandsFull /\ TxnInv /\ WayInv

LEMMA ProducerInvariant == Spec => []ProducerInv
<1>1. Init => ProducerInv
  BY TypeInit, HandsInit, TxnInit, WayInit DEF ProducerInv
<1>2. ProducerInv /\ [Next]_vars => ProducerInv'
  BY HandsNext, TypeNext, TxnNext, WayNext DEF ProducerInv
<1> QED
  BY <1>1, <1>2, PTL DEF Spec

(***************************************************************************)
(* What one goroutine writes comes in the order in which it got it.        *)
(***************************************************************************)
THEOREM OrderPerCaller == Spec => []CallersInOrder
<1>1. ProducerInv => CallersInOrder
  BY DEF ProducerInv, WayInv
<1> QED
  BY <1>1, ProducerInvariant, PTL

(***************************************************************************)
(* The producer implements MessageLog.  A step that offers nothing takes   *)
(* nothing new on its way; when the log grows it is by a message that was  *)
(* on its way.                                                             *)
(***************************************************************************)
Lost == (Message \ Committed) \ InFlight

LEMMA ThreePlaces ==
  ASSUME NEW a, NEW ms, NEW S, NEW x, NEW y, NEW F, NEW m,
         F = {x[i] : i \in DOMAIN x} \cup {y[i] : i \in DOMAIN y}
               \cup {ms[c] : c \in {d \in S : a[d] # "idle"}}
  PROVE  m \in F <=> \/ \E i \in DOMAIN x : m = x[i]
                     \/ \E i \in DOMAIN y : m = y[i]
                     \/ \E c \in S : a[c] # "idle" /\ m = ms[c]
<1>1. m \in {x[i] : i \in DOMAIN x} <=> \E i \in DOMAIN x : m = x[i]
  OBVIOUS
<1>2. m \in {y[i] : i \in DOMAIN y} <=> \E i \in DOMAIN y : m = y[i]
  OBVIOUS
<1>3. m \in {ms[c] : c \in {d \in S : a[d] # "idle"}}
        <=> \E c \in S : a[c] # "idle" /\ m = ms[c]
  OBVIOUS
<1> QED
  BY <1>1, <1>2, <1>3

LEMMA OnTheWay ==
  /\ \A m : m \in InFlight <=> \/ \E i \in DOMAIN producerCh : m = producerCh[i]
                               \/ \E i \in DOMAIN kafkaOrderCh : m = kafkaOrderCh[i]
                               \/ \E c \in Callers : at[c] # "idle" /\ m = msg[c]
  /\ \A m : m \in InFlight' <=> \/ \E i \in DOMAIN producerCh' : m = producerCh'[i]
                                \/ \E i \in DOMAIN kafkaOrderCh' : m = kafkaOrderCh'[i]
                                \/ \E c \in Callers : at'[c] # "idle" /\ m = msg'[c]
  /\ \A c \in Callers : at[c] # "idle" => msg[c] \in InFlight
<1>1. InFlight = {producerCh[i] : i \in DOMAIN producerCh}
                   \cup {kafkaOrderCh[i] : i \in DOMAIN kafkaOrderCh}
                   \cup {msg[c] : c \in {d \in Callers : at[d] # "idle"}}
  BY DEF InFlight
<1>2. InFlight' = {producerCh'[i] : i \in DOMAIN producerCh'}
                    \cup {kafkaOrderCh'[i] : i \in DOMAIN kafkaOrderCh'}
                    \cup {msg'[c] : c \in {d \in Callers : at'[d] # "idle"}}
  BY DEF InFlight
<1>3. \A m : m \in InFlight <=> \/ \E i \in DOMAIN producerCh : m = producerCh[i]
                                \/ \E i \in DOMAIN kafkaOrderCh : m = kafkaOrderCh[i]
                                \/ \E c \in Callers : at[c] # "idle" /\ m = msg[c]
  BY <1>1, ThreePlaces
<1>4. \A m : m \in InFlight' <=> \/ \E i \in DOMAIN producerCh' : m = producerCh'[i]
                                 \/ \E i \in DOMAIN kafkaOrderCh' : m = kafkaOrderCh'[i]
                                 \/ \E c \in Callers : at'[c] # "idle" /\ m = msg'[c]
  BY <1>2, ThreePlaces
<1>5. \A c \in Callers : at[c] # "idle" => msg[c] \in InFlight
  BY <1>3
<1> QED
  BY <1>3, <1>4, <1>5

LEMMA KnownOnTheWay ==
  ASSUME TypeOK, HandsFull
  PROVE  InFlight \subseteq Message /\ Committed \subseteq Message
<1>1. \A s \in Seq(Message) : \A i \in DOMAIN s : s[i] \in Message
  OBVIOUS
<1>2. \A c \in Callers : at[c] # "idle" => msg[c] \in Message
  BY Offered DEF Busy
<1>3. \A m \in InFlight : m \in Message
  BY Offered, <1>2, OnTheWay
<1>4. Committed \subseteq Message
  BY <1>1 DEF TypeOK, Committed
<1> QED
  BY <1>3, <1>4

LEMMA NoOffer ==
  ASSUME Message' = Message, InFlight' \subseteq InFlight,
         \/ log' = log
         \/ \E m \in Message \cap InFlight :
              m \notin Committed /\ log' = Append(log, m) /\ Committed' = Committed \cup {m}
  PROVE  Messages!Next
<1>1. CASE log' = log
  <2>1. Committed' = Committed
    BY <1>1 DEF Committed
  <2> QED
    BY <1>1, <2>1 DEF Messages!Next, Messages!Lose, Messages!Written, Committed
<1>2. CASE \E m \in Message \cap InFlight :
             m \notin Committed /\ log' = Append(log, m) /\ Committed' = Committed \cup {m}
  <2>1. PICK m \in Message \cap InFlight :
          m \notin Committed /\ log' = Append(log, m) /\ Committed' = Committed \cup {m}
    BY <1>2
  <2>2. Messages!Written = Committed
    BY DEF Messages!Written, Committed
  <2>3. m \in Message \ (Committed \cup Lost) /\ Lost \subseteq Lost'
        /\ Lost' \subseteq Message \ (Committed \cup {m})
    BY <2>1 DEF Lost
  <2> QED
    BY <2>1, <2>2, <2>3 DEF Messages!Next, Messages!Write, Lost
<1> QED
  BY <1>1, <1>2

LEMMA OfferingRefines ==
  ASSUME TypeOK, HandsFull, NEW c \in Callers, Offer(c),
         InFlight \subseteq InFlight', InFlight' \subseteq InFlight \cup {Fresh}
  PROVE  Messages!Next
<1>1. Len(offered) \in Nat /\ Len(offered') = Len(offered) + 1
  BY OfferType DEF TypeOK
<1>2. Message' = Message \cup {Fresh} /\ Fresh \notin Message /\ Fresh \in Nat
  BY <1>1 DEF Message, Fresh
<1>3. log' = log /\ Committed' = Committed
  BY DEF Offer, broker, Committed
<1>4. Fresh \notin Committed
  BY <1>2, KnownOnTheWay
<1>5. Lost' \in {Lost, Lost \cup {Fresh}}
  BY <1>2, <1>3, <1>4, KnownOnTheWay DEF Lost
<1>6. Fresh \in Message' \ Message
  BY <1>2
<1> QED
  BY <1>2, <1>3, <1>5, <1>6 DEF Messages!Next, Messages!Offer, Lost

LEMMA OffersRefine ==
  ASSUME TypeOK, HandsFull, TypeOK', HandsFull',
         EmitEvent \/ EmitGameOver \/ AcceptOrder \/ ProcessOrder
  PROVE  Messages!Next
<1> USE Names, OnTheWay DEF Busy
<1>1. CASE EmitEvent
  <2>1. Offer("events") /\ UNCHANGED <<kafkaOrderCh, at, msg>>
    BY <1>1 DEF EmitEvent
  <2>2. /\ \A i \in DOMAIN producerCh : i \in DOMAIN producerCh' /\ producerCh'[i] = producerCh[i]
        /\ \A i \in DOMAIN producerCh' : producerCh'[i] = Fresh \/ (i \in DOMAIN producerCh /\ producerCh'[i] = producerCh[i])
    <3>1. producerCh \in Seq(Message') /\ Fresh \in Message' /\ Len(producerCh) \in Nat
          /\ DOMAIN producerCh = 1..Len(producerCh)
      BY <2>1, OfferType DEF TypeOK
    <3> QED
      BY <1>1, <3>1, AppendOne DEF EmitEvent
  <2>3. InFlight \subseteq InFlight' /\ InFlight' \subseteq InFlight \cup {Fresh}
    BY <2>1, <2>2
  <2> QED
    BY <2>1, <2>3, OfferingRefines
<1>2. CASE AcceptOrder
  <2>1. Offer("orders") /\ UNCHANGED <<producerCh, at, msg>>
    BY <1>2 DEF AcceptOrder
  <2>2. /\ \A i \in DOMAIN kafkaOrderCh : i \in DOMAIN kafkaOrderCh' /\ kafkaOrderCh'[i] = kafkaOrderCh[i]
        /\ \A i \in DOMAIN kafkaOrderCh' : kafkaOrderCh'[i] = Fresh \/ (i \in DOMAIN kafkaOrderCh /\ kafkaOrderCh'[i] = kafkaOrderCh[i])
    <3>1. kafkaOrderCh \in Seq(Message') /\ Fresh \in Message' /\ Len(kafkaOrderCh) \in Nat
          /\ DOMAIN kafkaOrderCh = 1..Len(kafkaOrderCh)
      BY <2>1, OfferType DEF TypeOK
    <3> QED
      BY <1>2, <3>1, AppendOne DEF AcceptOrder
  <2>3. InFlight \subseteq InFlight' /\ InFlight' \subseteq InFlight \cup {Fresh}
    BY <2>1, <2>2
  <2> QED
    BY <2>1, <2>3, OfferingRefines
<1>3. CASE EmitGameOver \/ ProcessOrder
  <2>1. PICK c \in {"engine", "consumer"} :
          Offer(c) /\ ~Busy(c) /\ Go(c, "begin", Fresh) /\ UNCHANGED channels
    BY <1>3 DEF EmitGameOver, ProcessOrder
  <2>2. /\ UNCHANGED <<producerCh, kafkaOrderCh>>
        /\ at'[c] = "begin" /\ msg'[c] = Fresh
        /\ \A d \in Callers \ {c} : at'[d] = at[d] /\ msg'[d] = msg[d]
    BY <2>1 DEF channels, Go, TypeOK
  <2>3. InFlight \subseteq InFlight' /\ InFlight' \subseteq InFlight \cup {Fresh}
    BY <2>1, <2>2
  <2> QED
    BY <2>1, <2>3, OfferingRefines
<1> QED
  BY <1>1, <1>2, <1>3

LEMMA TakesRefine ==
  ASSUME TypeOK, HandsFull, TypeOK', HandsFull', TakeEvent \/ TakeOrder
  PROVE  Messages!Next
<1> USE Names, OnTheWay DEF Busy
<1>1. offered' = offered /\ log' = log
  BY DEF TakeEvent, TakeOrder, broker
<1>2. CASE TakeEvent
  <2>1. UNCHANGED kafkaOrderCh /\ msg'["events"] = Head(producerCh)
        /\ \A d \in Callers \ {"events"} : at'[d] = at[d] /\ msg'[d] = msg[d]
    BY <1>2 DEF TakeEvent, Go, TypeOK
  <2>2. /\ \E i \in DOMAIN producerCh : Head(producerCh) = producerCh[i]
        /\ \A i \in DOMAIN producerCh' : \E j \in DOMAIN producerCh : producerCh'[i] = producerCh[j]
    BY <1>2, TailOne DEF TakeEvent, TypeOK
  <2>3. InFlight' \subseteq InFlight
    BY <2>1, <2>2
  <2> QED
    BY <1>1, <2>3, NoOffer DEF Message
<1>3. CASE TakeOrder
  <2>1. UNCHANGED producerCh /\ msg'["orders"] = Head(kafkaOrderCh)
        /\ \A d \in Callers \ {"orders"} : at'[d] = at[d] /\ msg'[d] = msg[d]
    BY <1>3 DEF TakeOrder, Go, TypeOK
  <2>2. /\ \E i \in DOMAIN kafkaOrderCh : Head(kafkaOrderCh) = kafkaOrderCh[i]
        /\ \A i \in DOMAIN kafkaOrderCh' : \E j \in DOMAIN kafkaOrderCh : kafkaOrderCh'[i] = kafkaOrderCh[j]
    BY <1>3, TailOne DEF TakeOrder, TypeOK
  <2>3. InFlight' \subseteq InFlight
    BY <2>1, <2>2
  <2> QED
    BY <1>1, <2>3, NoOffer DEF Message
<1> QED
  BY <1>2, <1>3

LEMMA CallsRefine ==
  ASSUME ProducerInv, TypeOK', HandsFull', NEW c \in Callers, Call(c)
  PROVE  Messages!Next
<1> USE Names, OnTheWay DEF Busy, ProducerInv
<1>1. /\ UNCHANGED <<offered, kafkaOrderCh>> /\ Busy(c)
      /\ \A d \in Callers \ {c} : at'[d] = at[d] /\ msg'[d] = msg[d]
      /\ msg'[c] \in {msg[c], 0}
  BY DEF Call, Begin, Produce, Commit, Abort, ReturnError, Go, TypeOK, channels
<1>2. \A i \in DOMAIN producerCh' :
        producerCh'[i] = msg[c] \/ \E j \in DOMAIN producerCh : producerCh'[i] = producerCh[j]
  <2>1. producerCh' = producerCh \/ producerCh' = Append(producerCh, msg[c])
    BY DEF Call, Begin, Produce, Commit, Abort, ReturnError, channels
  <2>2. producerCh \in Seq(Message) /\ msg[c] \in Message /\ Len(producerCh) \in Nat
        /\ DOMAIN producerCh = 1..Len(producerCh)
    BY <1>1, Offered DEF TypeOK
  <2> QED
    BY <2>1, <2>2, AppendOne
<1>3. msg'[c] = 0 => ~Busy(c)'
  BY DEF HandsFull
<1>4. InFlight' \subseteq InFlight
  BY <1>1, <1>2, <1>3
<1>5. log' = log \/ (at[c] = "commit" /\ txn = "open" /\ log' = log \o batch)
  BY DEF Call, Begin, Produce, Commit, Abort, ReturnError, broker
<1>6. msg[c] \in InFlight
  BY <1>1
<1> QED
  BY <1>1, <1>4, <1>5, <1>6, LogGrows, NoOffer DEF Message

LEMMA FaultsRefine ==
  ASSUME ProducerInv, TypeOK', HandsFull', Fault
  PROVE  Messages!Next
<1> USE Names, OnTheWay DEF Busy, ProducerInv
<1>1. offered' = offered
  BY DEF Fault, Silence, Answer, TxnError, Fence, CrashAndRestart
<1>2. InFlight' \subseteq InFlight
  <2>1. CASE Silence \/ Answer \/ TxnError \/ Fence
    BY <2>1 DEF Silence, Answer, TxnError, Fence, channels
  <2>2. CASE CrashAndRestart
    <3>1. DOMAIN producerCh' = {} /\ DOMAIN kafkaOrderCh' = {} /\ \A c \in Callers : ~Busy(c)'
      BY <2>2 DEF CrashAndRestart, AllIdle
    <3> QED
      BY <3>1
  <2> QED
    BY <2>1, <2>2 DEF Fault
<1>3. log' = log \/ (txn = "open" /\ log' = log \o batch /\ \E c \in Callers : at[c] = "commit")
  BY DEF Fault, Silence, Answer, TxnError, Fence, CrashAndRestart, Unanswered, broker
<1>4. CASE log' = log
  BY <1>1, <1>2, <1>4, NoOffer DEF Message
<1>5. ASSUME NEW c \in Callers, at[c] = "commit", txn = "open", log' = log \o batch
      PROVE  Messages!Next
  <2>1. msg[c] \in InFlight
    BY <1>5
  <2> QED
    BY <1>1, <1>2, <1>5, <2>1, LogGrows, NoOffer DEF Message
<1> QED
  BY <1>3, <1>4, <1>5

(***************************************************************************)
(* Every message is written at most once, whatever the four goroutines,    *)
(* the broker and crashes do.                                              *)
(***************************************************************************)
THEOREM ProducerImplementsLog == Spec => WrittenAtMostOnce
<1>1. Init => Messages!Init
  <2> SUFFICES ASSUME Init PROVE Messages!Init
    OBVIOUS
  <2>1. Message = {} /\ log = <<>>
    BY DEF Init, Message
  <2> QED
    BY <2>1 DEF Messages!Init
<1>2. ProducerInv /\ ProducerInv' /\ [Next]_vars => [Messages!Next]_(Messages!logVars)
  <2> SUFFICES ASSUME ProducerInv, ProducerInv', [Next]_vars
               PROVE  Messages!Next \/ UNCHANGED Messages!logVars
    OBVIOUS
  <2>1. CASE UNCHANGED vars
    <3>1. Message' = Message /\ InFlight' = InFlight /\ Committed' = Committed /\ log' = log
      BY <2>1 DEF vars, Message, InFlight, Committed, channels, broker
    <3> QED
      BY <3>1 DEF Messages!logVars
  <2>2. CASE Next
    BY <2>2, OffersRefine, TakesRefine, CallsRefine, FaultsRefine DEF Next, ProducerInv, Fault
  <2> QED
    BY <2>1, <2>2
<1> QED
  BY <1>1, <1>2, ProducerInvariant, PTL DEF Spec, WrittenAtMostOnce, Messages!LogSpec
=============================================================================
