----------------------------- MODULE MessageLog -----------------------------
(***************************************************************************)
(* What callers of the Kafka producer may rely on: a message that is       *)
(* offered is written at most once, or it is lost, and what is lost stays  *)
(* lost.  Nothing is promised about which of the two happens.              *)
(***************************************************************************)
EXTENDS Naturals, Sequences

VARIABLES
    offered,    \* the messages somebody wanted written
    log,        \* what consumers that read committed messages see
    lost        \* what will never be written

logVars == <<offered, log, lost>>

Written == {log[i] : i \in DOMAIN log}

Init == offered = {} /\ log = <<>> /\ lost = {}

\* a message may be dropped at once, by a channel that is full
Offer ==
    /\ \E m \in offered' \ offered :
         /\ m \in Nat /\ offered' = offered \cup {m}
         /\ lost' \in {lost, lost \cup {m}}
    /\ UNCHANGED log

\* a crash may lose others while it writes one
Write ==
    /\ \E m \in offered \ (Written \cup lost) :
         /\ log' = Append(log, m)
         /\ lost \subseteq lost' /\ lost' \subseteq offered \ (Written \cup {m})
    /\ UNCHANGED offered

Lose ==
    /\ lost \subseteq lost' /\ lost' \subseteq offered \ Written
    /\ UNCHANGED <<offered, log>>

Next == Offer \/ Write \/ Lose

LogSpec == Init /\ [][Next]_logVars
=============================================================================
