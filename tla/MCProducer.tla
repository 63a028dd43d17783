----------------------------- MODULE MCProducer -----------------------------
(***************************************************************************)
(* Instance of the producer for TLC: its bounds are in the configurations. *)
(***************************************************************************)
EXTENDS ProducerProperties
=============================================================================
