------------------------------ MODULE MCKafka ------------------------------
(***************************************************************************)
(* TLC instance of KafkaProducer: handlers, a probe of /ready, and clients  *)
(* for the startup and for what may follow it.                              *)
(***************************************************************************)
EXTENDS KafkaProducer
=============================================================================
