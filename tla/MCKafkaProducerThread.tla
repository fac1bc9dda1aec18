----------------------- MODULE MCKafkaProducerThread -----------------------
(* Instances of KafkaProducerThread for TLC. *)
EXTENDS KafkaProducerThread, TLC

CONSTANTS c1, c2, c3, c4
=============================================================================
