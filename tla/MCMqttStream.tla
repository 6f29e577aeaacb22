---------------------------- MODULE MCMqttStream ----------------------------
(* Instances of MqttStream. *)
EXTENDS MqttStream
=============================================================================
