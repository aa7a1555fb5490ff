---------------------------- MODULE MCMqttClient ----------------------------
(* The instances of MqttClient that TLC checks: two of the seven subtopics *)
(* are enough to lose a connection before, between and after messages.     *)
EXTENDS MqttClient

MCSubtopics == << "mfr", "battery" >>
=============================================================================
