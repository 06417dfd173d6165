----------------------------- MODULE MqttClient -----------------------------
(***************************************************************************)
(* The MQTT client of the ommpods process (services/ommpods/src/mqtt),     *)
(* through which DoorWindow and PodHardware reach the pods.                *)
(***************************************************************************)
CONSTANT Pods      \* pod ids
VARIABLE connected \* client.connected
=============================================================================
