------------------------------- MODULE MCWire -------------------------------
(* The packets of the two firmwares, from the shortest to the longest that *)
(* their formats and the ranges of Kconfig.projbuild allow.                *)
EXTENDS Wire

Sizes(topic, payloads) == {[topic |-> topic, payload |-> n] : n \in payloads}

(* weather/<12 hex digits> and weather/<12 hex digits>/config *)
ReadingTopic == 20
ConfigTopic  == 27

CReadings == Sizes(ReadingTopic, 34 .. 60)
CConfigs  == Sizes(ConfigTopic, 149 .. 174)
CPackets  == CReadings \cup CConfigs

PyPackets == Sizes(ReadingTopic, 70 .. 105) \cup Sizes(ConfigTopic, {49})
=============================================================================
