------------------------------- MODULE MCWifi -------------------------------
(* The station with the right and with the wrong credentials. *)
EXTENDS Wifi

CONSTANTS right, wrong

BothCreds  == {right, wrong}
RightCreds == {right}
=============================================================================
