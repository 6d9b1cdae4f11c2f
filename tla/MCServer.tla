------------------------------ MODULE MCServer ------------------------------
(* Small instances of the server for TLC: one station, a clock of minutes. *)
EXTENDS Server, TLC

CONSTANTS d1, b1, n1, espidf, one, msec

OneDevice == {d1}
Bodies1   == {b1}
Keys      == {"name", "device_id", "fw", "sleep"}
Vals      == {d1, n1, espidf, one, msec}
Names     == {n1}
Ints      == [v \in Vals |-> CASE v = one -> 1 [] v = msec -> 60000 [] OTHER -> 0]

(* The C firmware announces minutes, the MicroPython one milliseconds. *)
CConfig(v) == "fw" :> espidf @@ "sleep" :> v
Reflashed  == {CConfig(one), "sleep" :> msec}
=============================================================================
