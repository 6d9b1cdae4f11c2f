----------------------------- MODULE MCListener -----------------------------
(* Small instances of the listener for TLC. *)
EXTENDS Listener, TLC

CONSTANTS d1, d2, b1, b2, v1, v2

Devices1 == {d1}
Bodies   == {b1, b2}
OneBody  == {b1}
Keys     == {"name", "device_id", "sleep"}
Vals     == {d1, d2, v1, v2}

(* Two releases of the firmware's settings; neither names the station. *)
Confs   == {"sleep" :> v1, "sleep" :> v2}
OneConf == {"sleep" :> v1}

BodySymmetry == Permutations({b1, b2})
=============================================================================
