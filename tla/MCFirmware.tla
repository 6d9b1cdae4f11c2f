----------------------------- MODULE MCFirmware -----------------------------
(* One router, and a user who may get the name or the password wrong. *)
EXTENDS Firmware

CONSTANTS home, other, secret, typo

Networks  == {home, other}
Passwords == {secret, typo}
AllCreds  == Entered
HomeCreds == {[ssid |-> home, password |-> secret]}
=============================================================================
