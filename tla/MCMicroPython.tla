--------------------------- MODULE MCMicroPython ---------------------------
(* A user who knows the password, mistypes it, or names a second network. *)
EXTENDS MicroPython

CONSTANTS home, cabin, typo

AllCreds  == {home, cabin, typo}
RealCreds == {home, cabin}
=============================================================================
