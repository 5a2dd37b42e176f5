------------------------------- MODULE MCOta --------------------------------
(* Instances of Ota for TLC.                                                 *)
EXTENDS Ota

Both        == {"local", "http"}
LocalOnly   == {"local"}
SomeHeaders == {2, 5}
Some        == 1 .. FileLen - 1
Nothing     == {0}
=============================================================================
