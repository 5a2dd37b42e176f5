------------------------------ MODULE MCDhcps -------------------------------
(* Instances of Dhcps for TLC. The pool 6 .. 8 ends a word of four bits, as  *)
(* 128, 160 and 192 do in the default pool.                                  *)
EXTENDS Dhcps, TLC

CONSTANTS sta1, sta2

Two       == {sta1, sta2}
LocalOne  == {1}
Unbound   == {"init"}
Bound     == {"bound"}
=============================================================================
