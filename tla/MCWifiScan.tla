----------------------------- MODULE MCWifiScan -----------------------------
(* Instances of WifiScan for TLC.                                            *)
EXTENDS WifiScan, TLC

CONSTANTS c1, c2, b1, b2, b3

OneCaller  == {c1}
TwoCallers == {c1, c2}
OneBssid   == {b1}
Bssids3    == {b1, b2, b3}
Plain      == {"plain"}
BothKinds  == {"plain", "mcc"}
Symmetry3  == Permutations(Bssids3)
=============================================================================
