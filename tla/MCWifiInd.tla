----------------------------- MODULE MCWifiInd ------------------------------
(* Instances of WifiInd for TLC.                                             *)
EXTENDS WifiInd, TLC

CONSTANTS w1, w2, h0, h1, h2

TwoWriters    == {w1, w2}
ThreeHandlers == {h0, h1, h2}
First         == {h0}
Last          == {h2}
UsesOfEach    == w1 :> {h1, h2} @@ w2 :> {h2}
BothBuilds    == {"direct", "thread"}
=============================================================================
