----------------------------- MODULE MCTcmHeap ------------------------------
(* An instance of TcmHeap for TLC: requests of 1, 2 and 3 units, among them  *)
(* one of no bytes and one that its header pushes into another unit.         *)
EXTENDS TcmHeap

SomeSizes == {0, 16}
=============================================================================
