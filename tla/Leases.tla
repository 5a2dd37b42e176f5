------------------------------- MODULE Leases -------------------------------
(* What an address server promises: a client that holds an address is the   *)
(* only one that does.                                                       *)

CONSTANTS Clients, Addresses, NoAddress

VARIABLE lease   \* the address each client holds, or NoAddress

Init == lease = [c \in Clients |-> NoAddress]

Take(c, a) ==
  /\ \A d \in Clients \ {c} : lease[d] # a
  /\ lease' = [lease EXCEPT ![c] = a]

Lose(cs) == lease' = [c \in Clients |-> IF c \in cs THEN NoAddress ELSE lease[c]]

Next == \/ \E c \in Clients, a \in Addresses : Take(c, a)
        \/ \E cs \in SUBSET Clients : Lose(cs)

Spec == Init /\ [][Next]_lease
=============================================================================
