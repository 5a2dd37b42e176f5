------------------------------ MODULE InOrder -------------------------------
(* What an event service promises its handlers: events may be lost, and one  *)
(* may be heard twice, but no handler hears an event after a later one.      *)
EXTENDS Naturals

CONSTANT Handlers

VARIABLES sent,  \* number of the last event
          seen   \* the last one that each handler has heard

Init == sent = 0 /\ seen = [h \in Handlers |-> 0]

Send == sent' = sent + 1 /\ UNCHANGED seen

Hear(h, n) ==
  /\ n \in seen[h] .. sent
  /\ seen' = [seen EXCEPT ![h] = n]
  /\ UNCHANGED sent

Next == Send \/ \E h \in Handlers : \E n \in 1 .. sent : Hear(h, n)

Spec == Init /\ [][Next]_<<sent, seen>>
=============================================================================
