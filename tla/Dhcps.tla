------------------------------- MODULE Dhcps --------------------------------
(* The DHCP server of the access point: component/common/network/dhcp/dhcps.c*)
(* The receive handler runs in lwIP's thread, one packet at a time; the      *)
(* clients (RFC 2131 clients) and the link to each of them are external.     *)
EXTENDS Naturals, Sequences, FiniteSets

CONSTANTS
  Clients,      \* stations, by hardware address
  None,         \* the zero hardware address
  PoolStart,    \* DHCP_POOL_START, the default address pool
  PoolEnd,      \* DHCP_POOL_END
  Local,        \* last bytes of the server's and the gateway's addresses
  WordBits,     \* bits in a word of ip_range
  Words,        \* words of ip_range
  Other,        \* any address out of the pool: another network, or x.x.x.0
  Renewals,     \* clients renew what they hold
  InformIn,     \* states in which a client asks for parameters only (INFORM)
  Faults,       \* pbuf_alloc may fail
  MaxMishaps,   \* bound: packets lost, time-outs while an answer is still on
                \* its way, clients that leave or ask for parameters only,
                \* calls of dhcps_init and failed allocations, all together
  QueueLen      \* bound: packets on their way, each client and direction

Pool == PoolStart .. PoolEnd

ASSUME DhcpsAssumption ==
  /\ None \notin Clients
  /\ {PoolStart, PoolEnd, WordBits, Words} \subseteq Nat \ {0}
  /\ PoolEnd <= WordBits * Words
  /\ Local \subseteq 1 .. WordBits * Words /\ Local \cap Pool = {}
  /\ Other \notin Pool \cup {0}
  /\ {Renewals, Faults} \subseteq BOOLEAN /\ InformIn \subseteq {"init", "bound"}
  /\ {MaxMishaps, QueueLen} \subseteq Nat

VARIABLES
  server,     \* dhcp_server_state_machine between two packets
  allocated,  \* dhcps_allocated_client_address
  request,    \* client_request_ip
  ip_range,   \* ip_table.ip_range: the bits that are set in each word
  client_mac, \* ip_table.client_mac: whose each address of the pool is
  st,         \* state of each client
  ip,         \* the address each client holds or asks for
  last,       \* the address each client remembers
  up, down,   \* packets on their way to the server and to each client
  mishaps     \* how many there have been

vars == <<server, allocated, request, ip_range, client_mac, st, ip, last, up, down, mishaps>>
serverVars == <<server, allocated, request, ip_range, client_mac>>

Addresses == Pool \cup {0, Other}
States    == {"init", "selecting", "requesting", "bound", "renewing"}
Waiting   == {"selecting", "requesting", "renewing"}

(* xid: whether a packet belongs to the client's present transaction.        *)
Requests == [type : {"DISCOVER", "REQUEST", "DECLINE", "RELEASE", "INFORM"},
             req : Addresses, ci : Addresses, xid : {"now", "old"}]
Replies  == [type : {"OFFER", "ACK", "NAK"}, yi : Addresses, xid : {"now", "old"}]

Mishap == mishaps < MaxMishaps /\ mishaps' = mishaps + 1

-----------------------------------------------------------------------------
(* The table: address d is bit (d - 1) % 32 of word (d - 1) / 32.            *)

(* Mutant: the shift is not reduced to a word.                               *)
MarkBeyond(table, d) == [table EXCEPT ![(d - 1) \div WordBits] = @ \cup {d - 1}]

(* Mutant: the last address of a word is marked in the next one.             *)
MarkNextWord(table, d) ==
  IF d \div WordBits \in DOMAIN table
  THEN [table EXCEPT ![d \div WordBits] = @ \cup {(d - 1) % WordBits}] ELSE table

Mark(table, d) == [table EXCEPT ![(d - 1) \div WordBits] = @ \cup {(d - 1) % WordBits}]

MarkLocal == [w \in 0 .. Words - 1 |->
               {(d - 1) % WordBits : d \in {x \in Local : (x - 1) \div WordBits = w}}]

(* How search_next_ip reads it.                                              *)
Marked(d) == (d - 1) % WordBits \in ip_range[(d - 1) \div WordBits]

(* How check_client_request_ip reads it: word i / 32, bit i % 32 - 1. A      *)
(* shift by -1 is undefined; it can give either answer.                      *)
Seen(d) == IF d % WordBits = 0 THEN BOOLEAN ELSE {(d % WordBits) - 1 \in ip_range[d \div WordBits]}

Least(S) == CHOOSE d \in S : \A e \in S : d <= e

(* check_client_request_ip, then search_next_ip when it finds nothing.       *)
Offerable(c) ==
  LET kept  == {d \in Pool : client_mac[d] = c}
      found == {d \in kept : TRUE \in Seen(d)}
      sure  == {d \in kept : FALSE \notin Seen(d)}
      free  == {d \in Pool : ~Marked(d)}
      next  == IF free = {} THEN Other ELSE Least(free)
  IN {d \in found : \A e \in sure : d <= e} \cup (IF sure = {} THEN {next} ELSE {})

(* Mutant: an address that another client has is available when it is the    *)
(* one that was offered last.                                                *)
AvailableAny(c, a) == a \in Pool

(* check_client_direct_request_ip                                            *)
Available(c, a) == a \in Pool /\ client_mac[a] \in {None, c}

-----------------------------------------------------------------------------
(* The handler.                                                              *)

(* The link drops an answer that it has no room for.                         *)
Send(c, type, yi, xid) ==
  down' = IF Len(down[c]) < QueueLen
          THEN [down EXCEPT ![c] = Append(@, [type |-> type, yi |-> yi, xid |-> xid])]
          ELSE down

Reply(c, type, yi, xid) ==
  \/ Send(c, type, yi, xid) /\ UNCHANGED mishaps
  \/ /\ Faults /\ type # "NAK" /\ Mishap /\ UNCHANGED down

NoReply == UNCHANGED <<down, mishaps>>

(* memcpy of option 50; the address that an earlier packet asked for stays   *)
(* where the packet has no such option.                                      *)
Asked(m) == IF m.req # 0 THEN m.req ELSE request

(* dhcps_send_offer: without a buffer it returns before it allocates.        *)
SendOffer(c, m) ==
  \/ /\ \E d \in Offerable(c) : allocated' = d /\ Send(c, "OFFER", d, m.xid)
     /\ UNCHANGED mishaps
  \/ /\ Faults /\ Mishap
     /\ UNCHANGED <<allocated, down>>

(* Mutant: a DISCOVER is answered only while no offer is open.               *)
HandleDiscoverIdle(c, m) ==
  /\ m.type = "DISCOVER"
  /\ server' = "OFFER"
  /\ request' = Asked(m)
  /\ IF server = "IDLE" THEN SendOffer(c, m) ELSE NoReply /\ UNCHANGED allocated
  /\ UNCHANGED <<ip_range, client_mac>>

HandleDiscover(c, m) ==
  /\ m.type = "DISCOVER"
  /\ server' = "OFFER"
  /\ request' = Asked(m)
  /\ SendOffer(c, m)
  /\ UNCHANGED <<ip_range, client_mac>>

(* A message of another type leaves the state machine alone: an offer is     *)
(* sent again where it waits for a request.                                  *)
HandleOther(c, m) ==
  /\ m.type = "INFORM"
  /\ request' = Asked(m)
  /\ IF server = "OFFER" THEN SendOffer(c, m) ELSE NoReply /\ UNCHANGED allocated
  /\ UNCHANGED <<server, ip_range, client_mac>>

HandleEnd(m) ==
  /\ m.type \in {"DECLINE", "RELEASE"}
  /\ server' = "IDLE"
  /\ request' = Asked(m)
  /\ NoReply /\ UNCHANGED <<allocated, ip_range, client_mac>>

(* "for renew": ciaddr is asked for when nothing else is.                    *)
Wanted(m) == IF Asked(m) = 0 THEN m.ci ELSE Asked(m)

(* Available, or else what was offered last.                                 *)
Granted(c, a) ==
  Available(c, a) \/ (server = "OFFER" /\ allocated \notin {0, Other} /\ allocated = a)

HandleRequest(c, m) ==
  LET a == Wanted(m)
  IN /\ m.type = "REQUEST"
     /\ server' = "IDLE"
     /\ IF Granted(c, a)
        THEN /\ ip_range' = Mark(ip_range, a)
             /\ client_mac' = [client_mac EXCEPT ![a] = c]
             /\ request' = 0 /\ allocated' = 0
             /\ Reply(c, "ACK", a, m.xid)
        ELSE /\ request' = a
             /\ Reply(c, "NAK", allocated, m.xid)
             /\ UNCHANGED <<allocated, ip_range, client_mac>>

Receive(c) ==
  /\ up[c] # <<>>
  /\ up' = [up EXCEPT ![c] = Tail(@)]
  /\ LET m == Head(up[c])
     IN HandleDiscover(c, m) \/ HandleOther(c, m) \/ HandleEnd(m) \/ HandleRequest(c, m)
  /\ UNCHANGED <<st, ip, last>>

-----------------------------------------------------------------------------
(* The clients and the link (external).                                      *)

Age(q) == [i \in DOMAIN q |-> [q[i] EXCEPT !.xid = "old"]]

Packet(type, req, ci) == [type |-> type, req |-> req, ci |-> ci, xid |-> "now"]

(* A new transaction: answers to an earlier one no longer match.             *)
Begin(c, m) ==
  /\ Len(up[c]) < QueueLen
  /\ up' = [up EXCEPT ![c] = Append(Age(@), m)]
  /\ down' = [down EXCEPT ![c] = Age(@)]

Again(c, m) ==
  /\ Len(up[c]) < QueueLen
  /\ up' = [up EXCEPT ![c] = Append(@, m)]

Discover(c) ==
  /\ st[c] = "init"
  /\ \E a \in {0, last[c]} : Begin(c, Packet("DISCOVER", a, 0))
  /\ st' = [st EXCEPT ![c] = "selecting"]
  /\ UNCHANGED <<serverVars, ip, last, mishaps>>

(* INIT-REBOOT: asks for the address it had.                                 *)
AskAgain(c) ==
  /\ st[c] = "init" /\ last[c] # 0
  /\ Begin(c, Packet("REQUEST", last[c], 0))
  /\ st' = [st EXCEPT ![c] = "requesting"] /\ ip' = [ip EXCEPT ![c] = last[c]]
  /\ UNCHANGED <<serverVars, last, mishaps>>

Renew(c) ==
  /\ Renewals /\ st[c] = "bound"
  /\ Begin(c, Packet("REQUEST", 0, ip[c]))
  /\ st' = [st EXCEPT ![c] = "renewing"]
  /\ UNCHANGED <<serverVars, ip, last, mishaps>>

Listen(c) ==
  /\ down[c] # <<>>
  /\ LET m == Head(down[c])
         rest == [down EXCEPT ![c] = Tail(@)]
     IN CASE m.xid = "now" /\ m.type = "OFFER" /\ st[c] = "selecting" ->
               /\ Again(c, Packet("REQUEST", m.yi, 0)) /\ down' = rest
               /\ st' = [st EXCEPT ![c] = "requesting"] /\ ip' = [ip EXCEPT ![c] = m.yi]
               /\ UNCHANGED last
          [] m.xid = "now" /\ m.type = "ACK" /\ st[c] \in {"requesting", "renewing"} ->
               /\ down' = rest
               /\ st' = [st EXCEPT ![c] = "bound"]
               /\ ip' = [ip EXCEPT ![c] = m.yi] /\ last' = [last EXCEPT ![c] = m.yi]
               /\ UNCHANGED up
          [] m.xid = "now" /\ m.type = "NAK" /\ st[c] \in {"requesting", "renewing"} ->
               /\ down' = rest
               /\ st' = [st EXCEPT ![c] = "init"]
               /\ ip' = [ip EXCEPT ![c] = 0] /\ last' = [last EXCEPT ![c] = 0]
               /\ UNCHANGED up
          [] OTHER -> down' = rest /\ UNCHANGED <<up, st, ip, last>>
  /\ UNCHANGED <<serverVars, mishaps>>

(* The question that a waiting client asks, and asks again.                  *)
Question(c) ==
  CASE st[c] = "selecting"  -> Packet("DISCOVER", 0, 0)
    [] st[c] = "requesting" -> Packet("REQUEST", ip[c], 0)
    [] OTHER                -> Packet("REQUEST", 0, ip[c])

Silent(c) == up[c] = <<>> /\ down[c] = <<>>

(* Time-outs: the client asks again, or starts from the beginning.           *)
Patient(c) ==
  /\ st[c] \in Waiting
  /\ IF Silent(c) THEN UNCHANGED mishaps ELSE Mishap

AskOnceMore(c) ==
  /\ Patient(c) /\ Again(c, Question(c))
  /\ UNCHANGED <<serverVars, st, ip, last, down>>

GiveUp(c) ==
  /\ Patient(c)
  /\ st' = [st EXCEPT ![c] = "init"] /\ ip' = [ip EXCEPT ![c] = 0]
  /\ UNCHANGED <<serverVars, last, up, down>>

(* A client leaves (with a RELEASE, a DECLINE or no word) or is restarted.   *)
Leave(c) ==
  /\ Mishap
  /\ st[c] # "init"
  /\ st' = [st EXCEPT ![c] = "init"] /\ ip' = [ip EXCEPT ![c] = 0]
  /\ \/ up' = [up EXCEPT ![c] = Age(@)] /\ down' = [down EXCEPT ![c] = Age(@)]
     \/ /\ st[c] = "bound"
        /\ \E t \in {"DECLINE", "RELEASE"} : Begin(c, Packet(t, 0, ip[c]))
  /\ UNCHANGED <<serverVars, last>>

(* A client with a static address, or one that is bound, asks for the other  *)
(* parameters only.                                                          *)
Inform(c) ==
  /\ Mishap
  /\ st[c] \in InformIn
  /\ Begin(c, Packet("INFORM", 0, IF st[c] = "bound" THEN ip[c] ELSE Other))
  /\ UNCHANGED <<serverVars, st, ip, last>>

Drop(c) ==
  /\ Mishap
  /\ \/ up[c] # <<>> /\ up' = [up EXCEPT ![c] = Tail(@)] /\ UNCHANGED down
     \/ down[c] # <<>> /\ down' = [down EXCEPT ![c] = Tail(@)] /\ UNCHANGED up
  /\ UNCHANGED <<serverVars, st, ip, last>>

(* dhcps_init when the access point is started again: every station has been *)
(* disconnected. The table is cleared; the state machine and the two         *)
(* addresses it works with are not.                                          *)
Restart ==
  /\ Mishap
  /\ ip_range' = MarkLocal
  /\ client_mac' = [d \in Pool |-> None]
  /\ st' = [c \in Clients |-> "init"] /\ ip' = [c \in Clients |-> 0]
  /\ up' = [c \in Clients |-> <<>>] /\ down' = [c \in Clients |-> <<>>]
  /\ UNCHANGED <<server, allocated, request, last>>

-----------------------------------------------------------------------------
Init ==
  /\ server = "IDLE" /\ allocated = 0 /\ request = 0
  /\ ip_range = MarkLocal
  /\ client_mac = [d \in Pool |-> None]
  /\ st = [c \in Clients |-> "init"] /\ ip = [c \in Clients |-> 0] /\ last = [c \in Clients |-> 0]
  /\ up = [c \in Clients |-> <<>>] /\ down = [c \in Clients |-> <<>>]
  /\ mishaps = 0

ClientStep(c) == Discover(c) \/ AskAgain(c) \/ AskOnceMore(c) \/ GiveUp(c)

Next ==
  \/ \E c \in Clients : \/ Receive(c) \/ Listen(c) \/ ClientStep(c) \/ Renew(c)
                        \/ Leave(c) \/ Inform(c) \/ Drop(c)
  \/ Restart

Spec == Init /\ [][Next]_vars

(* lwIP's thread and the clients keep running; a client that has waited long *)
(* enough asks again.                                                        *)
Fairness == \A c \in Clients :
              WF_vars(Receive(c)) /\ WF_vars(Listen(c)) /\ WF_vars(Discover(c)) /\ WF_vars(AskOnceMore(c))
FairSpec == Spec /\ Fairness

-----------------------------------------------------------------------------
(* Properties.                                                               *)

Holds(c) == st[c] \in {"bound", "renewing"}

TypeOK ==
  /\ server \in {"IDLE", "OFFER"} /\ allocated \in Addresses /\ request \in Addresses
  /\ ip_range \in [0 .. Words - 1 -> SUBSET (0 .. WordBits - 1)]
  /\ client_mac \in [Pool -> Clients \cup {None}]
  /\ st \in [Clients -> States] /\ ip \in [Clients -> Addresses] /\ last \in [Clients -> Addresses]
  /\ up \in [Clients -> Seq(Requests)] /\ down \in [Clients -> Seq(Replies)]
  /\ mishaps \in 0 .. MaxMishaps

(* A client that uses an address is the one that the server's table has it   *)
(* down for, whatever was lost, asked twice, answered late or restarted.     *)
LeaseKnown == \A c \in Clients : Holds(c) => ip[c] \in Pool /\ client_mac[ip[c]] = c

(* The two halves of the table agree: the bit that search_next_ip tests is   *)
(* set for exactly the addresses that client_mac has an owner for.           *)
TablesAgree == \A d \in Pool : Marked(d) <=> client_mac[d] # None

(* No two clients ever use the same address.                                 *)
L == INSTANCE Leases WITH
       Addresses <- Pool, NoAddress <- 0,
       lease <- [c \in Clients |-> IF Holds(c) THEN ip[c] ELSE 0]
LeasesSpec == L!Spec

(* A client that waits for an address gets one, unless the table fills up:   *)
(* nothing is ever taken out of it.                                          *)
Full   == \A d \in Pool : Marked(d)
Served == \A c \in Clients : st[c] \in Waiting ~> (Holds(c) \/ Full)

(* check_client_direct_request_ip answers 0 for an address of another client *)
(* and says "the ip is used": while that client uses it, it stays that       *)
(* client's.                                                                 *)
UsedRefused ==
  [][\A d \in Pool, c \in Clients :
       Holds(c) /\ ip[c] = d /\ client_mac[d] = c => client_mac'[d] \in {c, None}]_vars
=============================================================================
