---------------------------- MODULE Dhcps_proofs ----------------------------
(* Proofs about Dhcps: the table and the leases, for any number of clients,  *)
(* any pool, and packets lost, late or repeated without end.                 *)
EXTENDS Dhcps, TLAPS, WellFoundedInduction

-----------------------------------------------------------------------------
(* Addresses and bits.                                                       *)

LEMMA Division ==
  ASSUME NEW a \in Nat, NEW b \in Nat \ {0}
  PROVE  /\ a \div b \in Nat /\ a % b \in 0 .. b - 1
         /\ a = b * (a \div b) + (a % b)
<1>1. a \div b \in Nat
  OBVIOUS
<1>2. a % b \in 0 .. b - 1
  OBVIOUS
<1>3. a = b * (a \div b) + (a % b)
  OBVIOUS
<1> QED
  BY <1>1, <1>2, <1>3

LEMMA QuotientBelow ==
  ASSUME NEW a \in Nat, NEW b \in Nat \ {0}, NEW c \in Nat, a < b * c
  PROVE  a \div b < c
<1> DEFINE q == a \div b
<1>1. q \in Nat /\ b * q <= a
  BY Division
<1> HIDE DEF q
<1>2. ASSUME q >= c PROVE FALSE
  <2>1. PICK k \in Nat : q = c + k
    <3>1. q - c \in Nat /\ q = c + (q - c)
      BY <1>1, <1>2
    <3> QED
      BY <3>1
  <2>2. b * q = b * c + b * k
    BY <2>1
  <2>3. b * k \in Nat /\ b * c \in Nat
    BY <2>1
  <2> QED
    BY <1>1, <2>2, <2>3
<1>3. q < c
  BY <1>1, <1>2
<1> QED
  BY <1>3 DEF q

Universe == 1 .. WordBits * Words

LEMMA AddressesInUniverse ==
  ASSUME DhcpsAssumption
  PROVE  /\ WordBits \in Nat \ {0} /\ Words \in Nat \ {0} /\ WordBits * Words \in Nat
         /\ Pool \subseteq Universe /\ Pool \subseteq Nat \ {0} /\ 0 \notin Pool /\ Other \notin Pool
         /\ Local \subseteq Universe /\ Local \cap Pool = {}
<1>1. /\ WordBits \in Nat \ {0} /\ Words \in Nat \ {0} /\ PoolStart \in Nat \ {0} /\ PoolEnd \in Nat \ {0}
  BY DEF DhcpsAssumption
<1>2. WordBits * Words \in Nat
  BY <1>1
<1>3. PoolEnd <= WordBits * Words
  BY DEF DhcpsAssumption
<1>4. Pool \subseteq Universe /\ Pool \subseteq Nat \ {0} /\ 0 \notin Pool
  BY <1>1, <1>2, <1>3 DEF Pool, Universe
<1>5. Other \notin Pool /\ Local \subseteq Universe /\ Local \cap Pool = {}
  BY DEF DhcpsAssumption, Universe
<1> QED
  BY <1>1, <1>2, <1>4, <1>5

LEMMA WordOf ==
  ASSUME DhcpsAssumption, NEW d \in Universe
  PROVE  /\ d - 1 \in Nat
         /\ (d - 1) \div WordBits \in 0 .. Words - 1 /\ (d - 1) % WordBits \in 0 .. WordBits - 1
<1>1. /\ WordBits \in Nat \ {0} /\ Words \in Nat \ {0} /\ WordBits * Words \in Nat
      /\ d - 1 \in Nat /\ d - 1 < WordBits * Words
  BY AddressesInUniverse DEF Universe
<1>2. (d - 1) \div WordBits \in Nat /\ (d - 1) % WordBits \in 0 .. WordBits - 1
  BY <1>1, Division
<1>3. (d - 1) \div WordBits < Words
  BY <1>1, QuotientBelow
<1> QED
  BY <1>1, <1>2, <1>3

(* Each address has a bit of its own.                                        *)
LEMMA OneBitEach ==
  ASSUME DhcpsAssumption, NEW d \in Universe, NEW e \in Universe,
         (d - 1) \div WordBits = (e - 1) \div WordBits, (d - 1) % WordBits = (e - 1) % WordBits
  PROVE  d = e
<1>1. WordBits \in Nat \ {0} /\ d - 1 \in Nat /\ e - 1 \in Nat /\ d \in Nat /\ e \in Nat
  BY AddressesInUniverse, WordOf DEF Universe
<1>2. d - 1 = WordBits * ((d - 1) \div WordBits) + ((d - 1) % WordBits)
  BY <1>1, Division
<1>3. e - 1 = WordBits * ((e - 1) \div WordBits) + ((e - 1) % WordBits)
  BY <1>1, Division
<1>4. d - 1 = e - 1
  BY <1>1, <1>2, <1>3
<1> QED
  BY <1>1, <1>4

Tables == [0 .. Words - 1 -> SUBSET (0 .. WordBits - 1)]

BitOf(table, d) == (d - 1) % WordBits \in table[(d - 1) \div WordBits]

LEMMA MarkOne ==
  ASSUME DhcpsAssumption, NEW table \in Tables, NEW d \in Universe
  PROVE  /\ Mark(table, d) \in Tables
         /\ \A e \in Universe : BitOf(Mark(table, d), e) <=> (e = d \/ BitOf(table, e))
<1> DEFINE w(x) == (x - 1) \div WordBits
           b(x) == (x - 1) % WordBits
<1>1. w(d) \in 0 .. Words - 1 /\ b(d) \in 0 .. WordBits - 1
  BY WordOf
<1>2. Mark(table, d) = [table EXCEPT ![w(d)] = table[w(d)] \cup {b(d)}]
  BY <1>1 DEF Mark, Tables
<1>3. ASSUME NEW e \in Universe PROVE BitOf(Mark(table, d), e) <=> (e = d \/ BitOf(table, e))
  <2>1. w(e) \in 0 .. Words - 1
    BY WordOf
  <2>2. w(e) = w(d) /\ b(e) = b(d) => e = d
    BY OneBitEach
  <2> HIDE DEF w, b
  <2>3. BitOf(table, e) <=> b(e) \in table[w(e)]
    BY DEF BitOf, w, b
  <2>4. BitOf(Mark(table, d), e) <=> b(e) \in Mark(table, d)[w(e)]
    BY DEF BitOf, w, b
  <2> QED
    BY <1>1, <1>2, <2>1, <2>2, <2>3, <2>4 DEF Tables
<1>4. Mark(table, d) \in Tables
  <2> HIDE DEF w, b
  <2> QED
    BY <1>1, <1>2 DEF Tables
<1> QED
  BY <1>3, <1>4

LEMMA LocalBits ==
  ASSUME DhcpsAssumption
  PROVE  /\ MarkLocal \in Tables
         /\ \A e \in Pool : ~BitOf(MarkLocal, e)
<1>1. ASSUME NEW x \in Local
      PROVE  (x - 1) \div WordBits \in 0 .. Words - 1 /\ (x - 1) % WordBits \in 0 .. WordBits - 1
  BY WordOf, AddressesInUniverse
<1>2. MarkLocal \in Tables
  BY <1>1 DEF MarkLocal, Tables
<1>3. ASSUME NEW e \in Pool, BitOf(MarkLocal, e) PROVE FALSE
  <2>1. e \in Universe /\ (e - 1) \div WordBits \in 0 .. Words - 1
    BY WordOf, AddressesInUniverse
  <2>2. PICK x \in Local : /\ (x - 1) \div WordBits = (e - 1) \div WordBits
                           /\ (e - 1) % WordBits = (x - 1) % WordBits
    BY <1>3, <2>1 DEF BitOf, MarkLocal
  <2>3. x = e
    BY <2>1, <2>2, OneBitEach, AddressesInUniverse
  <2> QED
    BY <2>3, AddressesInUniverse
<1> QED
  BY <1>2, <1>3

-----------------------------------------------------------------------------
(* Packets on their way.                                                     *)

LEMMA RequestFields ==
  /\ \A m \in Requests : m.req \in Addresses /\ m.ci \in Addresses /\ m.xid \in {"now", "old"}
  /\ \A m \in Replies : m.yi \in Addresses /\ m.xid \in {"now", "old"}
BY DEF Requests, Replies

LEMMA Queued ==
  ASSUME NEW S, NEW q \in Seq(S), NEW m \in S
  PROVE  /\ Append(q, m) \in Seq(S) /\ Len(Append(q, m)) = Len(q) + 1 /\ Len(q) \in Nat
         /\ \A i \in 1 .. Len(q) : Append(q, m)[i] = q[i]
         /\ Append(q, m)[Len(q) + 1] = m
OBVIOUS

LEMMA Unqueued ==
  ASSUME NEW S, NEW q \in Seq(S), q # <<>>
  PROVE  /\ Head(q) \in S /\ Head(q) = q[1] /\ Len(q) \in Nat \ {0}
         /\ Tail(q) \in Seq(S) /\ Len(Tail(q)) = Len(q) - 1
         /\ \A i \in 1 .. Len(Tail(q)) : Tail(q)[i] = q[i + 1]
OBVIOUS

Old(m) == [m EXCEPT !.xid = "old"]

LEMMA OldPackets ==
  /\ \A m \in Requests : Old(m) \in Requests /\ Old(m).type = m.type /\ Old(m).xid = "old"
  /\ \A m \in Replies : Old(m) \in Replies /\ Old(m).type = m.type /\ Old(m).xid = "old"
BY DEF Requests, Replies, Old

LEMMA Aged ==
  ASSUME NEW S \in {Requests, Replies}, NEW q \in Seq(S)
  PROVE  /\ Age(q) \in Seq(S) /\ Len(Age(q)) = Len(q)
         /\ \A i \in 1 .. Len(q) : Age(q)[i].type = q[i].type /\ Age(q)[i].xid = "old"
<1>1. DOMAIN q = 1 .. Len(q) /\ Len(q) \in Nat /\ \A i \in 1 .. Len(q) : q[i] \in S
  OBVIOUS
<1>2. Age(q) = [i \in 1 .. Len(q) |-> Old(q[i])]
  BY <1>1 DEF Age, Old
<1>3. \A i \in 1 .. Len(q) : Old(q[i]) \in S /\ Old(q[i]).type = q[i].type /\ Old(q[i]).xid = "old"
  BY <1>1, OldPackets
<1>4. Age(q) \in Seq(S) /\ Len(Age(q)) = Len(q) /\ \A i \in 1 .. Len(q) : Age(q)[i] = Old(q[i])
  BY <1>1, <1>2, <1>3
<1> QED
  BY <1>3, <1>4

-----------------------------------------------------------------------------
(* Types.                                                                    *)

PacketTypes == up \in [Clients -> Seq(Requests)] /\ down \in [Clients -> Seq(Replies)]

LEMMA Packets ==
  ASSUME NEW type \in {"DISCOVER", "REQUEST", "DECLINE", "RELEASE", "INFORM"},
         NEW req \in Addresses, NEW ci \in Addresses
  PROVE  /\ Packet(type, req, ci) \in Requests
         /\ Packet(type, req, ci).type = type /\ Packet(type, req, ci).xid = "now"
BY DEF Packet, Requests

LEMMA SomeAddresses == 0 \in Addresses /\ Other \in Addresses /\ Pool \subseteq Addresses
BY DEF Addresses

LEMMA BeginTypes ==
  ASSUME PacketTypes, NEW c \in Clients, NEW m \in Requests, Begin(c, m)
  PROVE  /\ PacketTypes'
         /\ up'[c] = Append(Age(up[c]), m) /\ down'[c] = Age(down[c])
         /\ \A d \in Clients \ {c} : up'[d] = up[d] /\ down'[d] = down[d]
<1>1. up[c] \in Seq(Requests) /\ down[c] \in Seq(Replies)
  BY DEF PacketTypes
<1>2. Age(up[c]) \in Seq(Requests) /\ Age(down[c]) \in Seq(Replies)
  BY <1>1, Aged
<1>3. Append(Age(up[c]), m) \in Seq(Requests)
  BY <1>2, Queued
<1>4. up' = [up EXCEPT ![c] = Append(Age(up[c]), m)] /\ down' = [down EXCEPT ![c] = Age(down[c])]
  BY DEF Begin, PacketTypes
<1> QED
  BY <1>2, <1>3, <1>4 DEF PacketTypes

LEMMA AgainTypes ==
  ASSUME PacketTypes, NEW c \in Clients, NEW m \in Requests, Again(c, m)
  PROVE  /\ up' \in [Clients -> Seq(Requests)]
         /\ up'[c] = Append(up[c], m)
         /\ \A d \in Clients \ {c} : up'[d] = up[d]
<1>1. Append(up[c], m) \in Seq(Requests)
  BY Queued DEF PacketTypes
<1>2. up' = [up EXCEPT ![c] = Append(up[c], m)]
  BY DEF Again, PacketTypes
<1> QED
  BY <1>1, <1>2 DEF PacketTypes

LEMMA MessageTypes ==
  ASSUME PacketTypes, NEW c \in Clients
  PROVE  /\ up[c] \in Seq(Requests) /\ down[c] \in Seq(Replies)
         /\ up[c] # <<>> => Head(up[c]) \in Requests /\ Tail(up[c]) \in Seq(Requests)
         /\ down[c] # <<>> => Head(down[c]) \in Replies /\ Tail(down[c]) \in Seq(Replies)
BY Unqueued DEF PacketTypes

LEMMA SendTypes ==
  ASSUME PacketTypes, NEW c \in Clients, NEW type \in {"OFFER", "ACK", "NAK"},
         NEW yi \in Addresses, NEW xid \in {"now", "old"}, Send(c, type, yi, xid)
  PROVE  /\ down' \in [Clients -> Seq(Replies)]
         /\ \/ down'[c] = down[c]
            \/ down'[c] = Append(down[c], [type |-> type, yi |-> yi, xid |-> xid])
         /\ \A d \in Clients \ {c} : down'[d] = down[d]
<1> DEFINE m == [type |-> type, yi |-> yi, xid |-> xid]
<1>1. m \in Replies
  BY DEF Replies
<1> HIDE DEF m
<1>2. Append(down[c], m) \in Seq(Replies)
  BY <1>1, Queued DEF PacketTypes
<1>3. down' = down \/ down' = [down EXCEPT ![c] = Append(down[c], m)]
  BY DEF Send, PacketTypes, m
<1> QED
  BY <1>2, <1>3 DEF PacketTypes, m

LEMMA LeastIsElement ==
  ASSUME NEW S \in SUBSET Nat, S # {}
  PROVE  Least(S) \in S
<1> DEFINE R == OpToRel(<, Nat)
<1>1. IsWellFoundedOn(R, Nat)
  BY NatLessThanWellFounded
<1>2. PICK x \in S : \A y \in S : ~ (<<y, x>> \in R)
  BY <1>1, WFMin
<1>3. \A y \in S : x <= y
  <2> SUFFICES ASSUME NEW y \in S, y < x PROVE FALSE
    OBVIOUS
  <2>1. <<y, x>> \in R
    BY DEF OpToRel
  <2> QED
    BY <1>2, <2>1
<1> QED
  BY <1>3 DEF Least

(* What check_client_request_ip or search_next_ip finds.                     *)
LEMMA OfferFound ==
  ASSUME TypeOK, NEW c \in Clients, NEW d \in Offerable(c)
  PROVE  \/ d = Other
         \/ d \in Pool /\ (client_mac[d] = c \/ ~Marked(d))
<1> DEFINE kept  == {x \in Pool : client_mac[x] = c}
           found == {x \in kept : TRUE \in Seen(x)}
           sure  == {x \in kept : FALSE \notin Seen(x)}
           unset == {x \in Pool : ~Marked(x)}
           next  == IF unset = {} THEN Other ELSE Least(unset)
<1>1. Offerable(c) = {x \in found : \A e \in sure : x <= e} \cup (IF sure = {} THEN {next} ELSE {})
  BY DEF Offerable
<1>2. ASSUME unset # {} PROVE Least(unset) \in unset
  <2>1. unset \subseteq Nat
    BY AddressesInUniverse, DhcpsAssumption
  <2> QED
    BY <1>2, <2>1, LeastIsElement
<1> QED
  BY <1>1, <1>2

ServerTypes ==
  /\ server \in {"IDLE", "OFFER"} /\ allocated \in Addresses /\ request \in Addresses
  /\ ip_range \in Tables /\ client_mac \in [Pool -> Clients \cup {None}]

ClientTypes ==
  st \in [Clients -> States] /\ ip \in [Clients -> Addresses] /\ last \in [Clients -> Addresses]

Types == ServerTypes /\ ClientTypes /\ PacketTypes /\ mishaps \in 0 .. MaxMishaps

LEMMA TypesAreTypeOK == Types <=> TypeOK
BY DEF Types, ServerTypes, ClientTypes, PacketTypes, TypeOK, Tables

LEMMA MishapTypes ==
  ASSUME DhcpsAssumption, mishaps \in 0 .. MaxMishaps, Mishap \/ UNCHANGED mishaps
  PROVE  mishaps' \in 0 .. MaxMishaps
BY DEF DhcpsAssumption, Mishap

LEMMA OfferTypes ==
  ASSUME DhcpsAssumption, Types, NEW c \in Clients, NEW m \in Requests, SendOffer(c, m)
  PROVE  /\ \/ UNCHANGED <<allocated, down>>
            \/ \E d \in Offerable(c) : allocated' = d /\ Send(c, "OFFER", d, m.xid)
         /\ allocated' \in Addresses /\ down' \in [Clients -> Seq(Replies)]
         /\ mishaps' \in 0 .. MaxMishaps
<1>1. mishaps' \in 0 .. MaxMishaps
  BY MishapTypes DEF SendOffer, Types
<1>2. CASE UNCHANGED <<allocated, down>>
  BY <1>1, <1>2 DEF Types, ServerTypes, PacketTypes
<1>3. CASE \E d \in Offerable(c) : allocated' = d /\ Send(c, "OFFER", d, m.xid)
  <2>1. PICK d \in Offerable(c) : allocated' = d /\ Send(c, "OFFER", d, m.xid)
    BY <1>3
  <2>2. d \in Addresses
    BY OfferFound, TypesAreTypeOK, SomeAddresses
  <2>3. m.xid \in {"now", "old"}
    BY RequestFields
  <2> QED
    BY <1>1, <1>3, <2>1, <2>2, <2>3, SendTypes DEF Types
<1> QED
  BY <1>2, <1>3 DEF SendOffer

LEMMA AskedTypes ==
  ASSUME Types, NEW m \in Requests
  PROVE  Asked(m) \in Addresses /\ Wanted(m) \in Addresses
BY RequestFields DEF Types, ServerTypes, Asked, Wanted

LEMMA GrantedTypes ==
  ASSUME DhcpsAssumption, Types, NEW c \in Clients, NEW a \in Addresses, Granted(c, a)
  PROVE  a \in Pool /\ a \in Universe
BY AddressesInUniverse DEF Types, ServerTypes, Granted, Available, Addresses

LEMMA ReplyTypes ==
  ASSUME DhcpsAssumption, Types, NEW c \in Clients, NEW type \in {"OFFER", "ACK", "NAK"},
         NEW yi \in Addresses, NEW m \in Requests, Reply(c, type, yi, m.xid)
  PROVE  /\ down' = down \/ Send(c, type, yi, m.xid)
         /\ down' \in [Clients -> Seq(Replies)] /\ mishaps' \in 0 .. MaxMishaps
<1>1. mishaps' \in 0 .. MaxMishaps
  BY MishapTypes DEF Reply, Types
<1>2. m.xid \in {"now", "old"}
  BY RequestFields
<1>3. down' = down \/ Send(c, type, yi, m.xid)
  BY DEF Reply
<1>4. PacketTypes
  BY DEF Types
<1>5. CASE down' = down
  BY <1>1, <1>5 DEF Types, PacketTypes
<1>6. CASE Send(c, type, yi, m.xid)
  BY <1>1, <1>2, <1>4, <1>6, SendTypes
<1> QED
  BY <1>3, <1>5, <1>6

LEMMA ReceiveTypes ==
  ASSUME DhcpsAssumption, Types, NEW c \in Clients, Receive(c)
  PROVE  Types'
<1> DEFINE m == Head(up[c])
<1>1. up[c] # <<>> /\ m \in Requests /\ Tail(up[c]) \in Seq(Requests)
  BY MessageTypes DEF Receive, Types
<1>2. up' \in [Clients -> Seq(Requests)]
  BY <1>1 DEF Receive, Types, PacketTypes
<1>3. ClientTypes'
  BY DEF Receive, Types, ClientTypes
<1>4. HandleDiscover(c, m) \/ HandleOther(c, m) \/ HandleEnd(m) \/ HandleRequest(c, m)
  BY DEF Receive
<1> HIDE DEF m
<1>5. Asked(m) \in Addresses /\ Wanted(m) \in Addresses
  BY <1>1, AskedTypes
<1>6. ASSUME ServerTypes', down' \in [Clients -> Seq(Replies)], mishaps' \in 0 .. MaxMishaps
      PROVE  Types'
  BY <1>2, <1>3, <1>6 DEF Types, PacketTypes
<1>7. CASE HandleDiscover(c, m)
  BY <1>1, <1>5, <1>6, <1>7, OfferTypes DEF HandleDiscover, Types, ServerTypes
<1>8. CASE HandleOther(c, m)
  <2>1. CASE server = "OFFER"
    BY <1>1, <1>5, <1>6, <1>8, <2>1, OfferTypes DEF HandleOther, Types, ServerTypes
  <2>2. CASE server # "OFFER"
    BY <1>1, <1>5, <1>6, <1>8, <2>2 DEF HandleOther, NoReply, Types, ServerTypes, PacketTypes
  <2> QED
    BY <2>1, <2>2
<1>9. CASE HandleEnd(m)
  BY <1>1, <1>5, <1>6, <1>9 DEF HandleEnd, NoReply, Types, ServerTypes, PacketTypes
<1>10. CASE HandleRequest(c, m)
  <2>1. CASE Granted(c, Wanted(m))
    <3>1. Wanted(m) \in Pool /\ Wanted(m) \in Universe
      BY <1>5, <2>1, GrantedTypes
    <3>2. Mark(ip_range, Wanted(m)) \in Tables
      BY <3>1, MarkOne DEF Types, ServerTypes
    <3>3. /\ server' = "IDLE" /\ request' = 0 /\ allocated' = 0
          /\ ip_range' = Mark(ip_range, Wanted(m))
          /\ client_mac' = [client_mac EXCEPT ![Wanted(m)] = c]
          /\ Reply(c, "ACK", Wanted(m), m.xid)
      BY <1>10, <2>1 DEF HandleRequest
    <3>4. ServerTypes'
      BY <3>2, <3>3, SomeAddresses DEF Types, ServerTypes
    <3> QED
      BY <1>1, <1>5, <1>6, <3>3, <3>4, ReplyTypes
  <2>2. CASE ~Granted(c, Wanted(m))
    <3>1. /\ server' = "IDLE" /\ request' = Wanted(m) /\ UNCHANGED <<allocated, ip_range, client_mac>>
          /\ Reply(c, "NAK", allocated, m.xid)
      BY <1>10, <2>2 DEF HandleRequest
    <3>2. ServerTypes' /\ allocated \in Addresses
      BY <1>5, <3>1 DEF Types, ServerTypes
    <3> QED
      BY <1>1, <1>6, <3>1, <3>2, ReplyTypes
  <2> QED
    BY <2>1, <2>2
<1> QED
  BY <1>4, <1>7, <1>8, <1>9, <1>10

(* What the clients and the link do.                                         *)
LEMMA ListenCases ==
  ASSUME Types, NEW c \in Clients, Listen(c)
  PROVE  LET m == Head(down[c])
         IN /\ down[c] # <<>> /\ m \in Replies /\ down' = [down EXCEPT ![c] = Tail(@)]
            /\ UNCHANGED <<serverVars, mishaps>>
            /\ \/ /\ m.xid = "now" /\ m.type = "OFFER" /\ st[c] = "selecting"
                  /\ Again(c, Packet("REQUEST", m.yi, 0))
                  /\ st' = [st EXCEPT ![c] = "requesting"] /\ ip' = [ip EXCEPT ![c] = m.yi]
                  /\ UNCHANGED last
               \/ /\ m.xid = "now" /\ m.type = "ACK" /\ st[c] \in {"requesting", "renewing"}
                  /\ st' = [st EXCEPT ![c] = "bound"] /\ ip' = [ip EXCEPT ![c] = m.yi]
                  /\ last' = [last EXCEPT ![c] = m.yi] /\ UNCHANGED up
               \/ /\ st' = [st EXCEPT ![c] = "init"] /\ ip' = [ip EXCEPT ![c] = 0]
                  /\ last' = [last EXCEPT ![c] = 0] /\ UNCHANGED up
               \/ UNCHANGED <<up, st, ip, last>>
<1> DEFINE m == Head(down[c])
<1>1. down[c] # <<>> /\ m \in Replies
  BY MessageTypes DEF Listen, Types
<1>2. CASE m.xid = "now" /\ m.type = "OFFER" /\ st[c] = "selecting"
  BY <1>1, <1>2 DEF Listen
<1>3. CASE m.xid = "now" /\ m.type = "ACK" /\ st[c] \in {"requesting", "renewing"}
  BY <1>1, <1>3 DEF Listen
<1>4. CASE m.xid = "now" /\ m.type = "NAK" /\ st[c] \in {"requesting", "renewing"}
  BY <1>1, <1>4 DEF Listen
<1>5. CASE /\ ~ (m.xid = "now" /\ m.type = "OFFER" /\ st[c] = "selecting")
           /\ ~ (m.xid = "now" /\ m.type = "ACK" /\ st[c] \in {"requesting", "renewing"})
           /\ ~ (m.xid = "now" /\ m.type = "NAK" /\ st[c] \in {"requesting", "renewing"})
  BY <1>1, <1>5 DEF Listen
<1> QED
  BY <1>2, <1>3, <1>4, <1>5

LEMMA TailTypes ==
  ASSUME PacketTypes, NEW c \in Clients
  PROVE  /\ down[c] # <<>> => [down EXCEPT ![c] = Tail(@)] \in [Clients -> Seq(Replies)]
         /\ up[c] # <<>> => [up EXCEPT ![c] = Tail(@)] \in [Clients -> Seq(Requests)]
<1>1. /\ down[c] # <<>> => Tail(down[c]) \in Seq(Replies)
      /\ up[c] # <<>> => Tail(up[c]) \in Seq(Requests)
  BY MessageTypes
<1> QED
  BY <1>1 DEF PacketTypes

LEMMA ListenTypes ==
  ASSUME DhcpsAssumption, Types, NEW c \in Clients, Listen(c)
  PROVE  Types'
<1> DEFINE m == Head(down[c])
<1>1. down[c] # <<>> /\ m \in Replies /\ down' = [down EXCEPT ![c] = Tail(@)]
  BY ListenCases
<1>2. m.yi \in Addresses
  BY <1>1, RequestFields
<1>3. PacketTypes /\ down' \in [Clients -> Seq(Replies)]
  BY <1>1, TailTypes DEF Types
<1>4. UNCHANGED <<serverVars, mishaps>>
  BY ListenCases
<1>5. ServerTypes' /\ mishaps' \in 0 .. MaxMishaps
  BY <1>4 DEF Types, ServerTypes, serverVars
<1>6. ASSUME ClientTypes', up' \in [Clients -> Seq(Requests)] PROVE Types'
  BY <1>3, <1>5, <1>6 DEF Types, PacketTypes
<1> HIDE DEF m
<1>7. CASE /\ Again(c, Packet("REQUEST", m.yi, 0))
           /\ st' = [st EXCEPT ![c] = "requesting"] /\ ip' = [ip EXCEPT ![c] = m.yi]
           /\ UNCHANGED last
  <2>1. up' \in [Clients -> Seq(Requests)]
    BY <1>2, <1>3, <1>7, AgainTypes, Packets, SomeAddresses
  <2>2. ClientTypes'
    BY <1>2, <1>7 DEF Types, ClientTypes, States
  <2> QED
    BY <1>6, <2>1, <2>2
<1>8. CASE /\ st' = [st EXCEPT ![c] = "bound"] /\ ip' = [ip EXCEPT ![c] = m.yi]
           /\ last' = [last EXCEPT ![c] = m.yi] /\ UNCHANGED up
  BY <1>2, <1>3, <1>6, <1>8 DEF Types, ClientTypes, States, PacketTypes
<1>9. CASE /\ st' = [st EXCEPT ![c] = "init"] /\ ip' = [ip EXCEPT ![c] = 0]
           /\ last' = [last EXCEPT ![c] = 0] /\ UNCHANGED up
  BY <1>6, <1>9, SomeAddresses DEF Types, ClientTypes, States, PacketTypes
<1>10. CASE UNCHANGED <<up, st, ip, last>>
  BY <1>6, <1>10 DEF Types, ClientTypes, PacketTypes
<1> QED
  BY <1>7, <1>8, <1>9, <1>10, ListenCases DEF m

(* A client asks: in a new transaction or again.                             *)
LEMMA QuestionTypes ==
  ASSUME Types, NEW c \in Clients
  PROVE  /\ Question(c) \in Requests
         /\ Question(c).type = IF st[c] = "selecting" THEN "DISCOVER" ELSE "REQUEST"
BY Packets, SomeAddresses DEF Types, ClientTypes, Question

LEMMA AskingTypes ==
  ASSUME DhcpsAssumption, Types, NEW c \in Clients, NEW m \in Requests,
         Begin(c, m) \/ (Again(c, m) /\ UNCHANGED down),
         UNCHANGED serverVars, ClientTypes', Mishap \/ UNCHANGED mishaps
  PROVE  Types'
<1>1. PacketTypes
  BY DEF Types
<1>2. PacketTypes'
  <2>1. CASE Begin(c, m)
    BY <1>1, <2>1, BeginTypes
  <2>2. CASE Again(c, m) /\ UNCHANGED down
    BY <1>1, <2>2, AgainTypes DEF PacketTypes
  <2> QED
    BY <2>1, <2>2
<1>3. ServerTypes' /\ mishaps' \in 0 .. MaxMishaps
  BY MishapTypes DEF Types, ServerTypes, serverVars
<1> QED
  BY <1>2, <1>3 DEF Types

LEMMA ClientStepTypes ==
  ASSUME DhcpsAssumption, Types, NEW c \in Clients,
         ClientStep(c) \/ Renew(c) \/ Leave(c) \/ Inform(c) \/ Drop(c)
  PROVE  Types'
<1>1. PacketTypes /\ st[c] \in States /\ ip[c] \in Addresses /\ last[c] \in Addresses
  BY DEF Types, ClientTypes
<1>2. CASE Discover(c)
  <2>1. PICK a \in {0, last[c]} : Begin(c, Packet("DISCOVER", a, 0))
    BY <1>2 DEF Discover
  <2>2. a \in Addresses
    BY <1>1, SomeAddresses
  <2>3. ClientTypes' /\ UNCHANGED serverVars /\ UNCHANGED mishaps
    BY <1>2 DEF Discover, Types, ClientTypes, States
  <2>4. Packet("DISCOVER", a, 0) \in Requests
    BY <2>2, Packets, SomeAddresses
  <2>5. PICK m \in Requests : Begin(c, m)
    BY <2>1, <2>4
  <2> QED
    BY <2>3, <2>5, AskingTypes
<1>3. CASE AskAgain(c)
  <2>1. ClientTypes' /\ UNCHANGED serverVars /\ UNCHANGED mishaps
    BY <1>1, <1>3 DEF AskAgain, Types, ClientTypes, States
  <2> QED
    <3>1. Packet("REQUEST", last[c], 0) \in Requests
      BY <1>1, Packets, SomeAddresses
    <3>2. PICK m \in Requests : Begin(c, m)
      BY <1>3, <3>1 DEF AskAgain, Begin
    <3> QED
      BY <2>1, <3>2, AskingTypes
<1>4. CASE AskOnceMore(c)
  <2>1. ClientTypes' /\ UNCHANGED serverVars /\ (Mishap \/ UNCHANGED mishaps)
    BY <1>4 DEF AskOnceMore, Patient, Types, ClientTypes
  <2> QED
    <3>1. Question(c) \in Requests /\ Again(c, Question(c)) /\ UNCHANGED down
      BY <1>4, QuestionTypes DEF AskOnceMore
    <3> QED
      BY <2>1, <3>1, AskingTypes
<1>5. CASE GiveUp(c)
  <2>1. ClientTypes' /\ UNCHANGED <<serverVars, up, down>> /\ (Mishap \/ UNCHANGED mishaps)
    BY <1>5, SomeAddresses DEF GiveUp, Patient, Types, ClientTypes, States
  <2> QED
    BY <2>1, MishapTypes DEF Types, ServerTypes, PacketTypes, serverVars
<1>6. CASE Renew(c)
  <2>1. ClientTypes' /\ UNCHANGED serverVars /\ UNCHANGED mishaps
    BY <1>6 DEF Renew, Types, ClientTypes, States
  <2> QED
    <3>1. Packet("REQUEST", 0, ip[c]) \in Requests
      BY <1>1, Packets, SomeAddresses
    <3>2. PICK m \in Requests : Begin(c, m)
      BY <1>6, <3>1 DEF Renew, Begin
    <3> QED
      BY <2>1, <3>2, AskingTypes
<1>7. CASE Leave(c)
  <2>1. ClientTypes' /\ UNCHANGED serverVars /\ Mishap
    BY <1>7, SomeAddresses DEF Leave, Types, ClientTypes, States
  <2>2. CASE \E t \in {"DECLINE", "RELEASE"} : Begin(c, Packet(t, 0, ip[c]))
    <3>1. PICK t \in {"DECLINE", "RELEASE"} : Begin(c, Packet(t, 0, ip[c]))
      BY <2>2
    <3>2. Packet(t, 0, ip[c]) \in Requests
      BY <1>1, Packets, SomeAddresses
    <3>3. PICK m \in Requests : Begin(c, m)
      BY <3>1, <3>2 DEF Begin
    <3> QED
      BY <2>1, <3>3, AskingTypes
  <2>3. CASE up' = [up EXCEPT ![c] = Age(@)] /\ down' = [down EXCEPT ![c] = Age(@)]
    <3>1. Age(up[c]) \in Seq(Requests) /\ Age(down[c]) \in Seq(Replies)
      BY <1>1, Aged DEF PacketTypes
    <3> QED
      BY <2>1, <2>3, <3>1, MishapTypes DEF Types, ServerTypes, PacketTypes, serverVars
  <2> QED
    BY <1>7, <2>2, <2>3 DEF Leave
<1>8. CASE Inform(c)
  <2>1. ClientTypes' /\ UNCHANGED serverVars /\ Mishap
    BY <1>8 DEF Inform, Types, ClientTypes
  <2>2. (IF st[c] = "bound" THEN ip[c] ELSE Other) \in Addresses
    BY <1>1, SomeAddresses
  <2> QED
    <3>1. Packet("INFORM", 0, IF st[c] = "bound" THEN ip[c] ELSE Other) \in Requests
      BY <2>2, Packets, SomeAddresses
    <3>2. PICK m \in Requests : Begin(c, m)
      BY <1>8, <3>1 DEF Inform, Begin
    <3> QED
      BY <2>1, <3>2, AskingTypes
<1>9. CASE Drop(c)
  <2>1. PacketTypes'
    <3>1. /\ down[c] # <<>> => [down EXCEPT ![c] = Tail(@)] \in [Clients -> Seq(Replies)]
          /\ up[c] # <<>> => [up EXCEPT ![c] = Tail(@)] \in [Clients -> Seq(Requests)]
      BY <1>1, TailTypes
    <3> QED
      BY <1>1, <1>9, <3>1 DEF Drop, PacketTypes
  <2> QED
    BY <1>9, <2>1, MishapTypes DEF Drop, Types, ServerTypes, ClientTypes, serverVars
<1> QED
  BY <1>2, <1>3, <1>4, <1>5, <1>6, <1>7, <1>8, <1>9 DEF ClientStep

LEMMA RestartTypes ==
  ASSUME DhcpsAssumption, Types, Restart
  PROVE  Types'
<1>1. <<>> \in Seq(Requests) /\ <<>> \in Seq(Replies)
  OBVIOUS
<1>2. PacketTypes'
  BY <1>1 DEF Restart, PacketTypes
<1>3. ServerTypes' /\ ClientTypes'
  BY LocalBits, SomeAddresses DEF Restart, Types, ServerTypes, ClientTypes, States
<1> QED
  BY <1>2, <1>3, MishapTypes DEF Restart, Types

LEMMA InitTypes ==
  ASSUME DhcpsAssumption, Init
  PROVE  Types
<1>1. <<>> \in Seq(Requests) /\ <<>> \in Seq(Replies)
  OBVIOUS
<1>2. PacketTypes
  BY <1>1 DEF Init, PacketTypes
<1>3. ServerTypes /\ ClientTypes
  BY LocalBits, SomeAddresses DEF Init, ServerTypes, ClientTypes, States
<1> QED
  BY <1>2, <1>3 DEF Init, Types, DhcpsAssumption

LEMMA StutterTypes == ASSUME Types, UNCHANGED vars PROVE Types'
BY DEF vars, Types, ServerTypes, ClientTypes, PacketTypes

LEMMA TypesStep == ASSUME DhcpsAssumption, Types, [Next]_vars PROVE Types'
<1>1. CASE UNCHANGED vars
  BY <1>1, StutterTypes
<1>2. CASE Restart
  BY <1>2, RestartTypes
<1>3. ASSUME NEW c \in Clients, Receive(c) PROVE Types'
  BY <1>3, ReceiveTypes
<1>4. ASSUME NEW c \in Clients, Listen(c) PROVE Types'
  BY <1>4, ListenTypes
<1>5. ASSUME NEW c \in Clients, ClientStep(c) \/ Renew(c) \/ Leave(c) \/ Inform(c) \/ Drop(c)
      PROVE  Types'
  BY <1>5, ClientStepTypes
<1> QED
  BY <1>1, <1>2, <1>3, <1>4, <1>5 DEF Next

LEMMA TypesInvariant == DhcpsAssumption => (Spec => []Types)
<1> SUFFICES ASSUME DhcpsAssumption PROVE Spec => []Types
  OBVIOUS
<1>1. Init => Types
  BY InitTypes
<1>2. Types /\ [Next]_vars => Types'
  BY TypesStep
<1> QED
  BY <1>1, <1>2, PTL DEF Spec

(* TypeOK of Dhcps: every address that is stored or sent is one of the pool, *)
(* 0 or one that is not the server's to give, whatever the packets say.      *)
THEOREM TypeCorrect == DhcpsAssumption => (Spec => []TypeOK)
BY TypesInvariant, TypesAreTypeOK, PTL

-----------------------------------------------------------------------------
(* What is on its way between a client and the server. A client that has a   *)
(* lease, or whose ACK is on its way, has no packet before the server that   *)
(* makes it offer an address: the packets of a client arrive in their order, *)
(* and a new transaction makes those of an earlier one old.                  *)

Asks == {"DISCOVER", "INFORM"}

NoAsks(q)     == \A i \in 1 .. Len(q) : q[i].type \notin Asks
IsRequest(m)  == m.type = "REQUEST" /\ m.xid = "now"
RequestNow(q) == \E i \in 1 .. Len(q) : IsRequest(q[i])
AskedBefore(q) ==
  \A i, j \in 1 .. Len(q) : i < j /\ IsRequest(q[i]) => q[j].type \notin Asks

IsAck(m)  == m.type = "ACK" /\ m.xid = "now"
Acked(q)  == {q[i].yi : i \in {k \in 1 .. Len(q) : IsAck(q[k])}}

LEMMA TailAsks ==
  ASSUME NEW q \in Seq(Requests), q # <<>>
  PROVE  /\ NoAsks(q) => NoAsks(Tail(q)) /\ Head(q).type \notin Asks
         /\ AskedBefore(q) => AskedBefore(Tail(q)) /\ (IsRequest(Head(q)) => NoAsks(Tail(q)))
         /\ RequestNow(Tail(q)) => RequestNow(q)
         /\ IsRequest(Head(q)) => RequestNow(q)
<1>1. /\ Head(q) = q[1] /\ Len(q) \in Nat \ {0} /\ Len(Tail(q)) = Len(q) - 1
      /\ \A i \in 1 .. Len(Tail(q)) : Tail(q)[i] = q[i + 1]
  BY Unqueued
<1> DEFINE t == Tail(q)
           h == Head(q)
<1>2. /\ h = q[1] /\ Len(q) \in Nat \ {0} /\ Len(t) = Len(q) - 1
      /\ \A i \in 1 .. Len(t) : t[i] = q[i + 1]
  BY <1>1
<1> HIDE DEF t, h
<1>3. NoAsks(q) => NoAsks(t) /\ h.type \notin Asks
  BY <1>2 DEF NoAsks
<1>4. AskedBefore(q) => AskedBefore(t) /\ (IsRequest(h) => NoAsks(t))
  <2> SUFFICES ASSUME AskedBefore(q) PROVE AskedBefore(t) /\ (IsRequest(h) => NoAsks(t))
    OBVIOUS
  <2>1. AskedBefore(t)
    BY <1>2 DEF AskedBefore
  <2>2. ASSUME IsRequest(h) PROVE NoAsks(t)
    BY <1>2, <2>2 DEF AskedBefore, NoAsks
  <2> QED
    BY <2>1, <2>2
<1>5. (RequestNow(t) => RequestNow(q)) /\ (IsRequest(h) => RequestNow(q))
  BY <1>2 DEF RequestNow
<1> QED
  BY <1>3, <1>4, <1>5 DEF t, h

LEMMA AppendAsks ==
  ASSUME NEW q \in Seq(Requests), NEW m \in Requests
  PROVE  /\ m.type \notin Asks =>
              (NoAsks(q) => NoAsks(Append(q, m))) /\ (AskedBefore(q) => AskedBefore(Append(q, m)))
         /\ ~RequestNow(q) => AskedBefore(Append(q, m))
         /\ RequestNow(Append(q, m)) => RequestNow(q) \/ m.type = "REQUEST"
<1> DEFINE a == Append(q, m)
<1>1. /\ Len(a) = Len(q) + 1 /\ Len(q) \in Nat /\ a[Len(q) + 1] = m
      /\ \A i \in 1 .. Len(q) : a[i] = q[i]
  BY Queued
<1> HIDE DEF a
<1>2. \A i \in 1 .. Len(a) : i \in 1 .. Len(q) \/ i = Len(q) + 1
  BY <1>1
<1>3. m.type \notin Asks => (NoAsks(q) => NoAsks(a)) /\ (AskedBefore(q) => AskedBefore(a))
  BY <1>1, <1>2 DEF NoAsks, AskedBefore
<1>4. ~RequestNow(q) => AskedBefore(a)
  BY <1>1, <1>2 DEF RequestNow, AskedBefore
<1>5. RequestNow(a) => RequestNow(q) \/ m.type = "REQUEST"
  BY <1>1, <1>2 DEF RequestNow, IsRequest
<1> QED
  BY <1>3, <1>4, <1>5 DEF a

LEMMA AgedAsks ==
  ASSUME NEW q \in Seq(Requests)
  PROVE  /\ Age(q) \in Seq(Requests) /\ ~RequestNow(Age(q)) /\ AskedBefore(Age(q))
         /\ NoAsks(q) => NoAsks(Age(q))
<1>1. /\ Age(q) \in Seq(Requests) /\ Len(Age(q)) = Len(q)
      /\ \A i \in 1 .. Len(q) : Age(q)[i].type = q[i].type /\ Age(q)[i].xid = "old"
  BY Aged
<1> QED
  BY <1>1 DEF RequestNow, IsRequest, AskedBefore, NoAsks

LEMMA TailAcked ==
  ASSUME NEW q \in Seq(Replies), q # <<>>
  PROVE  Acked(Tail(q)) \subseteq Acked(q) /\ (IsAck(Head(q)) => Head(q).yi \in Acked(q))
<1> DEFINE t == Tail(q)
           h == Head(q)
<1>1. /\ h = q[1] /\ Len(q) \in Nat \ {0} /\ Len(t) = Len(q) - 1
      /\ \A i \in 1 .. Len(t) : t[i] = q[i + 1]
  BY Unqueued
<1> HIDE DEF t, h
<1>2. Acked(t) \subseteq Acked(q) /\ (IsAck(h) => h.yi \in Acked(q))
  BY <1>1 DEF Acked
<1> QED
  BY <1>2 DEF t, h

LEMMA AppendAcked ==
  ASSUME NEW q \in Seq(Replies), NEW m \in Replies
  PROVE  Acked(Append(q, m)) \subseteq IF IsAck(m) THEN Acked(q) \cup {m.yi} ELSE Acked(q)
<1> DEFINE a == Append(q, m)
<1>1. /\ Len(a) = Len(q) + 1 /\ Len(q) \in Nat /\ a[Len(q) + 1] = m
      /\ \A i \in 1 .. Len(q) : a[i] = q[i]
  BY Queued
<1> HIDE DEF a
<1>2. \A i \in 1 .. Len(a) : i \in 1 .. Len(q) \/ i = Len(q) + 1
  BY <1>1
<1>3. Acked(a) \subseteq IF IsAck(m) THEN Acked(q) \cup {m.yi} ELSE Acked(q)
  BY <1>1, <1>2 DEF Acked
<1> QED
  BY <1>3 DEF a

LEMMA AgedAcked ==
  ASSUME NEW q \in Seq(Replies)
  PROVE  Age(q) \in Seq(Replies) /\ Acked(Age(q)) = {}
<1>1. /\ Age(q) \in Seq(Replies) /\ Len(Age(q)) = Len(q)
      /\ \A i \in 1 .. Len(q) : Age(q)[i].type = q[i].type /\ Age(q)[i].xid = "old"
  BY Aged
<1> QED
  BY <1>1 DEF Acked, IsAck

LEMMA NothingSent == NoAsks(<<>>) /\ AskedBefore(<<>>) /\ ~RequestNow(<<>>) /\ Acked(<<>>) = {}
BY DEF NoAsks, AskedBefore, RequestNow, Acked

-----------------------------------------------------------------------------
(* Leases.                                                                   *)

Past(c) == Holds(c) \/ Acked(down[c]) # {}

Orderly(c) ==
  /\ Past(c) => NoAsks(up[c])
  /\ AskedBefore(up[c])
  /\ st[c] = "selecting" => ~RequestNow(up[c]) /\ Acked(down[c]) = {}

AcksKnown == \A c \in Clients : \A a \in Acked(down[c]) : a \in Pool /\ client_mac[a] = c

(* The address that was offered last belongs to nobody, or to a client that  *)
(* has not been told so: it can still be given to another one.               *)
OfferUnused ==
  allocated \in Pool => \A c \in Clients : client_mac[allocated] = c => ~Past(c)

LeaseInv ==
  /\ Types /\ TablesAgree /\ LeaseKnown /\ AcksKnown /\ OfferUnused
  /\ \A c \in Clients : Orderly(c)

(* A step of a client, or of the link to it.                                 *)
LEMMA ClientKeeps ==
  ASSUME LeaseInv, Types', NEW c \in Clients, UNCHANGED serverVars,
         \A d \in Clients \ {c} :
           st'[d] = st[d] /\ ip'[d] = ip[d] /\ up'[d] = up[d] /\ down'[d] = down[d],
         Acked(down'[c]) \subseteq Acked(down[c]),
         Holds(c)' => Past(c) /\ ip'[c] \in Pool /\ client_mac[ip'[c]] = c,
         Orderly(c)'
  PROVE  LeaseInv'
<1>1. /\ UNCHANGED <<allocated, client_mac, ip_range>>
  BY DEF serverVars
<1>2. \A d \in Clients : Past(d)' => Past(d)
  BY DEF Past, Holds
<1>3. OfferUnused'
  BY <1>1, <1>2 DEF LeaseInv, OfferUnused
<1>4. LeaseKnown'
  BY <1>1 DEF LeaseInv, LeaseKnown, Holds
<1>5. AcksKnown'
  BY <1>1 DEF LeaseInv, AcksKnown
<1>6. TablesAgree'
  BY <1>1 DEF LeaseInv, TablesAgree, Marked
<1>7. \A d \in Clients : Orderly(d)'
  BY DEF LeaseInv, Orderly, Past, Holds
<1> QED
  BY <1>3, <1>4, <1>5, <1>6, <1>7 DEF LeaseInv

(* A new transaction: no answer on its way counts any more.                  *)
LEMMA BeginKeeps ==
  ASSUME LeaseInv, Types', NEW c \in Clients, NEW m \in Requests, Begin(c, m), UNCHANGED serverVars,
         \A d \in Clients \ {c} : st'[d] = st[d] /\ ip'[d] = ip[d],
         Holds(c)' => Holds(c) /\ ip'[c] = ip[c] /\ m.type \notin Asks,
         st'[c] = "selecting" => m.type # "REQUEST"
  PROVE  LeaseInv'
<1>1. PacketTypes /\ up[c] \in Seq(Requests) /\ down[c] \in Seq(Replies)
  BY DEF LeaseInv, Types, PacketTypes
<1>2. /\ up'[c] = Append(Age(up[c]), m) /\ down'[c] = Age(down[c])
      /\ \A d \in Clients \ {c} : up'[d] = up[d] /\ down'[d] = down[d]
  BY <1>1, BeginTypes
<1>3. Acked(down'[c]) = {}
  BY <1>1, <1>2, AgedAcked
<1>4. Age(up[c]) \in Seq(Requests)
  BY <1>1, AgedAsks
<1>5. AskedBefore(up'[c]) /\ (RequestNow(up'[c]) => m.type = "REQUEST")
  BY <1>1, <1>2, <1>4, AgedAsks, AppendAsks
<1>6. m.type \notin Asks /\ NoAsks(up[c]) => NoAsks(up'[c])
  BY <1>1, <1>2, <1>4, AgedAsks, AppendAsks
<1>7. Past(c)' <=> Holds(c)'
  BY <1>3 DEF Past
<1>8. Holds(c) => NoAsks(up[c]) /\ ip[c] \in Pool /\ client_mac[ip[c]] = c
  BY DEF LeaseInv, Orderly, Past, LeaseKnown
<1>9. Orderly(c)'
  BY <1>3, <1>5, <1>6, <1>7, <1>8 DEF Orderly
<1> QED
  BY <1>2, <1>3, <1>8, <1>9, ClientKeeps DEF Past

(* A packet that is sent once more.                                          *)
LEMMA AgainKeeps ==
  ASSUME LeaseInv, NEW c \in Clients, NEW m \in Requests, Again(c, m),
         m.type = "REQUEST" \/ (m.type = "DISCOVER" /\ st[c] = "selecting")
  PROVE  /\ \A d \in Clients \ {c} : up'[d] = up[d]
         /\ AskedBefore(up'[c]) /\ (Past(c) => NoAsks(up'[c]))
         /\ m.type # "REQUEST" => ~RequestNow(up'[c])
<1>1. PacketTypes /\ up[c] \in Seq(Requests)
  BY DEF LeaseInv, Types, PacketTypes
<1>2. up'[c] = Append(up[c], m) /\ \A d \in Clients \ {c} : up'[d] = up[d]
  BY <1>1, AgainTypes
<1>3. Orderly(c)
  BY DEF LeaseInv
<1>4. CASE m.type = "REQUEST"
  <2>1. m.type \notin Asks
    BY <1>4 DEF Asks
  <2> QED
    BY <1>1, <1>2, <1>3, <1>4, <2>1, AppendAsks DEF Orderly
<1>5. CASE m.type = "DISCOVER" /\ st[c] = "selecting"
  <2>1. ~RequestNow(up[c]) /\ ~Past(c)
    BY <1>3, <1>5 DEF Orderly, Past, Holds
  <2> QED
    BY <1>1, <1>2, <1>5, <2>1, AppendAsks
<1> QED
  BY <1>4, <1>5

LEMMA ListenKeeps ==
  ASSUME LeaseInv, Types', NEW c \in Clients, Listen(c)
  PROVE  LeaseInv'
<1> DEFINE m == Head(down[c])
<1>1. Types /\ up[c] \in Seq(Requests) /\ down[c] \in Seq(Replies) /\ Orderly(c)
  BY DEF LeaseInv, Types, PacketTypes
<1>2. /\ down[c] # <<>> /\ m \in Replies /\ down' = [down EXCEPT ![c] = Tail(@)]
      /\ UNCHANGED serverVars
      /\ \/ /\ m.xid = "now" /\ m.type = "OFFER" /\ st[c] = "selecting"
            /\ Again(c, Packet("REQUEST", m.yi, 0))
            /\ st' = [st EXCEPT ![c] = "requesting"] /\ ip' = [ip EXCEPT ![c] = m.yi]
         \/ /\ m.xid = "now" /\ m.type = "ACK" /\ st[c] \in {"requesting", "renewing"}
            /\ st' = [st EXCEPT ![c] = "bound"] /\ ip' = [ip EXCEPT ![c] = m.yi] /\ UNCHANGED up
         \/ /\ st' = [st EXCEPT ![c] = "init"] /\ ip' = [ip EXCEPT ![c] = 0] /\ UNCHANGED up
         \/ UNCHANGED <<up, st, ip>>
  BY <1>1, ListenCases
<1>3. /\ down'[c] = Tail(down[c]) /\ \A d \in Clients \ {c} : down'[d] = down[d]
  BY <1>1, <1>2 DEF Types, PacketTypes
<1>4. Acked(down'[c]) \subseteq Acked(down[c]) /\ (IsAck(m) => m.yi \in Acked(down[c]))
  BY <1>1, <1>2, <1>3, TailAcked
<1>5. st \in [Clients -> States] /\ ip \in [Clients -> Addresses]
  BY <1>1 DEF Types, ClientTypes
<1> HIDE DEF m
<1>6. CASE /\ m.xid = "now" /\ m.type = "OFFER" /\ st[c] = "selecting"
           /\ Again(c, Packet("REQUEST", m.yi, 0))
           /\ st' = [st EXCEPT ![c] = "requesting"] /\ ip' = [ip EXCEPT ![c] = m.yi]
  <2>1. m.yi \in Addresses
    BY <1>2, RequestFields
  <2>2. Packet("REQUEST", m.yi, 0) \in Requests /\ Packet("REQUEST", m.yi, 0).type = "REQUEST"
    BY <2>1, Packets, SomeAddresses
  <2>3. PICK r \in Requests : r.type = "REQUEST" /\ Again(c, r)
    BY <1>6, <2>2 DEF Again
  <2>4. \A d \in Clients \ {c} : up'[d] = up[d]
    BY <2>3, AgainKeeps
  <2>5. AskedBefore(up'[c])
    BY <2>3, AgainKeeps
  <2>6. Acked(down'[c]) = {}
    BY <1>1, <1>4, <1>6 DEF Orderly
  <2>7. Orderly(c)' /\ ~Holds(c)'
    BY <1>5, <1>6, <2>5, <2>6 DEF Orderly, Past, Holds
  <2> QED
    BY <1>2, <1>3, <1>4, <1>5, <1>6, <2>4, <2>7, ClientKeeps
<1>7. CASE /\ m.xid = "now" /\ m.type = "ACK" /\ st[c] \in {"requesting", "renewing"}
           /\ st' = [st EXCEPT ![c] = "bound"] /\ ip' = [ip EXCEPT ![c] = m.yi] /\ UNCHANGED up
  <2>1. m.yi \in Acked(down[c])
    BY <1>4, <1>7 DEF IsAck
  <2>2. Past(c) /\ m.yi \in Pool /\ client_mac[m.yi] = c
    BY <2>1 DEF Past, LeaseInv, AcksKnown
  <2>3. Orderly(c)'
    BY <1>1, <1>5, <1>7, <2>2 DEF Orderly
  <2>4. ip'[c] = m.yi
    BY <1>5, <1>7
  <2> QED
    BY <1>2, <1>3, <1>4, <1>5, <1>7, <2>2, <2>3, <2>4, ClientKeeps
<1>8. CASE st' = [st EXCEPT ![c] = "init"] /\ ip' = [ip EXCEPT ![c] = 0] /\ UNCHANGED up
  <2>1. Orderly(c)' /\ ~Holds(c)'
    BY <1>1, <1>4, <1>5, <1>8 DEF Orderly, Past, Holds
  <2> QED
    BY <1>2, <1>3, <1>4, <1>5, <1>8, <2>1, ClientKeeps
<1>9. CASE UNCHANGED <<up, st, ip>>
  <2>1. Orderly(c)' /\ (Holds(c)' => Holds(c) /\ Past(c))
    BY <1>1, <1>4, <1>9 DEF Orderly, Past, Holds
  <2>2. Holds(c) => ip[c] \in Pool /\ client_mac[ip[c]] = c
    BY DEF LeaseInv, LeaseKnown
  <2> QED
    BY <1>2, <1>3, <1>4, <1>9, <2>1, <2>2, ClientKeeps
<1> QED
  BY <1>2, <1>6, <1>7, <1>8, <1>9

LEMMA DiscoverKeeps ==
  ASSUME LeaseInv, Types', NEW c \in Clients, Discover(c)
  PROVE  LeaseInv'
<1>1. ip \in [Clients -> Addresses] /\ last[c] \in Addresses /\ st \in [Clients -> States]
  BY DEF LeaseInv, Types, ClientTypes
<1>2. PICK a \in {0, last[c]} : Begin(c, Packet("DISCOVER", a, 0))
  BY DEF Discover
<1>3. PICK m \in Requests : Begin(c, m) /\ m.type = "DISCOVER"
  <2>1. Packet("DISCOVER", a, 0) \in Requests /\ Packet("DISCOVER", a, 0).type = "DISCOVER"
    BY <1>1, Packets, SomeAddresses
  <2> QED
    BY <1>2, <2>1
<1>4. UNCHANGED serverVars /\ UNCHANGED ip /\ st' = [st EXCEPT ![c] = "selecting"]
  BY DEF Discover
<1> QED
  BY <1>1, <1>3, <1>4, BeginKeeps DEF Holds

LEMMA AskAgainKeeps ==
  ASSUME LeaseInv, Types', NEW c \in Clients, AskAgain(c)
  PROVE  LeaseInv'
<1>1. ip \in [Clients -> Addresses] /\ last[c] \in Addresses /\ st \in [Clients -> States]
  BY DEF LeaseInv, Types, ClientTypes
<1>2. Packet("REQUEST", last[c], 0) \in Requests
  BY <1>1, Packets, SomeAddresses
<1>3. PICK m \in Requests : Begin(c, m)
  BY <1>2 DEF AskAgain, Begin
<1>4. UNCHANGED serverVars /\ st' = [st EXCEPT ![c] = "requesting"] /\ ip' = [ip EXCEPT ![c] = last[c]]
  BY DEF AskAgain
<1> QED
  BY <1>1, <1>3, <1>4, BeginKeeps DEF Holds

LEMMA RenewKeeps ==
  ASSUME LeaseInv, Types', NEW c \in Clients, Renew(c)
  PROVE  LeaseInv'
<1>1. ip[c] \in Addresses /\ st \in [Clients -> States]
  BY DEF LeaseInv, Types, ClientTypes
<1>2. Packet("REQUEST", 0, ip[c]) \in Requests /\ Packet("REQUEST", 0, ip[c]).type = "REQUEST"
  BY <1>1, Packets, SomeAddresses
<1>3. PICK m \in Requests : Begin(c, m) /\ m.type = "REQUEST"
  BY <1>2 DEF Renew, Begin
<1>4. UNCHANGED serverVars /\ st' = [st EXCEPT ![c] = "renewing"] /\ UNCHANGED ip /\ st[c] = "bound"
  BY DEF Renew
<1> QED
  BY <1>1, <1>3, <1>4, BeginKeeps DEF Holds, Asks

LEMMA AskOnceMoreKeeps ==
  ASSUME LeaseInv, Types', NEW c \in Clients, AskOnceMore(c)
  PROVE  LeaseInv'
<1>1. Types /\ Orderly(c)
  BY DEF LeaseInv
<1>2. UNCHANGED <<serverVars, st, ip, down>>
  BY DEF AskOnceMore
<1>3. PICK m \in Requests : /\ Again(c, m)
                            /\ m.type = IF st[c] = "selecting" THEN "DISCOVER" ELSE "REQUEST"
  BY <1>1, QuestionTypes DEF AskOnceMore, Again
<1>4. /\ \A d \in Clients \ {c} : up'[d] = up[d]
      /\ AskedBefore(up'[c]) /\ (Past(c) => NoAsks(up'[c]))
      /\ m.type # "REQUEST" => ~RequestNow(up'[c])
  BY <1>3, AgainKeeps
<1>5. Orderly(c)'
  BY <1>1, <1>2, <1>3, <1>4 DEF Orderly, Past, Holds
<1>6. Holds(c)' => Past(c) /\ ip'[c] \in Pool /\ client_mac[ip'[c]] = c
  BY <1>2 DEF Holds, Past, LeaseInv, LeaseKnown
<1> QED
  BY <1>2, <1>4, <1>5, <1>6, ClientKeeps

LEMMA GiveUpKeeps ==
  ASSUME LeaseInv, Types', NEW c \in Clients, GiveUp(c)
  PROVE  LeaseInv'
<1>1. Orderly(c) /\ st \in [Clients -> States] /\ ip \in [Clients -> Addresses]
  BY DEF LeaseInv, Types, ClientTypes
<1>2. /\ UNCHANGED <<serverVars, up, down>>
      /\ st' = [st EXCEPT ![c] = "init"] /\ ip' = [ip EXCEPT ![c] = 0]
  BY DEF GiveUp
<1>3. Orderly(c)' /\ ~Holds(c)'
  BY <1>1, <1>2 DEF Orderly, Past, Holds
<1> QED
  BY <1>1, <1>2, <1>3, ClientKeeps

LEMMA LeaveKeeps ==
  ASSUME LeaseInv, Types', NEW c \in Clients, Leave(c)
  PROVE  LeaseInv'
<1>1. /\ Orderly(c) /\ st \in [Clients -> States] /\ ip \in [Clients -> Addresses] /\ ip[c] \in Addresses
      /\ up \in [Clients -> Seq(Requests)] /\ down \in [Clients -> Seq(Replies)]
  BY DEF LeaseInv, Types, ClientTypes, PacketTypes
<1>2. UNCHANGED serverVars /\ st' = [st EXCEPT ![c] = "init"] /\ ip' = [ip EXCEPT ![c] = 0]
  BY DEF Leave
<1>3. CASE up' = [up EXCEPT ![c] = Age(@)] /\ down' = [down EXCEPT ![c] = Age(@)]
  <2>1. /\ up'[c] = Age(up[c]) /\ down'[c] = Age(down[c])
        /\ \A d \in Clients \ {c} : up'[d] = up[d] /\ down'[d] = down[d]
    BY <1>1, <1>3
  <2>2. AskedBefore(up'[c]) /\ Acked(down'[c]) = {}
    BY <1>1, <2>1, AgedAsks, AgedAcked
  <2>3. Orderly(c)' /\ ~Holds(c)'
    BY <1>1, <1>2, <2>2 DEF Orderly, Past, Holds
  <2> QED
    BY <1>1, <1>2, <2>1, <2>2, <2>3, ClientKeeps
<1>4. CASE \E t \in {"DECLINE", "RELEASE"} : Begin(c, Packet(t, 0, ip[c]))
  <2>1. PICK t \in {"DECLINE", "RELEASE"} : Begin(c, Packet(t, 0, ip[c]))
    BY <1>4
  <2>2. Packet(t, 0, ip[c]) \in Requests
    BY <1>1, Packets, SomeAddresses
  <2>3. PICK m \in Requests : Begin(c, m)
    BY <2>1, <2>2 DEF Begin
  <2> QED
    BY <1>1, <1>2, <2>3, BeginKeeps DEF Holds
<1> QED
  BY <1>3, <1>4 DEF Leave

(* A client that asks for parameters only has no lease.                      *)
LEMMA InformKeeps ==
  ASSUME LeaseInv, Types', "bound" \notin InformIn, DhcpsAssumption, NEW c \in Clients, Inform(c)
  PROVE  LeaseInv'
<1>1. st[c] = "init" /\ UNCHANGED <<serverVars, st, ip>>
  BY DEF Inform, DhcpsAssumption
<1>2. Packet("INFORM", 0, Other) \in Requests
  BY Packets, SomeAddresses
<1>3. PICK m \in Requests : Begin(c, m)
  BY <1>1, <1>2 DEF Inform, Begin
<1> QED
  BY <1>1, <1>3, BeginKeeps DEF Holds

LEMMA DropKeeps ==
  ASSUME LeaseInv, Types', NEW c \in Clients, Drop(c)
  PROVE  LeaseInv'
<1>1. Orderly(c) /\ up \in [Clients -> Seq(Requests)] /\ down \in [Clients -> Seq(Replies)]
  BY DEF LeaseInv, Types, PacketTypes
<1>2. UNCHANGED <<serverVars, st, ip>>
  BY DEF Drop
<1>3. Holds(c)' => Past(c) /\ ip'[c] \in Pool /\ client_mac[ip'[c]] = c
  BY <1>2 DEF Holds, Past, LeaseInv, LeaseKnown
<1>4. CASE up[c] # <<>> /\ up' = [up EXCEPT ![c] = Tail(@)] /\ UNCHANGED down
  <2>1. up'[c] = Tail(up[c]) /\ \A d \in Clients \ {c} : up'[d] = up[d]
    BY <1>1, <1>4
  <2>2. Orderly(c)'
    BY <1>1, <1>2, <1>4, <2>1, TailAsks DEF Orderly, Past, Holds
  <2> QED
    BY <1>2, <1>3, <1>4, <2>1, <2>2, ClientKeeps
<1>5. CASE down[c] # <<>> /\ down' = [down EXCEPT ![c] = Tail(@)] /\ UNCHANGED up
  <2>1. down'[c] = Tail(down[c]) /\ \A d \in Clients \ {c} : down'[d] = down[d]
    BY <1>1, <1>5
  <2>2. Acked(down'[c]) \subseteq Acked(down[c])
    BY <1>1, <1>5, <2>1, TailAcked
  <2>3. Orderly(c)'
    BY <1>1, <1>2, <1>5, <2>2 DEF Orderly, Past, Holds
  <2> QED
    BY <1>2, <1>3, <1>5, <2>1, <2>2, <2>3, ClientKeeps
<1> QED
  BY <1>4, <1>5 DEF Drop

(* What every packet does to the queues. An answer that is not an ACK tells  *)
(* nobody of a lease.                                                        *)
LEMMA ReceiveQueues ==
  ASSUME LeaseInv, NEW c \in Clients, Receive(c)
  PROVE  /\ up[c] # <<>> /\ Head(up[c]) \in Requests
         /\ up'[c] = Tail(up[c]) /\ \A d \in Clients \ {c} : up'[d] = up[d]
         /\ UNCHANGED <<st, ip>>
         /\ Past(c) => Head(up[c]).type \notin Asks /\ NoAsks(up'[c])
         /\ AskedBefore(up'[c]) /\ (RequestNow(up'[c]) => RequestNow(up[c]))
         /\ IsRequest(Head(up[c])) => RequestNow(up[c]) /\ NoAsks(up'[c])
<1>1. up \in [Clients -> Seq(Requests)] /\ up[c] \in Seq(Requests) /\ Orderly(c)
  BY DEF LeaseInv, Types, PacketTypes
<1>2. up[c] # <<>> /\ up' = [up EXCEPT ![c] = Tail(@)] /\ UNCHANGED <<st, ip>>
  BY DEF Receive
<1>3. up'[c] = Tail(up[c]) /\ \A d \in Clients \ {c} : up'[d] = up[d]
  BY <1>1, <1>2
<1>4. Head(up[c]) \in Requests
  BY <1>1, <1>2, Unqueued
<1> QED
  BY <1>1, <1>2, <1>3, <1>4, TailAsks DEF Orderly

LEMMA SendAcked ==
  ASSUME LeaseInv, NEW c \in Clients, NEW type \in {"OFFER", "ACK", "NAK"},
         NEW yi \in Addresses, NEW xid \in {"now", "old"}, down' = down \/ Send(c, type, yi, xid)
  PROVE  /\ Acked(down'[c]) \subseteq
              IF type = "ACK" /\ xid = "now" THEN Acked(down[c]) \cup {yi} ELSE Acked(down[c])
         /\ \A d \in Clients \ {c} : down'[d] = down[d]
<1>1. PacketTypes /\ down[c] \in Seq(Replies)
  BY DEF LeaseInv, Types, PacketTypes
<1>2. CASE down' = down
  BY <1>2
<1>3. CASE Send(c, type, yi, xid)
  <2> DEFINE m == [type |-> type, yi |-> yi, xid |-> xid]
  <2>1. m \in Replies /\ (IsAck(m) <=> type = "ACK" /\ xid = "now") /\ m.yi = yi
    BY DEF Replies, IsAck
  <2>2. /\ down'[c] = down[c] \/ down'[c] = Append(down[c], m)
        /\ \A d \in Clients \ {c} : down'[d] = down[d]
    BY <1>1, <1>3, SendTypes
  <2> HIDE DEF m
  <2> QED
    BY <1>1, <2>1, <2>2, AppendAcked
<1> QED
  BY <1>2, <1>3

LEMMA OfferKeeps ==
  ASSUME DhcpsAssumption, LeaseInv, Types', NEW c \in Clients, Receive(c),
         HandleDiscover(c, Head(up[c])) \/ HandleOther(c, Head(up[c])) \/ HandleEnd(Head(up[c]))
  PROVE  LeaseInv'
<1> DEFINE m == Head(up[c])
<1>1. Types /\ Orderly(c) /\ m \in Requests
  BY ReceiveQueues DEF LeaseInv
<1>2. /\ up'[c] = Tail(up[c]) /\ \A d \in Clients \ {c} : up'[d] = up[d]
      /\ UNCHANGED <<st, ip>>
      /\ Past(c) => m.type \notin Asks /\ NoAsks(up'[c])
      /\ AskedBefore(up'[c]) /\ (RequestNow(up'[c]) => RequestNow(up[c]))
  BY ReceiveQueues
<1>3. HandleDiscover(c, m) \/ HandleOther(c, m) \/ HandleEnd(m)
  OBVIOUS
<1> HIDE DEF m
<1>4. UNCHANGED <<ip_range, client_mac>>
  BY <1>3 DEF HandleDiscover, HandleOther, HandleEnd
<1>5. \/ UNCHANGED <<allocated, down>>
      \/ /\ m.type \in Asks
         /\ \E d \in Offerable(c) : allocated' = d /\ Send(c, "OFFER", d, m.xid)
  BY <1>3 DEF HandleDiscover, HandleOther, HandleEnd, SendOffer, NoReply, Asks
<1>6. \A d \in Clients : Acked(down'[d]) \subseteq Acked(down[d])
  <2>1. CASE UNCHANGED down
    BY <2>1
  <2>2. CASE \E d \in Offerable(c) : Send(c, "OFFER", d, m.xid)
    <3>1. PICK d \in Offerable(c) : Send(c, "OFFER", d, m.xid)
      BY <2>2
    <3>2. d \in Addresses /\ m.xid \in {"now", "old"}
      BY <1>1, OfferFound, TypesAreTypeOK, SomeAddresses, RequestFields
    <3>3. PICK a \in Addresses, x \in {"now", "old"} : Send(c, "OFFER", a, x)
      BY <3>1, <3>2
    <3> QED
      BY <3>3, SendAcked
  <2> QED
    BY <1>5, <2>1, <2>2
<1>7. \A d \in Clients : Past(d)' => Past(d)
  BY <1>2, <1>6 DEF Past, Holds
<1>8. OfferUnused'
  <2>1. CASE UNCHANGED allocated
    BY <1>4, <1>7, <2>1 DEF LeaseInv, OfferUnused
  <2>2. CASE m.type \in Asks /\ allocated' \in Offerable(c)
    <3>1. ~Past(c)
      BY <1>2, <2>2
    <3>2. \/ allocated' = Other
          \/ allocated' \in Pool /\ (client_mac[allocated'] = c \/ ~Marked(allocated'))
      <4>1. PICK d \in Offerable(c) : allocated' = d
        BY <2>2
      <4> QED
        BY <1>1, <4>1, OfferFound, TypesAreTypeOK
    <3>3. ~Marked(allocated') /\ allocated' \in Pool => client_mac[allocated'] = None
      BY DEF LeaseInv, TablesAgree
    <3>4. None \notin Clients /\ Other \notin Pool
      BY AddressesInUniverse DEF DhcpsAssumption
    <3> QED
      BY <1>4, <1>7, <3>1, <3>2, <3>3, <3>4 DEF OfferUnused
  <2> QED
    BY <1>5, <2>1, <2>2
<1>9. LeaseKnown' /\ TablesAgree' /\ AcksKnown'
  BY <1>2, <1>4, <1>6 DEF LeaseInv, LeaseKnown, Holds, TablesAgree, Marked, AcksKnown
<1>10. \A d \in Clients : Orderly(d)'
  <2>1. \A d \in Clients : Orderly(d)
    BY DEF LeaseInv
  <2> QED
    BY <1>2, <1>6, <1>7, <2>1 DEF Orderly
<1> QED
  BY <1>8, <1>9, <1>10 DEF LeaseInv

LEMMA GrantMarks ==
  ASSUME DhcpsAssumption, Types, TablesAgree, NEW c \in Clients, NEW a \in Pool,
         ip_range' = Mark(ip_range, a), client_mac' = [client_mac EXCEPT ![a] = c]
  PROVE  TablesAgree'
<1>1. ip_range \in Tables /\ client_mac \in [Pool -> Clients \cup {None}] /\ a \in Universe
  BY AddressesInUniverse DEF Types, ServerTypes
<1>2. \A d \in Pool : Marked(d) <=> BitOf(ip_range, d)
  BY DEF Marked, BitOf
<1>3. \A d \in Pool : Marked(d)' <=> BitOf(Mark(ip_range, a), d)
  BY DEF Marked, BitOf
<1>4. \A d \in Pool : BitOf(Mark(ip_range, a), d) <=> (d = a \/ BitOf(ip_range, d))
  BY <1>1, MarkOne, AddressesInUniverse
<1>5. c # None
  BY DEF DhcpsAssumption
<1> QED
  BY <1>1, <1>2, <1>3, <1>4, <1>5 DEF TablesAgree

LEMMA RequestKeeps ==
  ASSUME DhcpsAssumption, LeaseInv, Types', NEW c \in Clients, Receive(c),
         HandleRequest(c, Head(up[c]))
  PROVE  LeaseInv'
<1> DEFINE m == Head(up[c])
           a == Wanted(m)
<1>1. Types /\ Orderly(c) /\ m \in Requests
  BY ReceiveQueues DEF LeaseInv
<1>2. /\ up'[c] = Tail(up[c]) /\ \A d \in Clients \ {c} : up'[d] = up[d]
      /\ UNCHANGED <<st, ip>>
      /\ Past(c) => NoAsks(up'[c])
      /\ AskedBefore(up'[c]) /\ (RequestNow(up'[c]) => RequestNow(up[c]))
      /\ IsRequest(m) => RequestNow(up[c]) /\ NoAsks(up'[c])
  BY ReceiveQueues
<1>3. a \in Addresses /\ m.xid \in {"now", "old"}
  BY <1>1, AskedTypes, RequestFields
<1>4. /\ m.type = "REQUEST"
      /\ IF Granted(c, a)
         THEN /\ ip_range' = Mark(ip_range, a) /\ client_mac' = [client_mac EXCEPT ![a] = c]
              /\ allocated' = 0 /\ Reply(c, "ACK", a, m.xid)
         ELSE UNCHANGED <<allocated, ip_range, client_mac>> /\ Reply(c, "NAK", allocated, m.xid)
  BY DEF HandleRequest
<1>5. /\ st \in [Clients -> States] /\ client_mac \in [Pool -> Clients \cup {None}]
      /\ ip_range \in Tables /\ allocated \in Addresses
  BY <1>1 DEF Types, ServerTypes, ClientTypes
<1> HIDE DEF m, a
<1>6. CASE ~Granted(c, a)
  <2>1. UNCHANGED <<allocated, ip_range, client_mac>>
    BY <1>4, <1>6
  <2>2. PICK x \in {"now", "old"}, y \in Addresses : down' = down \/ Send(c, "NAK", y, x)
    BY <1>3, <1>4, <1>5, <1>6 DEF Reply
  <2>3. Acked(down'[c]) \subseteq Acked(down[c]) /\ \A d \in Clients \ {c} : down'[d] = down[d]
    BY <2>2, SendAcked
  <2>4. \A d \in Clients : (Past(d)' => Past(d)) /\ Acked(down'[d]) \subseteq Acked(down[d])
    BY <1>2, <2>3 DEF Past, Holds
  <2>5. LeaseKnown' /\ TablesAgree' /\ AcksKnown' /\ OfferUnused'
    BY <1>2, <2>1, <2>4 DEF LeaseInv, LeaseKnown, Holds, TablesAgree, Marked, AcksKnown, OfferUnused
  <2>6. \A d \in Clients : Orderly(d)'
    <3>1. \A d \in Clients : Orderly(d)
      BY DEF LeaseInv
    <3> QED
      BY <1>2, <2>4, <3>1 DEF Orderly
  <2> QED
    BY <2>5, <2>6 DEF LeaseInv
<1>7. CASE Granted(c, a)
  <2>1. a \in Pool /\ a \in Universe
    BY <1>1, <1>3, <1>7, GrantedTypes
  <2>2. /\ ip_range' = Mark(ip_range, a) /\ client_mac' = [client_mac EXCEPT ![a] = c]
        /\ allocated' = 0
    BY <1>4, <1>7
  <2>3. ASSUME NEW d \in Clients \ {c}, client_mac[a] = d PROVE ~Past(d)
    <3>1. allocated = a
      BY <1>7, <2>3 DEF Granted, Available, DhcpsAssumption
    <3> QED
      BY <2>1, <2>3, <3>1 DEF LeaseInv, OfferUnused
  <2>4. PICK x \in {"now", "old"} : x = m.xid /\ (down' = down \/ Send(c, "ACK", a, x))
    BY <1>3, <1>4, <1>7 DEF Reply
  <2>5. PICK y \in Addresses : y = a /\ (down' = down \/ Send(c, "ACK", y, x))
    BY <1>3, <2>4
  <2>6. /\ Acked(down'[c]) \subseteq IF IsRequest(m) THEN Acked(down[c]) \cup {a} ELSE Acked(down[c])
        /\ \A d \in Clients \ {c} : down'[d] = down[d]
    BY <1>4, <2>4, <2>5, SendAcked DEF IsRequest
  <2>7. /\ client_mac'[a] = c /\ \A d \in Pool \ {a} : client_mac'[d] = client_mac[d]
    BY <1>5, <2>1, <2>2
  <2>8. LeaseKnown'
    <3> SUFFICES ASSUME NEW d \in Clients, Holds(d) PROVE ip[d] \in Pool /\ client_mac'[ip[d]] = d
      BY <1>2 DEF LeaseKnown, Holds
    <3>1. ip[d] \in Pool /\ client_mac[ip[d]] = d
      BY DEF LeaseInv, LeaseKnown
    <3>2. CASE ip[d] = a
      BY <2>3, <2>7, <3>1, <3>2 DEF Past
    <3>3. CASE ip[d] # a
      BY <2>7, <3>1, <3>3
    <3> QED
      BY <3>2, <3>3
  <2>9. AcksKnown'
    <3> SUFFICES ASSUME NEW d \in Clients, NEW z \in Acked(down'[d])
                 PROVE  z \in Pool /\ client_mac'[z] = d
      BY DEF AcksKnown
    <3>1. CASE z \in Acked(down[d])
      <4>1. z \in Pool /\ client_mac[z] = d /\ Past(d)
        BY <3>1 DEF LeaseInv, AcksKnown, Past
      <4> QED
        BY <2>3, <2>7, <4>1
    <3>2. CASE d = c /\ z = a
      BY <2>1, <2>7, <3>2
    <3> QED
      BY <2>6, <3>1, <3>2
  <2>10. TablesAgree'
    BY <1>1, <2>1, <2>2, GrantMarks DEF LeaseInv
  <2>11. OfferUnused'
    BY <2>2, AddressesInUniverse DEF OfferUnused
  <2>12. \A d \in Clients : Orderly(d)'
    <3>1. ASSUME NEW d \in Clients \ {c} PROVE Orderly(d)'
      <4>1. Orderly(d)
        BY DEF LeaseInv
      <4> QED
        BY <1>2, <2>6, <4>1 DEF Orderly, Past, Holds
    <3>2. CASE IsRequest(m)
      <4>1. st[c] # "selecting" /\ NoAsks(up'[c])
        BY <1>1, <1>2, <3>2 DEF Orderly
      <4>2. Orderly(c)'
        BY <1>2, <4>1 DEF Orderly
      <4> QED
        BY <3>1, <4>2
    <3>3. CASE ~IsRequest(m)
      <4>1. Acked(down'[c]) \subseteq Acked(down[c])
        BY <2>6, <3>3
      <4>2. Orderly(c)'
        BY <1>1, <1>2, <4>1 DEF Orderly, Past, Holds
      <4> QED
        BY <3>1, <4>2
    <3> QED
      BY <3>2, <3>3
  <2> QED
    BY <2>8, <2>9, <2>10, <2>11, <2>12 DEF LeaseInv
<1> QED
  BY <1>6, <1>7

LEMMA RestartKeeps ==
  ASSUME DhcpsAssumption, LeaseInv, Types', Restart
  PROVE  LeaseInv'
<1>1. /\ client_mac' = [d \in Pool |-> None] /\ ip_range' = MarkLocal /\ UNCHANGED allocated
      /\ st' = [c \in Clients |-> "init"]
      /\ up' = [c \in Clients |-> <<>>] /\ down' = [c \in Clients |-> <<>>]
  BY DEF Restart
<1>2. \A c \in Clients : ~Holds(c)' /\ ~Past(c)' /\ Acked(down'[c]) = {} /\ Orderly(c)'
  BY <1>1, NothingSent DEF Holds, Past, Orderly
<1>3. TablesAgree'
  BY <1>1, LocalBits DEF TablesAgree, Marked, BitOf
<1> QED
  BY <1>2, <1>3 DEF LeaseInv, LeaseKnown, AcksKnown, OfferUnused

LEMMA InitLeases ==
  ASSUME DhcpsAssumption, Init
  PROVE  LeaseInv
<1>1. \A c \in Clients : ~Holds(c) /\ ~Past(c) /\ Acked(down[c]) = {} /\ Orderly(c)
  BY NothingSent DEF Init, Holds, Past, Orderly
<1>2. TablesAgree
  BY LocalBits DEF Init, TablesAgree, Marked, BitOf
<1> QED
  BY <1>1, <1>2, InitTypes DEF LeaseInv, LeaseKnown, AcksKnown, OfferUnused

LEMMA StutterKeeps == ASSUME LeaseInv, UNCHANGED vars PROVE LeaseInv'
<1>1. Types'
  BY StutterTypes DEF LeaseInv
<1>2. \A c \in Clients : Orderly(c)'
  BY DEF LeaseInv, vars, Orderly, Past, Holds
<1>3. LeaseKnown' /\ AcksKnown' /\ OfferUnused' /\ TablesAgree'
  BY DEF LeaseInv, vars, LeaseKnown, AcksKnown, OfferUnused, TablesAgree, Marked, Past, Holds
<1> QED
  BY <1>1, <1>2, <1>3 DEF LeaseInv

LEMMA LeasesStep ==
  ASSUME DhcpsAssumption, "bound" \notin InformIn, LeaseInv, [Next]_vars
  PROVE  LeaseInv'
<1>1. Types'
  BY TypesStep DEF LeaseInv
<1>2. CASE UNCHANGED vars
  BY <1>2, StutterKeeps
<1>3. CASE Restart
  BY <1>1, <1>3, RestartKeeps
<1>4. ASSUME NEW c \in Clients, Receive(c) PROVE LeaseInv'
  BY <1>1, <1>4, OfferKeeps, RequestKeeps DEF Receive
<1>5. ASSUME NEW c \in Clients, Listen(c) PROVE LeaseInv'
  BY <1>1, <1>5, ListenKeeps
<1>6. ASSUME NEW c \in Clients, ClientStep(c) PROVE LeaseInv'
  BY <1>1, <1>6, DiscoverKeeps, AskAgainKeeps, AskOnceMoreKeeps, GiveUpKeeps DEF ClientStep
<1>7. ASSUME NEW c \in Clients, Renew(c) \/ Leave(c) \/ Inform(c) \/ Drop(c) PROVE LeaseInv'
  BY <1>1, <1>7, RenewKeeps, LeaveKeeps, InformKeeps, DropKeeps
<1> QED
  BY <1>2, <1>3, <1>4, <1>5, <1>6, <1>7 DEF Next

LEMMA LeasesInvariant == DhcpsAssumption /\ "bound" \notin InformIn => (Spec => []LeaseInv)
<1> SUFFICES ASSUME DhcpsAssumption, "bound" \notin InformIn PROVE Spec => []LeaseInv
  OBVIOUS
<1>1. Init => LeaseInv
  BY InitLeases
<1>2. LeaseInv /\ [Next]_vars => LeaseInv'
  BY LeasesStep
<1> QED
  BY <1>1, <1>2, PTL DEF Spec

(* LeaseKnown of Dhcps, for any pool and any number of clients and mishaps,  *)
(* as long as no client asks for parameters only while it has a lease: what  *)
(* a client uses is what the server's table has it down for.                 *)
THEOREM LeaseKnownHolds == DhcpsAssumption /\ "bound" \notin InformIn => (Spec => []LeaseKnown)
<1>1. LeaseInv => LeaseKnown
  BY DEF LeaseInv
<1> QED
  BY <1>1, LeasesInvariant, PTL

(* UsedRefused of Dhcps, which the run DhcpUsed shows to be wrong when a     *)
(* client that is bound sends an INFORM: without that packet, an address in  *)
(* use is never given to another client.                                     *)
THEOREM UsedRefusedHolds == DhcpsAssumption /\ "bound" \notin InformIn => (Spec => UsedRefused)
<1> SUFFICES ASSUME DhcpsAssumption, "bound" \notin InformIn PROVE Spec => UsedRefused
  OBVIOUS
<1> DEFINE Used == \A d \in Pool, c \in Clients :
                     Holds(c) /\ ip[c] = d /\ client_mac[d] = c => client_mac'[d] \in {c, None}
<1>1. LeaseInv /\ [Next]_vars => [Used]_vars
  <2> SUFFICES ASSUME LeaseInv, [Next]_vars, NEW d \in Pool, NEW c \in Clients,
                      Holds(c), ip[c] = d, client_mac[d] = c, client_mac'[d] # c
               PROVE  client_mac'[d] = None
    OBVIOUS
  <2>1. CASE \E e \in Clients : Receive(e)
    <3>1. PICK e \in Clients : Receive(e)
      BY <2>1
    <3> DEFINE m == Head(up[e])
               a == Wanted(m)
    <3>2. HandleDiscover(e, m) \/ HandleOther(e, m) \/ HandleEnd(m) \/ HandleRequest(e, m)
      BY <3>1 DEF Receive
    <3> HIDE DEF m
    <3>3. /\ Granted(e, a) /\ client_mac' = [client_mac EXCEPT ![a] = e]
      BY <3>2 DEF HandleDiscover, HandleOther, HandleEnd, HandleRequest
    <3> HIDE DEF a
    <3>4. client_mac \in [Pool -> Clients \cup {None}]
      BY DEF LeaseInv, Types, ServerTypes
    <3>5. a = d /\ e # c
      BY <3>3, <3>4
    <3>6. allocated = d
      BY <3>3, <3>5 DEF Granted, Available, DhcpsAssumption
    <3> QED
      BY <3>6 DEF LeaseInv, OfferUnused, Past
  <2>2. CASE Restart
    BY <2>2 DEF Restart
  <2>3. CASE UNCHANGED client_mac
    BY <2>3
  <2>4. CASE UNCHANGED vars
    BY <2>3, <2>4 DEF vars
  <2>5. ASSUME NEW e \in Clients,
               Listen(e) \/ ClientStep(e) \/ Renew(e) \/ Leave(e) \/ Inform(e) \/ Drop(e)
        PROVE  UNCHANGED client_mac
    BY <2>5 DEF Listen, ClientStep, Discover, AskAgain, AskOnceMore, GiveUp, Renew, Leave, Inform, Drop,
                serverVars
  <2> QED
    BY <2>1, <2>2, <2>3, <2>4, <2>5 DEF Next
<1> QED
  BY <1>1, LeasesInvariant, PTL DEF Spec, UsedRefused

(* What only the server does to its table.                                   *)
LEMMA TablesStep ==
  ASSUME DhcpsAssumption, Types, TablesAgree, [Next]_vars
  PROVE  TablesAgree'
<1>1. CASE UNCHANGED <<ip_range, client_mac>>
  BY <1>1 DEF TablesAgree, Marked
<1>2. CASE Restart
  BY <1>2, LocalBits DEF Restart, TablesAgree, Marked, BitOf
<1>3. ASSUME NEW c \in Clients, Receive(c) PROVE TablesAgree'
  <2> DEFINE m == Head(up[c])
             a == Wanted(m)
  <2>1. HandleDiscover(c, m) \/ HandleOther(c, m) \/ HandleEnd(m) \/ HandleRequest(c, m)
    BY <1>3 DEF Receive
  <2>2. m \in Requests
    BY <1>3, MessageTypes DEF Receive, Types
  <2> HIDE DEF m
  <2>3. CASE /\ HandleRequest(c, m) /\ Granted(c, a)
    <3>1. ip_range' = Mark(ip_range, a) /\ client_mac' = [client_mac EXCEPT ![a] = c]
      BY <2>3 DEF HandleRequest
    <3>2. a \in Pool
      BY <2>2, <2>3, AskedTypes, GrantedTypes
    <3> QED
      BY <3>1, <3>2, GrantMarks
  <2>4. CASE ~ (HandleRequest(c, m) /\ Granted(c, a))
    BY <1>1, <2>1, <2>4 DEF HandleDiscover, HandleOther, HandleEnd, HandleRequest
  <2> QED
    BY <2>3, <2>4
<1>4. ASSUME NEW c \in Clients,
             Listen(c) \/ ClientStep(c) \/ Renew(c) \/ Leave(c) \/ Inform(c) \/ Drop(c)
      PROVE  TablesAgree'
  BY <1>1, <1>4 DEF Listen, ClientStep, Discover, AskAgain, AskOnceMore, GiveUp, Renew, Leave, Inform,
                    Drop, serverVars
<1>5. CASE UNCHANGED vars
  BY <1>1, <1>5 DEF vars
<1> QED
  BY <1>2, <1>3, <1>4, <1>5 DEF Next

(* TablesAgree of Dhcps, for words of any width, whatever clients do: the    *)
(* division that finds an address's bit gives each a bit of its own.         *)
THEOREM TablesAgreeHolds == DhcpsAssumption => (Spec => []TablesAgree)
<1> SUFFICES ASSUME DhcpsAssumption PROVE Spec => []TablesAgree
  OBVIOUS
<1>1. Init => TablesAgree
  BY LocalBits DEF Init, TablesAgree, Marked, BitOf
<1>2. Types /\ TablesAgree /\ [Next]_vars => TablesAgree'
  BY TablesStep
<1> QED
  BY <1>1, <1>2, TypesInvariant, PTL DEF Spec

-----------------------------------------------------------------------------
(* The server implements Leases: only an ACK that a client hears changes     *)
(* what it holds to something else than nothing.                             *)

LeaseOfAll == [c \in Clients |-> IF Holds(c) THEN ip[c] ELSE 0]

LEMMA ClientTakes ==
  ASSUME DhcpsAssumption, LeaseInv, LeaseInv', NEW c \in Clients, NEW a \in Pool, LeaseOfAll'[c] = a,
         \A d \in Clients \ {c} : LeaseOfAll'[d] = LeaseOfAll[d], UNCHANGED client_mac
  PROVE  L!Next
<1>1. Holds(c)' /\ ip'[c] = a
  <2>1. a # 0
    BY AddressesInUniverse
  <2> QED
    BY <2>1 DEF LeaseOfAll
<1>2. client_mac[a] = c
  BY <1>1 DEF LeaseInv, LeaseKnown
<1>4. \A d \in Clients \ {c} : LeaseOfAll[d] # a
  <2> SUFFICES ASSUME NEW d \in Clients \ {c}, LeaseOfAll[d] = a PROVE FALSE
    OBVIOUS
  <2>1. Holds(d) /\ ip[d] = a
    BY AddressesInUniverse DEF LeaseOfAll
  <2> QED
    BY <1>2, <2>1 DEF LeaseInv, LeaseKnown
<1>5. LeaseOfAll' = [LeaseOfAll EXCEPT ![c] = a]
  BY DEF LeaseOfAll
<1>6. L!Take(c, a)
  BY <1>4, <1>5 DEF L!Take, LeaseOfAll
<1> QED
  BY <1>6 DEF L!Next

LEMMA ClientsLose ==
  ASSUME \A d \in Clients : LeaseOfAll'[d] \in {LeaseOfAll[d], 0}
  PROVE  L!Next
<1> DEFINE cs == {d \in Clients : LeaseOfAll'[d] = 0}
<1>1. LeaseOfAll' = [c \in Clients |-> IF c \in cs THEN 0 ELSE LeaseOfAll[c]]
  BY DEF LeaseOfAll
<1>2. cs \in SUBSET Clients
  OBVIOUS
<1> HIDE DEF cs
<1>3. PICK x \in SUBSET Clients :
        LeaseOfAll' = [c \in Clients |-> IF c \in x THEN 0 ELSE LeaseOfAll[c]]
  BY <1>1, <1>2
<1> QED
  BY <1>3 DEF L!Next, L!Lose, LeaseOfAll

LEMMA LeasesRefined ==
  ASSUME DhcpsAssumption, LeaseInv, LeaseInv', [Next]_vars
  PROVE  [L!Next]_LeaseOfAll
<1>1. st \in [Clients -> States] /\ ip \in [Clients -> Addresses]
  BY DEF LeaseInv, Types, ClientTypes
<1>2. CASE UNCHANGED <<st, ip>>
  BY <1>2 DEF LeaseOfAll, Holds
<1>3. ASSUME NEW c \in Clients, Listen(c) PROVE [L!Next]_LeaseOfAll
  <2> DEFINE m == Head(down[c])
  <2>1. /\ UNCHANGED serverVars /\ down[c] # <<>> /\ down[c] \in Seq(Replies)
        /\ \/ /\ st[c] = "selecting"
              /\ st' = [st EXCEPT ![c] = "requesting"] /\ ip' = [ip EXCEPT ![c] = m.yi]
           \/ /\ m.xid = "now" /\ m.type = "ACK"
              /\ st' = [st EXCEPT ![c] = "bound"] /\ ip' = [ip EXCEPT ![c] = m.yi]
           \/ st' = [st EXCEPT ![c] = "init"] /\ ip' = [ip EXCEPT ![c] = 0]
           \/ UNCHANGED <<st, ip>>
    <3>1. Types
      BY DEF LeaseInv
    <3> QED
      BY <1>3, <3>1, ListenCases, MessageTypes DEF Types
  <2>2. m.type = "ACK" /\ m.xid = "now" => m.yi \in Pool
    BY <2>1, TailAcked DEF IsAck, LeaseInv, AcksKnown
  <2> HIDE DEF m
  <2>3. CASE st[c] = "selecting" /\ st' = [st EXCEPT ![c] = "requesting"] /\ ip' = [ip EXCEPT ![c] = m.yi]
    BY <1>1, <2>3, ClientsLose DEF LeaseOfAll, Holds
  <2>4. CASE /\ m.xid = "now" /\ m.type = "ACK"
             /\ st' = [st EXCEPT ![c] = "bound"] /\ ip' = [ip EXCEPT ![c] = m.yi]
    <3>1. PICK a \in Pool : a = m.yi
      BY <2>2, <2>4
    <3>2. LeaseOfAll'[c] = a /\ \A d \in Clients \ {c} : LeaseOfAll'[d] = LeaseOfAll[d]
      BY <1>1, <2>4, <3>1 DEF LeaseOfAll, Holds
    <3> QED
      BY <2>1, <3>2, ClientTakes DEF serverVars
  <2>5. CASE st' = [st EXCEPT ![c] = "init"] /\ ip' = [ip EXCEPT ![c] = 0]
    BY <1>1, <2>5, ClientsLose DEF LeaseOfAll, Holds
  <2> QED
    BY <1>2, <2>1, <2>3, <2>4, <2>5
<1>4. ASSUME NEW c \in Clients, GiveUp(c) \/ Leave(c) PROVE [L!Next]_LeaseOfAll
  <2>1. st' = [st EXCEPT ![c] = "init"] /\ ip' = [ip EXCEPT ![c] = 0]
    BY <1>4 DEF GiveUp, Leave
  <2> QED
    BY <1>1, <2>1, ClientsLose DEF LeaseOfAll, Holds
<1>5. ASSUME NEW c \in Clients, Discover(c) PROVE [L!Next]_LeaseOfAll
  <2>1. st[c] = "init" /\ st' = [st EXCEPT ![c] = "selecting"] /\ UNCHANGED ip
    BY <1>5 DEF Discover
  <2> QED
    BY <1>1, <2>1, ClientsLose DEF LeaseOfAll, Holds
<1>6. ASSUME NEW c \in Clients, AskAgain(c) PROVE [L!Next]_LeaseOfAll
  <2>1. st[c] = "init" /\ st' = [st EXCEPT ![c] = "requesting"] /\ ip' = [ip EXCEPT ![c] = last[c]]
    BY <1>6 DEF AskAgain
  <2> QED
    BY <1>1, <2>1, ClientsLose DEF LeaseOfAll, Holds
<1>7. ASSUME NEW c \in Clients, Renew(c) PROVE [L!Next]_LeaseOfAll
  <2>1. st[c] = "bound" /\ st' = [st EXCEPT ![c] = "renewing"] /\ UNCHANGED ip
    BY <1>7 DEF Renew
  <2> QED
    BY <1>1, <2>1, ClientsLose DEF LeaseOfAll, Holds
<1>8. CASE Restart
  <2>1. st' = [c \in Clients |-> "init"]
    BY <1>8 DEF Restart
  <2> QED
    BY <2>1, ClientsLose DEF LeaseOfAll, Holds
<1>9. ASSUME NEW c \in Clients, Receive(c) \/ AskOnceMore(c) \/ Inform(c) \/ Drop(c)
      PROVE  [L!Next]_LeaseOfAll
  BY <1>2, <1>9 DEF Receive, AskOnceMore, Inform, Drop
<1>10. CASE UNCHANGED vars
  BY <1>2, <1>10 DEF vars
<1> QED
  BY <1>3, <1>4, <1>5, <1>6, <1>7, <1>8, <1>9, <1>10 DEF Next, ClientStep

(* LeasesSpec of Dhcps: no two clients ever use one address, for any pool    *)
(* and any number of clients, packets and mishaps, as long as no client      *)
(* sends an INFORM while it has a lease.                                     *)
THEOREM LeasesSpecHolds == DhcpsAssumption /\ "bound" \notin InformIn => (Spec => LeasesSpec)
<1> SUFFICES ASSUME DhcpsAssumption, "bound" \notin InformIn PROVE Spec => LeasesSpec
  OBVIOUS
<1>1. Init => L!Init
  BY DEF Init, L!Init, Holds
<1>2. LeaseInv /\ LeaseInv' /\ [Next]_vars => [L!Next]_LeaseOfAll
  BY LeasesRefined
<1> QED
  BY <1>1, <1>2, LeasesInvariant, PTL DEF Spec, LeasesSpec, L!Spec, LeaseOfAll
=============================================================================
