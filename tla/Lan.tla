-------------------------------- MODULE Lan ---------------------------------
(***************************************************************************)
(* Hosts that run ethernet.c, ethernet_ip.c, ip.c and udp.c on one         *)
(* Ethernet.  The thread that takes a frame is more urgent than those of   *)
(* the applications (0x90 against 0xf8 in the test programs), so a frame   *)
(* is handled in one action up to the call of a client, and the client's   *)
(* callback is the next one.  The Ethernet keeps its order and loses       *)
(* frames.                                                                 *)
(***************************************************************************)
EXTENDS Ip

CONSTANTS
  Hosts,         \* the hosts, by number
  Others,        \* those that run other code (external), right in what differs here
  Senders,       \* those whose applications send, attach and detach
  Gateway,       \* the host that is the default gateway
  Local,         \* the route to the Ethernet's own network
  Routes,        \* the routes that may be added later
  Routers,       \* the hosts where they are added
  Destinations,  \* where applications send to
  Kinds,         \* what they send: of "ip", "icmp" and "udp"
  MaxSends,      \* bound: packets that applications send
  MaxQueue,      \* bound: frames under way to a host when they do
  MaxFaults      \* bound: frames that are lost

Entries == [network : BOOLEAN, addr : Nat, bits : Nat, gateway : Nat \X {0, 1}]

LanAssumption ==
  /\ Local \in Entries /\ Routes \subseteq Entries /\ Gateway \in Nat
  /\ Clients \subseteq {"ip", "icmp", "udp"} \X Nat /\ <<"ip", UDP>> \in Clients

VARIABLES
  host,          \* the instances of each host
  lan,           \* the frames under way to each host, oldest first
  sends,         \* packets sent so far
  faults         \* frames lost so far

vars == <<host, lan, sends, faults>>

-----------------------------------------------------------------------------

\* The device (external): every other host takes a broadcast.
Reaches(f, h) == f.src # h /\ f.dst \in {broadcast_mac, h}

\* Another host's ARP reply (external) names the address that asked as it came.
Ordered(h, f) ==
  IF h \in Others /\ f.type = "arp" THEN [f EXCEPT !.p.dest_ip = <<@[1], 1>>] ELSE f

\* Host h has become s, and what it sends is under way.
Commit(h, s, frames) ==
  /\ host' = [host EXCEPT ![h] = [s EXCEPT !.out = <<>>]]
  /\ lan' = [g \in Hosts |->
               frames[g] \o SelectSeq([i \in 1..Len(s.out) |-> Ordered(h, s.out[i])],
                                     LAMBDA f : Reaches(f, g))]

Receive(h) ==
  /\ lan[h] # <<>> /\ host[h].call = {}
  /\ Commit(h, ethernet_recv_netbuf(host[h], Head(lan[h])), [lan EXCEPT ![h] = Tail(@)])
  /\ UNCHANGED <<sends, faults>>

\* The callback of a client returns.
Callback(h) ==
  /\ host[h].call # {}
  /\ Commit(h, Return(host[h]), lan)
  /\ UNCHANGED <<sends, faults>>

\* An application sends, from a thread of its own or from a callback.
Send(h, dest_addr) ==
  /\ sends < MaxSends /\ \A g \in Hosts : Len(lan[g]) < MaxQueue
  /\ sends' = sends + 1
  /\ \/ "ip" \in Kinds /\ Commit(h, ip_send_netbuf(host[h], dest_addr, 6), lan)
     \/ "icmp" \in Kinds /\ Commit(h, icmp_send_netbuf(host[h], dest_addr, 8), lan)
     \/ "udp" \in Kinds /\ Commit(h, udp_send_netbuf(host[h], dest_addr, 7), lan)
  /\ UNCHANGED faults

\* Each client is one structure: it is attached again when nobody uses it.
AttachClient(h, c) ==
  /\ host[h].refs[c] = 0
  /\ Commit(h, CASE c[1] = "ip" -> ip_client_attach(host[h], c[2])
                 [] c[1] = "icmp" -> icmp_client_attach(host[h], c[2])
                 [] c[1] = "udp" -> udp_client_attach(host[h], c[2]), lan)
  /\ UNCHANGED <<sends, faults>>

\* A client may be detached while it is called: by its callback, or by a thread
\* that runs when the callback waits for something.
DetachClient(h, c) ==
  /\ c \in host[h].clients
  /\ Commit(h, CASE c[1] = "ip" -> ip_client_detach(host[h], c[2])
                 [] c[1] = "icmp" -> icmp_client_detach(host[h], c[2])
                 [] c[1] = "udp" -> udp_client_detach(host[h], c[2]), lan)
  /\ UNCHANGED <<sends, faults>>

\* The caller has made a route of its own.
AddRoute(h, r) ==
  /\ \A i \in 1..Len(host[h].routes) : host[h].routes[i] # r
  /\ Commit(h, [host[h] EXCEPT !.routes = ip_route_add(@, r)], lan)
  /\ UNCHANGED <<sends, faults>>

Lose(h) ==
  /\ lan[h] # <<>> /\ faults < MaxFaults
  /\ lan' = [lan EXCEPT ![h] = Tail(@)]
  /\ faults' = faults + 1
  /\ UNCHANGED <<host, sends>>

Start(h) == ip_instance_alloc(ethernet_ip_instance_alloc(h, Local, Addr(Gateway)))

\* The gateway has no UDP.
Init ==
  /\ host = [h \in Hosts |-> IF h = Gateway THEN Start(h) ELSE udp_instance_alloc(Start(h))]
  /\ lan = [h \in Hosts |-> <<>>]
  /\ sends = 0
  /\ faults = 0

Next ==
  \E h \in Hosts :
    \/ Receive(h)
    \/ Callback(h)
    \/ Lose(h)
    \/ h \in Senders /\ \E n \in Destinations : Send(h, hton32(Addr(n)))
    \/ h \in Senders /\ \E c \in Clients \ {<<"ip", UDP>>} : AttachClient(h, c) \/ DetachClient(h, c)
    \/ h \in Routers /\ \E r \in Routes : AddRoute(h, r)

Spec == Init /\ [][Next]_vars

-----------------------------------------------------------------------------
(***************************************************************************)
(* Properties                                                              *)
(***************************************************************************)

\* ip_route_add() keeps the list such that the first match of ip_route_find()
\* is as specific as any: a host's own route before a network's, a small
\* network before a large one.
RoutesSpecific ==
  \A h \in Hosts : \A n \in Destinations :
    LET matching == {r \in {host[h].routes[i] : i \in 1..Len(host[h].routes)} : Matches(r, n)}
    IN  /\ ip_route_find(host[h].routes, n) = {} <=> matching = {}
        /\ \A r \in ip_route_find(host[h].routes, n), q \in matching :
             r.network => q.network /\ q.bits <= r.bits

\* ip_arp_recv_netbuf() learns what the sender of a request or reply says of
\* itself, which is so for every host here, and an address has one slot: no entry
\* mixes two senders and no address is looked up in a slot that is out of date.
ArpTrue ==
  \A h \in Hosts : \A i \in Slots :
    LET slot == host[h].arp_cache[i]
    IN  slot.ip # Zero => slot.ip = Addr(slot.mac) /\ SlotsOf(host[h], slot.ip) = {i}

\* The cache holds the addresses that were used last, however finds and
\* additions alternate: what ip_arp_cache_add() overwrites is the least recently
\* used, up to the use whose age is 0 again.  From then on an entry in use counts
\* as older than one that is not, and the author says of the function that
\* "I know this is wrong" and "the age bit's screwed up".
ArpKeepsRecent ==
  \A h \in Hosts : host[h].uses <= MAX_AGE + 1 =>
    {host[h].arp_cache[i].ip : i \in Slots} \ {Zero}
      = {host[h].recent[i] : i \in 1..Min({Len(host[h].recent), ARP_CACHE_SLOTS})}

\* Hosts never keep each other busy: a packet of an application provokes at most
\* an answer or an error, the ARP request for it and the reply to that, and no
\* message about an error.
ProvokesLittle == \A h \in Hosts : \A i \in 1..Len(lan[h]) : lan[h][i].depth <= 3

\* A client has one reference for its list and one while it is called, so that a
\* client that is detached while it is called, by its callback or by another
\* thread, is freed when the callback returns and not before.
ClientRefsExact ==
  \A h \in Hosts : \A c \in Clients :
    host[h].refs[c] = (IF c \in host[h].clients THEN 1 ELSE 0)
                        + (IF c \in host[h].call THEN 1 ELSE 0)

\* "If we don't know where this packet should go to then it's time to find out":
\* a host that is sent the reply to its ARP request knows the sender then.
ReplyLearnt ==
  [][\A h \in Hosts :
       /\ lan[h] # <<>> /\ Len(lan'[h]) < Len(lan[h]) /\ faults' = faults
       /\ Head(lan[h]).type = "arp" /\ Head(lan[h]).p.op = 2
       => SlotsOf(host'[h], Addr(Head(lan[h]).src)) # {}]_vars

=============================================================================
