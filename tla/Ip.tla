--------------------------------- MODULE Ip ---------------------------------
(***************************************************************************)
(* ip.c and udp.c as operators on the record of a host: IP, ICMP and UDP   *)
(* from the frame up to the call of the client that the packet is for.     *)
(* The clients of a host are pairs of a layer and the protocol, the        *)
(* message type or the port that the layer knows them by.  Packets keep    *)
(* their addresses in network order.  Versions, lengths and checksums are  *)
(* always right here.                                                      *)
(***************************************************************************)
EXTENDS EthernetIp

CONSTANT Clients      \* the clients there may be on a host

ICMP == 1
UDP == 17

\* The record with the fields of both.
Joined(r, s) == [f \in DOMAIN r \cup DOMAIN s |-> IF f \in DOMAIN r THEN r[f] ELSE s[f]]

ip_instance_alloc(link) ==
  Joined(link, [clients |-> {}, refs |-> [c \in Clients |-> 0], call |-> {}])

-----------------------------------------------------------------------------
(***************************************************************************)
(* Sending.                                                                *)
(***************************************************************************)

\* What a packet carries: the message type and the protocol that an ICMP message
\* is about, the port of a UDP one.
Body(type, about, port) == [type |-> type, about |-> about, port |-> port]

ip_issue_netbuf(s, dest_addr, protocol, body, depth) ==
  ethernet_ip_send_netbuf(s,
    Joined(body, [src |-> hton32(s.addr), dst |-> dest_addr, protocol |-> protocol]), depth)

icmp_issue_netbuf(s, dest_addr, type, about, depth) ==
  ip_issue_netbuf(s, dest_addr, ICMP, Body(type, about, 0), depth)

ip_send_netbuf(s, dest_addr, protocol) == ip_issue_netbuf(s, dest_addr, protocol, Body(0, 0, 0), 0)

icmp_send_netbuf(s, dest_addr, type) == icmp_issue_netbuf(s, dest_addr, type, 0, 0)

udp_send_netbuf(s, dest_addr, port) == ip_issue_netbuf(s, dest_addr, UDP, Body(0, 0, port), 0)

-----------------------------------------------------------------------------
(***************************************************************************)
(* Clients.  The three lists are searched for their key, so that a key is  *)
(* on its list at most once.  The list has a reference to the client, and  *)
(* the application gives up its own once it has attached it.               *)
(***************************************************************************)

Attach(s, c) ==
  IF c \in s.clients THEN s
  ELSE [s EXCEPT !.clients = @ \cup {c}, !.refs[c] = @ + 1]

Detach(s, c) ==
  IF c \notin s.clients THEN s
  ELSE [s EXCEPT !.clients = @ \ {c}, !.refs[c] = @ - 1]

ip_client_attach(s, protocol) == Attach(s, <<"ip", protocol>>)

ip_client_detach(s, protocol) == Detach(s, <<"ip", protocol>>)

\* Clients may have the answers to echo, timestamp and address mask requests.
icmp_client_attach(s, type) ==
  IF type \notin {0, 13, 17} THEN s ELSE Attach(s, <<"icmp", type>>)

icmp_client_detach(s, type) == Detach(s, <<"icmp", type>>)

udp_client_attach(s, port) == Attach(s, <<"udp", port>>)

udp_client_detach(s, port) == Detach(s, <<"udp", port>>)

udp_instance_alloc(s) == ip_client_attach(s, UDP)

\* A slip: the clients that are called have no references of their own.
MutCall(s, callees) == [s EXCEPT !.call = callees]

\* Clients are called without the lock, each with a reference of its own: one, or
\* UDP as a client of IP and from there a client of UDP ...
Call(s, callees) ==
  [s EXCEPT !.refs = [c \in Clients |-> @[c] + (IF c \in callees THEN 1 ELSE 0)],
            !.call = callees]

\* ... which is given up when they return.
Return(s) ==
  [s EXCEPT !.refs = [c \in Clients |-> @[c] - (IF c \in s.call THEN 1 ELSE 0)],
            !.call = {}]

-----------------------------------------------------------------------------
(***************************************************************************)
(* Receiving.                                                              *)
(***************************************************************************)

udp_recv_netbuf(s, p, depth) ==
  IF <<"udp", p.port>> \in s.clients
  THEN Call(s, {<<"ip", UDP>>, <<"udp", p.port>>})
  ELSE icmp_issue_netbuf(s, p.src, 3, UDP, depth + 1)

\* Of the clients of IP only UDP has no ic_recv_icmp.
icmp_recv_netbuf_notify_transport(s, p) ==
  IF <<"ip", p.about>> \in s.clients /\ p.about # UDP THEN Call(s, {<<"ip", p.about>>}) ELSE s

icmp_recv_netbuf_echo_request(s, p, depth) == icmp_issue_netbuf(s, p.src, 0, 0, depth + 1)

icmp_recv_netbuf_default(s, p) ==
  IF <<"icmp", p.type>> \in s.clients THEN Call(s, {<<"icmp", p.type>>}) ELSE s

\* A slip: an echo reply is answered like a request.
MutIcmpRecv(s, p, depth) ==
  CASE p.type \in {3, 4, 11, 12} -> icmp_recv_netbuf_notify_transport(s, p)
    [] p.type \in {0, 8} -> icmp_recv_netbuf_echo_request(s, p, depth)
    [] OTHER -> icmp_recv_netbuf_default(s, p)

icmp_recv_netbuf(s, p, depth) ==
  CASE p.type \in {3, 4, 11, 12} -> icmp_recv_netbuf_notify_transport(s, p)
    [] p.type = 8 -> icmp_recv_netbuf_echo_request(s, p, depth)
    [] OTHER -> icmp_recv_netbuf_default(s, p)

ip_recv_netbuf(s, p, depth) ==
  CASE hton32(p.dst) # s.addr -> s
    [] hton32(p.dst) = s.addr /\ p.protocol = ICMP -> icmp_recv_netbuf(s, p, depth)
    [] OTHER ->
         IF <<"ip", p.protocol>> \notin s.clients
         THEN icmp_issue_netbuf(s, p.src, 3, p.protocol, depth + 1)
         ELSE IF p.protocol = UDP
              THEN udp_recv_netbuf(s, p, depth)
              ELSE Call(s, {<<"ip", p.protocol>>})

\* Both types of frame have a client from the start.
ethernet_recv_netbuf(s, f) ==
  IF f.type = "arp" THEN ip_arp_recv_netbuf(s, f) ELSE ip_recv_netbuf(s, f.p, f.depth)

=============================================================================
