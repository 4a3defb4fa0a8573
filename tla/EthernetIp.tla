----------------------------- MODULE EthernetIp -----------------------------
(***************************************************************************)
(* ethernet_ip.c: the ARP cache, the routes and the choice of the frame's  *)
(* destination, as operators on the record of a host, and ethernet.c's     *)
(* frames.  An address is a pair of a W bit number and the order of its    *)
(* octets: 0 for the order of the CPU, 1 for that of the network.  Both    *)
(* CPUs are little endian, so the two differ.  A MAC address is the number *)
(* of its host.  Frames gather in the field out.                           *)
(***************************************************************************)
EXTENDS Integers, Sequences, FiniteSets, FiniteSetsExt

CONSTANTS
  W,                  \* bits of an address, 32 in the code
  ARP_CACHE_SLOTS,    \* slots of the cache, 8 in the code
  MAX_AGE             \* the largest age of an entry, 0xffffffff in the code

broadcast_mac == 0

\* The bytes of an address change their order.
hton32(a) == <<a[1], 1 - a[2]>>

Addr(n) == <<n, 0>>

\* The address 0.0.0.0: an unused slot of the cache, or a route without gateway.
Zero == Addr(0)

-----------------------------------------------------------------------------
(***************************************************************************)
(* Routes.  A netmask is the number of its leading ones, and a larger      *)
(* netmask has more of them.                                               *)
(***************************************************************************)

Network(n, bits, gateway) == [network |-> TRUE, addr |-> n, bits |-> bits, gateway |-> gateway]
Host(n, gateway) == [network |-> FALSE, addr |-> n, bits |-> W, gateway |-> gateway]

\* A slip: a network does not pass the hosts.
MutIpRouteAdd(routes, r) ==
  LET passed(i) == routes[i].network /\ routes[i].bits > r.bits
      n == IF r.network
           THEN Max({k \in 0..Len(routes) : \A i \in 1..k : passed(i)}) ELSE 0
  IN  SubSeq(routes, 1, n) \o <<r>> \o SubSeq(routes, n + 1, Len(routes))

\* A host goes to the head of the list, a network behind the hosts and the
\* networks with a larger netmask.
ip_route_add(routes, r) ==
  LET passed(i) == ~ routes[i].network \/ routes[i].bits > r.bits
      n == IF r.network
           THEN Max({k \in 0..Len(routes) : \A i \in 1..k : passed(i)}) ELSE 0
  IN  SubSeq(routes, 1, n) \o <<r>> \o SubSeq(routes, n + 1, Len(routes))

\* (ip & irn_netmask) == irn_addr, or the address of a host
Matches(r, n) ==
  IF r.network THEN n - (n % (2^(W - r.bits))) = r.addr ELSE n = r.addr

\* The first route of the list that matches, as a set of at most one.
ip_route_find(routes, n) ==
  LET matching == {i \in 1..Len(routes) : Matches(routes[i], n)}
  IN  IF matching = {} THEN {} ELSE {routes[Min(matching)]}

-----------------------------------------------------------------------------
(***************************************************************************)
(* The ARP cache.  The age of an entry is the number of its last use, in   *)
(* 0..MAX_AGE.                                                             *)
(***************************************************************************)

Slots == 1..ARP_CACHE_SLOTS

SlotsOf(s, a) == {i \in Slots : s.arp_cache[i].ip = a}

Older(age) == (age + 1) % (MAX_AGE + 1)

Oldest(s) ==
  Min({i \in Slots : \A j \in Slots : s.arp_cache[i].age <= s.arp_cache[j].age})

\* A slip: an address that is known gets a second slot.
MutIpArpCacheAdd(s, mac, a) ==
  [s EXCEPT !.arp_cache[Oldest(s)] = [ip |-> a, mac |-> mac, age |-> s.ip_arp_age],
            !.ip_arp_age = Older(@)]

ip_arp_cache_add(s, mac, a) ==
  LET i == IF SlotsOf(s, a) # {} THEN Min(SlotsOf(s, a)) ELSE Oldest(s)
  IN  [s EXCEPT !.arp_cache[i] = [ip |-> a, mac |-> mac, age |-> s.ip_arp_age],
                !.ip_arp_age = Older(@)]

\* A slip: the use of an entry does not make it young.
MutIpArpCacheFind(s, a) == s

\* The host after a successful search: the entry is young again.
ip_arp_cache_find(s, a) ==
  [s EXCEPT !.arp_cache[Min(SlotsOf(s, a))].age = s.ip_arp_age, !.ip_arp_age = Older(@)]

-----------------------------------------------------------------------------
(***************************************************************************)
(* Frames.  depth is how many frames provoked each other, up to this one.  *)
(***************************************************************************)

ethernet_send_netbuf(s, dest_mac, type, p, depth) ==
  [s EXCEPT !.out = Append(@, [dst |-> dest_mac, src |-> s.mac, type |-> type,
                               p |-> p, depth |-> depth])]

ip_arp_request(s, a, depth) ==
  ethernet_send_netbuf(s, broadcast_mac, "arp",
    [op |-> 1, src_ip |-> hton32(s.addr), dest_ip |-> hton32(a)], depth)

ip_arp_recv_request(s, f) ==
  ethernet_send_netbuf(s, f.src, "arp",
    [op |-> 2, src_ip |-> hton32(s.addr), dest_ip |-> hton32(f.p.src_ip)], f.depth + 1)

\* The addresses in the order of their last use, and the number of uses, for
\* ArpKeepsRecent.
Used(s, a) ==
  [s EXCEPT !.recent = <<a>> \o SelectSeq(@, LAMBDA b : b # a), !.uses = @ + 1]

ip_arp_recv_netbuf(s, f) ==
  LET a == hton32(f.p.src_ip)
      known == ip_arp_cache_add(Used(s, a), f.src, a)
  IN  CASE hton32(f.p.dest_ip) # s.addr -> s
        [] hton32(f.p.dest_ip) = s.addr /\ f.p.op = 1 -> ip_arp_recv_request(known, f)
        [] OTHER -> known

\* The host that a packet by the route in rt goes to next.
NextHop(rt, dest) ==
  LET r == CHOOSE x \in rt : TRUE
  IN  IF r.gateway # Zero THEN r.gateway ELSE dest

\* The packet goes to the gateway of its route or to its destination, if the
\* cache knows it; otherwise it is dropped for a request.
ethernet_ip_send_netbuf(s, p, depth) ==
  LET dest == hton32(p.dst)
      rt == ip_route_find(s.routes, dest[1])
      addr == NextHop(rt, dest)
  IN  IF rt = {} THEN s
      ELSE IF SlotsOf(s, addr) # {}
           THEN ethernet_send_netbuf(ip_arp_cache_find(Used(s, addr), addr),
                  s.arp_cache[Min(SlotsOf(s, addr))].mac, "ip", p, depth)
           ELSE ip_arp_request(s, addr, depth + 1)

\* local and gateway stand for the network and the default gateway in the code.
ethernet_ip_instance_alloc(n, local, gateway) ==
  [mac |-> n, addr |-> Addr(n), out |-> <<>>, recent |-> <<>>, uses |-> 0,
   ip_arp_age |-> 1,
   arp_cache |-> [i \in Slots |-> [ip |-> Zero, mac |-> 0, age |-> 0]],
   routes |-> ip_route_add(ip_route_add(<<>>, local), Network(0, 0, gateway))]

=============================================================================
