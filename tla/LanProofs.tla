----------------------------- MODULE LanProofs ------------------------------
(***************************************************************************)
(* The routes of a host, whatever is added to them and whatever the host   *)
(* receives, sends and calls: ip_route_find() takes a most specific route. *)
(***************************************************************************)
EXTENDS Lan, SeqLemmas

\* q may follow r on the list: it is no more specific.
MayFollow(r, q) == r.network => q.network /\ q.bits <= r.bits

BySpecificity(routes) ==
  /\ routes \in Seq(Entries)
  /\ \A i, j \in 1..Len(routes) : i < j => MayFollow(routes[i], routes[j])

\* t is the record of a host with the routes of s.
SameRoutes(s, t) == "routes" \in DOMAIN t /\ t.routes = s.routes

IInv ==
  /\ DOMAIN host = Hosts
  /\ \A h \in Hosts : "routes" \in DOMAIN host[h] /\ BySpecificity(host[h].routes)

-----------------------------------------------------------------------------
(***************************************************************************)
(* Lists of routes                                                         *)
(***************************************************************************)

\* The maximum of a set of naturals below a bound.
LEMMA MaxOf ==
  ASSUME NEW n \in Nat, NEW S \in SUBSET (0..n), S # {}
  PROVE  Max(S) \in S /\ \A k \in S : k <= Max(S)
<1> DEFINE T == {i \in Nat : n - i \in S}
<1>1. PICK s \in S : s \in 0..n
  OBVIOUS
<1>2. n - s \in T
  <2>1. n - s \in Nat /\ n - (n - s) = s
    BY <1>1
  <2> QED
    BY <2>1
<1>3. PICK i \in T : \A k \in T : i <= k
  BY <1>2, LeastNat
<1>4. \A k \in S : n - i >= k
  <2> SUFFICES ASSUME NEW k \in S PROVE n - i >= k
    OBVIOUS
  <2>1. k \in 0..n /\ n - k \in Nat /\ n - (n - k) = k
    OBVIOUS
  <2>2. n - k \in T
    BY <2>1
  <2>3. i <= n - k
    BY <2>2, <1>3
  <2> QED
    BY <2>1, <2>3
<1>5. n - i \in S
  OBVIOUS
<1>6. \E x \in S : \A y \in S : x >= y
  BY <1>4, <1>5
<1>7. Max(S) \in S /\ \A y \in S : Max(S) >= y
  BY <1>6, Zenon DEF Max
<1> QED
  BY <1>7

\* The minimum of a set of naturals.
LEMMA MinOf ==
  ASSUME NEW S \in SUBSET Nat, S # {}
  PROVE  Min(S) \in S /\ \A k \in S : Min(S) <= k
<1>1. \E x \in S : \A y \in S : x =< y
  BY LeastNat
<1> QED
  BY <1>1, Zenon DEF Min

\* The entries of a list of routes are routes.
LEMMA EntryTyped ==
  /\ \A e \in Entries : e.network \in BOOLEAN /\ e.bits \in Nat
  /\ \A q \in Seq(Entries) : \A i \in 1..Len(q) : q[i].network \in BOOLEAN /\ q[i].bits \in Nat
<1>1. \A e \in Entries : e.network \in BOOLEAN /\ e.bits \in Nat
  BY DEF Entries
<1>2. \A q \in Seq(Entries) : \A i \in 1..Len(q) : q[i] \in Entries
  BY ElementOfSeq
<1> QED
  BY <1>1, <1>2, Zenon

\* A list with e linked in behind its first n entries.
LEMMA LinkedBehind ==
  ASSUME NEW S, NEW q \in Seq(S), NEW e \in S, NEW n \in Nat
  PROVE  LinkAt(q, n + 1, e) = SubSeq(q, 1, n) \o <<e>> \o SubSeq(q, n + 1, Len(q))
<1> DEFINE k == n + 1
<1>1. n = k - 1
  OBVIOUS
<1>2. LinkAt(q, k, e) = SubSeq(q, 1, k - 1) \o <<e>> \o SubSeq(q, k, Len(q))
  <2> HIDE DEF k
  <2> QED
    BY Zenon DEF LinkAt
<1> HIDE DEF k
<1>3. LinkAt(q, k, e) = SubSeq(q, 1, n) \o <<e>> \o SubSeq(q, k, Len(q))
  BY <1>1, <1>2, Zenon
<1> QED
  BY <1>3, Zenon DEF k

\* ip_route_add() puts a route behind all that must come before it.
LEMMA RouteAdded ==
  ASSUME NEW routes, BySpecificity(routes), NEW r \in Entries
  PROVE  BySpecificity(ip_route_add(routes, r))
<1> DEFINE passed(i) == ~ routes[i].network \/ routes[i].bits > r.bits
           K == {k \in 0..Len(routes) : \A i \in 1..k : passed(i)}
           n == IF r.network THEN Max(K) ELSE 0
           new == LinkAt(routes, n + 1, r)
<1>1. routes \in Seq(Entries) /\ Len(routes) \in Nat
  BY DEF BySpecificity
<1>2. K \in SUBSET (0..Len(routes)) /\ 0 \in K
  BY <1>1
<1>3. Max(K) \in K /\ \A k \in K : k <= Max(K)
  <2> HIDE DEF K
  <2> QED
    BY <1>1, <1>2, MaxOf
<1>4. n \in 0..Len(routes)
  BY <1>1, <1>2, <1>3
<1>5. ip_route_add(routes, r) = new
  <2>1. ip_route_add(routes, r) = SubSeq(routes, 1, n) \o <<r>> \o SubSeq(routes, n + 1, Len(routes))
    BY Zenon DEF ip_route_add
  <2>2. n \in Nat
    BY <1>4
  <2> HIDE DEF n
  <2> QED
    BY <1>1, <2>1, <2>2, LinkedBehind
<1>6. /\ r.bits \in Nat
      /\ \A i \in 1..Len(routes) : routes[i].bits \in Nat
  BY <1>1, EntryTyped
<1>7. \A i \in 1..n : MayFollow(routes[i], r)
  <2>1. CASE r.network
    <3>1. n \in K
      BY <2>1, <1>3
    <3>2. \A i \in 1..n : passed(i)
      BY <3>1
    <3>3. \A i \in 1..n : i \in 1..Len(routes)
      BY <1>1, <1>4
    <3> HIDE DEF n
    <3> QED
      BY <1>6, <2>1, <3>2, <3>3 DEF MayFollow
  <2>2. CASE ~ r.network
    BY <2>2
  <2> QED
    BY <2>1, <2>2
<1>8. \A j \in n + 1..Len(routes) : MayFollow(r, routes[j])
  <2>1. CASE ~ r.network
    BY <2>1 DEF MayFollow
  <2>2. CASE r.network
    <3> SUFFICES ASSUME NEW j \in n + 1..Len(routes)
                 PROVE  MayFollow(r, routes[j])
      OBVIOUS
    <3>1. n = Max(K) /\ n + 1 \in 1..Len(routes) /\ j \in 1..Len(routes)
      BY <1>1, <1>4, <2>2
    <3>2. ~ passed(n + 1)
      <4> SUFFICES ASSUME passed(n + 1) PROVE FALSE
        OBVIOUS
      <4>1. \A i \in 1..n : passed(i)
        BY <1>3, <3>1
      <4>2. \A i \in 1..n + 1 : i \in 1..n \/ i = n + 1
        BY <1>4
      <4>3. n + 1 \in K
        <5>1. n + 1 \in 0..Len(routes)
          BY <1>4, <3>1
        <5> HIDE DEF n, passed
        <5>2. \A i \in 1..n + 1 : passed(i)
          BY <4>1, <4>2
        <5> QED
          BY <5>1, <5>2
      <4>4. n + 1 <= Max(K)
        BY <4>3, <1>3, Zenon
      <4> QED
        BY <4>4, <1>4, <3>1
    <3>3. routes[n + 1].network /\ routes[n + 1].bits <= r.bits
      BY <3>1, <3>2, <1>6
    <3>4. n + 1 = j \/ MayFollow(routes[n + 1], routes[j])
      BY <1>4, <3>1 DEF BySpecificity
    <3> QED
      BY <3>1, <3>3, <3>4, <1>6 DEF MayFollow
  <2> QED
    BY <2>1, <2>2
<1> HIDE DEF n, K
<1>9. /\ new \in Seq(Entries)
      /\ Len(new) = Len(routes) + 1
      /\ \A i \in 1..n : new[i] = routes[i]
      /\ new[n + 1] = r
      /\ \A i \in n + 2..Len(routes) + 1 : new[i] = routes[i - 1]
  <2>1. n + 1 \in 1..Len(routes) + 1 /\ n + 1 - 1 = n /\ n + 1 + 1 = n + 2
    BY <1>1, <1>4
  <2> DEFINE k == n + 1
  <2>2. /\ LinkAt(routes, k, r) \in Seq(Entries)
        /\ Len(LinkAt(routes, k, r)) = Len(routes) + 1
        /\ \A i \in 1..k - 1 : LinkAt(routes, k, r)[i] = routes[i]
        /\ LinkAt(routes, k, r)[k] = r
        /\ \A i \in k + 1..Len(routes) + 1 : LinkAt(routes, k, r)[i] = routes[i - 1]
    <3>1. k \in 1..Len(routes) + 1
      BY <2>1
    <3> HIDE DEF k
    <3> QED
      BY <1>1, <3>1, LinkAtProperties
  <2>3. k - 1 = n /\ k + 1 = n + 2 /\ k = n + 1 /\ new = LinkAt(routes, k, r)
    <3>1. k - 1 = n /\ k + 1 = n + 2 /\ k = n + 1
      BY <1>1, <1>4
    <3>2. new = LinkAt(routes, k, r)
      BY Zenon
    <3> QED
      BY <3>1, <3>2, Zenon
  <2> HIDE DEF k, new
  <2>4. new \in Seq(Entries) /\ Len(new) = Len(routes) + 1 /\ new[n + 1] = r
    BY <2>2, <2>3
  <2>5. \A i \in 1..n : new[i] = routes[i]
    BY <2>2, <2>3
  <2>6. \A i \in n + 2..Len(routes) + 1 : new[i] = routes[i - 1]
    BY <2>2, <2>3
  <2> QED
    BY <2>4, <2>5, <2>6
<1> HIDE DEF new
<1>10. ASSUME NEW i \in 1..Len(new), NEW j \in 1..Len(new), i < j
       PROVE  MayFollow(new[i], new[j])
  <2>1. CASE j <= n
    <3>1. i \in 1..n /\ j \in 1..n /\ i \in 1..Len(routes) /\ j \in 1..Len(routes)
      BY <1>1, <1>4, <1>10, <2>1
    <3> QED
      BY <3>1, <1>9, <1>10 DEF BySpecificity
  <2>2. CASE j = n + 1
    <3>1. i \in 1..n
      BY <1>4, <1>10, <2>2
    <3> QED
      BY <3>1, <1>9, <1>7, <2>2
  <2>3. CASE j > n + 1
    <3>1. j \in n + 2..Len(routes) + 1 /\ j - 1 \in n + 1..Len(routes) /\ j - 1 \in 1..Len(routes)
      BY <1>1, <1>4, <1>9, <2>3
    <3>2. new[j] = routes[j - 1]
      BY <3>1, <1>9
    <3>3. CASE i <= n
      <4>1. i \in 1..n /\ i \in 1..Len(routes) /\ i < j - 1
        BY <1>1, <1>4, <3>1, <3>3
      <4> QED
        BY <4>1, <3>1, <3>2, <1>9 DEF BySpecificity
    <3>4. CASE i = n + 1
      BY <3>4, <3>1, <3>2, <1>8, <1>9
    <3>5. CASE i > n + 1
      <4>1. i \in n + 2..Len(routes) + 1 /\ i - 1 \in 1..Len(routes) /\ i - 1 < j - 1
        BY <1>1, <1>4, <1>9, <1>10, <3>5
      <4> QED
        BY <4>1, <3>1, <3>2, <1>9 DEF BySpecificity
    <3> QED
      BY <1>4, <3>3, <3>4, <3>5
  <2> QED
    BY <1>1, <1>4, <1>9, <2>1, <2>2, <2>3
<1> QED
  BY <1>5, <1>9, <1>10 DEF BySpecificity

\* On such a list the first match is as specific as any.
LEMMA FirstMatch ==
  ASSUME NEW routes, BySpecificity(routes), NEW n
  PROVE  LET matching == {r \in {routes[i] : i \in 1..Len(routes)} : Matches(r, n)}
         IN  /\ ip_route_find(routes, n) = {} <=> matching = {}
             /\ \A r \in ip_route_find(routes, n), q \in matching :
                  r.network => q.network /\ q.bits <= r.bits
<1> DEFINE at == {i \in 1..Len(routes) : Matches(routes[i], n)}
           matching == {r \in {routes[i] : i \in 1..Len(routes)} : Matches(r, n)}
<1>1. routes \in Seq(Entries) /\ Len(routes) \in Nat
  BY DEF BySpecificity
<1>2. ip_route_find(routes, n) = IF at = {} THEN {} ELSE {routes[Min(at)]}
  BY DEF ip_route_find
<1>3. matching = {} <=> at = {}
  OBVIOUS
<1>4. CASE at = {}
  BY <1>2, <1>3, <1>4
<1>5. CASE at # {}
  <2>1. at \in SUBSET Nat
    BY <1>1
  <2>2. Min(at) \in at /\ \A k \in at : Min(at) <= k
    BY <1>5, <2>1, MinOf
  <2>3. ASSUME NEW q \in matching
        PROVE  routes[Min(at)].network => q.network /\ q.bits <= routes[Min(at)].bits
    <3>1. PICK k \in at : routes[k] = q
      OBVIOUS
    <3>2. Min(at) <= k /\ Min(at) \in 1..Len(routes) /\ k \in 1..Len(routes)
      BY <2>2
    <3>3. CASE Min(at) = k
      <4>1. q.bits \in Nat
        BY <3>1, <3>2, <1>1, EntryTyped
      <4> QED
        BY <3>1, <3>3, <4>1
    <3>4. CASE Min(at) # k
      <4>1. Min(at) < k
        BY <3>2, <3>4
      <4>2. MayFollow(routes[Min(at)], routes[k])
        BY <4>1, <3>2 DEF BySpecificity
      <4> QED
        BY <4>2, <3>1 DEF MayFollow
    <3> QED
      BY <3>3, <3>4
  <2> QED
    BY <1>2, <1>3, <1>5, <2>3
<1> QED
  BY <1>4, <1>5

-----------------------------------------------------------------------------
(***************************************************************************)
(* Nothing but ip_route_add() changes the routes of a host.                *)
(***************************************************************************)

\* Sending a frame, an ARP request or a reply leaves the routes alone.
LEMMA SendKeeps ==
  ASSUME NEW s, "routes" \in DOMAIN s
  PROVE  /\ \A mac, type, p, depth : SameRoutes(s, ethernet_send_netbuf(s, mac, type, p, depth))
         /\ \A a, depth : SameRoutes(s, ip_arp_request(s, a, depth))
         /\ \A f : SameRoutes(s, ip_arp_recv_request(s, f))
<1>1. ASSUME NEW mac, NEW type, NEW p, NEW depth
      PROVE  SameRoutes(s, ethernet_send_netbuf(s, mac, type, p, depth))
  BY DEF SameRoutes, ethernet_send_netbuf
<1> QED
  BY <1>1 DEF ip_arp_request, ip_arp_recv_request

\* Finding in the ARP cache and adding to it leave the routes alone.
LEMMA CacheKeeps ==
  ASSUME NEW s, "routes" \in DOMAIN s
  PROVE  /\ \A a : SameRoutes(s, Used(s, a))
         /\ \A a : SameRoutes(s, ip_arp_cache_find(s, a))
         /\ \A mac, a : SameRoutes(s, ip_arp_cache_add(s, mac, a))
<1>1. ASSUME NEW a PROVE SameRoutes(s, Used(s, a))
  BY DEF SameRoutes, Used
<1>2. ASSUME NEW a PROVE SameRoutes(s, ip_arp_cache_find(s, a))
  BY DEF SameRoutes, ip_arp_cache_find
<1>3. ASSUME NEW mac, NEW a PROVE SameRoutes(s, ip_arp_cache_add(s, mac, a))
  BY DEF SameRoutes, ip_arp_cache_add
<1> QED
  BY <1>1, <1>2, <1>3

\* Handling an ARP packet leaves the routes alone.
LEMMA ArpKeeps ==
  ASSUME NEW s, "routes" \in DOMAIN s, NEW f
  PROVE  SameRoutes(s, ip_arp_recv_netbuf(s, f))
<1> DEFINE a == hton32(f.p.src_ip)
           used == Used(s, a)
           known == ip_arp_cache_add(used, f.src, a)
<1>1. SameRoutes(s, used)
  BY CacheKeeps
<1>2. SameRoutes(s, known)
  BY <1>1, CacheKeeps DEF SameRoutes
<1>3. SameRoutes(s, ip_arp_recv_request(known, f))
  BY <1>2, SendKeeps DEF SameRoutes
<1>4. \/ ip_arp_recv_netbuf(s, f) = s
      \/ ip_arp_recv_netbuf(s, f) = known
      \/ ip_arp_recv_netbuf(s, f) = ip_arp_recv_request(known, f)
  BY DEF ip_arp_recv_netbuf
<1>5. SameRoutes(s, s)
  BY DEF SameRoutes
<1> QED
  BY <1>2, <1>3, <1>4, <1>5

\* Sending a packet or an error message leaves the routes alone.
LEMMA IssueKeeps ==
  ASSUME NEW s, "routes" \in DOMAIN s
  PROVE  /\ \A dest, protocol, body, depth : SameRoutes(s, ip_issue_netbuf(s, dest, protocol, body, depth))
         /\ \A dest, type, about, depth : SameRoutes(s, icmp_issue_netbuf(s, dest, type, about, depth))
<1>1. ASSUME NEW p, NEW depth
      PROVE  SameRoutes(s, ethernet_ip_send_netbuf(s, p, depth))
  <2> DEFINE dest == hton32(p.dst)
             rt == ip_route_find(s.routes, dest[1])
             addr == NextHop(rt, dest)
             found == ip_arp_cache_find(Used(s, addr), addr)
             sent == ethernet_send_netbuf(found, s.arp_cache[Min(SlotsOf(s, addr))].mac, "ip", p, depth)
  <2>1. SameRoutes(s, Used(s, addr))
    BY CacheKeeps
  <2>2. SameRoutes(s, found)
    BY <2>1, CacheKeeps DEF SameRoutes
  <2>3. SameRoutes(s, sent)
    <3> HIDE DEF found
    <3>1. "routes" \in DOMAIN found
      BY <2>2 DEF SameRoutes
    <3>2. \A m : SameRoutes(found, ethernet_send_netbuf(found, m, "ip", p, depth))
      BY <3>1, SendKeeps, Zenon
    <3>3. SameRoutes(found, sent)
      BY <3>2, Zenon
    <3> QED
      BY <2>2, <3>3, Zenon DEF SameRoutes
  <2>4. SameRoutes(s, ip_arp_request(s, addr, depth + 1))
    BY SendKeeps
  <2>5. SameRoutes(s, s)
    BY DEF SameRoutes
  <2>6. ethernet_ip_send_netbuf(s, p, depth)
          = IF rt = {} THEN s
            ELSE IF SlotsOf(s, addr) # {} THEN sent ELSE ip_arp_request(s, addr, depth + 1)
    BY DEF ethernet_ip_send_netbuf
  <2> HIDE DEF rt, addr, sent
  <2> QED
    BY <2>3, <2>4, <2>5, <2>6
<1>2. ASSUME NEW dest, NEW protocol, NEW body, NEW depth
      PROVE  SameRoutes(s, ip_issue_netbuf(s, dest, protocol, body, depth))
  BY <1>1 DEF ip_issue_netbuf
<1> QED
  BY <1>2 DEF icmp_issue_netbuf

\* Attaching, detaching and calling clients leaves the routes alone.
LEMMA ClientKeeps ==
  ASSUME NEW s, "routes" \in DOMAIN s
  PROVE  /\ \A c : SameRoutes(s, Attach(s, c))
         /\ \A c : SameRoutes(s, Detach(s, c))
         /\ \A c : SameRoutes(s, Call(s, c))
         /\ SameRoutes(s, Return(s))
<1>1. ASSUME NEW c PROVE SameRoutes(s, Attach(s, c))
  BY DEF SameRoutes, Attach
<1>2. ASSUME NEW c PROVE SameRoutes(s, Detach(s, c))
  BY DEF SameRoutes, Detach
<1>3. ASSUME NEW c PROVE SameRoutes(s, Call(s, c))
  BY DEF SameRoutes, Call
<1>4. SameRoutes(s, Return(s))
  BY DEF SameRoutes, Return
<1> QED
  BY <1>1, <1>2, <1>3, <1>4

\* Handling a frame, whatever is in it, leaves the routes alone.
LEMMA ReceiveKeeps ==
  ASSUME NEW s, "routes" \in DOMAIN s, NEW f
  PROVE  SameRoutes(s, ethernet_recv_netbuf(s, f))
<1>1. SameRoutes(s, s)
  BY DEF SameRoutes
<1>2. ASSUME NEW p, NEW depth PROVE SameRoutes(s, icmp_recv_netbuf(s, p, depth))
  <2>1. SameRoutes(s, icmp_recv_netbuf_notify_transport(s, p))
    BY <1>1, ClientKeeps DEF icmp_recv_netbuf_notify_transport
  <2>2. SameRoutes(s, icmp_recv_netbuf_echo_request(s, p, depth))
    BY IssueKeeps DEF icmp_recv_netbuf_echo_request
  <2>3. SameRoutes(s, icmp_recv_netbuf_default(s, p))
    BY <1>1, ClientKeeps DEF icmp_recv_netbuf_default
  <2> QED
    BY <2>1, <2>2, <2>3 DEF icmp_recv_netbuf
<1>3. ASSUME NEW p, NEW depth PROVE SameRoutes(s, udp_recv_netbuf(s, p, depth))
  BY ClientKeeps, IssueKeeps DEF udp_recv_netbuf
<1>4. ASSUME NEW p, NEW depth PROVE SameRoutes(s, ip_recv_netbuf(s, p, depth))
  BY <1>1, <1>2, <1>3, ClientKeeps, IssueKeeps DEF ip_recv_netbuf
<1> QED
  BY <1>4, ArpKeeps DEF ethernet_recv_netbuf

-----------------------------------------------------------------------------
(***************************************************************************)
(* The invariant and the theorem                                           *)
(***************************************************************************)

\* What an action leaves in a host, once its frames are under way.
LEMMA CommitKeeps ==
  ASSUME IInv, NEW h \in Hosts, NEW s, NEW frames, Commit(h, s, frames),
         "routes" \in DOMAIN s, BySpecificity(s.routes)
  PROVE  IInv'
<1> DEFINE t == [s EXCEPT !.out = <<>>]
<1>1. "routes" \in DOMAIN t /\ t.routes = s.routes
  OBVIOUS
<1>2. host' = [host EXCEPT ![h] = t]
  BY DEF Commit
<1> HIDE DEF t
<1> QED
  BY <1>1, <1>2 DEF IInv

\* The routes a host starts with are in order.
LEMMA StartSpecific ==
  ASSUME LanAssumption
  PROVE  Init => IInv
<1> SUFFICES ASSUME Init PROVE IInv
  OBVIOUS
<1>1. ASSUME NEW h
      PROVE  "routes" \in DOMAIN Start(h) /\ BySpecificity(Start(h).routes)
  <2> DEFINE link == ethernet_ip_instance_alloc(h, Local, Addr(Gateway))
             default == Network(0, 0, Addr(Gateway))
  <2>1. "routes" \in DOMAIN link /\ link.routes = ip_route_add(ip_route_add(<<>>, Local), default)
    BY DEF ethernet_ip_instance_alloc
  <2>2. BySpecificity(<<>>)
    BY DEF BySpecificity
  <2>3. Local \in Entries /\ default \in Entries
    BY DEF LanAssumption, Entries, Network, Addr
  <2> HIDE DEF link, default
  <2>4. BySpecificity(link.routes)
    BY <2>1, <2>2, <2>3, RouteAdded
  <2>5. "routes" \in DOMAIN Start(h) /\ Start(h).routes = link.routes
    BY <2>1 DEF Start, ip_instance_alloc, Joined, link
  <2> QED
    BY <2>4, <2>5
<1>2. ASSUME NEW h
      PROVE  SameRoutes(Start(h), udp_instance_alloc(Start(h)))
  BY <1>1, ClientKeeps DEF udp_instance_alloc, ip_client_attach
<1> QED
  BY <1>1, <1>2 DEF Init, IInv, SameRoutes

\* Every step of the network keeps the routes of every host in order.
LEMMA StepSpecific ==
  ASSUME LanAssumption, IInv, [Next]_vars
  PROVE  IInv'
<1>1. CASE UNCHANGED vars
  BY <1>1 DEF IInv, vars
<1>2. CASE Next
  <2>1. PICK h \in Hosts :
          \/ Receive(h)
          \/ Callback(h)
          \/ Lose(h)
          \/ \E n \in Destinations : Send(h, hton32(Addr(n)))
          \/ \E c \in Clients : AttachClient(h, c) \/ DetachClient(h, c)
          \/ \E r \in Routes : AddRoute(h, r)
    BY <1>2 DEF Next
  <2>2. "routes" \in DOMAIN host[h] /\ BySpecificity(host[h].routes)
    BY DEF IInv
  <2>3. ASSUME NEW s, NEW frames, Commit(h, s, frames), SameRoutes(host[h], s)
        PROVE  IInv'
    BY <2>2, <2>3, CommitKeeps DEF SameRoutes
  <2>4. CASE Receive(h)
    BY <2>2, <2>3, <2>4, ReceiveKeeps DEF Receive
  <2>5. CASE Callback(h)
    BY <2>2, <2>3, <2>5, ClientKeeps DEF Callback
  <2>6. CASE Lose(h)
    BY <2>6 DEF Lose, IInv
  <2>7. ASSUME NEW n \in Destinations, Send(h, hton32(Addr(n)))
        PROVE  IInv'
    BY <2>2, <2>3, <2>7, IssueKeeps
    DEF Send, ip_send_netbuf, icmp_send_netbuf, udp_send_netbuf
  <2>8. ASSUME NEW c \in Clients, AttachClient(h, c)
        PROVE  IInv'
    <3>0. c[1] \in {"ip", "icmp", "udp"}
      BY DEF LanAssumption
    <3>1. PICK s : Commit(h, s, lan) /\ SameRoutes(host[h], s)
      BY <2>2, <2>8, <3>0, ClientKeeps
      DEF AttachClient, ip_client_attach, icmp_client_attach, udp_client_attach, SameRoutes
    <3> QED
      BY <2>3, <3>1
  <2>9. ASSUME NEW c \in Clients, DetachClient(h, c)
        PROVE  IInv'
    <3>0. c[1] \in {"ip", "icmp", "udp"}
      BY DEF LanAssumption
    <3>1. PICK s : Commit(h, s, lan) /\ SameRoutes(host[h], s)
      BY <2>2, <2>9, <3>0, ClientKeeps
      DEF DetachClient, ip_client_detach, icmp_client_detach, udp_client_detach
    <3> QED
      BY <2>3, <3>1
  <2>10. ASSUME NEW r \in Routes, AddRoute(h, r)
         PROVE  IInv'
    <3> DEFINE s == [host[h] EXCEPT !.routes = ip_route_add(@, r)]
    <3>1. "routes" \in DOMAIN s /\ s.routes = ip_route_add(host[h].routes, r)
      BY <2>2
    <3>2. r \in Entries
      BY DEF LanAssumption
    <3>3. Commit(h, s, lan)
      BY <2>10 DEF AddRoute
    <3> HIDE DEF s
    <3>4. BySpecificity(s.routes)
      BY <2>2, <3>1, <3>2, RouteAdded
    <3> QED
      BY <3>1, <3>3, <3>4, CommitKeeps
  <2> QED
    BY <2>1, <2>4, <2>5, <2>6, <2>7, <2>8, <2>9, <2>10
<1> QED
  BY <1>1, <1>2

\* Whatever routes are added and in whatever order, between whatever packets, the
\* route that ip_route_find() takes is as specific as any that matches.
THEOREM RoutesMostSpecific ==
  ASSUME LanAssumption
  PROVE  Spec => []RoutesSpecific
<1>1. Init => IInv
  BY StartSpecific
<1>2. IInv /\ [Next]_vars => IInv'
  BY StepSpecific
<1>3. IInv => RoutesSpecific
  BY FirstMatch DEF IInv, RoutesSpecific
<1> QED
  BY <1>1, <1>2, <1>3, PTL DEF Spec

=============================================================================
