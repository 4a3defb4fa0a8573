----------------------------- MODULE MCNetwork ------------------------------
(***************************************************************************)
(* The network stack below TCP on small instances: the PPP link, SLIP and  *)
(* AHDLC framing, network buffers, and IP over Ethernet.  A behaviour runs *)
(* one of them, the part that its first state chooses, and leaves the      *)
(* others where they start.  The framings have their variables in common,  *)
(* as do the two instances of the Ethernet.                                *)
(***************************************************************************)
EXTENDS Integers, Sequences, TLC

CONSTANTS A, B, u1, u2

VARIABLES
  part,
  lcp, ipcp, attached, slow, wire, ppp_faults, foreign, overtaken,
  send_queue, pai_accm, sent, line, rx, client, got, missed, noise,
  mb_refs, layer, held, freeing,
  host, lan, sends, faults

-----------------------------------------------------------------------------
(* PPP, with a peer that may run other code. *)

Says(proto, code, opts) == [proto |-> proto, code |-> code, opts |-> opts]

McForeign ==
  {Says("lcp", "CONF_REQ", {"mru", "bad"}), Says("lcp", "CONF_REQ", {"accm", "bad", "other"}),
   Says("lcp", "CONF_NAK", {"accm"}), Says("lcp", "CONF_REJ", {"mru"}),
   Says("lcp", "TERM_REQ", {}), Says("lcp", "TERM_ACK", {}),
   Says("lcp", "CODE_REJ_KNOWN", {}), Says("lcp", "CODE_REJ_UNKNOWN", {}),
   Says("lcp", "PROTOCOL_REJ_LCP", {}), Says("lcp", "ECHO_REQ", {}), Says("lcp", "UNKNOWN", {}),
   Says("ipcp", "CONF_REQ", {"addr", "other"}), Says("ipcp", "CONF_REJ", {"addr"}),
   Says("ipcp", "TERM_REQ", {}), Says("ipcp", "TERM_ACK", {}),
   Says("ipcp", "CODE_REJ_KNOWN", {}), Says("ipcp", "UNKNOWN", {}),
   Says("other", "UNKNOWN", {})}

Link == INSTANCE PppLink WITH
  RESTART_MAX_CONFIGURE <- 2, RESTART_MAX_TERMINATE <- 2,
  MaxFaults <- 1, Foreign <- McForeign, MaxForeign <- 1,
  faults <- ppp_faults

-----------------------------------------------------------------------------
(* Framing: packets with octets that need escapes, and one too long. *)

Framing == INSTANCE Slip WITH
  MRU <- 3, MaxLine <- 4, MaxNoise <- 2, idi_client <- client,
  Packets <- {<<"x">>, <<"ESC", "dc">>, <<"x", "x", "END">>}

Hdlc == INSTANCE Ahdlc WITH
  MRU <- 7, MaxLine <- 3, MaxNoise <- 1, pai_client <- client,
  Packets <- {<< <<"control">> >>, << <<"x">>, <<"7d">> >>, << <<"x">>, <<"control">>, <<"x">> >>}

-----------------------------------------------------------------------------
(* Buffers that two threads share. *)

Buffers == INSTANCE Netbuf WITH
  Threads <- {u1, u2}, Layers <- {"ip", "app"}, MaxBuf <- 4, MaxRefs <- 1

-----------------------------------------------------------------------------
(* IP over Ethernet: the network of hosts 8 to 15, with host 9 as gateway. *)

Network(n, bits, gateway) == [network |-> TRUE, addr |-> n, bits |-> bits, gateway |-> <<gateway, 0>>]

\* Host 10 sends to three others, one more than its ARP cache has slots,
\* until the ages of the entries have started again.
Ethernet == INSTANCE Lan WITH
  W <- 4, ARP_CACHE_SLOTS <- 2, MAX_AGE <- 4, Clients <- {<<"ip", 17>>},
  Hosts <- {9, 10, 11, 12}, Others <- {9, 11, 12}, Senders <- {10}, Gateway <- 9,
  Local <- Network(8, 1, 0), Routes <- {}, Routers <- {10},
  Destinations <- {9, 11, 12}, Kinds <- {"icmp"},
  MaxSends <- 6, MaxQueue <- 2, MaxFaults <- 0

\* Host 10 has clients that come and go, routes are added, and frames are lost.
Routing == INSTANCE Lan WITH
  W <- 4, ARP_CACHE_SLOTS <- 2, MAX_AGE <- 4,
  Clients <- {<<"ip", 6>>, <<"ip", 17>>, <<"icmp", 0>>, <<"udp", 7>>},
  Hosts <- {9, 10, 11}, Others <- {9, 11}, Senders <- {10}, Gateway <- 9,
  Local <- Network(8, 1, 0), Routers <- {10},
  Routes <- {[network |-> FALSE, addr |-> 3, bits |-> 4, gateway |-> <<10, 0>>],
             Network(2, 3, 11), Network(0, 2, 12)},
  Destinations <- {3, 11}, Kinds <- {"ip", "icmp", "udp"},
  MaxSends <- 2, MaxQueue <- 9, MaxFaults <- 1

ASSUME InstancesAssumption == Ethernet!LanAssumption /\ Routing!LanAssumption

-----------------------------------------------------------------------------

link == <<lcp, ipcp, attached, slow, wire, ppp_faults, foreign, overtaken>>
framing == <<send_queue, pai_accm, sent, line, rx, client, got, missed, noise>>
buffers == <<mb_refs, layer, held, freeing>>
ethernet == <<host, lan, sends, faults>>

Init ==
  /\ part \in {"link", "slip", "ahdlc", "buffers", "ethernet", "routing"}
  /\ Link!Init
  /\ Buffers!Init
  /\ \/ part # "slip" /\ Hdlc!Init
     \/ part = "slip" /\ Framing!Init /\ pai_accm = FALSE
  /\ \/ part # "routing" /\ Ethernet!Init
     \/ part = "routing" /\ Routing!Init

Next ==
  \/ /\ part = "link" /\ Link!Next
     /\ UNCHANGED <<part, framing, buffers, ethernet>>
  \/ /\ part = "slip" /\ Framing!Next
     /\ UNCHANGED <<part, link, pai_accm, buffers, ethernet>>
  \/ /\ part = "ahdlc" /\ Hdlc!Next
     /\ UNCHANGED <<part, link, buffers, ethernet>>
  \/ /\ part = "buffers" /\ Buffers!Next
     /\ UNCHANGED <<part, link, framing, ethernet>>
  \/ /\ part = "ethernet" /\ Ethernet!Next
     /\ UNCHANGED <<part, link, framing, buffers>>
  \/ /\ part = "routing" /\ Routing!Next
     /\ UNCHANGED <<part, link, framing, buffers>>

Spec == Init /\ [][Next]_<<part, link, framing, buffers, ethernet>>

-----------------------------------------------------------------------------
(* Properties *)

\* Type invariant of the link: identifiers stay octets and counters in range.
TypeOK == part = "link" => Link!TypeOK

\* handle_event() leaves the restart timer running in the states that wait for a
\* reply, and in no other.
TimerRuns == part = "link" => Link!TimerRuns

\* Each damaged octet costs slip_recv_u8() and ppp_ahdlc_recv_u8() one packet at most,
\* and without damage the packets arrive whole and in order.
Contained == (part = "slip" => Framing!Contained) /\ (part = "ahdlc" => Hdlc!Contained)

\* mb_refs counts exactly the references to a buffer that there are.
RefsExact == part = "buffers" => Buffers!RefsExact

\* The first match of ip_route_find() is as specific as any.
RoutesSpecific == part = "routing" => Routing!RoutesSpecific

\* ip_arp_recv_netbuf() learns what the senders say of themselves, and an address
\* has one slot.
ArpTrue == part = "ethernet" => Ethernet!ArpTrue

\* What ip_arp_cache_add() overwrites is what was used least recently, until the
\* ages start again from 0.
ArpKeepsRecent == part = "ethernet" => Ethernet!ArpKeepsRecent

\* Hosts never keep each other busy: no packet is about an error message.
ProvokesLittle ==
  (part = "ethernet" => Ethernet!ProvokesLittle) /\ (part = "routing" => Routing!ProvokesLittle)

\* A client has one reference for its list and one while it is called.
ClientRefsExact == part = "routing" => Routing!ClientRefsExact

=============================================================================
