------------------------------ MODULE PppLink ------------------------------
(***************************************************************************)
(* Two hosts that run ppp.c and ppp_ip.c over a serial line.  The line     *)
(* keeps its order and loses frames.  The receive thread is the most       *)
(* urgent one and nothing that it calls sleeps, so the handling of a       *)
(* packet is one action.  The timer thread and the thread that creates the *)
(* instance give up pi_lock inside handle_action(), while they hand a      *)
(* request to the framing layer, and are overtaken there: the state that   *)
(* the event leads to is stored after that.                                *)
(***************************************************************************)
EXTENDS PppIp

CONSTANTS
  A, B,          \* the two hosts
  MaxFaults,     \* bound: losses, timers that expire while packets are under way,
                 \* and packets that overtake a thread that has given up pi_lock
  Foreign,       \* what a peer that runs other code may say
  MaxForeign     \* bound: how many such packets arrive

VARIABLES
  lcp,           \* struct ppp_instance of each host
  ipcp,          \* struct ppp_ip_instance of each host
  attached,      \* the hosts whose ppp_ip_instance_alloc() has attached its clients
  slow,          \* where the thread that has given up pi_lock is
  wire,          \* the packets under way to each host, oldest first
  faults,        \* the faults so far
  foreign,       \* the foreign packets so far
  overtaken      \* the hosts where a packet changed the instance while another
                 \* thread had given up pi_lock

vars == <<lcp, ipcp, attached, slow, wire, faults, foreign, overtaken>>

Hosts == {A, B}

Peer(h) == IF h = A THEN B ELSE A

\* at says whether the thread is about to send, to store the state, or not there.
NotSlow == [at |-> "idle", out |-> <<>>, next |-> "INITIAL"]

Sent(p) == [p EXCEPT !.out = <<>>, !.up = 0]

\* lcp_send_netbuf() and ppp_send_netbuf() append to the framing layer's queue.
Deliver(h, packets) == wire' = [wire EXCEPT ![Peer(h)] = @ \o packets]

Fault ==
  /\ faults < MaxFaults
  /\ faults' = faults + 1

-----------------------------------------------------------------------------
(***************************************************************************)
(* The receive thread.                                                     *)
(***************************************************************************)

\* The calls of pc_link_up that the handler of an LCP packet makes.
LinkUp(h, p) ==
  IF p.up > 0 /\ h \in attached THEN ipcp_link_up(ipcp[h]) ELSE ipcp[h]

RecvLcp(h, m, rest) ==
  LET p == lcp_recv_netbuf(lcp[h], m)
      q == LinkUp(h, p)
  IN  /\ lcp' = [lcp EXCEPT ![h] = Sent(p)]
      /\ ipcp' = [ipcp EXCEPT ![h] = Sent(q)]
      /\ wire' = [wire EXCEPT ![h] = rest, ![Peer(h)] = @ \o p.out \o q.out]
      /\ IF slow[h].at # "idle" /\ Sent(p) # [lcp[h] EXCEPT !.send = p.send]
         THEN overtaken' = overtaken \union {h} /\ Fault
         ELSE UNCHANGED <<overtaken, faults>>

RecvIpcp(h, m, rest) ==
  LET q == ipcp_recv_netbuf(ipcp[h], m)
  IN  /\ ipcp' = [ipcp EXCEPT ![h] = Sent(q)]
      /\ wire' = [wire EXCEPT ![h] = rest, ![Peer(h)] = @ \o q.out]
      /\ UNCHANGED <<lcp, overtaken, faults>>

\* ppp_recv_netbuf(): a protocol that nobody has attached to is rejected.
RejectProtocol(h, m, rest) ==
  /\ lcp' = [lcp EXCEPT ![h].send = Junk]
  /\ wire' = [wire EXCEPT ![h] = rest,
                          ![Peer(h)] = Append(@, Packet(lcp[h], "PROTOCOL_REJ", m.id, {}))]
  /\ UNCHANGED <<ipcp, overtaken, faults>>

Drop(h, rest) ==
  /\ wire' = [wire EXCEPT ![h] = rest]
  /\ UNCHANGED <<lcp, ipcp, overtaken, faults>>

Receives(h, m, rest) ==
  CASE m.proto = "lcp"  -> RecvLcp(h, m, rest)
    [] m.proto = "ipcp" /\ h \in attached -> RecvIpcp(h, m, rest)
    [] m.proto \notin {"lcp", "none"} /\ ~ (m.proto = "ipcp" /\ h \in attached) ->
         RejectProtocol(h, m, rest)
    [] m.proto = "none" -> Drop(h, rest)

\* A frame that comes before the instance is created finds no client.
ppp_recv_netbuf(h) ==
  /\ wire[h] # <<>>
  /\ IF lcp[h].state = "INITIAL" THEN Drop(h, Tail(wire[h]))
     ELSE Receives(h, Head(wire[h]), Tail(wire[h]))
  /\ UNCHANGED <<attached, slow, foreign>>

-----------------------------------------------------------------------------
(***************************************************************************)
(* The threads that give up pi_lock while they send.                       *)
(***************************************************************************)

\* handle_event() up to the point where lcp_send_netbuf() gives up pi_lock; an
\* event that sends nothing runs to its end.
Slowly(h, p, event) ==
  LET t == ppp_trans(event, p.state)
      q == handle_action(p, t[1])
  IN  IF q.out = <<>>
      THEN /\ lcp' = [lcp EXCEPT ![h] = Enter(q, t[2])]
           /\ UNCHANGED slow
      ELSE /\ lcp' = [lcp EXCEPT ![h] = Sent(q)]
           /\ slow' = [slow EXCEPT ![h] = [at |-> "send", out |-> q.out, next |-> t[2]]]

SlowSend(h) ==
  /\ slow[h].at = "send"
  /\ Deliver(h, slow[h].out)
  /\ slow' = [slow EXCEPT ![h].at = "store", ![h].out = <<>>]
  /\ UNCHANGED <<lcp, ipcp, attached, faults, foreign, overtaken>>

\* The rest of handle_event().
SlowStore(h) ==
  /\ slow[h].at = "store"
  /\ lcp' = [lcp EXCEPT ![h] = Enter(@, slow[h].next)]
  /\ slow' = [slow EXCEPT ![h] = NotSlow]
  /\ UNCHANGED <<ipcp, attached, wire, faults, foreign, overtaken>>

ppp_instance_alloc(h) ==
  /\ lcp[h].state = "INITIAL"
  /\ Slowly(h, handle_event(lcp[h], "UP"), "OPEN")
  /\ UNCHANGED <<ipcp, attached, wire, faults, foreign, overtaken>>

\* The clients for IP and for its control protocol are attached once the instance
\* is there; by then its negotiation may have completed.
ppp_ip_instance_alloc(h) ==
  /\ lcp[h].state # "INITIAL"
  /\ slow[h].at = "idle"
  /\ h \notin attached
  /\ attached' = attached \union {h}
  /\ UNCHANGED <<lcp, ipcp, slow, wire, faults, foreign, overtaken>>

lcp_tick_timeout(h) ==
  /\ lcp[h].due /\ slow[h].at = "idle"
  /\ Slowly(h, [lcp[h] EXCEPT !.due = FALSE, !.ident = u8_t(@ - 1)],
            IF lcp[h].restart # 0 THEN "TO_P" ELSE "TO_M")
  /\ UNCHANGED <<ipcp, attached, wire, faults, foreign, overtaken>>

-----------------------------------------------------------------------------
(***************************************************************************)
(* Time and the line.                                                      *)
(***************************************************************************)

Quiet == \A h \in Hosts : wire[h] = <<>> /\ slow[h].at = "idle" /\ ~ lcp[h].due

\* Three seconds without an answer: the line is quiet, or an answer is late.
Patient == (Quiet /\ UNCHANGED faults) \/ (~ Quiet /\ Fault)

Expire(h) ==
  /\ lcp[h].timer /\ ~ lcp[h].due /\ slow[h].at = "idle"
  /\ Patient
  /\ lcp' = [lcp EXCEPT ![h].timer = FALSE, ![h].due = TRUE]
  /\ UNCHANGED <<ipcp, attached, slow, wire, foreign, overtaken>>

\* os_arg is the LCP instance, so ipcp_tick_timeout() works on memory of the
\* wrong type: pii_ident is where an AVR build has pi_accm_usage, and the
\* transition it then looks up lies outside the table.  Followed here is the
\* outcome in which that transition does nothing.
ipcp_tick_timeout(h) ==
  /\ ipcp[h].timer
  /\ Patient
  /\ ipcp' = [ipcp EXCEPT ![h].timer = FALSE]
  /\ lcp' = [lcp EXCEPT ![h].usage = @ \ {"accm"}]
  /\ UNCHANGED <<attached, slow, wire, foreign, overtaken>>

Lose(h) ==
  /\ wire[h] # <<>>
  /\ Fault
  /\ wire' = [wire EXCEPT ![h] = Tail(@)]
  /\ UNCHANGED <<lcp, ipcp, attached, slow, foreign, overtaken>>

\* A packet that the peer's code would not have sent now; its identifier is the
\* one that the host expects.
ForeignPacket(h, f) ==
  LET id == IF f.proto = "ipcp" THEN ipcp[h].ident ELSE lcp[h].ident
  IN  [proto |-> f.proto, code |-> f.code, id |-> id, opts |-> f.opts]

Hear(h, f) ==
  /\ foreign < MaxForeign
  /\ foreign' = foreign + 1
  /\ wire' = [wire EXCEPT ![h] = Append(@, ForeignPacket(h, f))]
  /\ UNCHANGED <<lcp, ipcp, attached, slow, faults, overtaken>>

Init ==
  /\ lcp = [h \in Hosts |-> NewInstance("lcp", LcpOptions)]
  /\ ipcp = [h \in Hosts |-> ipcp_instance]
  /\ attached = {}
  /\ slow = [h \in Hosts |-> NotSlow]
  /\ wire = [h \in Hosts |-> <<>>]
  /\ faults = 0
  /\ foreign = 0
  /\ overtaken = {}

\* The hosts are alike: it is enough that A hears what other code says.
Next ==
  \E h \in Hosts :
    \/ ppp_recv_netbuf(h)
    \/ ppp_instance_alloc(h)
    \/ ppp_ip_instance_alloc(h)
    \/ lcp_tick_timeout(h)
    \/ ipcp_tick_timeout(h)
    \/ SlowSend(h)
    \/ SlowStore(h)
    \/ Expire(h)
    \/ Lose(h)
    \/ \E f \in Foreign : h = A /\ Hear(h, f)

Spec == Init /\ [][Next]_vars

FairSpec ==
  /\ Spec
  /\ \A h \in Hosts :
       /\ WF_vars(ppp_recv_netbuf(h) \/ SlowSend(h) \/ SlowStore(h) \/ lcp_tick_timeout(h)
                  \/ ppp_instance_alloc(h) \/ ppp_ip_instance_alloc(h))
       /\ SF_vars(Expire(h) \/ ipcp_tick_timeout(h))

-----------------------------------------------------------------------------
(***************************************************************************)
(* Properties                                                              *)
(***************************************************************************)

PacketOK(m) ==
  /\ m.proto \in {"lcp", "ipcp", "other", "none"}
  /\ m.id \in 0..255
  /\ m.opts \subseteq {"mru", "accm", "addr", "bad", "other"}

InstanceOK(p, options) ==
  /\ p.state \in States
  /\ p.phase \in Phases
  /\ p.ident \in 0..255
  /\ p.restart \in 0..RESTART_MAX_CONFIGURE
  /\ p.timer \in BOOLEAN
  /\ p.due \in BOOLEAN
  /\ PacketOK(p.send)
  /\ p.usage \subseteq options
  /\ p.out = <<>> /\ p.up = 0

\* The instances, the packets and the sending threads are of the right shape, and
\* the counter of retries stays within its limit.
TypeOK ==
  /\ \A h \in Hosts :
       /\ InstanceOK(lcp[h], LcpOptions)
       /\ InstanceOK(ipcp[h], IpcpOptions)
       /\ slow[h].at \in {"idle", "send", "store"}
       /\ slow[h].next \in States
       /\ \A i \in 1..Len(wire[h]) : PacketOK(wire[h][i])
  /\ attached \subseteq Hosts
  /\ overtaken \subseteq Hosts
  /\ faults \in 0..MaxFaults
  /\ foreign \in 0..MaxForeign

TimerMatches(h) ==
  slow[h].at = "idle" =>
    IF lcp[h].state \in Restarting THEN lcp[h].timer \/ lcp[h].due ELSE ~ lcp[h].timer

\* The restart timer runs in exactly the states that wait for an answer, in whatever
\* order requests, answers, timeouts and refusals come, as long as no packet changes
\* the instance while another thread of the host has given up pi_lock in
\* handle_event().
TimerRuns == \A h \in Hosts \ overtaken : TimerMatches(h)

Settled == \A h \in Hosts : lcp[h].state \in {"OPENED", "STOPPED"}

\* The negotiation comes to an end, with the link open or given up, however the
\* requests of the two hosts and the answers to them cross.  Where a thread has
\* handled a packet while another thread of its host had given up pi_lock in
\* handle_event(), nothing is promised.
Settles == <>[]Settled \/ <>(overtaken # {})

\* A request of the IP control protocol that is refused or not answered is
\* repeated or given up: pii_timeout_timer is the "Command timeout one-shot timer" and
\* pii_restart_counter the "Command retry counter".
IpcpMovesOn ==
  \A h \in Hosts : (ipcp[h].state = "REQ_SENT") ~> (ipcp[h].state # "REQ_SENT")
=============================================================================
