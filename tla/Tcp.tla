-------------------------------- MODULE Tcp --------------------------------
(***************************************************************************)
(* Two hosts that run tcp.c, each with one connection, over a network that *)
(* loses, repeats and reorders segments.  They are connected by a serial   *)
(* line, whose receive thread (0x40) is the most urgent thread of a host.  *)
(* Nothing it calls sleeps, so the handling of a segment is one action;    *)
(* the timer thread (0x7f) and the application are overtaken by it         *)
(* wherever they do not hold ti_lock: between the expiry of a timer and    *)
(* its callback, between the two halves of a close, before a segment that  *)
(* was built under the lock is sent without it, and on the way back from   *)
(* the sleep in tcp_connect().                                             *)
(*                                                                         *)
(* A segment's payload is the number of the tcp_send_netbuf() call that    *)
(* sent it and takes one sequence number.  Sequence numbers do not wrap:   *)
(* a connection starts at 0x00a8393a and the model sends a few octets.     *)
(* A step that hurts a socket notes how: "late" if the reference of a      *)
(* timer whose callback is due is dropped, "twice" if a timer is attached  *)
(* that is attached already, "freed" if a thread without a reference uses  *)
(* a socket after it was freed, "client" if a client that was freed is     *)
(* called.  What such a program does next is not followed.  A thread that  *)
(* frees a socket and looks at it again before it releases ti_lock still   *)
(* finds what it left there, since heap_free() only writes to the header   *)
(* of the block and nobody else has run; this is followed.                 *)
(***************************************************************************)
EXTENDS Integers, Sequences, FiniteSets, SequencesExt

CONSTANTS
  A, B,          \* the two hosts
  MaxSend,       \* bound: how many payloads the application of each host sends
  MaxFaults,     \* bound: losses, repetitions, reorderings, early timers, threads
                 \* overtaken as they send, and the rarer turns of an application
  MaxNet,        \* bound: segments under way to a host; more are lost
  MaxConns       \* bound: how many connections the listener's owner accepts

VARIABLES
  sock,          \* struct tcp_socket of each host's connection
  listener,      \* the listening socket of B
  wire,          \* the segments under way to each host, oldest first
  sent,          \* how many payloads the application has sent
  got,           \* the payloads that tc_recv has delivered
  closing,       \* where the application is: asleep in tcp_connect(), or how
                 \* far it has come in closing the connection
  conns,         \* how many connections B has accepted
  faults         \* the faults so far

vars == <<sock, listener, wire, sent, got, closing, conns, faults>>

Hosts == {A, B}

Peer(h) == IF h = A THEN B ELSE A

ISS == 0

NoSegment == [seq |-> 0, flags |-> {}, data |-> 0, ack |-> 0]

States == {"CLOSED", "SYN_SENT", "SYN_RECEIVED", "ESTABLISHED", "FIN_WAIT1", "FIN_WAIT2",
           "CLOSE_WAIT", "CLOSING", "LAST_ACK", "TIME_WAIT"}

Threads == {"timer", "application"}

\* tcp_socket_alloc(), without the caller's reference.  out collects what the
\* running handler hands to is_send() and up what it gives to tc_recv, unsent is
\* what a thread was about to send when it was overtaken; fin remembers that a FIN
\* was sent, torn that a segment came between the halves of a close.
NewSocket ==
  [state |-> "CLOSED", nxt |-> ISS, una |-> ISS, rcv |-> 0,
   timing |-> FALSE, dfin |-> FALSE, dack |-> FALSE,
   wait |-> "off", acktimer |-> "off", unacked |-> NoSegment, queue |-> <<>>,
   refs |-> 0, listed |-> FALSE, client |-> "none",
   unsent |-> [t \in Threads |-> NoSegment],
   fin |-> FALSE, torn |-> FALSE, hurt |-> {}, out |-> <<>>, up |-> <<>>]

Hurting(s, how, condition) == IF condition THEN [s EXCEPT !.hurt = @ \cup {how}] ELSE s

\* A thread that has no reference of its own uses the socket.
Used(s) == Hurting(s, "freed", s.refs = 0)

-----------------------------------------------------------------------------
(* Building and sending segments                                           *)

\* build_netbuf(): the sequence number is that of the moment of building.
build_netbuf(s, flags, data) == [seq |-> s.nxt, flags |-> flags, data |-> data, ack |-> 0]

\* A slip: once connected the acknowledgement is one ahead.
MutSendSequence(s, seg) ==
  [s EXCEPT !.out = Append(@, [seg EXCEPT !.ack = IF "SYN" \in seg.flags THEN s.rcv ELSE s.rcv + 1])]

\* tcp_send_sequence(): the acknowledgement is that of the moment of sending.
tcp_send_sequence(s, seg) ==
  [s EXCEPT !.out = Append(@, [seg EXCEPT !.ack = s.rcv])]

\* A slip: the reference is dropped even if the timer does not run.
MutStopTiming(s) ==
  [s EXCEPT !.timing = FALSE, !.unacked = NoSegment, !.refs = @ - 1, !.wait = "off"]

\* oneshot_detach() of the wait timer and the timer's reference.  It is too late
\* for a timer that has expired: its callback drops the same reference again.
StopTiming(s) ==
  IF s.timing
    THEN [Hurting(s, "late", s.wait = "due") EXCEPT
            !.timing = FALSE, !.unacked = NoSegment, !.refs = @ - 1,
            !.wait = IF @ = "due" THEN "due" ELSE "off"]
    ELSE s

\* The segment is kept until it is acknowledged.  ts_send_flags is assigned, so
\* the other send flags go.
StartTiming(s, seg) ==
  [Hurting(s, "twice", s.wait # "off") EXCEPT
     !.nxt = @ + 1, !.unacked = seg, !.timing = TRUE, !.dfin = FALSE, !.dack = FALSE,
     !.refs = @ + 1, !.wait = "retransmit", !.fin = @ \/ "FIN" \in seg.flags]

\* A slip: the timer's reference is kept.
MutDropDeferredAck(s) ==
  IF s.dack THEN [s EXCEPT !.dack = FALSE, !.acktimer = "off"] ELSE s

\* Every segment carries an ACK, so a deferred one need not be sent any more.
DropDeferredAck(s) ==
  IF s.dack
    THEN [Hurting(s, "late", s.acktimer = "due") EXCEPT
            !.dack = FALSE, !.refs = @ - 1, !.acktimer = IF @ = "due" THEN "due" ELSE "off"]
    ELSE s

\* tcp_build_and_send_sequence(): SYN and FIN are retransmitted until they are
\* acknowledged; a pure ACK is deferred if none is already.
tcp_build_and_send_sequence(s, flags) ==
  LET seg == build_netbuf(s, flags, 0)
      t   == IF flags \cap {"SYN", "FIN"} # {} THEN StartTiming(s, seg) ELSE s
  IN  IF flags # {"ACK"} \/ t.dack \/ t.state # "ESTABLISHED"
        THEN tcp_send_sequence(DropDeferredAck(t), seg)
        ELSE [Hurting(t, "twice", t.acktimer # "off") EXCEPT
                !.dack = TRUE, !.acktimer = "on", !.refs = @ + 1]

\* tcp_send_close().
tcp_send_close(s) ==
  LET d   == DropDeferredAck(s)
      seg == build_netbuf(d, {"ACK", "FIN"}, 0)
  IN  tcp_send_sequence(StartTiming(d, seg), seg)

\* tcp_send_netbuf_now(), and the end of tcp_send_netbuf().
tcp_send_netbuf_now(s, data) ==
  LET d   == DropDeferredAck(s)
      seg == build_netbuf(d, {"ACK"}, data)
  IN  tcp_send_sequence(StartTiming(d, seg), seg)

\* The next segment from ts_awaiting_send, if there is one.
SendQueued(s) ==
  IF s.queue = <<>>
    THEN s
    ELSE tcp_send_netbuf_now([s EXCEPT !.queue = Tail(@)], Head(s.queue))

\* tcp_socket_detach().
tcp_socket_detach(s) ==
  IF s.listed THEN [s EXCEPT !.listed = FALSE, !.refs = @ - 1] ELSE s

\* tcp_socket_attach(): the connections of the model do not clash.
tcp_socket_attach(s) == [s EXCEPT !.listed = TRUE, !.refs = @ + 1]

\* close_socket(): the queue is emptied only if a segment was awaited.
close_socket(s) ==
  tcp_socket_detach([StopTiming(s) EXCEPT !.state = "CLOSED",
                                          !.queue = IF s.timing THEN <<>> ELSE @])

\* send_reset_close_socket().
send_reset_close_socket(s) ==
  tcp_socket_detach(tcp_build_and_send_sequence(
    [StopTiming(s) EXCEPT !.state = "CLOSED", !.queue = IF s.timing THEN <<>> ELSE @],
    {"RST"}))

-----------------------------------------------------------------------------
(* The receive state machine                                               *)

\* A segment in sequence that carries an ACK.
Acceptable(s, m) ==
  m.seq = s.rcv /\ m.flags \cap {"RST", "SYN"} = {} /\ "ACK" \in m.flags

\* The client is told by tc_close.  tcp_client_detach() leaves ts_client behind: it
\* points to a client that has been freed.
tc_close(s) == Hurting(s, "client", s.client = "stale")

\* What the synchronized states do first: other segments are answered or ignored.
\* A client is told of a reset until it closes the connection itself.
Screened(s, m) ==
  LET told(t) == IF s.state \in {"SYN_RECEIVED", "ESTABLISHED"} THEN tc_close(t) ELSE t
  IN  IF m.seq # s.rcv /\ "RST" \notin m.flags THEN tcp_build_and_send_sequence(s, {"ACK"})
      ELSE IF "RST" \in m.flags THEN told(close_socket(s))
      ELSE IF "SYN" \in m.flags THEN told(send_reset_close_socket(s))
      ELSE s

\* An ACK of what was never sent is answered and the segment dropped.
AckKnown(s, m) == Acceptable(s, m) /\ m.ack <= s.nxt

Rejected(s, m) ==
  IF Acceptable(s, m) THEN tcp_build_and_send_sequence(s, {"ACK"}) ELSE Screened(s, m)

\* The acknowledgement taken, and whether it leaves nothing unacknowledged.
Acknowledged(s, m) == IF m.ack >= s.una THEN [s EXCEPT !.una = m.ack] ELSE s

AllAcked(s, m) == m.ack >= s.una /\ m.ack = s.nxt

\* ... which lets the next segment of the queue go.
AckedSendsNext(s, m) ==
  LET t == Acknowledged(s, m)
  IN  IF AllAcked(s, m) /\ s.timing THEN SendQueued(StopTiming(t)) ELSE t

\* A slip: rcv_nxt stays where it was.
MutTakeData(s, m) ==
  IF m.data = 0 THEN s
  ELSE tcp_build_and_send_sequence([s EXCEPT !.up = Append(@, m.data)], {"ACK"})

\* The data are acknowledged and given to the client, if there is one.
TakeData(s, m) ==
  IF m.data = 0 THEN s
  ELSE tcp_build_and_send_sequence(
         [Hurting(s, "client", s.client = "stale") EXCEPT
            !.rcv = @ + 1, !.up = IF s.client = "attached" THEN Append(@, m.data) ELSE @],
         {"ACK"})

\* The wait timer takes up its second duty, without a reference of its own.
EnterTimeWait(s) ==
  [Hurting(s, "twice", s.wait # "off") EXCEPT !.state = "TIME_WAIT", !.wait = "time_wait"]

\* case TCS_SYN_SENT.
RecvSynSent(s, m) ==
  LET acked == "ACK" \in m.flags
      t == IF acked THEN StopTiming(s) ELSE s
      u == IF acked /\ "RST" \in m.flags
             THEN tcp_socket_detach([t EXCEPT !.state = "CLOSED"])
             ELSE t
      v == [u EXCEPT !.rcv = m.seq + 1]
  IN  IF acked /\ m.ack # s.nxt
        THEN IF "RST" \in m.flags THEN s ELSE tcp_build_and_send_sequence(s, {"RST"})
      ELSE IF "SYN" \notin m.flags THEN u
      ELSE IF acked
        THEN tcp_build_and_send_sequence([v EXCEPT !.state = "ESTABLISHED", !.una = @ + 1],
                                         {"ACK"})
        ELSE tcp_build_and_send_sequence([StopTiming(v) EXCEPT !.state = "SYN_RECEIVED"],
                                         {"SYN", "ACK"})

\* case TCS_SYN_RECEIVED.
RecvSynReceived(s, m) ==
  LET t == IF s.timing THEN SendQueued(StopTiming(s)) ELSE s
      u == [t EXCEPT !.state = "ESTABLISHED", !.una = @ + 1]
  IN  IF ~ Acceptable(s, m) THEN Screened(s, m)
      ELSE IF m.ack # s.nxt THEN tcp_build_and_send_sequence(s, {"RST"})
      ELSE IF "FIN" \in m.flags
        THEN tc_close(tcp_build_and_send_sequence(
               [u EXCEPT !.rcv = @ + 1, !.state = "LAST_ACK"], {"ACK", "FIN"}))
        ELSE u

\* The FIN in TCS_ESTABLISHED: CLOSE-WAIT only if a segment is unacknowledged.
EstablishedFin(s) ==
  LET t == [s EXCEPT !.rcv = @ + 1]
  IN  tc_close(IF t.timing
        THEN tcp_build_and_send_sequence([t EXCEPT !.state = "CLOSE_WAIT"], {"ACK"})
        ELSE tcp_build_and_send_sequence([t EXCEPT !.state = "LAST_ACK"], {"ACK", "FIN"}))

\* case TCS_ESTABLISHED.
RecvEstablished(s, m) ==
  LET t == TakeData(AckedSendsNext(s, m), m)
  IN  IF ~ AckKnown(s, m) THEN Rejected(s, m)
      ELSE IF "FIN" \in m.flags THEN EstablishedFin(t) ELSE t

\* All is acknowledged in TCS_FIN_WAIT1.
FinWait1Acked(s) ==
  LET t == StopTiming(s)
  IN  IF s.timing /\ t.queue # <<>> THEN SendQueued(t)
      ELSE IF s.timing /\ t.dfin THEN tcp_send_close([t EXCEPT !.dfin = FALSE])
      ELSE [t EXCEPT !.state = "FIN_WAIT2"]

\* case TCS_FIN_WAIT1.
RecvFinWait1(s, m) ==
  LET t == Acknowledged(s, m)
      u == TakeData(IF AllAcked(s, m) THEN FinWait1Acked(t) ELSE t, m)
      v == [u EXCEPT !.rcv = @ + 1]
  IN  IF ~ AckKnown(s, m) THEN Rejected(s, m)
      ELSE IF "FIN" \notin m.flags THEN u
      ELSE tcp_build_and_send_sequence(
             IF v.state = "FIN_WAIT2" THEN EnterTimeWait(v)
                                      ELSE [v EXCEPT !.state = "CLOSING"], {"ACK"})

\* case TCS_FIN_WAIT2.
RecvFinWait2(s, m) ==
  LET t == TakeData(AckedSendsNext(s, m), m)
  IN  IF ~ AckKnown(s, m) THEN Rejected(s, m)
      ELSE IF "FIN" \in m.flags
        THEN tcp_build_and_send_sequence(EnterTimeWait([t EXCEPT !.rcv = @ + 1]), {"ACK"})
        ELSE t

\* case TCS_CLOSE_WAIT: the ACK of the last segment ends the handling of the
\* segment that brought it.
RecvCloseWait(s, m) ==
  LET t == Acknowledged(s, m)
      u == StopTiming(t)
      v == TakeData(t, m)
  IN  IF ~ AckKnown(s, m) THEN Rejected(s, m)
      ELSE IF AllAcked(s, m) /\ s.timing
        THEN IF u.queue # <<>> THEN SendQueued(u)
             ELSE [tcp_send_close(u) EXCEPT !.state = "LAST_ACK"]
      ELSE IF "FIN" \in m.flags THEN tcp_build_and_send_sequence(v, {"ACK"}) ELSE v

\* case TCS_CLOSING.
RecvClosing(s, m) ==
  LET t == Acknowledged(s, m)
  IN  IF ~ AckKnown(s, m) THEN Rejected(s, m)
      ELSE IF AllAcked(s, m) THEN EnterTimeWait(StopTiming(t)) ELSE t

\* case TCS_LAST_ACK.
RecvLastAck(s, m) ==
  LET t == Acknowledged(s, m)
  IN  IF ~ AckKnown(s, m) THEN Rejected(s, m)
      ELSE IF AllAcked(s, m) THEN close_socket(t) ELSE t

\* tcp_recv_state_machine() for a connection: TIME_WAIT and CLOSED ignore all.
tcp_recv_state_machine(s, m) ==
  CASE s.state = "SYN_SENT"     -> RecvSynSent(s, m)
    [] s.state = "SYN_RECEIVED" -> RecvSynReceived(s, m)
    [] s.state = "ESTABLISHED"  -> RecvEstablished(s, m)
    [] s.state = "FIN_WAIT1"    -> RecvFinWait1(s, m)
    [] s.state = "FIN_WAIT2"    -> RecvFinWait2(s, m)
    [] s.state = "CLOSE_WAIT"   -> RecvCloseWait(s, m)
    [] s.state = "CLOSING"      -> RecvClosing(s, m)
    [] s.state = "LAST_ACK"     -> RecvLastAck(s, m)
    [] OTHER                    -> s

-----------------------------------------------------------------------------
(* The network                                                             *)

\* What host h sends, behind what is under way.
Carry(w, h, segs) ==
  [w EXCEPT ![Peer(h)] = IF Len(@ \o segs) <= MaxNet THEN @ \o segs ELSE @]

\* Host h's socket after a handler: what it sent is under way, what it delivered
\* has arrived.
Settle(h, s, w) ==
  /\ sock' = [sock EXCEPT ![h] = [s EXCEPT !.out = <<>>, !.up = <<>>]]
  /\ got' = [got EXCEPT ![h] = @ \o s.up]
  /\ wire' = Carry(w, h, s.out)

\* As many as n of the MaxFaults faults and rare turns happen at once.
Faults(n) == faults + n <= MaxFaults /\ faults' = faults + n

Fault == Faults(1)

\* The call of a thread has made host h's socket s.  It has released ti_lock to
\* send, and it does so at once or is overtaken there: a fault more than the n that
\* led to the call.
Sends(h, thread, s, n) ==
  \/ /\ Faults(n)
     /\ Settle(h, s, wire)
  \/ /\ Faults(n + 1)
     /\ s.out # <<>>
     /\ Settle(h, [s EXCEPT !.out = <<>>, !.unsent[thread] = s.out[1]], wire)

\* Whether a thread of host h is about to send.
Sending(h, thread) == sock[h].unsent[thread] # NoSegment

\* A segment is lost.
Lose(h) ==
  /\ Fault
  /\ wire[h] # <<>>
  /\ wire' = [wire EXCEPT ![h] = Tail(@)]
  /\ UNCHANGED <<sock, listener, sent, got, closing, conns>>

\* A segment is repeated; the copy comes last.
Repeat(h) ==
  /\ Fault
  /\ wire[h] # <<>>
  /\ wire' = [wire EXCEPT ![h] = Append(@, Head(@))]
  /\ UNCHANGED <<sock, listener, sent, got, closing, conns>>

-----------------------------------------------------------------------------
(* Receiving                                                               *)

\* tcp_recv_netbuf_icmp(): whether a message of this type about the segment sent
\* from src to dest aborts the connection of host h.
Aborts(h, type, src, dest) == type = 4 /\ h = dest /\ Peer(h) = src

\* The type of the port unreachable message that tcp_recv_netbuf() sends.
PortUnreachable == 3

Icmp == [NoSegment EXCEPT !.flags = {"ICMP"}]

tcp_recv_netbuf_icmp(h, s) ==
  IF s.listed /\ Aborts(h, PortUnreachable, h, Peer(h))
    THEN IF s.state \in {"SYN_RECEIVED", "ESTABLISHED", "FIN_WAIT1", "FIN_WAIT2", "CLOSE_WAIT"}
           THEN send_reset_close_socket(s)
           ELSE close_socket(s)
    ELSE s

\* case TCS_LISTEN: an ACK is answered with a reset that begins where the ACK
\* ends, a SYN makes a connection that its owner has yet to accept.  The owner
\* rejects at once what is more than MaxConns, and a SYN is slow to arrive while
\* a timer still holds the socket of the last connection or a thread uses it.
RecvListen(m, w) ==
  LET reset(n) == <<[NoSegment EXCEPT !.seq = n, !.flags = {"RST"}]>>
      consock  == [NewSocket EXCEPT !.nxt = listener.nxt, !.rcv = m.seq + 1, !.refs = 1]
  IN  /\ \/ /\ "RST" \in m.flags
            /\ wire' = w
            /\ UNCHANGED <<listener, sock>>
         \/ /\ "RST" \notin m.flags /\ "ACK" \in m.flags
            /\ listener' = [listener EXCEPT !.nxt = m.ack]
            /\ wire' = Carry(w, B, reset(m.ack))
            /\ UNCHANGED sock
         \/ /\ m.flags = {"SYN"}
            /\ listener.pending
            /\ wire' = w
            /\ UNCHANGED <<listener, sock>>
         \/ /\ m.flags = {"SYN"}
            /\ ~listener.pending /\ conns < MaxConns
            /\ sock[B].refs = 0 /\ closing[B] \notin {"none", "stale"}
            /\ \A t \in Threads : ~Sending(B, t)
            /\ listener' = [listener EXCEPT !.pending = TRUE]
            /\ sock' = [sock EXCEPT ![B] = consock]
            /\ wire' = w
         \/ /\ m.flags = {"SYN"}
            /\ ~listener.pending /\ conns = MaxConns
            /\ wire' = Carry(w, B, reset(listener.nxt))
            /\ UNCHANGED <<listener, sock>>
      /\ UNCHANGED got

\* Whether host h has entered FIN-WAIT1 but not taken ti_lock again for its FIN.
BetweenHalves(h) == closing[h] \in {"none", "stale"} /\ ~Sending(h, "application")

\* tcp_recv_netbuf() of the i-th segment under way to h; any but the first has
\* overtaken another.
Receive(h, i) ==
  LET m == wire[h][i]
      w == [wire EXCEPT ![h] = RemoveAt(@, i)]
  IN  /\ i \in DOMAIN wire[h]
      /\ IF i = 1 THEN UNCHANGED faults ELSE Fault
      /\ \/ /\ m = Icmp
            /\ Settle(h, tcp_recv_netbuf_icmp(h, sock[h]), w)
            /\ UNCHANGED listener
         \/ /\ m # Icmp /\ sock[h].listed
            /\ Settle(h, tcp_recv_state_machine(
                           [sock[h] EXCEPT !.torn = @ \/ BetweenHalves(h)], m), w)
            /\ UNCHANGED listener
         \/ /\ m # Icmp /\ ~sock[h].listed
            /\ h = B /\ listener.state = "open"
            /\ RecvListen(m, w)
         \/ /\ m # Icmp /\ ~sock[h].listed
            /\ ~(h = B /\ listener.state = "open")
            /\ wire' = Carry(w, h, <<Icmp>>)
            /\ UNCHANGED <<sock, got, listener>>
      /\ UNCHANGED <<sent, closing, conns>>

-----------------------------------------------------------------------------
(* The timers                                                              *)

\* No thread is about to send, and nothing is under way but an ACK or two out of
\* sequence, which the hosts answer with ACKs of the same kind until one of them
\* retransmits.
Idle ==
  /\ \A h \in Hosts : sock[h].acktimer # "due" /\ \A t \in Threads : ~Sending(h, t)
  /\ Len(wire[A] \o wire[B]) <= 2
  /\ \A h \in Hosts : \A i \in DOMAIN wire[h] :
       wire[h][i].flags = {"ACK"} /\ wire[h][i].data = 0 /\ wire[h][i].seq # sock[h].rcv

\* Timers are long: it is a fault if one expires before the network is idle.
Patient == IF Idle THEN UNCHANGED faults ELSE Fault

\* oneshot_tick() has one timer expire at a time and calls back before it goes on.
Ticking(h) == sock[h].wait # "due" /\ sock[h].acktimer # "due" /\ ~Sending(h, "timer")

\* The wait timer leaves oneshot_list; tcp_tick_retransmit() is about to be called.
WaitExpires(h) ==
  /\ sock[h].wait = "retransmit" /\ Ticking(h)
  /\ Patient
  /\ sock' = [sock EXCEPT ![h].wait = "due"]
  /\ UNCHANGED <<listener, wire, sent, got, closing, conns>>

\* A slip: the reference that ti_socks has is taken for the last one.
MutTickRetransmit(h) ==
  LET s == [sock[h] EXCEPT !.wait = "off", !.refs = @ - 1]
  IN  /\ sock[h].wait = "due"
      /\ Len(wire[Peer(h)]) < MaxNet
      /\ Settle(h, s, wire)
      /\ UNCHANGED <<listener, sent, closing, conns, faults>>

\* tcp_tick_retransmit().  The segment awaiting its ACK is a clone with one
\* reference, so it is sent again even if the first copy is still queued.  The
\* timer thread is slow while the network is full.
tcp_tick_retransmit(h) ==
  LET s == [sock[h] EXCEPT !.wait = "off", !.refs = @ - 1]
      t == DropDeferredAck([s EXCEPT !.refs = @ + 1, !.wait = "retransmit"])
  IN  /\ sock[h].wait = "due"
      /\ Len(wire[Peer(h)]) < MaxNet
      /\ Sends(h, "timer",
               IF s.refs > 0 /\ s.timing THEN tcp_send_sequence(t, s.unacked) ELSE s, 0)
      /\ UNCHANGED <<listener, sent, closing, conns>>

\* The deferred ACK's timer expires.
AckExpires(h) ==
  /\ sock[h].acktimer = "on" /\ Ticking(h)
  /\ sock' = [sock EXCEPT ![h].acktimer = "due"]
  /\ UNCHANGED <<listener, wire, sent, got, closing, conns, faults>>

\* tcp_tick_deferred_ack(): the timer has no reference any more when it sends.
tcp_tick_deferred_ack(h) ==
  LET s == [sock[h] EXCEPT !.acktimer = "off", !.refs = @ - 1]
      t == [s EXCEPT !.dack = FALSE]
  IN  /\ sock[h].acktimer = "due"
      /\ Sends(h, "timer", IF s.refs > 0 /\ s.dack
                              THEN tcp_send_sequence(t, build_netbuf(t, {"ACK"}, 0))
                              ELSE s, 0)
      /\ UNCHANGED <<listener, sent, closing, conns>>

\* tcp_tick_time_wait().
tcp_tick_time_wait(h) ==
  /\ sock[h].wait = "time_wait" /\ Ticking(h)
  /\ Patient
  /\ sock' = [sock EXCEPT ![h] =
               tcp_socket_detach([@ EXCEPT !.wait = "off", !.state = "CLOSED"])]
  /\ UNCHANGED <<listener, wire, sent, got, closing, conns>>

-----------------------------------------------------------------------------
(* The application                                                         *)

\* A socket that its creator has attached and let go of.
Attached(s) == [tcp_socket_attach(s) EXCEPT !.client = "attached"]

\* Whether host h's application has not yet used its socket.
Unused(h) == sock[h] = NewSocket /\ (h = B => listener.state = "none")

\* The application of host h is in no call of tcp.c and has a connection.
Calls(h) == closing[h] = "no" /\ sock[h].client = "attached" /\ ~Sending(h, "application")

Synchronizing(s) == s.state \in {"SYN_SENT", "SYN_RECEIVED"}

\* tcp_connect(): the caller sleeps until the connection has left the two
\* synchronization states.
tcp_connect(h) ==
  /\ Unused(h) /\ closing[h] = "no"
  /\ closing' = [closing EXCEPT ![h] = "connecting"]
  /\ Sends(h, "application", tcp_build_and_send_sequence(
                 [Attached(sock[h]) EXCEPT !.state = "SYN_SENT"], {"SYN"}), IF h = A THEN 0 ELSE 1)
  /\ UNCHANGED <<listener, sent, conns>>

\* The sleep in tcp_connect() is interrupted.
ConnectInterrupted(h) ==
  /\ closing[h] = "connecting" /\ ~Sending(h, "application")
  /\ Synchronizing(sock[h])
  /\ Fault
  /\ closing' = [closing EXCEPT ![h] = "no"]
  /\ sock' = [sock EXCEPT ![h] = tcp_socket_detach([StopTiming(@) EXCEPT !.state = "CLOSED"])]
  /\ UNCHANGED <<listener, wire, sent, got, conns>>

\* tcp_connect() has been woken up, looks at the state of the socket and returns.
ConnectReturns(h) ==
  /\ closing[h] = "connecting" /\ ~Sending(h, "application")
  /\ ~Synchronizing(sock[h])
  /\ closing' = [closing EXCEPT ![h] = "no"]
  /\ sock' = [sock EXCEPT ![h] = Used(@)]
  /\ UNCHANGED <<listener, wire, sent, got, conns, faults>>

\* tcp_listen().
tcp_listen ==
  /\ Unused(B)
  /\ listener' = [listener EXCEPT !.state = "open"]
  /\ UNCHANGED <<sock, wire, sent, got, closing, conns, faults>>

\* tcp_client_detach() of the listener's client.
DetachListener ==
  /\ listener.state = "open"
  /\ Fault
  /\ listener' = [listener EXCEPT !.state = "closed"]
  /\ UNCHANGED <<sock, wire, sent, got, closing, conns>>

\* tcp_accept(): only now is the SYN answered.
tcp_accept ==
  /\ listener.state = "open" /\ listener.pending
  /\ listener' = [listener EXCEPT !.pending = FALSE]
  /\ conns' = conns + 1
  /\ Sends(B, "application", tcp_build_and_send_sequence(
                 [Attached(sock[B]) EXCEPT !.state = "SYN_RECEIVED", !.refs = @ - 1],
                 {"SYN", "ACK"}), 0)
  /\ UNCHANGED <<sent, closing>>

\* tcp_reject().  Nobody else knows of the socket, which has its reference until
\* the reset is sent.
tcp_reject ==
  /\ listener.state = "open" /\ listener.pending
  /\ Fault
  /\ listener' = [listener EXCEPT !.pending = FALSE]
  /\ Settle(B, [tcp_build_and_send_sequence(sock[B], {"RST"}) EXCEPT !.refs = @ - 1], wire)
  /\ UNCHANGED <<sent, closing, conns>>

\* tcp_send_netbuf(): one segment at a time is on its way.  The application has no
\* reference to the socket, and looks at its state even if it has been freed.
tcp_send_netbuf(h) ==
  LET s == sock[h]
      n == sent[h] + 1
  IN  /\ sent[h] < MaxSend[h]
      /\ Calls(h)
      /\ \/ /\ s.state = "ESTABLISHED"
            /\ sent' = [sent EXCEPT ![h] = n]
            /\ Sends(h, "application", IF s.timing THEN [s EXCEPT !.queue = Append(@, n)]
                                                   ELSE tcp_send_netbuf_now(s, n), 0)
         \/ /\ s.refs = 0
            /\ sock' = [sock EXCEPT ![h] = Used(@)]
            /\ UNCHANGED <<wire, sent, got, faults>>
      /\ UNCHANGED <<listener, closing, conns>>

\* tcp_close(), which unhooks the client from the socket, or tcp_client_detach(),
\* which only frees it; with client_close_socket() up to where it unlocks.  Both
\* look at the socket, and tcp_close() writes to it, even if it has been freed.
tcp_close(h, client) ==
  LET s == sock[h]
  IN  /\ Calls(h)
      /\ \/ /\ s.state = "ESTABLISHED" /\ ~s.timing
            /\ sock' = [sock EXCEPT ![h].state = "FIN_WAIT1"]
            /\ closing' = [closing EXCEPT ![h] = client]
         \/ /\ s.state = "ESTABLISHED" /\ s.timing
            /\ sock' = [sock EXCEPT ![h] = [@ EXCEPT !.state = "FIN_WAIT1", !.dfin = TRUE,
                                                     !.client = client]]
            /\ closing' = [closing EXCEPT ![h] = "done"]
         \/ /\ s.state # "ESTABLISHED"
            /\ sock' = [sock EXCEPT ![h] = [Used(@) EXCEPT !.client = client]]
            /\ closing' = [closing EXCEPT ![h] = "done"]
      /\ UNCHANGED <<listener, wire, sent, got, conns, faults>>

\* The end of tcp_close() or tcp_client_detach(), once the FIN has been sent.
Closed(h, s) ==
  /\ closing' = [closing EXCEPT ![h] = "done"]
  /\ Settle(h, [s EXCEPT !.client = closing[h]], wire)

\* client_close_socket(): the FIN, built without looking at the state again.
SendClose(h) ==
  LET s == tcp_send_close(Used(sock[h]))
  IN  /\ BetweenHalves(h)
      /\ \/ Closed(h, s) /\ UNCHANGED faults
         \/ /\ Fault
            /\ Settle(h, [s EXCEPT !.out = <<>>, !.unsent["application"] = s.out[1]], wire)
            /\ UNCHANGED closing
      /\ UNCHANGED <<listener, sent, conns>>

-----------------------------------------------------------------------------
(* Sending after being overtaken                                           *)

\* tcp_send_sequence() at last, by a thread that may have no reference: the ACK is
\* that of now.
SendsAtLast(h, thread) ==
  LET s == tcp_send_sequence([Used(sock[h]) EXCEPT !.unsent[thread] = NoSegment],
                             sock[h].unsent[thread])
  IN  /\ Sending(h, thread)
      /\ \/ /\ thread = "application" /\ closing[h] \in {"none", "stale"}
            /\ Closed(h, s)
         \/ /\ ~(thread = "application" /\ closing[h] \in {"none", "stale"})
            /\ Settle(h, s, wire)
            /\ UNCHANGED closing
      /\ UNCHANGED <<listener, sent, conns, faults>>

-----------------------------------------------------------------------------
Init ==
  /\ sock = [h \in Hosts |-> NewSocket]
  /\ listener = [state |-> "none", pending |-> FALSE, nxt |-> ISS]
  /\ wire = [h \in Hosts |-> <<>>]
  /\ sent = [h \in Hosts |-> 0]
  /\ got = [h \in Hosts |-> <<>>]
  /\ closing = [h \in Hosts |-> "no"]
  /\ conns = 0
  /\ faults = 0

Hurt == \E h \in Hosts : sock[h].hurt # {}

Timers(h) ==
  \/ WaitExpires(h)
  \/ tcp_tick_retransmit(h)
  \/ AckExpires(h)
  \/ tcp_tick_deferred_ack(h)
  \/ tcp_tick_time_wait(h)
  \/ SendsAtLast(h, "timer")

Application(h) ==
  \/ tcp_connect(h)
  \/ ConnectInterrupted(h)
  \/ ConnectReturns(h)
  \/ tcp_send_netbuf(h)
  \/ \E client \in {"none", "stale"} : tcp_close(h, client)
  \/ SendClose(h)
  \/ SendsAtLast(h, "application")

Next ==
  /\ ~Hurt
  /\ \/ \E h \in Hosts :
          \/ Lose(h)
          \/ Repeat(h)
          \/ \E i \in 1 .. MaxNet + 1 : Receive(h, i)
          \/ Timers(h)
          \/ Application(h)
     \/ tcp_listen
     \/ DetachListener
     \/ tcp_accept
     \/ tcp_reject

Spec == Init /\ [][Next]_vars

\* The network delivers what it does not lose, the timer thread counts down and runs
\* whatever else goes on, and a thread that was overtaken goes on.
FairSpec ==
  /\ Spec
  /\ \A h \in Hosts :
       /\ WF_vars(~Hurt /\ Receive(h, 1))
       /\ WF_vars(~Hurt /\ (tcp_tick_deferred_ack(h) \/ SendsAtLast(h, "timer")))
       /\ WF_vars(~Hurt /\ SendsAtLast(h, "application"))
       /\ SF_vars(~Hurt /\ (WaitExpires(h) \/ tcp_tick_retransmit(h)))

-----------------------------------------------------------------------------
(* Properties                                                              *)

\* Type invariant of a connection: a socket never has more than the three references
\* that its place in ti_socks, its timers and tl_accept can account for at once.
TypeOK ==
  /\ \A h \in Hosts :
       /\ sock[h].state \in States
       /\ sock[h].refs \in 0 .. 3
       /\ sock[h].wait \in {"off", "retransmit", "due", "time_wait"}
       /\ sent[h] \in 0 .. MaxSend[h]
       /\ closing[h] \in {"no", "connecting", "none", "stale", "done"}
  /\ listener.state \in {"none", "open", "closed"}
  /\ conns \in 0 .. MaxConns
  /\ faults \in 0 .. MaxFaults

\* What tc_recv gets is a prefix of what the other side has sent: nothing is
\* lost, repeated or out of order, whatever the network does.
InOrder ==
  \A h \in Hosts :
    /\ Len(got[h]) <= sent[Peer(h)]
    /\ got[h] = [i \in 1 .. Len(got[h]) |-> i]

\* A segment is dropped from ts_awaiting_ack only when the other side has it.
AckedWasReceived == \A h \in Hosts : sock[h].una <= sock[Peer(h)].rcv

\* A socket has one reference for its place in ti_socks, one for each of its two
\* timers while they run or their callbacks are due, and one while it waits to be
\* accepted.  The TIME-WAIT timer is attached without one.
RefsExactOf(h) ==
  sock[h].refs = Cardinality({x \in {"list", "wait", "ack", "accept"} :
    \/ x = "list" /\ sock[h].listed
    \/ x = "wait" /\ sock[h].wait \in {"retransmit", "due"}
    \/ x = "ack" /\ sock[h].acktimer # "off"
    \/ x = "accept" /\ h = B /\ listener.pending})

RefsExact == \A h \in Hosts : RefsExactOf(h)

\* The references are exact and no timer is attached twice, through every
\* interleaving of the receive thread, the timer thread and the application, but
\* for two races: a callback is overtaken by the code that stops its timer, or a
\* segment comes between the halves of client_close_socket().  The counts must be
\* right even where a thread uses a freed socket or calls a freed client.
RefsHeld ==
  \A h \in Hosts :
    \/ "late" \in sock[h].hurt
    \/ "twice" \in sock[h].hurt /\ sock[h].torn
    \/ "twice" \notin sock[h].hurt /\ RefsExactOf(h)

\* What has been sent arrives: losses are made good by tcp_tick_retransmit().  It
\* need not if one side closes its socket first or a socket is hurt.
Arrives ==
  \A h \in Hosts : \A n \in 1 .. MaxSend[h] :
    (sent[h] = n) ~> \/ sock[Peer(h)].rcv > n
                     \/ \E g \in Hosts : sock[g].state = "CLOSED"
                     \/ Hurt

\* client_close_socket(): while a segment is unacknowledged the FIN is owed.
FinOwed ==
  \A h \in Hosts :
    sock[h].state = "FIN_WAIT1" /\ sock[h].timing /\ ~sock[h].fin => sock[h].dfin

=============================================================================
