-------------------------------- MODULE Slip --------------------------------
(***************************************************************************)
(* slip.c over a serial line: the send thread of one host and the octet    *)
(* handler of the other.  An octet is the character END, ESC, 0xdc or 0xdd *)
(* or any other one, "x".  The line may lose an octet or change it.  The   *)
(* octet handler runs in the UART's receive thread, the most urgent one of *)
(* the host, so it is one action although it gives up idi_lock for the     *)
(* client's callback.                                                      *)
(***************************************************************************)
EXTENDS Integers, Sequences, FiniteSets, SequencesExt

CONSTANTS
  MRU,           \* the size of the receive buffer
  Packets,       \* what the sender may send, each packet once
  MaxLine,       \* bound: octets on the line when a packet follows
  MaxNoise       \* bound: damaged octets, and packets that no client is there for

VARIABLES
  send_queue,    \* si_send_queue
  sent,          \* the packets that the send thread has taken, in order
  line,          \* the octets under way
  rx,            \* the receive fields of struct slip_instance
  idi_client,    \* whether the receiver has a client
  got,           \* the packets the client was given, in order
  missed,        \* packets that arrived while there was no client
  noise          \* the octets damaged so far

vars == <<send_queue, sent, line, rx, idi_client, got, missed, noise>>

Octets == {"END", "ESC", "dc", "dd", "x"}

-----------------------------------------------------------------------------
(***************************************************************************)
(* Sending.                                                                *)
(***************************************************************************)

\* What one octet of a packet becomes on the line.
Escaped(ch) ==
  CASE ch = "END" -> <<"ESC", "dc">>
    [] ch = "ESC" -> <<"ESC", "dd">>
    [] OTHER -> <<ch>>

slip_send_sequence(buf) == FlattenSeq([i \in 1..Len(buf) |-> Escaped(buf[i])])

slip_send_netbuf(nb) ==
  /\ ~ Contains(send_queue \o sent, nb)
  /\ send_queue' = Append(send_queue, nb)
  /\ UNCHANGED <<sent, line, rx, idi_client, got, missed, noise>>

\* One turn of the loop.  The octets leave one after another; what the octet
\* handler does depends only on their order.
slip_send_thread ==
  /\ send_queue # <<>>
  /\ Len(line) <= MaxLine
  /\ line' = line \o <<"END">> \o slip_send_sequence(Head(send_queue)) \o <<"END">>
  /\ sent' = Append(sent, Head(send_queue))
  /\ send_queue' = Tail(send_queue)
  /\ UNCHANGED <<rx, idi_client, got, missed, noise>>

-----------------------------------------------------------------------------
(***************************************************************************)
(* Receiving.                                                              *)
(***************************************************************************)

\* The receive fields after an END.
FrameStart == [packet |-> <<>>, esc |-> FALSE, ignore |-> FALSE]

\* Another octet in the buffer; the one that fills it gives the frame up.
Store(ch) ==
  LET packet == Append(rx.packet, ch)
  IN  [packet |-> packet, esc |-> FALSE, ignore |-> Len(packet) >= MRU]

GiveUp == [rx EXCEPT !.ignore = TRUE]

RecvEnd ==
  LET complete == ~ rx.ignore /\ rx.packet # <<>>
  IN  /\ got' = IF complete /\ idi_client THEN Append(got, rx.packet) ELSE got
      /\ missed' = IF complete /\ ~ idi_client THEN missed + 1 ELSE missed
      /\ rx' = FrameStart

RecvOctet(ch) ==
  /\ rx' = CASE rx.ignore -> rx
             [] ~ rx.ignore /\ ch = "ESC" -> IF rx.esc THEN GiveUp ELSE [rx EXCEPT !.esc = TRUE]
             [] ~ rx.ignore /\ ch # "ESC" /\ rx.esc ->
                  CASE ch = "dc" -> Store("END")
                    [] ch = "dd" -> Store("ESC")
                    [] OTHER -> GiveUp
             [] OTHER -> Store(ch)
  /\ UNCHANGED <<got, missed>>

slip_recv_u8 ==
  /\ line # <<>>
  /\ line' = Tail(line)
  /\ IF Head(line) = "END" THEN RecvEnd ELSE RecvOctet(Head(line))
  /\ UNCHANGED <<send_queue, sent, idi_client, noise>>

slip_client_attach ==
  /\ ~ idi_client
  /\ idi_client' = TRUE
  /\ UNCHANGED <<send_queue, sent, line, rx, got, missed, noise>>

\* The caller has a client attached: without one the code follows a null pointer.
ip_datalink_client_detach ==
  /\ idi_client
  /\ missed < MaxNoise
  /\ idi_client' = FALSE
  /\ UNCHANGED <<send_queue, sent, line, rx, got, missed, noise>>

-----------------------------------------------------------------------------

\* The line loses the next octet or makes another one of it.
Damage ==
  /\ line # <<>> /\ noise < MaxNoise
  /\ noise' = noise + 1
  /\ \/ line' = Tail(line)
     \/ \E ch \in Octets \ {Head(line)} : line' = <<ch>> \o Tail(line)
  /\ UNCHANGED <<send_queue, sent, rx, idi_client, got, missed>>

slip_instance_alloc ==
  /\ send_queue = <<>>
  /\ rx = [packet |-> <<>>, esc |-> FALSE, ignore |-> TRUE]
  /\ idi_client = FALSE

Init ==
  /\ slip_instance_alloc
  /\ sent = <<>> /\ line = <<>> /\ got = <<>> /\ missed = 0 /\ noise = 0

Next ==
  \/ \E nb \in Packets : slip_send_netbuf(nb)
  \/ slip_send_thread
  \/ slip_recv_u8
  \/ slip_client_attach
  \/ ip_datalink_client_detach
  \/ Damage

Spec == Init /\ [][Next]_vars

-----------------------------------------------------------------------------
(***************************************************************************)
(* Properties                                                              *)
(***************************************************************************)

\* A packet that fills the buffer is given up, so MRU - 1 octets is the most.
Fits(nb) == Len(nb) < MRU

\* What damage there was is contained: when the line has drained, each damaged
\* octet has cost at most one of the packets that slip_send_thread() put on it,
\* and on a line that damages nothing the packets arrive whole and in order.
Contained ==
  LET lost == {i \in 1..Len(sent) : Fits(sent[i]) /\ ~ Contains(got, sent[i])}
  IN  /\ line = <<>> => Cardinality(lost) <= noise + missed
      /\ noise = 0 => got = SelectSeq(sent, LAMBDA nb : Fits(nb) /\ Contains(got, nb))

=============================================================================
