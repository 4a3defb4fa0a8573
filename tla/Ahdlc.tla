-------------------------------- MODULE Ahdlc -------------------------------
(***************************************************************************)
(* ppp_ahdlc.c over a serial line: the send thread of one host and the     *)
(* octet handler of the other.  An octet is a tuple of names: FLAG, ESC,   *)
(* the header's 0xff and 0x03, a control character that the ACCM covers,   *)
(* any other one, the two octets of the check sequence of what they cover, *)
(* and any of these with its bit 0x20 flipped.  No two texts have the same *)
(* check sequence.  As in Slip the octet handler is one action.            *)
(***************************************************************************)
EXTENDS Integers, Sequences, FiniteSets, SequencesExt

CONSTANTS
  MRU,           \* the size of the receive buffer
  Packets,       \* what the sender may send, each packet once
  MaxLine,       \* bound: octets on the line when a packet follows
  MaxNoise       \* bound: damaged octets, and packets that no client is there for

VARIABLES
  send_queue,    \* pai_send_queue: packets with the ACCM of their hint
  pai_accm,      \* whether the ACCM of the sender covers the control character
  sent,          \* the packets that the send thread has taken, in order
  line,          \* the octets under way
  rx,            \* the receive fields of struct ppp_ahdlc_instance
  pai_client,    \* whether the receiver has a client
  got,           \* the packets the client was given, in order
  missed,        \* packets that arrived while there was no client
  noise          \* the octets damaged so far

vars == <<send_queue, pai_accm, sent, line, rx, pai_client, got, missed, noise>>

FLAG == <<"7e">>
ESC == <<"7d">>
CONTROL == <<"control">>
HEADER == << <<"ff">>, <<"03">> >>

\* What an octet may turn into on a noisy line.
Octets == {FLAG, ESC, CONTROL, <<"x">>}

\* ch ^ 0x20
Flip(ch) == IF Head(ch) = "^" THEN Tail(ch) ELSE <<"^">> \o ch

\* What update_crc() over the octets of s amounts to.
CheckSequence(s) == << <<"lo">> \o FlattenSeq(s), <<"hi">> \o FlattenSeq(s) >>

-----------------------------------------------------------------------------
(***************************************************************************)
(* Sending.                                                                *)
(***************************************************************************)

send_u8(ch, accm) ==
  IF ch \in {FLAG, ESC} \/ (ch = CONTROL /\ accm) THEN <<ESC, Flip(ch)>> ELSE <<ch>>

ppp_ahdlc_send_sequence(buf, accm) == FlattenSeq([i \in 1..Len(buf) |-> send_u8(buf[i], accm)])

ppp_ahdlc_send_netbuf(nb) ==
  /\ \A i \in 1..Len(send_queue) : send_queue[i].nb # nb
  /\ ~ Contains(sent, nb)
  /\ send_queue' = Append(send_queue, [nb |-> nb, accm |-> pai_accm])
  /\ UNCHANGED <<pai_accm, sent, line, rx, pai_client, got, missed, noise>>

ppp_ahdlc_set_accm ==
  /\ pai_accm' = ~ pai_accm
  /\ UNCHANGED <<send_queue, sent, line, rx, pai_client, got, missed, noise>>

\* One turn of the loop.  What comes before the loop changes nothing: no client
\* sets pac_link_up.
ppp_ahdlc_send_thread ==
  /\ send_queue # <<>>
  /\ Len(line) <= MaxLine
  /\ LET nb == Head(send_queue).nb
         frame == HEADER \o nb \o CheckSequence(HEADER \o nb)
     IN  /\ line' = line \o <<FLAG>>
                         \o ppp_ahdlc_send_sequence(frame, Head(send_queue).accm) \o <<FLAG>>
         /\ sent' = Append(sent, nb)
  /\ send_queue' = Tail(send_queue)
  /\ UNCHANGED <<pai_accm, rx, pai_client, got, missed, noise>>

-----------------------------------------------------------------------------
(***************************************************************************)
(* Receiving.                                                              *)
(***************************************************************************)

\* pai_recv_crc is 0xf0b8 after a text and its check sequence.
CrcGood(packet) ==
  LET n == Len(packet) - 2
  IN  n >= 0 /\ SubSeq(packet, n + 1, n + 2) = CheckSequence(SubSeq(packet, 1, n))

\* The sanity check.  With a single octet pai_recv_packet[1] is what the buffer
\* happened to hold, so the answer is either.
Accepts(packet) ==
  IF CrcGood(packet) \/ packet[1] = HEADER[1]
  THEN {TRUE}
  ELSE IF Len(packet) = 1 THEN BOOLEAN ELSE {packet[2] = HEADER[2]}

\* The netbuf has neither the header nor the check sequence.  The size of a
\* frame of less than four octets wraps round: what follows in memory is part of it.
Stripped(packet) ==
  IF Len(packet) < 4 THEN << <<"wrapped">> >> ELSE SubSeq(packet, 3, Len(packet) - 2)

\* A slip: a frame that was given up keeps its flag past the FLAG.
MutFrameStart == [packet |-> <<>>, esc |-> FALSE, ignore |-> rx.ignore]

\* The receive fields after a FLAG.
FrameStart == [packet |-> <<>>, esc |-> FALSE, ignore |-> FALSE]

RecvFlag ==
  \E accepted \in IF rx.ignore \/ rx.packet = <<>> THEN {FALSE} ELSE Accepts(rx.packet) :
    /\ got' = IF accepted /\ pai_client THEN Append(got, Stripped(rx.packet)) ELSE got
    /\ missed' = IF accepted /\ ~ pai_client THEN missed + 1 ELSE missed
    /\ rx' = FrameStart

RecvOctet(ch) ==
  /\ rx' = CASE rx.ignore -> rx
             [] ~ rx.ignore /\ ch = ESC ->
                  IF rx.esc THEN [rx EXCEPT !.ignore = TRUE] ELSE [rx EXCEPT !.esc = TRUE]
             [] OTHER ->
                  LET packet == Append(rx.packet, IF rx.esc THEN Flip(ch) ELSE ch)
                  IN  [packet |-> packet, esc |-> FALSE, ignore |-> Len(packet) >= MRU]
  /\ UNCHANGED <<got, missed>>

ppp_ahdlc_recv_u8 ==
  /\ line # <<>>
  /\ line' = Tail(line)
  /\ IF Head(line) = FLAG THEN RecvFlag ELSE RecvOctet(Head(line))
  /\ UNCHANGED <<send_queue, pai_accm, sent, pai_client, noise>>

ppp_ahdlc_client_attach ==
  /\ ~ pai_client
  /\ pai_client' = TRUE
  /\ UNCHANGED <<send_queue, pai_accm, sent, line, rx, got, missed, noise>>

\* The caller has a client attached: without one the code follows a null pointer.
ppp_ahdlc_client_detach ==
  /\ pai_client
  /\ missed < MaxNoise
  /\ pai_client' = FALSE
  /\ UNCHANGED <<send_queue, pai_accm, sent, line, rx, got, missed, noise>>

-----------------------------------------------------------------------------

\* The line loses the next octet or makes another one of it.
Damage ==
  /\ line # <<>> /\ noise < MaxNoise
  /\ noise' = noise + 1
  /\ \/ line' = Tail(line)
     \/ \E ch \in Octets \ {Head(line)} : line' = <<ch>> \o Tail(line)
  /\ UNCHANGED <<send_queue, pai_accm, sent, rx, pai_client, got, missed>>

ppp_ahdlc_instance_alloc ==
  /\ send_queue = <<>>
  /\ pai_accm = TRUE
  /\ rx = [packet |-> <<>>, esc |-> FALSE, ignore |-> TRUE]
  /\ pai_client = FALSE

Init ==
  /\ ppp_ahdlc_instance_alloc
  /\ sent = <<>> /\ line = <<>> /\ got = <<>> /\ missed = 0 /\ noise = 0

Next ==
  \/ \E nb \in Packets : ppp_ahdlc_send_netbuf(nb)
  \/ ppp_ahdlc_set_accm
  \/ ppp_ahdlc_send_thread
  \/ ppp_ahdlc_recv_u8
  \/ ppp_ahdlc_client_attach
  \/ ppp_ahdlc_client_detach
  \/ Damage

Spec == Init /\ [][Next]_vars

-----------------------------------------------------------------------------
(***************************************************************************)
(* Properties                                                              *)
(***************************************************************************)

\* The octet that fills the buffer gives the frame up, header and check
\* sequence included.
Fits(nb) == Len(nb) + 4 < MRU

\* What damage there was is contained: when the line has drained, each damaged
\* octet has cost at most one of the packets that ppp_ahdlc_send_thread() put on
\* it, whatever the ACCM was when, and on a line that damages nothing the
\* packets arrive whole and in order.
Contained ==
  LET lost == {i \in 1..Len(sent) : Fits(sent[i]) /\ ~ Contains(got, sent[i])}
  IN  /\ line = <<>> => Cardinality(lost) <= noise + missed
      /\ noise = 0 => got = SelectSeq(sent, LAMBDA nb : Fits(nb) /\ Contains(got, nb))

=============================================================================
