-------------------------------- MODULE Ppp --------------------------------
(***************************************************************************)
(* The link control protocol of ppp.c: the option negotiation automaton of *)
(* RFC 1661 as a table of transitions, the actions a transition takes and  *)
(* the handling of a received packet.  An instance is a record; a handler  *)
(* maps the record before it to the record after it, and what it hands to  *)
(* the framing layer is collected in out.  PppLink runs two of them over a *)
(* line.                                                                   *)
(*                                                                         *)
(* An option is its name.  Requests of this code ask for "mru" and "accm"; *)
(* "bad" stands for an option whose value the code does not accept and     *)
(* "other" for one that it does not know.                                  *)
(***************************************************************************)
EXTENDS Integers, Sequences

CONSTANTS
  RESTART_MAX_CONFIGURE,   \* how often a configure request is sent
  RESTART_MAX_TERMINATE    \* how often a terminate request is sent

States == {"INITIAL", "STARTING", "CLOSED", "STOPPED", "CLOSING", "STOPPING",
           "REQ_SENT", "ACK_RCVD", "ACK_SENT", "OPENED"}

Phases == {"DEAD", "ESTABLISH", "NETWORK", "TERMINATE"}

\* The states in which the restart timer runs.
Restarting == {"CLOSING", "STOPPING", "REQ_SENT", "ACK_RCVD", "ACK_SENT"}

LcpOptions == {"mru", "accm"}

\* What handing out a freed or an empty pi_send puts on the line: nothing a
\* receiver makes sense of.
Junk == [proto |-> "none", code |-> "JUNK", id |-> 0, opts |-> {}]

Packet(p, code, id, opts) == [proto |-> p.proto, code |-> code, id |-> id, opts |-> opts]

\* A slip: the identifier is kept in a wider type.
MutU8(n) == n

u8_t(n) == n % 256

\* A new instance of either protocol.  up counts the calls of pc_link_up that a
\* handler makes.
NewInstance(proto, options) ==
  [proto |-> proto, state |-> "INITIAL", phase |-> "DEAD", ident |-> 0, restart |-> 0,
   timer |-> FALSE, due |-> FALSE, send |-> Junk, usage |-> options,
   out |-> <<>>, up |-> 0]

-----------------------------------------------------------------------------
(***************************************************************************)
(* The table of transitions: the actions to take and the state to enter.   *)
(***************************************************************************)

Stay(s) == <<<<>>, s>>

\* Before the link is up nothing but the administrator moves the automaton.
Down == {"INITIAL", "STARTING"}

Negotiating == {"REQ_SENT", "ACK_RCVD", "ACK_SENT"}

\* The up, down, open, close and timeout events.
LocalTransition(event, s) ==
  CASE event = "UP" ->
         CASE s = "INITIAL"  -> <<<<>>, "CLOSED">>
           [] s = "STARTING" -> <<<<"IRC", "SCR">>, "REQ_SENT">>
           [] OTHER          -> Stay(s)
    [] event = "DOWN" ->
         CASE s \in {"INITIAL", "CLOSED", "CLOSING"} -> <<<<>>, "INITIAL">>
           [] s = "STOPPED" -> <<<<"TLS">>, "STARTING">>
           [] s = "OPENED"  -> <<<<"TLD">>, "STARTING">>
           [] OTHER         -> <<<<>>, "STARTING">>
    [] event = "OPEN" ->
         CASE s = "INITIAL" -> <<<<"TLS">>, "STARTING">>
           [] s = "CLOSED"  -> <<<<"IRC", "SCR">>, "REQ_SENT">>
           [] s = "CLOSING" -> <<<<>>, "STOPPING">>
           [] OTHER         -> Stay(s)
    [] event = "CLOSE" ->
         CASE s = "STARTING"                 -> <<<<"TLF">>, "INITIAL">>
           [] s = "STOPPED"                  -> <<<<>>, "CLOSED">>
           [] s = "STOPPING"                 -> <<<<>>, "CLOSING">>
           [] s \in Negotiating              -> <<<<"IRC", "STR">>, "CLOSING">>
           [] s = "OPENED"                   -> <<<<"TLD", "IRC", "STR">>, "CLOSING">>
           [] OTHER                          -> Stay(s)
    [] event = "TO_P" ->
         CASE s \in {"CLOSING", "STOPPING"}  -> <<<<"STR">>, s>>
           [] s \in {"REQ_SENT", "ACK_RCVD"} -> <<<<"SCR">>, "REQ_SENT">>
           [] s = "ACK_SENT"                 -> <<<<"SCR">>, "ACK_SENT">>
           [] OTHER                          -> Stay(s)
    [] event = "TO_M" ->
         CASE s = "CLOSING"                  -> <<<<"TLF">>, "CLOSED">>
           [] s \in Negotiating \union {"STOPPING"} -> <<<<"TLF">>, "STOPPED">>
           [] OTHER                          -> Stay(s)

\* The received requests, acknowledgements and rejections.
ConfigureTransition(event, s) ==
  CASE s \in Down \union {"CLOSING", "STOPPING"} -> Stay(s)
    [] s = "CLOSED" -> <<<<"STA">>, "CLOSED">>
    [] event = "RCR_P" /\ s = "STOPPED"  -> <<<<"IRC", "SCR", "SCA">>, "ACK_SENT">>
    [] event = "RCR_P" /\ s = "ACK_RCVD" -> <<<<"SCA", "TLU">>, "OPENED">>
    [] event = "RCR_P" /\ s = "OPENED"   -> <<<<"TLD", "SCR", "SCA">>, "ACK_SENT">>
    [] event = "RCR_P" /\ s \in {"REQ_SENT", "ACK_SENT"} -> <<<<"SCA">>, "ACK_SENT">>
    [] event = "RCR_M" /\ s = "STOPPED"  -> <<<<"IRC", "SCR", "SCN">>, "REQ_SENT">>
    [] event = "RCR_M" /\ s = "ACK_RCVD" -> <<<<"SCN">>, "ACK_RCVD">>
    [] event = "RCR_M" /\ s = "OPENED"   -> <<<<"TLD", "SCR", "SCN">>, "REQ_SENT">>
    [] event = "RCR_M" /\ s \in {"REQ_SENT", "ACK_SENT"} -> <<<<"SCN">>, "REQ_SENT">>
    [] event \in {"RCA", "RCN"} /\ s = "STOPPED"  -> <<<<"STA">>, "STOPPED">>
    [] event \in {"RCA", "RCN"} /\ s = "ACK_RCVD" -> <<<<"SCR">>, "REQ_SENT">>
    [] event \in {"RCA", "RCN"} /\ s = "OPENED"   -> <<<<"TLD", "SCR">>, "REQ_SENT">>
    [] event = "RCA" /\ s = "REQ_SENT"   -> <<<<"IRC">>, "ACK_RCVD">>
    [] event = "RCA" /\ s = "ACK_SENT"   -> <<<<"IRC", "TLU">>, "OPENED">>
    [] event = "RCN" /\ s \in {"REQ_SENT", "ACK_SENT"}   -> <<<<"IRC", "SCR">>, s>>

\* The received terminations, rejections of a code or a protocol, and echoes.
TerminateTransition(event, s) ==
  CASE s \in Down -> Stay(s)
    [] event = "RTR" ->
         CASE s \in Negotiating -> <<<<"STA">>, "REQ_SENT">>
           [] s = "OPENED"      -> <<<<"TLD", "ZRC", "STA">>, "STOPPING">>
           [] OTHER             -> <<<<"STA">>, s>>
    [] event = "RTA" ->
         CASE s = "CLOSING"     -> <<<<"TLF">>, "CLOSED">>
           [] s = "STOPPING"    -> <<<<"TLF">>, "STOPPED">>
           [] s = "ACK_RCVD"    -> <<<<>>, "REQ_SENT">>
           [] s = "OPENED"      -> <<<<"TLD", "SCR">>, "REQ_SENT">>
           [] OTHER             -> Stay(s)
    [] event = "RUC" -> <<<<"SCJ">>, s>>
    [] event = "RXJ_P" -> IF s = "ACK_RCVD" THEN <<<<>>, "REQ_SENT">> ELSE Stay(s)
    [] event = "RXJ_M" ->
         CASE s \in {"CLOSED", "CLOSING"} -> <<<<"TLF">>, "CLOSED">>
           [] s = "OPENED"      -> <<<<"TLD", "IRC", "STR">>, "STOPPING">>
           [] OTHER             -> <<<<"TLF">>, "STOPPED">>
    [] event = "RXR" -> IF s = "OPENED" THEN <<<<"SER">>, s>> ELSE Stay(s)

ppp_trans(event, s) ==
  CASE event \in {"UP", "DOWN", "OPEN", "CLOSE", "TO_P", "TO_M"} -> LocalTransition(event, s)
    [] event \in {"RCR_P", "RCR_M", "RCA", "RCN"} -> ConfigureTransition(event, s)
    [] event \in {"RTR", "RTA", "RUC", "RXJ_P", "RXJ_M", "RXR"} -> TerminateTransition(event, s)

-----------------------------------------------------------------------------
(***************************************************************************)
(* Actions and events.                                                     *)
(***************************************************************************)

\* The timer is put back in front of its ticks.
StartTimer(p) == [p EXCEPT !.timer = TRUE]

StopTimer(p) == [p EXCEPT !.timer = FALSE]

\* A slip: nothing makes sure that the request is sent again.
MutSendConfigureRequest(p) ==
  IF p.restart = 0 THEN p
  ELSE [p EXCEPT !.restart = @ - 1, !.ident = u8_t(@ + 1),
                 !.out = Append(@, Packet(p, "CONF_REQ", u8_t(p.ident + 1), p.usage))]

\* lcp_build_req() and the send: a request takes a fresh identifier.
SendConfigureRequest(p) ==
  IF p.restart = 0 THEN p
  ELSE LET id == u8_t(p.ident + 1)
       IN  StartTimer([p EXCEPT !.restart = @ - 1, !.ident = id,
                                !.out = Append(@, Packet(p, "CONF_REQ", id, p.usage))])

\* The identifier moves on as soon as the request is built.
SendTerminateRequest(p) ==
  IF p.restart = 0 THEN p
  ELSE StartTimer([p EXCEPT !.restart = @ - 1, !.ident = u8_t(@ + 1),
                            !.out = Append(@, Packet(p, "TERM_REQ", p.ident, {}))])

\* The prepared answer is handed out and freed; pi_send still points at it.
SendPrepared(p) == [p EXCEPT !.out = Append(@, p.send), !.send = Junk]

lcp_default_options(p) == [p EXCEPT !.usage = LcpOptions]

InitRestart(p) ==
  [p EXCEPT !.restart = IF p.phase = "TERMINATE" THEN RESTART_MAX_TERMINATE
                                                 ELSE RESTART_MAX_CONFIGURE]

BasicAction(p, action) ==
  CASE action = "TLU" -> [p EXCEPT !.phase = "NETWORK", !.up = @ + 1]
    [] action = "TLD" -> [lcp_default_options(p) EXCEPT !.phase = "TERMINATE"]
    [] action = "TLS" -> [p EXCEPT !.phase = "ESTABLISH"]
    [] action = "TLF" -> [p EXCEPT !.phase = "DEAD"]
    [] action = "IRC" -> InitRestart(p)
    [] action = "ZRC" -> StartTimer([p EXCEPT !.restart = 0])
    [] action = "SCR" -> SendConfigureRequest(p)
    [] action = "STR" -> SendTerminateRequest(p)
    [] action \in {"SCA", "SCN", "STA", "SER"} -> SendPrepared(p)
    [] action = "SCJ" -> p

handle_action(p, actions) ==
  LET Done[i \in 0..Len(actions)] ==
        IF i = 0 THEN p ELSE BasicAction(Done[i - 1], actions[i])
  IN  Done[Len(actions)]

\* A slip: the timer is left to run in a state that does not wait for anything.
MutEnter(p, next) == [p EXCEPT !.state = next]

\* The end of handle_event(): a state without a restart timer stops it.
Enter(p, next) ==
  [(IF next \in Restarting THEN p ELSE StopTimer(p)) EXCEPT !.state = next]

handle_event(p, event) ==
  LET t == ppp_trans(event, p.state) IN Enter(handle_action(p, t[1]), t[2])

-----------------------------------------------------------------------------
(***************************************************************************)
(* Received packets.                                                       *)
(***************************************************************************)

\* frame_rej(), frame_nak() and frame_ack(): a rejected option displaces the
\* ones that were refused, and a refused one those that were accepted.
Verdict(opts) ==
  CASE "other" \in opts -> <<"CONF_REJ", opts \intersect {"other"}>>
    [] "other" \notin opts /\ "bad" \in opts -> <<"CONF_NAK", opts \intersect {"bad"}>>
    [] OTHER -> <<"CONF_ACK", opts>>

lcp_check_request(p, m) ==
  LET v == Verdict(m.opts) IN [p EXCEPT !.send = Packet(p, v[1], m.id, v[2])]

lcp_check_ack(p, m) == [p EXCEPT !.usage = @ \union (m.opts \intersect LcpOptions)]

lcp_check_reject(p, m) == [p EXCEPT !.usage = @ \ m.opts]

\* The identifier of an answer must be the latest request's.
Matches(p, m) == m.id = p.ident

\* The answers whose identifier does not match and the echo replies are dropped.
lcp_recv_netbuf(p, m) ==
  CASE m.code = "CONF_REQ" ->
         handle_event(lcp_check_request(p, m),
                      IF Verdict(m.opts)[1] = "CONF_ACK" THEN "RCR_P" ELSE "RCR_M")
    [] m.code = "CONF_ACK" /\ Matches(p, m) -> handle_event(lcp_check_ack(p, m), "RCA")
    [] m.code \in {"CONF_NAK", "CONF_REJ"} /\ Matches(p, m) ->
         handle_event(lcp_check_reject([p EXCEPT !.send = Junk], m), "RCN")
    [] m.code = "TERM_REQ" ->
         handle_event([p EXCEPT !.send = Packet(p, "TERM_ACK", m.id, {})], "RTR")
    [] m.code = "TERM_ACK" /\ Matches(p, m) -> handle_event(p, "RTA")
    [] m.code \in {"CODE_REJ_KNOWN", "PROTOCOL_REJ_LCP"} -> handle_event(p, "RXJ_M")
    [] m.code \in {"CODE_REJ_UNKNOWN", "PROTOCOL_REJ"} -> handle_event(p, "RXJ_P")
    [] m.code = "ECHO_REQ" ->
         handle_event([p EXCEPT !.send = Packet(p, "ECHO_REP", p.ident, {}),
                                !.ident = u8_t(@ + 1)], "RXR")
    [] m.code = "UNKNOWN" -> handle_event(p, "RUC")
    [] OTHER -> p
=============================================================================
