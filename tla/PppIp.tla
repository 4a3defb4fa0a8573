------------------------------- MODULE PppIp -------------------------------
(***************************************************************************)
(* The IP control protocol of ppp_ip.c.  The file repeats the automaton of *)
(* ppp.c, table and all, for an instance that negotiates one option, the   *)
(* local IP address; what differs is here.  The control protocol is opened *)
(* by the call of ipcp_link_up() that ppp.c makes when its own negotiation *)
(* has completed.                                                          *)
(***************************************************************************)
EXTENDS Ppp

IpcpOptions == {"addr"}

\* ppp_ip_instance_alloc() without the attachment.
ipcp_instance == NewInstance("ipcp", IpcpOptions)

\* The same table, less the echo events.
ipcp_trans(event, s) == ppp_trans(event, s)

\* The actions on the retry counter, the timer and the requests are those of
\* ppp.c; nobody is told that this layer is up, there are no options to reset.
ipcp_action(p, action) ==
  CASE action = "TLU" -> [p EXCEPT !.phase = "NETWORK"]
    [] action = "TLD" -> [p EXCEPT !.phase = "TERMINATE"]
    [] action = "SER" -> p
    [] OTHER          -> BasicAction(p, action)

ipcp_handle_action(p, actions) ==
  LET Done[i \in 0..Len(actions)] ==
        IF i = 0 THEN p ELSE ipcp_action(Done[i - 1], actions[i])
  IN  Done[Len(actions)]

ipcp_handle_event(p, event) ==
  LET t == ipcp_trans(event, p.state) IN Enter(ipcp_handle_action(p, t[1]), t[2])

\* An address is always accepted and everything else is rejected.
IpcpVerdict(opts) ==
  IF opts \subseteq IpcpOptions THEN <<"CONF_ACK", opts>> ELSE <<"CONF_REJ", opts \ IpcpOptions>>

ipcp_check_request(p, m) ==
  LET v == IpcpVerdict(m.opts) IN [p EXCEPT !.send = Packet(p, v[1], m.id, v[2])]

ipcp_check_ack(p, m) == [p EXCEPT !.usage = @ \union (m.opts \intersect IpcpOptions)]

ipcp_check_reject(p, m) == [p EXCEPT !.usage = @ \ m.opts]

ipcp_recv_netbuf(p, m) ==
  CASE m.code = "CONF_REQ" ->
         ipcp_handle_event(ipcp_check_request(p, m),
                           IF IpcpVerdict(m.opts)[1] = "CONF_ACK" THEN "RCR_P" ELSE "RCR_M")
    [] m.code = "CONF_ACK" /\ Matches(p, m) -> ipcp_handle_event(ipcp_check_ack(p, m), "RCA")
    [] m.code \in {"CONF_NAK", "CONF_REJ"} /\ Matches(p, m) ->
         ipcp_handle_event(ipcp_check_reject([p EXCEPT !.send = Junk], m), "RCN")
    [] m.code = "TERM_REQ" ->
         ipcp_handle_event([p EXCEPT !.send = Packet(p, "TERM_ACK", m.id, {})], "RTR")
    [] m.code = "TERM_ACK" /\ Matches(p, m) -> ipcp_handle_event(p, "RTA")
    [] m.code = "CODE_REJ_KNOWN"   -> ipcp_handle_event(p, "RXJ_M")
    [] m.code = "CODE_REJ_UNKNOWN" -> ipcp_handle_event(p, "RXJ_P")
    [] m.code = "UNKNOWN" -> ipcp_handle_event(p, "RUC")
    [] OTHER -> p

ipcp_link_up(p) == ipcp_handle_event(ipcp_handle_event(p, "UP"), "OPEN")
=============================================================================
