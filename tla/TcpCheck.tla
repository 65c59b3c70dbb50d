------------------------------ MODULE TcpCheck ------------------------------
(***************************************************************************)
(* reassembly/tcpcheck.go: TCPSimpleFSM, which a Stream asks from Accept   *)
(* whether a packet fits the state of its connection.  The client and the  *)
(* server are external: they open, send, acknowledge, close in any order,  *)
(* half or both at once, and reset.  The capture sees what each of them    *)
(* sends in order, and the two directions interleaved in any way that is   *)
(* consistent with what they had received.  A packet is the set of its     *)
(* flags, with "data" if it has a payload.                                 *)
(***************************************************************************)
EXTENDS Naturals, Sequences

CONSTANT MaxWire   \* bound: the packets of a side that the capture has yet to see

Sides == {"client", "server"}
\* TCPFlowDirection.Reverse
Opposite(dir) == IF dir = "client" THEN "server" ELSE "client"

VARIABLES
    missing,   \* SupportMissingEstablishment
    fsm,       \* the TCPSimpleFSM
    ends,      \* ends[s]: the state of side s, whether it has sent its FIN and
               \* whether it has something to acknowledge
    wire,      \* wire[s]: what s sent and the capture has not seen
    seen       \* the packet seen last, and what CheckState said

checkVars == <<missing, fsm, ends, wire, seen>>

At(state, dir) == [state |-> state, dir |-> dir]
Refused == At("refused", "client")

\* With SupportMissingEstablishment the first packet tells the state.
figureState(t, p, dir) ==
    IF ~(t.state = "Closed" /\ missing) \/ ("SYN" \in p /\ "ACK" \notin p) THEN t
    ELSE IF "SYN" \in p THEN At("SynSent", Opposite(dir))
    ELSE IF {"FIN", "ACK"} \subseteq p THEN At("CloseWait", Opposite(dir))
    ELSE At("Established", t.dir)

\* Mutant: only the second FIN is accepted while the connection closes.
closingFinOnly(t, p, dir) ==
    IF {"FIN", "ACK"} \subseteq p /\ dir = Opposite(t.dir) THEN At("LastAck", t.dir)
    ELSE Refused

\* One side has sent its FIN.
closing(t, p, dir) ==
    IF {"FIN", "ACK"} \subseteq p /\ dir = Opposite(t.dir) THEN At("LastAck", t.dir)
    ELSE IF "ACK" \in p THEN t ELSE Refused

\* The switch of CheckState: the new state, or Refused.
accept(t, p, dir) ==
    CASE t.state = "Closed" /\ "SYN" \in p /\ "ACK" \notin p -> At("SynSent", dir)
      [] t.state \notin {"Closed", "Reset"} /\ "RST" \in p -> At("Reset", t.dir)
      [] t.state = "SynSent" /\ "RST" \notin p /\ {"SYN", "ACK"} \subseteq p
            /\ dir = Opposite(t.dir) -> At("Established", t.dir)
      [] t.state = "SynSent" /\ "RST" \notin p /\ "SYN" \in p /\ "ACK" \notin p
            /\ dir = t.dir -> t
      [] t.state = "Established" /\ "RST" \notin p ->
            IF "FIN" \in p THEN At("CloseWait", dir) ELSE t
      [] t.state = "CloseWait" /\ "RST" \notin p -> closing(t, p, dir)
      [] t.state = "LastAck" /\ "RST" \notin p /\ "ACK" \in p /\ dir = t.dir ->
            At("Closed", t.dir)
      [] OTHER -> Refused

\* The FSM and what the call returned.
CheckState(p, dir) ==
    LET t == figureState(fsm, p, dir)
        u == accept(t, p, dir)
    IN  /\ fsm' = IF u = Refused THEN t ELSE u
        /\ seen' = [packet |-> p, ok |-> u # Refused]

-----------------------------------------------------------------------------
(* The two sides.                                                          *)

Side(state, fin, owes) == [state |-> state, fin |-> fin, owes |-> owes]

\* A capture that starts late is one for SupportMissingEstablishment.
CheckInit ==
    /\ missing \in BOOLEAN
    /\ fsm = At("Closed", "client")
    /\ \/ ends = [s \in Sides |-> Side("closed", FALSE, FALSE)]
       \/ missing /\ ends = [s \in Sides |-> Side(IF s = "client" THEN "synSent" ELSE "synRcvd",
                                                 FALSE, FALSE)]
       \/ missing /\ ends \in [Sides -> {Side("open", fin, owes) : fin, owes \in BOOLEAN}]
    /\ wire = [s \in Sides |-> <<>>]
    /\ seen = [packet |-> {}, ok |-> TRUE]

Send(s, p) ==
    /\ Len(wire[s]) < MaxWire
    /\ wire' = [wire EXCEPT ![s] = Append(@, p)]
    /\ UNCHANGED <<missing, fsm, seen>>

SendSyn ==
    /\ ends["client"].state \in {"closed", "synSent"}
    /\ Send("client", {"SYN"})
    /\ ends' = [ends EXCEPT !["client"].state = "synSent"]

SendSynAck ==
    /\ ends["server"].state = "synRcvd"
    /\ Send("server", {"SYN", "ACK"})
    /\ UNCHANGED ends

\* Data, a FIN or both; a FIN is a side's last but for acknowledgements.
SendData(s) ==
    /\ ends[s].state = "open" /\ ~ends[s].fin
    /\ \E p \in {{"data", "ACK"}, {"FIN", "ACK"}, {"data", "FIN", "ACK"}} :
        /\ Send(s, p)
        /\ ends' = [ends EXCEPT ![s] = Side("open", "FIN" \in p, FALSE)]

SendAck(s) ==
    /\ ends[s].state = "open" /\ ends[s].owes
    /\ Send(s, {"ACK"})
    /\ ends' = [ends EXCEPT ![s].owes = FALSE]

SendRst(s) ==
    /\ ends[s].state \in {"synSent", "synRcvd", "open"}
    /\ \E p \in {{"RST"}, {"RST", "ACK"}} : Send(s, p)
    /\ ends' = [ends EXCEPT ![s].state = "gone"]

\* What the side that is sent p makes of it.
received(e, p) ==
    IF "RST" \in p \/ e.state = "gone" THEN [e EXCEPT !.state = "gone"]
    ELSE IF p = {"SYN"} THEN IF e.state = "closed" THEN [e EXCEPT !.state = "synRcvd"] ELSE e
    ELSE [e EXCEPT !.state = "open", !.owes = @ \/ p # {"ACK"}]

\* The capture sees the next packet of s, and the other side receives it.
See(s) ==
    /\ wire[s] # <<>>
    /\ CheckState(Head(wire[s]), s)
    /\ wire' = [wire EXCEPT ![s] = Tail(@)]
    /\ ends' = [ends EXCEPT ![Opposite(s)] = received(@, Head(wire[s]))]
    /\ UNCHANGED missing

CheckNext ==
    \/ SendSyn
    \/ SendSynAck
    \/ \E s \in Sides : SendData(s) \/ SendAck(s) \/ SendRst(s) \/ See(s)

CheckSpec == CheckInit /\ [][CheckNext]_checkVars

-----------------------------------------------------------------------------
\* Unless the connection was reset, CheckState refuses no packet that carries
\* bytes of the stream or its end, however the two directions interleave while
\* the connection opens, closes by halves or is closed by both sides at once,
\* and wherever in the connection the capture starts.
DataAccepted ==
    seen.packet \cap {"data", "FIN"} # {} => seen.ok \/ fsm.state = "Reset"
=============================================================================
