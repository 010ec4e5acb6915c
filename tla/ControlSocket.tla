--------------------------- MODULE ControlSocket ---------------------------
(***************************************************************************)
(* The Unix socket between relayinner-displayd and the kiosk session:      *)
(* SessionSocketServer (daemon.py), SessionSocketClient (session.py) and   *)
(* the JSON-line messages of ipc.py.                                       *)
(*                                                                         *)
(* The daemon keeps one accepted connection.  A session that connects      *)
(* while that slot is taken waits in the kernel's listen backlog, its      *)
(* session_ready already written.  Closing an end leaves what it wrote     *)
(* readable at the other: the daemon can read messages and the end of file *)
(* in one call of read_messages.                                           *)
(***************************************************************************)
EXTENDS Integers, Sequences, FiniteSets

CONSTANTS
    Pins,        \* the PINs pin_generator can return
    NoPin,       \* moonlight_pair_pin is None, or a message without details
    QueueBound   \* most messages the daemon leaves unread in the socket

ASSUME SocketAssumption ==
    /\ NoPin \notin Pins
    /\ QueueBound \in Nat

VARIABLES
    conn,    \* the daemon's accepted connection: none, up, or dead (peer closed)
    pend,    \* connections in the backlog, oldest first: TRUE while the peer is open
    s2d,     \* written by the session on conn, not yet read by the daemon
    d2s,     \* written by the daemon on conn, not yet handled by the session
    client   \* the session's end: closed, open, or eof (the daemon closed it)

socketVars == <<conn, pend, s2d, d2s, client>>

-----------------------------------------------------------------------------
WaitingReasons == {"vm_stopped", "vm_not_running", "connecting", "reconnecting",
                   "degraded", "control_error", "pairing_required"}

PowerStates == {"on", "off"}

ConsoleKinds == {"stream", "pair"}

DaemonMessage ==
    [type : {"show_waiting"}, arg : WaitingReasons, pin : Pins \union {NoPin}]
      \union [type : {"disconnect_console"}, arg : WaitingReasons, pin : {NoPin}]
      \union [type : {"connect_console"}, arg : ConsoleKinds, pin : Pins \union {NoPin}]
      \union [type : {"display_power"}, arg : PowerStates, pin : {NoPin}]

SessionMessage ==
    [type : {"session_ready", "console_started", "console_exited", "session_error"},
     arg : {"none"}]
      \union [type : {"display_power_applied"}, arg : PowerStates]

ShowWaiting(reason) == [type |-> "show_waiting", arg |-> reason, pin |-> NoPin]
ShowPairing(pin) == [type |-> "show_waiting", arg |-> "pairing_required", pin |-> pin]
DisconnectConsole(reason) == [type |-> "disconnect_console", arg |-> reason, pin |-> NoPin]
ConnectStream == [type |-> "connect_console", arg |-> "stream", pin |-> NoPin]
ConnectPair(pin) == [type |-> "connect_console", arg |-> "pair", pin |-> pin]
DisplayPower(state) == [type |-> "display_power", arg |-> state, pin |-> NoPin]

Event(type) == [type |-> type, arg |-> "none"]
DisplayPowerApplied(state) == [type |-> "display_power_applied", arg |-> state]

-----------------------------------------------------------------------------
(* The daemon's end. *)

\* listen(1): Linux keeps one connection more than the backlog argument.
Backlog == 2

SocketInit ==
    /\ conn = "none" /\ client = "closed"
    /\ pend = <<>> /\ s2d = <<>> /\ d2s = <<>>

\* accept_pending: only into an empty slot.  The waiting connection carries
\* the session_ready its session wrote right after connect.
Accept ==
    /\ conn = "none" /\ pend # <<>>
    /\ conn' = IF Head(pend) THEN "up" ELSE "dead"
    /\ pend' = Tail(pend)
    /\ s2d' = <<Event("session_ready")>>
    /\ d2s' = <<>>
    /\ UNCHANGED client

\* Mutant of ReadAll: the end of file does not close the client.
ReadKeepsDead ==
    /\ conn # "none"
    /\ s2d' = <<>>
    /\ UNCHANGED <<conn, d2s, pend, client>>

\* read_messages: everything readable; on end of file close_client as well.
ReadAll ==
    /\ conn # "none"
    /\ s2d' = <<>>
    /\ conn' = IF conn = "dead" THEN "none" ELSE conn
    /\ d2s' = IF conn = "dead" THEN <<>> ELSE d2s
    /\ UNCHANGED <<pend, client>>

\* The messages reach the socket: there is a connection with an open peer.
Reaches(msgs) == msgs = <<>> \/ conn = "up"

\* send_message for each message of msgs; a failure closes the client.
SendAll(msgs) ==
    /\ IF Reaches(msgs)
       THEN /\ Len(d2s) + Len(msgs) =< QueueBound \/ msgs = <<>>
            /\ d2s' = d2s \o msgs
            /\ UNCHANGED <<conn, s2d>>
       ELSE conn' = "none" /\ d2s' = <<>> /\ s2d' = <<>>
    /\ UNCHANGED <<pend, client>>

\* The daemon process is gone, and with it the listening socket.  What the
\* session had read by then it still handles.
ServerGone ==
    /\ conn' = "none" /\ pend' = <<>> /\ s2d' = <<>>
    /\ d2s' = IF conn = "up" \/ client = "eof" THEN d2s ELSE <<>>
    /\ client' = IF client = "open" THEN "eof" ELSE client

-----------------------------------------------------------------------------
(* The session's end. *)

\* connect, then session_ready as the first message.
Connect ==
    /\ client = "closed" /\ Len(pend) < Backlog
    /\ client' = "open"
    /\ pend' = Append(pend, TRUE)
    /\ UNCHANGED <<conn, s2d, d2s>>

\* The session closes its end: of the accepted connection, or of its place in
\* the backlog.
ClientClose ==
    /\ client' = "closed"
    /\ conn' = IF conn = "up" THEN "dead" ELSE conn
    /\ pend' = [i \in DOMAIN pend |-> FALSE]
    /\ d2s' = <<>>
    /\ UNCHANGED s2d

\* One daemon message is taken and its responses, if any, are written.
Exchange(responses) ==
    /\ d2s' = Tail(d2s)
    /\ s2d' = s2d \o responses
    /\ UNCHANGED <<conn, pend, client>>

SocketTypeOK ==
    /\ conn \in {"none", "up", "dead"}
    /\ client \in {"closed", "open", "eof"}
    /\ pend \in Seq(BOOLEAN)
    /\ s2d \in Seq(SessionMessage)
    /\ d2s \in Seq(DaemonMessage)
=============================================================================
