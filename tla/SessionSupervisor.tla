------------------------- MODULE SessionSupervisor -------------------------
(***************************************************************************)
(* relayinner-display-session (session.py): the SessionSupervisor that     *)
(* owns the viewer process, the waiting view and the display power, and    *)
(* the loop of run() around its socket client.                             *)
(*                                                                         *)
(* The loop handles a batch of daemon messages, then polls the viewer once.*)
(* Here each message and each poll is a step of its own: the batch is      *)
(* whatever had arrived, so every order of these steps is one of the code. *)
(***************************************************************************)
EXTENDS ControlSocket, GuestHost

VARIABLE
    sess   \* the session process; see SessType

SessType == [
    up : BOOLEAN,                                 \* the process exists
    console : {"none"} \union ConsoleKinds,       \* console_process
    alive : BOOLEAN,                              \* it has not exited
    waiting_reason : WaitingReasons,
    pin : Pins \union {NoPin},                    \* PIN on the screen
    power : PowerStates]                          \* display_power_state

SessInit == [up |-> FALSE, console |-> "none", alive |-> FALSE,
             waiting_reason |-> "vm_stopped", pin |-> NoPin, power |-> "on"]

\* _stop_console(report_exit=False): terminate, kill, forget; nothing is sent.
\* A viewer is launched with view_state.details None, so the PIN that the
\* pairing UI shows goes with it.
StopConsole(s) ==
    [s EXCEPT !.console = "none", !.alive = FALSE,
              !.pin = IF s.console = "none" THEN @ ELSE NoPin]

SessionStart ==
    /\ ~sess.up
    /\ sess' = [SessInit EXCEPT !.up = TRUE]
    /\ UNCHANGED <<socketVars, guestVars>>

\* The kiosk's control group dies as a whole, viewer included.
SessionKilled ==
    /\ sess.up /\ Spend("kill")
    /\ sess' = SessInit
    /\ ClientClose
    /\ UNCHANGED <<vm, host>>

SessionConnect ==
    /\ sess.up
    /\ Connect
    /\ UNCHANGED <<sess, guestVars>>

\* Mutant of SessionEof: the socket is not closed, so never reopened.
EofKeepsSocket ==
    /\ client = "eof"
    /\ sess' = StopConsole(sess)
    /\ UNCHANGED <<socketVars, guestVars>>

\* read_messages reports the end of file: messages read with it are dropped.
SessionEof ==
    /\ client = "eof"
    /\ sess' = StopConsole(sess)
    /\ ClientClose
    /\ UNCHANGED guestVars

-----------------------------------------------------------------------------
(* handle_daemon_message.  A message read before the daemon went away is     *)
(* handled all the same.                                                    *)

Receiving(type) ==
    /\ client = "eof" \/ (client = "open" /\ conn = "up")
    /\ d2s # <<>> /\ Head(d2s).type = type

Msg == Head(d2s)

\* _send_daemon_message_responses: the supervisor is in state s and answers.
\* When the answer cannot be sent the viewer is stopped and the socket closed.
Respond(s, responses) ==
    IF client = "open" \/ responses = <<>>
    THEN sess' = s /\ Exchange(responses)
    ELSE sess' = StopConsole(s) /\ ClientClose

\* Mutant of ShowWaitingState: the viewer keeps running behind the view.
ShowWaitingKeepsConsole ==
    /\ Receiving("show_waiting") \/ Receiving("disconnect_console")
    /\ Respond([sess EXCEPT !.waiting_reason = Msg.arg, !.pin = Msg.pin], <<>>)
    /\ UNCHANGED guestVars

\* show_waiting and disconnect_console both end in _show_waiting_state.
ShowWaitingState ==
    /\ Receiving("show_waiting") \/ Receiving("disconnect_console")
    /\ Respond([StopConsole(sess) EXCEPT !.waiting_reason = Msg.arg, !.pin = Msg.pin], <<>>)
    /\ UNCHANGED guestVars

LaunchConsole ==
    /\ Receiving("connect_console")
    /\ Respond([sess EXCEPT !.console = Msg.arg, !.alive = TRUE,
                            !.waiting_reason = "connecting", !.pin = Msg.pin],
               <<Event("console_started")>>)
    /\ UNCHANGED guestVars

\* The viewer cannot be executed; the old one is gone by then.
LaunchFails ==
    /\ Receiving("connect_console") /\ Spend("launch")
    /\ Respond([StopConsole(sess) EXCEPT !.waiting_reason = "degraded", !.pin = NoPin],
               <<Event("session_error")>>)
    /\ UNCHANGED <<vm, host>>

\* _validate_console_request refuses: the old viewer goes on behind the view.
LaunchRejected ==
    /\ Receiving("connect_console") /\ Spend("launch")
    /\ Respond([sess EXCEPT !.waiting_reason = "degraded"], <<Event("session_error")>>)
    /\ UNCHANGED <<vm, host>>

ApplyDisplayPower ==
    /\ Receiving("display_power")
    /\ Respond([sess EXCEPT !.power = Msg.arg], <<DisplayPowerApplied(Msg.arg)>>)
    /\ UNCHANGED guestVars

\* The helper does not run or exits non-zero: logged, nothing recorded or sent.
PowerHelperFails ==
    /\ Receiving("display_power") /\ Spend("helper")
    /\ Respond(sess, <<>>)
    /\ UNCHANGED <<vm, host>>

HandleDaemonMessage ==
    \/ ShowWaitingState \/ LaunchConsole \/ LaunchFails \/ LaunchRejected
    \/ ApplyDisplayPower \/ PowerHelperFails

-----------------------------------------------------------------------------
(* The viewer ends by itself, and poll_console finds out.                   *)

ViewerExits ==
    /\ sess.alive /\ Spend("exit")
    /\ sess' = [sess EXCEPT !.alive = FALSE]
    /\ UNCHANGED <<socketVars, vm, host>>

PollConsole ==
    /\ client = "open" /\ conn = "up"
    /\ sess.console # "none" /\ ~sess.alive
    /\ sess' = [StopConsole(sess) EXCEPT !.waiting_reason = "reconnecting"]
    /\ s2d' = Append(s2d, Event("console_exited"))
    /\ UNCHANGED <<conn, pend, d2s, client, guestVars>>

SessionTypeOK == sess \in SessType
=============================================================================
