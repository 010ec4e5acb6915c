---------------------------- MODULE RelayDisplay ----------------------------
(***************************************************************************)
(* The appliance: the daemon and the kiosk session as two processes over   *)
(* the control socket, with the guest and its faults around them.          *)
(***************************************************************************)
EXTENDS DisplayDaemon, SessionSupervisor

vars == <<daemonVars, sess, socketVars, guestVars>>

Init ==
    /\ DaemonInit
    /\ sess = SessInit
    /\ SocketInit
    /\ GuestInit

\* A session reaches only a daemon that listens.
SessionStep ==
    /\ \/ SessionConnect /\ pc # "down"
       \/ SessionStart \/ SessionEof \/ SessionKilled
       \/ HandleDaemonMessage \/ PollConsole \/ ViewerExits
    /\ UNCHANGED daemonVars

DaemonStep == DaemonNext /\ UNCHANGED sess

GuestStep == (VmChanges \/ HostChanges) /\ UNCHANGED <<daemonVars, sess, socketVars>>

Next == DaemonStep \/ SessionStep \/ GuestStep

\* Both services have Restart=always, and both loops go on for ever: each pass
\* of the daemon's sleeps, each pass of the session's handles what has arrived
\* and polls the viewer.  Nothing obliges the guest, the user or a fault.
Fairness ==
    /\ WF_vars(DaemonLoop /\ UNCHANGED sess)
    /\ SF_vars(TimePasses /\ UNCHANGED sess)
    /\ WF_vars(SessionStart /\ UNCHANGED daemonVars)
    /\ WF_vars(SessionConnect /\ pc # "down" /\ UNCHANGED daemonVars)
    /\ WF_vars(SessionEof /\ UNCHANGED daemonVars)
    /\ WF_vars(HandleDaemonMessage /\ UNCHANGED daemonVars)
    /\ WF_vars(PollConsole /\ UNCHANGED daemonVars)

Spec == Init /\ [][Next]_vars /\ Fairness

TypeOK ==
    /\ DaemonTypeOK
    /\ SessionTypeOK
    /\ SocketTypeOK
    /\ GuestTypeOK

-----------------------------------------------------------------------------
(* Vocabulary of the properties.                                            *)

Degraded == ctl.session_state = "degraded"

\* The accepted connection is the session's, and nothing is under way on it:
\* what the two processes believe of each other is all there is.
Quiet ==
    /\ pc = "read" /\ conn = "up" /\ ctl.session_ready
    /\ s2d = <<>> /\ d2s = <<>>

\* A message of these types is in the queue.
Has(q, types) == \E i \in DOMAIN q : q[i].type \in types

\* The last message of these types in the queue is one of S.
LastIn(q, types, S) ==
    \E i \in DOMAIN q :
      /\ q[i].type \in types /\ q[i] \in S
      /\ \A j \in DOMAIN q : j > i => q[j].type \notin types

\* Once the queue is handled the last of these messages will have been one of S;
\* without any, things stay as they are now.
Settles(q, types, S, now) == LastIn(q, types, S) \/ (~Has(q, types) /\ now)

\* The power the display will have once the session has caught up.
PowerHeadedFor(p) == Settles(d2s, {"display_power"}, {DisplayPower(p)}, sess.power = p)

\* None of these events has happened so far.
Unspent(kinds) == \A k \in kinds : left[k] = Budget[k]

\* A press and a failed qm status have both happened: if they met, the daemon
\* may have degraded without a word to the session.
PressFailed == ~Unspent({"press"}) /\ ~Unspent({"qm"})

\* Everything that makes the daemon enter degraded mode.
Degrading == {"qm", "pvesh", "validate", "launch", "read", "start"}

\* qm status prints no word that is neither on nor off for the display.
PlainStatus == VmStates \subseteq DisplayOn \union DisplayOff

-----------------------------------------------------------------------------
(* Safety.                                                                  *)

\* The daemon counts on a session only while it holds a connection, although
\* it handles messages it read together with the end of that connection.
ReadyIsConnected == ctl.session_ready => conn # "none"

\* A degraded reason is kept exactly for the degraded state: no late message
\* leaves a reason behind in a working one.
ReasonIsDegraded == ctl.degraded_reason # "none" => Degraded

\* A viewer the session runs is one the daemon knows of: whatever exits, VM
\* changes, failures and reconnections crossed on the socket, no guest picture
\* is left on the screen that the daemon would not take down with the VM.  (Not
\* when a press met the qm failure that degraded the daemon: what announces that
\* to the session is dropped.)
NoOrphanConsole ==
    Quiet /\ ~PressFailed /\ sess.console # "none" => ctl.console_running

\* The display is at, or on its way to, the power the daemon intends, across
\* reconnections and restarts of either process, until the power helper fails.
IntentReaches ==
    conn = "up" /\ ctl.session_ready /\ ~Faulted(ctl) /\ Unspent({"helper"}) =>
      PowerHeadedFor(disp.intent)

\* A viewer is launched only when the backoff is over, and onto a display that
\* is on or, unless the helper fails, will be before the viewer starts.
LaunchIsDue ==
    [][(\E i \in DOMAIN d2s' : i > Len(d2s) /\ d2s'[i].type = "connect_console")
         => /\ ctl.next_reconnect_at =< 0
            /\ Unspent({"helper"}) => PowerHeadedFor("on")']_vars

\* While the daemon waits for a PIN to be approved, the PIN on the screen is the
\* one it will accept, through expiry, pairing-UI exits and session restarts.
\* (A console_started that is late takes the daemon out of degraded mode with
\* the PIN gone: so no failed qm status and no failed launch.)
PinOnScreen ==
    /\ Quiet /\ Unspent({"qm", "launch"})
    /\ PairingPending(moon) /\ ctl.session_state = "waiting_for_pairing"
    => sess.pin = moon.pin

\* A Moonlight stream is on the screen only for a host that was found paired.
\* (A transitional VM state and an input failure make the daemon forget that.)
StreamIsPaired ==
    /\ Quiet /\ PlainStatus /\ Unspent({"read"}) /\ ~PressFailed
    /\ Backend = "moonlight" /\ sess.console = "stream"
    => moon.pair_state = "paired"

\* When the daemon waits for the VM, the session shows no viewer and, until
\* something has degraded the daemon or the VM was in a transitional state, it
\* says that it waits for the VM.
WaitingOnScreen ==
    Quiet /\ ctl.session_state \in {"waiting_for_vm", "display_sleeping"} =>
      /\ PressFailed \/ sess.console = "none"
      /\ PlainStatus /\ Unspent(Degrading) =>
           sess.waiting_reason \in {"vm_stopped", "vm_not_running"}

\* The daemon calls the display asleep only when it is dark, although the power
\* helper may fail or the VM may start in between: the state follows
\* display_power_applied, not the intent.  (A new session starts with its
\* display on while the daemon keeps what the old one reported; and a press
\* records a VM state that a failed qm status leaves without consequence.)
SleepingIsDark ==
    Quiet /\ Unspent({"kill"}) /\ ~PressFailed /\ ctl.session_state = "display_sleeping" =>
      sess.power = "off"

\* Once button forwarding has failed, no guest action is pending any more.
ErrorEndsAction == ctl.startup_error # "none" => ~btn.in_flight

-----------------------------------------------------------------------------
(* Liveness.                                                                *)

\* A VM that stays on is shown: whatever was restarted on the way, the viewer
\* ends up on the screen and the daemon knows it (or the appliance degraded).
Shows ==
    <>[](vm = "running") =>
      <>[](Degraded \/ (ctl.session_state = "showing_console" /\ sess.alive))

\* A VM that stays off ends with the display asleep and no viewer.
Sleeps ==
    <>[](vm = "stopped") =>
      <>[](Degraded \/ (/\ ctl.session_state = "display_sleeping"
                        /\ sess.power = "off" /\ sess.console = "none"))

\* A session that stays connected is accepted and greeted, past the dead
\* connections of its predecessors in the backlog.
SessionHeard == <>[](client = "open") => <>[](ctl.session_ready)

\* A guest action ends: completed, stalled or timed out, in every VM state.
ActionEnds == btn.in_flight ~> (~btn.in_flight \/ Faulted(ctl))

\* A start accepted from the power button wakes a sleeping display.
ButtonWakes ==
    (pc = "tick" /\ StartInFlight(btn) /\ sess.power = "off")
      ~> (sess.power = "on" \/ Faulted(ctl))

-----------------------------------------------------------------------------
(* What the repository's documents say and the code does not do.            *)

\* specs/15:162, specs/10:177: showing_console means a viewer on the screen.
ShowingHasConsole ==
    Quiet /\ ctl.session_state = "showing_console" => sess.console # "none"
=============================================================================
