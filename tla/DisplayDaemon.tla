--------------------------- MODULE DisplayDaemon ---------------------------
(***************************************************************************)
(* relayinner-displayd (daemon.py): the DisplayDaemon object and the loop  *)
(* of run() that drives it.  One pass of the loop is                       *)
(*                                                                         *)
(*   read    accept_pending, read_messages (and sleep before it)           *)
(*   handle  handle_session_message for each message read                  *)
(*   poll    the power-button presses that tick() handles first            *)
(*   tick    the rest of tick()                                            *)
(*                                                                         *)
(* The session runs between any two of these steps.  A datetime is held as *)
(* its age, or as the time left to it, in units of one TimePasses step and *)
(* capped where no guard tells larger values apart.                        *)
(***************************************************************************)
EXTENDS ControlSocket, GuestHost, Functions

CONSTANTS
    Backend,          \* target.console_backend
    PowerButton,      \* input.forward_power_button
    FailureLimit,     \* PROXMOX_FAILURE_LIMIT
    FailureWindow,    \* PROXMOX_FAILURE_WINDOW
    ReconnectInitial, \* policy.reconnect_initial_ms
    ReconnectMax,     \* policy.reconnect_max_ms
    OffDelay,         \* policy.dpms_off_delay_ms
    Stabilize,        \* policy.power_state_stabilize_ms
    Debounce,         \* input.debounce_ms
    ShutdownTimeout,  \* policy.shutdown_timeout_s
    PairTimeout       \* MOONLIGHT_PAIR_TIMEOUT

\* What load_config accepts: non-negative delays, positive reconnect delays
\* with the initial one no larger than the maximum.
ASSUME ConfigAssumption ==
    /\ Backend \in {"spice", "vnc", "looking-glass", "moonlight"}
    /\ PowerButton \in BOOLEAN
    /\ FailureLimit \in Nat \ {0}
    /\ FailureWindow \in Nat
    /\ ReconnectInitial \in Nat \ {0}
    /\ ReconnectMax \in Nat
    /\ ReconnectInitial =< ReconnectMax
    /\ OffDelay \in Nat /\ Stabilize \in Nat
    /\ Debounce \in Nat /\ ShutdownTimeout \in Nat
    /\ PairTimeout \in Nat

VARIABLES
    pc,      \* where the loop of run() is; "down" while there is no process
    inbox,   \* messages read in this pass and not yet handled
    ctl,     \* session, console, degraded and retry state
    disp,    \* VM power state and display power
    btn,     \* power-button action
    moon     \* Moonlight pairing

daemonVars == <<pc, inbox, ctl, disp, btn, moon>>

-----------------------------------------------------------------------------
(* State, as __init__ and RuntimeState lay it out. *)

None == -1   \* a datetime attribute that is None

DisplayOn == {"running", "paused", "suspended"}
DisplayOff == {"stopped", "shutdown"}
ButtonRunning == {"running", "paused"}
ButtonStopped == {"stopped", "shutdown"}

SessionStates == {"booting", "waiting_for_session", "waiting_for_vm",
                  "waiting_for_pairing", "requesting_console", "showing_console",
                  "reconnecting_console", "display_sleeping", "degraded"}

\* The subsystem a reason names, or "none" for None.
Reasons == {"none", "startup", "input", "proxmox", "session", "console"}

ButtonTimeout == IF Debounce > ShutdownTimeout THEN Debounce ELSE ShutdownTimeout

CtlType == [
    session_ready : BOOLEAN,
    console_running : BOOLEAN,      \* and console_pid, active_console_backend
    session_state : SessionStates,
    degraded_reason : Reasons,
    startup_error : Reasons,
    next_reconnect_at : {None} \union (0 .. ReconnectMax),
    reconnect_delay : ReconnectInitial .. ReconnectMax,
    failures : [0 .. FailureWindow -> Nat]]   \* by age

DispType == [
    vm_power_state : VmStates \union {"unknown"},
    since : 0 .. OffDelay,                    \* age of power_state_since
    uptime : 0 .. (Stabilize + OffDelay),     \* age of started_at
    policy_pending : BOOLEAN,                 \* _startup_display_policy_pending
    intent : PowerStates,
    applied : PowerStates]

BtnType == [
    in_flight : BOOLEAN,
    action : {"none", "start", "shutdown"},
    started : {None} \union (0 .. ButtonTimeout),
    accepted : 0 .. Debounce]                 \* Debounce when never accepted

MoonType == [
    pair_state : {"unknown", "pending_pin_approval", "paired"},
    pin : Pins \union {NoPin},
    requested : {None} \union (0 .. PairTimeout),
    launch_pending : BOOLEAN]

NoFailures == [age \in 0 .. FailureWindow |-> 0]

CtlInit == [
    session_ready |-> FALSE, console_running |-> FALSE,
    session_state |-> "booting", degraded_reason |-> "none", startup_error |-> "none",
    next_reconnect_at |-> None, reconnect_delay |-> ReconnectInitial,
    failures |-> NoFailures]

DispInit == [
    vm_power_state |-> "unknown", since |-> 0, uptime |-> 0,
    policy_pending |-> TRUE, intent |-> "on", applied |-> "on"]

BtnInit == [in_flight |-> FALSE, action |-> "none", started |-> None,
            accepted |-> Debounce]

MoonInit == [pair_state |-> "unknown", pin |-> NoPin, requested |-> None,
             launch_pending |-> FALSE]

DaemonInit ==
    /\ pc = "down" /\ inbox = <<>>
    /\ ctl = CtlInit /\ disp = DispInit /\ btn = BtnInit /\ moon = MoonInit

-----------------------------------------------------------------------------
(* Methods that only change the object. *)

\* Mutant of Transition: the reason survives the state it explains.
TransitionKeepsReason(c, state) == [c EXCEPT !.session_state = state]

\* _transition: leaving DEGRADED forgets the reason.
Transition(c, state) ==
    [c EXCEPT !.session_state = state,
              !.degraded_reason = IF state = "degraded" THEN @ ELSE "none"]

Faulted(c) == c.startup_error # "none" \/ c.degraded_reason # "none"

\* on_session_disconnected (its moonlight_pair_launch_pending is in Deliver).
Disconnected(c) ==
    Transition([c EXCEPT !.session_ready = FALSE, !.console_running = FALSE],
               IF Faulted(c) THEN "degraded" ELSE "waiting_for_session")

\* _enter_degraded, and the messages it returns.
EnterDegraded(c, reason) ==
    [c EXCEPT !.console_running = FALSE, !.degraded_reason = reason,
              !.session_state = "degraded"]

DegradedMessages(c) ==
    (IF c.console_running THEN <<DisconnectConsole("control_error")>> ELSE <<>>)
      \o <<ShowWaiting("degraded")>>

\* Mutant of ScheduleReconnect: min(..., reconnect_max_ms) is missing.
UncappedBackoff(c) ==
    [c EXCEPT !.next_reconnect_at = c.reconnect_delay, !.reconnect_delay = 2 * @]

\* _schedule_reconnect: exponential backoff up to the maximum.
ScheduleReconnect(c) ==
    [c EXCEPT !.next_reconnect_at = c.reconnect_delay,
              !.reconnect_delay = IF 2 * @ < ReconnectMax THEN 2 * @ ELSE ReconnectMax]

\* _record_proxmox_failure; failures older than the window have left `failures`.
LimitReached(c) == SumFunction([c.failures EXCEPT ![0] = @ + 1]) >= FailureLimit

RecordFailure(c) ==
    LET d == [c EXCEPT !.failures[0] = @ + 1]
    IN  IF LimitReached(c) THEN EnterDegraded(d, "proxmox") ELSE d

FailureMessages(c) == IF LimitReached(c) THEN DegradedMessages(c) ELSE <<>>

ClearFailures(c) == [c EXCEPT !.failures = NoFailures]

\* Mutant of RecordPowerState: every poll restarts the clock.
RecordRestartsClock(p, status) == [p EXCEPT !.vm_power_state = status, !.since = 0]

\* _record_vm_power_state
RecordPowerState(p, status) ==
    [p EXCEPT !.vm_power_state = status,
              !.since = IF p.vm_power_state = status THEN @ ELSE 0]

StartInFlight(b) == b.in_flight /\ b.action = "start"

\* now >= due_at: dpms_off_delay_ms after the VM went off and, until the first
\* decision, after the startup stabilization period.
OffIsDue(p) ==
    /\ p.vm_power_state \in DisplayOff
    /\ p.since >= OffDelay
    /\ p.policy_pending => p.uptime >= Stabilize + OffDelay

\* Mutant of UpdateIntent: an accepted start does not wake the display.
IntentIgnoresStart(p, b) ==
    LET on == p.vm_power_state \in DisplayOn
    IN  [p EXCEPT !.intent = IF on THEN "on" ELSE IF OffIsDue(p) THEN "off" ELSE @,
                  !.policy_pending = @ /\ ~on /\ ~OffIsDue(p)]

\* _update_display_power_intent with _desired_display_power_intent.
UpdateIntent(p, b) ==
    LET on == p.vm_power_state \in DisplayOn
    IN  IF StartInFlight(b) THEN [p EXCEPT !.intent = "on"]
        ELSE [p EXCEPT !.intent = IF on THEN "on" ELSE IF OffIsDue(p) THEN "off" ELSE @,
                       !.policy_pending = @ /\ ~on /\ ~OffIsDue(p)]

\* Mutant of WaitingState: asleep as soon as the display is told to be.
WaitingByIntent(p) == IF p.intent = "off" THEN "display_sleeping" ELSE "waiting_for_vm"

\* _waiting_session_state
WaitingState(p) ==
    IF p.intent = "off" /\ p.applied = "off" THEN "display_sleeping" ELSE "waiting_for_vm"

\* Mutant of ActionResolved: only an observed completion or a stall counts.
ResolvedWithoutTimeout(b, status) ==
    \/ b.action = "start"
       /\ \/ status \in ButtonRunning
          \/ b.started >= Debounce /\ status \in ButtonStopped
    \/ b.action = "shutdown" /\ status \in ButtonStopped

\* _refresh_power_button_action: completed, stalled or timed out.
ActionResolved(b, status) ==
    \/ b.action = "start"
       /\ \/ status \in ButtonRunning
          \/ b.started >= Debounce /\ status \in ButtonStopped
          \/ b.started >= ShutdownTimeout /\ status \notin ButtonStopped
    \/ b.action = "shutdown"
       /\ (status \in ButtonStopped \/ b.started >= ShutdownTimeout)

RefreshAction(b, status) ==
    IF b.in_flight /\ ActionResolved(b, status)
    THEN [b EXCEPT !.in_flight = FALSE, !.started = None]
    ELSE b

\* _mark_moonlight_as_paired, _clear_moonlight_pair_state
Paired == [MoonInit EXCEPT !.pair_state = "paired"]
Unpaired == MoonInit

PairingPending(m) == m.pair_state = "pending_pin_approval"

\* _set_startup_error; the caller also resets moon and btn.
SetStartupError(c, reason) ==
    [c EXCEPT !.startup_error = reason, !.degraded_reason = reason,
              !.session_state = "degraded"]

-----------------------------------------------------------------------------
(* The loop of run(). *)

\* Mutant of Deliver: a failed send goes unnoticed.
DeliverUnchecked(c, m, msgs) == SendAll(msgs) /\ ctl' = c /\ moon' = m

\* The caller sends what a method returned; the first send that fails means
\* on_session_disconnected.
Deliver(c, m, msgs) ==
    /\ SendAll(msgs)
    /\ ctl' = IF Reaches(msgs) THEN c ELSE Disconnected(c)
    /\ moon' = IF Reaches(msgs) THEN m ELSE [m EXCEPT !.launch_pending = FALSE]

AfterMessages == IF PowerButton THEN "poll" ELSE "tick"

\* A binary, the shared memory file, the Moonlight workspace or the power button
\* is not as the configuration needs it, or there is no valid configuration.
StartupInvalid == Spend("start")

\* start(): degraded at once, or waiting for the session.
DaemonStart ==
    /\ pc = "down" /\ pc' = "read"
    /\ \/ StartupInvalid /\ ctl' = SetStartupError(ctl, "startup")
       \/ ctl' = Transition(ctl, "waiting_for_session") /\ UNCHANGED left
    /\ UNCHANGED <<inbox, disp, btn, moon, vm, host, socketVars>>

\* The process ends; systemd will start one that knows nothing of this one.
DaemonStops ==
    /\ pc' = "down" /\ inbox' = <<>>
    /\ ctl' = CtlInit /\ disp' = DispInit /\ btn' = BtnInit /\ moon' = MoonInit
    /\ ServerGone

DaemonCrash ==
    /\ pc # "down" /\ Spend("crash")
    /\ DaemonStops
    /\ UNCHANGED <<vm, host>>

AcceptPending ==
    /\ pc = "read" /\ Accept
    /\ UNCHANGED <<pc, inbox, ctl, disp, btn, moon, guestVars>>

\* accept_pending (nothing to accept) and read_messages.  An end of file is
\* handled first, the messages read along with it afterwards.
ReadMessages ==
    /\ pc = "read"
    /\ conn # "none" \/ pend = <<>>
    /\ inbox' = s2d
    /\ pc' = IF s2d = <<>> THEN AfterMessages ELSE "handle"
    /\ IF conn = "none" THEN UNCHANGED socketVars ELSE ReadAll
    /\ ctl' = IF conn = "dead" THEN Disconnected(ctl) ELSE ctl
    /\ moon' = IF conn = "dead" THEN [moon EXCEPT !.launch_pending = FALSE] ELSE moon
    /\ UNCHANGED <<disp, btn, guestVars>>

-----------------------------------------------------------------------------
(* handle_session_message *)

Handling(type) == pc = "handle" /\ Head(inbox).type = type

\* The responses are sent; when that fails the rest of the batch and the tick
\* are skipped.
Handled(c, m, msgs) ==
    /\ Deliver(c, m, msgs)
    /\ inbox' = IF Reaches(msgs) THEN Tail(inbox) ELSE <<>>
    /\ pc' = IF ~Reaches(msgs) THEN "read"
             ELSE IF Len(inbox) = 1 THEN AfterMessages ELSE "handle"

Greeted == [ctl EXCEPT !.session_ready = TRUE, !.console_running = FALSE]
MoonGreeted == [moon EXCEPT !.launch_pending = FALSE]

SessionReadyDegraded ==
    /\ Handling("session_ready") /\ Faulted(ctl)
    /\ Handled(Transition(Greeted, "degraded"), MoonGreeted, <<ShowWaiting("degraded")>>)
    /\ UNCHANGED <<disp, btn, guestVars>>

\* The qm status of session_ready fails.
SessionReadyNoStatus ==
    /\ Handling("session_ready") /\ ~Faulted(ctl)
    /\ Spend("qm")
    /\ LET c == RecordFailure(Greeted)
           degraded == c.session_state = "degraded"
       IN  Handled(IF degraded THEN c ELSE Transition(c, WaitingState(disp)), MoonGreeted,
                   <<DisplayPower(disp.intent)>>
                     \o (IF degraded THEN DegradedMessages(Greeted) ELSE <<>>)
                     \o <<ShowWaiting(IF degraded THEN "degraded" ELSE "vm_stopped")>>)
    /\ UNCHANGED <<disp, btn, vm, host>>

SessionReady ==
    /\ Handling("session_ready") /\ ~Faulted(ctl)
    /\ disp' = RecordPowerState(disp, vm)
    /\ LET c == ClearFailures(Greeted)
           retry == c.next_reconnect_at # None
           reply(state, msg) == Handled(Transition(c, state), MoonGreeted,
                                        <<DisplayPower(disp.intent), msg>>)
       IN  IF vm \notin DisplayOn
           THEN reply(WaitingState(disp), ShowWaiting("vm_stopped"))
           ELSE IF PairingPending(moon)
           THEN reply("waiting_for_pairing", ShowPairing(moon.pin))
           ELSE IF retry
           THEN reply("reconnecting_console", ShowWaiting("reconnecting"))
           ELSE reply("requesting_console", ShowWaiting("connecting"))
    /\ UNCHANGED <<btn, guestVars>>

ConsoleStarted ==
    /\ Handling("console_started")
    /\ Handled(Transition([ctl EXCEPT !.console_running = TRUE,
                                      !.next_reconnect_at = None,
                                      !.reconnect_delay = ReconnectInitial],
                          IF PairingPending(moon) THEN "waiting_for_pairing"
                                                  ELSE "showing_console"),
               moon, <<>>)
    /\ UNCHANGED <<disp, btn, guestVars>>

PowerApplied ==
    /\ Handling("display_power_applied")
    /\ disp' = [disp EXCEPT !.applied = Head(inbox).arg]
    /\ Handled(IF ctl.console_running \/ disp.vm_power_state \in DisplayOn THEN ctl
               ELSE Transition(ctl, WaitingState(disp')), moon, <<>>)
    /\ UNCHANGED <<btn, guestVars>>

ConsoleExited ==
    /\ Handling("console_exited")
    /\ LET c == [ctl EXCEPT !.console_running = FALSE]
       IN  IF PairingPending(moon)
           THEN Handled(Transition([c EXCEPT !.next_reconnect_at = None],
                                   "waiting_for_pairing"),
                        moon, <<ShowPairing(moon.pin)>>)
           ELSE IF disp.vm_power_state \in DisplayOn
           THEN Handled(Transition(ScheduleReconnect(c), "reconnecting_console"),
                        moon, <<ShowWaiting("reconnecting")>>)
           ELSE Handled(Transition(c, WaitingState(disp)),
                        moon, <<ShowWaiting("vm_stopped")>>)
    /\ UNCHANGED <<disp, btn, guestVars>>

SessionError ==
    /\ Handling("session_error")
    /\ Handled(EnterDegraded(ctl, "session"), moon, <<ShowWaiting("degraded")>>)
    /\ UNCHANGED <<disp, btn, guestVars>>

HandleMessage ==
    \/ SessionReadyDegraded \/ SessionReadyNoStatus \/ SessionReady
    \/ ConsoleStarted \/ PowerApplied \/ ConsoleExited \/ SessionError

-----------------------------------------------------------------------------
(* _poll_power_button_source and _handle_power_button_press.  The source is *)
(* not read again after a startup error.                                    *)

Polling == pc \in {"poll", "press"}

\* Mutant of Disarmed: the action in flight is forgotten but not ended.
StillArmed(b) == b

\* What _set_startup_error does to the power-button action.
Disarmed(b) == [b EXCEPT !.in_flight = FALSE, !.started = None]

PollFails ==
    /\ pc = "poll" /\ ctl.startup_error = "none"
    /\ Spend("read")
    /\ ctl' = SetStartupError(ctl, "input")
    /\ moon' = Unpaired
    /\ btn' = Disarmed(btn)
    /\ pc' = "tick"
    /\ UNCHANGED <<inbox, disp, vm, host, socketVars>>

PollDone ==
    /\ Polling /\ pc' = "tick"
    /\ UNCHANGED <<inbox, ctl, disp, btn, moon, guestVars, socketVars>>

Press ==
    /\ Polling /\ ctl.startup_error = "none"
    /\ pc' = "press"
    /\ UNCHANGED <<inbox, moon, host, socketVars>>

\* The messages of a failure that enters degraded mode are dropped here.
PressNoStatus ==
    /\ Press
    /\ left["press"] > 0 /\ left["qm"] > 0
    /\ left' = [left EXCEPT !["press"] = @ - 1, !["qm"] = @ - 1]
    /\ ctl' = RecordFailure(ctl)
    /\ UNCHANGED <<disp, btn, vm>>

Refreshed == RefreshAction(btn, vm)

Actionable ==
    /\ ~Refreshed.in_flight
    /\ btn.accepted >= Debounce
    /\ vm \in ButtonStopped \union ButtonRunning

PressStatus ==
    /\ Press
    /\ ctl' = ClearFailures(ctl)
    /\ disp' = RecordPowerState(disp, vm)

PressIgnored ==
    /\ PressStatus /\ ~Actionable
    /\ Spend("press")
    /\ btn' = Refreshed
    /\ UNCHANGED vm

Chosen == IF vm \in ButtonStopped THEN "start" ELSE "shutdown"
Target == IF Chosen = "start" THEN "running" ELSE "stopped"

PressRefused ==
    /\ PressStatus /\ Actionable
    /\ left["press"] > 0 /\ left["qm"] > 0
    /\ left' = [left EXCEPT !["press"] = @ - 1, !["qm"] = @ - 1]
    /\ btn' = [Refreshed EXCEPT !.action = Chosen, !.accepted = 0]
    /\ UNCHANGED vm

\* qm accepts the command; the guest follows at once or, maybe, later.
PressAccepted ==
    /\ PressStatus /\ Actionable
    /\ Spend("press")
    /\ btn' = [in_flight |-> TRUE, action |-> Chosen, started |-> 0, accepted |-> 0]
    /\ vm' \in {vm, Target}

HandlePress == PressNoStatus \/ PressIgnored \/ PressRefused \/ PressAccepted

-----------------------------------------------------------------------------
(* tick(), after the presses.  It reads the VM's status, resolves the       *)
(* power-button action, updates the display intent, and then takes one of   *)
(* the paths below.                                                         *)

Ticked(c, m, msgs) ==
    /\ Deliver(c, m, msgs)
    /\ pc' = "read"
    /\ UNCHANGED inbox

TickDegraded ==
    /\ pc = "tick" /\ Faulted(ctl)
    /\ Ticked(ctl, moon, <<>>)
    /\ UNCHANGED <<disp, btn, guestVars>>

TickNoStatus ==
    /\ pc = "tick" /\ ~Faulted(ctl)
    /\ Spend("qm")
    /\ Ticked(RecordFailure(ctl), moon, FailureMessages(ctl))
    /\ UNCHANGED <<disp, btn, vm, host>>

\* ctl and disp once the status is known.
Observed == ClearFailures(ctl)
Decided == UpdateIntent(RecordPowerState(disp, vm), Refreshed)

\* Mutant of PowerMessages: compares with what the session last reported.
PowerMessagesByApplied ==
    IF Decided.intent # disp.applied THEN <<DisplayPower(Decided.intent)>> ELSE <<>>

PowerMessages ==
    IF Decided.intent # disp.intent THEN <<DisplayPower(Decided.intent)>> ELSE <<>>

TickStatus ==
    /\ pc = "tick" /\ ~Faulted(ctl)
    /\ btn' = Refreshed
    /\ disp' = Decided
    /\ UNCHANGED <<vm, host>>

TickNoSession ==
    /\ TickStatus /\ ~ctl.session_ready
    /\ Ticked(Observed, moon, <<>>)
    /\ UNCHANGED left

\* Mutant of VmOffMessages: waiting is shown only after a console.
VmOffAfterConsole ==
    IF ctl.console_running
    THEN <<DisconnectConsole("vm_not_running"), ShowWaiting("vm_stopped")>> \o PowerMessages
    ELSE PowerMessages

VmOffMessages ==
    (IF ctl.console_running THEN <<DisconnectConsole("vm_not_running")>> ELSE <<>>)
      \o (IF ctl.session_state \in {"waiting_for_vm", "display_sleeping"}
          THEN <<>> ELSE <<ShowWaiting("vm_stopped")>>)
      \o PowerMessages

TickVmOff ==
    /\ TickStatus /\ ctl.session_ready /\ vm \in DisplayOff
    /\ Ticked(Transition([Observed EXCEPT !.next_reconnect_at = None,
                                          !.reconnect_delay = ReconnectInitial,
                                          !.console_running = FALSE],
                         WaitingState(Decided)),
              Unpaired, VmOffMessages)
    /\ UNCHANGED left

TickTransitional ==
    /\ TickStatus /\ ctl.session_ready /\ vm \notin DisplayOff \union DisplayOn
    /\ Ticked(IF ~ctl.console_running /\ Decided.intent = "on"
              THEN Transition(Observed, WaitingState(Decided)) ELSE Observed,
              Unpaired, PowerMessages)
    /\ UNCHANGED left

TickVmOn == TickStatus /\ ctl.session_ready /\ vm \in DisplayOn

TickShowing ==
    /\ TickVmOn /\ ctl.console_running /\ ~PairingPending(moon)
    /\ Ticked(Transition(Observed, "showing_console"), moon, PowerMessages)
    /\ UNCHANGED left

TickBackoff ==
    /\ TickVmOn /\ ~ctl.console_running /\ ctl.next_reconnect_at > 0
    /\ Ticked(Transition(Observed, "reconnecting_console"), moon, PowerMessages)
    /\ UNCHANGED left

\* Mutant of TickPrepare: the backoff is not waited for.
TickPrepareAtOnce ==
    /\ TickVmOn
    /\ ctl.console_running => PairingPending(moon)

\* A console has to be prepared: none runs and no backoff is left, or the
\* running one is the pairing UI.
TickPrepare ==
    /\ TickVmOn
    /\ IF ctl.console_running THEN PairingPending(moon) ELSE ctl.next_reconnect_at =< 0

-----------------------------------------------------------------------------
(* _handle_moonlight_pairing, the paths on which no stream is launched.     *)

TickPairing == TickPrepare /\ Backend = "moonlight"

\* The TCP probe and the live pair-state probe, as one answer.  An error of the
\* host's reply counts as unpaired, so the handlers of RuntimeValidationError
\* around _handle_moonlight_pairing are never reached with these probes.
PairProbe == host

TickHostUnreachable ==
    /\ TickPairing /\ PairProbe = "unreachable"
    /\ Ticked(Transition(ScheduleReconnect(Observed), "reconnecting_console"),
              Unpaired, PowerMessages \o <<ShowWaiting("reconnecting")>>)
    /\ UNCHANGED left

PairIssueDue ==
    \/ ~PairingPending(moon)
    \/ moon.requested >= PairTimeout
    \/ ~moon.launch_pending

\* Mutant of PairLaunch: the pairing UI gets the PIN of the last episode.
PairLaunchOldPin(pin) == ConnectPair(IF moon.pin = NoPin THEN pin ELSE moon.pin)

\* _prepare_moonlight_pair_launch
PairLaunch(pin) == ConnectPair(pin)

TickPairIssue ==
    /\ TickPairing /\ PairProbe = "unpaired" /\ PairIssueDue
    /\ \E pin \in Pins :
         Ticked(Transition([Observed EXCEPT !.next_reconnect_at = None],
                           "waiting_for_pairing"),
                [pair_state |-> "pending_pin_approval", pin |-> pin,
                 requested |-> 0, launch_pending |-> TRUE],
                Append(PowerMessages, PairLaunch(pin)))
    /\ UNCHANGED left

TickPairWait ==
    /\ TickPairing /\ PairProbe = "unpaired" /\ ~PairIssueDue
    /\ Ticked(Transition([Observed EXCEPT !.next_reconnect_at = None],
                         "waiting_for_pairing"),
              moon,
              IF ctl.session_state = "waiting_for_pairing" THEN PowerMessages
              ELSE Append(PowerMessages, ShowPairing(moon.pin)))
    /\ UNCHANGED left

-----------------------------------------------------------------------------
(* _prepare_console_launch and what tick() makes of its outcome.            *)

\* For Moonlight only once the pair-state probe says paired.
TickLaunching == TickPrepare /\ (Backend = "moonlight" => PairProbe = "paired")

Launching == [Observed EXCEPT !.next_reconnect_at = None]

\* Mutant of MoonLaunching: the confirmed pairing is not recorded.
MoonUnmarked == moon

\* What _mark_moonlight_as_paired leaves for a Moonlight launch.
MoonLaunching == IF Backend = "moonlight" THEN Paired ELSE moon

TickLaunch ==
    /\ TickLaunching
    /\ Ticked(Transition(Launching, "requesting_console"), MoonLaunching,
              Append(PowerMessages, ConnectStream))
    /\ UNCHANGED left

\* probe_vnc_endpoint raises VncEndpointUnavailableError.
EndpointRefused == Backend = "vnc" /\ Spend("endpoint")

\* RuntimeValidationError or VncConfigurationError: what the backend needs is
\* not there, or not as configured.
ConsoleInvalid == Backend # "spice" /\ Spend("validate")

\* ProxmoxCommandError from pvesh spiceproxy or qm config.
ConsoleRefused == Backend \in {"spice", "vnc"} /\ Spend("pvesh")

TickEndpointUnavailable ==
    /\ TickLaunching /\ EndpointRefused
    /\ Ticked(Transition(ScheduleReconnect(Observed), "reconnecting_console"), moon,
              Append(PowerMessages, ShowWaiting("reconnecting")))

TickLaunchInvalid ==
    /\ TickLaunching /\ ConsoleInvalid
    /\ LET c == IF Backend = "moonlight" THEN Launching ELSE Observed
       IN  Ticked(EnterDegraded(c, "console"), MoonLaunching,
                  PowerMessages \o DegradedMessages(c))

TickLaunchRefused ==
    /\ TickLaunching /\ ConsoleRefused
    /\ LET c == Transition(Observed, "requesting_console")
       IN  Ticked(RecordFailure(c), moon, PowerMessages \o FailureMessages(c))

Tick ==
    \/ TickDegraded \/ TickNoStatus \/ TickNoSession \/ TickVmOff \/ TickTransitional
    \/ TickShowing \/ TickBackoff
    \/ TickHostUnreachable \/ TickPairIssue \/ TickPairWait
    \/ TickLaunch \/ TickEndpointUnavailable \/ TickLaunchInvalid \/ TickLaunchRefused

-----------------------------------------------------------------------------
(* subprocess.TimeoutExpired leaves default_runner as it is: nothing in the *)
(* daemon catches it.  qm shutdown waits for the guest.                     *)

StatusHangs ==
    /\ ~Faulted(ctl)
    /\ pc = "tick" \/ Handling("session_ready")
    /\ Spend("hang")
    /\ DaemonStops
    /\ UNCHANGED <<vm, host>>

\* The status or the command of a press.
PressHangs ==
    /\ Polling /\ ctl.startup_error = "none"
    /\ left["press"] > 0 /\ left["hang"] > 0
    /\ left' = [left EXCEPT !["press"] = @ - 1, !["hang"] = @ - 1]
    /\ vm' = vm \/ (Actionable /\ vm' = Target)
    /\ DaemonStops
    /\ UNCHANGED host

-----------------------------------------------------------------------------
(* Time passes in the sleep between two passes of the loop.                 *)

Older(age, cap) == IF age = None \/ age >= cap THEN age ELSE age + 1

TimePasses ==
    /\ pc = "read"
    /\ ctl' = [ctl EXCEPT
                 !.next_reconnect_at = IF @ > 0 THEN @ - 1 ELSE @,
                 !.failures = [age \in 0 .. FailureWindow |->
                                 IF age = 0 THEN 0 ELSE ctl.failures[age - 1]]]
    /\ disp' = [disp EXCEPT !.since = Older(@, OffDelay),
                            !.uptime = Older(@, Stabilize + OffDelay)]
    /\ btn' = [btn EXCEPT !.started = Older(@, ButtonTimeout),
                          !.accepted = Older(@, Debounce)]
    /\ moon' = [moon EXCEPT !.requested = Older(@, PairTimeout)]
    /\ UNCHANGED <<pc, inbox, guestVars, socketVars>>

DaemonLoop ==
    \/ DaemonStart \/ AcceptPending \/ ReadMessages \/ HandleMessage
    \/ PollFails \/ PollDone \/ HandlePress \/ Tick

DaemonNext == DaemonLoop \/ DaemonCrash \/ StatusHangs \/ PressHangs \/ TimePasses

DaemonTypeOK ==
    /\ pc \in {"down", "read", "handle", "poll", "press", "tick"}
    /\ inbox \in Seq(SessionMessage)
    /\ ctl \in CtlType
    /\ disp \in DispType
    /\ btn \in BtnType
    /\ moon \in MoonType
=============================================================================
