------------------------- MODULE RelaySafetyProofs -------------------------
(***************************************************************************)
(* Three safety properties of RelayDisplay for every configuration: a      *)
(* ready session has a connection, a degraded reason has a degraded state, *)
(* and an input failure leaves no power-button action in flight.           *)
(***************************************************************************)
EXTENDS RelayDisplayProofs

\* The three properties and the fact about a stopped daemon that the last one
\* needs: a new process has no action in flight that start() could forget.
SafetyInv ==
    /\ ReadyIsConnected
    /\ ReasonIsDegraded
    /\ ErrorEndsAction
    /\ pc = "down" => ~btn.in_flight

\* What every method leaves behind: a reason only with the degraded state, the
\* startup error of the state it started from, and a given session_ready.
Sound(c, ready) ==
    /\ c \in CtlType
    /\ c.degraded_reason # "none" => c.session_state = "degraded"
    /\ c.startup_error = ctl.startup_error
    /\ c.session_ready = ready

-----------------------------------------------------------------------------
\* The daemon's methods keep a control state sound.
LEMMA MethodsSound ==
    ASSUME NEW ready \in BOOLEAN, NEW c, Sound(c, ready)
    PROVE  /\ \A s \in SessionStates : Sound(Transition(c, s), ready)
           /\ \A r \in Reasons : Sound(EnterDegraded(c, r), ready)
           /\ Sound(Disconnected(c), FALSE)
           /\ Sound(ScheduleReconnect(c), ready)
           /\ Sound(ClearFailures(c), ready)
           /\ Sound(RecordFailure(c), ready)
<1>0. c \in CtlType
  BY DEF Sound
<1>1. ASSUME NEW s \in SessionStates PROVE Sound(Transition(c, s), ready)
  <2>1. Transition(c, s) \in CtlType
    BY <1>0, CtlTyped
  <2> QED
    BY <1>0, <2>1 DEF Sound, Transition, CtlType
<1>2. ASSUME NEW d, Sound(d, ready), NEW r \in Reasons PROVE Sound(EnterDegraded(d, r), ready)
  <2>1. EnterDegraded(d, r) \in CtlType /\ d \in CtlType
    BY <1>2, CtlTyped DEF Sound
  <2> QED
    BY <1>2, <2>1 DEF Sound, EnterDegraded, CtlType
<1>3. Sound(Disconnected(c), FALSE)
  <2>1. Disconnected(c) \in CtlType
    BY <1>0, CtlTyped
  <2> QED
    BY <1>0, <2>1 DEF Sound, Disconnected, Transition, CtlType
<1>4. Sound(ScheduleReconnect(c), ready)
  <2>1. ScheduleReconnect(c) \in CtlType
    BY <1>0, CtlTyped
  <2> QED
    BY <1>0, <2>1 DEF Sound, ScheduleReconnect, CtlType
<1>5. Sound(ClearFailures(c), ready)
  <2>1. ClearFailures(c) \in CtlType
    BY <1>0, CtlTyped
  <2> QED
    BY <1>0, <2>1 DEF Sound, ClearFailures, CtlType
<1>6. Sound(RecordFailure(c), ready)
  <2>0. RecordFailure(c) \in CtlType
    BY <1>0, CtlTyped
  <2> DEFINE d == [c EXCEPT !.failures[0] = @ + 1]
  <2>1. /\ d.degraded_reason = c.degraded_reason /\ d.session_state = c.session_state
        /\ d.startup_error = c.startup_error /\ d.session_ready = c.session_ready
    BY <1>0 DEF CtlType
  <2>2. CASE RecordFailure(c) = d
    BY <2>0, <2>1, <2>2 DEF Sound
  <2>3. CASE RecordFailure(c) = EnterDegraded(d, "proxmox")
    <3>1. /\ EnterDegraded(d, "proxmox").session_state = "degraded"
          /\ EnterDegraded(d, "proxmox").startup_error = d.startup_error
          /\ EnterDegraded(d, "proxmox").session_ready = d.session_ready
      BY <1>0 DEF EnterDegraded, CtlType
    <3> QED
      BY <2>0, <2>1, <2>3, <3>1 DEF Sound
  <2> QED
    BY <2>2, <2>3 DEF RecordFailure
<1> QED
  BY <1>1, <1>2, <1>3, <1>4, <1>5, <1>6

\* So do the updates in place.
LEMMA UpdatesSound ==
    ASSUME NEW ready \in BOOLEAN, NEW c, Sound(c, ready), NEW running \in BOOLEAN
    PROVE  /\ Sound([c EXCEPT !.session_ready = TRUE, !.console_running = running], TRUE)
           /\ Sound([c EXCEPT !.console_running = running], ready)
           /\ Sound([c EXCEPT !.next_reconnect_at = None], ready)
           /\ Sound([c EXCEPT !.console_running = running, !.next_reconnect_at = None,
                              !.reconnect_delay = ReconnectInitial], ready)
           /\ Sound([c EXCEPT !.next_reconnect_at = None, !.reconnect_delay = ReconnectInitial,
                              !.console_running = running], ready)
<1>1. c \in CtlType
  BY DEF Sound
<1>2. /\ [c EXCEPT !.session_ready = TRUE, !.console_running = running] \in CtlType
      /\ [c EXCEPT !.console_running = running] \in CtlType
      /\ [c EXCEPT !.next_reconnect_at = None] \in CtlType
      /\ [c EXCEPT !.console_running = running, !.next_reconnect_at = None,
                   !.reconnect_delay = ReconnectInitial] \in CtlType
      /\ [c EXCEPT !.next_reconnect_at = None, !.reconnect_delay = ReconnectInitial,
                   !.console_running = running] \in CtlType
  BY <1>1, CtlUpdatesTyped
<1> QED
  BY <1>1, <1>2 DEF Sound, CtlType

-----------------------------------------------------------------------------
\* Sending, successful or not, ends with a sound state and a connection for a
\* session that is ready: the send is what finds out that it is gone.
LEMMA DeliverSafe ==
    ASSUME ReadyIsConnected, NEW ready \in BOOLEAN, NEW c, Sound(c, ready), NEW m, NEW msgs,
           ready => ctl.session_ready \/ msgs # <<>>, Deliver(c, m, msgs)
    PROVE  /\ ReadyIsConnected' /\ ReasonIsDegraded'
           /\ ctl'.startup_error = ctl.startup_error
<1>1. CASE Reaches(msgs)
  <2>1. ctl' = c /\ conn' = conn
    BY <1>1 DEF Deliver, SendAll
  <2>2. ready => conn # "none"
    BY <1>1 DEF ReadyIsConnected, Reaches
  <2> QED
    BY <2>1, <2>2 DEF Sound, ReadyIsConnected, ReasonIsDegraded, Degraded
<1>2. CASE ~Reaches(msgs)
  <2>1. ctl' = Disconnected(c)
    BY <1>2 DEF Deliver
  <2>2. Sound(ctl', FALSE)
    BY <2>1, MethodsSound
  <2> QED
    BY <2>2 DEF Sound, ReadyIsConnected, ReasonIsDegraded, Degraded
<1> QED
  BY <1>1, <1>2

\* What a step of the running daemon has to show.
LEMMA StepSafe ==
    ASSUME SafetyInv, ReadyIsConnected', ReasonIsDegraded',
           ctl'.startup_error = ctl.startup_error,
           btn'.in_flight => btn.in_flight, pc' # "down"
    PROVE  SafetyInv'
BY DEF SafetyInv, ErrorEndsAction

\* The end of a step of handle_session_message.
LEMMA HandledSafe ==
    ASSUME SafetyInv, NEW ready \in BOOLEAN, NEW c, Sound(c, ready), NEW m, NEW msgs,
           ready => ctl.session_ready \/ msgs # <<>>, Handled(c, m, msgs),
           btn'.in_flight => btn.in_flight
    PROVE  SafetyInv'
<1>1. /\ ReadyIsConnected' /\ ReasonIsDegraded' /\ ctl'.startup_error = ctl.startup_error
  BY DeliverSafe DEF Handled, SafetyInv
<1>2. pc' # "down"
  BY DEF Handled, AfterMessages
<1> QED
  BY <1>1, <1>2, StepSafe

\* The same for tick().
LEMMA TickedSafe ==
    ASSUME SafetyInv, NEW c, Sound(c, ctl.session_ready), ctl.session_ready \in BOOLEAN,
           NEW m, NEW msgs, Ticked(c, m, msgs), btn'.in_flight => btn.in_flight
    PROVE  SafetyInv'
<1>1. /\ ReadyIsConnected' /\ ReasonIsDegraded' /\ ctl'.startup_error = ctl.startup_error
  BY DeliverSafe DEF Ticked, SafetyInv
<1>2. pc' # "down"
  BY DEF Ticked
<1> QED
  BY <1>1, <1>2, StepSafe

\* The message handlers: only session_ready makes the session ready, and it
\* always answers.
LEMMA HandleMessageSafe ==
    ASSUME TypeInv, SafetyInv, HandleMessage
    PROVE  SafetyInv'
<1>1. /\ ctl \in CtlType /\ ctl.session_ready \in BOOLEAN
      /\ Sound(ctl, ctl.session_ready)
  BY DEF TypeInv, TypeOK, DaemonTypeOK, SafetyInv, ReasonIsDegraded, Degraded, Sound, CtlType
<1>2. Sound(Greeted, TRUE)
  BY <1>1, UpdatesSound DEF Greeted
<1>3. /\ \A p : WaitingState(p) \in SessionStates
      /\ {"degraded", "waiting_for_pairing", "reconnecting_console", "requesting_console",
          "showing_console"} \subseteq SessionStates
      /\ "session" \in Reasons
  BY DEF WaitingState, SessionStates, Reasons
<1>4. btn'.in_flight => btn.in_flight
  BY DEF HandleMessage, SessionReadyDegraded, SessionReadyNoStatus, SessionReady, ConsoleStarted,
         PowerApplied, ConsoleExited, SessionError
<1>5. CASE SessionReadyDegraded
  <2>1. Sound(Transition(Greeted, "degraded"), TRUE)
    BY <1>2, <1>3, MethodsSound
  <2>2. /\ Handled(Transition(Greeted, "degraded"), MoonGreeted, <<ShowWaiting("degraded")>>)
        /\ <<ShowWaiting("degraded")>> # <<>>
    BY <1>5 DEF SessionReadyDegraded
  <2> QED
    BY <1>4, <2>1, <2>2, HandledSafe
<1>6. CASE SessionReadyNoStatus
  <2> DEFINE c == RecordFailure(Greeted)
             d == IF c.session_state = "degraded" THEN c ELSE Transition(c, WaitingState(disp))
             first == <<DisplayPower(disp.intent)>>
             mid == IF c.session_state = "degraded" THEN DegradedMessages(Greeted) ELSE <<>>
             last == ShowWaiting(IF c.session_state = "degraded" THEN "degraded" ELSE "vm_stopped")
  <2>1. Sound(d, TRUE)
    <3>1. Sound(c, TRUE)
      BY <1>2, MethodsSound
    <3> QED
      BY <1>3, <3>1, MethodsSound
  <2>2. Handled(d, MoonGreeted, first \o mid \o <<last>>)
    BY <1>6 DEF SessionReadyNoStatus
  <2>3. first \o mid \o <<last>> # <<>>
    <3>1. first \o mid \in Seq({DisplayPower(disp.intent)} \union DaemonMessage)
      BY DegradedTyped
    <3> HIDE DEF first, mid, last
    <3> QED
      BY <3>1
  <2> HIDE DEF d, first, mid, last
  <2> QED
    BY <1>4, <2>1, <2>2, <2>3, HandledSafe
<1>7. CASE SessionReady
  <2>1. Sound(ClearFailures(Greeted), TRUE)
    BY <1>2, MethodsSound
  <2>2. PICK state, msg :
          /\ state \in SessionStates
          /\ Handled(Transition(ClearFailures(Greeted), state), MoonGreeted,
                     <<DisplayPower(disp.intent), msg>>)
    BY <1>3, <1>7 DEF SessionReady
  <2>3. <<DisplayPower(disp.intent), msg>> # <<>>
    OBVIOUS
  <2>4. Sound(Transition(ClearFailures(Greeted), state), TRUE)
    BY <2>1, <2>2, MethodsSound
  <2> QED
    BY <1>4, <2>2, <2>3, <2>4, HandledSafe
<1>8. ASSUME NEW c, Sound(c, ctl.session_ready), NEW m, NEW msgs, Handled(c, m, msgs)
      PROVE  SafetyInv'
  BY <1>1, <1>4, <1>8, HandledSafe
<1>9. CASE ConsoleStarted
  <2> DEFINE c == [ctl EXCEPT !.console_running = TRUE, !.next_reconnect_at = None,
                              !.reconnect_delay = ReconnectInitial]
  <2>1. Sound(c, ctl.session_ready)
    BY <1>1, UpdatesSound
  <2>2. PICK state \in SessionStates : Handled(Transition(c, state), moon, <<>>)
    BY <1>3, <1>9 DEF ConsoleStarted
  <2> HIDE DEF c
  <2> QED
    BY <1>1, <1>8, <2>1, <2>2, MethodsSound
<1>10. CASE PowerApplied
  <2>1. PICK c : Sound(c, ctl.session_ready) /\ Handled(c, moon, <<>>)
    BY <1>1, <1>3, <1>10, MethodsSound DEF PowerApplied
  <2> QED
    BY <1>8, <2>1
<1>11. CASE ConsoleExited
  <2> DEFINE c == [ctl EXCEPT !.console_running = FALSE]
  <2>1. Sound(c, ctl.session_ready)
    BY <1>1, UpdatesSound
  <2>2. /\ Sound([c EXCEPT !.next_reconnect_at = None], ctl.session_ready)
        /\ Sound(ScheduleReconnect(c), ctl.session_ready)
    BY <1>1, <2>1, UpdatesSound, MethodsSound
  <2>3. \E d, state, msgs : /\ Sound(d, ctl.session_ready) /\ state \in SessionStates
                            /\ Handled(Transition(d, state), moon, msgs)
    <3>1. CASE PairingPending(moon)
      BY <1>3, <1>11, <2>2, <3>1 DEF ConsoleExited
    <3>2. CASE ~PairingPending(moon) /\ disp.vm_power_state \in DisplayOn
      BY <1>3, <1>11, <2>2, <3>2 DEF ConsoleExited
    <3>3. CASE ~PairingPending(moon) /\ disp.vm_power_state \notin DisplayOn
      BY <1>3, <1>11, <2>1, <3>3 DEF ConsoleExited
    <3> QED
      BY <3>1, <3>2, <3>3
  <2> QED
    BY <1>1, <1>8, <2>3, MethodsSound
<1>12. CASE SessionError
  <2>1. Sound(EnterDegraded(ctl, "session"), ctl.session_ready)
    BY <1>1, <1>3, MethodsSound
  <2> QED
    BY <1>8, <1>12, <2>1 DEF SessionError
<1> QED
  BY <1>5, <1>6, <1>7, <1>9, <1>10, <1>11, <1>12 DEF HandleMessage

\* Every path of tick().
LEMMA TickSafe ==
    ASSUME TypeInv, SafetyInv, Tick
    PROVE  SafetyInv'
<1> DEFINE ready == ctl.session_ready
<1>1. ready \in BOOLEAN /\ Sound(ctl, ready)
  BY DEF TypeInv, TypeOK, DaemonTypeOK, SafetyInv, ReasonIsDegraded, Degraded, Sound, CtlType
<1>2. btn'.in_flight => btn.in_flight
  <2>1. Refreshed.in_flight => btn.in_flight
    BY BtnTyped DEF Refreshed, TypeInv, TypeOK, DaemonTypeOK
  <2>2. btn' = btn \/ btn' = Refreshed
    BY DEF Tick, TickDegraded, TickNoStatus, TickNoSession, TickVmOff, TickTransitional,
           TickShowing, TickBackoff, TickHostUnreachable, TickPairIssue,
           TickPairWait, TickLaunch, TickEndpointUnavailable, TickLaunchInvalid,
           TickLaunchRefused, TickPairing, TickLaunching, TickPrepare, TickVmOn, TickStatus
  <2> QED
    BY <2>1, <2>2
<1> HIDE DEF ready
<1>3. Sound(Observed, ready)
  BY <1>1, MethodsSound DEF Observed
<1>4. Sound(Launching, ready)
  BY <1>1, <1>3, UpdatesSound DEF Launching
<1>5. /\ \A p : WaitingState(p) \in SessionStates
      /\ {"showing_console", "reconnecting_console", "waiting_for_pairing",
          "requesting_console"} \subseteq SessionStates
      /\ "console" \in Reasons
  BY DEF WaitingState, SessionStates, Reasons
<1>6. ASSUME NEW c, Sound(c, ready), \E m, msgs : Ticked(c, m, msgs)
      PROVE  SafetyInv'
  BY <1>1, <1>2, <1>6, TickedSafe DEF ready
<1>7. CASE TickDegraded
  <2>1. Sound(ctl, ready)
    BY <1>1
  <2>2. \E m, msgs : Ticked(ctl, m, msgs)
    BY <1>7 DEF TickDegraded
  <2> QED
    BY <1>6, <2>1, <2>2
<1>8. CASE TickNoStatus
  <2>1. Sound(RecordFailure(ctl), ready)
    BY <1>1, MethodsSound
  <2>2. \E m, msgs : Ticked(RecordFailure(ctl), m, msgs)
    BY <1>8 DEF TickNoStatus
  <2> QED
    BY <1>6, <2>1, <2>2
<1>9. CASE TickNoSession
  <2>1. Sound(Observed, ready)
    BY <1>3
  <2>2. \E m, msgs : Ticked(Observed, m, msgs)
    BY <1>9 DEF TickNoSession
  <2> QED
    BY <1>6, <2>1, <2>2
<1>10. CASE TickVmOff
  <2>1. Sound(Transition([Observed EXCEPT !.next_reconnect_at = None, !.reconnect_delay = ReconnectInitial,
                                   !.console_running = FALSE], WaitingState(Decided)), ready)
    BY <1>1, <1>3, <1>5, UpdatesSound, MethodsSound
  <2>2. \E m, msgs : Ticked(Transition([Observed EXCEPT !.next_reconnect_at = None, !.reconnect_delay = ReconnectInitial,
                                   !.console_running = FALSE], WaitingState(Decided)), m, msgs)
    BY <1>10 DEF TickVmOff
  <2> QED
    BY <1>6, <2>1, <2>2
<1>11. CASE TickTransitional
  <2> DEFINE Later == IF ~ctl.console_running /\ Decided.intent = "on"
                      THEN Transition(Observed, WaitingState(Decided)) ELSE Observed
  <2>1. Sound(Later, ready)
    BY <1>1, <1>3, <1>5, MethodsSound
  <2>2. \E m, msgs : Ticked(Later, m, msgs)
    BY <1>11 DEF TickTransitional
  <2> QED
    BY <1>6, <2>1, <2>2
<1>12. CASE TickShowing
  <2>1. Sound(Transition(Observed, "showing_console"), ready)
    BY <1>1, <1>3, <1>5, MethodsSound
  <2>2. \E m, msgs : Ticked(Transition(Observed, "showing_console"), m, msgs)
    BY <1>12 DEF TickShowing
  <2> QED
    BY <1>6, <2>1, <2>2
<1>13. CASE TickBackoff
  <2>1. Sound(Transition(Observed, "reconnecting_console"), ready)
    BY <1>1, <1>3, <1>5, MethodsSound
  <2>2. \E m, msgs : Ticked(Transition(Observed, "reconnecting_console"), m, msgs)
    BY <1>13 DEF TickBackoff
  <2> QED
    BY <1>6, <2>1, <2>2
<1>14. CASE TickHostUnreachable
  <2>1. Sound(Transition(ScheduleReconnect(Observed), "reconnecting_console"), ready)
    BY <1>1, <1>3, <1>5, MethodsSound
  <2>2. \E m, msgs : Ticked(Transition(ScheduleReconnect(Observed), "reconnecting_console"), m, msgs)
    BY <1>14 DEF TickHostUnreachable
  <2> QED
    BY <1>6, <2>1, <2>2
<1>16. CASE TickPairIssue
  <2>1. Sound(Transition(Launching, "waiting_for_pairing"), ready)
    BY <1>1, <1>4, <1>5, MethodsSound
  <2>2. \E m, msgs : Ticked(Transition(Launching, "waiting_for_pairing"), m, msgs)
    BY <1>16 DEF TickPairIssue, Launching
  <2> QED
    BY <1>6, <2>1, <2>2
<1>17. CASE TickPairWait
  <2>1. Sound(Transition(Launching, "waiting_for_pairing"), ready)
    BY <1>1, <1>4, <1>5, MethodsSound
  <2>2. \E m, msgs : Ticked(Transition(Launching, "waiting_for_pairing"), m, msgs)
    BY <1>17 DEF TickPairWait, Launching
  <2> QED
    BY <1>6, <2>1, <2>2
<1>18. CASE TickLaunch
  <2>1. Sound(Transition(Launching, "requesting_console"), ready)
    BY <1>1, <1>4, <1>5, MethodsSound
  <2>2. \E m, msgs : Ticked(Transition(Launching, "requesting_console"), m, msgs)
    BY <1>18 DEF TickLaunch
  <2> QED
    BY <1>6, <2>1, <2>2
<1>19. CASE TickEndpointUnavailable
  <2>1. Sound(Transition(ScheduleReconnect(Observed), "reconnecting_console"), ready)
    BY <1>1, <1>3, <1>5, MethodsSound
  <2>2. \E m, msgs : Ticked(Transition(ScheduleReconnect(Observed), "reconnecting_console"), m, msgs)
    BY <1>19 DEF TickEndpointUnavailable
  <2> QED
    BY <1>6, <2>1, <2>2
<1>20. CASE TickLaunchInvalid
  <2> DEFINE Start == IF Backend = "moonlight" THEN Launching ELSE Observed
  <2>1. Sound(EnterDegraded(Start, "console"), ready)
    BY <1>1, <1>3, <1>4, <1>5, MethodsSound
  <2>2. \E m, msgs : Ticked(EnterDegraded(Start, "console"), m, msgs)
    BY <1>20 DEF TickLaunchInvalid
  <2> QED
    BY <1>6, <2>1, <2>2
<1>21. CASE TickLaunchRefused
  <2>1. Sound(RecordFailure(Transition(Observed, "requesting_console")), ready)
    BY <1>1, <1>3, <1>5, MethodsSound
  <2>2. \E m, msgs : Ticked(RecordFailure(Transition(Observed, "requesting_console")), m, msgs)
    BY <1>21 DEF TickLaunchRefused
  <2> QED
    BY <1>6, <2>1, <2>2
<1> QED
  BY <1>7, <1>8, <1>9, <1>10, <1>11, <1>12, <1>13, <1>14,
     <1>16, <1>17, <1>18, <1>19, <1>20, <1>21 DEF Tick

\* Starting and stopping, reading, presses and time.
LEMMA LoopSafe ==
    ASSUME TypeInv, SafetyInv,
           \/ DaemonStart \/ AcceptPending \/ ReadMessages
           \/ PollFails \/ PollDone \/ HandlePress
           \/ DaemonCrash \/ StatusHangs \/ PressHangs \/ TimePasses
    PROVE  SafetyInv'
<1> DEFINE ready == ctl.session_ready
<1>1. /\ ready \in BOOLEAN /\ Sound(ctl, ready) /\ ctl \in CtlType
      /\ "waiting_for_session" \in SessionStates
  BY DEF TypeInv, TypeOK, DaemonTypeOK, SafetyInv, ReasonIsDegraded, Degraded, Sound, CtlType,
         SessionStates
<1>2. ASSUME NEW c, Sound(c, ready), ctl' = c, conn # "none" => conn' # "none"
      PROVE  /\ ReadyIsConnected' /\ ReasonIsDegraded' /\ ctl'.startup_error = ctl.startup_error
  BY <1>2 DEF Sound, SafetyInv, ReadyIsConnected, ReasonIsDegraded, Degraded
<1>3. CASE DaemonStart
  <2>1. ~btn.in_flight /\ btn' = btn /\ conn' = conn
    BY <1>3 DEF DaemonStart, SafetyInv, socketVars
  <2>2. ReadyIsConnected' /\ ReasonIsDegraded'
    BY <1>1, <1>3, <2>1
       DEF DaemonStart, SetStartupError, Transition, SafetyInv, ReadyIsConnected,
           ReasonIsDegraded, Degraded, CtlType
  <2> QED
    BY <2>1, <2>2 DEF SafetyInv, ErrorEndsAction
<1>4. CASE AcceptPending
  <2>1. ReadyIsConnected'
    BY <1>4 DEF AcceptPending, Accept, ReadyIsConnected
  <2> QED
    BY <1>4, <2>1 DEF AcceptPending, SafetyInv, ReasonIsDegraded, Degraded, ErrorEndsAction
<1>5. CASE ReadMessages
  <2>1. CASE conn = "dead"
    <3>1. Sound(ctl', FALSE)
      BY <1>1, <1>5, <2>1, MethodsSound DEF ReadMessages
    <3> QED
      BY <1>5, <3>1, StepSafe
         DEF ReadMessages, AfterMessages, Sound, ReadyIsConnected, ReasonIsDegraded, Degraded
  <2>2. CASE conn # "dead"
    <3>1. ctl' = ctl /\ conn' = conn /\ btn' = btn /\ pc' # "down"
      BY <1>5, <2>2 DEF ReadMessages, ReadAll, AfterMessages, socketVars
    <3> QED
      BY <1>1, <1>2, <3>1, StepSafe
  <2> QED
    BY <2>1, <2>2
<1>6. CASE PollFails
  <2>1. btn'.in_flight = FALSE
    BY <1>6 DEF PollFails, Disarmed, TypeInv, TypeOK, DaemonTypeOK, BtnType
  <2>2. ReadyIsConnected' /\ ReasonIsDegraded'
    BY <1>1, <1>6
       DEF PollFails, SetStartupError, SafetyInv, ReadyIsConnected, ReasonIsDegraded, Degraded,
           CtlType, socketVars
  <2> QED
    BY <2>1, <2>2 DEF SafetyInv, ErrorEndsAction
<1>7. CASE PollDone
  BY <1>1, <1>2, <1>7, StepSafe DEF PollDone, socketVars
<1>8. CASE HandlePress
  <2>1. Press
    BY <1>8 DEF HandlePress, PressNoStatus, PressIgnored, PressRefused, PressAccepted, PressStatus
  <2>2. PICK c : Sound(c, ready) /\ ctl' = c
    BY <1>1, <1>8, MethodsSound
       DEF HandlePress, PressNoStatus, PressIgnored, PressRefused, PressAccepted, PressStatus
  <2>3. ReadyIsConnected' /\ ReasonIsDegraded' /\ ctl'.startup_error = "none" /\ pc' # "down"
    BY <1>2, <2>1, <2>2 DEF Press, socketVars
  <2> QED
    BY <2>3 DEF SafetyInv, ErrorEndsAction
<1>9. CASE DaemonCrash \/ StatusHangs \/ PressHangs
  <2>1. ctl' = CtlInit /\ btn' = BtnInit
    BY <1>9 DEF DaemonCrash, StatusHangs, PressHangs, DaemonStops
  <2> QED
    BY <2>1 DEF CtlInit, BtnInit, SafetyInv, ReadyIsConnected, ReasonIsDegraded, Degraded,
                ErrorEndsAction
<1>10. CASE TimePasses
  <2>1. /\ ctl'.session_ready = ctl.session_ready /\ ctl'.session_state = ctl.session_state
        /\ ctl'.degraded_reason = ctl.degraded_reason
        /\ ctl'.startup_error = ctl.startup_error
    BY <1>1, <1>10 DEF TimePasses, CtlType
  <2>2. btn'.in_flight = btn.in_flight
    BY <1>10 DEF TimePasses, TypeInv, TypeOK, DaemonTypeOK, BtnType
  <2>3. pc' = pc /\ conn' = conn
    BY <1>10 DEF TimePasses, socketVars
  <2> QED
    BY <2>1, <2>2, <2>3 DEF SafetyInv, ReadyIsConnected, ReasonIsDegraded, Degraded, ErrorEndsAction
<1> QED
  BY <1>3, <1>4, <1>5, <1>6, <1>7, <1>8, <1>9, <1>10

\* The session and the guest do not touch the daemon's state, and a session
\* that closes its end leaves the daemon's end open until it is read.
LEMMA OthersSafe ==
    ASSUME SafetyInv, SessionStep \/ GuestStep \/ UNCHANGED vars
    PROVE  SafetyInv'
<1>1. UNCHANGED <<ctl, btn, pc>>
  BY DEF SessionStep, GuestStep, daemonVars, vars
<1>2. conn # "none" => conn' # "none"
  <2>1. CASE SessionStep
    BY <2>1 DEF SessionStep, SessionConnect, Connect, SessionStart, SessionEof, SessionKilled,
                ClientClose, HandleDaemonMessage, ShowWaitingState, LaunchConsole, LaunchFails,
                LaunchRejected, ApplyDisplayPower, PowerHelperFails, Respond, Exchange,
                PollConsole, ViewerExits, socketVars
  <2>2. CASE GuestStep \/ UNCHANGED vars
    BY <2>2 DEF GuestStep, vars, socketVars
  <2> QED
    BY <2>1, <2>2
<1> QED
  BY <1>1, <1>2 DEF SafetyInv, ReadyIsConnected, ReasonIsDegraded, Degraded, ErrorEndsAction

-----------------------------------------------------------------------------
\* The conjunction is inductive relative to TypeInv.
LEMMA Safety == Spec => []SafetyInv
<1>1. Init => TypeInv /\ SafetyInv
  <2>1. Init => TypeInv
    BY InitTypeInv
  <2>2. Init => SafetyInv
    BY DEF Init, DaemonInit, CtlInit, BtnInit, SafetyInv, ReadyIsConnected, ReasonIsDegraded,
           Degraded, ErrorEndsAction
  <2> QED
    BY <2>1, <2>2
<1>2. TypeInv /\ SafetyInv /\ [Next]_vars => TypeInv' /\ SafetyInv'
  <2> SUFFICES ASSUME TypeInv, SafetyInv, [Next]_vars PROVE TypeInv' /\ SafetyInv'
    OBVIOUS
  <2>1. TypeInv'
    BY TypeStep
  <2>2. CASE DaemonStep
    BY <2>1, <2>2, HandleMessageSafe, TickSafe, LoopSafe DEF DaemonStep, DaemonNext, DaemonLoop
  <2>3. CASE SessionStep \/ GuestStep \/ UNCHANGED vars
    BY <2>1, <2>3, OthersSafe
  <2> QED
    BY <2>1, <2>2, <2>3 DEF Next
<1> QED
  BY <1>1, <1>2, PTL DEF Spec

\* The daemon believes in a session only while it holds a connection: a batch
\* that was read together with the end of file, and handled after it, cannot
\* bring a lost session back, because session_ready is answered and the answer
\* fails.
THEOREM ConnectedSession == Spec => []ReadyIsConnected
<1>1. SafetyInv => ReadyIsConnected
  BY DEF SafetyInv
<1> QED
  BY <1>1, Safety, PTL

\* Whatever message arrives late, the daemon never keeps a degraded reason in
\* a state other than degraded.
THEOREM ReasonedDegradation == Spec => []ReasonIsDegraded
<1>1. SafetyInv => ReasonIsDegraded
  BY DEF SafetyInv
<1> QED
  BY <1>1, Safety, PTL

\* A power-button action is never left in flight by the input failure after
\* which nothing would resolve it.
THEOREM ErrorsEndActions == Spec => []ErrorEndsAction
<1>1. SafetyInv => ErrorEndsAction
  BY DEF SafetyInv
<1> QED
  BY <1>1, Safety, PTL
=============================================================================
