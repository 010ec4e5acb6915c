------------------------- MODULE RelayDisplayProofs -------------------------
(***************************************************************************)
(* Theorems about the appliance for every configuration, every bound and   *)
(* every budget of faults.                                                 *)
(***************************************************************************)
EXTENDS RelayDisplay, TLAPS

-----------------------------------------------------------------------------
(* What the operators return.                                               *)

\* Every message constructor builds a message the session understands.
LEMMA MessagesTyped ==
    /\ \A r \in WaitingReasons : /\ ShowWaiting(r) \in DaemonMessage
                                 /\ DisconnectConsole(r) \in DaemonMessage
    /\ \A p \in Pins \union {NoPin} : /\ ShowPairing(p) \in DaemonMessage
                                      /\ ConnectPair(p) \in DaemonMessage
    /\ \A s \in PowerStates : DisplayPower(s) \in DaemonMessage
    /\ ConnectStream \in DaemonMessage
BY DEF DaemonMessage, WaitingReasons, ConsoleKinds, PowerStates, ShowWaiting,
       DisconnectConsole, ShowPairing, ConnectPair, DisplayPower, ConnectStream

\* One more failure of age 0.
LEMMA CountTyped ==
    ASSUME NEW S, 0 \in S, NEW f \in [S -> Nat]
    PROVE  [f EXCEPT ![0] = @ + 1] \in [S -> Nat]
OBVIOUS

\* The methods of the daemon keep its control state well formed.
LEMMA CtlTyped ==
    ASSUME NEW c \in CtlType
    PROVE  /\ \A s \in SessionStates : Transition(c, s) \in CtlType
           /\ \A r \in Reasons : /\ EnterDegraded(c, r) \in CtlType
                                 /\ SetStartupError(c, r) \in CtlType
           /\ Disconnected(c) \in CtlType
           /\ ScheduleReconnect(c) \in CtlType
           /\ ClearFailures(c) \in CtlType
           /\ RecordFailure(c) \in CtlType
<1>0. "none" \in Reasons /\ "degraded" \in SessionStates /\ "proxmox" \in Reasons
      /\ "waiting_for_session" \in SessionStates
  BY DEF Reasons, SessionStates
<1>1. \A s \in SessionStates : Transition(c, s) \in CtlType
  <2> SUFFICES ASSUME NEW s \in SessionStates PROVE Transition(c, s) \in CtlType
    OBVIOUS
  <2> QED
    BY <1>0 DEF Transition, CtlType
<1>2. \A r \in Reasons : EnterDegraded(c, r) \in CtlType /\ SetStartupError(c, r) \in CtlType
  BY <1>0 DEF EnterDegraded, SetStartupError, CtlType
<1>3. Disconnected(c) \in CtlType
  BY <1>0 DEF Disconnected, Transition, CtlType
<1>4. ScheduleReconnect(c) \in CtlType
  <2>1. /\ ReconnectInitial \in Nat /\ ReconnectMax \in Nat
        /\ ReconnectInitial =< ReconnectMax
    BY ConfigAssumption
  <2>2. c.reconnect_delay \in ReconnectInitial .. ReconnectMax
    BY DEF CtlType
  <2>3. c.reconnect_delay \in 0 .. ReconnectMax
    BY <2>1, <2>2
  <2> DEFINE next == IF 2 * c.reconnect_delay < ReconnectMax
                     THEN 2 * c.reconnect_delay ELSE ReconnectMax
  <2>4. next \in ReconnectInitial .. ReconnectMax
    BY <2>1, <2>2
  <2> HIDE DEF next
  <2>5. [c EXCEPT !.next_reconnect_at = c.reconnect_delay, !.reconnect_delay = next] \in CtlType
    BY <2>3, <2>4 DEF CtlType
  <2> QED
    BY <2>5 DEF ScheduleReconnect, next
<1>5. ClearFailures(c) \in CtlType
  BY DEF ClearFailures, CtlType, NoFailures
<1>6. RecordFailure(c) \in CtlType
  <2> DEFINE d == [c EXCEPT !.failures[0] = @ + 1]
  <2>1. d \in CtlType
    <3>1. c.failures \in [0 .. FailureWindow -> Nat] /\ 0 \in 0 .. FailureWindow
      BY ConfigAssumption DEF CtlType
    <3>2. [c.failures EXCEPT ![0] = @ + 1] \in [0 .. FailureWindow -> Nat]
      BY <3>1, CountTyped
    <3>3. d = [c EXCEPT !.failures = [c.failures EXCEPT ![0] = @ + 1]]
      BY DEF CtlType
    <3> QED
      BY <3>2, <3>3 DEF CtlType
  <2>2. EnterDegraded(d, "proxmox") \in CtlType
    BY <1>0, <2>1 DEF EnterDegraded, CtlType
  <2> QED
    BY <2>1, <2>2 DEF RecordFailure
<1> QED
  BY <1>1, <1>2, <1>3, <1>4, <1>5, <1>6

\* The field updates the handlers make in place.
LEMMA CtlUpdatesTyped ==
    ASSUME NEW c \in CtlType, NEW ready \in BOOLEAN, NEW running \in BOOLEAN
    PROVE  /\ [c EXCEPT !.session_ready = ready, !.console_running = running] \in CtlType
           /\ [c EXCEPT !.console_running = running] \in CtlType
           /\ [c EXCEPT !.next_reconnect_at = None] \in CtlType
           /\ [c EXCEPT !.console_running = running, !.next_reconnect_at = None,
                        !.reconnect_delay = ReconnectInitial] \in CtlType
           /\ [c EXCEPT !.next_reconnect_at = None, !.reconnect_delay = ReconnectInitial,
                        !.console_running = running] \in CtlType
<1>1. ReconnectInitial \in ReconnectInitial .. ReconnectMax
  BY ConfigAssumption
<1> QED
  BY <1>1 DEF CtlType, None

\* What a status and the intent do to the display state.
LEMMA DispTyped ==
    ASSUME NEW p \in DispType, NEW b, NEW status \in VmStates
    PROVE  /\ RecordPowerState(p, status) \in DispType
           /\ UpdateIntent(p, b) \in DispType
           /\ WaitingState(p) \in SessionStates
<1>1. 0 \in 0 .. OffDelay
  BY ConfigAssumption
<1>2. RecordPowerState(p, status) \in DispType
  BY <1>1 DEF RecordPowerState, DispType
<1>3. UpdateIntent(p, b) \in DispType
  <2>1. \A i \in PowerStates, q \in BOOLEAN :
          [p EXCEPT !.intent = i] \in DispType
            /\ [p EXCEPT !.intent = i, !.policy_pending = q] \in DispType
    BY DEF DispType
  <2>2. {"on", "off", p.intent} \subseteq PowerStates
    BY DEF PowerStates, DispType
  <2> QED
    BY <2>1, <2>2 DEF UpdateIntent
<1>4. WaitingState(p) \in SessionStates
  BY DEF WaitingState, SessionStates
<1> QED
  BY <1>2, <1>3, <1>4

\* Resolving a power-button action.
LEMMA BtnTyped ==
    ASSUME NEW b \in BtnType, NEW status
    PROVE  /\ RefreshAction(b, status) \in BtnType
           /\ Disarmed(b) \in BtnType
           /\ RefreshAction(b, status).in_flight => b.in_flight
BY DEF RefreshAction, Disarmed, BtnType, None

\* The pairing states the daemon assigns.
LEMMA MoonTyped ==
    /\ MoonInit \in MoonType /\ Paired \in MoonType /\ Unpaired \in MoonType
    /\ \A m \in MoonType : [m EXCEPT !.launch_pending = FALSE] \in MoonType
    /\ \A p \in Pins : [pair_state |-> "pending_pin_approval", pin |-> p,
                        requested |-> 0, launch_pending |-> TRUE] \in MoonType
<1>1. MoonInit \in MoonType
  BY DEF MoonInit, MoonType, None
<1>2. Paired \in MoonType
  BY <1>1 DEF Paired, MoonType
<1>3. \A m \in MoonType : [m EXCEPT !.launch_pending = FALSE] \in MoonType
  BY DEF MoonType
<1>4. 0 \in 0 .. PairTimeout
  BY ConfigAssumption
<1>5. \A p \in Pins : [pair_state |-> "pending_pin_approval", pin |-> p,
                     requested |-> 0, launch_pending |-> TRUE] \in MoonType
  BY <1>4 DEF MoonType
<1> QED
  BY <1>1, <1>2, <1>3, <1>5 DEF Unpaired

\* What the daemon sends when it degrades.
LEMMA DegradedTyped ==
    ASSUME NEW c
    PROVE  DegradedMessages(c) \in Seq(DaemonMessage) /\ FailureMessages(c) \in Seq(DaemonMessage)
<1>1. /\ DisconnectConsole("control_error") \in DaemonMessage
      /\ ShowWaiting("degraded") \in DaemonMessage
  BY MessagesTyped DEF WaitingReasons
<1>2. DegradedMessages(c) \in Seq(DaemonMessage)
  BY <1>1 DEF DegradedMessages
<1> QED
  BY <1>2 DEF FailureMessages

-----------------------------------------------------------------------------
(* Type correctness.                                                        *)

\* handle_session_message is called only for a message that was read.
HandlesMessage == pc = "handle" => inbox # <<>>

\* TypeOK alone is not inductive: Head and Tail of the batch need a message.
TypeInv == TypeOK /\ HandlesMessage

\* Sending well-formed messages keeps the socket, the control state and the
\* pairing state well formed, whether or not the send succeeds.
LEMMA DeliverTyped ==
    ASSUME SocketTypeOK, NEW c \in CtlType, NEW m \in MoonType,
           NEW msgs \in Seq(DaemonMessage), Deliver(c, m, msgs)
    PROVE  SocketTypeOK' /\ ctl' \in CtlType /\ moon' \in MoonType
<1>1. SocketTypeOK'
  <2>1. SendAll(msgs)
    BY DEF Deliver
  <2>2. CASE Reaches(msgs)
    <3>1. d2s \o msgs \in Seq(DaemonMessage)
      BY DEF SocketTypeOK
    <3>2. d2s' = d2s \o msgs /\ UNCHANGED <<conn, s2d, pend, client>>
      BY <2>1, <2>2 DEF SendAll
    <3> QED
      BY <3>1, <3>2 DEF SocketTypeOK
  <2>3. CASE ~Reaches(msgs)
    BY <2>1, <2>3 DEF SendAll, SocketTypeOK
  <2> QED
    BY <2>2, <2>3
<1>2. ctl' \in CtlType
  BY CtlTyped DEF Deliver
<1>3. moon' \in MoonType
  BY MoonTyped DEF Deliver
<1> QED
  BY <1>1, <1>2, <1>3

\* The end of a step of handle_session_message.
LEMMA HandledTyped ==
    ASSUME TypeInv, pc = "handle", NEW c \in CtlType, NEW m \in MoonType,
           NEW msgs \in Seq(DaemonMessage), Handled(c, m, msgs),
           disp' \in DispType, btn' \in BtnType, SessionTypeOK', GuestTypeOK'
    PROVE  TypeInv'
<1>1. SocketTypeOK' /\ ctl' \in CtlType /\ moon' \in MoonType
  BY DeliverTyped DEF Handled, TypeInv, TypeOK
<1>2. inbox \in Seq(SessionMessage) /\ inbox # <<>>
  BY DEF TypeInv, TypeOK, DaemonTypeOK, HandlesMessage
<1>3. inbox' \in Seq(SessionMessage)
  BY <1>2 DEF Handled
<1>4. pc' \in {"read", "poll", "tick", "handle"}
  BY DEF Handled, AfterMessages
<1>5. pc' = "handle" => inbox' # <<>>
  <2>1. Len(inbox) \in Nat /\ Len(inbox) # 0 /\ Len(Tail(inbox)) = Len(inbox) - 1
    BY <1>2
  <2>2. Len(inbox) # 1 => Tail(inbox) # <<>>
    <3>1. Len(inbox) # 1 => Len(Tail(inbox)) # 0
      BY <2>1
    <3> QED
      BY <3>1
  <2> QED
    BY <2>2 DEF Handled, AfterMessages
<1> QED
  BY <1>1, <1>3, <1>4, <1>5 DEF TypeInv, TypeOK, DaemonTypeOK, HandlesMessage

\* The end of a tick.
LEMMA TickedTyped ==
    ASSUME TypeInv, pc = "tick", NEW c \in CtlType, NEW m \in MoonType,
           NEW msgs \in Seq(DaemonMessage), Ticked(c, m, msgs),
           disp' \in DispType, btn' \in BtnType, SessionTypeOK', GuestTypeOK'
    PROVE  TypeInv'
<1>1. SocketTypeOK' /\ ctl' \in CtlType /\ moon' \in MoonType
  BY DeliverTyped DEF Ticked, TypeInv, TypeOK
<1> QED
  BY <1>1 DEF Ticked, TypeInv, TypeOK, DaemonTypeOK, HandlesMessage

\* A spent event leaves a count for every kind.
LEMMA SpendTyped ==
    ASSUME GuestTypeOK, NEW k \in EventKinds, Spend(k), vm' \in VmStates, host' \in HostStates
    PROVE  GuestTypeOK'
<1>1. left[k] - 1 \in Nat
  BY DEF GuestTypeOK, Spend
<1> QED
  BY <1>1 DEF GuestTypeOK, Spend

\* The handlers of session_ready, console_started, display_power_applied,
\* console_exited and session_error.
LEMMA HandleMessageTyped ==
    ASSUME TypeInv, HandleMessage, UNCHANGED sess
    PROVE  TypeInv'
<1> USE DEF Handling
<1>1. /\ ctl \in CtlType /\ disp \in DispType /\ btn \in BtnType /\ moon \in MoonType
      /\ SessionTypeOK' /\ GuestTypeOK /\ (UNCHANGED guestVars => GuestTypeOK')
      /\ vm \in VmStates
  BY DEF TypeInv, TypeOK, DaemonTypeOK, SessionTypeOK, GuestTypeOK, guestVars
<1>2. Greeted \in CtlType /\ MoonGreeted \in MoonType
  BY <1>1, CtlUpdatesTyped, MoonTyped DEF Greeted, MoonGreeted
<1>3. /\ \A r \in {"degraded", "vm_stopped", "reconnecting", "connecting"} :
            ShowWaiting(r) \in DaemonMessage
      /\ ShowPairing(moon.pin) \in DaemonMessage
      /\ DisplayPower(disp.intent) \in DaemonMessage
  BY <1>1, MessagesTyped DEF WaitingReasons, MoonType, DispType
<1>4. /\ {"degraded", "waiting_for_pairing", "reconnecting_console", "requesting_console",
          "showing_console"} \subseteq SessionStates
      /\ "session" \in Reasons
  BY DEF SessionStates, Reasons
<1> DEFINE Frame == UNCHANGED <<disp, btn, guestVars>> /\ pc = "handle"
<1>f. Frame => /\ disp' \in DispType /\ btn' \in BtnType
               /\ SessionTypeOK' /\ GuestTypeOK' /\ pc = "handle"
  BY <1>1
<1>5. CASE SessionReadyDegraded
  <2>1. Handled(Transition(Greeted, "degraded"), MoonGreeted, <<ShowWaiting("degraded")>>) /\ Frame
    BY <1>5 DEF SessionReadyDegraded
  <2>2. Transition(Greeted, "degraded") \in CtlType
    BY <1>2, <1>4, CtlTyped
  <2>3. <<ShowWaiting("degraded")>> \in Seq(DaemonMessage)
    BY <1>3
  <2> HIDE DEF Frame
  <2> QED
    BY <1>f, <1>2, <2>1, <2>2, <2>3, HandledTyped
<1>6. CASE SessionReadyNoStatus
  <2> DEFINE c == RecordFailure(Greeted)
             d == IF c.session_state = "degraded" THEN c ELSE Transition(c, WaitingState(disp))
             msgs == <<DisplayPower(disp.intent)>>
                       \o (IF c.session_state = "degraded" THEN DegradedMessages(Greeted) ELSE <<>>)
                       \o <<ShowWaiting(IF c.session_state = "degraded"
                                        THEN "degraded" ELSE "vm_stopped")>>
  <2>1. d \in CtlType
    <3>1. c \in CtlType
      BY <1>2, CtlTyped
    <3> QED
      BY <1>1, <3>1, CtlTyped, DispTyped
  <2>2. msgs \in Seq(DaemonMessage)
    BY <1>3, DegradedTyped
  <2>3. Handled(d, MoonGreeted, msgs)
    BY <1>6 DEF SessionReadyNoStatus
  <2>4. GuestTypeOK'
    BY <1>1, <1>6, SpendTyped DEF SessionReadyNoStatus, EventKinds, GuestTypeOK
  <2>5. UNCHANGED <<disp, btn>> /\ pc = "handle"
    BY <1>6 DEF SessionReadyNoStatus
  <2> QED
    BY <1>1, <1>2, <2>1, <2>2, <2>3, <2>4, <2>5, HandledTyped
<1>7. CASE SessionReady
  <2> DEFINE c == ClearFailures(Greeted)
  <2>1. c \in CtlType
    BY <1>2, CtlTyped
  <2>2. PICK state \in SessionStates, msg \in DaemonMessage :
          Handled(Transition(c, state), MoonGreeted, <<DisplayPower(disp.intent), msg>>)
    BY <1>1, <1>3, <1>4, <1>7, DispTyped DEF SessionReady
  <2>3. <<DisplayPower(disp.intent), msg>> \in Seq(DaemonMessage)
    BY <1>3
  <2>4. Transition(c, state) \in CtlType
    BY <2>1, CtlTyped
  <2>5. disp' \in DispType /\ UNCHANGED <<btn, guestVars>> /\ pc = "handle"
    BY <1>1, <1>7, DispTyped DEF SessionReady
  <2> QED
    BY <1>1, <1>2, <2>2, <2>3, <2>4, <2>5, HandledTyped
<1>8. CASE ConsoleStarted
  <2> DEFINE c == [ctl EXCEPT !.console_running = TRUE, !.next_reconnect_at = None,
                              !.reconnect_delay = ReconnectInitial]
  <2>1. c \in CtlType
    BY <1>1, CtlUpdatesTyped
  <2>2. PICK state \in SessionStates : Handled(Transition(c, state), moon, <<>>)
    BY <1>4, <1>8 DEF ConsoleStarted
  <2>3. Transition(c, state) \in CtlType /\ <<>> \in Seq(DaemonMessage)
    BY <2>1, CtlTyped
  <2>4. Frame
    BY <1>8 DEF ConsoleStarted
  <2> HIDE DEF Frame, c
  <2> QED
    BY <1>f, <1>1, <2>2, <2>3, <2>4, HandledTyped
<1>9. CASE PowerApplied
  <2>1. Head(inbox) \in SessionMessage
    BY <1>9 DEF PowerApplied, TypeInv, TypeOK, DaemonTypeOK, HandlesMessage
  <2>2. Head(inbox).arg \in PowerStates
    BY <1>9, <2>1 DEF PowerApplied, SessionMessage
  <2>3. disp' \in DispType
    BY <1>1, <1>9, <2>2 DEF PowerApplied, DispType
  <2>4. PICK c \in CtlType : Handled(c, moon, <<>>)
    BY <1>1, <1>9, <2>3, CtlTyped, DispTyped DEF PowerApplied
  <2>5. btn' \in BtnType /\ GuestTypeOK' /\ pc = "handle" /\ <<>> \in Seq(DaemonMessage)
    BY <1>1, <1>9 DEF PowerApplied
  <2> QED
    BY <1>1, <2>3, <2>4, <2>5, HandledTyped
<1>10. CASE ConsoleExited
  <2> DEFINE c == [ctl EXCEPT !.console_running = FALSE]
  <2>1. c \in CtlType /\ [c EXCEPT !.next_reconnect_at = None] \in CtlType
    <3>1. c \in CtlType
      BY <1>1, CtlUpdatesTyped
    <3> QED
      BY <3>1, CtlUpdatesTyped
  <2>2. ScheduleReconnect(c) \in CtlType /\ WaitingState(disp) \in SessionStates
    BY <1>1, <2>1, CtlTyped, DispTyped
  <2>3. PICK d \in CtlType, state \in SessionStates, msg \in DaemonMessage :
          Handled(Transition(d, state), moon, <<msg>>)
    BY <1>3, <1>4, <1>10, <2>1, <2>2 DEF ConsoleExited
  <2>4. Transition(d, state) \in CtlType
    BY CtlTyped
  <2>5. <<msg>> \in Seq(DaemonMessage)
    OBVIOUS
  <2>6. Frame
    BY <1>10 DEF ConsoleExited
  <2> HIDE DEF Frame
  <2> QED
    BY <1>f, <1>1, <2>3, <2>4, <2>5, <2>6, HandledTyped
<1>11. CASE SessionError
  <2>1. Handled(EnterDegraded(ctl, "session"), moon, <<ShowWaiting("degraded")>>) /\ Frame
    BY <1>11 DEF SessionError
  <2>2. EnterDegraded(ctl, "session") \in CtlType
    BY <1>1, <1>4, CtlTyped
  <2>3. <<ShowWaiting("degraded")>> \in Seq(DaemonMessage)
    BY <1>3
  <2> HIDE DEF Frame
  <2> QED
    BY <1>f, <1>1, <2>1, <2>2, <2>3, HandledTyped
<1> QED
  BY <1>5, <1>6, <1>7, <1>8, <1>9, <1>10, <1>11 DEF HandleMessage

\* Every path of tick().
LEMMA TickTyped ==
    ASSUME TypeInv, Tick, UNCHANGED sess
    PROVE  TypeInv'
<1>1. /\ ctl \in CtlType /\ disp \in DispType /\ btn \in BtnType /\ moon \in MoonType
      /\ SessionTypeOK' /\ GuestTypeOK /\ (UNCHANGED guestVars => GuestTypeOK')
      /\ vm \in VmStates
  BY DEF TypeInv, TypeOK, DaemonTypeOK, SessionTypeOK, GuestTypeOK, guestVars
<1>2. Observed \in CtlType
  BY <1>1, CtlTyped DEF Observed
<1>3. Refreshed \in BtnType
  BY <1>1, BtnTyped DEF Refreshed
<1>4. Decided \in DispType /\ WaitingState(Decided) \in SessionStates
  <2>1. RecordPowerState(disp, vm) \in DispType
    BY <1>1, DispTyped
  <2>2. Decided \in DispType
    BY <1>1, <2>1, DispTyped DEF Decided
  <2> QED
    BY <1>1, <2>2, DispTyped
<1>5. PowerMessages \in Seq(DaemonMessage)
  <2>1. DisplayPower(Decided.intent) \in DaemonMessage
    BY <1>4, MessagesTyped DEF DispType
  <2> QED
    BY <2>1 DEF PowerMessages
<1>6. /\ {"degraded", "waiting_for_pairing", "reconnecting_console", "requesting_console",
          "showing_console"} \subseteq SessionStates
      /\ "console" \in Reasons
  BY DEF SessionStates, Reasons
<1>7. /\ ShowWaiting("vm_stopped") \in DaemonMessage
      /\ ShowWaiting("reconnecting") \in DaemonMessage
      /\ DisconnectConsole("vm_not_running") \in DaemonMessage
      /\ ShowPairing(moon.pin) \in DaemonMessage
      /\ ConnectStream \in DaemonMessage
  BY <1>1, MessagesTyped DEF WaitingReasons, MoonType
<1>8. [Observed EXCEPT !.next_reconnect_at = None] \in CtlType
  BY <1>2, CtlUpdatesTyped
<1>9. /\ MoonLaunching \in MoonType /\ Unpaired \in MoonType
  BY <1>1, MoonTyped DEF MoonLaunching
<1>10. \A c \in CtlType : /\ \A state \in SessionStates : Transition(c, state) \in CtlType
                          /\ EnterDegraded(c, "console") \in CtlType
                          /\ ScheduleReconnect(c) \in CtlType /\ RecordFailure(c) \in CtlType
  BY <1>6, CtlTyped
<1>11. \A k \in EventKinds : Spend(k) /\ UNCHANGED <<vm, host>> => GuestTypeOK'
  BY <1>1, SpendTyped DEF GuestTypeOK
<1>12. UNCHANGED <<vm, host, left>> => GuestTypeOK'
  BY <1>1 DEF guestVars
<1> DEFINE Sends == \E c \in CtlType, m \in MoonType, msgs \in Seq(DaemonMessage) :
                       Ticked(c, m, msgs)
<1>13. ASSUME Sends, pc = "tick", disp' \in DispType, btn' \in BtnType, GuestTypeOK'
       PROVE  TypeInv'
  BY <1>1, <1>13, TickedTyped
<1>14. CASE TickDegraded
  <2>1. <<>> \in Seq(DaemonMessage)
    OBVIOUS
  <2>2. Sends /\ pc = "tick" /\ disp' \in DispType /\ btn' \in BtnType /\ GuestTypeOK'
    BY <1>1, <1>14, <2>1 DEF TickDegraded
  <2> HIDE DEF Sends
  <2> QED
    BY <1>13, <2>2
<1>15. CASE TickNoStatus
  <2>1. RecordFailure(ctl) \in CtlType /\ FailureMessages(ctl) \in Seq(DaemonMessage)
    BY <1>1, <1>10, DegradedTyped
  <2>2. Sends /\ pc = "tick" /\ disp' \in DispType /\ btn' \in BtnType
    BY <1>1, <1>15, <2>1 DEF TickNoStatus
  <2>3. GuestTypeOK'
    BY <1>11, <1>15 DEF TickNoStatus, EventKinds
  <2> HIDE DEF Sends
  <2> QED
    BY <1>13, <2>2, <2>3
<1>16. ASSUME TickStatus
       PROVE  pc = "tick" /\ disp' \in DispType /\ btn' \in BtnType /\ UNCHANGED <<vm, host>>
  BY <1>3, <1>4, <1>16 DEF TickStatus
<1>17. ASSUME TickStatus, Sends, GuestTypeOK'
       PROVE  TypeInv'
  BY <1>13, <1>16, <1>17
<1>18. CASE TickNoSession
  <2>1. Observed \in CtlType
    BY <1>2
  <2>2. <<>> \in Seq(DaemonMessage)
    OBVIOUS
  <2>3. TickStatus /\ Ticked(Observed, moon, <<>>)
    BY <1>18 DEF TickNoSession
  <2>4. Sends
    BY <1>1, <1>9, <2>1, <2>2, <2>3
  <2>5. GuestTypeOK'
    BY <1>12, <1>16, <1>18, <2>3 DEF TickNoSession
  <2> HIDE DEF Sends
  <2> QED
    BY <1>17, <2>3, <2>4, <2>5
<1>19. CASE TickVmOff
  <2> DEFINE Off == [Observed EXCEPT !.next_reconnect_at = None,
                                     !.reconnect_delay = ReconnectInitial,
                                     !.console_running = FALSE]
  <2>1. Transition(Off, WaitingState(Decided)) \in CtlType
    BY <1>2, <1>4, <1>10, CtlUpdatesTyped
  <2>2. VmOffMessages \in Seq(DaemonMessage)
    BY <1>5, <1>7 DEF VmOffMessages
  <2>3. TickStatus /\ Ticked(Transition(Off, WaitingState(Decided)), Unpaired, VmOffMessages)
    BY <1>19 DEF TickVmOff
  <2>4. Sends
    BY <1>1, <1>9, <2>1, <2>2, <2>3
  <2>5. GuestTypeOK'
    BY <1>12, <1>16, <1>19, <2>3 DEF TickVmOff
  <2> HIDE DEF Sends
  <2> QED
    BY <1>17, <2>3, <2>4, <2>5
<1>20. CASE TickTransitional
  <2> DEFINE Next1 == IF ~ctl.console_running /\ Decided.intent = "on"
                      THEN Transition(Observed, WaitingState(Decided)) ELSE Observed
  <2>1. Next1 \in CtlType
    BY <1>2, <1>4, <1>10
  <2>2. PowerMessages \in Seq(DaemonMessage)
    BY <1>5
  <2>3. TickStatus /\ Ticked(Next1, Unpaired, PowerMessages)
    BY <1>20 DEF TickTransitional
  <2>4. Sends
    BY <1>1, <1>9, <2>1, <2>2, <2>3
  <2>5. GuestTypeOK'
    BY <1>12, <1>16, <1>20, <2>3 DEF TickTransitional
  <2> HIDE DEF Sends
  <2> QED
    BY <1>17, <2>3, <2>4, <2>5
<1>21. CASE TickShowing
  <2>1. Transition(Observed, "showing_console") \in CtlType
    BY <1>2, <1>6, <1>10
  <2>2. PowerMessages \in Seq(DaemonMessage)
    BY <1>5
  <2>3. TickStatus /\ Ticked(Transition(Observed, "showing_console"), moon, PowerMessages)
    BY <1>21 DEF TickShowing, TickVmOn
  <2>4. Sends
    BY <1>1, <1>9, <2>1, <2>2, <2>3
  <2>5. GuestTypeOK'
    BY <1>12, <1>16, <1>21, <2>3 DEF TickShowing
  <2> HIDE DEF Sends
  <2> QED
    BY <1>17, <2>3, <2>4, <2>5
<1>22. CASE TickBackoff
  <2>1. Transition(Observed, "reconnecting_console") \in CtlType
    BY <1>2, <1>6, <1>10
  <2>2. PowerMessages \in Seq(DaemonMessage)
    BY <1>5
  <2>3. TickStatus /\ Ticked(Transition(Observed, "reconnecting_console"), moon, PowerMessages)
    BY <1>22 DEF TickBackoff, TickVmOn
  <2>4. Sends
    BY <1>1, <1>9, <2>1, <2>2, <2>3
  <2>5. GuestTypeOK'
    BY <1>12, <1>16, <1>22, <2>3 DEF TickBackoff
  <2> HIDE DEF Sends
  <2> QED
    BY <1>17, <2>3, <2>4, <2>5
<1>23. CASE TickHostUnreachable
  <2>1. Transition(ScheduleReconnect(Observed), "reconnecting_console") \in CtlType
    BY <1>2, <1>6, <1>10
  <2>2. PowerMessages \o <<ShowWaiting("reconnecting")>> \in Seq(DaemonMessage)
    BY <1>5, <1>7
  <2>3. TickStatus /\ Ticked(Transition(ScheduleReconnect(Observed), "reconnecting_console"), Unpaired, PowerMessages \o <<ShowWaiting("reconnecting")>>)
    BY <1>23 DEF TickHostUnreachable, TickPairing, TickPrepare, TickVmOn
  <2>4. Sends
    BY <1>1, <1>9, <2>1, <2>2, <2>3
  <2>5. GuestTypeOK'
    BY <1>12, <1>16, <1>23, <2>3 DEF TickHostUnreachable
  <2> HIDE DEF Sends
  <2> QED
    BY <1>17, <2>3, <2>4, <2>5
<1>25. CASE TickPairIssue
  <2> DEFINE Cleared == [Observed EXCEPT !.next_reconnect_at = None]
  <2>1. Transition(Cleared, "waiting_for_pairing") \in CtlType
    BY <1>6, <1>8, <1>10
  <2>2. TickStatus /\ UNCHANGED left
    BY <1>25 DEF TickPairIssue, TickPairing, TickPrepare, TickVmOn
  <2>3. PICK pin \in Pins :
          Ticked(Transition(Cleared, "waiting_for_pairing"),
                 [pair_state |-> "pending_pin_approval", pin |-> pin,
                  requested |-> 0, launch_pending |-> TRUE],
                 Append(PowerMessages, PairLaunch(pin)))
    BY <1>25 DEF TickPairIssue
  <2>4. [pair_state |-> "pending_pin_approval", pin |-> pin,
         requested |-> 0, launch_pending |-> TRUE] \in MoonType
    BY MoonTyped
  <2>5. PairLaunch(pin) \in DaemonMessage
    BY MessagesTyped DEF PairLaunch
  <2>6. Append(PowerMessages, PairLaunch(pin)) \in Seq(DaemonMessage)
    BY <1>5, <2>5
  <2>7. Sends
    BY <2>1, <2>3, <2>4, <2>6
  <2>8. GuestTypeOK'
    BY <1>12, <1>16, <2>2
  <2> HIDE DEF Sends
  <2> QED
    BY <1>17, <2>2, <2>7, <2>8
<1>26. CASE TickPairWait
  <2> DEFINE Cleared == [Observed EXCEPT !.next_reconnect_at = None]
             Msgs == IF ctl.session_state = "waiting_for_pairing" THEN PowerMessages
                     ELSE Append(PowerMessages, ShowPairing(moon.pin))
  <2>1. Transition(Cleared, "waiting_for_pairing") \in CtlType
    BY <1>6, <1>8, <1>10
  <2>2. Msgs \in Seq(DaemonMessage)
    BY <1>5, <1>7
  <2>3. TickStatus /\ Ticked(Transition(Cleared, "waiting_for_pairing"), moon, Msgs)
    BY <1>26 DEF TickPairWait, TickPairing, TickPrepare, TickVmOn
  <2>4. Sends
    BY <1>1, <1>9, <2>1, <2>2, <2>3
  <2>5. GuestTypeOK'
    BY <1>12, <1>16, <1>26, <2>3 DEF TickPairWait
  <2> HIDE DEF Sends
  <2> QED
    BY <1>17, <2>3, <2>4, <2>5
<1>27. CASE TickLaunch
  <2>1. Transition(Launching, "requesting_console") \in CtlType
    BY <1>6, <1>8, <1>10 DEF Launching
  <2>2. Append(PowerMessages, ConnectStream) \in Seq(DaemonMessage)
    BY <1>5, <1>7
  <2>3. TickStatus /\ Ticked(Transition(Launching, "requesting_console"), MoonLaunching, Append(PowerMessages, ConnectStream))
    BY <1>27 DEF TickLaunch, TickLaunching, TickPrepare, TickVmOn
  <2>4. Sends
    BY <1>1, <1>9, <2>1, <2>2, <2>3
  <2>5. GuestTypeOK'
    BY <1>12, <1>16, <1>27, <2>3 DEF TickLaunch
  <2> HIDE DEF Sends
  <2> QED
    BY <1>17, <2>3, <2>4, <2>5
<1>28. CASE TickEndpointUnavailable
  <2>1. Transition(ScheduleReconnect(Observed), "reconnecting_console") \in CtlType
    BY <1>2, <1>6, <1>10
  <2>2. Append(PowerMessages, ShowWaiting("reconnecting")) \in Seq(DaemonMessage)
    BY <1>5, <1>7
  <2>3. TickStatus /\ Ticked(Transition(ScheduleReconnect(Observed), "reconnecting_console"), moon, Append(PowerMessages, ShowWaiting("reconnecting")))
    BY <1>28 DEF TickEndpointUnavailable, TickLaunching, TickPrepare, TickVmOn
  <2>4. Sends
    BY <1>1, <1>9, <2>1, <2>2, <2>3
  <2>5. GuestTypeOK'
    BY <1>11, <1>16, <1>28, <2>3 DEF TickEndpointUnavailable, EndpointRefused, EventKinds
  <2> HIDE DEF Sends
  <2> QED
    BY <1>17, <2>3, <2>4, <2>5
<1>29. CASE TickLaunchInvalid
  <2> DEFINE Start == IF Backend = "moonlight" THEN Launching ELSE Observed
  <2>1. EnterDegraded(Start, "console") \in CtlType
    BY <1>2, <1>8, <1>10 DEF Launching
  <2>2. PowerMessages \o DegradedMessages(Start) \in Seq(DaemonMessage)
    BY <1>5, DegradedTyped
  <2>3. TickStatus /\ Ticked(EnterDegraded(Start, "console"), MoonLaunching, PowerMessages \o DegradedMessages(Start))
    BY <1>29 DEF TickLaunchInvalid, TickLaunching, TickPrepare, TickVmOn
  <2>4. Sends
    BY <1>1, <1>9, <2>1, <2>2, <2>3
  <2>5. GuestTypeOK'
    BY <1>11, <1>16, <1>29, <2>3 DEF TickLaunchInvalid, ConsoleInvalid, EventKinds
  <2> HIDE DEF Sends
  <2> QED
    BY <1>17, <2>3, <2>4, <2>5
<1>30. CASE TickLaunchRefused
  <2> DEFINE Start == Transition(Observed, "requesting_console")
  <2>1. RecordFailure(Start) \in CtlType
    BY <1>2, <1>6, <1>10
  <2>2. PowerMessages \o FailureMessages(Start) \in Seq(DaemonMessage)
    BY <1>5, DegradedTyped
  <2>3. TickStatus /\ Ticked(RecordFailure(Start), moon, PowerMessages \o FailureMessages(Start))
    BY <1>30 DEF TickLaunchRefused, TickLaunching, TickPrepare, TickVmOn
  <2>4. Sends
    BY <1>1, <1>9, <2>1, <2>2, <2>3
  <2>5. GuestTypeOK'
    BY <1>11, <1>16, <1>30, <2>3 DEF TickLaunchRefused, ConsoleRefused, EventKinds
  <2> HIDE DEF Sends
  <2> QED
    BY <1>17, <2>3, <2>4, <2>5
<1> HIDE DEF Sends
<1> QED
  BY <1>14, <1>15, <1>18, <1>19, <1>20, <1>21, <1>22, <1>23, <1>25, <1>26, <1>27, <1>28, <1>29, <1>30 DEF Tick

\* The attributes __init__ sets are well formed.
LEMMA InitTyped ==
    CtlInit \in CtlType /\ DispInit \in DispType /\ BtnInit \in BtnType /\ MoonInit \in MoonType
<1>1. CtlInit \in CtlType
  <2>1. NoFailures \in [0 .. FailureWindow -> Nat]
    BY DEF NoFailures
  <2>2. ReconnectInitial \in ReconnectInitial .. ReconnectMax
    BY ConfigAssumption
  <2> QED
    BY <2>1, <2>2 DEF CtlInit, CtlType, SessionStates, Reasons
<1>2. DispInit \in DispType
  BY ConfigAssumption DEF DispInit, DispType, PowerStates
<1>3. BtnInit \in BtnType
  BY ConfigAssumption DEF BtnInit, BtnType
<1> QED
  BY <1>1, <1>2, <1>3, MoonTyped

\* A daemon that ends leaves a socket without a server.
LEMMA StopsTyped ==
    ASSUME TypeInv, DaemonStops, SessionTypeOK', GuestTypeOK'
    PROVE  TypeInv'
<1>1. SocketTypeOK'
  BY DEF TypeInv, TypeOK, SocketTypeOK, DaemonStops, ServerGone
<1>2. DaemonTypeOK' /\ HandlesMessage'
  BY InitTyped DEF DaemonStops, DaemonTypeOK, HandlesMessage
<1> QED
  BY <1>1, <1>2 DEF TypeInv, TypeOK

\* The rest of the daemon: starting and stopping, reading, button presses and
\* the passage of time.
LEMMA LoopTyped ==
    ASSUME TypeInv, UNCHANGED sess,
           \/ DaemonStart \/ AcceptPending \/ ReadMessages
           \/ PollFails \/ PollDone \/ HandlePress
           \/ DaemonCrash \/ StatusHangs \/ PressHangs \/ TimePasses
    PROVE  TypeInv'
<1>1. /\ ctl \in CtlType /\ disp \in DispType /\ btn \in BtnType /\ moon \in MoonType
      /\ SessionTypeOK' /\ GuestTypeOK /\ SocketTypeOK
      /\ vm \in VmStates /\ host \in HostStates /\ inbox \in Seq(SessionMessage)
  BY DEF TypeInv, TypeOK, DaemonTypeOK, SessionTypeOK, GuestTypeOK
<1>2. UNCHANGED socketVars => SocketTypeOK'
  BY <1>1 DEF socketVars, SocketTypeOK
<1>3. UNCHANGED guestVars => GuestTypeOK'
  BY <1>1 DEF guestVars, GuestTypeOK
<1>4. \A k \in EventKinds : Spend(k) /\ vm' \in VmStates /\ UNCHANGED host => GuestTypeOK'
  BY <1>1, SpendTyped
<1>5. \A k \in EventKinds, j \in EventKinds :
        (/\ left[k] > 0 /\ left[j] > 0 /\ k # j
         /\ left' = [left EXCEPT ![k] = @ - 1, ![j] = @ - 1]
         /\ vm' \in VmStates /\ UNCHANGED host)
          => GuestTypeOK'
  <2> SUFFICES ASSUME NEW k \in EventKinds, NEW j \in EventKinds, k # j,
                      left[k] > 0, left[j] > 0,
                      left' = [left EXCEPT ![k] = @ - 1, ![j] = @ - 1],
                      vm' \in VmStates, UNCHANGED host
               PROVE  GuestTypeOK'
    OBVIOUS
  <2>1. left \in [EventKinds -> Nat] /\ left[k] - 1 \in Nat /\ left[j] - 1 \in Nat
    BY <1>1 DEF GuestTypeOK
  <2>2. [left EXCEPT ![k] = @ - 1] \in [EventKinds -> Nat]
    BY <2>1
  <2>3. left' \in [EventKinds -> Nat]
    BY <2>1, <2>2
  <2> QED
    BY <1>1, <2>3 DEF GuestTypeOK
<1>6. {"press", "qm", "hang", "read", "start", "crash"} \subseteq EventKinds
  BY DEF EventKinds
<1>7. CASE DaemonStart
  <2>1. ctl' \in CtlType
    BY <1>1, <1>7, CtlTyped DEF DaemonStart, Reasons, SessionStates
  <2>2. GuestTypeOK'
    BY <1>1, <1>3, <1>4, <1>6, <1>7 DEF DaemonStart, StartupInvalid, guestVars
  <2> QED
    BY <1>1, <1>2, <1>7, <2>1, <2>2 DEF DaemonStart, TypeInv, TypeOK, DaemonTypeOK, HandlesMessage
<1>8. CASE AcceptPending
  <2>1. pend \in Seq(BOOLEAN) /\ pend # <<>>
    BY <1>1, <1>8 DEF AcceptPending, Accept, SocketTypeOK
  <2>2. Tail(pend) \in Seq(BOOLEAN)
    BY <2>1
  <2>3. <<Event("session_ready")>> \in Seq(SessionMessage)
    <3>1. Event("session_ready") \in SessionMessage
      BY DEF Event, SessionMessage
    <3> QED
      BY <3>1
  <2>4. SocketTypeOK'
    <3>1. <<>> \in Seq(DaemonMessage)
      OBVIOUS
    <3>2. /\ conn' \in {"none", "up", "dead"} /\ pend' = Tail(pend) /\ client' = client
          /\ s2d' = <<Event("session_ready")>> /\ d2s' = <<>>
      BY <1>8 DEF AcceptPending, Accept
    <3> QED
      BY <1>1, <2>2, <2>3, <3>1, <3>2 DEF SocketTypeOK
  <2> QED
    BY <1>1, <1>3, <1>8, <2>4 DEF AcceptPending, TypeInv, TypeOK, DaemonTypeOK, HandlesMessage
<1>9. CASE ReadMessages
  <2>1. SocketTypeOK' /\ s2d \in Seq(SessionMessage)
    <3>1. /\ <<>> \in Seq(DaemonMessage) /\ <<>> \in Seq(SessionMessage)
          /\ s2d \in Seq(SessionMessage)
      BY <1>1 DEF SocketTypeOK
    <3>2. CASE conn = "none"
      BY <1>2, <1>9, <3>1, <3>2 DEF ReadMessages
    <3>3. CASE conn # "none"
      <4>1. ReadAll
        BY <1>9, <3>3 DEF ReadMessages
      <4> QED
        BY <1>1, <3>1, <4>1 DEF ReadAll, SocketTypeOK
    <3> QED
      BY <3>2, <3>3
  <2>2. ctl' \in CtlType
    BY <1>1, <1>9, CtlTyped DEF ReadMessages
  <2>3. moon' \in MoonType
    BY <1>1, <1>9, MoonTyped DEF ReadMessages
  <2>4. pc' \in {"poll", "tick", "handle"} /\ (pc' = "handle" => inbox' # <<>>)
    BY <1>9 DEF ReadMessages, AfterMessages
  <2>5. inbox' \in Seq(SessionMessage) /\ disp' \in DispType /\ btn' \in BtnType /\ GuestTypeOK'
    BY <1>1, <1>3, <1>9, <2>1 DEF ReadMessages
  <2> QED
    BY <1>1, <2>1, <2>2, <2>3, <2>4, <2>5 DEF TypeInv, TypeOK, DaemonTypeOK, HandlesMessage
<1>10. CASE PollFails
  <2>1. ctl' \in CtlType
    BY <1>1, <1>10, CtlTyped DEF PollFails, Reasons
  <2>2. moon' \in MoonType
    BY <1>10, MoonTyped DEF PollFails
  <2>3. btn' \in BtnType
    BY <1>1, <1>10, BtnTyped DEF PollFails
  <2>4. GuestTypeOK'
    BY <1>1, <1>4, <1>6, <1>10 DEF PollFails
  <2> QED
    BY <1>1, <1>2, <1>10, <2>1, <2>2, <2>3, <2>4
       DEF PollFails, TypeInv, TypeOK, DaemonTypeOK, HandlesMessage
<1>11. CASE PollDone
  BY <1>1, <1>2, <1>3, <1>11 DEF PollDone, TypeInv, TypeOK, DaemonTypeOK, HandlesMessage
<1>12. CASE HandlePress
  <2>1. Press
    BY <1>12 DEF HandlePress, PressNoStatus, PressIgnored, PressRefused, PressAccepted, PressStatus
  <2>2. ctl' \in CtlType
    BY <1>1, <1>12, CtlTyped
       DEF HandlePress, PressNoStatus, PressIgnored, PressRefused, PressAccepted, PressStatus
  <2>3. disp' \in DispType
    BY <1>1, <1>12, DispTyped
       DEF HandlePress, PressNoStatus, PressIgnored, PressRefused, PressAccepted, PressStatus
  <2>4. Refreshed \in BtnType
    BY <1>1, BtnTyped DEF Refreshed
  <2>5. 0 \in 0 .. Debounce /\ 0 \in 0 .. ButtonTimeout /\ Chosen \in {"start", "shutdown"}
    BY ConfigAssumption DEF ButtonTimeout, Chosen
  <2>6. btn' \in BtnType
    <3>1. CASE PressNoStatus \/ PressIgnored
      BY <1>1, <2>4, <3>1 DEF PressNoStatus, PressIgnored
    <3>2. CASE PressRefused
      BY <2>4, <2>5, <3>2 DEF PressRefused, BtnType
    <3>3. CASE PressAccepted
      BY <2>5, <3>3 DEF PressAccepted, BtnType
    <3> QED
      BY <1>12, <3>1, <3>2, <3>3 DEF HandlePress
  <2>7. GuestTypeOK'
    <3>0. UNCHANGED host
      BY <2>1 DEF Press
    <3>1. CASE PressNoStatus \/ PressRefused
      BY <1>1, <1>5, <1>6, <3>0, <3>1 DEF PressNoStatus, PressRefused
    <3>2. CASE PressIgnored
      BY <1>1, <1>4, <1>6, <3>0, <3>2 DEF PressIgnored
    <3>3. CASE PressAccepted
      BY <1>1, <1>4, <1>6, <3>0, <3>3, GuestAssumption DEF PressAccepted, Target
    <3> QED
      BY <1>12, <3>1, <3>2, <3>3 DEF HandlePress
  <2> QED
    BY <1>1, <1>2, <2>1, <2>2, <2>3, <2>6, <2>7
       DEF Press, TypeInv, TypeOK, DaemonTypeOK, HandlesMessage
<1>13. CASE DaemonCrash
  BY <1>1, <1>4, <1>6, <1>13, StopsTyped DEF DaemonCrash
<1>14. CASE StatusHangs
  BY <1>1, <1>4, <1>6, <1>14, StopsTyped DEF StatusHangs
<1>15. CASE PressHangs
  <2>1. GuestTypeOK'
    BY <1>1, <1>5, <1>6, <1>15, GuestAssumption DEF PressHangs, Target
  <2> QED
    BY <1>1, <1>15, <2>1, StopsTyped DEF PressHangs
<1>16. CASE TimePasses
  <2>1. ctl' \in CtlType
    <3> DEFINE wait == IF ctl.next_reconnect_at > 0 THEN ctl.next_reconnect_at - 1
                       ELSE ctl.next_reconnect_at
               aged == [age \in 0 .. FailureWindow |->
                          IF age = 0 THEN 0 ELSE ctl.failures[age - 1]]
    <3>1. ctl' = [ctl EXCEPT !.next_reconnect_at = wait, !.failures = aged]
      BY <1>16 DEF TimePasses
    <3>2. wait \in {None} \union (0 .. ReconnectMax)
      BY <1>1, ConfigAssumption DEF CtlType, None
    <3>3. aged \in [0 .. FailureWindow -> Nat]
      BY <1>1, ConfigAssumption DEF CtlType
    <3> HIDE DEF wait, aged
    <3> QED
      BY <1>1, <3>1, <3>2, <3>3 DEF CtlType
  <2>2. \A cap \in Nat : \A age \in {None} \union (0 .. cap) :
          /\ Older(age, cap) \in {None} \union (0 .. cap)
          /\ age # None => Older(age, cap) \in 0 .. cap
    BY DEF Older, None
  <2>3. disp' \in DispType
    <3>1. /\ Older(disp.since, OffDelay) \in 0 .. OffDelay
          /\ Older(disp.uptime, Stabilize + OffDelay) \in 0 .. (Stabilize + OffDelay)
      BY <1>1, <2>2, ConfigAssumption DEF DispType, None
    <3> QED
      BY <1>1, <1>16, <3>1 DEF TimePasses, DispType
  <2>4. btn' \in BtnType
    <3>1. ButtonTimeout \in Nat /\ Debounce \in Nat
      BY ConfigAssumption DEF ButtonTimeout
    <3>2. /\ Older(btn.started, ButtonTimeout) \in {None} \union (0 .. ButtonTimeout)
          /\ Older(btn.accepted, Debounce) \in 0 .. Debounce
      BY <1>1, <2>2, <3>1 DEF BtnType, None
    <3> QED
      BY <1>1, <1>16, <3>2 DEF TimePasses, BtnType
  <2>5. moon' \in MoonType
    <3>1. Older(moon.requested, PairTimeout) \in {None} \union (0 .. PairTimeout)
      BY <1>1, <2>2, ConfigAssumption DEF MoonType
    <3> QED
      BY <1>1, <1>16, <3>1 DEF TimePasses, MoonType
  <2> QED
    BY <1>1, <1>2, <1>3, <1>16, <2>1, <2>3, <2>4, <2>5
       DEF TimePasses, TypeInv, TypeOK, DaemonTypeOK, HandlesMessage
<1> QED
  BY <1>7, <1>8, <1>9, <1>10, <1>11, <1>12, <1>13, <1>14, <1>15, <1>16

\* Closing the session's end, in the backlog too.
LEMMA CloseTyped ==
    ASSUME SocketTypeOK, ClientClose
    PROVE  SocketTypeOK'
<1>1. [i \in DOMAIN pend |-> FALSE] \in Seq(BOOLEAN)
  <2>1. DOMAIN pend = 1 .. Len(pend) /\ Len(pend) \in Nat
    BY DEF SocketTypeOK
  <2> QED
    BY <2>1
<1>2. <<>> \in Seq(DaemonMessage)
  OBVIOUS
<1> QED
  BY <1>1, <1>2 DEF SocketTypeOK, ClientClose

\* Taking a daemon message and answering it, or failing to.
LEMMA RespondTyped ==
    ASSUME SocketTypeOK, d2s # <<>>, NEW s \in SessType,
           NEW responses \in Seq(SessionMessage), Respond(s, responses)
    PROVE  SocketTypeOK' /\ sess' \in SessType
<1>1. CASE client = "open" \/ responses = <<>>
  <2>1. Tail(d2s) \in Seq(DaemonMessage) /\ s2d \o responses \in Seq(SessionMessage)
    BY DEF SocketTypeOK
  <2> QED
    BY <1>1, <2>1 DEF Respond, SocketTypeOK, Exchange
<1>2. CASE ~(client = "open" \/ responses = <<>>)
  <2>1. sess' = StopConsole(s) /\ ClientClose
    BY <1>2 DEF Respond
  <2>2. StopConsole(s) \in SessType
    BY DEF StopConsole, SessType
  <2> QED
    BY <2>1, <2>2, CloseTyped
<1> QED
  BY <1>1, <1>2

\* Every step of the session.
LEMMA SessionTyped ==
    ASSUME TypeInv, SessionStep
    PROVE  TypeInv'
<1>1. /\ sess \in SessType /\ GuestTypeOK /\ SocketTypeOK
      /\ vm \in VmStates /\ host \in HostStates
  BY DEF TypeInv, TypeOK, SessionTypeOK, GuestTypeOK
<1>2. DaemonTypeOK' /\ HandlesMessage'
  BY DEF SessionStep, daemonVars, TypeInv, TypeOK, DaemonTypeOK, HandlesMessage
<1>3. UNCHANGED socketVars => SocketTypeOK'
  BY <1>1 DEF socketVars, SocketTypeOK
<1>4. UNCHANGED guestVars => GuestTypeOK'
  BY <1>1 DEF guestVars, GuestTypeOK
<1>5. \A k \in EventKinds : Spend(k) /\ UNCHANGED <<vm, host>> => GuestTypeOK'
  BY <1>1, SpendTyped
<1>6. {"kill", "launch", "helper", "exit"} \subseteq EventKinds
  BY DEF EventKinds
<1>7. ASSUME sess' \in SessType, SocketTypeOK', GuestTypeOK'
      PROVE  TypeInv'
  BY <1>2, <1>7 DEF TypeInv, TypeOK, SessionTypeOK
<1>8. StopConsole(sess) \in SessType
  BY <1>1 DEF StopConsole, SessType
<1>9. SessInit \in SessType /\ [SessInit EXCEPT !.up = TRUE] \in SessType
  BY DEF SessInit, SessType, WaitingReasons, PowerStates
<1>10. CASE SessionConnect
  <2>1. SocketTypeOK'
    <3>1. Append(pend, TRUE) \in Seq(BOOLEAN)
      BY <1>1 DEF SocketTypeOK
    <3> QED
      BY <1>1, <1>10, <3>1 DEF SessionConnect, Connect, SocketTypeOK
  <2> QED
    BY <1>1, <1>4, <1>7, <1>10, <2>1 DEF SessionConnect
<1>11. CASE SessionStart
  BY <1>3, <1>4, <1>7, <1>9, <1>11 DEF SessionStart
<1>12. CASE SessionEof
  BY <1>1, <1>4, <1>7, <1>8, <1>12, CloseTyped DEF SessionEof
<1>13. CASE SessionKilled
  BY <1>1, <1>5, <1>6, <1>7, <1>9, <1>13, CloseTyped DEF SessionKilled
<1>14. CASE PollConsole
  <2>1. Event("console_exited") \in SessionMessage
    BY DEF Event, SessionMessage
  <2>2. Append(s2d, Event("console_exited")) \in Seq(SessionMessage)
    BY <1>1, <2>1 DEF SocketTypeOK
  <2>3. SocketTypeOK'
    BY <1>1, <1>14, <2>2 DEF PollConsole, SocketTypeOK
  <2>4. sess' \in SessType
    BY <1>8, <1>14 DEF PollConsole, SessType, WaitingReasons
  <2> QED
    BY <1>4, <1>7, <1>14, <2>3, <2>4 DEF PollConsole
<1>15. CASE ViewerExits
  <2>1. sess' \in SessType
    BY <1>1, <1>15 DEF ViewerExits, SessType
  <2> QED
    BY <1>3, <1>5, <1>6, <1>7, <1>15, <2>1 DEF ViewerExits
<1>16. CASE HandleDaemonMessage
  <2>1. d2s # <<>>
    BY <1>16 DEF HandleDaemonMessage, ShowWaitingState, LaunchConsole, LaunchFails,
                 LaunchRejected, ApplyDisplayPower, PowerHelperFails, Receiving
  <2>2. Msg \in DaemonMessage
    BY <1>1, <2>1 DEF Msg, SocketTypeOK
  <2>3. /\ Msg.type \in {"show_waiting", "disconnect_console"} =>
             Msg.arg \in WaitingReasons /\ Msg.pin \in Pins \union {NoPin}
        /\ Msg.type = "connect_console" =>
             Msg.arg \in ConsoleKinds /\ Msg.pin \in Pins \union {NoPin}
        /\ Msg.type = "display_power" => Msg.arg \in PowerStates
    BY <2>2 DEF DaemonMessage
  <2>4. /\ <<>> \in Seq(SessionMessage)
        /\ <<Event("console_started")>> \in Seq(SessionMessage)
        /\ <<Event("session_error")>> \in Seq(SessionMessage)
        /\ \A s \in PowerStates : <<DisplayPowerApplied(s)>> \in Seq(SessionMessage)
    <3>1. /\ Event("console_started") \in SessionMessage
          /\ Event("session_error") \in SessionMessage
          /\ \A s \in PowerStates : DisplayPowerApplied(s) \in SessionMessage
      BY DEF Event, DisplayPowerApplied, SessionMessage
    <3> QED
      BY <3>1
  <2>5. CASE ShowWaitingState
    <3>1. [StopConsole(sess) EXCEPT !.waiting_reason = Msg.arg, !.pin = Msg.pin] \in SessType
      BY <1>8, <2>3, <2>5 DEF ShowWaitingState, Receiving, Msg, SessType
    <3>2. <<>> \in Seq(SessionMessage)
      BY <2>4
    <3>3. Respond([StopConsole(sess) EXCEPT !.waiting_reason = Msg.arg, !.pin = Msg.pin], <<>>)
      BY <2>5 DEF ShowWaitingState
    <3>4. GuestTypeOK'
      BY <1>4, <2>5 DEF ShowWaitingState
    <3> QED
      BY <1>1, <1>7, <2>1, <3>1, <3>2, <3>3, <3>4, RespondTyped
  <2>6. CASE LaunchConsole
    <3>1. [sess EXCEPT !.console = Msg.arg, !.alive = TRUE,
                        !.waiting_reason = "connecting", !.pin = Msg.pin] \in SessType
      BY <1>1, <2>3, <2>6 DEF LaunchConsole, Receiving, Msg, SessType, WaitingReasons
    <3>2. <<Event("console_started")>> \in Seq(SessionMessage)
      BY <2>4
    <3>3. Respond([sess EXCEPT !.console = Msg.arg, !.alive = TRUE,
                        !.waiting_reason = "connecting", !.pin = Msg.pin], <<Event("console_started")>>)
      BY <2>6 DEF LaunchConsole
    <3>4. GuestTypeOK'
      BY <1>4, <2>6 DEF LaunchConsole
    <3> QED
      BY <1>1, <1>7, <2>1, <3>1, <3>2, <3>3, <3>4, RespondTyped
  <2>7. CASE LaunchFails
    <3>1. [StopConsole(sess) EXCEPT !.waiting_reason = "degraded", !.pin = NoPin] \in SessType
      BY <1>8 DEF SessType, WaitingReasons
    <3>2. <<Event("session_error")>> \in Seq(SessionMessage)
      BY <2>4
    <3>3. Respond([StopConsole(sess) EXCEPT !.waiting_reason = "degraded", !.pin = NoPin], <<Event("session_error")>>)
      BY <2>7 DEF LaunchFails
    <3>4. GuestTypeOK'
      BY <1>5, <1>6, <2>7 DEF LaunchFails
    <3> QED
      BY <1>1, <1>7, <2>1, <3>1, <3>2, <3>3, <3>4, RespondTyped
  <2>8. CASE LaunchRejected
    <3>1. [sess EXCEPT !.waiting_reason = "degraded"] \in SessType
      BY <1>1 DEF SessType, WaitingReasons
    <3>2. <<Event("session_error")>> \in Seq(SessionMessage)
      BY <2>4
    <3>3. Respond([sess EXCEPT !.waiting_reason = "degraded"], <<Event("session_error")>>)
      BY <2>8 DEF LaunchRejected
    <3>4. GuestTypeOK'
      BY <1>5, <1>6, <2>8 DEF LaunchRejected
    <3> QED
      BY <1>1, <1>7, <2>1, <3>1, <3>2, <3>3, <3>4, RespondTyped
  <2>9. CASE ApplyDisplayPower
    <3>1. Msg.arg \in PowerStates
      BY <2>3, <2>9 DEF ApplyDisplayPower, Receiving, Msg
    <3>2. [sess EXCEPT !.power = Msg.arg] \in SessType
      BY <1>1, <3>1 DEF SessType
    <3>3. <<DisplayPowerApplied(Msg.arg)>> \in Seq(SessionMessage)
      BY <2>4, <3>1
    <3>4. Respond([sess EXCEPT !.power = Msg.arg], <<DisplayPowerApplied(Msg.arg)>>)
      BY <2>9 DEF ApplyDisplayPower
    <3>5. GuestTypeOK'
      BY <1>4, <2>9 DEF ApplyDisplayPower
    <3> QED
      BY <1>1, <1>7, <2>1, <3>2, <3>3, <3>4, <3>5, RespondTyped
  <2>10. CASE PowerHelperFails
    <3>1. sess \in SessType
      BY <1>1
    <3>2. <<>> \in Seq(SessionMessage)
      BY <2>4
    <3>3. Respond(sess, <<>>)
      BY <2>10 DEF PowerHelperFails
    <3>4. GuestTypeOK'
      BY <1>5, <1>6, <2>10 DEF PowerHelperFails
    <3> QED
      BY <1>1, <1>7, <2>1, <3>1, <3>2, <3>3, <3>4, RespondTyped
  <2> QED
    BY <1>16, <2>5, <2>6, <2>7, <2>8, <2>9, <2>10 DEF HandleDaemonMessage
<1> QED
  BY <1>10, <1>11, <1>12, <1>13, <1>14, <1>15, <1>16 DEF SessionStep

\* The guest and the Sunshine host change by themselves.
LEMMA GuestTyped ==
    ASSUME TypeInv, GuestStep
    PROVE  TypeInv'
<1>1. /\ GuestTypeOK /\ "vm" \in EventKinds /\ "host" \in EventKinds
      /\ vm \in VmStates /\ host \in HostStates
  BY DEF TypeInv, TypeOK, GuestTypeOK, EventKinds
<1>2. GuestTypeOK'
  BY <1>1, SpendTyped DEF GuestStep, VmChanges, HostChanges
<1>3. UNCHANGED <<daemonVars, sess, socketVars>>
  BY DEF GuestStep
<1> QED
  BY <1>2, <1>3 DEF daemonVars, socketVars, TypeInv, TypeOK, DaemonTypeOK, SessionTypeOK,
                    SocketTypeOK, HandlesMessage

\* Every step preserves them.
LEMMA TypeStep ==
    ASSUME TypeInv, [Next]_vars
    PROVE  TypeInv'
<1>1. CASE DaemonStep
  BY <1>1, HandleMessageTyped, TickTyped, LoopTyped DEF DaemonStep, DaemonNext, DaemonLoop
<1>2. CASE SessionStep
  BY <1>2, SessionTyped
<1>3. CASE GuestStep
  BY <1>3, GuestTyped
<1>4. CASE UNCHANGED vars
  BY <1>4 DEF vars, daemonVars, socketVars, guestVars, TypeInv, TypeOK, DaemonTypeOK,
              SessionTypeOK, SocketTypeOK, GuestTypeOK, HandlesMessage
<1> QED
  BY <1>1, <1>2, <1>3, <1>4 DEF Next

\* The appliance boots into well-formed states.
LEMMA InitTypeInv == Init => TypeInv
<1> SUFFICES ASSUME Init PROVE TypeInv
  OBVIOUS
<1>1. DaemonTypeOK /\ HandlesMessage
  <2>1. <<>> \in Seq(SessionMessage)
    OBVIOUS
  <2> QED
    BY InitTyped, <2>1 DEF Init, DaemonInit, DaemonTypeOK, HandlesMessage
<1>2. SessionTypeOK
  BY DEF Init, SessionTypeOK, SessInit, SessType, WaitingReasons, PowerStates
<1>3. SocketTypeOK
  <2>1. <<>> \in Seq(SessionMessage) /\ <<>> \in Seq(DaemonMessage) /\ <<>> \in Seq(BOOLEAN)
    OBVIOUS
  <2> QED
    BY <2>1 DEF Init, SocketInit, SocketTypeOK
<1>4. GuestTypeOK
  BY GuestAssumption DEF Init, GuestInit, GuestTypeOK
<1> QED
  BY <1>1, <1>2, <1>3, <1>4 DEF TypeInv, TypeOK

\* In every reachable state the two processes, the socket and the guest hold
\* values of their types, and a message is handled only when one was read:
\* the retry delay stays within its configured bounds and every message is one
\* that ipc.py defines, whatever is configured and whatever fails.
THEOREM TypeCorrect == Spec => []TypeOK
<1>1. Init => TypeInv
  BY InitTypeInv
<1>2. TypeInv /\ [Next]_vars => TypeInv'
  BY TypeStep
<1>3. TypeInv => TypeOK
  BY DEF TypeInv
<1> QED
  BY <1>1, <1>2, <1>3, PTL DEF Spec
=============================================================================
