------------------------- MODULE RelayScreenProofs -------------------------
(***************************************************************************)
(* What is on the screen is what the daemon believes, for every            *)
(* configuration: a sleeping display is dark, a daemon that waits for the  *)
(* VM has a session that says so and shows no viewer, the PIN on the       *)
(* screen is the one that will be accepted, and a stream is paired.        *)
(***************************************************************************)
EXTENDS RelayLinkProofs

-----------------------------------------------------------------------------
(* What degrades the daemon has happened before.                            *)

Errors == {"session_error"}

\* Without a failed launch no session_error is under way, without any failure
\* the daemon is not degraded, and a pairing that is pending was not degraded
\* by anything but a failed qm status or launch: every other failure ends it.
FaultInv ==
    /\ pc = "down" => ~PairingPending(moon)
    /\ Unspent({"launch"}) => ~Has(inbox, Errors) /\ ~Has(s2d, Errors)
    /\ Unspent(Degrading) => ~Faulted(ctl)
    /\ Unspent({"qm", "launch"}) /\ PairingPending(moon) => ~Faulted(ctl)

\* The event kinds of a premise, before and after a step.
LEMMA UnspentBefore ==
    ASSUME TypeInv, BudgetInv, [Next]_vars
    PROVE  /\ Unspent({"launch"})' => Unspent({"launch"})
           /\ Unspent({"kill"})' => Unspent({"kill"})
           /\ Unspent({"read"})' => Unspent({"read"})
           /\ Unspent({"press"})' => Unspent({"press"})
           /\ Unspent({"kill", "press"})' => Unspent({"kill", "press"})
           /\ Unspent(Degrading)' => Unspent(Degrading)
           /\ Unspent({"qm", "launch"})' => Unspent({"qm", "launch"})
           /\ ~PressFailed' => ~PressFailed
<1>1. /\ {"launch"} \in SUBSET EventKinds /\ {"kill"} \in SUBSET EventKinds
      /\ {"read"} \in SUBSET EventKinds /\ {"press"} \in SUBSET EventKinds
      /\ {"kill", "press"} \in SUBSET EventKinds /\ Degrading \in SUBSET EventKinds
      /\ {"qm", "launch"} \in SUBSET EventKinds /\ {"qm"} \in SUBSET EventKinds
  BY DEF EventKinds, Degrading
<1>2. \A K \in SUBSET EventKinds : Unspent(K)' => Unspent(K)
  BY LeftShrinks
<1> QED
  BY <1>1, <1>2 DEF PressFailed

\* The kinds contained in another premise.
LEMMA UnspentFewer ==
    /\ Unspent(Degrading) =>
         Unspent({"launch"}) /\ Unspent({"qm"}) /\ Unspent({"read"}) /\ Unspent({"start"})
    /\ Unspent({"qm", "launch"}) => Unspent({"launch"}) /\ Unspent({"qm"})
    /\ Unspent({"kill", "press"}) <=> Unspent({"kill"}) /\ Unspent({"press"})
BY DEF Unspent, Degrading

\* Losing the session changes neither whether the daemon is degraded nor
\* whether a pairing is pending.
LEMMA LostKeeps ==
    /\ \A c \in CtlType : Faulted(Disconnected(c)) <=> Faulted(c)
    /\ \A m \in MoonType : PairingPending([m EXCEPT !.launch_pending = FALSE]) <=>
                             PairingPending(m)
<1>1. ASSUME NEW c \in CtlType PROVE Faulted(Disconnected(c)) <=> Faulted(c)
  BY DEF Disconnected, Transition, Faulted, CtlType
<1>2. ASSUME NEW m \in MoonType
      PROVE  PairingPending([m EXCEPT !.launch_pending = FALSE]) <=> PairingPending(m)
  BY DEF PairingPending, MoonType
<1> QED
  BY <1>1, <1>2

\* What a handler or a tick has to show.
LEMMA FaultDelivered ==
    ASSUME TypeInv, BudgetInv, [Next]_vars, FaultInv,
           NEW c \in CtlType, NEW m \in MoonType, NEW msgs, Deliver(c, m, msgs), pc' # "down",
           inbox' \in {inbox, <<>>} \/ (inbox # <<>> /\ inbox' = Tail(inbox)),
           Unspent(Degrading)' => ~Faulted(c),
           Unspent({"qm", "launch"})' /\ PairingPending(m) => ~Faulted(c)
    PROVE  FaultInv'
<1>1. s2d' \in {s2d, <<>>}
  BY DeliverLink
<1>2. inbox \in Seq(SessionMessage) /\ s2d \in Seq(SessionMessage)
  BY EventsTyped
<1>3. ASSUME Unspent({"launch"})' PROVE ~Has(inbox', Errors) /\ ~Has(s2d', Errors)
  <2>1. ~Has(inbox, Errors) /\ ~Has(s2d, Errors)
    BY <1>3, UnspentBefore DEF FaultInv
  <2>2. inbox # <<>> => ~Has(Tail(inbox), Errors)
    BY <1>2, <2>1, HasTail
  <2>3. ~Has(<<>>, Errors)
    BY HasSmall
  <2>4. ~Has(inbox', Errors)
    BY <2>1, <2>2, <2>3, Zenon
  <2>5. ~Has(s2d', Errors)
    BY <1>1, <2>1, <2>3, Zenon
  <2> QED
    BY <2>4, <2>5
<1>4. (Faulted(ctl)' <=> Faulted(c)) /\ (PairingPending(moon)' <=> PairingPending(m))
  BY DeliverLink, LostKeeps
<1> QED
  BY <1>3, <1>4 DEF FaultInv

LEMMA FaultHandle ==
    ASSUME Linked, [Next]_vars, FaultInv, HandleMessage
    PROVE  FaultInv'
<1>1. TypeInv /\ BudgetInv
  BY DEF Linked
<1>2. PICK c \in CtlType, m \in MoonType, msgs \in Seq(DaemonMessage) :
        Handled(c, m, msgs) /\ Answers(c, m, msgs)
  BY <1>1, HandleAnswers
<1>3. inbox # <<>> /\ inbox \in Seq(SessionMessage)
  BY <1>1, HandleAnswers, EventsTyped DEF TypeInv, HandlesMessage
<1>4. /\ Deliver(c, m, msgs) /\ pc' # "down"
      /\ inbox' \in {inbox, <<>>} \/ (inbox # <<>> /\ inbox' = Tail(inbox))
  BY <1>2, <1>3 DEF Handled, AfterMessages
<1>5. PairingPending(m) <=> PairingPending(moon)
  BY <1>2 DEF Answers, Greets, PairingPending
<1>6. Faulted(c) => Faulted(ctl) \/ Head(inbox).type \in Errors \/ ~Unspent({"qm"})'
  BY <1>2 DEF Answers, Greets, GreetsDegraded, GreetsBlind, GreetsInformed, NotesStarted,
              NotesApplied, NotesExited, NotesError, Steady, Moved, Faulted, WaitingState, Errors
<1>7. Unspent({"launch"})' => Head(inbox).type \notin Errors
  BY <1>1, <1>3, UnspentBefore, HasTail DEF FaultInv
<1>8. Unspent(Degrading)' => ~Faulted(c)
  BY <1>1, <1>6, <1>7, UnspentBefore, UnspentFewer DEF FaultInv, Unspent, Degrading
<1>9. Unspent({"qm", "launch"})' /\ PairingPending(m) => ~Faulted(c)
  BY <1>1, <1>5, <1>6, <1>7, UnspentBefore, UnspentFewer DEF FaultInv, Unspent
<1> QED
  BY <1>1, <1>4, <1>8, <1>9, FaultDelivered

LEMMA FaultTick ==
    ASSUME Linked, [Next]_vars, FaultInv, PairInv, Tick
    PROVE  FaultInv'
<1>1. TypeInv /\ BudgetInv
  BY DEF Linked
<1>2. PICK c \in CtlType, m \in MoonType, msgs \in Seq(DaemonMessage) :
        Ticked(c, m, msgs) /\ Takes(c, m, msgs)
  BY <1>1, TickTakes
<1>3. Deliver(c, m, msgs) /\ pc' # "down" /\ inbox' \in {inbox, <<>>}
  BY <1>2 DEF Ticked
<1>4. /\ Unspent(Degrading)' => Unspent({"qm"})'
      /\ Unspent({"qm", "launch"})' => Unspent({"qm"})'
  BY DEF Unspent, Degrading
<1>5. CASE PathFaulted(c, m, msgs)
  BY <1>1, <1>2, <1>3, <1>5, UnspentBefore, FaultDelivered DEF PathFaulted, FaultInv
<1>6. CASE PathBlind(c, m, msgs)
  BY <1>1, <1>2, <1>3, <1>4, <1>6, FaultDelivered DEF PathBlind
<1>7. CASE ~Faulted(ctl) /\ ~PathInvalid(c, m, msgs) /\ ~PathRefused(c, m, msgs)
           /\ (PathAlone(c, m, msgs) \/ PathInformed(c, m, msgs))
  <2>1. ~Faulted(c)
    BY <1>7 DEF PathAlone, PathInformed, PathOff, PathTransitional, PathShowing, PathBackoff,
                PathUnreachable, PathPairIssue, PathPairWait, PathLaunch, PathEndpoint,
                Steady, Moved, Alike, Faulted, WaitingState
  <2> QED
    BY <1>1, <1>2, <1>3, <2>1, FaultDelivered
<1>8. CASE PathInvalid(c, m, msgs) \/ PathRefused(c, m, msgs)
  <2>1. ~PairingPending(m) /\ ~Unspent(Degrading)'
    BY <1>8 DEF PathInvalid, PathRefused, PairInv, PairingPending
  <2> QED
    BY <1>1, <1>2, <1>3, <2>1, FaultDelivered
<1> QED
  BY <1>2, <1>5, <1>6, <1>7, <1>8 DEF Takes
LEMMA FaultLoop ==
    ASSUME Linked, [Next]_vars, FaultInv, Loop
    PROVE  FaultInv'
<1>1. TypeInv /\ BudgetInv /\ ctl \in CtlType /\ moon \in MoonType
  BY DEF Linked, TypeInv, TypeOK, DaemonTypeOK
<1>2. /\ Unspent({"launch"})' => Unspent({"launch"})
      /\ Unspent(Degrading)' => Unspent(Degrading) /\ Unspent({"read"})' /\ Unspent({"start"})'
                                /\ Unspent({"qm"})'
      /\ Unspent({"qm", "launch"})' => Unspent({"qm", "launch"}) /\ Unspent({"qm"})'
  BY <1>1, UnspentBefore DEF Unspent, Degrading
<1>3. CASE UNCHANGED <<inbox, s2d, moon>> /\ pc' # "down" /\ Alike(ctl', ctl)
  BY <1>2, <1>3 DEF FaultInv, Alike, Faulted
<1>4. /\ Event("session_ready").type \notin Errors /\ ~Has(<<>>, Errors)
      /\ ~Has(<<Event("session_ready")>>, Errors)
  BY HasSmall DEF Event, Errors
<1>5. Alike(ctl, ctl)
  BY DEF Alike
<1>6. CASE DaemonStart
  <2>1. UNCHANGED <<inbox, s2d, moon>> /\ pc' # "down" /\ ~PairingPending(moon)
    BY <1>6 DEF DaemonStart, socketVars, FaultInv
  <2>2. CASE StartupInvalid
    <3>1. ~Unspent(Degrading)'
      BY <1>1, <1>2, <2>2, SpendSpends DEF StartupInvalid, EventKinds
    <3> QED
      BY <1>2, <2>1, <3>1 DEF FaultInv
  <2>3. CASE ctl' = Transition(ctl, "waiting_for_session")
    <3>1. Faulted(ctl)' => Faulted(ctl)
      BY <1>1, <2>3, MethodFields DEF Moved, Faulted
    <3> QED
      BY <1>2, <2>1, <3>1 DEF FaultInv
  <2> QED
    BY <1>6, <2>2, <2>3 DEF DaemonStart
<1>7. CASE DaemonCrash \/ StatusHangs \/ PressHangs
  <2>1. inbox' = <<>> /\ s2d' = <<>> /\ ctl' = CtlInit /\ moon' = MoonInit
    BY <1>7 DEF DaemonCrash, StatusHangs, PressHangs, DaemonStops, ServerGone
  <2>2. ~Faulted(CtlInit) /\ ~PairingPending(MoonInit)
    BY DEF Faulted, CtlInit, PairingPending, MoonInit
  <2> QED
    BY <1>4, <2>1, <2>2 DEF FaultInv
<1>8. CASE AcceptPending
  BY <1>2, <1>4, <1>8 DEF AcceptPending, Accept, FaultInv
<1>9. CASE ReadMessages
  <2>1. /\ inbox' = s2d /\ s2d' \in {s2d, <<>>} /\ pc' # "down"
        /\ ctl' \in {ctl, Disconnected(ctl)}
        /\ moon' \in {moon, [moon EXCEPT !.launch_pending = FALSE]}
    BY <1>9 DEF ReadMessages, ReadAll, AfterMessages, socketVars
  <2>2. (Faulted(ctl)' <=> Faulted(ctl)) /\ (PairingPending(moon)' <=> PairingPending(moon))
    BY <1>1, <2>1, LostKeeps
  <2>3. ~Has(s2d, Errors) => ~Has(s2d', Errors) /\ ~Has(inbox', Errors)
    BY <1>4, <2>1, Zenon
  <2> QED
    BY <1>2, <2>1, <2>2, <2>3 DEF FaultInv
<1>10. CASE PollFails
  <2>1. /\ UNCHANGED <<inbox, s2d>> /\ pc' # "down" /\ moon' = Unpaired /\ Spend("read")
    BY <1>10 DEF PollFails, socketVars
  <2>2. ~Unspent(Degrading)' /\ ~PairingPending(moon)'
    BY <1>1, <1>2, <2>1, SpendSpends DEF EventKinds, PairingPending, Unpaired, MoonInit
  <2> QED
    BY <1>2, <2>1, <2>2 DEF FaultInv
<1>11. CASE HandlePress
  <2>1. UNCHANGED <<inbox, s2d, moon>> /\ pc' # "down"
    BY <1>11 DEF HandlePress, PressNoStatus, PressIgnored, PressRefused, PressAccepted,
                 PressStatus, Press, socketVars
  <2>2. CASE PressNoStatus
    <3>1. ~Unspent({"qm"})'
      BY <1>1, <2>2, SpendSpends DEF PressFailed
    <3> QED
      BY <1>2, <2>1, <3>1 DEF FaultInv
  <2>3. CASE ctl' = ClearFailures(ctl)
    BY <1>1, <1>3, <2>1, <2>3, MethodFields
  <2> QED
    BY <1>11, <2>2, <2>3 DEF HandlePress, PressIgnored, PressRefused, PressAccepted, PressStatus
<1>12. CASE TimePasses
  <2>1. Alike(ctl', ctl) /\ UNCHANGED <<inbox, s2d>> /\ pc' # "down"
    BY <1>1, <1>12 DEF TimePasses, Alike, CtlType, socketVars
  <2>2. PairingPending(moon)' <=> PairingPending(moon)
    BY <1>1, <1>12 DEF TimePasses, PairingPending, MoonType
  <2> QED
    BY <1>2, <2>1, <2>2 DEF FaultInv, Alike, Faulted
<1>13. CASE PollDone
  BY <1>3, <1>5, <1>13 DEF PollDone, socketVars
<1> QED
  BY <1>6, <1>7, <1>8, <1>9, <1>10, <1>11, <1>12, <1>13 DEF Loop

\* The session writes a session_error only when a launch fails.
LEMMA FaultOthers ==
    ASSUME Linked, [Next]_vars, FaultInv, SessionStep \/ GuestStep \/ UNCHANGED vars
    PROVE  FaultInv'
<1>1. TypeInv /\ BudgetInv /\ UNCHANGED <<pc, inbox, ctl, moon>>
  BY DEF Linked, SessionStep, GuestStep, vars, daemonVars
<1>2. /\ Unspent({"launch"})' => Unspent({"launch"})
      /\ Unspent(Degrading)' => Unspent(Degrading)
      /\ Unspent({"qm", "launch"})' => Unspent({"qm", "launch"})
  BY <1>1, UnspentBefore
<1>3. s2d \in Seq(SessionMessage)
  BY <1>1, EventsTyped
<1>4. \/ Spend("launch") \/ s2d' = s2d
      \/ \E r \in Seq(SessionMessage) : s2d' = s2d \o r /\ ~Has(r, Errors)
  <2>1. /\ \A t \in {"console_started", "console_exited"} :
             <<Event(t)>> \in Seq(SessionMessage) /\ ~Has(<<Event(t)>>, Errors)
    <3> SUFFICES ASSUME NEW t \in {"console_started", "console_exited"}
                 PROVE  <<Event(t)>> \in Seq(SessionMessage) /\ ~Has(<<Event(t)>>, Errors)
      OBVIOUS
    <3>1. Event(t) \in SessionMessage /\ Event(t).type \notin Errors
      BY DEF Event, SessionMessage, Errors
    <3> QED
      BY <3>1, HasSmall
  <2>2. CASE SessionConnect \/ SessionStart \/ SessionEof \/ SessionKilled \/ ViewerExits
    BY <2>2 DEF SessionConnect, Connect, SessionStart, SessionEof, SessionKilled, ClientClose,
                ViewerExits, socketVars
  <2>3. CASE ShowWaitingState \/ PowerHelperFails
    <3>1. PICK s : Respond(s, <<>>)
      BY <2>3 DEF ShowWaitingState, PowerHelperFails
    <3>2. s2d \o <<>> = s2d
      BY <1>3
    <3> QED
      BY <3>1, <3>2 DEF Respond, Exchange, ClientClose
  <2>4. CASE LaunchConsole
    <3>1. PICK s : Respond(s, <<Event("console_started")>>)
      BY <2>4 DEF LaunchConsole
    <3>2. s2d' = s2d \/ s2d' = s2d \o <<Event("console_started")>>
      BY <3>1 DEF Respond, Exchange, ClientClose
    <3> QED
      BY <2>1, <3>2
  <2>5. CASE LaunchFails \/ LaunchRejected
    BY <2>5 DEF LaunchFails, LaunchRejected
  <2>6. CASE ApplyDisplayPower
    <3> DEFINE r == <<DisplayPowerApplied(Msg.arg)>>
    <3>1. PICK s : Respond(s, r)
      BY <2>6 DEF ApplyDisplayPower
    <3>2. s2d' = s2d \/ s2d' = s2d \o r
      BY <3>1 DEF Respond, Exchange, ClientClose
    <3>3. r \in Seq(SessionMessage)
      <4>1. d2s # <<>> /\ Msg.type = "display_power" /\ d2s \in Seq(DaemonMessage)
        BY <1>1, <2>6, EventsTyped DEF ApplyDisplayPower, Receiving, Msg
      <4>2. Msg \in DaemonMessage
        BY <4>1 DEF Msg
      <4>3. Msg.arg \in PowerStates
        BY <4>1, <4>2 DEF DaemonMessage
      <4> QED
        BY <4>3 DEF DisplayPowerApplied, SessionMessage
    <3>4. ~Has(r, Errors)
      <4>1. DisplayPowerApplied(Msg.arg).type \notin Errors
        BY DEF DisplayPowerApplied, Errors
      <4> QED
        BY <4>1, HasSmall
    <3> HIDE DEF r
    <3> QED
      BY <3>2, <3>3, <3>4
  <2>7. CASE PollConsole
    <3>1. s2d' = s2d \o <<Event("console_exited")>>
      BY <1>3, <2>1, <2>7 DEF PollConsole
    <3> QED
      BY <2>1, <3>1
  <2>8. CASE GuestStep \/ UNCHANGED vars
    BY <2>8 DEF GuestStep, vars, socketVars
  <2> QED
    BY <2>2, <2>3, <2>4, <2>5, <2>6, <2>7, <2>8 DEF SessionStep, HandleDaemonMessage
<1>5. Unspent({"launch"})' => (~Has(s2d, Errors) => ~Has(s2d', Errors))
  <2>1. CASE Spend("launch")
    BY <1>1, <2>1, SpendSpends DEF EventKinds
  <2>2. CASE s2d' = s2d
    BY <2>2
  <2>3. ASSUME NEW r \in Seq(SessionMessage), s2d' = s2d \o r, ~Has(r, Errors)
        PROVE  ~Has(s2d, Errors) => ~Has(s2d', Errors)
    BY <1>3, <2>3, HasConcat
  <2> QED
    BY <1>4, <2>1, <2>2, <2>3
<1> QED
  BY <1>1, <1>2, <1>5 DEF FaultInv

LEMMA FaultStep ==
    ASSUME Linked, [Next]_vars, FaultInv, PairInv
    PROVE  FaultInv'
BY FaultHandle, FaultTick, FaultLoop, FaultOthers
   DEF Next, DaemonStep, DaemonNext, DaemonLoop, Loop
-----------------------------------------------------------------------------
(* A session that is never killed.                                          *)

\* A session that lost its daemon is alone with what it had read.
LeftAlone ==
    client = "eof" => /\ pend = <<>> /\ conn = "none" /\ inbox = <<>> /\ s2d = <<>>
                      /\ disp.applied = "on"

\* While no session was killed, no connection has lost its peer: the daemon
\* reads no message of a session that is gone.
Unbroken ==
    Unspent({"kill"}) =>
      /\ conn # "dead" /\ (\A i \in DOMAIN pend : pend[i])
      /\ conn = "none" => inbox = <<>> /\ s2d = <<>>

\* A daemon without a session follows the VM at every tick.
Follows ==
    Unspent({"kill", "press"}) /\ ~ctl.session_ready =>
      (disp.vm_power_state \in DisplayOn => disp.intent = "on")

\* What the daemon will believe of the display once it has heard everything.
AppliedOff ==
    Settles(Events, {"display_power_applied"}, {DisplayPowerApplied("off")}, disp.applied = "off")

\* When that is "off", the display is.
ReportedOff == Unspent({"kill"}) /\ AppliedOff => sess.power = "off"

KillInv == LeftAlone /\ Unbroken /\ Follows /\ ReportedOff

\* Reports that are added, and the one that is taken.
LEMMA ReportAdded ==
    ASSUME TypeInv, NEW r \in Seq(SessionMessage), Events' = Events \o r,
           disp'.applied = disp.applied
    PROVE  /\ ~Has(r, {"display_power_applied"}) => (AppliedOff' <=> AppliedOff)
           /\ \A p : r = <<DisplayPowerApplied(p)>> => (AppliedOff' <=> p = "off")
<1> DEFINE T == {"display_power_applied"}
           M == {DisplayPowerApplied("off")}
<1>1. Events \in Seq(SessionMessage) /\ (disp.applied = "off") \in BOOLEAN
  BY EventsTyped
<1>2. Settles(Events \o r, T, M, disp.applied = "off") <=>
        LastIn(r, T, M) \/ (~Has(r, T) /\ Settles(Events, T, M, disp.applied = "off"))
  BY <1>1, SettlesConcat
<1>3. AppliedOff' <=> LastIn(r, T, M) \/ (~Has(r, T) /\ AppliedOff)
  BY <1>2 DEF AppliedOff
<1>4. LastIn(r, T, M) => Has(r, T)
  BY LastHas
<1>5. ASSUME NEW p, r = <<DisplayPowerApplied(p)>>
      PROVE  Has(r, T) /\ (LastIn(r, T, M) <=> p = "off")
  <2>1. DisplayPowerApplied(p).type \in T /\ (DisplayPowerApplied(p) \in M <=> p = "off")
    BY DEF DisplayPowerApplied
  <2> HIDE DEF T, M
  <2> QED
    BY <1>5, <2>1, HasSmall, LastSmall
<1> HIDE DEF T, M
<1> QED
  BY <1>3, <1>4, <1>5 DEF T

LEMMA ReportTaken ==
    ASSUME TypeInv, Events # <<>>, Events' = Tail(Events),
           IF Head(Events).type = "display_power_applied" THEN disp'.applied = Head(Events).arg
                                                          ELSE disp'.applied = disp.applied
    PROVE  AppliedOff' <=> AppliedOff
<1> DEFINE T == {"display_power_applied"}
           M == {DisplayPowerApplied("off")}
<1>1. Events \in Seq(SessionMessage) /\ Head(Events) \in SessionMessage
  BY EventsTyped
<1>2. Head(Events).type \in T => (Head(Events).arg = "off" <=> Head(Events) \in M)
  BY <1>1 DEF SessionMessage, DisplayPowerApplied
<1>3. (disp.applied = "off") \in BOOLEAN /\ (disp'.applied = "off") \in BOOLEAN
  OBVIOUS
<1>4. Settles(Tail(Events), T, M, disp'.applied = "off") <=>
        Settles(Events, T, M, disp.applied = "off")
  BY <1>1, <1>2, <1>3, SettlesTail
<1> QED
  BY <1>4 DEF AppliedOff

LEMMA KillHandle ==
    ASSUME Linked, [Next]_vars, KillInv, HandleMessage, UNCHANGED sess
    PROVE  KillInv'
<1>1. TypeInv /\ BudgetInv /\ LinkInv
  BY DEF Linked
<1>2. PICK c \in CtlType, m \in MoonType, msgs \in Seq(DaemonMessage) :
        Handled(c, m, msgs) /\ Answers(c, m, msgs)
  BY <1>1, HandleAnswers
<1>3. pc = "handle" /\ inbox # <<>>
  BY <1>1, HandleAnswers DEF TypeInv, HandlesMessage
<1>4. UNCHANGED <<pend, client>> /\ (conn = "up" => conn' = "up")
  BY <1>2, DeliverLink DEF Handled
<1>5. LeftAlone'
  BY <1>3, <1>4 DEF KillInv, LeftAlone
<1>6. Unspent({"kill"})' => conn = "up" /\ Unspent({"kill"})
  BY <1>1, <1>3, UnspentBefore DEF KillInv, Unbroken, TypeInv, TypeOK, SocketTypeOK
<1>7. Unbroken'
  <2>1. ASSUME Unspent({"kill"})' PROVE conn' = "up" /\ \A i \in DOMAIN pend' : pend'[i]
    BY <1>4, <1>6, <2>1, Zenon DEF KillInv, Unbroken
  <2> QED
    BY <2>1 DEF Unbroken
<1>8. Follows'
  <2>1. Unspent({"kill", "press"})' => Unspent({"kill"})'
    BY DEF Unspent
  <2> QED
    BY <1>1, <1>4, <1>6, <2>1, HandledReady DEF Follows
<1>9. ReportedOff'
  <2> SUFFICES ASSUME Unspent({"kill"})', AppliedOff' PROVE sess'.power = "off"
    BY DEF ReportedOff
  <2>1. Events # <<>> /\ Events' = Tail(Events) /\ Head(Events) = Head(inbox)
    BY <1>1, <1>2, <1>3, <1>4, <1>6, HandledUp
  <2>2. IF Head(Events).type = "display_power_applied" THEN disp'.applied = Head(Events).arg
                                                       ELSE disp'.applied = disp.applied
    BY <1>2, <2>1 DEF Answers, Greets, GreetsDegraded, GreetsBlind, GreetsInformed, NotesStarted,
                      NotesApplied, NotesExited, NotesError
  <2> QED
    BY <1>1, <1>6, <2>1, <2>2, ReportTaken DEF KillInv, ReportedOff
<1> QED
  BY <1>5, <1>7, <1>8, <1>9 DEF KillInv

LEMMA KillTick ==
    ASSUME Linked, [Next]_vars, KillInv, Tick, UNCHANGED sess
    PROVE  KillInv'
<1>1. TypeInv /\ BudgetInv /\ LinkInv /\ SafetyInv
  BY DEF Linked
<1>2. PICK c \in CtlType, m \in MoonType, msgs \in Seq(DaemonMessage) :
        Ticked(c, m, msgs) /\ Takes(c, m, msgs)
  BY <1>1, TickTakes
<1>3. /\ UNCHANGED <<pend, client, inbox>> /\ inbox = <<>> /\ (conn = "up" => conn' = "up")
      /\ conn' \in {conn, "none"} /\ s2d' \in {s2d, <<>>}
      /\ conn = "up" => s2d' = s2d /\ ctl' = c
  BY <1>1, <1>2, TickTakes, DeliverLink DEF Ticked, Reaches, LinkInv
<1>4. disp'.applied = disp.applied
  BY <1>2 DEF Takes, PathFaulted, PathBlind
<1>5. LeftAlone'
  BY <1>3, <1>4 DEF KillInv, LeftAlone
<1>6. Unspent({"kill"})' => conn \in {"up", "none"} /\ Unspent({"kill"})
  BY <1>1, UnspentBefore DEF KillInv, Unbroken, TypeInv, TypeOK, SocketTypeOK
<1>7. Unbroken'
  <2>1. ASSUME Unspent({"kill"})'
        PROVE  /\ conn' # "dead" /\ (conn' = "none" => s2d' = <<>>)
               /\ \A i \in DOMAIN pend' : pend'[i]
    <3>1. \A i \in DOMAIN pend' : pend'[i]
      BY <1>3, <1>6, <2>1, Zenon DEF KillInv, Unbroken
    <3>2. conn = "none" => s2d = <<>>
      BY <1>6, <2>1 DEF KillInv, Unbroken
    <3> QED
      BY <1>3, <1>6, <2>1, <3>1, <3>2
  <2> QED
    BY <1>3, <2>1 DEF Unbroken
<1>8. Follows'
  <2> SUFFICES ASSUME Unspent({"kill", "press"})', ~ctl'.session_ready
               PROVE  disp'.vm_power_state \in DisplayOn => disp'.intent = "on"
    BY DEF Follows
  <2>1. Unspent({"kill", "press"}) /\ Unspent({"kill"})'
    BY <1>1, UnspentBefore DEF Unspent
  <2>2. ~ctl.session_ready
    <3> SUFFICES ASSUME ctl.session_ready PROVE FALSE
      OBVIOUS
    <3>1. conn = "up" /\ ctl' = c
      BY <1>1, <1>3, <1>6, <2>1 DEF SafetyInv, ReadyIsConnected
    <3> QED
      BY <1>2, <3>1 DEF Takes, PathFaulted, PathBlind, PathAlone, FailsFrom, Alike, Fallen,
                        PathInformed, PathOff, PathTransitional, PathShowing, PathBackoff,
                        PathUnreachable, PathPairIssue, PathPairWait, PathLaunch, PathEndpoint,
                        PathInvalid, PathRefused, Steady, Moved
  <2>3. UNCHANGED disp \/ (disp' = Decided /\ disp'.vm_power_state = vm)
    BY <1>2 DEF Takes, PathFaulted, PathBlind
  <2> QED
    BY <1>1, <2>1, <2>2, <2>3, DecidedTyped DEF KillInv, Follows
<1>9. ReportedOff'
  <2> SUFFICES ASSUME Unspent({"kill"})', AppliedOff' PROVE sess'.power = "off"
    BY DEF ReportedOff
  <2>1. s2d' = s2d
    BY <1>3, <1>6 DEF KillInv, Unbroken
  <2>2. AppliedOff
    BY <1>3, <1>4, <2>1 DEF AppliedOff, Events
  <2> QED
    BY <1>6, <2>2 DEF KillInv, ReportedOff
<1> QED
  BY <1>5, <1>7, <1>8, <1>9 DEF KillInv
LEMMA KillLoop ==
    ASSUME Linked, [Next]_vars, KillInv, Loop, UNCHANGED sess
    PROVE  KillInv'
<1>1. TypeInv /\ BudgetInv /\ LinkInv /\ SafetyInv /\ disp \in DispType
  BY DEF Linked, TypeInv, TypeOK, DaemonTypeOK
<1>2. /\ Unspent({"kill"})' => Unspent({"kill"})
      /\ Unspent({"kill", "press"})' => Unspent({"kill", "press"}) /\ Unspent({"press"})'
  BY <1>1, UnspentBefore DEF Unspent
<1>3. \A q \in Seq(SessionMessage) : <<>> \o q = q /\ q \o <<>> = q
  OBVIOUS
<1>4. /\ inbox \in Seq(SessionMessage) /\ s2d \in Seq(SessionMessage) /\ pend \in Seq(BOOLEAN)
      /\ <<>> \in Seq(SessionMessage)
  BY <1>1, EventsTyped
<1>5. CASE DaemonCrash \/ StatusHangs \/ PressHangs
  <2>1. /\ inbox' = <<>> /\ s2d' = <<>> /\ pend' = <<>> /\ conn' = "none" /\ disp' = DispInit
    BY <1>5 DEF DaemonCrash, StatusHangs, PressHangs, DaemonStops, ServerGone
  <2>2. disp'.applied = "on" /\ disp'.vm_power_state \notin DisplayOn
    BY <2>1 DEF DispInit, DisplayOn
  <2>3. ~AppliedOff'
    <3>1. Events' = <<>>
      BY <1>3, <1>4, <2>1 DEF Events
    <3> QED
      BY <2>2, <3>1, HasSmall, LastSmall DEF AppliedOff, Settles
  <2>4. \A i \in DOMAIN pend' : FALSE
    BY <2>1
  <2>5. Unbroken'
    BY <2>1, <2>4 DEF Unbroken
  <2> QED
    BY <2>1, <2>2, <2>3, <2>5 DEF KillInv, LeftAlone, Follows, ReportedOff
<1>6. CASE AcceptPending
  <2>1. /\ pc = "read" /\ inbox = <<>> /\ inbox' = inbox /\ s2d' = <<Event("session_ready")>>
        /\ conn = "none" /\ pend # <<>> /\ pend' = Tail(pend)
        /\ UNCHANGED <<client, ctl, disp>> /\ conn' # "none"
    BY <1>1, <1>6 DEF AcceptPending, Accept, LinkInv
  <2>2. Head(pend) => conn' = "up"
    BY <1>6, Zenon DEF AcceptPending, Accept
  <2>3. \A q \in Seq(BOOLEAN) : q # <<>> =>
          /\ 1 \in DOMAIN q /\ Head(q) = q[1]
          /\ \A i \in DOMAIN Tail(q) : i + 1 \in DOMAIN q /\ Tail(q)[i] = q[i + 1]
    OBVIOUS
  <2>4. Unbroken'
    <3>1. ASSUME Unspent({"kill"})' PROVE conn' = "up" /\ \A i \in DOMAIN pend' : pend'[i]
      <4>1. \A i \in DOMAIN pend : pend[i]
        BY <1>2, <3>1 DEF KillInv, Unbroken
      <4> QED
        BY <1>4, <2>1, <2>2, <2>3, <4>1, Zenon
    <3> QED
      BY <3>1 DEF Unbroken
  <2>5. ReportedOff'
    <3> SUFFICES ASSUME Unspent({"kill"})', AppliedOff' PROVE sess'.power = "off"
      BY DEF ReportedOff
    <3> DEFINE r == <<Event("session_ready")>>
    <3>1. r \in Seq(SessionMessage) /\ ~Has(r, {"display_power_applied"})
      <4>1. Event("session_ready").type # "display_power_applied"
            /\ Event("session_ready") \in SessionMessage
        BY DEF Event, SessionMessage
      <4> QED
        BY <4>1, HasSmall
    <3>2. s2d = <<>>
      BY <1>2, <2>1 DEF KillInv, Unbroken
    <3> HIDE DEF r
    <3>3. Events' = Events \o r
      BY <1>3, <1>4, <2>1, <3>1, <3>2 DEF Events, r
    <3>4. AppliedOff
      BY <1>1, <2>1, <3>1, <3>3, ReportAdded
    <3> QED
      BY <1>2, <3>4 DEF KillInv, ReportedOff
  <2> QED
    BY <1>2, <2>1, <2>4, <2>5 DEF KillInv, LeftAlone, Follows
<1>7. CASE ReadMessages
  <2>1. /\ inbox = <<>> /\ inbox' = s2d /\ UNCHANGED <<pend, client, disp>>
        /\ conn # "dead" => /\ conn' = conn /\ ctl' = ctl
                            /\ s2d' = IF conn = "none" THEN s2d ELSE <<>>
        /\ conn = "none" => conn' = "none"
    BY <1>1, <1>7 DEF ReadMessages, ReadAll, LinkInv, socketVars
  <2>2. LeftAlone'
    BY <2>1 DEF KillInv, LeftAlone
  <2>3. Unspent({"kill"})' => conn # "dead" /\ (conn = "none" => s2d = <<>>)
    BY <1>2 DEF KillInv, Unbroken
  <2>4. Unbroken'
    <3>1. ASSUME Unspent({"kill"})' PROVE \A i \in DOMAIN pend' : pend'[i]
      BY <1>2, <2>1, <3>1, Zenon DEF KillInv, Unbroken
    <3> QED
      BY <2>1, <2>3, <3>1 DEF Unbroken
  <2>5. Follows'
    <3>1. Unspent({"kill", "press"})' => Unspent({"kill"})'
      BY DEF Unspent
    <3> QED
      BY <1>2, <2>1, <2>3, <3>1 DEF KillInv, Follows
  <2>6. ReportedOff'
    <3>1. Unspent({"kill"})' => Events' = Events
      BY <1>3, <1>4, <2>1, <2>3 DEF Events
    <3> QED
      BY <1>2, <2>1, <3>1 DEF KillInv, ReportedOff, AppliedOff
  <2> QED
    BY <2>2, <2>4, <2>5, <2>6 DEF KillInv
<1>8. CASE DaemonStart \/ PollFails \/ PollDone \/ HandlePress \/ TimePasses
  <2>1. UNCHANGED <<conn, pend, client, inbox, s2d>>
    BY <1>8 DEF DaemonStart, PollFails, PollDone, HandlePress, TimePasses, PressNoStatus,
                PressIgnored, PressRefused, PressAccepted, PressStatus, Press, socketVars
  <2>2. disp'.applied = disp.applied
    BY <1>1, <1>8
       DEF DaemonStart, PollFails, PollDone, HandlePress, TimePasses, PressNoStatus,
           PressIgnored, PressRefused, PressAccepted, PressStatus, RecordPowerState, DispType
  <2>3. Follows'
    <3>1. CASE HandlePress
      BY <1>1, <1>2, <3>1, SpendSpends DEF Follows
    <3>2. CASE DaemonStart
      BY <1>1, <1>2, <3>2 DEF DaemonStart, SafetyInv, ReadyIsConnected, LinkInv, KillInv, Follows
    <3>3. CASE PollFails \/ PollDone
      <4>1. UNCHANGED disp /\ ctl'.session_ready = ctl.session_ready
        BY <1>1, <3>3 DEF PollFails, PollDone, SetStartupError, CtlType, TypeInv, TypeOK,
                          DaemonTypeOK
      <4> QED
        BY <1>2, <4>1 DEF KillInv, Follows
    <3>4. CASE TimePasses
      <4>1. /\ disp'.vm_power_state = disp.vm_power_state /\ disp'.intent = disp.intent
            /\ ctl'.session_ready = ctl.session_ready
        BY <1>1, <3>4 DEF TimePasses, DispType, CtlType, TypeInv, TypeOK, DaemonTypeOK
      <4> QED
        BY <1>2, <4>1 DEF KillInv, Follows
    <3> QED
      BY <1>8, <3>1, <3>2, <3>3, <3>4
  <2>4. Unbroken'
    BY <1>2, <2>1, Zenon DEF KillInv, Unbroken
  <2> QED
    BY <1>2, <2>1, <2>2, <2>3, <2>4 DEF KillInv, LeftAlone, ReportedOff, AppliedOff, Events
<1> QED
  BY <1>5, <1>6, <1>7, <1>8 DEF Loop

LEMMA KillOthers ==
    ASSUME Linked, [Next]_vars, KillInv, SessionStep \/ GuestStep \/ UNCHANGED vars
    PROVE  KillInv'
<1>1. TypeInv /\ BudgetInv /\ LinkInv /\ sess \in SessType
  BY DEF Linked, TypeInv, TypeOK, SessionTypeOK
<1>2. UNCHANGED <<inbox, ctl, disp>>
  BY DEF SessionStep, GuestStep, vars, daemonVars
<1>3. /\ Unspent({"kill"})' => Unspent({"kill"})
      /\ Unspent({"kill", "press"})' => Unspent({"kill", "press"})
  BY <1>1, UnspentBefore
<1>4. Follows'
  BY <1>2, <1>3 DEF KillInv, Follows
<1>5. s2d \in Seq(SessionMessage) /\ s2d \o <<>> = s2d /\ pend \in Seq(BOOLEAN)
  BY <1>1, EventsTyped
\* Steps after which the daemon's end is as it was.
<1>6. ASSUME UNCHANGED <<conn, pend, client, s2d>>, sess'.power = sess.power
      PROVE  KillInv'
  <2>1. Unbroken'
    BY <1>2, <1>3, <1>6, Zenon DEF KillInv, Unbroken
  <2> QED
    BY <1>2, <1>3, <1>4, <1>6, <2>1 DEF KillInv, LeftAlone, ReportedOff, AppliedOff, Events
\* Steps that close the session's end.
<1>7. ASSUME ClientClose, client = "eof" \/ ~Unspent({"kill"})'
      PROVE  KillInv'
  <2>1. LeftAlone' /\ s2d' = s2d
    BY <1>7 DEF ClientClose, LeftAlone
  <2>2. CASE client = "eof"
    <3>1. pend = <<>> /\ conn = "none" /\ inbox = <<>> /\ s2d = <<>> /\ disp.applied = "on"
      BY <2>2 DEF KillInv, LeftAlone
    <3>2. conn' = "none" /\ DOMAIN pend' = {}
      BY <1>7, <3>1 DEF ClientClose
    <3>3. Unbroken'
      BY <1>2, <2>1, <3>1, <3>2 DEF Unbroken
    <3>4. Events' = <<>>
      BY <1>2, <1>5, <2>1, <3>1 DEF Events
    <3>5. ~AppliedOff'
      BY <1>2, <3>1, <3>4, HasSmall, LastSmall DEF AppliedOff, Settles
    <3> QED
      BY <1>4, <2>1, <3>3, <3>5 DEF KillInv, ReportedOff
  <2>3. CASE ~Unspent({"kill"})'
    BY <1>4, <2>1, <2>3 DEF KillInv, Unbroken, ReportedOff
  <2> QED
    BY <1>7, <2>2, <2>3
\* Steps on a connection that is up.
<1>8. ASSUME SessionStep, conn' = "up", UNCHANGED <<pend, client>>
      PROVE  KillInv'
  <2>1. /\ conn = "up"
        /\ \/ Idles \/ ReportsExit \/ ObeysStop \/ ObeysConnect \/ RefusesConnect
           \/ ObeysPower \/ RefusesPower
    BY <1>1, <1>8, SessionUp
  <2>2. client = "open"
    BY <1>1, <2>1 DEF LinkInv, EndsAgree
  <2>3. Unbroken'
    <3>1. ASSUME Unspent({"kill"})' PROVE \A i \in DOMAIN pend' : pend'[i]
      BY <1>3, <1>8, <3>1, Zenon DEF KillInv, Unbroken
    <3> QED
      BY <1>8, <3>1 DEF Unbroken
  <2>4. ReportedOff'
    <3> SUFFICES ASSUME Unspent({"kill"})', AppliedOff' PROVE sess'.power = "off"
      BY DEF ReportedOff
    <3>1. /\ \A t \in {"console_exited", "console_started", "session_error"} :
               <<Event(t)>> \in Seq(SessionMessage) /\ ~Has(<<Event(t)>>, {"display_power_applied"})
          /\ <<>> \in Seq(SessionMessage) /\ ~Has(<<>>, {"display_power_applied"})
      <4> DEFINE T == {"display_power_applied"}
      <4>1. ASSUME NEW t \in {"console_exited", "console_started", "session_error"}
            PROVE  <<Event(t)>> \in Seq(SessionMessage) /\ ~Has(<<Event(t)>>, T)
        <5>1. Event(t) \in SessionMessage /\ Event(t).type \notin T
          BY DEF Event, SessionMessage
        <5>2. <<Event(t)>> \in Seq(SessionMessage)
          BY <5>1
        <5> HIDE DEF T
        <5> QED
          BY <5>1, <5>2, HasSmall
      <4>2. <<>> \in Seq(SessionMessage)
        OBVIOUS
      <4>3. ~Has(<<>>, T)
        BY HasSmall
      <4> QED
        BY <4>1, <4>2, <4>3
    <3>2. CASE Idles
      BY <1>2, <1>3, <3>2 DEF Idles, AppliedOff, KillInv, ReportedOff
    <3>3. CASE ReportsExit \/ ObeysStop \/ ObeysConnect \/ RefusesConnect \/ RefusesPower
      <4>1. PICK r \in Seq(SessionMessage) :
              /\ Events' = Events \o r /\ ~Has(r, {"display_power_applied"})
              /\ sess'.power = sess.power
        BY <3>1, <3>3 DEF ReportsExit, ObeysStop, ObeysConnect, RefusesConnect, RefusesPower,
                          Obeys
      <4>2. AppliedOff
        BY <1>1, <1>2, <4>1, ReportAdded
      <4> QED
        BY <1>3, <4>1, <4>2 DEF KillInv, ReportedOff
    <3>4. CASE ObeysPower
      <4> DEFINE r == <<DisplayPowerApplied(Msg.arg)>>
      <4>1. d2s # <<>> /\ Msg.type = "display_power" /\ sess'.power = Msg.arg
            /\ Events' = Events \o r
        BY <3>4 DEF ObeysPower, Obeys
      <4>2. Msg \in DaemonMessage
        BY <1>1, <4>1, EventsTyped DEF Msg
      <4>3. Msg.arg \in PowerStates
        BY <4>1, <4>2 DEF DaemonMessage
      <4>4. r \in Seq(SessionMessage)
        BY <4>3 DEF DisplayPowerApplied, SessionMessage
      <4>5. AppliedOff' <=> Msg.arg = "off"
        BY <1>1, <1>2, <4>1, <4>4, ReportAdded
      <4> QED
        BY <4>1, <4>5
    <3> QED
      BY <2>1, <3>2, <3>3, <3>4
  <2> QED
    BY <1>4, <1>8, <2>2, <2>3, <2>4 DEF KillInv, LeftAlone
<1>9. CASE GuestStep \/ UNCHANGED vars
  BY <1>6, <1>9 DEF GuestStep, vars, socketVars
<1>10. CASE SessionStart
  <2>1. sess = SessInit
    BY <1>1, <1>10 DEF SessionStart, LinkInv, EndsAgree
  <2>2. UNCHANGED <<conn, pend, client, s2d>> /\ sess'.power = sess.power
    BY <1>10, <2>1 DEF SessionStart, SessInit, socketVars
  <2> QED
    BY <1>6, <2>2
<1>11. CASE SessionKilled
  BY <1>1, <1>7, <1>11, SpendSpends DEF SessionKilled, EventKinds
<1>12. CASE SessionEof
  BY <1>7, <1>12 DEF SessionEof
<1>13. CASE SessionConnect
  <2>1. /\ client' = "open" /\ pend' = Append(pend, TRUE) /\ UNCHANGED <<conn, s2d, sess>>
    BY <1>13 DEF SessionConnect, Connect
  <2>2. Unbroken'
    <3>1. TRUE \in BOOLEAN
      OBVIOUS
    <3>2. \A i \in DOMAIN pend' :
            i = Len(pend) + 1 \/ (i \in DOMAIN pend /\ pend'[i] = pend[i])
      BY <1>5, <2>1, <3>1, AppendElements, Zenon
    <3>3. pend'[Len(pend) + 1]
      BY <1>5, <2>1
    <3>4. ASSUME Unspent({"kill"})' PROVE \A i \in DOMAIN pend' : pend'[i]
      BY <1>3, <3>2, <3>3, <3>4, Zenon DEF KillInv, Unbroken
    <3> QED
      BY <1>2, <1>3, <2>1, <3>4 DEF KillInv, Unbroken
  <2> QED
    BY <1>2, <1>3, <1>4, <2>1, <2>2 DEF KillInv, LeftAlone, ReportedOff, AppliedOff, Events
<1>14. CASE ViewerExits
  BY <1>1, <1>6, <1>14 DEF ViewerExits, socketVars, SessType
<1>15. CASE PollConsole /\ SessionStep
  BY <1>8, <1>15 DEF PollConsole
<1>16. CASE HandleDaemonMessage /\ SessionStep
  <2>1. PICK s, r : Respond(s, r)
    BY <1>16 DEF HandleDaemonMessage, ShowWaitingState, LaunchConsole, LaunchFails,
                 LaunchRejected, ApplyDisplayPower, PowerHelperFails
  <2>2. client = "eof" \/ (client = "open" /\ conn = "up")
    BY <1>16 DEF HandleDaemonMessage, ShowWaitingState, LaunchConsole, LaunchFails,
                 LaunchRejected, ApplyDisplayPower, PowerHelperFails, Receiving
  <2>3. CASE client = "open"
    BY <1>8, <1>16, <2>1, <2>2, <2>3 DEF Respond, Exchange
  <2>4. CASE client = "eof" /\ r # <<>>
    BY <1>7, <2>1, <2>4 DEF Respond
  <2>5. CASE client = "eof" /\ r = <<>>
    <3>1. UNCHANGED <<conn, pend, client>> /\ s2d' = s2d
      BY <1>5, <2>1, <2>5 DEF Respond, Exchange
    <3>2. disp.applied = "on" /\ inbox = <<>> /\ s2d = <<>>
      BY <2>5 DEF KillInv, LeftAlone
    <3>3. ~AppliedOff'
      <4>1. Events' = <<>>
        BY <1>2, <1>5, <3>1, <3>2 DEF Events
      <4> QED
        BY <1>2, <3>2, <4>1, HasSmall, LastSmall DEF AppliedOff, Settles
    <3>4. Unbroken'
      BY <1>2, <1>3, <3>1, Zenon DEF KillInv, Unbroken
    <3> QED
      BY <1>2, <1>4, <3>1, <3>3, <3>4 DEF KillInv, LeftAlone, ReportedOff
  <2> QED
    BY <2>2, <2>3, <2>4, <2>5
<1> QED
  BY <1>9, <1>10, <1>11, <1>12, <1>13, <1>14, <1>15, <1>16 DEF SessionStep

LEMMA KillStep ==
    ASSUME Linked, [Next]_vars, KillInv
    PROVE  KillInv'
BY KillHandle, KillTick, KillLoop, KillOthers DEF Next, DaemonStep, DaemonNext, DaemonLoop, Loop
-----------------------------------------------------------------------------
(* What the session's steps do to the queues, on a connection that is up.   *)

\* A message the session handles takes effect on the screen.
LEMMA ScreenHandled ==
    ASSUME TypeInv, d2s # <<>>, d2s' = Tail(d2s), NEW M, NEW now \in BOOLEAN,
           NEW next \in BOOLEAN,
           Msg.type \in ScreenTypes => (next <=> Msg \in M),
           Msg.type \notin ScreenTypes => (next <=> now)
    PROVE  Settles(d2s', ScreenTypes, M, next) <=> Settles(d2s, ScreenTypes, M, now)
<1>1. d2s \in Seq(DaemonMessage) /\ Msg = Head(d2s)
  BY EventsTyped DEF Msg
<1> QED
  BY <1>1, SettlesTail

\* The session only adds reports, and only the ones that its step makes.
LEMMA SessionReports ==
    ASSUME TypeInv, SessionUpStep
    PROVE  /\ \A T : Has(Events, T) => Has(Events', T)
           /\ Has(Events', {"session_ready"}) => Has(Events, {"session_ready"})
           /\ Has(Events', {"console_started"}) => Has(Events, {"console_started"}) \/ ObeysConnect
           /\ Has(Events', {"console_exited"}) => Has(Events, {"console_exited"}) \/ ReportsExit
           /\ ReportsExit => Has(Events', {"console_exited"})
           /\ RefusesConnect => Has(Events', {"session_error"})
<1>1. Events \in Seq(SessionMessage) /\ d2s \in Seq(DaemonMessage)
  BY EventsTyped
<1>2. ASSUME NEW r \in Seq(SessionMessage), Events' = Events \o r
      PROVE  \A T : Has(Events', T) <=> Has(Events, T) \/ Has(r, T)
  BY <1>1, <1>2, HasConcat
<1>3. \A t \in {"console_exited", "console_started", "session_error"} :
        <<Event(t)>> \in Seq(SessionMessage) /\ \A T : Has(<<Event(t)>>, T) <=> t \in T
  <2> SUFFICES ASSUME NEW t \in {"console_exited", "console_started", "session_error"}
               PROVE  <<Event(t)>> \in Seq(SessionMessage) /\ \A T : Has(<<Event(t)>>, T) <=> t \in T
    OBVIOUS
  <2>1. Event(t) \in SessionMessage /\ Event(t).type = t
    BY DEF Event, SessionMessage
  <2>2. <<Event(t)>> \in Seq(SessionMessage)
    BY <2>1
  <2>3. ASSUME NEW T PROVE Has(<<Event(t)>>, T) <=> t \in T
    BY <2>1, HasSmall
  <2> QED
    BY <2>2, <2>3
<1>4. \A p \in PowerStates :
        /\ <<DisplayPowerApplied(p)>> \in Seq(SessionMessage)
        /\ \A T : Has(<<DisplayPowerApplied(p)>>, T) <=> "display_power_applied" \in T
  <2> SUFFICES ASSUME NEW p \in PowerStates
               PROVE  /\ <<DisplayPowerApplied(p)>> \in Seq(SessionMessage)
                      /\ \A T : Has(<<DisplayPowerApplied(p)>>, T) <=> "display_power_applied" \in T
    OBVIOUS
  <2>1. /\ DisplayPowerApplied(p) \in SessionMessage
        /\ DisplayPowerApplied(p).type = "display_power_applied"
    BY DEF DisplayPowerApplied, SessionMessage
  <2>2. <<DisplayPowerApplied(p)>> \in Seq(SessionMessage)
    BY <2>1
  <2>3. ASSUME NEW T PROVE Has(<<DisplayPowerApplied(p)>>, T) <=> "display_power_applied" \in T
    BY <2>1, HasSmall
  <2> QED
    BY <2>2, <2>3
<1>5. <<>> \in Seq(SessionMessage) /\ \A T : ~Has(<<>>, T)
  BY HasSmall
<1>6. CASE Idles
  <2>1. Events' = Events
    BY <1>6 DEF Idles
  <2>2. ~ReportsExit /\ ~RefusesConnect
    BY <1>1, <1>6 DEF Idles, SameScreen, ReportsExit, RefusesConnect, Obeys
  <2> QED
    BY <2>1, <2>2
<1>7. CASE ReportsExit
  <2>1. \A T : Has(Events', T) <=> Has(Events, T) \/ "console_exited" \in T
    BY <1>2, <1>3, <1>7 DEF ReportsExit
  <2>2. ~RefusesConnect
    BY <1>1, <1>7 DEF ReportsExit, RefusesConnect, Obeys
  <2> QED
    BY <1>7, <2>1, <2>2
<1>8. CASE ObeysStop \/ RefusesPower
  <2>1. \A T : Has(Events', T) <=> Has(Events, T)
    BY <1>2, <1>5, <1>8 DEF ObeysStop, RefusesPower, Obeys
  <2>2. ~ReportsExit /\ ~RefusesConnect
    BY <1>1, <1>8 DEF ObeysStop, RefusesPower, ReportsExit, RefusesConnect, Obeys, Stops
  <2> QED
    BY <2>1, <2>2
<1>9. CASE ObeysConnect
  <2>1. \A T : Has(Events', T) <=> Has(Events, T) \/ "console_started" \in T
    BY <1>2, <1>3, <1>9 DEF ObeysConnect, Obeys
  <2>2. ~ReportsExit
    BY <1>1, <1>9 DEF ObeysConnect, Obeys, ReportsExit
  <2>3. ~RefusesConnect
    BY <1>1, <1>9 DEF ObeysConnect, Obeys, RefusesConnect, Event
  <2> QED
    BY <1>9, <2>1, <2>2, <2>3
<1>10. CASE RefusesConnect
  <2>1. \A T : Has(Events', T) <=> Has(Events, T) \/ "session_error" \in T
    BY <1>2, <1>3, <1>10 DEF RefusesConnect, Obeys
  <2>2. ~ReportsExit
    BY <1>1, <1>10 DEF RefusesConnect, Obeys, ReportsExit
  <2> QED
    BY <1>10, <2>1, <2>2
<1>11. CASE ObeysPower
  <2>1. Msg.arg \in PowerStates
    <3>1. d2s # <<>> /\ Msg.type = "display_power"
      BY <1>11 DEF ObeysPower, Obeys
    <3>2. Msg \in DaemonMessage
      BY <1>1, <3>1 DEF Msg
    <3> QED
      BY <3>1, <3>2 DEF DaemonMessage
  <2>2. \A T : Has(Events', T) <=> Has(Events, T) \/ "display_power_applied" \in T
    BY <1>2, <1>4, <1>11, <2>1 DEF ObeysPower, Obeys
  <2>3. ~ReportsExit /\ ~RefusesConnect
    BY <1>1, <1>11 DEF ObeysPower, ReportsExit, RefusesConnect, Obeys
  <2> QED
    BY <2>2, <2>3
<1> QED
  BY <1>6, <1>7, <1>8, <1>9, <1>10, <1>11 DEF SessionUpStep
-----------------------------------------------------------------------------
(* A connection is greeted once.                                            *)

GreetedOnce == Up => ~Has(Events, {"session_ready"})

\* A greeting answers the only message of a session that has done nothing yet;
\* every other handler finds the session greeted.
LEMMA Greeting ==
    ASSUME Linked, GreetedOnce, conn = "up", NEW msgs \in Seq(DaemonMessage), HandleUp(msgs)
    PROVE  /\ Head(inbox).type # "session_ready" => Up
           /\ Head(inbox).type = "session_ready" =>
                /\ ~ctl.session_ready /\ sess.console = "none" /\ ~Has(d2s, Acts)
                /\ \A T : ~Has(Events', T)
<1>1. /\ TypeInv /\ LinkInv /\ Events # <<>> /\ Head(inbox) = Head(Events)
      /\ Events' = Tail(Events) /\ (ctl.session_ready \/ Head(inbox).type = "session_ready")
  BY DEF Linked, HandleUp
<1>2. Head(inbox).type # "session_ready" => Up
  BY <1>1 DEF Up
<1>3. ASSUME Head(inbox).type = "session_ready"
      PROVE  /\ ~ctl.session_ready /\ sess.console = "none" /\ ~Has(d2s, Acts)
             /\ \A T : ~Has(Events', T)
  <2>1. Events \in Seq(SessionMessage)
    BY <1>1, EventsTyped
  <2>2. Has(Events, {"session_ready"})
    BY <1>1, <1>3, <2>1, HasTail
  <2>3. ~ctl.session_ready
    BY <2>2 DEF GreetedOnce, Up
  <2>4. Events = <<Event("session_ready")>> /\ sess.console = "none" /\ ~Has(d2s, Acts)
    BY <1>1, <2>3 DEF LinkInv, Ungreeted
  <2>5. Events' = <<>>
    BY <1>1, <2>4
  <2> QED
    BY <2>3, <2>4, <2>5, HasSmall
<1> QED
  BY <1>2, <1>3

LEMMA GreetedStep ==
    ASSUME Linked, [Next]_vars, GreetedOnce
    PROVE  GreetedOnce'
<1> DEFINE T == {"session_ready"}
<1> SUFFICES ASSUME Up' PROVE ~Has(Events', T)
  BY DEF GreetedOnce
<1>1. /\ conn = "up"
      /\ \/ \E msgs \in Seq(DaemonMessage) : HandleUp(msgs) \/ TickUp(msgs)
         \/ LoopStep \/ SessionUpStep
  BY UpStep
<1>2. TypeInv /\ Events \in Seq(SessionMessage)
  BY EventsTyped DEF Linked
<1>3. ASSUME NEW msgs \in Seq(DaemonMessage), HandleUp(msgs) PROVE ~Has(Events', T)
  <2>1. Events # <<>> /\ Events' = Tail(Events)
    BY <1>3 DEF HandleUp
  <2>2. CASE Head(inbox).type # "session_ready"
    BY <1>1, <1>2, <1>3, <2>1, <2>2, Greeting, HasTail DEF GreetedOnce
  <2>3. CASE Head(inbox).type = "session_ready"
    BY <1>1, <1>3, <2>3, Greeting
  <2> QED
    BY <2>2, <2>3
<1>4. ASSUME \/ \E msgs \in Seq(DaemonMessage) : TickUp(msgs)
             \/ LoopStep
      PROVE  ~Has(Events', T)
  <2>1. Events' = Events /\ ctl.session_ready
    BY <1>4 DEF TickUp, LoopStep, Up
  <2> QED
    BY <1>1, <2>1 DEF GreetedOnce, Up
<1>5. CASE SessionUpStep
  <2>1. Up
    BY <1>1, <1>5 DEF SessionUpStep, daemonVars, Up
  <2> QED
    BY <1>2, <1>5, <2>1, SessionReports DEF GreetedOnce
<1> QED
  BY <1>1, <1>3, <1>4, <1>5

-----------------------------------------------------------------------------
(* The daemon that waits for the VM runs no console.                        *)

Waiting == {"waiting_for_vm", "display_sleeping"}

WaitsAlone == Up /\ ctl.session_state \in Waiting => ~ctl.console_running

LEMMA WaitsStep ==
    ASSUME Linked, [Next]_vars, GreetedOnce, WaitsAlone
    PROVE  WaitsAlone'
<1> SUFFICES ASSUME Up', ctl'.session_state \in Waiting PROVE ~ctl'.console_running
  BY DEF WaitsAlone
<1>1. /\ conn = "up"
      /\ \/ \E msgs \in Seq(DaemonMessage) : HandleUp(msgs) \/ TickUp(msgs)
         \/ LoopStep \/ SessionUpStep
  BY UpStep
<1>2. ASSUME NEW msgs \in Seq(DaemonMessage), HandleUp(msgs) PROVE ~ctl'.console_running
  <2>1. Answers(ctl', moon', msgs) /\ (Head(inbox).type # "session_ready" => Up)
    BY <1>1, <1>2, Greeting DEF HandleUp
  <2>2. CASE NotesApplied(ctl', msgs)
    BY <2>1, <2>2 DEF NotesApplied, Moved, WaitsAlone
  <2>3. CASE ~NotesApplied(ctl', msgs)
    BY <2>1, <2>3 DEF Answers, Greets, NotesStarted, NotesExited, NotesError, Fallen, Waiting
  <2> QED
    BY <2>2, <2>3
<1>3. ASSUME NEW msgs \in Seq(DaemonMessage), TickUp(msgs) PROVE ~ctl'.console_running
  <2>1. Up /\ Takes(ctl', moon', msgs)
    BY <1>1, <1>3 DEF TickUp, Up
  <2>2. CASE PathFaulted(ctl', moon', msgs) \/ PathBlind(ctl', moon', msgs)
             \/ PathAlone(ctl', moon', msgs)
    BY <2>1, <2>2 DEF PathFaulted, PathBlind, PathAlone, FailsFrom, Alike, Fallen, WaitsAlone
  <2>3. CASE PathOff(ctl', moon', msgs) \/ PathTransitional(ctl', moon', msgs)
    BY <2>1, <2>3 DEF PathOff, PathTransitional, Moved, Alike, WaitsAlone
  <2>4. CASE PathInvalid(ctl', moon', msgs) \/ PathRefused(ctl', moon', msgs)
    BY <2>4 DEF PathInvalid, PathRefused, FailsFrom, Fallen, Alike, Moved, Waiting
  <2>5. CASE \/ PathShowing(ctl', moon', msgs) \/ PathBackoff(ctl', moon', msgs)
             \/ PathUnreachable(ctl', moon', msgs) \/ PathPairIssue(ctl', moon', msgs)
             \/ PathPairWait(ctl', moon', msgs) \/ PathLaunch(ctl', moon', msgs)
             \/ PathEndpoint(ctl', moon', msgs)
    BY <2>5 DEF PathShowing, PathBackoff, PathUnreachable, PathPairIssue, PathPairWait,
                PathLaunch, PathEndpoint, Moved, Waiting
  <2> QED
    BY <2>1, <2>2, <2>3, <2>4, <2>5 DEF Takes, PathInformed
<1>4. CASE LoopStep
  BY <1>1, <1>4 DEF LoopStep, Rests, LosesInput, Presses, Alike, Fallen, Waiting, WaitsAlone, Up
<1>5. CASE SessionUpStep
  BY <1>1, <1>5 DEF SessionUpStep, daemonVars, WaitsAlone, Up
<1> QED
  BY <1>1, <1>2, <1>3, <1>4, <1>5

-----------------------------------------------------------------------------
(* A display called asleep was reported off.                                *)

\* The VM state the daemon knows is one it has acted on: not one that a press
\* has just read and the tick has still to follow.
Between == ~(pc \in {"press", "tick"} /\ ~Unspent({"press"}) /\ ctl.startup_error = "none")

SleepsOff ==
    Up /\ Unspent({"kill"}) /\ ~PressFailed /\ ctl.session_state = "display_sleeping" =>
      /\ disp.intent = "off" /\ disp.applied = "off"
      /\ Between => disp.vm_power_state \notin DisplayOn

\* When nothing but the loop's position changes, or the session acts.
LEMMA BetweenKept ==
    ASSUME Linked, [Next]_vars
    PROVE  /\ Rests /\ Between' => Between
           /\ Presses => ~Between' \/ ctl'.startup_error # ctl.startup_error
           /\ SessionUpStep /\ Between' => Between
           /\ Unspent({"press"}) => Between
<1>1. Unspent({"press"})' => Unspent({"press"})
  BY UnspentBefore DEF Linked
<1>2. Rests /\ Between' => Between
  BY <1>1 DEF Rests, Between, Alike
<1>3. Presses => ~Between' \/ ctl'.startup_error # ctl.startup_error
  BY DEF Presses, Between
<1>4. SessionUpStep /\ Between' => Between
  BY <1>1 DEF SessionUpStep, daemonVars, Between
<1> QED
  BY <1>2, <1>3, <1>4 DEF Between

LEMMA SleepsStep ==
    ASSUME Linked, [Next]_vars, GreetedOnce, WaitsAlone, SleepsOff, KillInv
    PROVE  SleepsOff'
<1> SUFFICES ASSUME Up', Unspent({"kill"})', ~PressFailed',
                    ctl'.session_state = "display_sleeping"
             PROVE  /\ disp'.intent = "off" /\ disp'.applied = "off"
                    /\ Between' => disp'.vm_power_state \notin DisplayOn
  BY DEF SleepsOff
<1>1. /\ conn = "up"
      /\ \/ \E msgs \in Seq(DaemonMessage) : HandleUp(msgs) \/ TickUp(msgs)
         \/ LoopStep \/ SessionUpStep
  BY UpStep
<1>2. /\ Unspent({"kill"}) /\ ~PressFailed
      /\ ~Unspent({"qm"})' => Unspent({"press"})
  BY UnspentBefore DEF Linked, PressFailed
<1>3. \A p : WaitingState(p) = "display_sleeping" => p.intent = "off" /\ p.applied = "off"
  BY DEF WaitingState
<1>4. Up /\ ctl.session_state = "display_sleeping" =>
        /\ disp.intent = "off" /\ disp.applied = "off" /\ ~ctl.console_running
        /\ Between => disp.vm_power_state \notin DisplayOn
  BY <1>2 DEF SleepsOff, WaitsAlone, Waiting
<1>5. ASSUME NEW msgs \in Seq(DaemonMessage), HandleUp(msgs)
      PROVE  /\ disp'.intent = "off" /\ disp'.applied = "off"
             /\ Between' => disp'.vm_power_state \notin DisplayOn
  <2>1. Answers(ctl', moon', msgs) /\ (Head(inbox).type # "session_ready" => Up) /\ Between
    BY <1>1, <1>5, Greeting DEF HandleUp, Between
  <2>2. CASE Greets(ctl', moon') /\ GreetsBlind(ctl', msgs)
    <3>1. ~ctl.session_ready /\ Unspent({"press"})
      BY <1>1, <1>2, <1>5, <2>2, Greeting DEF Greets, GreetsBlind
    <3>2. disp.vm_power_state \in DisplayOn => disp.intent = "on"
      BY <1>2, <3>1, UnspentFewer DEF KillInv, Follows
    <3>3. disp.intent = "off" /\ disp.applied = "off" /\ disp' = disp
      BY <1>3, <2>2 DEF GreetsBlind
    <3> QED
      BY <3>2, <3>3
  <2>3. CASE Greets(ctl', moon') /\ (GreetsDegraded(ctl', msgs) \/ GreetsInformed(ctl', msgs))
    BY <1>3, <2>3 DEF Greets, GreetsDegraded, GreetsInformed
  <2>4. CASE NotesApplied(ctl', msgs)
    BY <1>3, <1>4, <2>1, <2>4 DEF NotesApplied, Moved
  <2>5. CASE NotesStarted(ctl', msgs) \/ NotesExited(ctl', msgs) \/ NotesError(ctl', msgs)
    BY <1>3, <2>5 DEF NotesStarted, NotesExited, NotesError, Fallen
  <2> QED
    BY <2>1, <2>2, <2>3, <2>4, <2>5 DEF Answers
<1>6. ASSUME NEW msgs \in Seq(DaemonMessage), TickUp(msgs)
      PROVE  /\ disp'.intent = "off" /\ disp'.applied = "off"
             /\ Between' => disp'.vm_power_state \notin DisplayOn
  <2>1. Up /\ Takes(ctl', moon', msgs)
    BY <1>1, <1>6 DEF TickUp, Up
  <2>2. CASE PathFaulted(ctl', moon', msgs)
    <3>1. ctl' = ctl /\ disp' = disp /\ Faulted(ctl)
      BY <2>2 DEF PathFaulted
    <3>2. ctl.startup_error # "none"
      BY <3>1 DEF Linked, SafetyInv, ReasonIsDegraded, Degraded, Faulted
    <3> QED
      BY <1>4, <2>1, <3>1, <3>2 DEF Between
  <2>3. CASE PathBlind(ctl', moon', msgs)
    <3>1. disp' = disp /\ ctl'.session_state = ctl.session_state /\ ~Unspent({"qm"})'
      BY <2>3 DEF PathBlind, FailsFrom, Fallen, Alike
    <3> QED
      BY <1>2, <1>4, <2>1, <3>1, BetweenKept
  <2>4. CASE /\ disp'.vm_power_state = vm /\ disp'.applied = disp.applied
             /\ PathOff(ctl', moon', msgs) \/ PathTransitional(ctl', moon', msgs)
    BY <1>3, <1>4, <2>1, <2>4 DEF PathOff, PathTransitional, Moved, Alike, WaitingState,
                                  DisplayOff, DisplayOn
  <2>5. CASE PathInvalid(ctl', moon', msgs) \/ PathRefused(ctl', moon', msgs)
    BY <2>5 DEF PathInvalid, PathRefused, FailsFrom, Fallen, Alike, Moved
  <2>6. CASE \/ PathShowing(ctl', moon', msgs) \/ PathBackoff(ctl', moon', msgs)
             \/ PathUnreachable(ctl', moon', msgs) \/ PathPairIssue(ctl', moon', msgs)
             \/ PathPairWait(ctl', moon', msgs) \/ PathLaunch(ctl', moon', msgs)
             \/ PathEndpoint(ctl', moon', msgs)
    BY <2>6 DEF PathShowing, PathBackoff, PathUnreachable, PathPairIssue, PathPairWait,
                PathLaunch, PathEndpoint, Moved
  <2> QED
    BY <2>1, <2>2, <2>3, <2>4, <2>5, <2>6 DEF Takes, PathAlone, PathInformed, Up
<1>7. CASE LoopStep
  <2>1. Up
    BY <1>1, <1>7 DEF LoopStep, Up
  <2>2. CASE Rests
    BY <1>4, <2>1, <2>2, BetweenKept DEF Rests, Alike, SameDisplay
  <2>3. CASE LosesInput
    BY <2>3 DEF LosesInput
  <2>4. CASE Presses
    BY <1>4, <2>1, <2>4, BetweenKept DEF Presses, Alike, Fallen
  <2> QED
    BY <1>7, <2>2, <2>3, <2>4 DEF LoopStep
<1>8. CASE SessionUpStep
  BY <1>1, <1>4, <1>8, BetweenKept DEF SessionUpStep, daemonVars, Up
<1> QED
  BY <1>1, <1>5, <1>6, <1>7, <1>8
-----------------------------------------------------------------------------
(* A daemon that waits for the VM has a session that says so.               *)

\* The daemon knows of a VM that is not on, and has acted on it.
KnownOff == Between /\ disp.vm_power_state \notin DisplayOn

\* A PIN that is pending while the VM is off belongs to an earlier session:
\* this one has not been asked to show it.
PairingUnseen ==
    Up /\ KnownOff /\ PairingPending(moon) /\ PlainStatus /\ Unspent(Degrading) =>
      /\ ~Has(d2s, {"connect_console"}) /\ sess.console = "none"
      /\ ~Has(Events, {"console_started", "console_exited"})

\* In a working daemon, a step of the loop keeps what it knows of the VM or
\* leaves it to the tick.
LEMMA KnownOffKept ==
    ASSUME Linked, [Next]_vars, LoopStep \/ SessionUpStep, KnownOff', ~LosesInput
    PROVE  /\ Presses => Fallen(ctl', ctl)
           /\ ~Presses => KnownOff
<1>1. CASE Rests
  BY <1>1, BetweenKept DEF Rests, SameDisplay, KnownOff, Presses
<1>2. CASE Presses
  BY <1>2, BetweenKept DEF Presses, KnownOff, Alike, Between, Fallen
<1>3. CASE SessionUpStep
  BY <1>3, BetweenKept DEF SessionUpStep, daemonVars, KnownOff, Presses
<1> QED
  BY <1>1, <1>2, <1>3 DEF LoopStep

LEMMA UnseenStep ==
    ASSUME Linked, [Next]_vars, FaultInv, FaultInv', GreetedOnce, PairingUnseen
    PROVE  PairingUnseen'
<1> DEFINE C == {"connect_console"}
           E == {"console_started", "console_exited"}
<1> SUFFICES ASSUME Up', KnownOff', PairingPending(moon)', PlainStatus, Unspent(Degrading)'
             PROVE  ~Has(d2s', C) /\ sess'.console = "none" /\ ~Has(Events', E)
  BY DEF PairingUnseen, PlainStatus
<1>1. /\ conn = "up"
      /\ \/ \E msgs \in Seq(DaemonMessage) : HandleUp(msgs) \/ TickUp(msgs)
         \/ LoopStep \/ SessionUpStep
  BY UpStep
<1>2. /\ TypeInv /\ Events \in Seq(SessionMessage) /\ d2s \in Seq(DaemonMessage)
      /\ vm \in DisplayOn \union DisplayOff
  BY EventsTyped DEF Linked, TypeInv, TypeOK, GuestTypeOK, PlainStatus
<1>3. Unspent(Degrading) /\ ~Faulted(ctl) /\ ~Faulted(ctl)'
  BY UnspentBefore DEF Linked, FaultInv
<1>4. Up /\ KnownOff /\ PairingPending(moon) =>
        ~Has(d2s, C) /\ sess.console = "none" /\ ~Has(Events, E)
  BY <1>3 DEF PairingUnseen
<1>5. ~PairingPending(Unpaired)
  BY DEF PairingPending, Unpaired, MoonInit
<1>6. ASSUME NEW msgs \in Seq(DaemonMessage), HandleUp(msgs)
      PROVE  ~Has(d2s', C) /\ sess'.console = "none" /\ ~Has(Events', E)
  <2>1. /\ Answers(ctl', moon', msgs) /\ UNCHANGED sess /\ d2s' = d2s \o msgs
        /\ Events # <<>> /\ Events' = Tail(Events) /\ Head(inbox) = Head(Events)
        /\ (Head(inbox).type # "session_ready" => Up) /\ Between
    BY <1>1, <1>6, Greeting DEF HandleUp, Between
  <2>2. Has(d2s', C) <=> Has(d2s, C) \/ Has(msgs, C)
    BY <1>2, <2>1, HasConcat
  <2>3. CASE Greets(ctl', moon')
    <3>1. sess.console = "none" /\ ~Has(d2s, Acts) /\ ~Has(Events', E)
      BY <1>1, <1>6, <2>3, Greeting DEF Greets
    <3>2. \E m : Screen(msgs, m) /\ m.type \in Stops
      BY <2>1, <2>3, MessageTypes
         DEF Answers, Greets, GreetsDegraded, GreetsBlind, GreetsInformed, NotesStarted,
             NotesApplied, NotesExited, NotesError
    <3>3. ~Has(msgs, C)
      BY <3>2 DEF Screen, Stops
    <3>4. ~Has(d2s, C)
      BY <3>1, HasFewer DEF Acts
    <3> QED
      BY <2>1, <2>2, <3>1, <3>3, <3>4
  <2>4. CASE moon' = moon /\ NotesApplied(ctl', msgs)
    <3>1. Up /\ KnownOff /\ PairingPending(moon) /\ msgs = <<>>
      BY <2>1, <2>4 DEF NotesApplied, KnownOff
    <3>2. ~Has(msgs, C)
      BY <3>1, HasSmall
    <3>3. ~Has(Events', E)
      BY <1>2, <1>4, <2>1, <3>1, HasTail
    <3> QED
      BY <1>4, <2>1, <2>2, <3>1, <3>2, <3>3
  <2>5. CASE moon' = moon /\ (NotesStarted(ctl', msgs) \/ NotesExited(ctl', msgs))
    <3>1. Up /\ KnownOff /\ PairingPending(moon) /\ Head(Events).type \in E
      BY <2>1, <2>5 DEF NotesStarted, NotesExited, KnownOff
    <3> QED
      BY <1>2, <1>4, <2>1, <3>1, HasTail
  <2>6. CASE NotesError(ctl', msgs)
    BY <1>3, <2>6 DEF NotesError, Fallen, Faulted
  <2> QED
    BY <2>1, <2>3, <2>4, <2>5, <2>6 DEF Answers
<1>7. ASSUME NEW msgs \in Seq(DaemonMessage), TickUp(msgs) PROVE FALSE
  <2>1. Takes(ctl', moon', msgs) /\ ctl.session_ready
    BY <1>7 DEF TickUp
  <2>2. ~PathFaulted(ctl', moon', msgs) /\ ~PathBlind(ctl', moon', msgs)
    BY <1>3, UnspentFewer DEF PathFaulted, PathBlind, Unspent, Degrading
  <2>3. disp'.vm_power_state = vm /\ PathInformed(ctl', moon', msgs)
    BY <2>1, <2>2 DEF Takes, PathAlone
  <2>4. vm \notin DisplayOn
    BY <2>3 DEF KnownOff
  <2> QED
    BY <1>5, <2>3, <2>4 DEF PathInformed, PathOff, PathTransitional
<1>8. CASE LoopStep
  <2>1. /\ UNCHANGED <<sess, d2s>> /\ Events' = Events /\ Up /\ ~LosesInput
        /\ PairingPending(moon)
    BY <1>1, <1>5, <1>8 DEF LoopStep, LosesInput, Up, Rests, Presses, SamePairing, PairingPending
  <2>2. ~Fallen(ctl', ctl)
    BY <1>3 DEF Fallen, Faulted
  <2>3. KnownOff
    BY <1>8, <2>1, <2>2, KnownOffKept
  <2> QED
    BY <1>4, <2>1, <2>3
<1>9. CASE SessionUpStep
  <2>1. Up /\ KnownOff /\ PairingPending(moon)
    <3>1. UNCHANGED <<pc, ctl, moon>>
      BY <1>9 DEF SessionUpStep, daemonVars
    <3>2. ~LosesInput /\ ~Fallen(ctl', ctl)
      BY <1>3, <3>1 DEF LosesInput, Fallen, Faulted
    <3> QED
      BY <1>1, <1>9, <3>1, <3>2, KnownOffKept DEF Up
  <2>2. ~Has(d2s, C) /\ sess.console = "none" /\ ~Has(Events, E)
    BY <1>4, <2>1
  <2>3. ASSUME d2s # <<>> PROVE Head(d2s).type \notin C /\ ~Has(Tail(d2s), C)
    BY <1>2, <2>2, <2>3, HasTail
  <2>4. ~ObeysConnect /\ ~RefusesConnect /\ ~ReportsExit
    BY <2>2, <2>3 DEF ObeysConnect, RefusesConnect, ReportsExit, Obeys, Msg
  <2>5. sess'.console = "none" /\ (d2s' = d2s \/ (d2s # <<>> /\ d2s' = Tail(d2s)))
    BY <1>9, <2>2, <2>4 DEF SessionUpStep, Idles, SameScreen, ObeysStop, ObeysPower,
                            RefusesPower, Obeys
  <2>6. ~Has(d2s', C)
    BY <2>2, <2>3, <2>5, Zenon
  <2>7. ~Has(Events, {"console_started"}) /\ ~Has(Events, {"console_exited"})
    BY <2>2, HasFewer
  <2>8. ~Has(Events', {"console_started"}) /\ ~Has(Events', {"console_exited"})
    BY <1>2, <1>9, <2>4, <2>7, SessionReports
  <2>9. ~Has(Events', E)
    BY <2>8 DEF Has
  <2> QED
    BY <2>5, <2>6, <2>9
<1> QED
  BY <1>1, <1>6, <1>7, <1>8, <1>9
\* What the screen will show survives the session's steps, except the ones that
\* are reported as an exit or an error.
LEMMA SessionScreen ==
    ASSUME TypeInv, SessionUpStep, ~ReportsExit, ~RefusesConnect,
           NEW M, NEW now \in BOOLEAN, NEW next \in BOOLEAN,
           SameScreen => (next <=> now),
           ObeysStop \/ ObeysConnect => (next <=> Msg \in M)
    PROVE  Settles(d2s', ScreenTypes, M, next) <=> Settles(d2s, ScreenTypes, M, now)
<1>1. CASE Idles
  BY <1>1 DEF Idles, Settles
<1>2. CASE ObeysStop \/ ObeysConnect
  <2>1. d2s # <<>> /\ d2s' = Tail(d2s) /\ Msg.type \in ScreenTypes
    BY <1>2 DEF ObeysStop, ObeysConnect, Obeys, ScreenTypes
  <2> QED
    BY <1>2, <2>1, ScreenHandled
<1>3. CASE ObeysPower \/ RefusesPower
  <2>1. d2s # <<>> /\ d2s' = Tail(d2s) /\ Msg.type \notin ScreenTypes /\ SameScreen
    BY <1>3 DEF ObeysPower, RefusesPower, Obeys, SameScreen, ScreenTypes, Stops
  <2> QED
    BY <2>1, ScreenHandled
<1> QED
  BY <1>1, <1>2, <1>3 DEF SessionUpStep

\* The session is about to report that its screen is not what it was told.
Slipped == Has(Events, {"console_exited", "session_error"})

LEMMA SlippedKept ==
    ASSUME TypeInv
    PROVE  /\ Events' = Events /\ Slipped => Slipped'
           /\ SessionUpStep /\ (Slipped \/ ReportsExit \/ RefusesConnect) => Slipped'
           /\ \A msgs : HandleUp(msgs) /\ Slipped =>
                Slipped' \/ Head(inbox).type \in {"console_exited", "session_error"}
<1>1. Events \in Seq(SessionMessage)
  BY EventsTyped
<1>2. \A q : Has(q, {"console_exited"}) \/ Has(q, {"session_error"}) <=>
               Has(q, {"console_exited", "session_error"})
  BY DEF Has
<1>3. SessionUpStep /\ (Slipped \/ ReportsExit \/ RefusesConnect) => Slipped'
  BY <1>2, SessionReports DEF Slipped
<1>4. ASSUME NEW msgs, HandleUp(msgs), Slipped
      PROVE  Slipped' \/ Head(inbox).type \in {"console_exited", "session_error"}
  BY <1>1, <1>4, HasTail DEF HandleUp, Slipped
<1> QED
  BY <1>3, <1>4 DEF Slipped

VmReasons == {"vm_stopped", "vm_not_running"}
WaitMessages == {m \in DaemonMessage : m.type \in Stops /\ m.arg \in VmReasons}

\* The screen will say that the daemon waits for the VM.
WaitShown == Settles(d2s, ScreenTypes, WaitMessages, sess.waiting_reason \in VmReasons)

SaysWaiting ==
    /\ Up /\ PlainStatus /\ Unspent(Degrading) /\ ~ctl.console_running
    /\ ctl.session_state \in Waiting \/ KnownOff
    => WaitShown \/ Slipped

LEMMA WaitingStep ==
    ASSUME Linked, [Next]_vars, FaultInv, FaultInv', GreetedOnce, PairingUnseen, SaysWaiting
    PROVE  SaysWaiting'
<1> SUFFICES ASSUME Up', PlainStatus, Unspent(Degrading)', ~ctl'.console_running,
                    ctl'.session_state \in Waiting \/ KnownOff'
             PROVE  WaitShown' \/ Slipped'
  BY DEF SaysWaiting, PlainStatus
<1>1. /\ conn = "up"
      /\ \/ \E msgs \in Seq(DaemonMessage) : HandleUp(msgs) \/ TickUp(msgs)
         \/ LoopStep \/ SessionUpStep
  BY UpStep
<1>2. /\ TypeInv /\ Events \in Seq(SessionMessage) /\ d2s \in Seq(DaemonMessage)
      /\ vm \in DisplayOn \union DisplayOff
  BY EventsTyped DEF Linked, TypeInv, TypeOK, GuestTypeOK, PlainStatus
<1>3. Unspent(Degrading) /\ ~Faulted(ctl) /\ ~Faulted(ctl)' /\ Unspent({"qm"})'
  BY UnspentBefore DEF Linked, FaultInv, Unspent, Degrading
<1>4. Up /\ ~ctl.console_running /\ (ctl.session_state \in Waiting \/ KnownOff) =>
        WaitShown \/ Slipped
  BY <1>3 DEF SaysWaiting
<1>5. \A w \in {DisconnectConsole("vm_not_running"), ShowWaiting("vm_stopped")} : w \in WaitMessages
  BY DEF WaitMessages, DisconnectConsole, ShowWaiting, DaemonMessage, WaitingReasons, Stops,
         VmReasons
<1>6. ASSUME NEW msgs \in Seq(DaemonMessage), d2s' = d2s \o msgs, UNCHANGED sess
      PROVE  /\ \A m \in WaitMessages : Screen(msgs, m) => WaitShown'
             /\ Silent(msgs) /\ WaitShown => WaitShown'
  <2>1. (sess.waiting_reason \in VmReasons) \in BOOLEAN
    OBVIOUS
  <2> QED
    BY <1>2, <1>6, <2>1, ScreenWritten DEF WaitShown
<1>7. Silent(<<>>)
  BY SingleMessages
<1>8. ASSUME NEW msgs \in Seq(DaemonMessage), HandleUp(msgs) PROVE WaitShown' \/ Slipped'
  <2>1. /\ Answers(ctl', moon', msgs) /\ UNCHANGED sess /\ d2s' = d2s \o msgs
        /\ Events # <<>> /\ Head(inbox) = Head(Events)
        /\ (Head(inbox).type # "session_ready" => Up) /\ Between
    BY <1>1, <1>8, Greeting DEF HandleUp, Between
  <2>2. CASE Greets(ctl', moon') /\ GreetsInformed(ctl', msgs)
    BY <1>5, <1>6, <2>1, <2>2 DEF Greets, GreetsInformed, KnownOff, Waiting
  <2>3. CASE Greets(ctl', moon') /\ (GreetsDegraded(ctl', msgs) \/ GreetsBlind(ctl', msgs))
    BY <1>3, <2>3 DEF GreetsDegraded, GreetsBlind
  <2>4. CASE NotesApplied(ctl', msgs)
    <3>1. Up /\ ~ctl.console_running /\ (ctl.session_state \in Waiting \/ KnownOff)
      BY <2>1, <2>4 DEF NotesApplied, KnownOff, Moved
    <3>2. Silent(msgs)
      BY <1>7, <2>4 DEF NotesApplied
    <3>3. Slipped => Slipped'
      BY <1>2, <1>8, <2>4, SlippedKept DEF NotesApplied
    <3> QED
      BY <1>4, <1>6, <2>1, <3>1, <3>2, <3>3
  <2>5. CASE NotesStarted(ctl', msgs) \/ NotesError(ctl', msgs)
    BY <1>3, <2>5 DEF NotesStarted, NotesError, Fallen, Faulted
  <2>6. CASE NotesExited(ctl', msgs)
    <3>1. CASE PairingPending(moon) /\ ctl'.session_state = "waiting_for_pairing"
      <4>1. Up /\ KnownOff
        BY <2>1, <2>6, <3>1 DEF NotesExited, KnownOff, Waiting
      <4>2. ~Has(Events, {"console_exited"})
        BY <1>3, <3>1, <4>1, HasFewer DEF PairingUnseen
      <4>3. Head(Events).type = "console_exited"
        BY <2>1, <2>6 DEF NotesExited
      <4> QED
        BY <1>2, <2>1, <4>2, <4>3, HasTail
    <3>2. CASE disp.vm_power_state \in DisplayOn /\ ctl'.session_state = "reconnecting_console"
      BY <2>6, <3>2 DEF NotesExited, KnownOff, Waiting
    <3>3. CASE Screen(msgs, ShowWaiting("vm_stopped"))
      BY <1>5, <1>6, <2>1, <3>3
    <3> QED
      BY <2>6, <3>1, <3>2, <3>3 DEF NotesExited
  <2> QED
    BY <2>1, <2>2, <2>3, <2>4, <2>5, <2>6 DEF Answers
<1>9. ASSUME NEW msgs \in Seq(DaemonMessage), TickUp(msgs) PROVE WaitShown' \/ Slipped'
  <2>1. /\ Takes(ctl', moon', msgs) /\ ctl.session_ready /\ Up /\ UNCHANGED sess
        /\ d2s' = d2s \o msgs /\ Events' = Events
    BY <1>1, <1>9 DEF TickUp, Up
  <2>2. ~PathFaulted(ctl', moon', msgs) /\ ~PathBlind(ctl', moon', msgs)
    BY <1>3 DEF PathFaulted, PathBlind
  <2>3. disp'.vm_power_state = vm /\ PathInformed(ctl', moon', msgs)
    BY <2>1, <2>2 DEF Takes, PathAlone
  <2>4. CASE PathOff(ctl', moon', msgs)
    <3>1. CASE \E w \in {DisconnectConsole("vm_not_running"), ShowWaiting("vm_stopped")} :
                 Screen(msgs, w)
      BY <1>5, <1>6, <2>1, <3>1
    <3>2. CASE Silent(msgs) /\ ~ctl.console_running /\ ctl.session_state \in Waiting
      <4>1. Slipped => Slipped'
        BY <1>2, <2>1, SlippedKept
      <4> QED
        BY <1>4, <1>6, <2>1, <3>2, <4>1
    <3> QED
      BY <2>4, <3>1, <3>2 DEF PathOff, Waiting
  <2>5. CASE PathTransitional(ctl', moon', msgs)
    BY <1>2, <2>5 DEF PathTransitional
  <2>6. CASE PathInvalid(ctl', moon', msgs) \/ PathRefused(ctl', moon', msgs)
    BY <2>6 DEF PathInvalid, PathRefused
  <2>7. CASE /\ vm \in DisplayOn
             /\ \/ PathShowing(ctl', moon', msgs) \/ PathBackoff(ctl', moon', msgs)
                \/ PathUnreachable(ctl', moon', msgs) \/ PathPairIssue(ctl', moon', msgs)
                \/ PathPairWait(ctl', moon', msgs) \/ PathLaunch(ctl', moon', msgs)
                \/ PathEndpoint(ctl', moon', msgs)
    BY <2>3, <2>7 DEF PathShowing, PathBackoff, PathUnreachable, PathPairIssue, PathPairWait,
                      PathLaunch, PathEndpoint, Moved, Waiting, KnownOff
  <2> QED
    BY <2>3, <2>4, <2>5, <2>6, <2>7 DEF PathInformed
<1>10. CASE LoopStep
  <2>1. UNCHANGED <<sess, d2s>> /\ Events' = Events /\ Up
    BY <1>1, <1>10 DEF LoopStep, Up
  <2>2. ~LosesInput /\ ~Fallen(ctl', ctl)
    BY <1>3 DEF LosesInput, Fallen, Faulted
  <2>3. Alike(ctl', ctl)
    BY <1>10, <2>2 DEF LoopStep, Rests, Presses
  <2>4. ~ctl.console_running /\ (ctl.session_state \in Waiting \/ KnownOff)
    BY <1>10, <2>2, <2>3, KnownOffKept DEF Alike
  <2> QED
    BY <1>4, <2>1, <2>4 DEF WaitShown, Slipped
<1>11. CASE SessionUpStep
  <2>1. UNCHANGED <<pc, ctl>>
    BY <1>11 DEF SessionUpStep, daemonVars
  <2>2. ~LosesInput /\ ~Fallen(ctl', ctl)
    BY <1>3, <2>1 DEF LosesInput, Fallen, Faulted
  <2>3. Up /\ ~ctl.console_running /\ (ctl.session_state \in Waiting \/ KnownOff)
    BY <1>1, <1>11, <2>1, <2>2, KnownOffKept DEF Up
  <2>4. ASSUME ~ReportsExit, ~RefusesConnect PROVE WaitShown' <=> WaitShown
    <3> DEFINE now == sess.waiting_reason \in VmReasons
               next == sess'.waiting_reason \in VmReasons
    <3>1. SameScreen => (next <=> now)
      BY DEF SameScreen
    <3>2. ASSUME ObeysStop \/ ObeysConnect PROVE next <=> Msg \in WaitMessages
      <4>1. d2s # <<>>
        BY <3>2 DEF ObeysStop, ObeysConnect, Obeys
      <4>2. Msg \in DaemonMessage
        BY <1>2, <4>1 DEF Msg
      <4> QED
        BY <3>2, <4>2 DEF ObeysStop, ObeysConnect, Obeys, WaitMessages, VmReasons, Stops
    <3>3. now \in BOOLEAN /\ next \in BOOLEAN
      OBVIOUS
    <3> HIDE DEF now, next
    <3>4. Settles(d2s', ScreenTypes, WaitMessages, next) <=>
            Settles(d2s, ScreenTypes, WaitMessages, now)
      BY <1>2, <1>11, <2>4, <3>1, <3>2, <3>3, SessionScreen
    <3> QED
      BY <3>4 DEF WaitShown, now, next
  <2> QED
    BY <1>2, <1>4, <1>11, <2>3, <2>4, SlippedKept
<1> QED
  BY <1>1, <1>8, <1>9, <1>10, <1>11
-----------------------------------------------------------------------------
(* A stream on the screen is one for a host that was found paired.          *)

ViewerMessages == {m \in DaemonMessage : m.type = "connect_console"}
StreamMessages == {m \in DaemonMessage : m.type = "connect_console" /\ m.arg = "stream"}

\* The screen will have a viewer, or a stream.
ViewerShown == Settles(d2s, ScreenTypes, ViewerMessages, sess.console # "none")
StreamShown == Settles(d2s, ScreenTypes, StreamMessages, sess.console = "stream")

\* What keeps the pairing known.
Undisturbed == PlainStatus /\ ~PressFailed /\ Unspent({"read"})

\* A daemon that knows of no console, and has a reason for none, has told so.
ShowsNothing ==
    /\ Up /\ Undisturbed /\ ~ctl.console_running
    /\ ctl.session_state \in Waiting \/ ctl.degraded_reason # "none" \/ KnownOff
    => ~ViewerShown \/ Slipped

StreamsPaired ==
    Up /\ Undisturbed /\ Backend = "moonlight" /\ StreamShown =>
      moon.pair_state = "paired" \/ Slipped

\* What is written about the screen decides both.
LEMMA ViewerWritten ==
    ASSUME TypeInv, NEW msgs \in Seq(DaemonMessage), d2s' = d2s \o msgs, UNCHANGED sess
    PROVE  /\ \A m : Screen(msgs, m) /\ m.type \in Stops => ~ViewerShown' /\ ~StreamShown'
           /\ \A pin : Screen(msgs, ConnectPair(pin)) => ~StreamShown'
           /\ Silent(msgs) => (ViewerShown' <=> ViewerShown) /\ (StreamShown' <=> StreamShown)
<1>1. (sess.console # "none") \in BOOLEAN /\ (sess.console = "stream") \in BOOLEAN
  OBVIOUS
<1>2. \A m : m.type \in Stops => m \notin ViewerMessages /\ m \notin StreamMessages
  BY DEF Stops, ViewerMessages, StreamMessages
<1>3. \A pin : ConnectPair(pin) \notin StreamMessages
  BY DEF ConnectPair, StreamMessages
<1>4. ASSUME NEW m, Screen(msgs, m)
      PROVE  (ViewerShown' <=> m \in ViewerMessages) /\ (StreamShown' <=> m \in StreamMessages)
  BY <1>1, <1>4, ScreenWritten DEF ViewerShown, StreamShown
<1>5. ASSUME Silent(msgs)
      PROVE  (ViewerShown' <=> ViewerShown) /\ (StreamShown' <=> StreamShown)
  BY <1>1, <1>5, ScreenWritten DEF ViewerShown, StreamShown
<1> QED
  BY <1>2, <1>3, <1>4, <1>5

\* A handled message makes true what it stands for.
LEMMA ViewerHandled ==
    ASSUME TypeInv, SessionUpStep, ~ReportsExit, ~RefusesConnect
    PROVE  (ViewerShown' <=> ViewerShown) /\ (StreamShown' <=> StreamShown)
<1> DEFINE vnow == sess.console # "none"
           vnext == sess'.console # "none"
           snow == sess.console = "stream"
           snext == sess'.console = "stream"
<1>1. SameScreen => (vnext <=> vnow) /\ (snext <=> snow)
  BY DEF SameScreen
<1>2. ASSUME ObeysStop \/ ObeysConnect
      PROVE  (vnext <=> Msg \in ViewerMessages) /\ (snext <=> Msg \in StreamMessages)
  <2>1. d2s # <<>> /\ d2s \in Seq(DaemonMessage)
    BY <1>2, EventsTyped DEF ObeysStop, ObeysConnect, Obeys
  <2>2. Msg \in DaemonMessage
    BY <2>1 DEF Msg
  <2>3. CASE ObeysStop
    BY <2>3 DEF ObeysStop, Obeys, Stops, ViewerMessages, StreamMessages
  <2>4. CASE ObeysConnect
    <3>1. Msg.type = "connect_console" /\ sess'.console = Msg.arg
      BY <2>4 DEF ObeysConnect, Obeys
    <3>2. Msg.arg \in ConsoleKinds
      BY <2>2, <3>1 DEF DaemonMessage
    <3> QED
      BY <2>2, <3>1, <3>2 DEF ConsoleKinds, ViewerMessages, StreamMessages
  <2> QED
    BY <1>2, <2>3, <2>4
<1>3. vnow \in BOOLEAN /\ vnext \in BOOLEAN /\ snow \in BOOLEAN /\ snext \in BOOLEAN
  OBVIOUS
<1> HIDE DEF vnow, vnext, snow, snext
<1>4. Settles(d2s', ScreenTypes, ViewerMessages, vnext) <=>
        Settles(d2s, ScreenTypes, ViewerMessages, vnow)
  BY <1>1, <1>2, <1>3, SessionScreen
<1>5. Settles(d2s', ScreenTypes, StreamMessages, snext) <=>
        Settles(d2s, ScreenTypes, StreamMessages, snow)
  BY <1>1, <1>2, <1>3, SessionScreen
<1> QED
  BY <1>4, <1>5 DEF ViewerShown, StreamShown, vnow, vnext, snow, snext

LEMMA UndisturbedBefore ==
    ASSUME Linked, [Next]_vars, Undisturbed'
    PROVE  /\ Undisturbed /\ vm \in DisplayOn \union DisplayOff
           /\ ~LosesInput /\ (~Unspent({"qm"})' => Unspent({"press"}))
           /\ Presses => Alike(ctl', ctl)
<1>1. Undisturbed
  BY UnspentBefore DEF Linked, Undisturbed, PlainStatus
<1>2. vm \in DisplayOn \union DisplayOff
  BY <1>1 DEF Undisturbed, PlainStatus, Linked, TypeInv, TypeOK, GuestTypeOK
<1>3. ~LosesInput /\ (~Unspent({"qm"})' => Unspent({"press"}))
  BY UnspentBefore DEF Linked, Undisturbed, PressFailed, LosesInput
<1>4. Presses => Alike(ctl', ctl)
  BY DEF Presses, Undisturbed
<1> QED
  BY <1>1, <1>2, <1>3, <1>4

LEMMA NothingStep ==
    ASSUME Linked, [Next]_vars, GreetedOnce, ShowsNothing
    PROVE  ShowsNothing'
<1> DEFINE Premise == /\ ~ctl.console_running
                      /\ ctl.session_state \in Waiting \/ ctl.degraded_reason # "none" \/ KnownOff
<1> SUFFICES ASSUME Up', Undisturbed', Premise' PROVE ~ViewerShown' \/ Slipped'
  BY DEF ShowsNothing
<1>1. /\ conn = "up"
      /\ \/ \E msgs \in Seq(DaemonMessage) : HandleUp(msgs) \/ TickUp(msgs)
         \/ LoopStep \/ SessionUpStep
  BY UpStep
<1>2. /\ TypeInv /\ SafetyInv /\ Undisturbed /\ vm \in DisplayOn \union DisplayOff
      /\ ~LosesInput /\ (~Unspent({"qm"})' => Unspent({"press"}))
  BY UndisturbedBefore DEF Linked
<1>3. Up /\ Premise => ~ViewerShown \/ Slipped
  BY <1>2 DEF ShowsNothing
<1>4. ASSUME NEW msgs \in Seq(DaemonMessage), d2s' = d2s \o msgs, UNCHANGED sess
      PROVE  /\ \A m : Screen(msgs, m) /\ m.type \in Stops => ~ViewerShown'
             /\ Silent(msgs) => (ViewerShown' <=> ViewerShown)
  BY <1>2, <1>4, ViewerWritten
<1>5. Silent(<<>>)
  BY SingleMessages
<1>6. ASSUME NEW msgs \in Seq(DaemonMessage), HandleUp(msgs)
      PROVE  ~ViewerShown' \/ Slipped'
  <2>1. /\ Answers(ctl', moon', msgs) /\ UNCHANGED sess /\ d2s' = d2s \o msgs
        /\ (Head(inbox).type # "session_ready" => Up) /\ Between
    BY <1>1, <1>6, Greeting DEF HandleUp, Between
  <2>2. CASE Greets(ctl', moon') \/ NotesExited(ctl', msgs) \/ NotesError(ctl', msgs)
    <3>1. \E m : Screen(msgs, m) /\ m.type \in Stops
      BY <2>1, <2>2, MessageTypes
         DEF Answers, Greets, GreetsDegraded, GreetsBlind, GreetsInformed, NotesStarted,
             NotesApplied, NotesExited, NotesError
    <3> QED
      BY <1>4, <2>1, <3>1
  <2>3. CASE NotesStarted(ctl', msgs)
    BY <2>3 DEF NotesStarted
  <2>4. CASE NotesApplied(ctl', msgs)
    <3>1. Up /\ Premise /\ Silent(msgs)
      BY <1>5, <2>1, <2>4 DEF NotesApplied, KnownOff, Moved
    <3>2. Slipped => Slipped'
      BY <1>2, <1>6, <2>4, SlippedKept DEF NotesApplied
    <3> QED
      BY <1>3, <1>4, <2>1, <3>1, <3>2
  <2> QED
    BY <2>1, <2>2, <2>3, <2>4 DEF Answers
<1>7. ASSUME NEW msgs \in Seq(DaemonMessage), TickUp(msgs)
      PROVE  ~ViewerShown' \/ Slipped'
  <2>1. /\ Takes(ctl', moon', msgs) /\ ctl.session_ready /\ Up /\ UNCHANGED sess
        /\ d2s' = d2s \o msgs /\ Events' = Events
    BY <1>1, <1>7 DEF TickUp, Up
  <2>2. Slipped => Slipped'
    BY <1>2, <2>1, SlippedKept
  <2>3. ASSUME Premise, Silent(msgs) PROVE ~ViewerShown' \/ Slipped'
    BY <1>3, <1>4, <2>1, <2>2, <2>3
  <2>4. CASE PathFaulted(ctl', moon', msgs)
    <3>1. Premise
      BY <2>4 DEF PathFaulted, Faulted, KnownOff, Between
    <3> QED
      BY <1>5, <2>3, <2>4, <3>1 DEF PathFaulted
  <2>5. CASE PathBlind(ctl', moon', msgs)
    <3>1. CASE Fallen(ctl', ctl) /\ Screen(msgs, ShowWaiting("degraded"))
      BY <1>4, <2>1, <3>1, MessageTypes
    <3>2. CASE Alike(ctl', ctl) /\ Silent(msgs)
      <4>1. Between
        BY <1>2, <2>5, BetweenKept DEF PathBlind
      <4>2. Premise
        BY <2>5, <3>2, <4>1 DEF PathBlind, Alike, KnownOff
      <4> QED
        BY <2>3, <3>2, <4>2
    <3> QED
      BY <2>5, <3>1, <3>2 DEF PathBlind, FailsFrom
  <2>6. CASE PathOff(ctl', moon', msgs)
    BY <1>4, <2>1, <2>3, <2>6, MessageTypes DEF PathOff, Waiting
  <2>7. CASE PathTransitional(ctl', moon', msgs)
    BY <1>2, <2>7 DEF PathTransitional
  <2>8. CASE PathInvalid(ctl', moon', msgs)
    BY <1>4, <2>1, <2>8, MessageTypes DEF PathInvalid
  <2>9. CASE /\ vm \in DisplayOn /\ disp'.vm_power_state = vm
             /\ \/ PathShowing(ctl', moon', msgs) \/ PathBackoff(ctl', moon', msgs)
                \/ PathUnreachable(ctl', moon', msgs) \/ PathPairIssue(ctl', moon', msgs)
                \/ PathPairWait(ctl', moon', msgs) \/ PathLaunch(ctl', moon', msgs)
                \/ PathEndpoint(ctl', moon', msgs)
    BY <2>9 DEF PathShowing, PathBackoff, PathUnreachable, PathPairIssue, PathPairWait,
                PathLaunch, PathEndpoint, Moved, Waiting, KnownOff
  <2>10. CASE vm \in DisplayOn /\ disp'.vm_power_state = vm /\ PathRefused(ctl', moon', msgs)
    BY <1>4, <2>1, <2>10, MessageTypes
       DEF PathRefused, FailsFrom, Fallen, Alike, Moved, Waiting, KnownOff
  <2> QED
    BY <2>1, <2>4, <2>5, <2>6, <2>7, <2>8, <2>9, <2>10 DEF Takes, PathAlone, PathInformed
<1>8. CASE LoopStep
  <2>1. UNCHANGED <<sess, d2s>> /\ Events' = Events /\ Up /\ Alike(ctl', ctl)
    BY <1>1, <1>2, <1>8, UndisturbedBefore DEF LoopStep, Up, Rests
  <2>2. ~KnownOff' \/ KnownOff \/ ctl'.degraded_reason # "none"
    BY <1>2, <1>8, KnownOffKept DEF Fallen
  <2> QED
    BY <1>3, <2>1, <2>2 DEF Alike, ViewerShown, Slipped
<1>9. CASE SessionUpStep
  <2>1. UNCHANGED <<pc, ctl, disp>> /\ Up
    BY <1>1, <1>9 DEF SessionUpStep, daemonVars, Up
  <2>2. Premise
    BY <1>9, <2>1, BetweenKept DEF KnownOff
  <2> QED
    BY <1>2, <1>3, <1>9, <2>1, <2>2, ViewerHandled, SlippedKept
<1> QED
  BY <1>1, <1>6, <1>7, <1>8, <1>9

LEMMA StreamStep ==
    ASSUME Linked, [Next]_vars, GreetedOnce, ShowsNothing, StreamsPaired
    PROVE  StreamsPaired'
<1> SUFFICES ASSUME Up', Undisturbed', Backend = "moonlight", StreamShown'
             PROVE  moon'.pair_state = "paired" \/ Slipped'
  BY DEF StreamsPaired
<1>1. /\ conn = "up"
      /\ \/ \E msgs \in Seq(DaemonMessage) : HandleUp(msgs) \/ TickUp(msgs)
         \/ LoopStep \/ SessionUpStep
  BY UpStep
<1>2. /\ TypeInv /\ Undisturbed /\ vm \in DisplayOn \union DisplayOff /\ ~LosesInput
  BY UndisturbedBefore DEF Linked
<1>3. Up /\ StreamShown => moon.pair_state = "paired" \/ Slipped
  BY <1>2 DEF StreamsPaired
<1>4. ASSUME NEW msgs \in Seq(DaemonMessage), d2s' = d2s \o msgs, UNCHANGED sess
      PROVE  /\ \A m : ~(Screen(msgs, m) /\ m.type \in Stops)
             /\ \A pin : ~Screen(msgs, ConnectPair(pin))
             /\ Silent(msgs) => StreamShown
  BY <1>2, <1>4, ViewerWritten
<1>5. Silent(<<>>)
  BY SingleMessages
<1>6. StreamShown => ViewerShown
  BY DEF StreamShown, ViewerShown, Settles, LastIn, StreamMessages, ViewerMessages
<1>7. ASSUME NEW msgs \in Seq(DaemonMessage), HandleUp(msgs)
      PROVE  moon'.pair_state = "paired" \/ Slipped'
  <2>1. /\ Answers(ctl', moon', msgs) /\ UNCHANGED sess /\ d2s' = d2s \o msgs
        /\ (Head(inbox).type # "session_ready" => Up)
    BY <1>1, <1>7, Greeting DEF HandleUp
  <2>2. ~Greets(ctl', moon') /\ ~NotesExited(ctl', msgs) /\ ~NotesError(ctl', msgs)
    BY <1>4, <2>1, MessageTypes
       DEF Answers, Greets, GreetsDegraded, GreetsBlind, GreetsInformed, NotesStarted,
           NotesApplied, NotesExited, NotesError
  <2>3. /\ moon' = moon /\ Silent(msgs) /\ Up
        /\ Head(inbox).type \in {"console_started", "display_power_applied"}
    BY <1>5, <2>1, <2>2 DEF Answers, NotesStarted, NotesApplied
  <2>4. Slipped => Slipped'
    BY <1>2, <1>7, <2>3, SlippedKept
  <2> QED
    BY <1>3, <1>4, <2>1, <2>3, <2>4
<1>8. ASSUME NEW msgs \in Seq(DaemonMessage), TickUp(msgs)
      PROVE  moon'.pair_state = "paired" \/ Slipped'
  <2>1. /\ Takes(ctl', moon', msgs) /\ ctl.session_ready /\ Up /\ UNCHANGED sess
        /\ d2s' = d2s \o msgs /\ Events' = Events
    BY <1>1, <1>8 DEF TickUp, Up
  <2>2. Slipped => Slipped'
    BY <1>2, <2>1, SlippedKept
  <2>3. ASSUME moon' = moon, Silent(msgs) PROVE moon'.pair_state = "paired" \/ Slipped'
    BY <1>3, <1>4, <2>1, <2>2, <2>3
  <2>4. CASE PathFaulted(ctl', moon', msgs) \/ PathBlind(ctl', moon', msgs)
    BY <1>4, <1>5, <2>1, <2>3, <2>4, MessageTypes DEF PathFaulted, PathBlind, FailsFrom
  <2>5. CASE PathOff(ctl', moon', msgs)
    <3>1. Silent(msgs) /\ ~ctl.console_running /\ ctl.session_state \in Waiting
      BY <1>4, <2>1, <2>5, MessageTypes DEF PathOff, Waiting
    <3>2. StreamShown
      BY <1>4, <2>1, <3>1
    <3>3. Slipped
      BY <1>2, <1>6, <2>1, <3>1, <3>2 DEF ShowsNothing
    <3> QED
      BY <2>2, <3>3
  <2>6. CASE PathTransitional(ctl', moon', msgs)
    BY <1>2, <2>6 DEF PathTransitional
  <2>7. CASE PathShowing(ctl', moon', msgs) \/ PathBackoff(ctl', moon', msgs)
             \/ PathPairWait(ctl', moon', msgs)
    BY <1>4, <2>1, <2>3, <2>7, MessageTypes DEF PathShowing, PathBackoff, PathPairWait
  <2>8. CASE PathUnreachable(ctl', moon', msgs) \/ PathPairIssue(ctl', moon', msgs)
             \/ PathEndpoint(ctl', moon', msgs) \/ PathInvalid(ctl', moon', msgs)
             \/ PathRefused(ctl', moon', msgs)
    BY <1>4, <2>1, <2>8, MessageTypes DEF PathUnreachable, PathPairIssue, PathEndpoint,
                                          PathInvalid, PathRefused
  <2>9. CASE PathLaunch(ctl', moon', msgs)
    BY <2>9 DEF PathLaunch
  <2> QED
    BY <2>1, <2>4, <2>5, <2>6, <2>7, <2>8, <2>9 DEF Takes, PathAlone, PathInformed
<1>9. CASE LoopStep
  <2>1. /\ UNCHANGED <<sess, d2s>> /\ Events' = Events /\ Up
        /\ moon'.pair_state = moon.pair_state
    BY <1>1, <1>2, <1>9 DEF LoopStep, Up, Rests, Presses, SamePairing
  <2> QED
    BY <1>3, <2>1 DEF StreamShown, Slipped
<1>10. CASE SessionUpStep
  <2>1. moon' = moon /\ Up
    BY <1>1, <1>10 DEF SessionUpStep, daemonVars, Up
  <2> QED
    BY <1>2, <1>3, <1>10, <2>1, ViewerHandled, SlippedKept
<1> QED
  BY <1>1, <1>7, <1>8, <1>9, <1>10
-----------------------------------------------------------------------------
(* The PIN on the screen is the one that will be accepted.                  *)

PinMessages(pin) == {m \in DaemonMessage : m.pin = pin}

\* The screen will show this PIN.
PinComes(pin) == Settles(d2s, ScreenTypes, PinMessages(pin), sess.pin = pin)

\* The pairing was shown on this connection, or a viewer was: while the daemon
\* waits for its approval, or has heard or will hear of a started viewer.
PairingSeen ==
    \/ ctl.session_state = "waiting_for_pairing" \/ ctl.console_running
    \/ Has(d2s, {"connect_console"}) \/ Has(Events, {"console_started"})

PinKept ==
    Up /\ Unspent({"qm", "launch"}) /\ PairingPending(moon) /\ PairingSeen =>
      PinComes(moon.pin) \/ Has(Events, {"console_exited"})

LEMMA PinStep ==
    ASSUME Linked, Linked', [Next]_vars, FaultInv, FaultInv', PairInv, GreetedOnce, PinKept
    PROVE  PinKept'
<1> DEFINE X == {"console_exited"}
           S == {"console_started"}
           C == {"connect_console"}
<1> SUFFICES ASSUME Up', Unspent({"qm", "launch"})', PairingPending(moon)', PairingSeen'
             PROVE  PinComes(moon.pin)' \/ Has(Events', X)
  BY DEF PinKept
<1>1. /\ conn = "up"
      /\ \/ \E msgs \in Seq(DaemonMessage) : HandleUp(msgs) \/ TickUp(msgs)
         \/ LoopStep \/ SessionUpStep
  BY UpStep
<1>2. /\ TypeInv /\ Events \in Seq(SessionMessage) /\ d2s \in Seq(DaemonMessage)
      /\ moon.pin \in Pins \union {NoPin} /\ moon'.pin \in Pins \union {NoPin}
  BY EventsTyped DEF Linked, TypeInv, TypeOK, DaemonTypeOK, MoonType
<1>3. /\ Unspent({"qm", "launch"}) /\ ~Faulted(ctl)' /\ Unspent({"qm"})' /\ Unspent({"launch"})'
  BY UnspentBefore DEF Linked, FaultInv, Unspent
<1>4. Up /\ PairingPending(moon) /\ PairingSeen => PinComes(moon.pin) \/ Has(Events, X)
  BY <1>3 DEF PinKept
<1>5. \A pin \in Pins \union {NoPin} :
        ShowPairing(pin) \in PinMessages(pin) /\ ConnectPair(pin) \in PinMessages(pin)
  BY DEF PinMessages, ShowPairing, ConnectPair, DaemonMessage, WaitingReasons, ConsoleKinds
<1>6. ASSUME NEW msgs \in Seq(DaemonMessage), d2s' = d2s \o msgs, UNCHANGED sess,
             moon'.pin = moon.pin
      PROVE  /\ Screen(msgs, ShowPairing(moon.pin)) => PinComes(moon.pin)'
             /\ Silent(msgs) /\ PinComes(moon.pin) => PinComes(moon.pin)'
             /\ Silent(msgs) /\ Has(d2s', C) => Has(d2s, C)
  <2>1. (sess.pin = moon.pin) \in BOOLEAN
    OBVIOUS
  <2> QED
    BY <1>2, <1>5, <1>6, <2>1, ScreenWritten DEF PinComes
<1>7. Silent(<<>>)
  BY SingleMessages
<1>8. ~PairingPending(Unpaired) /\ \A m : m.pair_state = "paired" => ~PairingPending(m)
  BY DEF PairingPending, Unpaired, MoonInit
<1>9. ASSUME NEW msgs \in Seq(DaemonMessage), HandleUp(msgs)
      PROVE  PinComes(moon.pin)' \/ Has(Events', X)
  <2>1. /\ Answers(ctl', moon', msgs) /\ UNCHANGED sess /\ d2s' = d2s \o msgs
        /\ Events # <<>> /\ Events' = Tail(Events) /\ Head(inbox) = Head(Events)
        /\ (Head(inbox).type # "session_ready" => Up)
    BY <1>1, <1>9, Greeting DEF HandleUp
  <2>2. moon'.pin = moon.pin /\ PairingPending(moon)
    BY <2>1 DEF Answers, Greets, PairingPending
  <2>3. /\ Has(Events, X) <=> Head(Events).type \in X \/ Has(Events', X)
        /\ Has(Events, S) <=> Head(Events).type \in S \/ Has(Events', S)
    BY <1>2, <2>1, HasTail
  <2>4. CASE Greets(ctl', moon')
    <3>1. ~Has(d2s, Acts) /\ ~Has(Events', S) /\ ~ctl'.console_running
      BY <1>1, <1>9, <2>4, Greeting DEF Greets
    <3>2. \E m : Screen(msgs, m) /\ m.type \in Stops
      BY <2>1, <2>4, MessageTypes
         DEF Answers, Greets, GreetsDegraded, GreetsBlind, GreetsInformed, NotesStarted,
             NotesApplied, NotesExited, NotesError
    <3>3. ~Has(msgs, C)
      BY <3>2 DEF Screen, Stops
    <3>4. ~Has(d2s, C)
      BY <3>1, HasFewer DEF Acts
    <3>5. ~Has(d2s', C)
      BY <1>2, <2>1, <3>3, <3>4, HasConcat
    <3>6. ctl'.session_state = "waiting_for_pairing"
      BY <3>1, <3>5 DEF PairingSeen
    <3>7. Screen(msgs, ShowPairing(moon.pin))
      BY <1>3, <2>1, <2>4, <3>6
         DEF Answers, Greets, GreetsDegraded, GreetsBlind, GreetsInformed, WaitingState,
             NotesStarted, NotesApplied, NotesExited, NotesError
    <3> QED
      BY <1>6, <2>1, <2>2, <3>7
  <2>5. CASE NotesStarted(ctl', msgs)
    <3>1. Up /\ PairingSeen /\ Silent(msgs) /\ Head(Events).type = "console_started"
      BY <1>7, <2>1, <2>3, <2>5 DEF NotesStarted, PairingSeen
    <3> QED
      BY <1>4, <1>6, <2>1, <2>2, <2>3, <3>1
  <2>6. CASE NotesApplied(ctl', msgs)
    <3>1. Up /\ Silent(msgs) /\ Head(Events).type = "display_power_applied"
      BY <1>7, <2>1, <2>6 DEF NotesApplied
    <3>2. /\ ctl'.session_state = "waiting_for_pairing" => ctl.session_state = ctl'.session_state
          /\ ctl'.console_running = ctl.console_running
      BY <2>6 DEF NotesApplied, Moved, WaitingState
    <3>3. Has(d2s', C) => Has(d2s, C)
      BY <1>6, <2>1, <2>2, <3>1
    <3>4. PairingSeen
      BY <2>3, <3>2, <3>3 DEF PairingSeen
    <3> QED
      BY <1>4, <1>6, <2>1, <2>2, <2>3, <3>1, <3>4
  <2>7. CASE NotesExited(ctl', msgs)
    BY <1>6, <2>1, <2>2, <2>7 DEF NotesExited
  <2>8. CASE NotesError(ctl', msgs)
    BY <1>3, <2>8 DEF NotesError, Fallen, Faulted
  <2> QED
    BY <2>1, <2>4, <2>5, <2>6, <2>7, <2>8 DEF Answers
<1>10. ASSUME NEW msgs \in Seq(DaemonMessage), TickUp(msgs)
       PROVE  PinComes(moon.pin)' \/ Has(Events', X)
  <2>1. /\ Takes(ctl', moon', msgs) /\ ctl.session_ready /\ Up /\ UNCHANGED sess
        /\ d2s' = d2s \o msgs /\ Events' = Events
    BY <1>1, <1>10 DEF TickUp, Up
  <2>2. ~PathFaulted(ctl', moon', msgs) /\ ~PathBlind(ctl', moon', msgs)
    BY <1>3 DEF PathFaulted, PathBlind
  <2>3. ~PathOff(ctl', moon', msgs) /\ ~PathTransitional(ctl', moon', msgs)
        /\ ~PathUnreachable(ctl', moon', msgs) /\ ~PathShowing(ctl', moon', msgs)
    BY <1>8 DEF PathOff, PathTransitional, PathUnreachable, PathShowing
  <2>4. ~PathBackoff(ctl', moon', msgs) /\ ~PathEndpoint(ctl', moon', msgs)
    BY DEF PathBackoff, PathEndpoint, PairInv, None
  <2>5. ~PathLaunch(ctl', moon', msgs) /\ ~PathInvalid(ctl', moon', msgs)
        /\ ~PathRefused(ctl', moon', msgs)
    BY <1>8 DEF PathLaunch, PathInvalid, PathRefused, PairInv
  <2>6. CASE PathPairIssue(ctl', moon', msgs)
    <3>1. Screen(msgs, ConnectPair(moon'.pin)) /\ (sess.pin = moon'.pin) \in BOOLEAN
      BY <2>6 DEF PathPairIssue
    <3>2. Settles(d2s', ScreenTypes, PinMessages(moon'.pin), sess.pin = moon'.pin)
      BY <1>2, <1>5, <2>1, <3>1, ScreenWritten
    <3> QED
      BY <2>1, <3>2 DEF PinComes, PinMessages
  <2>7. CASE PathPairWait(ctl', moon', msgs)
    <3>1. moon' = moon /\ PairingPending(moon)
      BY <2>7 DEF PathPairWait
    <3>2. CASE ctl.session_state = "waiting_for_pairing" /\ Silent(msgs)
      BY <1>4, <1>6, <2>1, <3>1, <3>2 DEF PairingSeen
    <3>3. CASE Screen(msgs, ShowPairing(moon.pin))
      BY <1>6, <2>1, <3>1, <3>3
    <3> QED
      BY <2>7, <3>2, <3>3 DEF PathPairWait
  <2> QED
    BY <2>1, <2>2, <2>3, <2>4, <2>5, <2>6, <2>7 DEF Takes, PathAlone, PathInformed
<1>11. CASE LoopStep
  <2>1. /\ UNCHANGED <<sess, d2s>> /\ Events' = Events /\ Up /\ ~LosesInput
        /\ moon'.pin = moon.pin /\ PairingPending(moon)
    BY <1>1, <1>8, <1>11 DEF LoopStep, Up, Rests, LosesInput, Presses, SamePairing, PairingPending
  <2>2. PairingSeen
    BY <1>11, <2>1 DEF LoopStep, Rests, Presses, Alike, Fallen, PairingSeen
  <2> QED
    BY <1>4, <2>1, <2>2 DEF PinComes, PinMessages
<1>12. CASE SessionUpStep
  <2>1. UNCHANGED <<ctl, moon>> /\ Up /\ PairingPending(moon) /\ moon'.pin = moon.pin
    BY <1>1, <1>12 DEF SessionUpStep, daemonVars, Up
  <2>2. /\ ReportsExit => Has(Events', X)
        /\ Has(Events, X) => Has(Events', X)
        /\ Has(Events', S) => Has(Events, S) \/ ObeysConnect
    BY <1>2, <1>12, SessionReports
  <2>3. ~RefusesConnect
    BY <1>3 DEF RefusesConnect
  <2>4. Has(d2s', C) \/ ObeysConnect => Has(d2s, C)
    <3>1. \/ d2s' = d2s /\ ~ObeysConnect
          \/ d2s # <<>> /\ d2s' = Tail(d2s)
      BY <1>12, <2>3 DEF SessionUpStep, Idles, ReportsExit, ObeysStop, ObeysConnect, ObeysPower,
                         RefusesPower, Obeys
    <3>2. ObeysConnect => Head(d2s).type \in C
      BY DEF ObeysConnect, Obeys, Msg
    <3>3. d2s # <<>> => (Has(d2s, C) <=> Head(d2s).type \in C \/ Has(Tail(d2s), C))
      BY <1>2, HasTail
    <3> HIDE DEF C
    <3> QED
      BY <3>1, <3>2, <3>3, Zenon
  <2>5. PairingSeen
    BY <2>1, <2>2, <2>4 DEF PairingSeen
  <2>6. ASSUME ~ReportsExit PROVE PinComes(moon.pin)' <=> PinComes(moon.pin)
    <3> DEFINE now == sess.pin = moon.pin
               next == sess'.pin = moon.pin
    <3>1. SameScreen => (next <=> now)
      BY DEF SameScreen
    <3>2. ASSUME ObeysStop \/ ObeysConnect PROVE next <=> Msg \in PinMessages(moon.pin)
      <4>1. d2s # <<>>
        BY <3>2 DEF ObeysStop, ObeysConnect, Obeys
      <4>2. Msg \in DaemonMessage
        BY <1>2, <4>1 DEF Msg
      <4> QED
        BY <3>2, <4>2 DEF ObeysStop, ObeysConnect, PinMessages
    <3>3. now \in BOOLEAN /\ next \in BOOLEAN
      OBVIOUS
    <3> HIDE DEF now, next
    <3>4. Settles(d2s', ScreenTypes, PinMessages(moon.pin), next) <=>
            Settles(d2s, ScreenTypes, PinMessages(moon.pin), now)
      BY <1>2, <1>12, <2>3, <2>6, <3>1, <3>2, <3>3, SessionScreen
    <3> QED
      BY <2>1, <3>4 DEF PinComes, PinMessages, now, next
  <2> QED
    BY <1>4, <2>1, <2>2, <2>5, <2>6
<1> QED
  BY <1>1, <1>9, <1>10, <1>11, <1>12

-----------------------------------------------------------------------------
\* The conjunction is inductive.
ScreenInv ==
    /\ RelayInv /\ FaultInv /\ KillInv
    /\ GreetedOnce /\ WaitsAlone /\ SleepsOff
    /\ PairingUnseen /\ SaysWaiting
    /\ ShowsNothing /\ StreamsPaired
    /\ PinKept

LEMMA ScreenInit == Init => ScreenInv
<1> SUFFICES ASSUME Init PROVE ScreenInv
  OBVIOUS
<1>1. /\ conn = "none" /\ pend = <<>> /\ s2d = <<>> /\ client = "closed" /\ inbox = <<>>
      /\ ctl = CtlInit /\ disp = DispInit /\ moon = MoonInit
  BY DEF Init, SocketInit, DaemonInit
<1>2. Linked /\ ~Up /\ DOMAIN pend = {}
  BY <1>1, LinkInit DEF Up
<1>3. ~PairingPending(moon) /\ ~Faulted(ctl)
  BY <1>1 DEF PairingPending, MoonInit, Faulted, CtlInit
<1>4. RelayInv
  BY <1>1, <1>2, <1>3 DEF RelayInv, IntentInv, OrphanInv, PairInv
<1>5. FaultInv
  BY <1>1, <1>3, HasSmall DEF FaultInv
<1>6. Events = <<>>
  BY <1>1 DEF Events
<1>7. ~AppliedOff
  BY <1>1, <1>6, HasSmall, LastSmall DEF AppliedOff, Settles, DispInit
<1>8. KillInv
  BY <1>1, <1>2, <1>7 DEF KillInv, LeftAlone, Unbroken, Follows, ReportedOff, DispInit
<1> QED
  BY <1>2, <1>4, <1>5, <1>8
     DEF ScreenInv, GreetedOnce, WaitsAlone, SleepsOff, PairingUnseen, SaysWaiting,
         ShowsNothing, StreamsPaired, PinKept

LEMMA Screens == Spec => []ScreenInv
<1>1. ScreenInv /\ [Next]_vars => ScreenInv'
  <2> SUFFICES ASSUME ScreenInv, [Next]_vars PROVE ScreenInv'
    OBVIOUS
  <2>1. /\ RelayInv /\ Linked /\ TypeInv /\ BudgetInv /\ PairInv /\ FaultInv /\ KillInv
        /\ GreetedOnce
    BY DEF ScreenInv, RelayInv, Linked
  <2>2. Linked'
    BY <2>1, LinkStep
  <2>3. IntentInv' /\ OrphanInv' /\ PairInv'
    BY <2>1, <2>2, IntentStep, OrphanStep, PairStep DEF RelayInv
  <2>4. FaultInv' /\ KillInv'
    BY <2>1, FaultStep, KillStep
  <2>5. GreetedOnce' /\ WaitsAlone' /\ SleepsOff'
    BY <2>1, GreetedStep, WaitsStep, SleepsStep DEF ScreenInv
  <2>6. PairingUnseen' /\ SaysWaiting'
    BY <2>1, <2>4, UnseenStep, WaitingStep DEF ScreenInv
  <2>7. ShowsNothing' /\ StreamsPaired'
    BY <2>1, NothingStep, StreamStep DEF ScreenInv
  <2>8. PinKept'
    BY <2>1, <2>2, <2>4, PinStep DEF ScreenInv
  <2> QED
    BY <2>2, <2>3, <2>4, <2>5, <2>6, <2>7, <2>8 DEF ScreenInv, RelayInv
<1> QED
  BY <1>1, ScreenInit, PTL DEF Spec

\* When nothing is under way, what the screen will be is what it is.
LEMMA QuietScreen ==
    ASSUME Linked, Quiet
    PROVE  /\ Up /\ Events = <<>> /\ Between /\ ~Slipped
           /\ \A T, M : \A now \in BOOLEAN :
                (Settles(d2s, T, M, now) <=> now) /\ (Settles(Events, T, M, now) <=> now)
<1>1. Up /\ d2s = <<>> /\ Events = <<>> \o <<>> /\ Between
  BY DEF Quiet, Up, Events, Linked, LinkInv, Between
<1>2. <<>> \o <<>> = <<>>
  OBVIOUS
<1>3. Events = <<>>
  BY <1>1, <1>2
<1> QED
  BY <1>1, <1>3, HasSmall, LastSmall DEF Slipped, Settles

\* Unless the session was killed or a press met a failed qm status, a display
\* that the daemon calls asleep is dark once nothing is under way.
THEOREM SleepingDisplayIsDark == Spec => []SleepingIsDark
<1>1. ScreenInv => SleepingIsDark
  <2> SUFFICES ASSUME ScreenInv, Quiet, Unspent({"kill"}), ~PressFailed,
                      ctl.session_state = "display_sleeping"
               PROVE  sess.power = "off"
    BY DEF SleepingIsDark
  <2>1. Linked /\ SleepsOff /\ ReportedOff
    BY DEF ScreenInv, RelayInv, KillInv
  <2>2. Up
    BY <2>1, QuietScreen
  <2>3. disp.applied = "off"
    BY <2>1, <2>2 DEF SleepsOff
  <2>4. AppliedOff
    <3>1. (disp.applied = "off") \in BOOLEAN
      OBVIOUS
    <3> QED
      BY <2>1, <2>3, <3>1, QuietScreen DEF AppliedOff
  <2> QED
    BY <2>1, <2>4 DEF ReportedOff
<1> QED
  BY <1>1, Screens, PTL

\* A session whose daemon waits for the VM shows no viewer, unless a press met a
\* failed qm status; and until something has degraded the daemon, with a VM that
\* is plainly on or off, it says that it waits for the VM.
THEOREM WaitingIsOnScreen == Spec => []WaitingOnScreen
<1>1. ScreenInv => WaitingOnScreen
  <2> SUFFICES ASSUME ScreenInv, Quiet, ctl.session_state \in Waiting
               PROVE  /\ PressFailed \/ sess.console = "none"
                      /\ PlainStatus /\ Unspent(Degrading) => sess.waiting_reason \in VmReasons
    BY DEF WaitingOnScreen, Waiting, VmReasons
  <2>1. Linked /\ WaitsAlone /\ SaysWaiting /\ OrphanInv
    BY DEF ScreenInv, RelayInv
  <2>2. Up /\ ~Slipped /\ Events = <<>> /\ d2s = <<>>
    BY <2>1, QuietScreen DEF Quiet
  <2>3. ~ctl.console_running
    BY <2>1, <2>2 DEF WaitsAlone
  <2>4. PressFailed \/ sess.console = "none"
    BY <2>1, <2>2, <2>3, HasSmall DEF OrphanInv, Up
  <2>5. ASSUME PlainStatus, Unspent(Degrading) PROVE sess.waiting_reason \in VmReasons
    <3>1. WaitShown
      BY <2>1, <2>2, <2>3, <2>5 DEF SaysWaiting
    <3>2. (sess.waiting_reason \in VmReasons) \in BOOLEAN
      OBVIOUS
    <3> QED
      BY <2>1, <3>1, <3>2, QuietScreen DEF WaitShown
  <2> QED
    BY <2>4, <2>5
<1> QED
  BY <1>1, Screens, PTL

\* Until a qm status or a launch has failed, the PIN that the session shows
\* while the daemon waits for its approval is the one the daemon issued.
THEOREM PinIsOnScreen == Spec => []PinOnScreen
<1>1. ScreenInv => PinOnScreen
  <2> SUFFICES ASSUME ScreenInv, Quiet, Unspent({"qm", "launch"}), PairingPending(moon),
                      ctl.session_state = "waiting_for_pairing"
               PROVE  sess.pin = moon.pin
    BY DEF PinOnScreen
  <2>1. Linked /\ PinKept
    BY DEF ScreenInv, RelayInv
  <2>2. Up /\ Events = <<>>
    BY <2>1, QuietScreen
  <2>3. PinComes(moon.pin)
    BY <2>1, <2>2, HasSmall DEF PinKept, PairingSeen
  <2>4. (sess.pin = moon.pin) \in BOOLEAN
    OBVIOUS
  <2> QED
    BY <2>1, <2>3, <2>4, QuietScreen DEF PinComes
<1> QED
  BY <1>1, Screens, PTL

\* With a VM that is plainly on or off, an input device that works and no press
\* that met a failed qm status, the screen shows a Moonlight stream only for a
\* host that was found paired.
THEOREM StreamIsForPairedHost == Spec => []StreamIsPaired
<1>1. ScreenInv => StreamIsPaired
  <2> SUFFICES ASSUME ScreenInv, Quiet, PlainStatus, Unspent({"read"}), ~PressFailed,
                      Backend = "moonlight", sess.console = "stream"
               PROVE  moon.pair_state = "paired"
    BY DEF StreamIsPaired
  <2>1. Linked /\ StreamsPaired
    BY DEF ScreenInv, RelayInv
  <2>2. Up /\ ~Slipped
    BY <2>1, QuietScreen
  <2>3. (sess.console = "stream") \in BOOLEAN
    OBVIOUS
  <2>4. StreamShown
    BY <2>1, <2>3, QuietScreen DEF StreamShown
  <2> QED
    BY <2>1, <2>2, <2>4 DEF StreamsPaired, Undisturbed
<1> QED
  BY <1>1, Screens, PTL
=============================================================================
