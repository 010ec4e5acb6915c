-------------------------- MODULE RelayLinkProofs --------------------------
(***************************************************************************)
(* What the two processes know of each other across the socket, for every  *)
(* configuration: the display heads for the power the daemon intends, a    *)
(* viewer on the screen is one the daemon knows of, and a viewer is        *)
(* launched only when it is due.                                           *)
(***************************************************************************)
EXTENDS RelaySafetyProofs

-----------------------------------------------------------------------------
(* Queues of messages.                                                      *)

\* Where the elements of a concatenation come from.
LEMMA ConcatElements ==
    ASSUME NEW S, NEW q \in Seq(S), NEW r \in Seq(S)
    PROVE  /\ DOMAIN (q \o r) = 1 .. (Len(q) + Len(r))
           /\ DOMAIN q = 1 .. Len(q) /\ DOMAIN r = 1 .. Len(r)
           /\ Len(q) \in Nat /\ Len(r) \in Nat
           /\ \A i \in 1 .. Len(q) : (q \o r)[i] = q[i]
           /\ \A i \in 1 .. Len(r) : (q \o r)[Len(q) + i] = r[i]
OBVIOUS

LEMMA HasConcat ==
    ASSUME NEW S, NEW q \in Seq(S), NEW r \in Seq(S), NEW types
    PROVE  Has(q \o r, types) <=> Has(q, types) \/ Has(r, types)
<1> DEFINE c == q \o r
<1>1. /\ DOMAIN c = 1 .. (Len(q) + Len(r))
      /\ DOMAIN q = 1 .. Len(q) /\ DOMAIN r = 1 .. Len(r)
      /\ Len(q) \in Nat /\ Len(r) \in Nat
      /\ \A i \in 1 .. Len(q) : c[i] = q[i]
      /\ \A i \in 1 .. Len(r) : c[Len(q) + i] = r[i]
  BY ConcatElements
<1> HIDE DEF c
<1>2. ASSUME Has(c, types) PROVE Has(q, types) \/ Has(r, types)
  <2>1. PICK i \in 1 .. (Len(q) + Len(r)) : c[i].type \in types
    BY <1>1, <1>2 DEF Has
  <2>2. CASE i \in 1 .. Len(q)
    BY <1>1, <2>1, <2>2 DEF Has
  <2>3. CASE i \notin 1 .. Len(q)
    <3>1. i - Len(q) \in 1 .. Len(r) /\ i = Len(q) + (i - Len(q))
      BY <1>1, <2>1, <2>3
    <3> QED
      BY <1>1, <2>1, <3>1 DEF Has
  <2> QED
    BY <2>2, <2>3
<1>3. ASSUME Has(q, types) PROVE Has(c, types)
  <2>1. PICK i \in 1 .. Len(q) : q[i].type \in types
    BY <1>1, <1>3 DEF Has
  <2>2. i \in DOMAIN c /\ c[i] = q[i]
    BY <1>1
  <2> QED
    BY <2>1, <2>2 DEF Has
<1>4. ASSUME Has(r, types) PROVE Has(c, types)
  <2>1. PICK i \in 1 .. Len(r) : r[i].type \in types
    BY <1>1, <1>4 DEF Has
  <2>2. Len(q) + i \in DOMAIN c /\ c[Len(q) + i] = r[i]
    BY <1>1
  <2> QED
    BY <2>1, <2>2 DEF Has
<1> QED
  BY <1>2, <1>3, <1>4 DEF c

LEMMA HasSmall ==
    ASSUME NEW types
    PROVE  ~Has(<<>>, types) /\ \A m : Has(<<m>>, types) <=> m.type \in types
BY DEF Has

LEMMA HasTail ==
    ASSUME NEW S, NEW q \in Seq(S), q # <<>>, NEW types
    PROVE  Has(q, types) <=> Head(q).type \in types \/ Has(Tail(q), types)
<1>1. /\ Head(q) \in S /\ Tail(q) \in Seq(S) /\ <<Head(q)>> \in Seq(S)
      /\ q = <<Head(q)>> \o Tail(q)
  OBVIOUS
<1>2. Has(<<Head(q)>> \o Tail(q), types) <=> Has(<<Head(q)>>, types) \/ Has(Tail(q), types)
  BY <1>1, HasConcat
<1>3. Has(<<Head(q)>>, types) <=> Head(q).type \in types
  BY HasSmall
<1> QED
  BY <1>1, <1>2, <1>3, Zenon

LEMMA LastConcat ==
    ASSUME NEW S, NEW q \in Seq(S), NEW r \in Seq(S), NEW types, NEW M
    PROVE  LastIn(q \o r, types, M) <=>
             LastIn(r, types, M) \/ (~Has(r, types) /\ LastIn(q, types, M))
<1> DEFINE c == q \o r
<1>1. /\ DOMAIN c = 1 .. (Len(q) + Len(r))
      /\ DOMAIN q = 1 .. Len(q) /\ DOMAIN r = 1 .. Len(r)
      /\ Len(q) \in Nat /\ Len(r) \in Nat
      /\ \A i \in 1 .. Len(q) : c[i] = q[i]
      /\ \A i \in 1 .. Len(r) : c[Len(q) + i] = r[i]
  BY ConcatElements
<1> HIDE DEF c
<1>2. ASSUME LastIn(c, types, M)
      PROVE  LastIn(r, types, M) \/ (~Has(r, types) /\ LastIn(q, types, M))
  <2>1. PICK i \in 1 .. (Len(q) + Len(r)) :
          /\ c[i].type \in types /\ c[i] \in M
          /\ \A j \in 1 .. (Len(q) + Len(r)) : j > i => c[j].type \notin types
    BY <1>1, <1>2 DEF LastIn
  <2>2. CASE i \in 1 .. Len(q)
    <3>1. \A j \in 1 .. Len(r) : r[j].type \notin types
      <4> SUFFICES ASSUME NEW j \in 1 .. Len(r) PROVE r[j].type \notin types
        OBVIOUS
      <4>1. Len(q) + j \in 1 .. (Len(q) + Len(r)) /\ Len(q) + j > i
        BY <1>1, <2>2
      <4> QED
        BY <1>1, <2>1, <4>1
    <3>2. ~Has(r, types)
      BY <1>1, <3>1 DEF Has
    <3>3. \A j \in 1 .. Len(q) : j > i => q[j].type \notin types
      <4> SUFFICES ASSUME NEW j \in 1 .. Len(q), j > i PROVE q[j].type \notin types
        OBVIOUS
      <4>1. j \in 1 .. (Len(q) + Len(r)) /\ c[j] = q[j]
        BY <1>1
      <4> QED
        BY <2>1, <4>1
    <3> QED
      BY <1>1, <2>1, <2>2, <3>2, <3>3 DEF LastIn
  <2>3. CASE i \notin 1 .. Len(q)
    <3>1. i - Len(q) \in 1 .. Len(r) /\ c[i] = r[i - Len(q)]
      <4>1. i - Len(q) \in 1 .. Len(r) /\ i = Len(q) + (i - Len(q))
        BY <1>1, <2>1, <2>3
      <4> QED
        BY <1>1, <4>1
    <3>2. \A j \in 1 .. Len(r) : j > i - Len(q) => r[j].type \notin types
      <4> SUFFICES ASSUME NEW j \in 1 .. Len(r), j > i - Len(q) PROVE r[j].type \notin types
        OBVIOUS
      <4>1. Len(q) + j \in 1 .. (Len(q) + Len(r)) /\ Len(q) + j > i /\ c[Len(q) + j] = r[j]
        BY <1>1
      <4> QED
        BY <2>1, <4>1
    <3> QED
      BY <1>1, <2>1, <3>1, <3>2 DEF LastIn
  <2> QED
    BY <2>2, <2>3
<1>3. ASSUME LastIn(r, types, M) PROVE LastIn(c, types, M)
  <2>1. PICK i \in 1 .. Len(r) :
          /\ r[i].type \in types /\ r[i] \in M
          /\ \A j \in 1 .. Len(r) : j > i => r[j].type \notin types
    BY <1>1, <1>3 DEF LastIn
  <2>2. Len(q) + i \in DOMAIN c /\ c[Len(q) + i] = r[i]
    BY <1>1
  <2>3. ASSUME NEW j \in DOMAIN c, j > Len(q) + i PROVE c[j].type \notin types
    <3>1. j - Len(q) \in 1 .. Len(r) /\ j = Len(q) + (j - Len(q)) /\ j - Len(q) > i
      BY <1>1, <2>3
    <3> QED
      BY <1>1, <2>1, <3>1
  <2> QED
    BY <2>1, <2>2, <2>3 DEF LastIn
<1>4. ASSUME ~Has(r, types), LastIn(q, types, M) PROVE LastIn(c, types, M)
  <2>1. PICK i \in 1 .. Len(q) :
          /\ q[i].type \in types /\ q[i] \in M
          /\ \A j \in 1 .. Len(q) : j > i => q[j].type \notin types
    BY <1>1, <1>4 DEF LastIn
  <2>2. i \in DOMAIN c /\ c[i] = q[i]
    BY <1>1
  <2>3. ASSUME NEW j \in DOMAIN c, j > i PROVE c[j].type \notin types
    <3>1. CASE j \in 1 .. Len(q)
      BY <1>1, <2>1, <2>3, <3>1
    <3>2. CASE j \notin 1 .. Len(q)
      <4>1. j - Len(q) \in 1 .. Len(r) /\ j = Len(q) + (j - Len(q))
        BY <1>1, <2>3, <3>2
      <4> QED
        BY <1>1, <1>4, <4>1 DEF Has
    <3> QED
      BY <3>1, <3>2
  <2> QED
    BY <2>1, <2>2, <2>3 DEF LastIn
<1> QED
  BY <1>2, <1>3, <1>4 DEF c

LEMMA LastSmall ==
    ASSUME NEW types, NEW M
    PROVE  ~LastIn(<<>>, types, M) /\ \A m : LastIn(<<m>>, types, M) <=> m.type \in types /\ m \in M
BY DEF LastIn

\* A message of the kind decides the end of the queue.
LEMMA LastHas ==
    ASSUME NEW q, NEW types, NEW M, LastIn(q, types, M)
    PROVE  Has(q, types)
BY DEF LastIn, Has

\* More messages are written.
LEMMA SettlesConcat ==
    ASSUME NEW S, NEW q \in Seq(S), NEW r \in Seq(S), NEW types, NEW M, NEW now \in BOOLEAN
    PROVE  Settles(q \o r, types, M, now) <=>
             LastIn(r, types, M) \/ (~Has(r, types) /\ Settles(q, types, M, now))
<1>1. Has(q \o r, types) <=> Has(q, types) \/ Has(r, types)
  BY HasConcat
<1>2. LastIn(q \o r, types, M) <=>
        LastIn(r, types, M) \/ (~Has(r, types) /\ LastIn(q, types, M))
  BY LastConcat
<1>3. LastIn(r, types, M) => Has(r, types)
  BY LastHas
<1> QED
  BY <1>1, <1>2, <1>3 DEF Settles

\* The first message is handled, and made true what it stands for.
LEMMA SettlesTail ==
    ASSUME NEW S, NEW q \in Seq(S), q # <<>>, NEW types, NEW M, NEW now \in BOOLEAN,
           NEW next \in BOOLEAN
    PROVE  /\ Head(q).type \notin types /\ (next <=> now) =>
                (Settles(Tail(q), types, M, next) <=> Settles(q, types, M, now))
           /\ Head(q).type \in types /\ (next <=> Head(q) \in M) =>
                (Settles(Tail(q), types, M, next) <=> Settles(q, types, M, now))
<1>1. /\ Head(q) \in S /\ Tail(q) \in Seq(S) /\ <<Head(q)>> \in Seq(S)
      /\ q = <<Head(q)>> \o Tail(q)
  OBVIOUS
<1>2. Has(q, types) <=> Head(q).type \in types \/ Has(Tail(q), types)
  BY HasTail
<1>3. LastIn(q, types, M) <=>
        \/ LastIn(Tail(q), types, M)
        \/ ~Has(Tail(q), types) /\ LastIn(<<Head(q)>>, types, M)
  <2>1. LastIn(<<Head(q)>> \o Tail(q), types, M) <=>
          \/ LastIn(Tail(q), types, M)
          \/ ~Has(Tail(q), types) /\ LastIn(<<Head(q)>>, types, M)
    BY <1>1, LastConcat
  <2> QED
    BY <1>1, <2>1, Zenon
<1>4. LastIn(<<Head(q)>>, types, M) <=> Head(q).type \in types /\ Head(q) \in M
  BY LastSmall
<1> QED
  BY <1>2, <1>3, <1>4 DEF Settles

-----------------------------------------------------------------------------
(* The connection.                                                          *)

\* The session's messages the daemon has not handled, oldest first.
Events == inbox \o s2d

\* The messages that take a viewer off the screen, and the ones that make the
\* session do something it reports.
Stops == {"show_waiting", "disconnect_console"}
Acts == {"display_power", "connect_console"}

\* What the two ends of the socket know of each other.  One session connects at
\* a time: an accepted connection whose peer is open is the only open one.  A
\* session runs a viewer only while it has, or believes to have, a connection.
EndsAgree ==
    /\ ~sess.up => sess = SessInit /\ client = "closed"
    /\ conn = "up" => client = "open" /\ \A i \in DOMAIN pend : ~pend[i]
    /\ \A i \in DOMAIN pend : pend[i] =>
         client = "open" /\ \A j \in DOMAIN pend : pend[j] => i = j
    /\ client = "closed" \/ (client = "open" /\ conn # "up") => sess.console = "none"

\* Until the session_ready of a connection is handled, that is all there is on it.
Ungreeted ==
    conn = "up" /\ ~ctl.session_ready =>
      /\ Events = <<Event("session_ready")>>
      /\ sess.console = "none" /\ ~Has(d2s, Acts)

LinkInv ==
    /\ pc # "handle" => inbox = <<>>
    /\ pc = "down" => conn = "none"
    /\ EndsAgree
    /\ Ungreeted

\* Events are used up.
BudgetInv == \A k \in EventKinds : left[k] =< Budget[k]

LEMMA EventsTyped ==
    ASSUME TypeInv
    PROVE  /\ inbox \in Seq(SessionMessage) /\ s2d \in Seq(SessionMessage)
           /\ Events \in Seq(SessionMessage) /\ d2s \in Seq(DaemonMessage)
           /\ pend \in Seq(BOOLEAN)
BY DEF TypeInv, TypeOK, DaemonTypeOK, SocketTypeOK, Events

\* A send that finds the connection up leaves it up and appends.
LEMMA DeliverLink ==
    ASSUME NEW c, NEW m, NEW msgs, Deliver(c, m, msgs)
    PROVE  /\ UNCHANGED <<pend, client>>
           /\ conn = "up" => conn' = "up"
           /\ \/ /\ Reaches(msgs) /\ UNCHANGED <<conn, s2d>> /\ d2s' = d2s \o msgs
                 /\ ctl' = c /\ moon' = m
              \/ /\ ~Reaches(msgs) /\ conn # "up" /\ conn' = "none"
                 /\ s2d' = <<>> /\ d2s' = <<>>
                 /\ ctl' = Disconnected(c) /\ moon' = [m EXCEPT !.launch_pending = FALSE]
BY DEF Deliver, SendAll, Reaches

\* On a connection that is up, a handler takes the oldest event and appends its
\* answer.
LEMMA HandledUp ==
    ASSUME TypeInv, pc = "handle", NEW c, NEW m, NEW msgs, Handled(c, m, msgs), conn' = "up"
    PROVE  /\ conn = "up" /\ ctl' = c /\ moon' = m /\ d2s' = d2s \o msgs
           /\ Events # <<>> /\ Head(Events) = Head(inbox) /\ Events' = Tail(Events)
<1>1. /\ conn = "up" /\ ctl' = c /\ moon' = m /\ d2s' = d2s \o msgs
      /\ s2d' = s2d /\ Reaches(msgs)
  BY DeliverLink DEF Handled
<1>2. inbox' = Tail(inbox)
  BY <1>1 DEF Handled
<1>3. inbox # <<>> /\ inbox \in Seq(SessionMessage) /\ s2d \in Seq(SessionMessage)
  BY EventsTyped DEF TypeInv, HandlesMessage
<1>4. /\ inbox \o s2d # <<>> /\ Head(inbox \o s2d) = Head(inbox)
      /\ Tail(inbox \o s2d) = Tail(inbox) \o s2d
  BY <1>3
<1> QED
  BY <1>1, <1>2, <1>4 DEF Events

\* A tick takes no event.
LEMMA TickedUp ==
    ASSUME NEW c, NEW m, NEW msgs, Ticked(c, m, msgs), conn' = "up"
    PROVE  /\ conn = "up" /\ ctl' = c /\ moon' = m /\ d2s' = d2s \o msgs
           /\ Events' = Events
BY DeliverLink DEF Ticked, Events
-----------------------------------------------------------------------------
(* What a step of the daemon writes.                                        *)

\* The messages that decide what is on the screen.
ScreenTypes == Stops \union {"connect_console"}

\* Of the messages written, the last one about the screen is m, and a viewer is
\* launched only if m does; or none is about the screen.
Screen(msgs, m) ==
    /\ LastIn(msgs, ScreenTypes, {m})
    /\ Has(msgs, {"connect_console"}) => m.type = "connect_console"

Silent(msgs) == ~Has(msgs, ScreenTypes)

\* The messages end with the power p, or do not mention it.
PowerEnds(msgs, p) == LastIn(msgs, {"display_power"}, {DisplayPower(p)})
Powerless(msgs) == ~Has(msgs, {"display_power"})

\* A change of the intent is announced.
Announced(msgs) ==
    PowerEnds(msgs, disp'.intent) \/ (Powerless(msgs) /\ disp'.intent = disp.intent)

LEMMA HasFewer ==
    ASSUME NEW q, NEW T, NEW U, T \subseteq U, Has(q, T)
    PROVE  Has(q, U)
BY DEF Has

\* Messages that end with m, whatever comes before, and whatever comes after
\* that is not about the screen.
LEMMA ScreenConcat ==
    ASSUME NEW q \in Seq(DaemonMessage), NEW r \in Seq(DaemonMessage), NEW m
    PROVE  /\ Silent(q) /\ Silent(r) => Silent(q \o r)
           /\ Silent(q) /\ Screen(r, m) => Screen(q \o r, m)
           /\ Screen(q, m) /\ Silent(r) => Screen(q \o r, m)
           /\ m.type \in ScreenTypes => Screen(<<m>>, m)
<1>1. /\ Has(q \o r, ScreenTypes) <=> Has(q, ScreenTypes) \/ Has(r, ScreenTypes)
      /\ Has(q \o r, {"connect_console"}) <=>
           Has(q, {"connect_console"}) \/ Has(r, {"connect_console"})
  BY HasConcat
<1>2. LastIn(q \o r, ScreenTypes, {m}) <=>
        LastIn(r, ScreenTypes, {m}) \/ (~Has(r, ScreenTypes) /\ LastIn(q, ScreenTypes, {m}))
  BY LastConcat
<1>3. \A s : Silent(s) => ~Has(s, {"connect_console"})
  BY HasFewer DEF Silent, ScreenTypes
<1>4. m.type \in ScreenTypes => LastIn(<<m>>, ScreenTypes, {m})
  BY LastSmall
<1>5. Has(<<m>>, {"connect_console"}) => m.type = "connect_console"
  BY HasSmall
<1> QED
  BY <1>1, <1>2, <1>3, <1>4, <1>5 DEF Silent, Screen

\* The same for the power.
LEMMA PowerConcat ==
    ASSUME NEW q \in Seq(DaemonMessage), NEW r \in Seq(DaemonMessage), NEW p
    PROVE  /\ Powerless(q) /\ Powerless(r) => Powerless(q \o r)
           /\ Powerless(q) /\ PowerEnds(r, p) => PowerEnds(q \o r, p)
           /\ PowerEnds(q, p) /\ Powerless(r) => PowerEnds(q \o r, p)
<1>1. Has(q \o r, {"display_power"}) <=> Has(q, {"display_power"}) \/ Has(r, {"display_power"})
  BY HasConcat
<1>2. LastIn(q \o r, {"display_power"}, {DisplayPower(p)}) <=>
        \/ LastIn(r, {"display_power"}, {DisplayPower(p)})
        \/ ~Has(r, {"display_power"}) /\ LastIn(q, {"display_power"}, {DisplayPower(p)})
  BY LastConcat
<1> QED
  BY <1>1, <1>2 DEF Powerless, PowerEnds

\* Single messages.
LEMMA SingleMessages ==
    /\ Silent(<<>>) /\ Powerless(<<>>)
    /\ \A p \in PowerStates : Silent(<<DisplayPower(p)>>) /\ PowerEnds(<<DisplayPower(p)>>, p)
    /\ \A m \in DaemonMessage : m.type \in ScreenTypes =>
         Screen(<<m>>, m) /\ Powerless(<<m>>) /\ <<m>> \in Seq(DaemonMessage)
<1>1. Silent(<<>>) /\ Powerless(<<>>)
  BY HasSmall DEF Silent, Powerless
<1>2. ASSUME NEW p \in PowerStates
      PROVE  Silent(<<DisplayPower(p)>>) /\ PowerEnds(<<DisplayPower(p)>>, p)
  <2>1. DisplayPower(p).type = "display_power" /\ DisplayPower(p).type \notin ScreenTypes
    BY DEF DisplayPower, ScreenTypes, Stops
  <2>2. Has(<<DisplayPower(p)>>, ScreenTypes) <=> DisplayPower(p).type \in ScreenTypes
    BY HasSmall
  <2>3. LastIn(<<DisplayPower(p)>>, {"display_power"}, {DisplayPower(p)})
    BY <2>1, LastSmall
  <2> QED
    BY <2>1, <2>2, <2>3 DEF Silent, PowerEnds
<1>3. ASSUME NEW m \in DaemonMessage, m.type \in ScreenTypes
      PROVE  Screen(<<m>>, m) /\ Powerless(<<m>>) /\ <<m>> \in Seq(DaemonMessage)
  <2>1. Has(<<m>>, {"display_power"}) <=> m.type \in {"display_power"}
    BY HasSmall
  <2>2. Powerless(<<m>>)
    BY <1>3, <2>1 DEF Powerless, ScreenTypes, Stops
  <2>3. Screen(<<m>>, m)
    <3>1. <<>> \in Seq(DaemonMessage)
      OBVIOUS
    <3> QED
      BY <1>3, <3>1, ScreenConcat
  <2> QED
    BY <2>2, <2>3
<1> QED
  BY <1>1, <1>2, <1>3

\* The types of the messages about the screen.
LEMMA MessageTypes ==
    /\ \A r : /\ ShowWaiting(r).type \in Stops /\ ShowWaiting(r).type \in ScreenTypes
              /\ DisconnectConsole(r).type \in Stops /\ DisconnectConsole(r).type \in ScreenTypes
    /\ \A p : /\ ShowPairing(p).type \in Stops /\ ShowPairing(p).type \in ScreenTypes
              /\ ConnectPair(p).type = "connect_console" /\ ConnectPair(p).type \in ScreenTypes
    /\ ConnectStream.type = "connect_console" /\ ConnectStream.type \in ScreenTypes
BY DEF ShowWaiting, DisconnectConsole, ShowPairing, ConnectPair, ConnectStream, Stops, ScreenTypes

\* What announces degraded mode, and what a counted failure writes.
LEMMA FailureScreen ==
    ASSUME NEW c
    PROVE  /\ Screen(DegradedMessages(c), ShowWaiting("degraded"))
           /\ Powerless(DegradedMessages(c)) /\ Powerless(FailureMessages(c))
           /\ LimitReached(c) => Screen(FailureMessages(c), ShowWaiting("degraded"))
           /\ ~LimitReached(c) => FailureMessages(c) = <<>>
<1> DEFINE d == DisconnectConsole("control_error")
           w == ShowWaiting("degraded")
<1>1. /\ d \in DaemonMessage /\ w \in DaemonMessage
      /\ d.type \in Stops /\ w.type \in Stops /\ w.type \in ScreenTypes
      /\ <<d>> \in Seq(DaemonMessage) /\ <<w>> \in Seq(DaemonMessage)
  BY MessagesTyped, MessageTypes DEF WaitingReasons
<1>2. /\ Screen(<<w>>, w) /\ Powerless(<<w>>) /\ Powerless(<<d>>)
  BY <1>1, SingleMessages, MessageTypes
<1>3. Screen(<<d>> \o <<w>>, w)
  <2>1. LastIn(<<d>> \o <<w>>, ScreenTypes, {w})
    BY <1>1, <1>2, LastConcat DEF Screen
  <2>2. ~Has(<<d>> \o <<w>>, {"connect_console"})
    <3>1. ~Has(<<d>>, {"connect_console"}) /\ ~Has(<<w>>, {"connect_console"})
      BY <1>1, HasSmall DEF Stops
    <3> QED
      BY <1>1, <3>1, HasConcat
  <2> QED
    BY <2>1, <2>2 DEF Screen
<1>4. Powerless(<<d>> \o <<w>>)
  BY <1>1, <1>2, PowerConcat
<1>5. <<>> \o <<w>> = <<w>>
  BY <1>1
<1>6. Screen(DegradedMessages(c), w) /\ Powerless(DegradedMessages(c))
  <2>1. DegradedMessages(c) = <<d>> \o <<w>> \/ DegradedMessages(c) = <<>> \o <<w>>
    BY DEF DegradedMessages
  <2> HIDE DEF d, w
  <2> QED
    BY <1>2, <1>3, <1>4, <1>5, <2>1
<1> HIDE DEF d
<1> QED
  BY <1>6, SingleMessages DEF FailureMessages

LEMMA DecidedTyped ==
    ASSUME TypeInv
    PROVE  Decided.intent \in PowerStates /\ (vm \in DisplayOn => Decided.intent = "on")
<1>1. disp \in DispType
  BY DEF TypeInv, TypeOK, DaemonTypeOK
<1>2. RecordPowerState(disp, vm) \in DispType
  BY <1>1, DispTyped DEF TypeInv, TypeOK, GuestTypeOK
<1>3. Decided \in DispType
  BY <1>2, DispTyped DEF Decided, TypeInv, TypeOK, GuestTypeOK
<1>4. vm \in DisplayOn => Decided.intent = "on"
  BY <1>1 DEF Decided, UpdateIntent, RecordPowerState, DispType
<1> QED
  BY <1>3, <1>4 DEF DispType

\* What display_power writes, before or after other messages.
LEMMA PowerAnnounced ==
    ASSUME TypeInv, disp' = Decided
    PROVE  /\ PowerMessages \in Seq(DaemonMessage)
           /\ Silent(PowerMessages) /\ Announced(PowerMessages)
           /\ \A q \in Seq(DaemonMessage) : Powerless(q) =>
                Announced(PowerMessages \o q) /\ Announced(q \o PowerMessages)
<1>1. Decided.intent \in PowerStates
  BY DecidedTyped
<1>2. PowerMessages \in Seq(DaemonMessage) /\ Silent(PowerMessages) /\ Announced(PowerMessages)
  BY <1>1, SingleMessages, MessagesTyped DEF PowerMessages, Announced
<1>3. ASSUME NEW q \in Seq(DaemonMessage), Powerless(q)
      PROVE  Announced(PowerMessages \o q) /\ Announced(q \o PowerMessages)
  BY <1>2, <1>3, PowerConcat DEF Announced
<1> QED
  BY <1>2, <1>3
-----------------------------------------------------------------------------
(* What the daemon's methods do to the fields of its control state.         *)

\* Nothing of the control state but its failures and its retry times differs.
Alike(c, d) ==
    /\ c.session_ready = d.session_ready /\ c.console_running = d.console_running
    /\ c.session_state = d.session_state /\ c.degraded_reason = d.degraded_reason
    /\ c.startup_error = d.startup_error

\* c is d after _transition to the state.
Moved(c, d, state) ==
    /\ c.session_ready = d.session_ready /\ c.console_running = d.console_running
    /\ c.startup_error = d.startup_error /\ c.session_state = state
    /\ state # "degraded" => c.degraded_reason = "none"
    /\ state = "degraded" => c.degraded_reason = d.degraded_reason

\* c is d after _enter_degraded.
Fallen(c, d) ==
    /\ c.session_ready = d.session_ready /\ c.startup_error = d.startup_error
    /\ ~c.console_running /\ c.session_state = "degraded" /\ c.degraded_reason # "none"

LEMMA MethodFields ==
    ASSUME NEW c \in CtlType
    PROVE  /\ \A s : /\ Moved(Transition(c, s), c, s)
                     /\ Transition(c, s).next_reconnect_at = c.next_reconnect_at
           /\ \A r : /\ r # "none" => Fallen(EnterDegraded(c, r), c)
                     /\ EnterDegraded(c, r).next_reconnect_at = c.next_reconnect_at
           /\ Alike(ScheduleReconnect(c), c)
           /\ Alike(ClearFailures(c), c)
           /\ ClearFailures(c).next_reconnect_at = c.next_reconnect_at
           /\ LimitReached(c) => Fallen(RecordFailure(c), c)
           /\ ~LimitReached(c) => Alike(RecordFailure(c), c)
           /\ RecordFailure(c).next_reconnect_at = c.next_reconnect_at
           /\ Disconnected(c).next_reconnect_at = c.next_reconnect_at
           /\ ~Disconnected(c).session_ready
           /\ Disconnected(c).session_state \in {"degraded", "waiting_for_session"}
<1>1. /\ \A s : /\ Moved(Transition(c, s), c, s)
                /\ Transition(c, s).next_reconnect_at = c.next_reconnect_at
  BY DEF Moved, Transition, CtlType
<1>2. ASSUME NEW r
      PROVE  /\ r # "none" => Fallen(EnterDegraded(c, r), c)
             /\ EnterDegraded(c, r).next_reconnect_at = c.next_reconnect_at
  BY DEF Fallen, EnterDegraded, CtlType
<1>3. Alike(ScheduleReconnect(c), c)
  BY DEF Alike, ScheduleReconnect, CtlType
<1>4. Alike(ClearFailures(c), c) /\ ClearFailures(c).next_reconnect_at = c.next_reconnect_at
  BY DEF Alike, ClearFailures, CtlType
<1>5. /\ LimitReached(c) => Fallen(RecordFailure(c), c)
      /\ ~LimitReached(c) => Alike(RecordFailure(c), c)
      /\ RecordFailure(c).next_reconnect_at = c.next_reconnect_at
  <2> DEFINE d == [c EXCEPT !.failures[0] = @ + 1]
  <2>1. Alike(d, c) /\ d.next_reconnect_at = c.next_reconnect_at
    BY DEF Alike, CtlType
  <2>2. /\ Fallen(EnterDegraded(d, "proxmox"), c)
        /\ EnterDegraded(d, "proxmox").next_reconnect_at = c.next_reconnect_at
    BY DEF Fallen, EnterDegraded, CtlType
  <2>3. /\ LimitReached(c) => RecordFailure(c) = EnterDegraded(d, "proxmox")
        /\ ~LimitReached(c) => RecordFailure(c) = d
    BY DEF RecordFailure
  <2> HIDE DEF d
  <2> QED
    BY <2>1, <2>2, <2>3
<1>6. /\ Disconnected(c).next_reconnect_at = c.next_reconnect_at
      /\ ~Disconnected(c).session_ready
      /\ Disconnected(c).session_state \in {"degraded", "waiting_for_session"}
  BY DEF Disconnected, Transition, CtlType
<1> QED
  BY <1>1, <1>2, <1>3, <1>4, <1>5, <1>6

-----------------------------------------------------------------------------
(* Events are used up.                                                      *)

\* No step gives an event back: what has not happened yet had not happened.
LEMMA LeftShrinks ==
    ASSUME TypeInv, BudgetInv, [Next]_vars
    PROVE  /\ BudgetInv'
           /\ \A K \in SUBSET EventKinds : Unspent(K)' => Unspent(K)
<1>1. left \in [EventKinds -> Nat] /\ Budget \in [EventKinds -> Nat]
  BY GuestAssumption DEF TypeInv, TypeOK, GuestTypeOK
<1>2. \A k \in EventKinds : left'[k] \in Nat /\ left'[k] =< left[k]
  <2>1. ASSUME UNCHANGED left \/ \E k \in EventKinds : Spend(k)
        PROVE  \A k \in EventKinds : left'[k] \in Nat /\ left'[k] =< left[k]
    BY <1>1, <2>1 DEF Spend
  <2>2. ASSUME left' = [left EXCEPT !["press"] = @ - 1, !["qm"] = @ - 1],
               left["press"] > 0, left["qm"] > 0
        PROVE  \A k \in EventKinds : left'[k] \in Nat /\ left'[k] =< left[k]
    BY <1>1, <2>2 DEF EventKinds
  <2>3. ASSUME left' = [left EXCEPT !["press"] = @ - 1, !["hang"] = @ - 1],
               left["press"] > 0, left["hang"] > 0
        PROVE  \A k \in EventKinds : left'[k] \in Nat /\ left'[k] =< left[k]
    BY <1>1, <2>3 DEF EventKinds
  <2>4. {"vm", "host", "press", "qm", "pvesh", "endpoint", "validate", "read", "start", "hang",
         "crash", "kill", "exit", "launch", "helper"} \subseteq EventKinds
    BY DEF EventKinds
  <2>5. CASE Tick
    BY <2>1, <2>4, <2>5
       DEF Tick, TickDegraded, TickNoStatus, TickNoSession, TickVmOff, TickTransitional,
           TickShowing, TickBackoff, TickHostUnreachable, TickPairIssue, TickPairWait,
           TickLaunch, TickEndpointUnavailable, TickLaunchInvalid, TickLaunchRefused,
           EndpointRefused, ConsoleInvalid, ConsoleRefused, guestVars
  <2>6. CASE HandleMessage
    BY <2>1, <2>4, <2>6
       DEF HandleMessage, SessionReadyDegraded, SessionReadyNoStatus, SessionReady,
           ConsoleStarted, PowerApplied, ConsoleExited, SessionError, guestVars
  <2>7. CASE HandlePress
    BY <2>1, <2>2, <2>4, <2>7
       DEF HandlePress, PressNoStatus, PressIgnored, PressRefused, PressAccepted
  <2>8. CASE DaemonStart \/ AcceptPending \/ ReadMessages \/ PollFails \/ PollDone
             \/ DaemonCrash \/ StatusHangs \/ PressHangs \/ TimePasses
    BY <2>1, <2>3, <2>4, <2>8
       DEF DaemonStart, StartupInvalid, AcceptPending, ReadMessages, PollFails, PollDone,
           DaemonCrash, StatusHangs, PressHangs, TimePasses, guestVars
  <2>9. CASE SessionStep
    BY <2>1, <2>4, <2>9
       DEF SessionStep, SessionConnect, SessionStart, SessionEof, SessionKilled,
           HandleDaemonMessage, ShowWaitingState, LaunchConsole, LaunchFails, LaunchRejected,
           ApplyDisplayPower, PowerHelperFails, PollConsole, ViewerExits, guestVars
  <2>10. CASE GuestStep \/ UNCHANGED vars
    BY <2>1, <2>4, <2>10 DEF GuestStep, VmChanges, HostChanges, vars, guestVars
  <2> QED
    BY <2>5, <2>6, <2>7, <2>8, <2>9, <2>10 DEF Next, DaemonStep, DaemonNext, DaemonLoop
<1>3. BudgetInv'
  BY <1>1, <1>2 DEF BudgetInv
<1>4. ASSUME NEW K \in SUBSET EventKinds, Unspent(K)' PROVE Unspent(K)
  BY <1>1, <1>2, <1>4 DEF BudgetInv, Unspent
<1> QED
  BY <1>3, <1>4

\* An event that happens has happened.
LEMMA SpendSpends ==
    ASSUME TypeInv, BudgetInv
    PROVE  /\ \A k \in EventKinds : Spend(k) => \A K : k \in K => ~Unspent(K)'
           /\ PressNoStatus => PressFailed'
           /\ HandlePress => ~Unspent({"press"})'
<1>1. left \in [EventKinds -> Nat] /\ Budget \in [EventKinds -> Nat]
  BY GuestAssumption DEF TypeInv, TypeOK, GuestTypeOK
<1>2. ASSUME NEW k \in EventKinds, Spend(k), NEW K, k \in K PROVE ~Unspent(K)'
  BY <1>1, <1>2 DEF Spend, BudgetInv, Unspent
<1>3. "press" \in EventKinds /\ "qm" \in EventKinds
  BY DEF EventKinds
<1>4. ASSUME left' = [left EXCEPT !["press"] = @ - 1, !["qm"] = @ - 1],
             left["press"] > 0, left["qm"] > 0
      PROVE  ~Unspent({"press"})' /\ ~Unspent({"qm"})'
  BY <1>1, <1>3, <1>4 DEF BudgetInv, Unspent
<1>5. PressNoStatus => PressFailed'
  BY <1>4 DEF PressNoStatus, PressFailed
<1>6. HandlePress => ~Unspent({"press"})'
  BY <1>2, <1>3, <1>4 DEF HandlePress, PressNoStatus, PressIgnored, PressRefused, PressAccepted
<1> QED
  BY <1>2, <1>5, <1>6

-----------------------------------------------------------------------------
(* The handlers of handle_session_message, for a batch whose first message  *)
(* is ev: the control state c and the pairing state m they leave, and the   *)
(* messages they answer with.                                               *)

Steady(c) == c.session_ready = ctl.session_ready /\ c.startup_error = ctl.startup_error

\* session_ready, in degraded mode; when qm status fails; and otherwise.
Greets(c, m) ==
    /\ Head(inbox).type = "session_ready"
    /\ c.session_ready /\ ~c.console_running /\ c.startup_error = ctl.startup_error
    /\ c.next_reconnect_at = ctl.next_reconnect_at
    /\ m.pair_state = moon.pair_state /\ m.pin = moon.pin

GreetsDegraded(c, msgs) ==
    /\ Faulted(ctl) /\ UNCHANGED disp
    /\ c.session_state = "degraded" /\ c.degraded_reason = ctl.degraded_reason
    /\ Screen(msgs, ShowWaiting("degraded")) /\ Powerless(msgs)

GreetsBlind(c, msgs) ==
    /\ ~Faulted(ctl) /\ UNCHANGED disp /\ ~Unspent({"qm"})'
    /\ PowerEnds(msgs, disp.intent)
    /\ \/ /\ c.session_state = "degraded"
          /\ Screen(msgs, ShowWaiting("degraded"))
       \/ /\ c.session_state = WaitingState(disp) /\ c.degraded_reason = "none"
          /\ Screen(msgs, ShowWaiting("vm_stopped"))

GreetsInformed(c, msgs) ==
    /\ ~Faulted(ctl) /\ c.degraded_reason = "none"
    /\ disp'.vm_power_state = vm /\ disp'.intent = disp.intent /\ disp'.applied = disp.applied
    /\ PowerEnds(msgs, disp.intent)
    /\ \/ /\ vm \notin DisplayOn /\ c.session_state = WaitingState(disp)
          /\ Screen(msgs, ShowWaiting("vm_stopped"))
       \/ /\ vm \in DisplayOn /\ PairingPending(moon)
          /\ c.session_state = "waiting_for_pairing" /\ Screen(msgs, ShowPairing(moon.pin))
       \/ /\ vm \in DisplayOn /\ ~PairingPending(moon)
          /\ c.session_state \in {"reconnecting_console", "requesting_console"}
          /\ \E r \in {"reconnecting", "connecting"} : Screen(msgs, ShowWaiting(r))

\* console_started, display_power_applied, console_exited, session_error.
NotesStarted(c, msgs) ==
    /\ Head(inbox).type = "console_started"
    /\ UNCHANGED disp /\ msgs = <<>> /\ Steady(c)
    /\ c.console_running /\ c.next_reconnect_at = None /\ c.degraded_reason = "none"
    /\ c.session_state = IF PairingPending(moon) THEN "waiting_for_pairing" ELSE "showing_console"

NotesApplied(c, msgs) ==
    /\ Head(inbox).type = "display_power_applied"
    /\ disp'.applied = Head(inbox).arg /\ disp'.intent = disp.intent
    /\ disp'.vm_power_state = disp.vm_power_state
    /\ msgs = <<>> /\ c.next_reconnect_at = ctl.next_reconnect_at
    /\ IF ctl.console_running \/ disp.vm_power_state \in DisplayOn THEN c = ctl
       ELSE Moved(c, ctl, WaitingState(disp'))

NotesExited(c, msgs) ==
    /\ Head(inbox).type = "console_exited"
    /\ UNCHANGED disp /\ Powerless(msgs) /\ Steady(c)
    /\ ~c.console_running /\ c.degraded_reason = "none"
    /\ \/ /\ PairingPending(moon) /\ c.next_reconnect_at = None
          /\ c.session_state = "waiting_for_pairing" /\ Screen(msgs, ShowPairing(moon.pin))
       \/ /\ ~PairingPending(moon) /\ disp.vm_power_state \in DisplayOn
          /\ c.session_state = "reconnecting_console" /\ Screen(msgs, ShowWaiting("reconnecting"))
       \/ /\ ~PairingPending(moon) /\ disp.vm_power_state \notin DisplayOn
          /\ c.session_state = WaitingState(disp) /\ Screen(msgs, ShowWaiting("vm_stopped"))

NotesError(c, msgs) ==
    /\ Head(inbox).type = "session_error"
    /\ UNCHANGED disp /\ Powerless(msgs) /\ Fallen(c, ctl)
    /\ c.next_reconnect_at = ctl.next_reconnect_at
    /\ Screen(msgs, ShowWaiting("degraded"))

Answers(c, m, msgs) ==
    \/ Greets(c, m) /\ (GreetsDegraded(c, msgs) \/ GreetsBlind(c, msgs) \/ GreetsInformed(c, msgs))
    \/ m = moon /\ (\/ NotesStarted(c, msgs) \/ NotesApplied(c, msgs)
                    \/ NotesExited(c, msgs) \/ NotesError(c, msgs))
LEMMA HandleAnswers ==
    ASSUME TypeInv, BudgetInv, HandleMessage
    PROVE  /\ pc = "handle"
           /\ \E c \in CtlType, m \in MoonType, msgs \in Seq(DaemonMessage) :
                Handled(c, m, msgs) /\ Answers(c, m, msgs)
<1>0. ctl \in CtlType
  BY DEF TypeInv, TypeOK, DaemonTypeOK
<1>1. /\ ctl \in CtlType /\ moon \in MoonType /\ disp \in DispType /\ vm \in VmStates
      /\ disp.intent \in PowerStates /\ moon.pin \in Pins \union {NoPin}
  BY DEF TypeInv, TypeOK, DaemonTypeOK, GuestTypeOK, DispType, MoonType
<1>2. pc = "handle"
  BY DEF HandleMessage, SessionReadyDegraded, SessionReadyNoStatus, SessionReady, ConsoleStarted,
         PowerApplied, ConsoleExited, SessionError, Handling
<1>3. /\ Greeted \in CtlType /\ Greeted.session_ready /\ ~Greeted.console_running
      /\ Greeted.session_state = ctl.session_state
      /\ Greeted.degraded_reason = ctl.degraded_reason
      /\ Greeted.startup_error = ctl.startup_error
      /\ Greeted.next_reconnect_at = ctl.next_reconnect_at
  <2>1. Greeted \in CtlType
    BY <1>0, CtlUpdatesTyped DEF Greeted
  <2> QED
    BY <1>1, <2>1 DEF Greeted, CtlType
<1>4. /\ MoonGreeted \in MoonType /\ MoonGreeted.pair_state = moon.pair_state
      /\ MoonGreeted.pin = moon.pin
  <2>1. MoonGreeted \in MoonType
    BY <1>1, MoonTyped DEF MoonGreeted
  <2> QED
    BY <1>1, <2>1 DEF MoonGreeted, MoonType
<1>5. /\ \A p : WaitingState(p) \in SessionStates /\ WaitingState(p) # "degraded"
      /\ {"degraded", "waiting_for_pairing", "reconnecting_console", "requesting_console",
          "showing_console"} \subseteq SessionStates
      /\ "session" \in Reasons
  BY DEF WaitingState, SessionStates, Reasons
<1>6. /\ \A r \in {"degraded", "vm_stopped", "reconnecting", "connecting"} :
           /\ ShowWaiting(r) \in DaemonMessage /\ <<ShowWaiting(r)>> \in Seq(DaemonMessage)
           /\ Screen(<<ShowWaiting(r)>>, ShowWaiting(r)) /\ Powerless(<<ShowWaiting(r)>>)
      /\ ShowPairing(moon.pin) \in DaemonMessage /\ <<ShowPairing(moon.pin)>> \in Seq(DaemonMessage)
      /\ Screen(<<ShowPairing(moon.pin)>>, ShowPairing(moon.pin))
      /\ Powerless(<<ShowPairing(moon.pin)>>)
  <2>1. /\ \A r \in {"degraded", "vm_stopped", "reconnecting", "connecting"} :
             ShowWaiting(r) \in DaemonMessage
        /\ ShowPairing(moon.pin) \in DaemonMessage
    BY <1>1, MessagesTyped DEF WaitingReasons
  <2> QED
    BY <2>1, SingleMessages, MessageTypes
<1>7. /\ DisplayPower(disp.intent) \in DaemonMessage
      /\ <<DisplayPower(disp.intent)>> \in Seq(DaemonMessage)
      /\ Silent(<<DisplayPower(disp.intent)>>)
      /\ PowerEnds(<<DisplayPower(disp.intent)>>, disp.intent)
  BY <1>1, MessagesTyped, SingleMessages
<1>8. SUFFICES \E c \in CtlType, m \in MoonType, msgs \in Seq(DaemonMessage) :
                 Handled(c, m, msgs) /\ Answers(c, m, msgs)
  BY <1>2
<1>9. CASE SessionReadyDegraded
  <2> DEFINE c == Transition(Greeted, "degraded")
             msgs == <<ShowWaiting("degraded")>>
  <2>1. /\ c \in CtlType /\ Moved(c, Greeted, "degraded")
        /\ c.next_reconnect_at = Greeted.next_reconnect_at
    BY <1>3, <1>5, CtlTyped, MethodFields
  <2>2. /\ Handled(c, MoonGreeted, msgs) /\ Faulted(ctl) /\ UNCHANGED disp
        /\ Head(inbox).type = "session_ready"
    BY <1>9 DEF SessionReadyDegraded, Handling
  <2>3. /\ Screen(msgs, ShowWaiting("degraded")) /\ Powerless(msgs)
        /\ msgs \in Seq(DaemonMessage)
    BY <1>6
  <2> HIDE DEF c, msgs
  <2>4. Greets(c, MoonGreeted) /\ GreetsDegraded(c, msgs)
    BY <1>3, <1>4, <2>1, <2>2, <2>3 DEF Greets, GreetsDegraded, Moved
  <2> QED
    BY <1>4, <2>1, <2>2, <2>3, <2>4 DEF Answers
<1>10. CASE SessionReadyNoStatus
  <2> DEFINE d == RecordFailure(Greeted)
             degraded == d.session_state = "degraded"
             c == IF degraded THEN d ELSE Transition(d, WaitingState(disp))
             mid == IF degraded THEN DegradedMessages(Greeted) ELSE <<>>
             last == ShowWaiting(IF degraded THEN "degraded" ELSE "vm_stopped")
             msgs == <<DisplayPower(disp.intent)>> \o mid \o <<last>>
  <2>1. /\ d \in CtlType /\ d.session_ready /\ ~d.console_running
        /\ d.startup_error = ctl.startup_error
        /\ d.next_reconnect_at = ctl.next_reconnect_at
    BY <1>3, CtlTyped, MethodFields DEF Alike, Fallen
  <2>2. /\ Handled(c, MoonGreeted, msgs) /\ ~Faulted(ctl) /\ UNCHANGED disp /\ Spend("qm")
        /\ Head(inbox).type = "session_ready"
    BY <1>10 DEF SessionReadyNoStatus, Handling
  <2>3. ~Unspent({"qm"})'
    BY <2>2, SpendSpends DEF EventKinds
  <2>4. /\ last \in DaemonMessage /\ <<last>> \in Seq(DaemonMessage)
        /\ Screen(<<last>>, last) /\ Powerless(<<last>>)
    BY <1>6
  <2>5. /\ mid \in Seq(DaemonMessage) /\ Powerless(mid)
        /\ Silent(mid) \/ (degraded /\ Screen(mid, last))
    BY DegradedTyped, FailureScreen, SingleMessages
  <2>6. c \in CtlType /\ Greets(c, MoonGreeted)
    <3>1. CASE degraded
      BY <1>4, <2>1, <2>2, <3>1 DEF Greets
    <3>2. CASE ~degraded
      <4>1. /\ Transition(d, WaitingState(disp)) \in CtlType
            /\ Moved(Transition(d, WaitingState(disp)), d, WaitingState(disp))
            /\ Transition(d, WaitingState(disp)).next_reconnect_at = d.next_reconnect_at
        <5> HIDE DEF d
        <5> QED
          BY <1>5, <2>1, CtlTyped, MethodFields
      <4>2. c = Transition(d, WaitingState(disp))
        BY <3>2
      <4> HIDE DEF d, c
      <4> QED
        BY <1>4, <2>1, <2>2, <4>1, <4>2 DEF Greets, Moved
    <3> QED
      BY <3>1, <3>2
  <2>7. \/ degraded /\ c.session_state = "degraded" /\ last = ShowWaiting("degraded")
        \/ /\ ~degraded /\ c.session_state = WaitingState(disp) /\ c.degraded_reason = "none"
           /\ last = ShowWaiting("vm_stopped")
    <3>1. CASE degraded
      BY <3>1
    <3>2. CASE ~degraded
      <4>1. Moved(Transition(d, WaitingState(disp)), d, WaitingState(disp))
        <5> HIDE DEF d
        <5> QED
          BY <1>5, <2>1, CtlTyped, MethodFields
      <4> QED
        BY <1>5, <3>2, <4>1 DEF Moved
    <3> QED
      BY <3>1, <3>2
  <2> DEFINE first == <<DisplayPower(disp.intent)>>
  <2>8. /\ first \in Seq(DaemonMessage) /\ Silent(first) /\ PowerEnds(first, disp.intent)
    BY <1>7
  <2> HIDE DEF c, d, degraded, mid, last, first
  <2>9. /\ first \o mid \in Seq(DaemonMessage) /\ (first \o mid) \o <<last>> \in Seq(DaemonMessage)
    BY <2>4, <2>5, <2>8
  <2>10. PowerEnds((first \o mid) \o <<last>>, disp.intent)
    <3>1. PowerEnds(first \o mid, disp.intent)
      BY <2>5, <2>8, PowerConcat
    <3> QED
      BY <2>4, <2>9, <3>1, PowerConcat
  <2>11. Screen((first \o mid) \o <<last>>, last)
    <3>1. Silent(first \o mid) \/ Screen(first \o mid, last)
      BY <2>5, <2>8, ScreenConcat
    <3>2. LastIn(<<last>>, ScreenTypes, {last}) /\ Has(<<last>>, ScreenTypes)
      BY <2>4, LastHas DEF Screen
    <3>3. LastIn((first \o mid) \o <<last>>, ScreenTypes, {last})
      BY <2>4, <2>9, <3>2, LastConcat
    <3>4. Has((first \o mid) \o <<last>>, {"connect_console"}) => last.type = "connect_console"
      <4>1. Has((first \o mid) \o <<last>>, {"connect_console"}) <=>
              Has(first \o mid, {"connect_console"}) \/ Has(<<last>>, {"connect_console"})
        BY <2>4, <2>9, HasConcat
      <4>2. Silent(first \o mid) => ~Has(first \o mid, {"connect_console"})
        BY HasFewer DEF Silent, ScreenTypes
      <4> QED
        BY <2>4, <3>1, <4>1, <4>2 DEF Screen
    <3> QED
      BY <3>3, <3>4 DEF Screen
  <2>12. msgs = (first \o mid) \o <<last>>
    BY DEF first
  <2> HIDE DEF msgs
  <2>13. GreetsBlind(c, msgs)
    BY <2>2, <2>3, <2>7, <2>10, <2>11, <2>12 DEF GreetsBlind
  <2> QED
    BY <1>4, <2>2, <2>6, <2>9, <2>12, <2>13 DEF Answers
<1>11. CASE SessionReady
  <2> DEFINE d == ClearFailures(Greeted)
  <2>1. /\ d \in CtlType /\ d.session_ready /\ ~d.console_running
        /\ d.startup_error = ctl.startup_error
        /\ d.next_reconnect_at = ctl.next_reconnect_at
    BY <1>3, CtlTyped, MethodFields DEF Alike
  <2>2. /\ Head(inbox).type = "session_ready" /\ ~Faulted(ctl)
        /\ disp' = RecordPowerState(disp, vm)
    BY <1>11 DEF SessionReady, Handling
  <2>3. disp'.vm_power_state = vm /\ disp'.intent = disp.intent /\ disp'.applied = disp.applied
    BY <1>1, <2>2 DEF RecordPowerState, DispType
  <2>4. ASSUME NEW state \in SessionStates, state # "degraded", NEW msg \in DaemonMessage
        PROVE  /\ Transition(d, state) \in CtlType /\ Greets(Transition(d, state), MoonGreeted)
               /\ Transition(d, state).session_state = state
               /\ Transition(d, state).degraded_reason = "none"
    <3>1. /\ Transition(d, state) \in CtlType /\ Moved(Transition(d, state), d, state)
          /\ Transition(d, state).next_reconnect_at = d.next_reconnect_at
      <4> HIDE DEF d
      <4> QED
        BY <2>1, CtlTyped, MethodFields
    <3> HIDE DEF d
    <3> QED
      BY <1>4, <2>1, <2>2, <2>4, <3>1 DEF Greets, Moved
  <2>5. ASSUME NEW msg \in DaemonMessage, Screen(<<msg>>, msg), Powerless(<<msg>>)
        PROVE  /\ <<DisplayPower(disp.intent), msg>> \in Seq(DaemonMessage)
               /\ Screen(<<DisplayPower(disp.intent), msg>>, msg)
               /\ PowerEnds(<<DisplayPower(disp.intent), msg>>, disp.intent)
    <3> DEFINE first == <<DisplayPower(disp.intent)>>
    <3>1. <<DisplayPower(disp.intent), msg>> = first \o <<msg>>
      BY <1>7, <2>5
    <3>2. /\ first \in Seq(DaemonMessage) /\ <<msg>> \in Seq(DaemonMessage)
          /\ Silent(first) /\ PowerEnds(first, disp.intent)
      BY <1>7
    <3> HIDE DEF first
    <3>3. /\ first \o <<msg>> \in Seq(DaemonMessage) /\ Screen(first \o <<msg>>, msg)
          /\ PowerEnds(first \o <<msg>>, disp.intent)
      <4>1. first \o <<msg>> \in Seq(DaemonMessage)
        BY <3>2
      <4>2. Screen(first \o <<msg>>, msg)
        BY <2>5, <3>2, ScreenConcat
      <4>3. PowerEnds(first \o <<msg>>, disp.intent)
        BY <2>5, <3>2, PowerConcat
      <4> QED
        BY <4>1, <4>2, <4>3
    <3> QED
      BY <3>1, <3>3
  <2>6. ASSUME NEW state \in SessionStates, state # "degraded", NEW msg \in DaemonMessage,
               Screen(<<msg>>, msg), Powerless(<<msg>>),
               Handled(Transition(d, state), MoonGreeted, <<DisplayPower(disp.intent), msg>>),
               \/ /\ vm \notin DisplayOn /\ state = WaitingState(disp)
                  /\ msg = ShowWaiting("vm_stopped")
               \/ /\ vm \in DisplayOn /\ PairingPending(moon) /\ state = "waiting_for_pairing"
                  /\ msg = ShowPairing(moon.pin)
               \/ /\ vm \in DisplayOn /\ ~PairingPending(moon)
                  /\ state \in {"reconnecting_console", "requesting_console"}
                  /\ msg \in {ShowWaiting("reconnecting"), ShowWaiting("connecting")}
        PROVE  \E c \in CtlType, m \in MoonType, msgs \in Seq(DaemonMessage) :
                 Handled(c, m, msgs) /\ Answers(c, m, msgs)
    <3> DEFINE c == Transition(d, state)
               msgs == <<DisplayPower(disp.intent), msg>>
    <3>1. /\ c \in CtlType /\ Greets(c, MoonGreeted) /\ c.session_state = state
          /\ c.degraded_reason = "none"
      BY <2>4, <2>6
    <3>2. /\ msgs \in Seq(DaemonMessage) /\ Screen(msgs, msg) /\ PowerEnds(msgs, disp.intent)
      BY <2>5, <2>6
    <3>3. Handled(c, MoonGreeted, msgs)
      BY <2>6
    <3> HIDE DEF c, msgs, d
    <3>4. GreetsInformed(c, msgs)
      BY <2>2, <2>3, <2>6, <3>1, <3>2 DEF GreetsInformed
    <3> QED
      BY <1>4, <3>1, <3>2, <3>3, <3>4 DEF Answers
  <2>7. CASE vm \notin DisplayOn
    <3>1. Handled(Transition(d, WaitingState(disp)), MoonGreeted,
                  <<DisplayPower(disp.intent), ShowWaiting("vm_stopped")>>)
      BY <1>11, <2>7 DEF SessionReady
    <3> HIDE DEF d
    <3> QED
      BY <1>5, <1>6, <2>6, <2>7, <3>1
  <2>8. CASE vm \in DisplayOn /\ PairingPending(moon)
    <3>1. Handled(Transition(d, "waiting_for_pairing"), MoonGreeted,
                  <<DisplayPower(disp.intent), ShowPairing(moon.pin)>>)
      BY <1>11, <2>8 DEF SessionReady
    <3> HIDE DEF d
    <3> QED
      BY <1>5, <1>6, <2>6, <2>8, <3>1
  <2>9. CASE vm \in DisplayOn /\ ~PairingPending(moon)
    <3>1. \/ Handled(Transition(d, "reconnecting_console"), MoonGreeted,
                     <<DisplayPower(disp.intent), ShowWaiting("reconnecting")>>)
          \/ Handled(Transition(d, "requesting_console"), MoonGreeted,
                     <<DisplayPower(disp.intent), ShowWaiting("connecting")>>)
      BY <1>11, <2>9 DEF SessionReady
    <3> HIDE DEF d
    <3> QED
      BY <1>5, <1>6, <2>6, <2>9, <3>1
  <2> QED
    BY <2>7, <2>8, <2>9
<1>12. <<>> \in Seq(DaemonMessage)
  OBVIOUS
<1>13. CASE ConsoleStarted
  <2> DEFINE d == [ctl EXCEPT !.console_running = TRUE, !.next_reconnect_at = None,
                              !.reconnect_delay = ReconnectInitial]
             state == IF PairingPending(moon) THEN "waiting_for_pairing" ELSE "showing_console"
             c == Transition(d, state)
  <2>1. /\ d \in CtlType /\ d.session_ready = ctl.session_ready /\ d.console_running
        /\ d.startup_error = ctl.startup_error /\ d.next_reconnect_at = None
    <3>1. d \in CtlType
      BY <1>0, CtlUpdatesTyped
    <3> QED
      BY <1>1, <3>1 DEF CtlType
  <2>2. /\ Handled(c, moon, <<>>) /\ UNCHANGED disp
        /\ Head(inbox).type = "console_started"
    BY <1>13 DEF ConsoleStarted, Handling
  <2>3. state \in SessionStates /\ state # "degraded"
    BY <1>5
  <2> HIDE DEF d
  <2>4. c \in CtlType /\ Moved(c, d, state) /\ c.next_reconnect_at = d.next_reconnect_at
    BY <2>1, <2>3, CtlTyped, MethodFields
  <2>5. NotesStarted(c, <<>>)
    <3>1. state = IF PairingPending(moon) THEN "waiting_for_pairing" ELSE "showing_console"
      OBVIOUS
    <3> HIDE DEF c, state
    <3> QED
      BY <2>1, <2>2, <2>3, <2>4, <3>1 DEF NotesStarted, Moved, Steady
  <2> HIDE DEF c
  <2> QED
    BY <1>1, <1>12, <2>2, <2>4, <2>5 DEF Answers
<1>14. CASE PowerApplied
  <2> DEFINE moves == ~(ctl.console_running \/ disp.vm_power_state \in DisplayOn)
             c == IF moves THEN Transition(ctl, WaitingState(disp')) ELSE ctl
  <2>1. /\ Handled(c, moon, <<>>) /\ disp' = [disp EXCEPT !.applied = Head(inbox).arg]
        /\ Head(inbox).type = "display_power_applied"
    BY <1>14 DEF PowerApplied, Handling
  <2>2. /\ disp'.applied = Head(inbox).arg /\ disp'.intent = disp.intent
        /\ disp'.vm_power_state = disp.vm_power_state
    BY <1>1, <2>1 DEF DispType
  <2>3. /\ c \in CtlType /\ c.next_reconnect_at = ctl.next_reconnect_at
        /\ moves => Moved(c, ctl, WaitingState(disp'))
        /\ ~moves => c = ctl
    BY <1>1, <1>5, CtlTyped, MethodFields
  <2>4. NotesApplied(c, <<>>)
    BY <2>1, <2>2, <2>3 DEF NotesApplied
  <2> HIDE DEF c
  <2> QED
    BY <1>1, <1>12, <2>1, <2>3, <2>4 DEF Answers
<1>15. CASE ConsoleExited
  <2> DEFINE d == [ctl EXCEPT !.console_running = FALSE]
             e == [d EXCEPT !.next_reconnect_at = None]
  <2>1. /\ d \in CtlType /\ d.session_ready = ctl.session_ready /\ ~d.console_running
        /\ d.startup_error = ctl.startup_error
    <3>1. d \in CtlType
      BY <1>0, CtlUpdatesTyped
    <3> QED
      BY <1>1, <3>1 DEF CtlType
  <2>2. e \in CtlType /\ Alike(e, d) /\ e.next_reconnect_at = None
    <3> HIDE DEF d
    <3>1. d \in CtlType
      BY <2>1
    <3>2. e \in CtlType
      BY <3>1, CtlUpdatesTyped
    <3> QED
      BY <3>1, <3>2 DEF Alike, CtlType
  <2>3. ScheduleReconnect(d) \in CtlType /\ Alike(ScheduleReconnect(d), d)
    <3> HIDE DEF d
    <3> QED
      BY <2>1, CtlTyped, MethodFields
  <2>4. Head(inbox).type = "console_exited" /\ UNCHANGED disp
    BY <1>15 DEF ConsoleExited, Handling
  <2>5. ASSUME NEW f \in CtlType, Alike(f, d), NEW state \in SessionStates, state # "degraded"
        PROVE  LET c == Transition(f, state)
               IN  /\ c \in CtlType /\ Steady(c) /\ ~c.console_running
                   /\ c.degraded_reason = "none" /\ c.session_state = state
                   /\ c.next_reconnect_at = f.next_reconnect_at
    <3>1. /\ Transition(f, state) \in CtlType /\ Moved(Transition(f, state), f, state)
          /\ Transition(f, state).next_reconnect_at = f.next_reconnect_at
      BY CtlTyped, MethodFields
    <3> HIDE DEF d
    <3> QED
      BY <2>1, <2>5, <3>1 DEF Moved, Alike, Steady
  <2>6. Alike(d, d)
    BY DEF Alike
  <2>7. ASSUME NEW f \in CtlType, Alike(f, d), NEW state \in SessionStates, state # "degraded",
               NEW msg, msg \in {ShowPairing(moon.pin), ShowWaiting("reconnecting"),
                                 ShowWaiting("vm_stopped")},
               Handled(Transition(f, state), moon, <<msg>>),
               \/ /\ PairingPending(moon) /\ f.next_reconnect_at = None
                  /\ state = "waiting_for_pairing" /\ msg = ShowPairing(moon.pin)
               \/ /\ ~PairingPending(moon) /\ disp.vm_power_state \in DisplayOn
                  /\ state = "reconnecting_console" /\ msg = ShowWaiting("reconnecting")
               \/ /\ ~PairingPending(moon) /\ disp.vm_power_state \notin DisplayOn
                  /\ state = WaitingState(disp) /\ msg = ShowWaiting("vm_stopped")
        PROVE  \E c \in CtlType, m \in MoonType, msgs \in Seq(DaemonMessage) :
                 Handled(c, m, msgs) /\ Answers(c, m, msgs)
    <3> DEFINE c == Transition(f, state)
    <3>1. /\ c \in CtlType /\ Steady(c) /\ ~c.console_running
          /\ c.degraded_reason = "none" /\ c.session_state = state
          /\ c.next_reconnect_at = f.next_reconnect_at
      BY <2>5, <2>7
    <3>2. /\ <<msg>> \in Seq(DaemonMessage) /\ Screen(<<msg>>, msg) /\ Powerless(<<msg>>)
      BY <1>6, <2>7
    <3>3. Handled(c, moon, <<msg>>)
      BY <2>7
    <3> HIDE DEF c, d
    <3>4. NotesExited(c, <<msg>>)
      BY <2>4, <2>7, <3>1, <3>2 DEF NotesExited
    <3> QED
      BY <1>1, <3>1, <3>2, <3>3, <3>4 DEF Answers
  <2>8. CASE PairingPending(moon)
    <3>1. Handled(Transition(e, "waiting_for_pairing"), moon, <<ShowPairing(moon.pin)>>)
      BY <1>15, <2>8 DEF ConsoleExited
    <3> HIDE DEF d, e
    <3> QED
      BY <1>5, <2>2, <2>7, <2>8, <3>1
  <2>9. CASE ~PairingPending(moon) /\ disp.vm_power_state \in DisplayOn
    <3>1. Handled(Transition(ScheduleReconnect(d), "reconnecting_console"), moon,
                  <<ShowWaiting("reconnecting")>>)
      BY <1>15, <2>9 DEF ConsoleExited
    <3> HIDE DEF d, e
    <3> QED
      BY <1>5, <2>3, <2>7, <2>9, <3>1
  <2>10. CASE ~PairingPending(moon) /\ disp.vm_power_state \notin DisplayOn
    <3>1. Handled(Transition(d, WaitingState(disp)), moon, <<ShowWaiting("vm_stopped")>>)
      BY <1>15, <2>10 DEF ConsoleExited
    <3> HIDE DEF d, e
    <3> QED
      BY <1>5, <2>1, <2>6, <2>7, <2>10, <3>1
  <2> QED
    BY <2>8, <2>9, <2>10
<1>16. CASE SessionError
  <2> DEFINE c == EnterDegraded(ctl, "session")
             msgs == <<ShowWaiting("degraded")>>
  <2>1. /\ c \in CtlType /\ Fallen(c, ctl) /\ c.next_reconnect_at = ctl.next_reconnect_at
    BY <1>1, <1>5, CtlTyped, MethodFields
  <2>2. Handled(c, moon, msgs) /\ UNCHANGED disp /\ Head(inbox).type = "session_error"
    BY <1>16 DEF SessionError, Handling
  <2>3. /\ Screen(msgs, ShowWaiting("degraded")) /\ Powerless(msgs)
        /\ msgs \in Seq(DaemonMessage)
    BY <1>6
  <2> HIDE DEF c, msgs
  <2>4. NotesError(c, msgs)
    BY <2>1, <2>2, <2>3 DEF NotesError
  <2> QED
    BY <1>1, <2>1, <2>2, <2>3, <2>4 DEF Answers
<1> QED
  BY <1>9, <1>10, <1>11, <1>13, <1>14, <1>15, <1>16 DEF HandleMessage
-----------------------------------------------------------------------------
(* The paths of tick(), in the same terms.                                  *)

\* A counted failure of d: degraded mode and the messages that say so, or
\* nothing to see.
FailsFrom(d, c, msgs) ==
    /\ c.next_reconnect_at = d.next_reconnect_at
    /\ \/ Fallen(c, d) /\ Screen(msgs, ShowWaiting("degraded"))
       \/ Alike(c, d) /\ Silent(msgs)

PathFaulted(c, m, msgs) ==
    Faulted(ctl) /\ UNCHANGED disp /\ c = ctl /\ m = moon /\ msgs = <<>>

PathBlind(c, m, msgs) ==
    /\ ~Faulted(ctl) /\ UNCHANGED disp /\ m = moon /\ ~Unspent({"qm"})'
    /\ FailsFrom(ctl, c, msgs) /\ Powerless(msgs)

PathAlone(c, m, msgs) ==
    /\ ~ctl.session_ready /\ m = moon /\ msgs = <<>>
    /\ Alike(c, ctl) /\ c.next_reconnect_at = ctl.next_reconnect_at

PathOff(c, m, msgs) ==
    /\ vm \in DisplayOff /\ m = Unpaired
    /\ Steady(c) /\ ~c.console_running /\ c.degraded_reason = "none"
    /\ c.session_state = WaitingState(disp')
    /\ \/ \E w \in {DisconnectConsole("vm_not_running"), ShowWaiting("vm_stopped")} :
            Screen(msgs, w)
       \/ /\ Silent(msgs) /\ ~ctl.console_running
          /\ ctl.session_state \in {"waiting_for_vm", "display_sleeping"}

PathTransitional(c, m, msgs) ==
    /\ vm \notin DisplayOff \union DisplayOn /\ m = Unpaired /\ Silent(msgs)
    /\ \/ /\ ~ctl.console_running /\ disp'.intent = "on"
          /\ Moved(c, ctl, WaitingState(disp'))
       \/ /\ ctl.console_running \/ disp'.intent = "off"
          /\ Alike(c, ctl)

PathShowing(c, m, msgs) ==
    /\ ctl.console_running /\ ~PairingPending(moon) /\ m = moon /\ Silent(msgs)
    /\ Moved(c, ctl, "showing_console")

PathBackoff(c, m, msgs) ==
    /\ ~ctl.console_running /\ ctl.next_reconnect_at > 0 /\ m = moon /\ Silent(msgs)
    /\ Moved(c, ctl, "reconnecting_console")
    /\ c.next_reconnect_at = ctl.next_reconnect_at

\* A console is prepared.
Due == IF ctl.console_running THEN PairingPending(moon) ELSE ctl.next_reconnect_at =< 0

PathUnreachable(c, m, msgs) ==
    /\ Due /\ m = Unpaired /\ Screen(msgs, ShowWaiting("reconnecting"))
    /\ Moved(c, ctl, "reconnecting_console")

PathPairIssue(c, m, msgs) ==
    /\ Due /\ Backend = "moonlight" /\ PairingPending(m)
    /\ Screen(msgs, ConnectPair(m.pin))
    /\ Moved(c, ctl, "waiting_for_pairing") /\ c.next_reconnect_at = None

PathPairWait(c, m, msgs) ==
    /\ Due /\ PairingPending(moon) /\ m = moon
    /\ \/ ctl.session_state = "waiting_for_pairing" /\ Silent(msgs)
       \/ Screen(msgs, ShowPairing(moon.pin))
    /\ Moved(c, ctl, "waiting_for_pairing") /\ c.next_reconnect_at = None

PathLaunch(c, m, msgs) ==
    /\ Due /\ Screen(msgs, ConnectStream)
    /\ IF Backend = "moonlight" THEN m.pair_state = "paired" ELSE m = moon
    /\ Moved(c, ctl, "requesting_console") /\ c.next_reconnect_at = None

PathEndpoint(c, m, msgs) ==
    /\ Due /\ Backend = "vnc" /\ m = moon /\ Screen(msgs, ShowWaiting("reconnecting"))
    /\ Moved(c, ctl, "reconnecting_console")

PathInvalid(c, m, msgs) ==
    /\ Due /\ ~Unspent(Degrading)'
    /\ IF Backend = "moonlight" THEN m.pair_state = "paired" ELSE m = moon
    /\ Fallen(c, ctl) /\ Screen(msgs, ShowWaiting("degraded"))

PathRefused(c, m, msgs) ==
    /\ Due /\ ~Unspent(Degrading)' /\ Backend # "moonlight" /\ m = moon
    /\ \E d : Moved(d, ctl, "requesting_console") /\ FailsFrom(d, c, msgs)

\* A session is connected and the VM's status is known.
PathInformed(c, m, msgs) ==
    \/ PathOff(c, m, msgs) \/ PathTransitional(c, m, msgs)
    \/ /\ vm \in DisplayOn
       /\ \/ PathShowing(c, m, msgs) \/ PathBackoff(c, m, msgs) \/ PathUnreachable(c, m, msgs)
          \/ PathPairIssue(c, m, msgs) \/ PathPairWait(c, m, msgs) \/ PathLaunch(c, m, msgs)
          \/ PathEndpoint(c, m, msgs) \/ PathInvalid(c, m, msgs) \/ PathRefused(c, m, msgs)

Takes(c, m, msgs) ==
    /\ ctl.session_ready => Announced(msgs)
    /\ \/ PathFaulted(c, m, msgs)
       \/ PathBlind(c, m, msgs)
       \/ /\ ~Faulted(ctl) /\ disp' = Decided
          /\ disp'.vm_power_state = vm /\ disp'.applied = disp.applied
          /\ \/ PathAlone(c, m, msgs)
             \/ ctl.session_ready /\ PathInformed(c, m, msgs)

LEMMA TickTakes ==
    ASSUME TypeInv, BudgetInv, Tick
    PROVE  /\ pc = "tick"
           /\ \E c \in CtlType, m \in MoonType, msgs \in Seq(DaemonMessage) :
                Ticked(c, m, msgs) /\ Takes(c, m, msgs)
<1>0. ctl \in CtlType
  BY DEF TypeInv, TypeOK, DaemonTypeOK
<1>1. /\ moon \in MoonType /\ disp \in DispType /\ vm \in VmStates
      /\ moon.pin \in Pins \union {NoPin}
  BY DEF TypeInv, TypeOK, DaemonTypeOK, GuestTypeOK, MoonType
<1> DEFINE Goal == \E c \in CtlType, m \in MoonType, msgs \in Seq(DaemonMessage) :
                     Ticked(c, m, msgs) /\ Takes(c, m, msgs)
<1>2. /\ Observed \in CtlType /\ Alike(Observed, ctl)
      /\ Observed.next_reconnect_at = ctl.next_reconnect_at
  BY <1>0, CtlTyped, MethodFields DEF Observed
<1>3. Launching \in CtlType /\ Alike(Launching, ctl) /\ Launching.next_reconnect_at = None
  <2>1. Observed \in CtlType
    BY <1>2
  <2>2. Launching \in CtlType
    BY <2>1, CtlUpdatesTyped DEF Launching
  <2> QED
    BY <1>2, <2>1, <2>2 DEF Launching, Alike, CtlType
<1>4. /\ \A p : WaitingState(p) \in SessionStates /\ WaitingState(p) # "degraded"
      /\ {"degraded", "waiting_for_pairing", "reconnecting_console", "requesting_console",
          "showing_console"} \subseteq SessionStates
      /\ "console" \in Reasons /\ "console" # "none"
  BY DEF WaitingState, SessionStates, Reasons
<1>5. ASSUME NEW f \in CtlType, Alike(f, ctl), NEW state \in SessionStates
      PROVE  /\ Transition(f, state) \in CtlType /\ Moved(Transition(f, state), ctl, state)
             /\ Transition(f, state).next_reconnect_at = f.next_reconnect_at
  <2>1. /\ Transition(f, state) \in CtlType /\ Moved(Transition(f, state), f, state)
        /\ Transition(f, state).next_reconnect_at = f.next_reconnect_at
    BY CtlTyped, MethodFields
  <2> QED
    BY <1>5, <2>1 DEF Moved, Alike
<1>6. ScheduleReconnect(Observed) \in CtlType /\ Alike(ScheduleReconnect(Observed), ctl)
  <2>1. /\ ScheduleReconnect(Observed) \in CtlType
        /\ Alike(ScheduleReconnect(Observed), Observed)
    BY <1>2, CtlTyped, MethodFields
  <2> QED
    BY <1>2, <2>1 DEF Alike
<1>7. ASSUME NEW w \in DaemonMessage, w.type \in ScreenTypes, disp' = Decided
      PROVE  /\ PowerMessages \o <<w>> \in Seq(DaemonMessage)
             /\ Append(PowerMessages, w) = PowerMessages \o <<w>>
             /\ Screen(PowerMessages \o <<w>>, w) /\ Announced(PowerMessages \o <<w>>)
  <2>1. PowerMessages \in Seq(DaemonMessage) /\ Silent(PowerMessages)
    BY <1>7, PowerAnnounced
  <2>2. <<w>> \in Seq(DaemonMessage) /\ Screen(<<w>>, w) /\ Powerless(<<w>>)
    BY <1>7, SingleMessages
  <2>3. PowerMessages \o <<w>> \in Seq(DaemonMessage)
    BY <2>1, <2>2
  <2>4. Append(PowerMessages, w) = PowerMessages \o <<w>>
    BY <1>7, <2>1
  <2>5. Screen(PowerMessages \o <<w>>, w)
    BY <2>1, <2>2, ScreenConcat
  <2>6. Announced(PowerMessages \o <<w>>)
    BY <1>7, <2>2, PowerAnnounced
  <2> QED
    BY <2>3, <2>4, <2>5, <2>6
<1>8. /\ \A r \in {"vm_stopped", "reconnecting", "degraded"} :
           ShowWaiting(r) \in DaemonMessage /\ ShowWaiting(r).type \in ScreenTypes
      /\ DisconnectConsole("vm_not_running") \in DaemonMessage
      /\ DisconnectConsole("vm_not_running").type \in ScreenTypes
      /\ \A p \in Pins \union {NoPin} :
           /\ ShowPairing(p) \in DaemonMessage /\ ShowPairing(p).type \in ScreenTypes
           /\ ConnectPair(p) \in DaemonMessage /\ ConnectPair(p).type \in ScreenTypes
      /\ ConnectStream \in DaemonMessage /\ ConnectStream.type \in ScreenTypes
  BY MessagesTyped, MessageTypes DEF WaitingReasons
<1>9. /\ Unpaired \in MoonType /\ MoonLaunching \in MoonType
      /\ IF Backend = "moonlight" THEN MoonLaunching.pair_state = "paired"
         ELSE MoonLaunching = moon
  <2>1. Paired.pair_state = "paired"
    BY DEF Paired, MoonInit
  <2> QED
    BY <1>1, <2>1, MoonTyped DEF MoonLaunching
<1>10. pc = "tick"
  BY DEF Tick, TickDegraded, TickNoStatus, TickNoSession, TickVmOff, TickTransitional,
         TickShowing, TickBackoff, TickHostUnreachable, TickPairIssue, TickPairWait,
         TickLaunch, TickEndpointUnavailable, TickLaunchInvalid, TickLaunchRefused,
         TickPairing, TickLaunching, TickPrepare, TickVmOn, TickStatus
<1>11. <<>> \in Seq(DaemonMessage) /\ Silent(<<>>) /\ Powerless(<<>>)
  BY SingleMessages
<1>12. ASSUME TickStatus
       PROVE  /\ ~Faulted(ctl) /\ disp' = Decided
              /\ disp'.vm_power_state = vm /\ disp'.applied = disp.applied
              /\ PowerMessages \in Seq(DaemonMessage) /\ Silent(PowerMessages)
              /\ Announced(PowerMessages)
  <2>1. ~Faulted(ctl) /\ disp' = Decided
    BY <1>12 DEF TickStatus
  <2>2. RecordPowerState(disp, vm) \in DispType
    BY <1>1, DispTyped
  <2>3. /\ RecordPowerState(disp, vm).vm_power_state = vm
        /\ RecordPowerState(disp, vm).applied = disp.applied
    BY <1>1 DEF RecordPowerState, DispType
  <2>4. /\ Decided.vm_power_state = vm /\ Decided.applied = disp.applied
    <3> DEFINE p == RecordPowerState(disp, vm)
    <3> HIDE DEF p
    <3>1. /\ UpdateIntent(p, Refreshed).vm_power_state = p.vm_power_state
          /\ UpdateIntent(p, Refreshed).applied = p.applied
      BY <2>2 DEF UpdateIntent, DispType, p
    <3> QED
      BY <2>3, <3>1 DEF Decided, p
  <2> QED
    BY <2>1, <2>4, PowerAnnounced
<1>13. ASSUME NEW c \in CtlType, NEW m \in MoonType, NEW msgs \in Seq(DaemonMessage),
              TickStatus, ctl.session_ready, Ticked(c, m, msgs), Announced(msgs),
              PathInformed(c, m, msgs)
       PROVE  Goal
  BY <1>12, <1>13 DEF Takes
<1> SUFFICES Goal
  BY <1>10
<1>14. CASE TickDegraded
  <2>1. Ticked(ctl, moon, <<>>) /\ Faulted(ctl) /\ UNCHANGED disp
    BY <1>14 DEF TickDegraded
  <2>2. Announced(<<>>) /\ PathFaulted(ctl, moon, <<>>)
    BY <1>11, <2>1 DEF Announced, PathFaulted
  <2> QED
    BY <1>0, <1>1, <1>11, <2>1, <2>2 DEF Takes
<1>15. CASE TickNoStatus
  <2> DEFINE c == RecordFailure(ctl)
             msgs == FailureMessages(ctl)
  <2>1. /\ Ticked(c, moon, msgs) /\ ~Faulted(ctl) /\ UNCHANGED disp /\ Spend("qm")
    BY <1>15 DEF TickNoStatus
  <2>2. c \in CtlType /\ msgs \in Seq(DaemonMessage)
    BY <1>0, CtlTyped, DegradedTyped
  <2>3. FailsFrom(ctl, c, msgs) /\ Powerless(msgs)
    BY <1>0, <1>11, MethodFields, FailureScreen DEF FailsFrom
  <2>4. ~Unspent({"qm"})'
    BY <2>1, SpendSpends DEF EventKinds
  <2> HIDE DEF c, msgs
  <2>5. Announced(msgs) /\ PathBlind(c, moon, msgs)
    BY <2>1, <2>3, <2>4 DEF Announced, PathBlind
  <2> QED
    BY <1>1, <2>1, <2>2, <2>5 DEF Takes
<1>16. CASE TickNoSession
  <2>1. TickStatus /\ ~ctl.session_ready /\ Ticked(Observed, moon, <<>>)
    BY <1>16 DEF TickNoSession
  <2>2. PathAlone(Observed, moon, <<>>)
    BY <1>2, <2>1 DEF PathAlone
  <2> QED
    BY <1>1, <1>2, <1>11, <1>12, <2>1, <2>2 DEF Takes
<1>17. CASE TickVmOff
  <2> DEFINE d == [Observed EXCEPT !.next_reconnect_at = None, !.reconnect_delay = ReconnectInitial,
                                   !.console_running = FALSE]
             c == Transition(d, WaitingState(Decided))
             stop == DisconnectConsole("vm_not_running")
             wait == ShowWaiting("vm_stopped")
             first == IF ctl.console_running THEN <<stop>> ELSE <<>>
             second == IF ctl.session_state \in {"waiting_for_vm", "display_sleeping"}
                       THEN <<>> ELSE <<wait>>
  <2>1. /\ TickStatus /\ ctl.session_ready /\ vm \in DisplayOff
        /\ Ticked(c, Unpaired, first \o second \o PowerMessages)
    BY <1>17 DEF TickVmOff, VmOffMessages
  <2>2. d \in CtlType /\ Steady(d) /\ ~d.console_running
    <3>1. Observed \in CtlType
      BY <1>2
    <3>2. d \in CtlType
      BY <3>1, CtlUpdatesTyped
    <3> QED
      BY <1>2, <3>1, <3>2 DEF Steady, Alike, CtlType
  <2>3. /\ c \in CtlType /\ Steady(c) /\ ~c.console_running /\ c.degraded_reason = "none"
        /\ c.session_state = WaitingState(Decided)
    <3> HIDE DEF d
    <3>1. c \in CtlType /\ Moved(c, d, WaitingState(Decided))
      BY <1>4, <2>2, CtlTyped, MethodFields
    <3> HIDE DEF c
    <3> QED
      BY <1>4, <2>2, <3>1 DEF Moved, Steady
  <2>4. /\ <<stop>> \in Seq(DaemonMessage) /\ Powerless(<<stop>>) /\ Screen(<<stop>>, stop)
        /\ <<wait>> \in Seq(DaemonMessage) /\ Powerless(<<wait>>) /\ Screen(<<wait>>, wait)
        /\ wait.type \in Stops /\ stop.type \in Stops
    BY <1>8, SingleMessages, MessageTypes
  <2>5. /\ first \in Seq(DaemonMessage) /\ Powerless(first)
        /\ second \in Seq(DaemonMessage) /\ Powerless(second)
        /\ Silent(first) \/ Screen(first, stop)
        /\ Silent(second) \/ Screen(second, wait)
        /\ ctl.console_running \/ ctl.session_state \notin {"waiting_for_vm", "display_sleeping"}
             => Screen(first, stop) \/ Screen(second, wait)
    <3> HIDE DEF stop, wait
    <3> QED
      BY <1>11, <2>4
  <2> HIDE DEF d, c, first, second
  <2>6. /\ first \o second \in Seq(DaemonMessage) /\ Powerless(first \o second)
        /\ \/ Screen(first \o second, wait) \/ Screen(first \o second, stop)
           \/ /\ Silent(first \o second) /\ ~ctl.console_running
              /\ ctl.session_state \in {"waiting_for_vm", "display_sleeping"}
    <3>1. first \o second \in Seq(DaemonMessage)
      BY <2>5
    <3>2. Powerless(first \o second)
      BY <2>5, PowerConcat
    <3>3. ASSUME Screen(first, stop), Screen(second, wait) PROVE Screen(first \o second, wait)
      <4>1. LastIn(first \o second, ScreenTypes, {wait})
        BY <2>5, <3>3, LastConcat DEF Screen
      <4>2. stop.type # "connect_console" /\ wait.type # "connect_console"
        BY <2>4 DEF Stops
      <4>3. ~Has(first \o second, {"connect_console"})
        BY <2>5, <3>3, <4>2, HasConcat DEF Screen
      <4> QED
        BY <4>1, <4>3 DEF Screen
    <3> HIDE DEF stop, wait
    <3>4. /\ Silent(first) /\ Screen(second, wait) => Screen(first \o second, wait)
          /\ Screen(first, stop) /\ Silent(second) => Screen(first \o second, stop)
          /\ Silent(first) /\ Silent(second) => Silent(first \o second)
      BY <2>5, ScreenConcat
    <3>5. \A m : ~(Silent(first) /\ Screen(first, m)) /\ ~(Silent(second) /\ Screen(second, m))
      BY LastHas DEF Silent, Screen
    <3> QED
      BY <2>5, <3>1, <3>2, <3>3, <3>4, <3>5
  <2> DEFINE pre == first \o second
             msgs == pre \o PowerMessages
  <2>7. msgs \in Seq(DaemonMessage) /\ Announced(msgs)
    <3> HIDE DEF pre
    <3>1. pre \in Seq(DaemonMessage) /\ Powerless(pre)
      BY <2>6 DEF pre
    <3> QED
      BY <1>12, <2>1, <3>1, PowerAnnounced
  <2>8. \/ Screen(msgs, wait) \/ Screen(msgs, stop)
        \/ /\ Silent(msgs) /\ ~ctl.console_running
           /\ ctl.session_state \in {"waiting_for_vm", "display_sleeping"}
    <3> HIDE DEF pre, stop, wait
    <3>1. /\ pre \in Seq(DaemonMessage)
          /\ \/ Screen(pre, wait) \/ Screen(pre, stop)
             \/ /\ Silent(pre) /\ ~ctl.console_running
                /\ ctl.session_state \in {"waiting_for_vm", "display_sleeping"}
      BY <2>6 DEF pre
    <3>2. PowerMessages \in Seq(DaemonMessage) /\ Silent(PowerMessages)
      BY <1>12, <2>1
    <3>3. /\ Screen(pre, wait) => Screen(msgs, wait)
          /\ Screen(pre, stop) => Screen(msgs, stop)
          /\ Silent(pre) => Silent(msgs)
      BY <3>1, <3>2, ScreenConcat
    <3> QED
      BY <3>1, <3>3
  <2>9. Ticked(c, Unpaired, msgs)
    BY <2>1
  <2> HIDE DEF msgs
  <2>10. PathOff(c, Unpaired, msgs)
    BY <1>12, <2>1, <2>3, <2>8 DEF PathOff
  <2> QED
    BY <1>9, <1>13, <2>1, <2>3, <2>7, <2>9, <2>10 DEF PathInformed
<1>18. CASE TickTransitional
  <2> DEFINE c == IF ~ctl.console_running /\ Decided.intent = "on"
                  THEN Transition(Observed, WaitingState(Decided)) ELSE Observed
  <2>1. /\ TickStatus /\ ctl.session_ready /\ vm \notin DisplayOff \union DisplayOn
        /\ Ticked(c, Unpaired, PowerMessages)
    BY <1>18 DEF TickTransitional
  <2>2. /\ c \in CtlType
        /\ \/ /\ ~ctl.console_running /\ Decided.intent = "on"
              /\ Moved(c, ctl, WaitingState(Decided))
           \/ (ctl.console_running \/ Decided.intent = "off") /\ Alike(c, ctl)
    BY <1>2, <1>4, <1>5, DecidedTyped DEF PowerStates
  <2> HIDE DEF c
  <2>3. PathTransitional(c, Unpaired, PowerMessages)
    BY <1>12, <2>1, <2>2 DEF PathTransitional
  <2> QED
    BY <1>9, <1>12, <1>13, <2>1, <2>2, <2>3 DEF PathInformed
<1>19. CASE TickShowing
  <2> DEFINE c == Transition(Observed, "showing_console")
  <2>1. /\ TickStatus /\ ctl.session_ready /\ vm \in DisplayOn
        /\ ctl.console_running /\ ~PairingPending(moon)
        /\ Ticked(c, moon, PowerMessages)
    BY <1>19 DEF TickShowing, TickVmOn
  <2>2. c \in CtlType /\ Moved(c, ctl, "showing_console")
    BY <1>2, <1>4, <1>5
  <2> HIDE DEF c
  <2>3. PathShowing(c, moon, PowerMessages)
    BY <1>12, <2>1, <2>2 DEF PathShowing
  <2> QED
    BY <1>1, <1>12, <1>13, <2>1, <2>2, <2>3 DEF PathInformed
<1>20. CASE TickBackoff
  <2> DEFINE c == Transition(Observed, "reconnecting_console")
  <2>1. /\ TickStatus /\ ctl.session_ready /\ vm \in DisplayOn
        /\ ~ctl.console_running /\ ctl.next_reconnect_at > 0
        /\ Ticked(c, moon, PowerMessages)
    BY <1>20 DEF TickBackoff, TickVmOn
  <2>2. /\ c \in CtlType /\ Moved(c, ctl, "reconnecting_console")
        /\ c.next_reconnect_at = ctl.next_reconnect_at
    BY <1>2, <1>4, <1>5
  <2> HIDE DEF c
  <2>3. PathBackoff(c, moon, PowerMessages)
    BY <1>12, <2>1, <2>2 DEF PathBackoff
  <2> QED
    BY <1>1, <1>12, <1>13, <2>1, <2>2, <2>3 DEF PathInformed
<1>21. TickPrepare => TickStatus /\ ctl.session_ready /\ vm \in DisplayOn /\ Due
  BY DEF TickPrepare, TickVmOn, Due
<1>22. CASE TickHostUnreachable
  <2> DEFINE c == Transition(ScheduleReconnect(Observed), "reconnecting_console")
             w == ShowWaiting("reconnecting")
             msgs == PowerMessages \o <<w>>
  <2>1. TickPrepare /\ Ticked(c, Unpaired, msgs)
    BY <1>22 DEF TickHostUnreachable, TickPairing
  <2>2. c \in CtlType /\ Moved(c, ctl, "reconnecting_console")
    BY <1>4, <1>5, <1>6
  <2>3. msgs \in Seq(DaemonMessage) /\ Screen(msgs, w) /\ Announced(msgs)
    BY <1>7, <1>8, <1>12, <1>21, <2>1
  <2> HIDE DEF c, msgs
  <2>4. PathUnreachable(c, Unpaired, msgs)
    BY <1>21, <2>1, <2>2, <2>3 DEF PathUnreachable
  <2> QED
    BY <1>9, <1>13, <1>21, <2>1, <2>2, <2>3, <2>4 DEF PathInformed
<1>23. CASE TickPairIssue
  <2> DEFINE c == Transition(Launching, "waiting_for_pairing")
  <2>1. PICK pin \in Pins :
          Ticked(c, [pair_state |-> "pending_pin_approval", pin |-> pin,
                     requested |-> 0, launch_pending |-> TRUE],
                 Append(PowerMessages, ConnectPair(pin)))
    BY <1>23 DEF TickPairIssue, Launching, PairLaunch
  <2> DEFINE m == [pair_state |-> "pending_pin_approval", pin |-> pin,
                   requested |-> 0, launch_pending |-> TRUE]
             w == ConnectPair(pin)
             msgs == PowerMessages \o <<w>>
  <2>2. TickPrepare /\ Backend = "moonlight"
    BY <1>23 DEF TickPairIssue, TickPairing
  <2>3. /\ c \in CtlType /\ Moved(c, ctl, "waiting_for_pairing")
        /\ c.next_reconnect_at = None
    BY <1>3, <1>4, <1>5
  <2>4. /\ msgs \in Seq(DaemonMessage) /\ Screen(msgs, w) /\ Announced(msgs)
        /\ Append(PowerMessages, w) = msgs
    BY <1>7, <1>8, <1>12, <1>21, <2>2
  <2>5. m \in MoonType /\ m.pin = pin /\ PairingPending(m)
    BY MoonTyped DEF PairingPending
  <2>6. Ticked(c, m, msgs)
    BY <2>1, <2>4
  <2> HIDE DEF c, msgs, m
  <2>7. PathPairIssue(c, m, msgs)
    BY <1>21, <2>2, <2>3, <2>4, <2>5 DEF PathPairIssue
  <2> QED
    BY <1>13, <1>21, <2>2, <2>3, <2>4, <2>5, <2>6, <2>7 DEF PathInformed
<1>24. CASE TickPairWait
  <2> DEFINE c == Transition(Launching, "waiting_for_pairing")
             w == ShowPairing(moon.pin)
             msgs == IF ctl.session_state = "waiting_for_pairing" THEN PowerMessages
                     ELSE PowerMessages \o <<w>>
  <2>1. TickPrepare /\ PairingPending(moon)
    BY <1>24 DEF TickPairWait, TickPairing, PairIssueDue
  <2>2. /\ PowerMessages \o <<w>> \in Seq(DaemonMessage) /\ Screen(PowerMessages \o <<w>>, w)
        /\ Announced(PowerMessages \o <<w>>)
        /\ Append(PowerMessages, w) = PowerMessages \o <<w>>
    BY <1>1, <1>7, <1>8, <1>12, <1>21, <2>1
  <2>3. Ticked(c, moon, IF ctl.session_state = "waiting_for_pairing" THEN PowerMessages
                        ELSE Append(PowerMessages, w))
    BY <1>24 DEF TickPairWait, Launching
  <2>4. Ticked(c, moon, msgs)
    BY <2>2, <2>3
  <2>5. /\ c \in CtlType /\ Moved(c, ctl, "waiting_for_pairing")
        /\ c.next_reconnect_at = None
    BY <1>3, <1>4, <1>5
  <2>6. /\ msgs \in Seq(DaemonMessage) /\ Announced(msgs)
        /\ \/ ctl.session_state = "waiting_for_pairing" /\ Silent(msgs)
           \/ Screen(msgs, w)
    BY <1>12, <1>21, <2>1, <2>2
  <2> HIDE DEF c, msgs
  <2>7. PathPairWait(c, moon, msgs)
    BY <1>21, <2>1, <2>5, <2>6 DEF PathPairWait
  <2> QED
    BY <1>1, <1>13, <1>21, <2>1, <2>4, <2>5, <2>6, <2>7 DEF PathInformed
<1>25. CASE TickLaunch
  <2> DEFINE c == Transition(Launching, "requesting_console")
             msgs == PowerMessages \o <<ConnectStream>>
  <2>1. TickPrepare /\ Ticked(c, MoonLaunching, Append(PowerMessages, ConnectStream))
    BY <1>25 DEF TickLaunch, TickLaunching
  <2>2. /\ msgs \in Seq(DaemonMessage) /\ Screen(msgs, ConnectStream) /\ Announced(msgs)
        /\ Append(PowerMessages, ConnectStream) = msgs
    BY <1>7, <1>8, <1>12, <1>21, <2>1
  <2>3. /\ c \in CtlType /\ Moved(c, ctl, "requesting_console")
        /\ c.next_reconnect_at = None
    BY <1>3, <1>4, <1>5
  <2>4. Ticked(c, MoonLaunching, msgs)
    BY <2>1, <2>2
  <2> HIDE DEF c, msgs
  <2>5. PathLaunch(c, MoonLaunching, msgs)
    BY <1>9, <1>21, <2>1, <2>2, <2>3 DEF PathLaunch
  <2> QED
    BY <1>9, <1>13, <1>21, <2>1, <2>2, <2>3, <2>4, <2>5 DEF PathInformed
<1>26. CASE TickEndpointUnavailable
  <2> DEFINE c == Transition(ScheduleReconnect(Observed), "reconnecting_console")
             w == ShowWaiting("reconnecting")
             msgs == PowerMessages \o <<w>>
  <2>1. TickPrepare /\ Ticked(c, moon, Append(PowerMessages, w)) /\ Backend = "vnc"
    BY <1>26 DEF TickEndpointUnavailable, TickLaunching, EndpointRefused
  <2>2. c \in CtlType /\ Moved(c, ctl, "reconnecting_console")
    BY <1>4, <1>5, <1>6
  <2>3. /\ msgs \in Seq(DaemonMessage) /\ Screen(msgs, w) /\ Announced(msgs)
        /\ Append(PowerMessages, w) = msgs
    BY <1>7, <1>8, <1>12, <1>21, <2>1
  <2>4. Ticked(c, moon, msgs)
    BY <2>1, <2>3
  <2> HIDE DEF c, msgs
  <2>5. PathEndpoint(c, moon, msgs)
    BY <1>21, <2>1, <2>2, <2>3 DEF PathEndpoint
  <2> QED
    BY <1>1, <1>13, <1>21, <2>1, <2>2, <2>3, <2>4, <2>5 DEF PathInformed
<1>27. {"validate", "pvesh"} \subseteq EventKinds /\ {"validate", "pvesh"} \subseteq Degrading
  BY DEF EventKinds, Degrading
\* What follows the power messages when a launch fails.
<1>28. ASSUME NEW q \in Seq(DaemonMessage), Powerless(q), disp' = Decided
       PROVE  /\ PowerMessages \o q \in Seq(DaemonMessage) /\ Announced(PowerMessages \o q)
              /\ \A w : Screen(q, w) => Screen(PowerMessages \o q, w)
              /\ Silent(q) => Silent(PowerMessages \o q)
  <2>1. PowerMessages \in Seq(DaemonMessage) /\ Silent(PowerMessages)
    BY <1>28, PowerAnnounced
  <2>2. PowerMessages \o q \in Seq(DaemonMessage)
    BY <2>1
  <2>3. Announced(PowerMessages \o q)
    BY <1>28, PowerAnnounced
  <2>4. /\ \A w : Screen(q, w) => Screen(PowerMessages \o q, w)
        /\ Silent(q) => Silent(PowerMessages \o q)
    BY <2>1, ScreenConcat
  <2> QED
    BY <2>2, <2>3, <2>4
<1>29. CASE TickLaunchInvalid
  <2> DEFINE d == IF Backend = "moonlight" THEN Launching ELSE Observed
             c == EnterDegraded(d, "console")
             q == DegradedMessages(d)
             msgs == PowerMessages \o q
  <2>1. TickPrepare /\ Ticked(c, MoonLaunching, msgs) /\ Spend("validate")
    BY <1>29 DEF TickLaunchInvalid, TickLaunching, ConsoleInvalid
  <2>2. d \in CtlType /\ Alike(d, ctl)
    BY <1>2, <1>3
  <2>3. /\ q \in Seq(DaemonMessage) /\ Powerless(q) /\ Screen(q, ShowWaiting("degraded"))
    BY DegradedTyped, FailureScreen
  <2> HIDE DEF d
  <2>4. c \in CtlType /\ Fallen(c, ctl)
    <3>1. c \in CtlType /\ Fallen(c, d)
      BY <1>4, <2>2, CtlTyped, MethodFields
    <3> QED
      BY <2>2, <3>1 DEF Fallen, Alike
  <2> HIDE DEF c, q
  <2>5. /\ msgs \in Seq(DaemonMessage) /\ Announced(msgs)
        /\ Screen(msgs, ShowWaiting("degraded"))
    BY <1>12, <1>21, <1>28, <2>1, <2>3
  <2>6. ~Unspent(Degrading)'
    BY <1>27, <2>1, SpendSpends
  <2> HIDE DEF msgs
  <2>7. PathInvalid(c, MoonLaunching, msgs)
    BY <1>9, <1>21, <2>1, <2>4, <2>5, <2>6 DEF PathInvalid
  <2> QED
    BY <1>9, <1>13, <1>21, <2>1, <2>4, <2>5, <2>7 DEF PathInformed
<1>30. CASE TickLaunchRefused
  <2> DEFINE d == Transition(Observed, "requesting_console")
             c == RecordFailure(d)
             q == FailureMessages(d)
             msgs == PowerMessages \o q
  <2>1. /\ TickPrepare /\ Ticked(c, moon, msgs) /\ Spend("pvesh") /\ Backend # "moonlight"
    BY <1>30 DEF TickLaunchRefused, TickLaunching, ConsoleRefused
  <2>2. d \in CtlType /\ Moved(d, ctl, "requesting_console")
    BY <1>2, <1>4, <1>5
  <2> HIDE DEF d
  <2>3. c \in CtlType /\ q \in Seq(DaemonMessage)
    BY <2>2, CtlTyped, DegradedTyped
  <2>4. FailsFrom(d, c, q) /\ Powerless(q)
    BY <1>11, <2>2, MethodFields, FailureScreen DEF FailsFrom
  <2> HIDE DEF c, q
  <2>5. msgs \in Seq(DaemonMessage) /\ Announced(msgs) /\ FailsFrom(d, c, msgs)
    BY <1>12, <1>21, <1>28, <2>1, <2>3, <2>4 DEF FailsFrom
  <2>6. ~Unspent(Degrading)'
    BY <1>27, <2>1, SpendSpends
  <2> HIDE DEF msgs
  <2>7. PathRefused(c, moon, msgs)
    BY <1>21, <2>1, <2>2, <2>5, <2>6 DEF PathRefused
  <2> QED
    BY <1>1, <1>13, <1>21, <2>1, <2>3, <2>5, <2>7 DEF PathInformed
<1> HIDE DEF Goal
<1> QED
  BY <1>14, <1>15, <1>16, <1>17, <1>18, <1>19, <1>20, <1>22, <1>23, <1>24, <1>25, <1>26,
     <1>29, <1>30 DEF Tick
-----------------------------------------------------------------------------
(* The session's steps on a connection that is up.                          *)

SameScreen ==
    /\ sess'.console = sess.console /\ sess'.pin = sess.pin
    /\ sess'.waiting_reason = sess.waiting_reason

\* Nothing the daemon could notice.
Idles == SameScreen /\ sess'.power = sess.power /\ UNCHANGED d2s /\ Events' = Events

\* The viewer has ended, and is reported.
ReportsExit ==
    /\ sess.console # "none" /\ sess'.console = "none"
    /\ sess'.waiting_reason = "reconnecting" /\ sess'.pin = NoPin
    /\ sess'.power = sess.power
    /\ UNCHANGED d2s /\ Events' = Events \o <<Event("console_exited")>>

\* A message is taken and answered.
Obeys(types, responses) ==
    /\ d2s # <<>> /\ Msg.type \in types
    /\ d2s' = Tail(d2s) /\ Events' = Events \o responses

ObeysStop ==
    /\ Obeys(Stops, <<>>) /\ sess'.power = sess.power
    /\ sess'.console = "none" /\ sess'.waiting_reason = Msg.arg /\ sess'.pin = Msg.pin

ObeysConnect ==
    /\ Obeys({"connect_console"}, <<Event("console_started")>>) /\ sess'.power = sess.power
    /\ sess'.console = Msg.arg /\ sess'.waiting_reason = "connecting" /\ sess'.pin = Msg.pin

RefusesConnect ==
    /\ Obeys({"connect_console"}, <<Event("session_error")>>) /\ sess'.power = sess.power
    /\ ~Unspent({"launch"})' /\ sess'.console \in {"none", sess.console}

ObeysPower ==
    /\ Obeys({"display_power"}, <<DisplayPowerApplied(Msg.arg)>>) /\ SameScreen
    /\ sess'.power = Msg.arg

RefusesPower ==
    /\ Obeys({"display_power"}, <<>>) /\ UNCHANGED sess /\ ~Unspent({"helper"})'

LEMMA SessionUp ==
    ASSUME TypeInv, LinkInv, BudgetInv, SessionStep, conn' = "up"
    PROVE  /\ conn = "up" /\ UNCHANGED daemonVars
           /\ \/ Idles \/ ReportsExit \/ ObeysStop \/ ObeysConnect \/ RefusesConnect
              \/ ObeysPower \/ RefusesPower
<1>1. sess \in SessType /\ UNCHANGED daemonVars /\ inbox' = inbox
  BY DEF TypeInv, TypeOK, SessionTypeOK, SessionStep, daemonVars
<1>2. /\ inbox \in Seq(SessionMessage) /\ s2d \in Seq(SessionMessage)
      /\ Events \in Seq(SessionMessage)
  BY EventsTyped
<1>3. conn = "up"
  BY DEF SessionStep, SessionConnect, Connect, SessionStart, SessionEof, SessionKilled,
         ClientClose, HandleDaemonMessage, ShowWaitingState, LaunchConsole, LaunchFails,
         LaunchRejected, ApplyDisplayPower, PowerHelperFails, Respond, Exchange,
         PollConsole, ViewerExits, socketVars
<1>4. client = "open" /\ sess.up
  BY <1>1, <1>3 DEF LinkInv, EndsAgree, SessInit, SessType
<1>5. {"launch", "helper"} \subseteq EventKinds
  BY DEF EventKinds
<1>6. ASSUME NEW responses \in Seq(SessionMessage), NEW s, Respond(s, responses)
      PROVE  sess' = s /\ d2s' = Tail(d2s) /\ Events' = Events \o responses
  <2>1. sess' = s /\ d2s' = Tail(d2s) /\ s2d' = s2d \o responses
    BY <1>4, <1>6 DEF Respond, Exchange
  <2>2. inbox \o (s2d \o responses) = (inbox \o s2d) \o responses
    BY <1>2
  <2> QED
    BY <1>1, <2>1, <2>2 DEF Events
<1>7. /\ <<>> \in Seq(SessionMessage)
      /\ \A t \in {"console_started", "session_error", "console_exited"} :
           <<Event(t)>> \in Seq(SessionMessage)
      /\ \A p \in PowerStates : <<DisplayPowerApplied(p)>> \in Seq(SessionMessage)
  BY DEF Event, DisplayPowerApplied, SessionMessage
<1>8. CASE SessionConnect \/ SessionStart \/ SessionEof \/ SessionKilled
  BY <1>3, <1>4, <1>8
     DEF SessionConnect, Connect, SessionStart, SessionEof, SessionKilled, ClientClose
<1>9. CASE ShowWaitingState
  <2> DEFINE s == [StopConsole(sess) EXCEPT !.waiting_reason = Msg.arg, !.pin = Msg.pin]
  <2>1. d2s # <<>> /\ Msg.type \in Stops /\ Respond(s, <<>>)
    BY <1>9 DEF ShowWaitingState, Receiving, Msg, Stops
  <2>2. /\ s.console = "none" /\ s.waiting_reason = Msg.arg /\ s.pin = Msg.pin
        /\ s.power = sess.power
    BY <1>1 DEF StopConsole, SessType
  <2> HIDE DEF s
  <2>3. ObeysStop
    BY <1>6, <1>7, <2>1, <2>2 DEF ObeysStop, Obeys
  <2> QED
    BY <1>1, <1>3, <2>3
<1>10. CASE LaunchConsole
  <2> DEFINE s == [sess EXCEPT !.console = Msg.arg, !.alive = TRUE,
                               !.waiting_reason = "connecting", !.pin = Msg.pin]
  <2>1. /\ d2s # <<>> /\ Msg.type \in {"connect_console"}
        /\ Respond(s, <<Event("console_started")>>)
    BY <1>10 DEF LaunchConsole, Receiving, Msg
  <2>2. /\ s.console = Msg.arg /\ s.waiting_reason = "connecting" /\ s.pin = Msg.pin
        /\ s.power = sess.power
    BY <1>1 DEF SessType
  <2> HIDE DEF s
  <2>3. ObeysConnect
    BY <1>6, <1>7, <2>1, <2>2 DEF ObeysConnect, Obeys
  <2> QED
    BY <1>1, <1>3, <2>3
<1>11. CASE LaunchFails \/ LaunchRejected
  <2> DEFINE s == [StopConsole(sess) EXCEPT !.waiting_reason = "degraded", !.pin = NoPin]
             r == [sess EXCEPT !.waiting_reason = "degraded"]
  <2>1. /\ d2s # <<>> /\ Msg.type \in {"connect_console"} /\ Spend("launch")
        /\ Respond(s, <<Event("session_error")>>) \/ Respond(r, <<Event("session_error")>>)
    BY <1>11 DEF LaunchFails, LaunchRejected, Receiving, Msg
  <2>2. /\ s.console = "none" /\ s.power = sess.power
        /\ r.console = sess.console /\ r.power = sess.power
    BY <1>1 DEF StopConsole, SessType
  <2>3. ~Unspent({"launch"})'
    BY <1>5, <2>1, SpendSpends
  <2> HIDE DEF s, r
  <2>4. RefusesConnect
    BY <1>6, <1>7, <2>1, <2>2, <2>3 DEF RefusesConnect, Obeys
  <2> QED
    BY <1>1, <1>3, <2>4
<1>12. CASE ApplyDisplayPower
  <2> DEFINE s == [sess EXCEPT !.power = Msg.arg]
  <2>1. /\ d2s # <<>> /\ Msg.type \in {"display_power"}
        /\ Respond(s, <<DisplayPowerApplied(Msg.arg)>>)
    BY <1>12 DEF ApplyDisplayPower, Receiving, Msg
  <2>2. Msg.arg \in PowerStates
    <3>1. Msg \in DaemonMessage
      BY <2>1, EventsTyped DEF Msg
    <3> QED
      BY <2>1, <3>1 DEF DaemonMessage
  <2>3. /\ s.power = Msg.arg /\ s.console = sess.console /\ s.pin = sess.pin
        /\ s.waiting_reason = sess.waiting_reason
    BY <1>1 DEF SessType
  <2> HIDE DEF s
  <2>4. ObeysPower
    BY <1>6, <1>7, <2>1, <2>2, <2>3 DEF ObeysPower, Obeys, SameScreen
  <2> QED
    BY <1>1, <1>3, <2>4
<1>13. CASE PowerHelperFails
  <2>1. /\ d2s # <<>> /\ Msg.type \in {"display_power"} /\ Spend("helper")
        /\ Respond(sess, <<>>)
    BY <1>13 DEF PowerHelperFails, Receiving, Msg
  <2>2. ~Unspent({"helper"})'
    BY <1>5, <2>1, SpendSpends
  <2>3. RefusesPower
    BY <1>6, <1>7, <2>1, <2>2 DEF RefusesPower, Obeys
  <2> QED
    BY <1>1, <1>3, <2>3
<1>14. CASE PollConsole
  <2>1. /\ sess.console # "none" /\ UNCHANGED d2s
        /\ sess' = [StopConsole(sess) EXCEPT !.waiting_reason = "reconnecting"]
        /\ s2d' = Append(s2d, Event("console_exited"))
    BY <1>14 DEF PollConsole
  <2>2. /\ sess'.console = "none" /\ sess'.waiting_reason = "reconnecting" /\ sess'.pin = NoPin
        /\ sess'.power = sess.power
    BY <1>1, <2>1 DEF StopConsole, SessType
  <2>3. /\ Event("console_exited") \in SessionMessage
    BY DEF Event, SessionMessage
  <2>4. Append(s2d, Event("console_exited")) = s2d \o <<Event("console_exited")>>
    BY <1>2, <2>3
  <2>5. inbox \o (s2d \o <<Event("console_exited")>>)
          = (inbox \o s2d) \o <<Event("console_exited")>>
    BY <1>2, <1>7
  <2>6. ReportsExit
    BY <1>1, <2>1, <2>2, <2>4, <2>5 DEF ReportsExit, Events
  <2> QED
    BY <1>1, <1>3, <2>6
<1>15. CASE ViewerExits
  <2>1. sess' = [sess EXCEPT !.alive = FALSE] /\ UNCHANGED <<s2d, d2s>>
    BY <1>15 DEF ViewerExits, socketVars
  <2>2. Idles
    BY <1>1, <2>1 DEF Idles, SameScreen, SessType, Events
  <2> QED
    BY <1>1, <1>3, <2>2
<1> QED
  BY <1>8, <1>9, <1>10, <1>11, <1>12, <1>13, <1>14, <1>15 DEF SessionStep, HandleDaemonMessage

-----------------------------------------------------------------------------
(* The daemon's other steps on a connection that is up.                     *)

Loop ==
    \/ DaemonStart \/ AcceptPending \/ ReadMessages \/ PollFails \/ PollDone \/ HandlePress
    \/ DaemonCrash \/ StatusHangs \/ PressHangs \/ TimePasses

\* What the daemon believes of the VM and the display, and of the pairing.
SameDisplay ==
    /\ disp'.vm_power_state = disp.vm_power_state /\ disp'.intent = disp.intent
    /\ disp'.applied = disp.applied

SamePairing == moon'.pair_state = moon.pair_state /\ moon'.pin = moon.pin

\* A backlogged connection is taken, its session_ready unread.
Accepts ==
    /\ pc = "read" /\ pc' = "read"
    /\ conn = "none" /\ Events' = <<Event("session_ready")>> /\ d2s' = <<>>
    /\ sess.console = "none" /\ UNCHANGED <<ctl, disp, moon>>

\* Reading, the end of the presses, and the sleep.
Rests ==
    /\ \/ pc = "read" /\ pc' \in {"read", "handle", "poll", "tick"}
       \/ pc \in {"poll", "press"} /\ pc' = "tick"
    /\ Alike(ctl', ctl) /\ SameDisplay /\ SamePairing

\* The input device fails.
LosesInput ==
    /\ pc = "poll" /\ pc' = "tick" /\ ctl.startup_error = "none" /\ ~Unspent({"read"})'
    /\ ctl'.session_ready = ctl.session_ready /\ ctl'.console_running = ctl.console_running
    /\ ctl'.session_state = "degraded" /\ ctl'.startup_error # "none"
    /\ ctl'.degraded_reason # "none"
    /\ SameDisplay /\ moon' = Unpaired

\* A press, whose status fails or not.
Presses ==
    /\ pc \in {"poll", "press"} /\ pc' = "press" /\ ctl.startup_error = "none"
    /\ ~Unspent({"press"})'
    /\ UNCHANGED moon /\ disp'.intent = disp.intent /\ disp'.applied = disp.applied
    /\ \/ PressFailed' /\ SameDisplay /\ (Alike(ctl', ctl) \/ Fallen(ctl', ctl))
       \/ Alike(ctl', ctl) /\ disp'.vm_power_state = vm

LEMMA LoopUp ==
    ASSUME TypeInv, LinkInv, BudgetInv, Loop, conn' = "up"
    PROVE  \/ Accepts
           \/ /\ conn = "up" /\ UNCHANGED d2s /\ Events' = Events
              /\ Rests \/ LosesInput \/ Presses
<1>1. /\ ctl \in CtlType /\ disp \in DispType /\ moon \in MoonType
      /\ inbox \in Seq(SessionMessage) /\ s2d \in Seq(SessionMessage)
  BY DEF TypeInv, TypeOK, DaemonTypeOK, SocketTypeOK
<1>2. \A q \in Seq(SessionMessage) : <<>> \o q = q /\ q \o <<>> = q
  OBVIOUS
<1>3. UNCHANGED <<inbox, s2d>> => Events' = Events
  BY DEF Events
<1>4. Alike(ctl, ctl)
  BY DEF Alike
<1>5. CASE DaemonStart \/ DaemonCrash \/ StatusHangs \/ PressHangs
  BY <1>5 DEF DaemonStart, DaemonCrash, StatusHangs, PressHangs, DaemonStops, ServerGone,
              LinkInv, socketVars
<1>6. CASE AcceptPending
  <2>1. /\ pc = "read" /\ pc' = "read" /\ conn = "none" /\ pend # <<>> /\ Head(pend)
        /\ s2d' = <<Event("session_ready")>> /\ d2s' = <<>>
        /\ inbox' = inbox /\ inbox = <<>> /\ UNCHANGED <<ctl, disp, moon>>
    BY <1>6 DEF AcceptPending, Accept, LinkInv
  <2>2. 1 \in DOMAIN pend /\ pend[1]
    <3>1. pend \in Seq(BOOLEAN)
      BY EventsTyped
    <3>2. pend # <<>> /\ Head(pend)
      BY <2>1, Zenon
    <3>3. \A q \in Seq(BOOLEAN) : q # <<>> => 1 \in DOMAIN q /\ Head(q) = q[1]
      OBVIOUS
    <3> QED
      BY <3>1, <3>2, <3>3, Zenon
  <2>3. sess.console = "none"
    BY <2>1, <2>2 DEF LinkInv, EndsAgree
  <2>4. Events' = <<Event("session_ready")>>
    <3>1. <<Event("session_ready")>> \in Seq(SessionMessage)
      BY DEF Event, SessionMessage
    <3> QED
      BY <1>2, <2>1, <3>1, Zenon DEF Events
  <2> QED
    BY <2>1, <2>3, <2>4 DEF Accepts
<1>7. CASE ReadMessages
  <2>1. /\ conn = "up" /\ UNCHANGED d2s /\ pc = "read" /\ pc' \in {"handle", "poll", "tick"}
        /\ UNCHANGED <<ctl, disp, moon>> /\ inbox = <<>> /\ inbox' = s2d /\ s2d' = <<>>
    BY <1>7 DEF ReadMessages, ReadAll, AfterMessages, LinkInv, socketVars
  <2>2. Events' = Events
    BY <1>1, <1>2, <2>1 DEF Events
  <2> QED
    BY <1>4, <2>1, <2>2 DEF Rests, SameDisplay, SamePairing
<1>8. CASE PollFails
  <2>1. /\ conn = "up" /\ UNCHANGED <<d2s, inbox, s2d, disp>> /\ pc = "poll" /\ pc' = "tick"
        /\ ctl' = SetStartupError(ctl, "input") /\ moon' = Unpaired /\ Spend("read")
        /\ ctl.startup_error = "none"
    BY <1>8 DEF PollFails, socketVars
  <2>2. /\ ctl'.session_ready = ctl.session_ready /\ ctl'.console_running = ctl.console_running
        /\ ctl'.session_state = "degraded" /\ ctl'.startup_error # "none"
        /\ ctl'.degraded_reason # "none"
    BY <1>1, <2>1 DEF SetStartupError, CtlType
  <2>3. ~Unspent({"read"})'
    BY <2>1, SpendSpends DEF EventKinds
  <2> QED
    BY <1>3, <2>1, <2>2, <2>3 DEF LosesInput, SameDisplay
<1>9. CASE PollDone
  <2>1. /\ conn = "up" /\ UNCHANGED <<d2s, inbox, s2d, ctl, disp, moon>>
        /\ pc \in {"poll", "press"} /\ pc' = "tick"
    BY <1>9 DEF PollDone, Polling, socketVars
  <2> QED
    BY <1>3, <1>4, <2>1 DEF Rests, SameDisplay, SamePairing
<1>10. CASE HandlePress
  <2>1. /\ conn = "up" /\ UNCHANGED <<d2s, inbox, s2d, moon>> /\ ctl.startup_error = "none"
        /\ pc \in {"poll", "press"} /\ pc' = "press"
    BY <1>10 DEF HandlePress, PressNoStatus, PressIgnored, PressRefused, PressAccepted,
                 PressStatus, Press, Polling, socketVars
  <2>2. ~Unspent({"press"})'
    BY <1>10, SpendSpends
  <2>3. CASE PressNoStatus
    <3>1. ctl' = RecordFailure(ctl) /\ UNCHANGED disp
      BY <2>3 DEF PressNoStatus
    <3>2. Alike(ctl', ctl) \/ Fallen(ctl', ctl)
      BY <1>1, <3>1, MethodFields
    <3>3. PressFailed'
      BY <2>3, SpendSpends
    <3> QED
      BY <1>3, <2>1, <2>2, <3>1, <3>2, <3>3 DEF Presses, SameDisplay
  <2>4. CASE PressStatus
    <3>1. ctl' = ClearFailures(ctl) /\ disp' = RecordPowerState(disp, vm)
      BY <2>4 DEF PressStatus
    <3>2. Alike(ctl', ctl)
      BY <1>1, <3>1, MethodFields
    <3>3. disp'.vm_power_state = vm /\ disp'.intent = disp.intent /\ disp'.applied = disp.applied
      BY <1>1, <3>1 DEF RecordPowerState, DispType
    <3> QED
      BY <1>3, <2>1, <2>2, <3>2, <3>3 DEF Presses
  <2> QED
    BY <1>10, <2>3, <2>4 DEF HandlePress, PressIgnored, PressRefused, PressAccepted
<1>11. CASE TimePasses
  <2>1. /\ conn = "up" /\ UNCHANGED <<d2s, inbox, s2d>> /\ pc = "read" /\ pc' = "read"
    BY <1>11 DEF TimePasses, socketVars
  <2>2. Alike(ctl', ctl)
    BY <1>1, <1>11 DEF TimePasses, Alike, CtlType
  <2>3. SameDisplay
    BY <1>1, <1>11 DEF TimePasses, SameDisplay, DispType
  <2>4. SamePairing
    BY <1>1, <1>11 DEF TimePasses, SamePairing, MoonType
  <2> QED
    BY <1>3, <2>1, <2>2, <2>3, <2>4 DEF Rests
<1> QED
  BY <1>5, <1>6, <1>7, <1>8, <1>9, <1>10, <1>11 DEF Loop
-----------------------------------------------------------------------------
(* LinkInv is inductive.                                                    *)

LEMMA HasUnion ==
    ASSUME NEW q, NEW T, NEW U
    PROVE  Has(q, T \union U) <=> Has(q, T) \/ Has(q, U)
BY DEF Has

LEMMA AppendElements ==
    ASSUME NEW S, NEW q \in Seq(S), NEW x \in S
    PROVE  \A i \in DOMAIN Append(q, x) :
             i = Len(q) + 1 \/ (i \in DOMAIN q /\ Append(q, x)[i] = q[i])
OBVIOUS

\* The ends agree after a step of the daemon that neither opens nor breaks an
\* open connection, after the session has closed its end, and after it has done
\* something else on it.
LEMMA EndsKept ==
    ASSUME EndsAgree, UNCHANGED <<sess, pend, client>>, conn' = "up" <=> conn = "up"
    PROVE  EndsAgree'
BY Zenon DEF EndsAgree

LEMMA EndsClosed ==
    ASSUME ClientClose, sess'.console = "none", ~sess'.up => sess' = SessInit
    PROVE  EndsAgree'
<1>1. client' = "closed" /\ conn' # "up" /\ pend' = [i \in DOMAIN pend |-> FALSE]
  BY DEF ClientClose
<1>2. \A i \in DOMAIN pend' : ~pend'[i]
  BY <1>1, Zenon
<1>3. client' # "open"
  BY <1>1
<1> QED
  BY <1>1, <1>2, Zenon DEF EndsAgree

LEMMA EndsUsed ==
    ASSUME EndsAgree, UNCHANGED <<conn, pend, client>>, sess'.up,
           client = "closed" \/ (client = "open" /\ conn # "up") => sess'.console = "none"
    PROVE  EndsAgree'
BY Zenon DEF EndsAgree

\* After a handler on a connection that is up, the session is greeted.
LEMMA HandledReady ==
    ASSUME TypeInv, BudgetInv, LinkInv, HandleMessage, conn' = "up"
    PROVE  ctl'.session_ready
<1>1. PICK c \in CtlType, m \in MoonType, msgs \in Seq(DaemonMessage) :
        Handled(c, m, msgs) /\ Answers(c, m, msgs)
  BY HandleAnswers
<1>2. pc = "handle"
  BY HandleAnswers
<1>3. /\ conn = "up" /\ ctl' = c /\ Head(Events) = Head(inbox)
  BY <1>1, <1>2, HandledUp
<1>4. CASE Head(inbox).type = "session_ready"
  BY <1>1, <1>3, <1>4 DEF Answers, Greets, NotesStarted, NotesApplied, NotesExited, NotesError
<1>5. CASE Head(inbox).type # "session_ready"
  <2>1. ctl.session_ready
    BY <1>3, <1>5 DEF LinkInv, Ungreeted, Event
  <2> QED
    BY <1>1, <1>3, <1>5, <2>1 DEF Answers, Greets, NotesStarted, NotesApplied, NotesExited,
                                  NotesError, Steady, Moved, Fallen
<1> QED
  BY <1>4, <1>5

LEMMA LinkHandle ==
    ASSUME TypeInv, BudgetInv, LinkInv, HandleMessage, UNCHANGED sess
    PROVE  LinkInv'
<1>1. PICK c \in CtlType, m \in MoonType, msgs \in Seq(DaemonMessage) :
        Handled(c, m, msgs) /\ Answers(c, m, msgs)
  BY HandleAnswers
<1>2. pc = "handle"
  BY HandleAnswers
<1>3. EndsAgree'
  <2>1. UNCHANGED <<pend, client>> /\ (conn' = "up" <=> conn = "up")
    BY <1>1, DeliverLink DEF Handled
  <2> QED
    BY <2>1, EndsKept DEF LinkInv
<1>4. pc' # "down" /\ (pc' # "handle" => inbox' = <<>>)
  <2>1. inbox # <<>> /\ inbox \in Seq(SessionMessage)
    BY <1>2, EventsTyped DEF TypeInv, HandlesMessage
  <2>2. Len(inbox) = 1 => Tail(inbox) = <<>>
    <3>1. Tail(inbox) \in Seq(SessionMessage) /\ Len(Tail(inbox)) = Len(inbox) - 1
      BY <2>1
    <3>2. \A q \in Seq(SessionMessage) : Len(q) = 0 => q = <<>>
      OBVIOUS
    <3>3. Len(inbox) = 1 => Len(Tail(inbox)) = 0
      BY <3>1
    <3> QED
      BY <3>1, <3>2, <3>3, Zenon
  <2> QED
    BY <1>1, <2>2 DEF Handled, AfterMessages
<1>5. conn' = "up" => ctl'.session_ready
  BY HandledReady
<1> QED
  BY <1>3, <1>4, <1>5 DEF LinkInv, Ungreeted

LEMMA LinkTick ==
    ASSUME TypeInv, BudgetInv, LinkInv, Tick, UNCHANGED sess
    PROVE  LinkInv'
<1>1. PICK c \in CtlType, m \in MoonType, msgs \in Seq(DaemonMessage) :
        Ticked(c, m, msgs) /\ Takes(c, m, msgs)
  BY TickTakes
<1>2. pc = "tick" /\ pc' = "read" /\ UNCHANGED inbox
  BY <1>1, TickTakes DEF Ticked
<1>3. EndsAgree'
  <2>1. UNCHANGED <<pend, client>> /\ (conn' = "up" <=> conn = "up")
    BY <1>1, DeliverLink DEF Ticked
  <2> QED
    BY <2>1, EndsKept DEF LinkInv
<1>4. Ungreeted'
  <2> SUFFICES ASSUME conn' = "up", ~ctl'.session_ready
               PROVE  /\ Events' = <<Event("session_ready")>>
                      /\ sess'.console = "none" /\ ~Has(d2s, Acts)'
    BY DEF Ungreeted
  <2>1. /\ conn = "up" /\ ctl' = c /\ moon' = m /\ d2s' = d2s \o msgs /\ Events' = Events
    BY <1>1, TickedUp
  <2>2. ~ctl.session_ready /\ ~Has(msgs, {"connect_console"}) /\ Powerless(msgs)
    <3>1. \A r : Silent(r) => ~Has(r, {"connect_console"})
      BY HasFewer DEF Silent, ScreenTypes
    <3>2. CASE PathFaulted(c, m, msgs) \/ PathAlone(c, m, msgs)
      BY <2>1, <3>1, <3>2, SingleMessages DEF PathFaulted, PathAlone, Alike
    <3>3. CASE PathBlind(c, m, msgs)
      BY <2>1, <3>1, <3>3
         DEF PathBlind, FailsFrom, Alike, Fallen, Screen, ShowWaiting
    <3>4. CASE ctl.session_ready /\ PathInformed(c, m, msgs)
      <4>1. c.session_ready
        BY <3>4 DEF PathInformed, PathOff, PathTransitional, PathShowing, PathBackoff,
                    PathUnreachable, PathPairIssue, PathPairWait, PathLaunch, PathEndpoint,
                    PathInvalid, PathRefused, FailsFrom, Steady, Moved, Alike, Fallen
      <4> QED
        BY <2>1, <4>1
    <3> QED
      BY <1>1, <3>2, <3>3, <3>4 DEF Takes
  <2>3. ~Has(msgs, Acts)
    BY <2>2, HasUnion DEF Powerless, Acts, Has
  <2>4. ~Has(d2s \o msgs, Acts)
    BY <2>1, <2>2, <2>3, HasConcat, EventsTyped DEF LinkInv, Ungreeted
  <2> QED
    BY <2>1, <2>2, <2>4 DEF LinkInv, Ungreeted
<1> QED
  BY <1>2, <1>3, <1>4 DEF LinkInv
\* The daemon's other steps: only accept_pending opens a connection, the only
\* one of the backlog whose session is still there.
LEMMA LinkLoop ==
    ASSUME TypeInv, BudgetInv, LinkInv, Loop, UNCHANGED sess
    PROVE  LinkInv'
<1>1. Ungreeted'
  <2> SUFFICES ASSUME conn' = "up", ~ctl'.session_ready
               PROVE  /\ Events' = <<Event("session_ready")>>
                      /\ sess'.console = "none" /\ ~Has(d2s, Acts)'
    BY DEF Ungreeted
  <2>1. CASE Accepts
    BY <2>1, HasSmall DEF Accepts
  <2>2. CASE conn = "up" /\ UNCHANGED d2s /\ Events' = Events /\ (Rests \/ LosesInput \/ Presses)
    <3>1. ~ctl.session_ready
      BY <2>2 DEF Rests, LosesInput, Presses, Alike, Fallen
    <3> QED
      BY <2>2, <3>1 DEF LinkInv, Ungreeted
  <2> QED
    BY <2>1, <2>2, LoopUp
<1>2. CASE DaemonCrash \/ StatusHangs \/ PressHangs
  <2>1. /\ pc' = "down" /\ inbox' = <<>> /\ conn' = "none" /\ pend' = <<>>
        /\ client' = (IF client = "open" THEN "eof" ELSE client)
    BY <1>2 DEF DaemonCrash, StatusHangs, PressHangs, DaemonStops, ServerGone
  <2>2. EndsAgree'
    <3>1. client' # "open" /\ (client' = "closed" <=> client = "closed") /\ conn' # "up"
      BY <2>1
    <3>2. \A i \in DOMAIN pend' : FALSE
      BY <2>1
    <3> QED
      BY <3>1, <3>2, Zenon DEF LinkInv, EndsAgree
  <2> QED
    BY <1>1, <2>1, <2>2 DEF LinkInv
<1>3. CASE AcceptPending
  <2>1. /\ pc' = pc /\ pc = "read" /\ inbox' = inbox
        /\ conn = "none" /\ pend # <<>> /\ pend' = Tail(pend) /\ client' = client
    BY <1>3 DEF AcceptPending, Accept
  <2>2. (conn' = "up") => Head(pend)
    BY <1>3, Zenon DEF AcceptPending, Accept
  <2>3. /\ \A q \in Seq(BOOLEAN) : q # <<>> =>
             /\ 1 \in DOMAIN q /\ Head(q) = q[1]
             /\ \A i \in DOMAIN Tail(q) :
                  i \in Nat /\ i + 1 \in DOMAIN q /\ i + 1 # 1 /\ Tail(q)[i] = q[i + 1]
        /\ \A i, j \in Nat : i + 1 = j + 1 => i = j
    OBVIOUS
  <2>4. pend \in Seq(BOOLEAN)
    BY EventsTyped
  <2>5. \A i \in DOMAIN pend' : i \in Nat /\ i + 1 \in DOMAIN pend /\ i + 1 # 1
                                /\ pend'[i] = pend[i + 1]
    BY <2>1, <2>3, <2>4, Zenon
  <2>6. conn' = "up" => 1 \in DOMAIN pend /\ pend[1]
    BY <2>1, <2>2, <2>3, <2>4, Zenon
  <2>7. EndsAgree
    BY DEF LinkInv
  <2>8. conn' = "up" => client' = "open" /\ \A i \in DOMAIN pend' : ~pend'[i]
    BY <2>1, <2>5, <2>6, <2>7, Zenon DEF EndsAgree
  <2>9. \A i \in DOMAIN pend' : pend'[i] =>
          client' = "open" /\ \A j \in DOMAIN pend' : pend'[j] => i = j
    <3>1. ASSUME NEW i \in DOMAIN pend', pend'[i]
          PROVE  /\ i \in Nat /\ i + 1 \in DOMAIN pend /\ pend[i + 1]
                 /\ client' = "open"
      BY <2>1, <2>5, <2>7, <3>1, Zenon DEF EndsAgree
    <3>2. ASSUME NEW i \in DOMAIN pend', pend'[i], NEW j \in DOMAIN pend', pend'[j]
          PROVE  i = j
      <4>1. /\ i \in Nat /\ i + 1 \in DOMAIN pend /\ pend[i + 1]
            /\ j \in Nat /\ j + 1 \in DOMAIN pend /\ pend[j + 1]
        BY <3>1, <3>2, Zenon
      <4>2. i + 1 = j + 1
        BY <2>7, <4>1, Zenon DEF EndsAgree
      <4> QED
        BY <2>3, <4>1, <4>2, Zenon
    <3> QED
      BY <3>1, <3>2, Zenon
  <2>10. conn # "up"
    BY <2>1
  <2>11. EndsAgree'
    BY <2>1, <2>7, <2>8, <2>9, <2>10, Zenon DEF EndsAgree
  <2> QED
    BY <1>1, <2>1, <2>11 DEF LinkInv
<1>4. CASE ReadMessages
  <2>1. /\ pc = "read" /\ inbox' = s2d /\ pc' # "down"
        /\ pc' # "handle" => inbox' = <<>>
        /\ UNCHANGED <<pend, client>> /\ (conn' = "up" <=> conn = "up")
    BY <1>4 DEF ReadMessages, ReadAll, AfterMessages, socketVars
  <2> QED
    BY <1>1, <2>1, EndsKept DEF LinkInv
<1>5. CASE DaemonStart \/ PollFails \/ PollDone \/ HandlePress \/ TimePasses
  <2>1. /\ pc # "handle" /\ pc' \notin {"handle", "down"} /\ UNCHANGED <<inbox, socketVars>>
    BY <1>5 DEF DaemonStart, PollFails, PollDone, HandlePress, TimePasses, PressNoStatus,
                PressIgnored, PressRefused, PressAccepted, PressStatus, Press, Polling
  <2> QED
    BY <1>1, <2>1, EndsKept DEF LinkInv, socketVars
<1> QED
  BY <1>2, <1>3, <1>4, <1>5 DEF Loop

\* The session's steps.
LEMMA LinkSession ==
    ASSUME TypeInv, BudgetInv, LinkInv, SessionStep
    PROVE  LinkInv'
<1>1. UNCHANGED <<pc, inbox, ctl>> /\ sess \in SessType /\ EndsAgree
  BY DEF SessionStep, daemonVars, TypeInv, TypeOK, SessionTypeOK, LinkInv
<1>2. conn = "none" => conn' = "none"
  BY DEF SessionStep, SessionConnect, Connect, SessionStart, SessionEof, SessionKilled,
         ClientClose, HandleDaemonMessage, ShowWaitingState, LaunchConsole, LaunchFails,
         LaunchRejected, ApplyDisplayPower, PowerHelperFails, Respond, Exchange,
         PollConsole, ViewerExits, socketVars
<1>3. Ungreeted'
  <2> SUFFICES ASSUME conn' = "up", ~ctl'.session_ready
               PROVE  /\ Events' = <<Event("session_ready")>>
                      /\ sess'.console = "none" /\ ~Has(d2s, Acts)'
    BY DEF Ungreeted
  <2>1. /\ conn = "up"
        /\ \/ Idles \/ ReportsExit \/ ObeysStop \/ ObeysConnect \/ RefusesConnect
           \/ ObeysPower \/ RefusesPower
    BY SessionUp
  <2>2. /\ Events = <<Event("session_ready")>> /\ sess.console = "none" /\ ~Has(d2s, Acts)
    BY <1>1, <2>1 DEF LinkInv, Ungreeted
  <2>3. d2s # <<>> => Msg.type \notin Acts /\ ~Has(Tail(d2s), Acts)
    BY <2>2, HasTail, EventsTyped DEF Msg
  <2>4. CASE Idles
    BY <2>2, <2>4 DEF Idles, SameScreen
  <2>5. CASE ObeysStop
    <3>1. Events \o <<>> = Events
      BY EventsTyped
    <3> QED
      BY <2>2, <2>3, <2>5, <3>1 DEF ObeysStop, Obeys
  <2> QED
    BY <2>1, <2>2, <2>3, <2>4, <2>5
       DEF ReportsExit, ObeysConnect, RefusesConnect, ObeysPower, RefusesPower, Obeys, Acts
<1>4. EndsAgree'
  <2>1. \A s \in SessType : StopConsole(s).console = "none" /\ StopConsole(s).up = s.up
    BY DEF StopConsole, SessType
  <2>2. CASE SessionStart
    <3>1. UNCHANGED <<conn, pend, client>> /\ sess'.up /\ sess'.console = "none"
      BY <2>2 DEF SessionStart, SessInit, socketVars
    <3> QED
      BY <1>1, <3>1, EndsUsed
  <2>3. CASE SessionKilled
    <3>1. ClientClose /\ sess' = SessInit /\ sess'.console = "none"
      BY <2>3 DEF SessionKilled, SessInit
    <3> QED
      BY <3>1, EndsClosed
  <2>4. CASE SessionEof
    <3>1. ClientClose /\ client = "eof" /\ sess' = StopConsole(sess)
      BY <2>4 DEF SessionEof
    <3>2. sess.up
      BY <1>1, <3>1 DEF EndsAgree
    <3> QED
      BY <1>1, <2>1, <3>1, <3>2, EndsClosed
  <2>5. CASE SessionConnect
    <3>1. /\ sess.up /\ client = "closed" /\ client' = "open" /\ pend' = Append(pend, TRUE)
          /\ conn' = conn /\ sess' = sess
      BY <2>5 DEF SessionConnect, Connect
    <3>2. pend \in Seq(BOOLEAN)
      BY EventsTyped
    <3>3. TRUE \in BOOLEAN
      OBVIOUS
    <3>4. \A i \in DOMAIN pend' : i = Len(pend) + 1 \/ (i \in DOMAIN pend /\ pend'[i] = pend[i])
      BY <3>1, <3>2, <3>3, AppendElements, Zenon
    <3>5. client # "open" /\ conn # "up"
      BY <1>1, <3>1 DEF EndsAgree
    <3>6. \A i \in DOMAIN pend' : pend'[i] => i = Len(pend) + 1
      BY <1>1, <3>4, <3>5, Zenon DEF EndsAgree
    <3>7. \A i \in DOMAIN pend' : pend'[i] => \A j \in DOMAIN pend' : pend'[j] => i = j
      BY <3>6, Zenon
    <3> QED
      BY <1>1, <3>1, <3>5, <3>7, Zenon DEF EndsAgree
  <2>6. CASE ViewerExits
    <3>1. UNCHANGED <<conn, pend, client>> /\ sess.alive /\ sess' = [sess EXCEPT !.alive = FALSE]
      BY <2>6 DEF ViewerExits, socketVars
    <3>2. sess.up
      BY <1>1, <3>1 DEF EndsAgree, SessInit
    <3>3. sess'.up /\ sess'.console = sess.console
      BY <1>1, <3>1, <3>2 DEF SessType
    <3>4. client = "closed" \/ (client = "open" /\ conn # "up") => sess'.console = "none"
      BY <1>1, <3>3 DEF EndsAgree
    <3> QED
      BY <1>1, <3>1, <3>3, <3>4, EndsUsed
  <2>7. CASE PollConsole
    <3>1. UNCHANGED <<conn, pend, client>> /\ client = "open" /\ conn = "up"
      BY <2>7 DEF PollConsole
    <3>2. sess.up
      BY <1>1, <3>1 DEF EndsAgree
    <3>3. sess'.up
      BY <1>1, <2>7, <3>2 DEF PollConsole, StopConsole, SessType
    <3> QED
      BY <1>1, <3>1, <3>3, EndsUsed
  <2>8. CASE HandleDaemonMessage
    <3>1. client = "eof" \/ (client = "open" /\ conn = "up")
      BY <2>8 DEF HandleDaemonMessage, ShowWaitingState, LaunchConsole, LaunchFails,
                  LaunchRejected, ApplyDisplayPower, PowerHelperFails, Receiving
    <3>2. sess.up
      BY <1>1, <3>1 DEF EndsAgree
    <3>3. d2s # <<>> => Msg \in DaemonMessage
      BY EventsTyped DEF Msg
    <3>4. PICK s, r : Respond(s, r) /\ s.up /\ StopConsole(s).up /\ StopConsole(s).console = "none"
      <4>1. CASE ShowWaitingState
        <5> DEFINE t == [StopConsole(sess) EXCEPT !.waiting_reason = Msg.arg, !.pin = Msg.pin]
        <5>1. Respond(t, <<>>)
          BY <4>1 DEF ShowWaitingState
        <5>2. t.up
          BY <1>1, <3>2 DEF StopConsole, SessType
        <5>3. StopConsole(t).up /\ StopConsole(t).console = "none"
          BY <1>1, <3>2 DEF StopConsole, SessType
        <5> QED
          BY <5>1, <5>2, <5>3
      <4>2. CASE LaunchConsole
        <5> DEFINE t == [sess EXCEPT !.console = Msg.arg, !.alive = TRUE,
                                         !.waiting_reason = "connecting", !.pin = Msg.pin]
        <5>1. Respond(t, <<Event("console_started")>>)
          BY <4>2 DEF LaunchConsole
        <5>2. t.up
          BY <1>1, <3>2 DEF StopConsole, SessType
        <5>3. StopConsole(t).up /\ StopConsole(t).console = "none"
          BY <1>1, <3>2 DEF StopConsole, SessType
        <5> QED
          BY <5>1, <5>2, <5>3
      <4>3. CASE LaunchFails
        <5> DEFINE t == [StopConsole(sess) EXCEPT !.waiting_reason = "degraded", !.pin = NoPin]
        <5>1. Respond(t, <<Event("session_error")>>)
          BY <4>3 DEF LaunchFails
        <5>2. t.up
          BY <1>1, <3>2 DEF StopConsole, SessType
        <5>3. StopConsole(t).up /\ StopConsole(t).console = "none"
          BY <1>1, <3>2 DEF StopConsole, SessType
        <5> QED
          BY <5>1, <5>2, <5>3
      <4>4. CASE LaunchRejected
        BY <1>1, <3>2, <4>4 DEF LaunchRejected, StopConsole, SessType
      <4>5. CASE ApplyDisplayPower
        BY <1>1, <3>2, <4>5 DEF ApplyDisplayPower, StopConsole, SessType
      <4>6. CASE PowerHelperFails
        BY <1>1, <2>1, <3>2, <4>6 DEF PowerHelperFails
      <4> QED
        BY <2>8, <4>1, <4>2, <4>3, <4>4, <4>5, <4>6 DEF HandleDaemonMessage
    <3>5. CASE sess' = s /\ UNCHANGED <<conn, pend, client>>
      BY <1>1, <3>1, <3>4, <3>5, EndsUsed
    <3>6. CASE sess' = StopConsole(s) /\ ClientClose
      BY <3>4, <3>6, EndsClosed
    <3> QED
      BY <3>4, <3>5, <3>6 DEF Respond, Exchange
  <2> QED
    BY <2>2, <2>3, <2>4, <2>5, <2>6, <2>7, <2>8 DEF SessionStep
<1> QED
  BY <1>1, <1>2, <1>3, <1>4 DEF LinkInv
\* The link between the two processes, with the invariants it rests on.
Linked == TypeInv /\ SafetyInv /\ BudgetInv /\ LinkInv

LEMMA LinkInit == Init => Linked
<1> SUFFICES ASSUME Init PROVE Linked
  OBVIOUS
<1>1. TypeInv
  BY InitTypeInv
<1>2. SafetyInv
  BY DEF Init, DaemonInit, CtlInit, BtnInit, SafetyInv, ReadyIsConnected, ReasonIsDegraded,
         Degraded, ErrorEndsAction
<1>3. BudgetInv
  <2>1. \A k \in EventKinds : Budget[k] \in Nat /\ left[k] = Budget[k]
    BY GuestAssumption DEF Init, GuestInit
  <2> QED
    BY <2>1 DEF BudgetInv
<1>4. LinkInv
  <2>1. DOMAIN pend = {} /\ conn = "none" /\ client = "closed" /\ sess = SessInit
    BY DEF Init, SocketInit
  <2>2. EndsAgree
    BY <2>1 DEF EndsAgree, SessInit
  <2> QED
    BY <2>1, <2>2 DEF Init, DaemonInit, LinkInv, Ungreeted
<1> QED
  BY <1>1, <1>2, <1>3, <1>4 DEF Linked

LEMMA LinkStep ==
    ASSUME Linked, [Next]_vars
    PROVE  Linked'
<1>1. TypeInv /\ SafetyInv /\ BudgetInv /\ LinkInv
  BY DEF Linked
<1>2. TypeInv' /\ BudgetInv'
  BY <1>1, TypeStep, LeftShrinks
<1>3. CASE DaemonStep
  <2>1. UNCHANGED sess /\ (HandleMessage \/ Tick \/ Loop)
    BY <1>3 DEF DaemonStep, DaemonNext, DaemonLoop, Loop
  <2>2. SafetyInv'
    BY <1>1, <1>2, <1>3, HandleMessageSafe, TickSafe, LoopSafe
       DEF DaemonStep, DaemonNext, DaemonLoop
  <2>3. LinkInv'
    BY <1>1, <2>1, LinkHandle, LinkTick, LinkLoop
  <2> QED
    BY <1>2, <2>2, <2>3 DEF Linked
<1>4. CASE SessionStep
  BY <1>1, <1>2, <1>4, OthersSafe, LinkSession DEF Linked
<1>5. CASE GuestStep \/ UNCHANGED vars
  <2>1. UNCHANGED <<pc, inbox, ctl, sess, conn, pend, s2d, d2s, client>>
    BY <1>5 DEF GuestStep, vars, daemonVars, socketVars
  <2>2. EndsAgree'
    BY <1>1, <2>1, EndsKept DEF LinkInv
  <2>3. LinkInv'
    BY <1>1, <2>1, <2>2 DEF LinkInv, Ungreeted, Events
  <2> QED
    BY <1>1, <1>2, <1>5, <2>3, OthersSafe DEF Linked
<1> QED
  BY <1>3, <1>4, <1>5 DEF Next

-----------------------------------------------------------------------------
(* The steps that leave a session connected and greeted, in one list.       *)

Up == conn = "up" /\ ctl.session_ready

\* A handler takes the oldest event; its answer is msgs.
HandleUp(msgs) ==
    /\ pc = "handle" /\ UNCHANGED sess /\ d2s' = d2s \o msgs
    /\ Events # <<>> /\ Events' = Tail(Events) /\ Head(inbox) = Head(Events)
    /\ Answers(ctl', moon', msgs)
    /\ ctl.session_ready \/ Head(inbox).type = "session_ready"

\* tick() writes msgs.
TickUp(msgs) ==
    /\ pc = "tick" /\ pc' = "read" /\ UNCHANGED sess /\ d2s' = d2s \o msgs
    /\ Events' = Events /\ Takes(ctl', moon', msgs) /\ ctl.session_ready

\* The rest of the daemon's loop, and the session with the guest.
LoopStep ==
    /\ UNCHANGED <<sess, d2s>> /\ Events' = Events
    /\ ctl'.session_ready = ctl.session_ready
    /\ Rests \/ LosesInput \/ Presses

SessionUpStep ==
    /\ UNCHANGED daemonVars
    /\ \/ Idles \/ ReportsExit \/ ObeysStop \/ ObeysConnect \/ RefusesConnect
       \/ ObeysPower \/ RefusesPower

LEMMA UpStep ==
    ASSUME Linked, [Next]_vars, Up'
    PROVE  /\ conn = "up"
           /\ \/ \E msgs \in Seq(DaemonMessage) : HandleUp(msgs) \/ TickUp(msgs)
              \/ LoopStep \/ SessionUpStep
<1>1. TypeInv /\ SafetyInv /\ BudgetInv /\ LinkInv /\ conn' = "up" /\ ctl'.session_ready
  BY DEF Linked, Up
<1>2. CASE HandleMessage /\ UNCHANGED sess
  <2>1. PICK c \in CtlType, m \in MoonType, msgs \in Seq(DaemonMessage) :
          Handled(c, m, msgs) /\ Answers(c, m, msgs)
    BY <1>1, <1>2, HandleAnswers
  <2>2. pc = "handle"
    BY <1>1, <1>2, HandleAnswers
  <2>3. /\ conn = "up" /\ ctl' = c /\ moon' = m /\ d2s' = d2s \o msgs
        /\ Events # <<>> /\ Head(Events) = Head(inbox) /\ Events' = Tail(Events)
    BY <1>1, <2>1, <2>2, HandledUp
  <2>4. ctl.session_ready \/ Head(inbox).type = "session_ready"
    BY <1>1, <2>3 DEF LinkInv, Ungreeted, Event
  <2>5. HandleUp(msgs)
    BY <1>2, <2>1, <2>2, <2>3, <2>4 DEF HandleUp
  <2> QED
    BY <2>3, <2>5
<1>3. CASE Tick /\ UNCHANGED sess
  <2>1. PICK c \in CtlType, m \in MoonType, msgs \in Seq(DaemonMessage) :
          Ticked(c, m, msgs) /\ Takes(c, m, msgs)
    BY <1>1, <1>3, TickTakes
  <2>2. pc = "tick" /\ pc' = "read"
    BY <1>1, <1>3, <2>1, TickTakes DEF Ticked
  <2>3. /\ conn = "up" /\ ctl' = c /\ moon' = m /\ d2s' = d2s \o msgs /\ Events' = Events
    BY <1>1, <2>1, TickedUp
  <2>4. ctl.session_ready
    BY <1>1, <2>1, <2>3 DEF Takes, PathFaulted, PathBlind, PathAlone, FailsFrom, Alike, Fallen
  <2>5. TickUp(msgs)
    BY <1>3, <2>1, <2>2, <2>3, <2>4 DEF TickUp
  <2> QED
    BY <2>3, <2>5
<1>4. CASE Loop /\ UNCHANGED sess
  <2>1. ~Accepts
    BY <1>1 DEF Accepts, SafetyInv, ReadyIsConnected
  <2>2. conn = "up" /\ UNCHANGED d2s /\ Events' = Events /\ (Rests \/ LosesInput \/ Presses)
    BY <1>1, <1>4, <2>1, LoopUp
  <2>3. ctl'.session_ready = ctl.session_ready
    BY <2>2 DEF Rests, LosesInput, Presses, Alike, Fallen
  <2> QED
    BY <1>4, <2>2, <2>3 DEF LoopStep
<1>5. CASE SessionStep
  BY <1>1, <1>5, SessionUp DEF SessionUpStep
<1>6. CASE GuestStep \/ UNCHANGED vars
  BY <1>1, <1>6 DEF GuestStep, vars, daemonVars, socketVars, SessionUpStep, Idles, SameScreen,
                    Events
<1> QED
  BY <1>2, <1>3, <1>4, <1>5, <1>6 DEF Next, DaemonStep, DaemonNext, DaemonLoop, Loop

-----------------------------------------------------------------------------
(* What written and handled messages do to the queues.                      *)

\* The last message of a kind is one.
LEMMA LastUnique ==
    ASSUME NEW S, NEW q \in Seq(S), NEW types, NEW m, NEW M, LastIn(q, types, {m})
    PROVE  LastIn(q, types, M) <=> m \in M
<1>1. \A i \in DOMAIN q : i \in Int
  OBVIOUS
<1>2. PICK i \in DOMAIN q : /\ q[i].type \in types /\ q[i] = m
                            /\ \A j \in DOMAIN q : j > i => q[j].type \notin types
  BY DEF LastIn
<1>3. ASSUME LastIn(q, types, M) PROVE m \in M
  <2>1. PICK k \in DOMAIN q : /\ q[k].type \in types /\ q[k] \in M
                              /\ \A j \in DOMAIN q : j > k => q[j].type \notin types
    BY <1>3 DEF LastIn
  <2>2. k = i
    BY <1>1, <1>2, <2>1
  <2> QED
    BY <1>2, <2>1, <2>2
<1>4. ASSUME m \in M PROVE LastIn(q, types, M)
  BY <1>2, <1>4 DEF LastIn
<1> QED
  BY <1>3, <1>4

\* Written messages decide what the screen and the power will be, or leave them.
LEMMA ScreenWritten ==
    ASSUME TypeInv, NEW msgs \in Seq(DaemonMessage), d2s' = d2s \o msgs
    PROVE  /\ \A m, M : \A now \in BOOLEAN : Screen(msgs, m) =>
                /\ Settles(d2s', ScreenTypes, M, now) <=> m \in M
                /\ m.type \in Stops => Has(d2s', Stops)
                /\ Has(d2s', {"connect_console"}) =>
                     Has(d2s, {"connect_console"}) \/ m.type = "connect_console"
           /\ Silent(msgs) =>
                /\ \A M : \A now \in BOOLEAN :
                     Settles(d2s', ScreenTypes, M, now) <=> Settles(d2s, ScreenTypes, M, now)
                /\ Has(d2s', {"connect_console"}) => Has(d2s, {"connect_console"})
           /\ \A types : Has(d2s, types) => Has(d2s', types)
<1>1. d2s \in Seq(DaemonMessage)
  BY EventsTyped
<1>2. \A types : Has(d2s', types) <=> Has(d2s, types) \/ Has(msgs, types)
  BY <1>1, HasConcat
<1>3. \A M : \A now \in BOOLEAN :
        Settles(d2s', ScreenTypes, M, now) <=>
          \/ LastIn(msgs, ScreenTypes, M)
          \/ ~Has(msgs, ScreenTypes) /\ Settles(d2s, ScreenTypes, M, now)
  BY <1>1, SettlesConcat
<1>4. ASSUME NEW m, Screen(msgs, m)
      PROVE  /\ \A M : \A now \in BOOLEAN : Settles(d2s', ScreenTypes, M, now) <=> m \in M
             /\ m.type \in Stops => Has(d2s', Stops)
             /\ Has(d2s', {"connect_console"}) =>
                  Has(d2s, {"connect_console"}) \/ m.type = "connect_console"
  <2>1. Has(msgs, ScreenTypes) /\ \A M : LastIn(msgs, ScreenTypes, M) <=> m \in M
    BY <1>4, LastUnique, LastHas DEF Screen
  <2>2. m.type \in Stops => Has(msgs, Stops)
    BY <1>4 DEF Screen, LastIn, Has
  <2> QED
    BY <1>2, <1>3, <1>4, <2>1, <2>2 DEF Screen
<1>5. ASSUME Silent(msgs)
      PROVE  /\ \A M : \A now \in BOOLEAN :
                  Settles(d2s', ScreenTypes, M, now) <=> Settles(d2s, ScreenTypes, M, now)
             /\ Has(d2s', {"connect_console"}) => Has(d2s, {"connect_console"})
  <2>1. ~Has(msgs, ScreenTypes) /\ ~Has(msgs, {"connect_console"})
    BY <1>5, HasFewer DEF Silent, ScreenTypes
  <2>2. \A M : ~LastIn(msgs, ScreenTypes, M)
    BY <2>1, LastHas
  <2> QED
    BY <1>2, <1>3, <2>1, <2>2
<1> QED
  BY <1>2, <1>4, <1>5

LEMMA PowerWritten ==
    ASSUME TypeInv, NEW msgs \in Seq(DaemonMessage), d2s' = d2s \o msgs, UNCHANGED sess, NEW p
    PROVE  LET before == Settles(d2s, {"display_power"}, {DisplayPower(p)}, sess.power = p)
               after == Settles(d2s', {"display_power"}, {DisplayPower(p)}, sess'.power = p)
           IN  (Powerless(msgs) => (after <=> before)) /\ (PowerEnds(msgs, p) => after)
<1>1. d2s \in Seq(DaemonMessage) /\ (sess.power = p) \in BOOLEAN
  BY EventsTyped
<1>2. Settles(d2s \o msgs, {"display_power"}, {DisplayPower(p)}, sess.power = p) <=>
        \/ LastIn(msgs, {"display_power"}, {DisplayPower(p)})
        \/ /\ ~Has(msgs, {"display_power"})
           /\ Settles(d2s, {"display_power"}, {DisplayPower(p)}, sess.power = p)
  BY <1>1, SettlesConcat
<1>3. LastIn(msgs, {"display_power"}, {DisplayPower(p)}) => Has(msgs, {"display_power"})
  BY LastHas
<1> QED
  BY <1>2, <1>3 DEF Powerless, PowerEnds

\* A message the session handles takes effect.
LEMMA PowerHandled ==
    ASSUME TypeInv, d2s # <<>>, d2s' = Tail(d2s), NEW p,
           IF Msg.type = "display_power" THEN sess'.power = Msg.arg ELSE sess'.power = sess.power
    PROVE  Settles(d2s', {"display_power"}, {DisplayPower(p)}, sess'.power = p) <=>
             Settles(d2s, {"display_power"}, {DisplayPower(p)}, sess.power = p)
<1>1. d2s \in Seq(DaemonMessage) /\ Head(d2s) \in DaemonMessage /\ Msg = Head(d2s)
  BY EventsTyped DEF Msg
<1>2. Msg.type = "display_power" => (Msg.arg = p <=> Msg \in {DisplayPower(p)})
  BY <1>1 DEF DaemonMessage, DisplayPower
<1>3. (sess.power = p) \in BOOLEAN /\ (sess'.power = p) \in BOOLEAN
  OBVIOUS
<1> QED
  BY <1>1, <1>2, <1>3, SettlesTail
-----------------------------------------------------------------------------
(* The display heads for the power the daemon intends.                      *)

\* A session that has been told nothing but to wait, and has nothing to report
\* that would take the daemon out of degraded mode.
Mute ==
    /\ sess.console = "none" /\ ~Has(d2s, Acts)
    /\ ~Has(Events, {"display_power_applied", "console_started", "console_exited"})

\* A session that connects to a degraded daemon is not told the power; but it
\* stays that way, for such a session never gets the daemon out of that mode.
IntentInv ==
    Up /\ Unspent({"helper"}) => PowerHeadedFor(disp.intent) \/ (Faulted(ctl) /\ Mute)

\* What keeps a session mute.
LEMMA MuteKept ==
    ASSUME TypeInv, Mute, UNCHANGED sess, NEW msgs \in Seq(DaemonMessage), d2s' = d2s \o msgs,
           Powerless(msgs), ~Has(msgs, {"connect_console"}),
           Events' = Events \/ (Events # <<>> /\ Events' = Tail(Events))
    PROVE  Mute'
<1>1. ~Has(msgs, Acts)
  BY DEF Powerless, Acts, Has
<1>2. ~Has(d2s', Acts)
  BY <1>1, HasConcat, EventsTyped DEF Mute
<1>3. ~Has(Events', {"display_power_applied", "console_started", "console_exited"})
  <2> DEFINE T == {"display_power_applied", "console_started", "console_exited"}
  <2>1. Events \in Seq(SessionMessage) /\ ~Has(Events, T)
    BY EventsTyped DEF Mute
  <2> HIDE DEF T
  <2>2. Events # <<>> => ~Has(Tail(Events), T)
    BY <2>1, HasTail
  <2> QED
    BY <2>1, <2>2, Zenon DEF T
<1> QED
  BY <1>2, <1>3 DEF Mute

LEMMA IntentHandle ==
    ASSUME Linked, Linked', IntentInv, Up', Unspent({"helper"}),
           NEW msgs \in Seq(DaemonMessage), HandleUp(msgs), conn = "up"
    PROVE  IntentInv'
<1> SUFFICES PowerHeadedFor(disp.intent)' \/ (Faulted(ctl)' /\ Mute')
  BY DEF IntentInv
<1>1. /\ TypeInv /\ LinkInv /\ UNCHANGED sess /\ d2s' = d2s \o msgs
      /\ Events # <<>> /\ Events' = Tail(Events) /\ Head(inbox) = Head(Events)
      /\ ctl.session_ready \/ Head(inbox).type = "session_ready"
      /\ Answers(ctl', moon', msgs)
  BY DEF Linked, HandleUp
<1>2. Events \in Seq(SessionMessage)
  BY <1>1, EventsTyped
<1>3. disp'.intent = disp.intent
  BY <1>1 DEF Answers, GreetsDegraded, GreetsBlind, GreetsInformed, NotesStarted, NotesApplied,
              NotesExited, NotesError
<1>4. /\ Powerless(msgs) => (PowerHeadedFor(disp.intent)' <=> PowerHeadedFor(disp.intent))
      /\ PowerEnds(msgs, disp.intent) => PowerHeadedFor(disp.intent)'
  BY <1>1, <1>3, PowerWritten DEF PowerHeadedFor
<1>5. Powerless(<<>>)
  BY SingleMessages
<1>6. CASE Greets(ctl', moon') /\ GreetsDegraded(ctl', msgs)
  <2>1. Powerless(msgs) /\ ~Has(msgs, {"connect_console"}) /\ Faulted(ctl)'
    BY <1>6 DEF Greets, GreetsDegraded, Screen, ShowWaiting, Faulted
  <2>2. CASE ctl.session_ready
    <3>1. PowerHeadedFor(disp.intent) \/ Mute
      BY <2>2 DEF IntentInv, Up
    <3> QED
      BY <1>1, <1>4, <2>1, <3>1, MuteKept
  <2>3. CASE ~ctl.session_ready
    <3>1. Events = <<Event("session_ready")>> /\ sess.console = "none" /\ ~Has(d2s, Acts)
      BY <1>1, <2>3 DEF LinkInv, Ungreeted
    <3>2. Mute
      <4>1. Event("session_ready").type = "session_ready"
        BY DEF Event
      <4>2. ~Has(<<Event("session_ready")>>,
                 {"display_power_applied", "console_started", "console_exited"})
        BY <4>1, HasSmall
      <4> QED
        BY <3>1, <4>2, Zenon DEF Mute
    <3> QED
      BY <1>1, <2>1, <3>2, MuteKept
  <2> QED
    BY <2>2, <2>3
<1>7. CASE Greets(ctl', moon') /\ (GreetsBlind(ctl', msgs) \/ GreetsInformed(ctl', msgs))
  BY <1>4, <1>7 DEF GreetsBlind, GreetsInformed
<1>8. CASE NotesStarted(ctl', msgs) \/ NotesApplied(ctl', msgs) \/ NotesExited(ctl', msgs)
  <2>1. Has(Events, {"display_power_applied", "console_started", "console_exited"})
        /\ Powerless(msgs) /\ Head(inbox).type # "session_ready"
    BY <1>1, <1>2, <1>5, <1>8, HasTail DEF NotesStarted, NotesApplied, NotesExited
  <2>2. PowerHeadedFor(disp.intent)
    BY <1>1, <2>1 DEF IntentInv, Mute, Up
  <2> QED
    BY <1>4, <2>1, <2>2
<1>9. CASE NotesError(ctl', msgs)
  <2>1. /\ Powerless(msgs) /\ ~Has(msgs, {"connect_console"}) /\ Faulted(ctl)'
        /\ Head(inbox).type # "session_ready"
    BY <1>9 DEF NotesError, Screen, ShowWaiting, Faulted, Fallen
  <2>2. PowerHeadedFor(disp.intent) \/ Mute
    BY <1>1, <2>1 DEF IntentInv, Up
  <2> QED
    BY <1>1, <1>4, <2>1, <2>2, MuteKept
<1> QED
  BY <1>1, <1>6, <1>7, <1>8, <1>9 DEF Answers

\* tick() announces what it changes.
LEMMA IntentTick ==
    ASSUME TypeInv, NEW msgs \in Seq(DaemonMessage), TickUp(msgs)
    PROVE  PowerHeadedFor(disp.intent) => PowerHeadedFor(disp.intent)'
<1>1. UNCHANGED sess /\ d2s' = d2s \o msgs /\ Announced(msgs)
  BY DEF TickUp, Takes
<1>2. CASE PowerEnds(msgs, disp'.intent)
  BY <1>1, <1>2, PowerWritten DEF PowerHeadedFor
<1>3. CASE Powerless(msgs) /\ disp'.intent = disp.intent
  BY <1>1, <1>3, PowerWritten DEF PowerHeadedFor
<1> QED
  BY <1>1, <1>2, <1>3 DEF Announced

LEMMA IntentStep ==
    ASSUME Linked, Linked', [Next]_vars, IntentInv
    PROVE  IntentInv'
<1> SUFFICES ASSUME Up', Unspent({"helper"})' PROVE IntentInv'
  BY DEF IntentInv
<1>1. /\ conn = "up"
      /\ \/ \E msgs \in Seq(DaemonMessage) : HandleUp(msgs) \/ TickUp(msgs)
         \/ LoopStep \/ SessionUpStep
  BY UpStep
<1>2. TypeInv /\ BudgetInv
  BY DEF Linked
<1>3. Unspent({"helper"})
  <2>1. {"helper"} \in SUBSET EventKinds
    BY DEF EventKinds
  <2> QED
    BY <1>2, <2>1, LeftShrinks
<1>4. ASSUME NEW msgs \in Seq(DaemonMessage), HandleUp(msgs) PROVE IntentInv'
  BY <1>1, <1>3, <1>4, IntentHandle
<1>5. ctl.session_ready => PowerHeadedFor(disp.intent) \/ (Faulted(ctl) /\ Mute)
  BY <1>1, <1>3 DEF IntentInv, Up
<1>6. ASSUME NEW msgs \in Seq(DaemonMessage), TickUp(msgs) PROVE IntentInv'
  <2>1. CASE PowerHeadedFor(disp.intent)
    BY <1>2, <1>6, <2>1, IntentTick DEF IntentInv
  <2>2. CASE Faulted(ctl) /\ Mute
    <3>1. /\ ctl' = ctl /\ msgs = <<>> /\ UNCHANGED sess /\ d2s' = d2s \o msgs
          /\ Events' = Events
      BY <1>6, <2>2 DEF TickUp, Takes, PathFaulted, PathBlind
    <3>2. Powerless(msgs) /\ ~Has(msgs, {"connect_console"})
      BY <3>1, SingleMessages, HasSmall
    <3>3. Mute'
      BY <1>2, <2>2, <3>1, <3>2, MuteKept
    <3> QED
      BY <2>2, <3>1, <3>3 DEF IntentInv
  <2> QED
    BY <1>5, <1>6, <2>1, <2>2 DEF TickUp
<1>7. CASE LoopStep
  <2>1. /\ UNCHANGED <<sess, d2s>> /\ Events' = Events /\ ctl.session_ready
        /\ disp'.intent = disp.intent /\ (Faulted(ctl) => Faulted(ctl)')
    BY <1>7 DEF LoopStep, Rests, LosesInput, Presses, SameDisplay, Alike, Fallen, Faulted, Up
  <2>2. PowerHeadedFor(disp.intent) => PowerHeadedFor(disp.intent)'
    BY <2>1 DEF PowerHeadedFor
  <2>3. Mute => Mute'
    BY <2>1 DEF Mute
  <2> QED
    BY <1>5, <2>1, <2>2, <2>3 DEF IntentInv
<1>8. CASE SessionUpStep
  <2>1. UNCHANGED <<ctl, disp>> /\ ctl.session_ready
    BY <1>8 DEF SessionUpStep, daemonVars, Up
  <2>2. Events \in Seq(SessionMessage) /\ Events \o <<>> = Events /\ d2s \in Seq(DaemonMessage)
    BY <1>2, EventsTyped
  <2>3. CASE Idles
    BY <1>5, <2>1, <2>3 DEF Idles, SameScreen, PowerHeadedFor, Mute, IntentInv
  <2>4. CASE ReportsExit
    BY <1>5, <2>1, <2>4 DEF ReportsExit, PowerHeadedFor, Mute, IntentInv
  <2>5. CASE ObeysStop
    <3>1. /\ d2s # <<>> /\ d2s' = Tail(d2s) /\ Events' = Events /\ sess'.console = "none"
          /\ sess'.power = sess.power /\ Msg.type # "display_power"
      BY <2>2, <2>5 DEF ObeysStop, Obeys, Stops
    <3>2. PowerHeadedFor(disp.intent) => PowerHeadedFor(disp.intent)'
      BY <1>2, <2>1, <3>1, PowerHandled DEF PowerHeadedFor
    <3>3. Mute => Mute'
      BY <2>2, <3>1, HasTail DEF Mute
    <3> QED
      BY <1>5, <2>1, <3>2, <3>3 DEF IntentInv
  <2>6. CASE ObeysConnect \/ RefusesConnect \/ ObeysPower
    <3>1. /\ d2s # <<>> /\ d2s' = Tail(d2s) /\ Msg.type \in Acts
          /\ IF Msg.type = "display_power" THEN sess'.power = Msg.arg
                                           ELSE sess'.power = sess.power
      BY <2>6 DEF ObeysConnect, RefusesConnect, ObeysPower, Obeys, Acts
    <3>2. PowerHeadedFor(disp.intent) => PowerHeadedFor(disp.intent)'
      BY <1>2, <2>1, <3>1, PowerHandled DEF PowerHeadedFor
    <3>3. ~Mute
      BY <2>2, <3>1, HasTail DEF Mute, Msg
    <3> QED
      BY <1>5, <2>1, <3>2, <3>3 DEF IntentInv
  <2>7. CASE RefusesPower
    BY <2>7 DEF RefusesPower
  <2> QED
    BY <1>8, <2>3, <2>4, <2>5, <2>6, <2>7 DEF SessionUpStep
<1> QED
  BY <1>1, <1>4, <1>6, <1>7, <1>8

-----------------------------------------------------------------------------
(* A viewer on the screen is one the daemon knows of.                       *)

\* Or hears of, or has already told the session to stop.
OrphanInv ==
    conn = "up" /\ sess.console # "none" =>
      \/ PressFailed \/ ctl.console_running \/ Has(d2s, Stops)
      \/ Has(Events, {"console_started", "console_exited", "session_error"})

LEMMA OrphanStep ==
    ASSUME Linked, Linked', [Next]_vars, OrphanInv
    PROVE  OrphanInv'
<1> DEFINE Reports == {"console_started", "console_exited", "session_error"}
<1> SUFFICES ASSUME conn' = "up", sess'.console # "none", ~PressFailed'
             PROVE  ctl'.console_running \/ Has(d2s', Stops) \/ Has(Events', Reports)
  BY DEF OrphanInv
<1>1. TypeInv /\ BudgetInv /\ Up'
  BY DEF Linked, LinkInv, Ungreeted, Up
<1>2. /\ conn = "up"
      /\ \/ \E msgs \in Seq(DaemonMessage) : HandleUp(msgs) \/ TickUp(msgs)
         \/ LoopStep \/ SessionUpStep
  BY <1>1, UpStep
<1>3. ~PressFailed
  <2>1. {"press"} \in SUBSET EventKinds /\ {"qm"} \in SUBSET EventKinds
    BY DEF EventKinds
  <2> QED
    BY <1>1, <2>1, LeftShrinks DEF PressFailed
<1>4. Events \in Seq(SessionMessage) /\ d2s \in Seq(DaemonMessage)
  BY <1>1, EventsTyped
<1>5. sess.console # "none" => ctl.console_running \/ Has(d2s, Stops) \/ Has(Events, Reports)
  BY <1>2, <1>3 DEF OrphanInv
<1>6. ASSUME NEW msgs \in Seq(DaemonMessage), d2s' = d2s \o msgs
      PROVE  /\ Has(d2s, Stops) => Has(d2s', Stops)
             /\ \A m : Screen(msgs, m) /\ m.type \in Stops => Has(d2s', Stops)
  BY <1>1, <1>6, ScreenWritten
<1>7. /\ \A r : ShowWaiting(r).type \in Stops /\ DisconnectConsole(r).type \in Stops
      /\ \A p : ShowPairing(p).type \in Stops
  BY DEF ShowWaiting, DisconnectConsole, ShowPairing, Stops
<1>8. ASSUME NEW msgs \in Seq(DaemonMessage), HandleUp(msgs)
      PROVE  ctl'.console_running \/ Has(d2s', Stops) \/ Has(Events', Reports)
  <2>1. /\ UNCHANGED sess /\ d2s' = d2s \o msgs /\ Answers(ctl', moon', msgs)
        /\ Events # <<>> /\ Events' = Tail(Events) /\ Head(inbox) = Head(Events)
    BY <1>8 DEF HandleUp
  <2>2. CASE Greets(ctl', moon')
    BY <1>6, <1>7, <2>1, <2>2
       DEF Answers, Greets, GreetsDegraded, GreetsBlind, GreetsInformed, NotesStarted,
           NotesApplied, NotesExited, NotesError
  <2>3. CASE NotesStarted(ctl', msgs)
    BY <2>3 DEF NotesStarted
  <2>4. CASE NotesExited(ctl', msgs) \/ NotesError(ctl', msgs)
    BY <1>6, <1>7, <2>1, <2>4 DEF NotesExited, NotesError
  <2>5. CASE NotesApplied(ctl', msgs)
    <3>1. ctl.console_running = ctl'.console_running /\ Head(Events).type \notin Reports
      BY <2>1, <2>5 DEF NotesApplied, Moved
    <3>2. Has(Events, Reports) => Has(Events', Reports)
      BY <1>4, <2>1, <3>1, HasTail
    <3> QED
      BY <1>5, <1>6, <2>1, <3>1, <3>2
  <2> QED
    BY <2>1, <2>2, <2>3, <2>4, <2>5 DEF Answers
<1>9. ASSUME NEW msgs \in Seq(DaemonMessage), TickUp(msgs)
      PROVE  ctl'.console_running \/ Has(d2s', Stops) \/ Has(Events', Reports)
  <2>1. /\ UNCHANGED sess /\ d2s' = d2s \o msgs /\ Takes(ctl', moon', msgs) /\ Events' = Events
        /\ ctl.session_ready
    BY <1>9 DEF TickUp
  <2>2. \/ ctl.console_running => ctl'.console_running
        \/ \E m : Screen(msgs, m) /\ m.type \in Stops
    <3>1. CASE PathFaulted(ctl', moon', msgs) \/ PathBlind(ctl', moon', msgs)
      BY <1>7, <3>1 DEF PathFaulted, PathBlind, FailsFrom, Alike
    <3>2. CASE PathOff(ctl', moon', msgs)
      BY <1>7, <3>2 DEF PathOff
    <3>3. CASE PathTransitional(ctl', moon', msgs) \/ PathShowing(ctl', moon', msgs)
               \/ PathBackoff(ctl', moon', msgs) \/ PathUnreachable(ctl', moon', msgs)
               \/ PathPairIssue(ctl', moon', msgs) \/ PathPairWait(ctl', moon', msgs)
               \/ PathLaunch(ctl', moon', msgs) \/ PathEndpoint(ctl', moon', msgs)
      BY <3>3 DEF PathTransitional, PathShowing, PathBackoff, PathUnreachable, PathPairIssue,
                  PathPairWait, PathLaunch, PathEndpoint, Moved, Alike
    <3>4. CASE PathInvalid(ctl', moon', msgs)
      BY <1>7, <3>4 DEF PathInvalid
    <3>5. CASE PathRefused(ctl', moon', msgs)
      BY <1>7, <3>5 DEF PathRefused, FailsFrom, Moved, Alike
    <3> QED
      BY <2>1, <3>1, <3>2, <3>3, <3>4, <3>5 DEF Takes, PathAlone, PathInformed
  <2> QED
    BY <1>5, <1>6, <2>1, <2>2
<1>10. CASE LoopStep
  <2>1. /\ UNCHANGED <<sess, d2s>> /\ Events' = Events
        /\ ctl'.console_running = ctl.console_running
    BY <1>10 DEF LoopStep, Rests, LosesInput, Presses, Alike
  <2> QED
    BY <1>5, <2>1
<1>11. CASE SessionUpStep
  <2>1. ctl' = ctl
    BY <1>11 DEF SessionUpStep, daemonVars
  <2>2. CASE Idles
    BY <1>5, <2>1, <2>2 DEF Idles, SameScreen
  <2>3. CASE ReportsExit \/ ObeysStop
    BY <2>3 DEF ReportsExit, ObeysStop
  <2>4. CASE ObeysConnect \/ RefusesConnect
    <3>1. \A t \in {"console_started", "session_error"} :
            /\ <<Event(t)>> \in Seq(SessionMessage) /\ Has(<<Event(t)>>, Reports)
      <4> SUFFICES ASSUME NEW t \in {"console_started", "session_error"}
                   PROVE  <<Event(t)>> \in Seq(SessionMessage) /\ Has(<<Event(t)>>, Reports)
        OBVIOUS
      <4>1. Event(t) \in SessionMessage /\ Event(t).type \in Reports
        BY DEF Event, SessionMessage
      <4>2. <<Event(t)>> \in Seq(SessionMessage)
        BY <4>1
      <4> HIDE DEF Reports
      <4> QED
        BY <4>1, <4>2, HasSmall
    <3>2. \E t \in {"console_started", "session_error"} : Events' = Events \o <<Event(t)>>
      BY <2>4 DEF ObeysConnect, RefusesConnect, Obeys
    <3> HIDE DEF Reports
    <3>3. PICK t \in {"console_started", "session_error"} : Events' = Events \o <<Event(t)>>
      BY <3>2
    <3>4. Has(Events \o <<Event(t)>>, Reports)
      BY <1>4, <3>1, HasConcat
    <3> QED
      BY <3>3, <3>4
  <2>5. CASE ObeysPower \/ RefusesPower
    <3>1. PICK r \in Seq(SessionMessage) : Events' = Events \o r
      <4>1. d2s # <<>> /\ Msg.type = "display_power"
        BY <2>5 DEF ObeysPower, RefusesPower, Obeys
      <4>2. Msg \in DaemonMessage
        BY <1>4, <4>1 DEF Msg
      <4>3. Msg.arg \in PowerStates
        BY <4>1, <4>2 DEF DaemonMessage
      <4>4. <<>> \in Seq(SessionMessage) /\ <<DisplayPowerApplied(Msg.arg)>> \in Seq(SessionMessage)
        BY <4>3 DEF DisplayPowerApplied, SessionMessage
      <4> QED
        BY <2>5, <4>4 DEF ObeysPower, RefusesPower, Obeys
    <3>2. Has(Events, Reports) => Has(Events', Reports)
      BY <1>4, <3>1, HasConcat
    <3>3. /\ sess'.console = sess.console /\ d2s # <<>> /\ d2s' = Tail(d2s)
          /\ Head(d2s).type \notin Stops
      BY <2>5 DEF ObeysPower, RefusesPower, Obeys, SameScreen, Msg, Stops
    <3>4. Has(d2s, Stops) => Has(d2s', Stops)
      BY <1>4, <3>3, HasTail
    <3> QED
      BY <1>5, <2>1, <3>2, <3>3, <3>4
  <2> QED
    BY <1>11, <2>2, <2>3, <2>4, <2>5 DEF SessionUpStep
<1> QED
  BY <1>2, <1>8, <1>9, <1>10, <1>11
-----------------------------------------------------------------------------
(* Pairing and the reconnect backoff exclude each other.                    *)

\* Only Moonlight has a pairing, and while one is pending no backoff runs.
PairInv ==
    PairingPending(moon) => Backend = "moonlight" /\ ctl.next_reconnect_at = None

\* A send that fails keeps both.
LEMMA PairDelivered ==
    ASSUME NEW c \in CtlType, NEW m \in MoonType, NEW msgs, Deliver(c, m, msgs),
           PairingPending(m) => Backend = "moonlight" /\ c.next_reconnect_at = None
    PROVE  PairInv'
<1>1. Disconnected(c).next_reconnect_at = c.next_reconnect_at
  BY MethodFields
<1>2. PairingPending([m EXCEPT !.launch_pending = FALSE]) = PairingPending(m)
  BY DEF PairingPending, MoonType
<1> QED
  BY <1>1, <1>2, DeliverLink DEF PairInv

LEMMA PairStep ==
    ASSUME TypeInv, BudgetInv, [Next]_vars, PairInv
    PROVE  PairInv'
<1>1. ctl \in CtlType /\ moon \in MoonType
  BY DEF TypeInv, TypeOK, DaemonTypeOK
<1>2. CASE HandleMessage
  <2>1. PICK c \in CtlType, m \in MoonType, msgs \in Seq(DaemonMessage) :
          Handled(c, m, msgs) /\ Answers(c, m, msgs)
    BY <1>2, HandleAnswers
  <2>2. PairingPending(m) => Backend = "moonlight" /\ c.next_reconnect_at = None
    BY <2>1 DEF Answers, Greets, NotesStarted, NotesApplied, NotesExited, NotesError,
                PairingPending, PairInv
  <2> QED
    BY <2>1, <2>2, PairDelivered DEF Handled
<1>3. CASE Tick
  <2>1. PICK c \in CtlType, m \in MoonType, msgs \in Seq(DaemonMessage) :
          Ticked(c, m, msgs) /\ Takes(c, m, msgs)
    BY <1>3, TickTakes
  <2>2. ~PairingPending(Unpaired)
    BY DEF PairingPending, Unpaired, MoonInit
  <2>3. PairingPending(m) => Backend = "moonlight" /\ c.next_reconnect_at = None
    <3>1. CASE PathFaulted(c, m, msgs) \/ PathBlind(c, m, msgs) \/ PathAlone(c, m, msgs)
      BY <3>1 DEF PathFaulted, PathBlind, PathAlone, FailsFrom, PairInv
    <3>2. CASE PathInformed(c, m, msgs)
      BY <2>2, <3>2
         DEF PathInformed, PathOff, PathTransitional, PathShowing, PathBackoff,
             PathUnreachable, PathPairIssue, PathPairWait, PathLaunch, PathEndpoint, PathInvalid,
             PathRefused, PairingPending, PairInv
    <3> QED
      BY <2>1, <3>1, <3>2 DEF Takes
  <2> QED
    BY <2>1, <2>3, PairDelivered DEF Ticked
<1>4. CASE DaemonStart
  <2>1. moon' = moon /\ ctl'.next_reconnect_at = ctl.next_reconnect_at
    <3>1. SetStartupError(ctl, "startup").next_reconnect_at = ctl.next_reconnect_at
      BY <1>1 DEF SetStartupError, CtlType
    <3>2. Transition(ctl, "waiting_for_session").next_reconnect_at = ctl.next_reconnect_at
      BY <1>1, MethodFields
    <3> QED
      BY <1>4, <3>1, <3>2 DEF DaemonStart
  <2> QED
    BY <2>1 DEF PairInv
<1>5. CASE DaemonCrash \/ StatusHangs \/ PressHangs
  BY <1>5 DEF DaemonCrash, StatusHangs, PressHangs, DaemonStops, PairInv, PairingPending, MoonInit
<1>6. CASE ReadMessages
  <2>1. PairingPending(moon)' = PairingPending(moon)
    BY <1>1, <1>6 DEF ReadMessages, PairingPending, MoonType
  <2>2. ctl'.next_reconnect_at = ctl.next_reconnect_at
    BY <1>1, <1>6, MethodFields DEF ReadMessages
  <2> QED
    BY <2>1, <2>2 DEF PairInv
<1>7. CASE PollFails
  BY <1>7 DEF PollFails, PairInv, PairingPending, Unpaired, MoonInit
<1>8. CASE HandlePress
  <2>1. moon' = moon /\ (ctl' = RecordFailure(ctl) \/ ctl' = ClearFailures(ctl))
    BY <1>8 DEF HandlePress, PressNoStatus, PressIgnored, PressRefused, PressAccepted,
                PressStatus, Press
  <2>2. ctl'.next_reconnect_at = ctl.next_reconnect_at
    BY <1>1, <2>1, MethodFields
  <2> QED
    BY <2>1, <2>2 DEF PairInv
<1>9. CASE TimePasses
  <2>1. PairingPending(moon)' = PairingPending(moon)
    BY <1>1, <1>9 DEF TimePasses, PairingPending, MoonType
  <2>2. ctl.next_reconnect_at = None => ctl'.next_reconnect_at = None
    BY <1>1, <1>9 DEF TimePasses, CtlType, None
  <2> QED
    BY <2>1, <2>2 DEF PairInv
<1>10. CASE AcceptPending \/ PollDone \/ SessionStep \/ GuestStep \/ UNCHANGED vars
  BY <1>10 DEF AcceptPending, PollDone, SessionStep, GuestStep, vars, daemonVars, PairInv
<1> QED
  BY <1>2, <1>3, <1>4, <1>5, <1>6, <1>7, <1>8, <1>9, <1>10
     DEF Next, DaemonStep, DaemonNext, DaemonLoop

-----------------------------------------------------------------------------
\* The conjunction is inductive.
RelayInv == Linked /\ IntentInv /\ OrphanInv /\ PairInv

LEMMA Relay == Spec => []RelayInv
<1>1. Init => RelayInv
  <2> SUFFICES ASSUME Init PROVE RelayInv
    OBVIOUS
  <2>1. Linked
    BY LinkInit
  <2>2. conn = "none" /\ moon = MoonInit
    BY DEF Init, SocketInit, DaemonInit
  <2> QED
    BY <2>1, <2>2 DEF RelayInv, IntentInv, Up, OrphanInv, PairInv, PairingPending, MoonInit
<1>2. RelayInv /\ [Next]_vars => RelayInv'
  <2> SUFFICES ASSUME RelayInv, [Next]_vars PROVE RelayInv'
    OBVIOUS
  <2>1. Linked'
    BY LinkStep DEF RelayInv
  <2> QED
    BY <2>1, IntentStep, OrphanStep, PairStep DEF RelayInv, Linked
<1> QED
  BY <1>1, <1>2, PTL DEF Spec

\* Across reconnections and restarts of either process, whatever fails but the
\* power helper, a connected session's display is at the power the daemon
\* intends or will be once the session has handled its messages.
THEOREM IntentReached == Spec => []IntentReaches
<1>1. RelayInv => IntentReaches
  BY DEF RelayInv, IntentInv, IntentReaches, Up
<1> QED
  BY <1>1, Relay, PTL

\* Unless a press met the qm failure that degraded the daemon, a viewer that
\* the session runs when nothing is under way is one the daemon knows of.
THEOREM NoViewerOrphaned == Spec => []NoOrphanConsole
<1>1. RelayInv => NoOrphanConsole
  <2> SUFFICES ASSUME RelayInv, Quiet, ~PressFailed, sess.console # "none"
               PROVE  ctl.console_running
    BY DEF NoOrphanConsole
  <2>1. conn = "up" /\ d2s = <<>> /\ Events = <<>> \o <<>>
    BY DEF Quiet, Events, RelayInv, Linked, LinkInv
  <2>2. <<>> \o <<>> = <<>>
    OBVIOUS
  <2>3. Events = <<>>
    BY <2>1, <2>2
  <2> QED
    BY <2>1, <2>3, HasSmall DEF RelayInv, OrphanInv
<1> QED
  BY <1>1, Relay, PTL

-----------------------------------------------------------------------------
(* A viewer is launched only when it is due.                                *)

\* A step that adds to what the session has to handle is a handler's or a tick's.
LEMMA OnlyWriters ==
    ASSUME Linked, [Next]_vars, NEW i \in DOMAIN d2s', i > Len(d2s)
    PROVE  /\ conn = "up"
           /\ \E msgs \in Seq(DaemonMessage) :
                /\ d2s' = d2s \o msgs
                /\ \/ HandleMessage /\ \E c, m : Answers(c, m, msgs)
                   \/ Tick /\ UNCHANGED sess /\ \E c, m : Takes(c, m, msgs)
<1>1. TypeInv /\ BudgetInv /\ d2s \in Seq(DaemonMessage)
  BY EventsTyped DEF Linked
<1>2. d2s' # d2s /\ d2s' # <<>> /\ (d2s # <<>> => d2s' # Tail(d2s))
  <2>1. \A q \in Seq(DaemonMessage) :
          /\ \A j \in DOMAIN q : ~(j > Len(q))
          /\ q # <<>> => \A j \in DOMAIN Tail(q) : ~(j > Len(q))
    OBVIOUS
  <2> QED
    BY <1>1, <2>1
<1>3. ASSUME NEW c, NEW m, NEW msgs \in Seq(DaemonMessage), Deliver(c, m, msgs)
      PROVE  conn = "up" /\ d2s' = d2s \o msgs
  <2>1. d2s' = d2s \o msgs /\ (msgs = <<>> \/ conn = "up")
    BY <1>2, <1>3, DeliverLink DEF Reaches
  <2>2. d2s \o <<>> = d2s
    BY <1>1
  <2> QED
    BY <1>2, <2>1, <2>2
<1>4. CASE HandleMessage
  <2>1. PICK c \in CtlType, m \in MoonType, msgs \in Seq(DaemonMessage) :
          Handled(c, m, msgs) /\ Answers(c, m, msgs)
    BY <1>1, <1>4, HandleAnswers
  <2> QED
    BY <1>3, <1>4, <2>1 DEF Handled
<1>5. CASE Tick /\ UNCHANGED sess
  <2>1. PICK c \in CtlType, m \in MoonType, msgs \in Seq(DaemonMessage) :
          Ticked(c, m, msgs) /\ Takes(c, m, msgs)
    BY <1>1, <1>5, TickTakes
  <2> QED
    BY <1>3, <1>5, <2>1 DEF Ticked
<1>6. CASE Loop
  BY <1>2, <1>6
     DEF Loop, DaemonStart, AcceptPending, Accept, ReadMessages, ReadAll, PollFails, PollDone,
         HandlePress, PressNoStatus, PressIgnored, PressRefused, PressAccepted, PressStatus,
         Press, DaemonCrash, StatusHangs, PressHangs, DaemonStops, ServerGone, TimePasses,
         socketVars
<1>7. CASE SessionStep
  BY <1>2, <1>7
     DEF SessionStep, SessionConnect, Connect, SessionStart, SessionEof, SessionKilled,
         ClientClose, HandleDaemonMessage, ShowWaitingState, LaunchConsole, LaunchFails,
         LaunchRejected, ApplyDisplayPower, PowerHelperFails, Receiving, Respond, Exchange,
         PollConsole, ViewerExits, socketVars
<1>8. CASE GuestStep \/ UNCHANGED vars
  BY <1>2, <1>8 DEF GuestStep, vars, socketVars
<1> QED
  BY <1>4, <1>5, <1>6, <1>7, <1>8 DEF Next, DaemonStep, DaemonNext, DaemonLoop, Loop

LEMMA LaunchStep ==
    ASSUME RelayInv, [Next]_vars,
           NEW i \in DOMAIN d2s', i > Len(d2s), d2s'[i].type = "connect_console"
    PROVE  /\ ctl.next_reconnect_at =< 0
           /\ Unspent({"helper"}) => PowerHeadedFor("on")'
<1>1. Linked /\ TypeInv /\ LinkInv /\ BudgetInv /\ IntentInv /\ PairInv
  BY DEF RelayInv, Linked
<1>2. conn = "up"
  BY <1>1, OnlyWriters
<1>3. PICK msgs \in Seq(DaemonMessage) :
        /\ d2s' = d2s \o msgs
        /\ \/ HandleMessage /\ \E c, m : Answers(c, m, msgs)
           \/ Tick /\ UNCHANGED sess /\ \E c, m : Takes(c, m, msgs)
  BY <1>1, OnlyWriters
<1>4. Has(msgs, {"connect_console"})
  <2>1. d2s \in Seq(DaemonMessage)
    BY <1>1, EventsTyped
  <2>2. /\ DOMAIN d2s' = 1 .. (Len(d2s) + Len(msgs)) /\ DOMAIN msgs = 1 .. Len(msgs)
        /\ Len(d2s) \in Nat /\ Len(msgs) \in Nat
        /\ \A j \in 1 .. Len(msgs) : d2s'[Len(d2s) + j] = msgs[j]
    BY <1>3, <2>1, ConcatElements
  <2>3. i - Len(d2s) \in 1 .. Len(msgs) /\ i = Len(d2s) + (i - Len(d2s))
    BY <2>2
  <2> QED
    BY <2>2, <2>3 DEF Has
<1>5. \A r, p : /\ ShowWaiting(r).type # "connect_console"
                /\ DisconnectConsole(r).type # "connect_console"
                /\ ShowPairing(p).type # "connect_console"
  BY DEF ShowWaiting, DisconnectConsole, ShowPairing
<1>6. /\ \A m : Screen(msgs, m) => m.type = "connect_console"
      /\ ~Silent(msgs) /\ msgs # <<>>
  BY <1>4, HasFewer, HasSmall DEF Screen, Silent, ScreenTypes
<1>7. ~(\E c, m : Answers(c, m, msgs))
  BY <1>5, <1>6
     DEF Answers, GreetsDegraded, GreetsBlind, GreetsInformed, NotesStarted, NotesApplied,
         NotesExited, NotesError
<1>8. PICK c, m : Takes(c, m, msgs)
  BY <1>3, <1>7
<1>9. ~PathFaulted(c, m, msgs) /\ ~PathBlind(c, m, msgs) /\ ~PathAlone(c, m, msgs)
  BY <1>5, <1>6 DEF PathFaulted, PathBlind, PathAlone, FailsFrom
<1>10. /\ ~Faulted(ctl) /\ disp' = Decided /\ ctl.session_ready /\ Announced(msgs)
       /\ PathInformed(c, m, msgs)
  BY <1>8, <1>9 DEF Takes
<1>11. vm \in DisplayOn /\ Due
  BY <1>5, <1>6, <1>10
     DEF PathInformed, PathOff, PathTransitional, PathShowing, PathBackoff, PathUnreachable,
         PathPairIssue, PathPairWait, PathLaunch, PathEndpoint, PathInvalid, PathRefused,
         FailsFrom
<1>12. ctl.next_reconnect_at =< 0
  BY <1>1, <1>11 DEF Due, PairInv, None
<1>13. disp'.intent = "on"
  BY <1>1, <1>10, <1>11, DecidedTyped
<1>14. ASSUME Unspent({"helper"}) PROVE PowerHeadedFor("on")'
  <2>1. PowerHeadedFor(disp.intent)
    BY <1>1, <1>2, <1>10, <1>14 DEF IntentInv, Up
  <2>2. UNCHANGED sess
    BY <1>3, <1>7
  <2>3. CASE PowerEnds(msgs, "on")
    BY <1>1, <1>3, <2>2, <2>3, PowerWritten DEF PowerHeadedFor
  <2>4. CASE Powerless(msgs) /\ disp.intent = "on"
    BY <1>1, <1>3, <2>1, <2>2, <2>4, PowerWritten DEF PowerHeadedFor
  <2> QED
    BY <1>10, <1>13, <2>3, <2>4 DEF Announced
<1> QED
  BY <1>12, <1>14

\* A viewer is launched only when the backoff is over, and, until the power
\* helper has failed, onto a display that will be on before the viewer starts.
THEOREM LaunchesAreDue == Spec => LaunchIsDue
<1>1. RelayInv /\ [Next]_vars =>
        [(\E i \in DOMAIN d2s' : i > Len(d2s) /\ d2s'[i].type = "connect_console")
           => /\ ctl.next_reconnect_at =< 0
              /\ Unspent({"helper"}) => PowerHeadedFor("on")']_vars
  BY LaunchStep
<1> QED
  BY <1>1, Relay, PTL DEF Spec, LaunchIsDue
=============================================================================
