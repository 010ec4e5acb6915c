------------------------- MODULE HostServicesProofs -------------------------
(***************************************************************************)
(* Proofs about the services of a host, for every set of configuration     *)
(* files and every bound.                                                  *)
(***************************************************************************)
EXTENDS HostServices, TLAPS

USE HostServicesAssumption

\* What daemon.run and session.run go on with is one of the configurations.
LEMMA LoadedIsConfig ==
    ASSUME NEW f \in Files
    PROVE  LoadOrFallback[f] \in Configs
BY DEF LoadOrFallback, Configs

LEMMA NothingRuns ==
    NoDaemon \in DaemonType /\ NoKiosk \in KioskType /\ NoSession \in SessionType
<1>1. Fallback \in Configs
    BY DEF Configs
<1>2. QED BY <1>1 DEF NoDaemon, NoKiosk, NoSession, DaemonType, KioskType, SessionType

-----------------------------------------------------------------------------
(* Types. *)

LEMMA InitTypes == Init => TypeOK
<1>1. SUFFICES ASSUME Init PROVE TypeOK
    OBVIOUS
<1>2. starts \in [Units -> 0 .. Burst] /\ unit \in [Units -> {"waiting", "up", "failed"}]
    BY <1>1 DEF Init
<1>3. edited \in BOOLEAN
    BY <1>1, Zenon DEF Init
<1>4. binaries \subseteq {"cage", "sway"} /\ file \in Files
    BY <1>1 DEF Init
<1>5. edits \in 0 .. MaxEdits /\ restarts \in 0 .. MaxRestarts /\ crashes \in 0 .. MaxCrashes
    BY <1>1 DEF Init
<1>6. daemon \in DaemonType /\ kiosk \in KioskType /\ session \in SessionType
    BY <1>1, NothingRuns DEF Init
<1>7. QED BY <1>2, <1>3, <1>4, <1>5, <1>6 DEF TypeOK

LEMMA SystemdTypes ==
    ASSUME TypeOK, Systemd
    PROVE  TypeOK'
<1>1. CASE StartDaemon
    <2>1. starts' \in [Units -> 0 .. Burst]
        BY <1>1 DEF StartDaemon, CountStart, TypeOK, Units
    <2>2. daemon' \in DaemonType
        BY <1>1, NothingRuns DEF StartDaemon, DaemonType
    <2>3. unit' \in [Units -> {"waiting", "up", "failed"}]
        BY <1>1 DEF StartDaemon, RestartKioskAlong, TypeOK, Units
    <2>4. kiosk' \in KioskType /\ session' \in SessionType
        BY <1>1, NothingRuns DEF StartDaemon, RestartKioskAlong, TypeOK
    <2>5. QED BY <1>1, <2>1, <2>2, <2>3, <2>4 DEF StartDaemon, TypeOK, host, budgets
<1>2. CASE StartKiosk
    <2>1. starts' \in [Units -> 0 .. Burst]
        BY <1>2 DEF StartKiosk, CountStart, TypeOK, Units
    <2>2. kiosk' \in KioskType
        BY <1>2, NothingRuns DEF StartKiosk, KioskType
    <2>3. unit' \in [Units -> {"waiting", "up", "failed"}]
        BY <1>2 DEF StartKiosk, TypeOK, Units
    <2>4. QED BY <1>2, <2>1, <2>2, <2>3 DEF StartKiosk, TypeOK, host, budgets
<1>3. CASE GiveUpDaemon
    <2>1. unit' \in [Units -> {"waiting", "up", "failed"}]
        BY <1>3 DEF GiveUpDaemon, TypeOK, Units
    <2>2. kiosk' \in KioskType /\ session' \in SessionType
        BY <1>3, NothingRuns DEF GiveUpDaemon, TypeOK
    <2>3. QED BY <1>3, <2>1, <2>2 DEF GiveUpDaemon, TypeOK, host, budgets
<1>4. CASE GiveUpKiosk
    BY <1>4 DEF GiveUpKiosk, TypeOK, host, budgets, Units
<1>5. CASE PullDaemon
    BY <1>5 DEF PullDaemon, TypeOK, host, budgets, Units
<1>6. QED BY <1>1, <1>2, <1>3, <1>4, <1>5 DEF Systemd

\* The kiosk unit and everything in it ends.
LEMMA KioskEndsTypes ==
    ASSUME TypeOK, KioskUnitEnds
    PROVE  /\ unit' \in [Units -> {"waiting", "up", "failed"}]
           /\ kiosk' \in KioskType
           /\ session' \in SessionType
BY NothingRuns DEF KioskUnitEnds, AfterExit, TypeOK, Units

LEMMA SessionEndsTypes ==
    ASSUME TypeOK, SessionEnds
    PROVE  /\ unit' \in [Units -> {"waiting", "up", "failed"}]
           /\ kiosk' \in KioskType
           /\ session' \in SessionType
BY KioskEndsTypes, NothingRuns DEF SessionEnds, TypeOK, SessionType

LEMMA DaemonEndsTypes ==
    ASSUME TypeOK, DaemonEnds
    PROVE  /\ unit' \in [Units -> {"waiting", "up", "failed"}]
           /\ daemon' \in DaemonType
BY NothingRuns DEF DaemonEnds, AfterExit, TypeOK, Units

LEMMA ProcessesTypes ==
    ASSUME TypeOK, Processes
    PROVE  TypeOK'
<1>0. LoadOrFallback[file] \in Configs
    BY LoadedIsConfig DEF TypeOK
<1>1. CASE DaemonLoads
    <2>1. /\ unit' \in [Units -> {"waiting", "up", "failed"}]
          /\ daemon' \in DaemonType
        BY <1>0, <1>1, DaemonEndsTypes DEF DaemonLoads, DaemonType, TypeOK
    <2>2. QED BY <1>1, <2>1 DEF DaemonLoads, TypeOK, host, budgets
<1>2. CASE LauncherExecs
    <2>1. CASE KioskUnitEnds
        BY <1>2, <2>1, KioskEndsTypes DEF LauncherExecs, TypeOK, host, budgets
    <2>2. CASE ~KioskUnitEnds
        <3>1. LoadOrFallback[file].compositor \in {"cage", "sway"}
            BY <1>2, <2>2 DEF LauncherExecs, TypeOK
        <3>2. kiosk' \in KioskType
            BY <1>0, <1>2, <2>2, <3>1 DEF LauncherExecs, KioskType
        <3>3. session' \in SessionType
            BY <1>2, <2>2, NothingRuns DEF LauncherExecs, SessionType
        <3>4. QED BY <1>2, <2>2, <3>2, <3>3 DEF LauncherExecs, TypeOK, host, budgets
    <2>3. QED BY <2>1, <2>2
<1>3. CASE SessionLoads
    <2>1. /\ unit' \in [Units -> {"waiting", "up", "failed"}]
          /\ kiosk' \in KioskType
          /\ session' \in SessionType
        BY <1>0, <1>3, SessionEndsTypes DEF SessionLoads, SessionType, TypeOK
    <2>2. QED BY <1>3, <2>1 DEF SessionLoads, TypeOK, host, budgets
<1>4. QED BY <1>1, <1>2, <1>3 DEF Processes

LEMMA NextTypes == TypeOK /\ [Next]_vars => TypeOK'
<1>1. SUFFICES ASSUME TypeOK, [Next]_vars PROVE TypeOK'
    OBVIOUS
<1>2. CASE Systemd
    BY <1>1, <1>2, SystemdTypes
<1>3. ASSUME NEW u \in Units, IntervalPasses(u) PROVE TypeOK'
    <2>1. starts' \in [Units -> 0 .. Burst]
        BY <1>1, <1>3 DEF IntervalPasses, TypeOK
    <2>2. QED BY <1>1, <1>3, <2>1 DEF IntervalPasses, TypeOK, host, budgets
<1>4. CASE Processes
    BY <1>1, <1>4, ProcessesTypes
<1>5. CASE DaemonCrash
    BY <1>1, <1>5, DaemonEndsTypes DEF DaemonCrash, Crash, TypeOK, host
<1>6. CASE CompositorCrash
    BY <1>1, <1>6, KioskEndsTypes DEF CompositorCrash, Crash, TypeOK, host
<1>7. CASE SessionCrash
    BY <1>1, <1>7, SessionEndsTypes DEF SessionCrash, Crash, TypeOK, host
<1>8. CASE OperatorEdits
    BY <1>1, <1>8 DEF OperatorEdits, TypeOK
<1>9. CASE OperatorInstalls
    BY <1>1, <1>9 DEF OperatorInstalls, TypeOK
<1>10. CASE OperatorRestarts
    <2>1. edited' \in BOOLEAN
        BY <1>10, Zenon DEF OperatorRestarts
    <2>2. unit' \in [Units -> {"waiting", "up", "failed"}]
        BY <1>10 DEF OperatorRestarts
    <2>3. restarts' \in 0 .. MaxRestarts
        BY <1>1, <1>10 DEF OperatorRestarts, TypeOK
    <2>4. daemon' \in DaemonType /\ kiosk' \in KioskType /\ session' \in SessionType
        BY <1>10, NothingRuns DEF OperatorRestarts
    <2>5. QED BY <1>1, <1>10, <2>1, <2>2, <2>3, <2>4 DEF OperatorRestarts, TypeOK
<1>11. CASE OperatorRestartsDaemon
    <2>1. unit' \in [Units -> {"waiting", "up", "failed"}]
        BY <1>1, <1>11 DEF OperatorRestartsDaemon, RestartKioskAlong, TypeOK, Units
    <2>2. edited' \in BOOLEAN
        BY <1>11, Zenon DEF OperatorRestartsDaemon
    <2>3. restarts' \in 0 .. MaxRestarts
        BY <1>1, <1>11 DEF OperatorRestartsDaemon, TypeOK
    <2>4. daemon' \in DaemonType /\ kiosk' \in KioskType /\ session' \in SessionType
        BY <1>11, NothingRuns DEF OperatorRestartsDaemon, RestartKioskAlong
    <2>5. QED BY <1>1, <1>11, <2>1, <2>2, <2>3, <2>4 DEF OperatorRestartsDaemon, TypeOK
<1>12. CASE UNCHANGED vars
    BY <1>1, <1>12 DEF vars, host, budgets, TypeOK
<1>13. QED
    BY <1>1, <1>2, <1>3, <1>4, <1>5, <1>6, <1>7, <1>8, <1>9, <1>10, <1>11, <1>12 DEF Next

\* The services keep their types: in particular no unit is started more than
\* StartLimitBurst times in a window, and every process runs with a
\* configuration that load_config returned or with the fallback.
THEOREM ServicesTypes == Spec => []TypeOK
<1>1. QED BY InitTypes, NextTypes, PTL DEF Spec

-----------------------------------------------------------------------------
(* Agreement.  Each process has loaded the file as it is, and a session     *)
(* lives in a compositor.                                                   *)

Current ==
    ~edited =>
        /\ daemon.phase = "running" => daemon.config = LoadOrFallback[file]
        /\ session.phase = "running" => session.config = LoadOrFallback[file]
        /\ kiosk.phase \in {"cage", "sway"} =>
              kiosk.config = LoadOrFallback[file] /\ kiosk.phase = LoadOrFallback[file].compositor

Housed ==
    /\ session.phase # "none" => kiosk.phase \in {"cage", "sway"}
    /\ kiosk.phase # "none" => unit["kiosk"] = "up"

Loaded == TypeOK /\ Current /\ Housed

LEMMA InitLoaded == Init => Loaded
BY InitTypes DEF Init, Loaded, Current, Housed, NoDaemon, NoKiosk, NoSession

\* systemd starts a process, which has not read the file yet, or ends some.
LEMMA SystemdLoaded ==
    ASSUME Loaded, Systemd
    PROVE  Current' /\ Housed'
<1>1. UNCHANGED <<file, edited>>
    BY DEF Systemd, StartDaemon, StartKiosk, GiveUpDaemon, GiveUpKiosk, PullDaemon, host
<1>2. daemon' = daemon \/ daemon'.phase = "starting"
    BY DEF Systemd, StartDaemon, StartKiosk, GiveUpDaemon, GiveUpKiosk, PullDaemon, NoDaemon
<1>3. CASE StartKiosk
    <2>1. kiosk.phase = "none"
        BY <1>3 DEF StartKiosk, Loaded, Housed
    <2>2. session.phase = "none" /\ session' = session
        BY <1>3, <2>1 DEF StartKiosk, Loaded, Housed
    <2>3. kiosk'.phase = "launching" /\ unit'["kiosk"] = "up"
        BY <1>3 DEF StartKiosk, NoKiosk, Loaded, TypeOK, Units
    <2>4. QED BY <1>1, <1>2, <2>2, <2>3 DEF Loaded, Current, Housed
<1>4. CASE ~StartKiosk
    <2>1. \/ kiosk' = NoKiosk /\ session' = NoSession
          \/ UNCHANGED <<kiosk, session>> /\ (unit["kiosk"] = "up" => unit'["kiosk"] = "up")
        BY <1>4 DEF Systemd, StartDaemon, GiveUpDaemon, GiveUpKiosk, PullDaemon,
                    RestartKioskAlong, Loaded, TypeOK, Units
    <2>2. QED BY <1>1, <1>2, <2>1 DEF Loaded, Current, Housed, NoKiosk, NoSession
<1>5. QED BY <1>3, <1>4

\* A process reads the file as it is, or ends.
LEMMA ProcessesLoaded ==
    ASSUME Loaded, Processes
    PROVE  Current' /\ Housed'
<1>1. UNCHANGED <<file, edited>>
    BY DEF Processes, DaemonLoads, LauncherExecs, SessionLoads, host
<1>2. CASE DaemonLoads
    <2>1. unit'["kiosk"] = unit["kiosk"]
        BY <1>2 DEF DaemonLoads, DaemonEnds, Loaded, TypeOK, Units
    <2>2. daemon'.phase = "running" => daemon'.config = LoadOrFallback[file]
        BY <1>2 DEF DaemonLoads, DaemonEnds, NoDaemon
    <2>3. QED BY <1>1, <1>2, <2>1, <2>2 DEF DaemonLoads, Loaded, Current, Housed
<1>3. CASE LauncherExecs
    <2>1. CASE KioskUnitEnds
        BY <1>1, <1>3, <2>1
           DEF LauncherExecs, KioskUnitEnds, Loaded, Current, Housed, NoKiosk, NoSession
    <2>2. CASE ~KioskUnitEnds
        <3>1. /\ kiosk' = [phase |-> LoadOrFallback[file].compositor,
                           config |-> LoadOrFallback[file]]
              /\ LoadOrFallback[file].compositor \in {"cage", "sway"}
              /\ session'.phase = "starting"
              /\ UNCHANGED <<unit, daemon>>
            BY <1>3, <2>2 DEF LauncherExecs, Loaded, TypeOK, NoSession
        <3>2. unit["kiosk"] = "up"
            BY <1>3 DEF LauncherExecs, Loaded, Housed
        <3>3. QED BY <1>1, <3>1, <3>2 DEF Loaded, Current, Housed
    <2>3. QED BY <2>1, <2>2
<1>4. CASE SessionLoads
    <2>1. kiosk.phase \in {"cage", "sway"}
        BY <1>4 DEF SessionLoads, Loaded, Housed
    <2>2. \/ kiosk' = NoKiosk /\ session' = NoSession
          \/ /\ UNCHANGED <<kiosk, unit>>
             /\ session'.phase = "running" => session'.config = LoadOrFallback[file]
        BY <1>4 DEF SessionLoads, SessionEnds, KioskUnitEnds, NoSession
    <2>3. daemon' = daemon
        BY <1>4 DEF SessionLoads
    <2>4. QED BY <1>1, <2>1, <2>2, <2>3 DEF Loaded, Current, Housed, NoKiosk, NoSession
<1>5. QED BY <1>2, <1>3, <1>4 DEF Processes

\* A process that crashes has loaded nothing.
LEMMA CrashLoaded ==
    ASSUME Loaded, DaemonCrash \/ CompositorCrash \/ SessionCrash
    PROVE  Current' /\ Housed'
<1>1. UNCHANGED <<file, edited>>
    BY DEF DaemonCrash, CompositorCrash, SessionCrash, host
<1>2. CASE DaemonCrash
    <2>1. unit'["kiosk"] = unit["kiosk"] /\ daemon' = NoDaemon /\ UNCHANGED <<kiosk, session>>
        BY <1>2 DEF DaemonCrash, DaemonEnds, Loaded, TypeOK, Units
    <2>2. QED BY <1>1, <2>1 DEF Loaded, Current, Housed, NoDaemon
<1>3. CASE CompositorCrash
    BY <1>1, <1>3 DEF CompositorCrash, KioskUnitEnds, Loaded, Current, Housed, NoKiosk, NoSession
<1>4. CASE SessionCrash
    <2>1. kiosk.phase \in {"cage", "sway"} /\ daemon' = daemon
        BY <1>4 DEF SessionCrash, Loaded, Housed
    <2>2. \/ kiosk' = NoKiosk /\ session' = NoSession
          \/ UNCHANGED <<kiosk, unit>> /\ session'.phase = "gone"
        BY <1>4 DEF SessionCrash, SessionEnds, KioskUnitEnds, NoSession
    <2>3. QED BY <1>1, <2>1, <2>2 DEF Loaded, Current, Housed, NoKiosk, NoSession
<1>5. QED BY <1>2, <1>3, <1>4

LEMMA NextLoaded == Loaded /\ [Next]_vars => Loaded'
<1>1. SUFFICES ASSUME Loaded, [Next]_vars PROVE Current' /\ Housed'
    BY NextTypes DEF Loaded
<1>2. CASE Systemd
    BY <1>1, <1>2, SystemdLoaded
<1>3. ASSUME NEW u \in Units, IntervalPasses(u) PROVE Current' /\ Housed'
    BY <1>1, <1>3 DEF IntervalPasses, host, Loaded, Current, Housed
<1>4. CASE Processes
    BY <1>1, <1>4, ProcessesLoaded
<1>5. CASE DaemonCrash \/ CompositorCrash \/ SessionCrash
    BY <1>1, <1>5, CrashLoaded
<1>6. CASE OperatorEdits
    BY <1>1, <1>6 DEF OperatorEdits, Loaded, Current, Housed
<1>7. CASE OperatorInstalls
    BY <1>1, <1>7 DEF OperatorInstalls, Loaded, Current, Housed
<1>8. CASE OperatorRestarts \/ OperatorRestartsDaemon
    <2>1. daemon' = NoDaemon /\ kiosk' = NoKiosk /\ session' = NoSession
        BY <1>8 DEF OperatorRestarts, OperatorRestartsDaemon, RestartKioskAlong
    <2>2. QED BY <2>1 DEF Current, Housed, NoDaemon, NoKiosk, NoSession
<1>9. CASE UNCHANGED vars
    BY <1>1, <1>9 DEF vars, host, Loaded, Current, Housed
<1>10. QED BY <1>1, <1>2, <1>3, <1>4, <1>5, <1>6, <1>7, <1>8, <1>9 DEF Next

\* Without an edit since the last restart, the daemon and the session run with
\* one configuration and in the compositor it asks for, whatever the files and
\* however often anything crashes.
THEOREM ServicesAgree == Spec => []Agree
<1>1. Loaded => Agree
    BY DEF Loaded, Current, Housed, Agree
<1>2. QED BY <1>1, InitLoaded, NextLoaded, PTL DEF Spec

-----------------------------------------------------------------------------
(* Confinement.  A running daemon got through prepare_runtime with what one *)
(* of the files gave it.                                                    *)

Founded ==
    daemon.phase = "running" =>
        \E f \in Files : daemon.config = LoadOrFallback[f] /\ Prepares(daemon.config)

LEMMA InitFounded == Init => Founded
BY DEF Init, Founded, NoDaemon

LEMMA NextFounded == TypeOK /\ Founded /\ [Next]_vars => Founded'
<1>1. SUFFICES ASSUME TypeOK, Founded, [Next]_vars PROVE Founded'
    OBVIOUS
<1>2. CASE DaemonLoads
    <2>1. file \in Files
        BY <1>1 DEF TypeOK
    <2>2. CASE DaemonEnds
        BY <2>2 DEF DaemonEnds, NoDaemon, Founded
    <2>3. CASE ~DaemonEnds
        <3>1. daemon'.config = LoadOrFallback[file] /\ Prepares(LoadOrFallback[file])
            BY <1>2, <2>3 DEF DaemonLoads
        <3>2. QED BY <2>1, <3>1 DEF Founded
    <2>4. QED BY <2>2, <2>3
<1>3. CASE ~DaemonLoads
    <2>1. daemon' = daemon \/ daemon'.phase # "running"
        BY <1>1, <1>3
           DEF Next, vars, Systemd, StartDaemon, StartKiosk, GiveUpDaemon, GiveUpKiosk, PullDaemon,
               IntervalPasses, Processes, LauncherExecs, SessionLoads, DaemonCrash,
               CompositorCrash, SessionCrash, DaemonEnds, OperatorEdits, OperatorInstalls,
               OperatorRestarts, OperatorRestartsDaemon, NoDaemon
    <2>2. QED BY <1>1, <2>1 DEF Founded
<1>4. QED BY <1>2, <1>3

LEMMA UnderAppend ==
    ASSUME NEW S, NEW d \in Seq(S), NEW name \in S
    PROVE  Under(d, Append(d, name)) /\ Append(d, name) \in Seq(S)
<1>1. Append(d, name) \in Seq(S) /\ Len(Append(d, name)) = Len(d) + 1 /\ Len(d) \in Nat
    OBVIOUS
<1>2. \A i \in 1 .. Len(d) : Append(d, name)[i] = d[i]
    OBVIOUS
<1>3. QED BY <1>1, <1>2 DEF Under

LEMMA UnderTransitive ==
    ASSUME NEW S, NEW a \in Seq(S), NEW b \in Seq(S), NEW c \in Seq(S),
           Under(a, b), Under(b, c)
    PROVE  Under(a, c)
BY DEF Under

\* prepare_runtime has not found a directory where the socket is to be.
LEMMA SocketIsNoDirectory ==
    ASSUME NEW S, NEW c, c.run_dir \in Seq(S), Prepares(c)
    PROVE  c.control_socket # c.run_dir
<1>1. c.run_dir \in Directories(c)
    <2>1. SubSeq(c.run_dir, 1, Len(c.run_dir)) = c.run_dir
        OBVIOUS
    <2>2. Len(c.run_dir) \in 0 .. Len(c.run_dir)
        OBVIOUS
    <2>3. QED BY <2>1, <2>2 DEF Directories
<1>2. QED BY <1>1 DEF Prepares, LeftOver

DefaultNames == {"run", "relayinner-display", "session.sock", "console", "spice-current.vv"}

LEMMA FallbackConfined ==
    /\ Under(Fallback.run_dir, Fallback.control_socket)
    /\ Under(Fallback.run_dir, Fallback.artifact_dir)
    /\ Under(Fallback.run_dir, Fallback.vv_path)
    /\ Fallback.run_dir \in Seq(DefaultNames)
<1>1. DefaultRunDir \in Seq(DefaultNames)
    BY DEF DefaultRunDir, DefaultNames
<1>2. "session.sock" \in DefaultNames /\ "console" \in DefaultNames
      /\ "spice-current.vv" \in DefaultNames
    BY DEF DefaultNames
<1>3. Under(DefaultRunDir, DefaultSocket)
    BY <1>1, <1>2, UnderAppend DEF DefaultSocket
<1>4. Under(DefaultRunDir, DefaultArtifactDir) /\ DefaultArtifactDir \in Seq(DefaultNames)
    BY <1>1, <1>2, UnderAppend DEF DefaultArtifactDir
<1>5. Under(DefaultArtifactDir, DefaultVvPath) /\ DefaultVvPath \in Seq(DefaultNames)
    BY <1>2, <1>4, UnderAppend DEF DefaultVvPath
<1>6. Under(DefaultRunDir, DefaultVvPath)
    BY <1>1, <1>4, <1>5, UnderTransitive
<1>7. QED BY <1>1, <1>3, <1>4, <1>6 DEF Fallback

\* What parse_config checked of an accepted file.
LEMMA AcceptedConfined ==
    ASSUME NEW f \in Accepted
    PROVE  LET c == LoadOrFallback[f]
           IN  /\ Under(c.run_dir, c.control_socket)
               /\ Under(c.run_dir, c.artifact_dir)
               /\ Under(c.run_dir, CheckedVvPath(Content[f].raw))
               /\ c.run_dir \in Seq(STRING)
<1> DEFINE raw == Content[f].raw
<1>1. f \in Files /\ LoadOrFallback[f] = Parse(raw) /\ Accepts(raw)
    BY DEF Accepted, LoadOrFallback, Loads
<1>2. PathsAccepted(raw)
    BY <1>1 DEF Accepts
<1>3. Get(raw, "runtime", "run_dir").path \in Seq(STRING)
    <2>1. CASE <<"runtime", "run_dir">> \in DOMAIN raw
        BY <1>1, <2>1, ContentAssumption DEF Get
    <2>2. CASE <<"runtime", "run_dir">> \notin DOMAIN raw
        <3>1. TableAccepted(raw, "runtime")
            BY <1>1 DEF Accepts, CommonTables
        <3>2. "run_dir" \in DOMAIN Schema("runtime") /\ Schema("runtime")["run_dir"].required
            BY DEF Schema, Required
        <3>3. "run_dir" \notin KeysOf(raw, "runtime")
            BY <2>2 DEF KeysOf
        <3>4. QED BY <3>1, <3>2, <3>3 DEF TableAccepted
    <2>3. QED BY <2>1, <2>2
<1>4. QED BY <1>1, <1>2, <1>3 DEF Parse, PathsAccepted

\* Whatever the files say, what a running daemon unlinks and writes is under
\* its run_dir, but for a viewer's path that is set twice.
THEOREM DaemonConfined == Spec => []Confined
<1>1. Founded => Confined
    <2>1. SUFFICES ASSUME daemon.phase = "running",
                          NEW f \in Files,
                          daemon.config = LoadOrFallback[f],
                          Prepares(daemon.config)
                   PROVE  Confined
        BY DEF Founded, Confined
    <2>2. CASE f \in Accepted
        BY <2>1, <2>2, AcceptedConfined, SocketIsNoDirectory DEF Confined
    <2>3. CASE f \notin Accepted
        <3>1. daemon.config = Fallback
            BY <2>1, <2>3 DEF LoadOrFallback, Loads
        <3>2. QED BY <2>1, <3>1, FallbackConfined, SocketIsNoDirectory DEF Confined
    <2>4. QED BY <2>2, <2>3
<1>2. QED BY <1>1, InitTypes, NextTypes, InitFounded, NextFounded, PTL DEF Spec
=============================================================================
