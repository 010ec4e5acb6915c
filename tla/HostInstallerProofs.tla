------------------------ MODULE HostInstallerProofs ------------------------
(***************************************************************************)
(* What the installer and the uninstaller never do to a host, proved for   *)
(* every host, every number of runs and every number of failures.          *)
(***************************************************************************)
EXTENDS HostInstaller, SequenceTheorems, TLAPS

LEMMA NoRunType == NoRun \in RunType /\ NoState \in InstallState
  BY DEF NoRun, RunType, NoState, InstallState, NoRecord, UnitRecord

LEMMA ActiveType ==
  ASSUME NEW r \in UnitState, NEW b \in BOOLEAN
  PROVE  [r EXCEPT !.active = b] \in UnitState
  BY DEF UnitState

LEMMA ExistedType ==
  ASSUME NEW f \in [Units -> UnitState], NEW b \in BOOLEAN
  PROVE  [f EXCEPT !["relay"].existed = b] \in [Units -> UnitState]
  <1>1. f["relay"] \in UnitState
    BY DEF Units
  <1>2. [f["relay"] EXCEPT !.existed = b] \in UnitState
    BY <1>1 DEF UnitState
  <1>3. QED  BY <1>2

LEMMA SystemctlType ==
  ASSUME NEW f \in [Units -> UnitState], NEW verb \in Verbs, NEW u \in Units
  PROVE  Systemctl(f, verb, u) \in [Units -> UnitState]
  <1>1. CASE verb = "start"
    BY <1>1 DEF Systemctl, UnitState
  <1>2. CASE verb # "start"
    BY <1>2 DEF Systemctl, UnitState, Verbs
  <1>3. QED  BY <1>1, <1>2

LEMMA CaptureType ==
  ASSUME NEW u \in UnitState
  PROVE  Capture(u) \in UnitRecord
  BY DEF Capture, UnitState, UnitRecord, NoRecord

LEMMA ConfigureCallsType ==
  ASSUME NEW u \in Conflicting, NEW r \in UnitRecord
  PROVE  ConfigureCalls(u, r) \in Seq(Verbs \X Units)
  <1>1. <<"disable_now", u>> \in Verbs \X Units /\ <<"mask", u>> \in Verbs \X Units
    BY DEF Verbs, Units
  <1>2. <<<<"disable_now", u>>>> \in Seq(Verbs \X Units)
        /\ <<<<"mask", u>>>> \in Seq(Verbs \X Units) /\ <<>> \in Seq(Verbs \X Units)
    BY <1>1
  <1>3. QED  BY <1>2 DEF ConfigureCalls

LEMMA GettyCallsType ==
  ASSUME NEW loaded \in InstallState
  PROVE  GettyCalls(loaded) \in Seq(Verbs \X Units)
  <1>1. \A v \in {"unmask", "enable", "start"} : <<v, "getty">> \in Verbs \X Units
    BY DEF Verbs, Units, Conflicting
  <1>2. <<<<"unmask", "getty">>>> \in Seq(Verbs \X Units)
        /\ <<<<"enable", "getty">>>> \in Seq(Verbs \X Units)
        /\ <<<<"start", "getty">>>> \in Seq(Verbs \X Units) /\ <<>> \in Seq(Verbs \X Units)
    BY <1>1
  <1> DEFINE enabling == IF loaded.kind = "absent" \/ loaded.units["getty"].enabled_before
                         THEN <<<<"enable", "getty">>>> ELSE <<>>
  <1>3. enabling \in Seq(Verbs \X Units)
    BY <1>2
  <1>4. GettyCalls(loaded) = <<<<"unmask", "getty">>>> \o enabling \o <<<<"start", "getty">>>>
    BY DEF GettyCalls
  <1> HIDE DEF enabling
  <1>5. QED  BY <1>2, <1>3, <1>4

LEMMA DisplayManagerCallsType ==
  ASSUME NEW loaded \in InstallState
  PROVE  DisplayManagerCalls(loaded) \in Seq(Verbs \X Units)
  <1>1. \A v \in {"unmask", "enable", "start"} : <<v, "display_manager">> \in Verbs \X Units
    BY DEF Verbs, Units, Conflicting
  <1>2. <<<<"unmask", "display_manager">>>> \in Seq(Verbs \X Units)
        /\ <<<<"enable", "display_manager">>>> \in Seq(Verbs \X Units)
        /\ <<<<"start", "display_manager">>>> \in Seq(Verbs \X Units)
        /\ <<>> \in Seq(Verbs \X Units)
    BY <1>1
  <1>3. QED  BY <1>2 DEF DisplayManagerCalls

-----------------------------------------------------------------------------
(* Type correctness. *)

BudgetType == [runs : Nat, faults : Nat, now : Seconds, clobbered : BOOLEAN]

LEMMA TypeInit == Init => TypeOK
  <1>1. SUFFICES ASSUME Init PROVE TypeOK
    OBVIOUS
  <1>2. PICK o \in Origins :
          units = [u \in Units |-> IF u = "relay" THEN NoUnit ELSE o[u]]
    BY <1>1 DEF Init
  <1>3. units \in [Units -> UnitState]
    BY <1>2, InstallerAssumption DEF Units, Conflicting, UnitState, NoUnit
  <1>4. backups \in [Seconds -> Contents] /\ todo \in Seq(Verbs \X Units)
    BY <1>1 DEF Init, Contents
  <1>5. budget \in BudgetType
    BY <1>1, InstallerAssumption DEF Init, BudgetType, Seconds
  <1>6. origin \in [units : [Units -> UnitState], user : BOOLEAN]
    BY <1>1, <1>3 DEF Init
  <1>7. QED
    BY <1>1, <1>3, <1>4, <1>5, <1>6, NoRunType DEF Init, TypeOK, Contents, BudgetType

LEMMA FaultType ==
  ASSUME TypeOK, Fault
  PROVE  budget' \in BudgetType
  BY DEF TypeOK, Fault, BudgetType

LEMMA TypeStep == TypeOK /\ [Next]_vars => TypeOK'
  <1>1. SUFFICES ASSUME TypeOK, [Next]_vars PROVE TypeOK'
    OBVIOUS
  <1> USE <1>1, InstallerAssumption
  <1>2. CASE Install
    <2>1. PICK flag \in BOOLEAN, skip \in BOOLEAN :
            Begin("packages", [NoRun EXCEPT !.flag = flag, !.skip = skip])
      BY <1>2 DEF Install
    <2>2. run' \in RunType
      BY <2>1, NoRunType DEF Begin, RunType
    <2>3. budget' \in BudgetType
      BY <2>1 DEF Begin, TypeOK, BudgetType
    <2>4. QED  BY <2>1, <2>2, <2>3 DEF Begin, TypeOK, BudgetType, InstallSteps, host, history
  <1>3. CASE Uninstall
    <2>1. PICK flag \in BOOLEAN : Begin("load", [NoRun EXCEPT !.flag = flag])
      BY <1>3 DEF Uninstall
    <2>2. run' \in RunType
      BY <2>1, NoRunType DEF Begin, RunType
    <2>3. budget' \in BudgetType
      BY <2>1 DEF Begin, TypeOK, BudgetType
    <2>4. QED  BY <2>1, <2>2, <2>3 DEF Begin, TypeOK, BudgetType, UninstallSteps, host, history
  <1>4. CASE InstallStep
    <2>1. CASE InstallPackages
      BY <2>1 DEF InstallPackages, Step, TypeOK, InstallSteps, Resolved, history
    <2>2. CASE EnsureServiceUser
      BY <2>2 DEF EnsureServiceUser, Step, TypeOK, RunType, InstallSteps, history
    <2>3. CASE RemoveOldTree
      BY <2>3 DEF RemoveOldTree, Step, TypeOK, InstallSteps, history
    <2>4. CASE InstallRuntimeTree \/ InstallSharedAssets \/ InstallLogindOverride
      BY <2>4 DEF InstallRuntimeTree, InstallSharedAssets, InstallLogindOverride, Put, Step,
                  TypeOK, InstallSteps, Artefacts, history
    <2>5. CASE PreserveConfig \/ CreateConfig
      BY <2>5 DEF PreserveConfig, CreateConfig, Step, TypeOK, InstallSteps, host, history
    <2>6. CASE BackupConfig
      <3>1. PICK now \in budget.now .. MaxTime :
              /\ backups' = [backups EXCEPT ![now] = config]
              /\ budget' = [budget EXCEPT !.now = now,
                                          !.clobbered = @ \/ backups[now] # "none"]
        BY <2>6 DEF BackupConfig
      <3>2. now \in Seconds
        BY <3>1 DEF TypeOK, Seconds
      <3>3. backups' \in [Seconds -> Contents]
        BY <3>1, <3>2 DEF TypeOK
      <3>4. budget' \in [runs : Nat, faults : Nat, now : Seconds, clobbered : BOOLEAN]
        BY <3>1, <3>2 DEF TypeOK
      <3>5. QED  BY <2>6, <3>3, <3>4 DEF BackupConfig, Step, TypeOK, RunType, InstallSteps, history
    <2>7. CASE WriteConfig
      BY <2>7 DEF WriteConfig, Step, TypeOK, InstallSteps, Contents, history
    <2>8. CASE ConfigAccess
      BY <2>8 DEF ConfigAccess, Pass, Step, TypeOK, InstallSteps, host, history
    <2>9. CASE InstallServiceUnits
      <3>1. units' \in [Units -> UnitState]
        BY <2>9, ExistedType DEF InstallServiceUnits, TypeOK
      <3>2. QED  BY <2>9, <3>1 DEF InstallServiceUnits, Step, TypeOK, InstallSteps, Artefacts, history
    <2>10. CASE ConfigureConflictingUnits
      <3>1. PICK u \in Conflicting, to \in {"display_manager", "reload"} : ConfigureUnit(u, to)
        BY <2>10 DEF ConfigureConflictingUnits, Conflicting
      <3>2. units[u] \in UnitState
        BY <3>1 DEF TypeOK, Units
      <3>3. Capture(units[u]) \in UnitRecord
        BY <3>2, CaptureType
      <3>4. todo' \in Seq(Verbs \X Units)
        BY <3>1, <3>3, ConfigureCallsType DEF ConfigureUnit
      <3>5. [Capture(units[u]) EXCEPT !.changed_by_installer =
                Capture(units[u]).enabled_before \/ Capture(units[u]).active_before
                  \/ (Capture(units[u]).existed /\ ~Capture(units[u]).masked_before)] \in UnitRecord
        BY <3>3 DEF UnitRecord
      <3> DEFINE r == [Capture(units[u]) EXCEPT !.changed_by_installer =
                         Capture(units[u]).enabled_before \/ Capture(units[u]).active_before
                           \/ (Capture(units[u]).existed /\ ~Capture(units[u]).masked_before)]
      <3>a. run' = [run EXCEPT !.captured[u] = r]
        BY <3>1 DEF ConfigureUnit
      <3>b. r \in UnitRecord
        BY <3>5
      <3> HIDE DEF r
      <3>6. run' \in RunType
        BY <3>a, <3>b DEF TypeOK, RunType
      <3>7. QED  BY <3>1, <3>4, <3>6 DEF ConfigureUnit, Step, TypeOK, InstallSteps, host, history
    <2>11. CASE EnableServices
      <3>1. units' \in [Units -> UnitState]
        BY <2>11, SystemctlType DEF EnableServices, TypeOK, Units, Verbs
      <3>2. QED  BY <2>11, <3>1 DEF EnableServices, Step, TypeOK, InstallSteps, history
    <2>12. CASE WriteInstallState
      BY <2>12 DEF WriteInstallState, End, TypeOK, RunType, InstallState, history
    <2>13. QED  BY <1>4, <2>1, <2>2, <2>3, <2>4, <2>5, <2>6, <2>7, <2>8, <2>9, <2>10, <2>11, <2>12
                DEF InstallStep
  <1>5. CASE UninstallStep
    <2>1. CASE LoadUninstallState
      BY <2>1 DEF LoadUninstallState, Step, TypeOK, RunType, UninstallSteps, host, history
    <2>2. CASE LoadFails
      BY <2>2 DEF LoadFails, End, TypeOK, host, history
    <2>3. CASE StopServices
      <3>1. todo' \in Seq(Verbs \X Units)
        <4>1. <<"stop", "relay">> \in Verbs \X Units /\ <<"disable", "relay">> \in Verbs \X Units
          BY DEF Verbs, Units
        <4>2. QED  BY <2>3, <4>1 DEF StopServices
      <3>2. QED  BY <2>3, <3>1 DEF StopServices, TypeOK, UninstallSteps, host, history
    <2>4. CASE RemoveServiceUnits
      <3>1. units' \in [Units -> UnitState]
        BY <2>4, ExistedType DEF RemoveServiceUnits, TypeOK
      <3>2. QED  BY <2>4, <3>1 DEF RemoveServiceUnits, Step, TypeOK, UninstallSteps, history
    <2>5. CASE RemoveLogindOverride \/ RemoveRuntimeTree \/ RemoveSharedAssets
      BY <2>5 DEF RemoveLogindOverride, RemoveRuntimeTree, RemoveSharedAssets, Remove, Step,
                  TypeOK, UninstallSteps, history
    <2>6. CASE RestoreConflictingUnits
      <3>1. GettyCalls(run.loaded) \in Seq(Verbs \X Units)
            /\ DisplayManagerCalls(run.loaded) \in Seq(Verbs \X Units)
        BY GettyCallsType, DisplayManagerCallsType DEF TypeOK, RunType
      <3>2. QED  BY <2>6, <3>1 DEF RestoreConflictingUnits, RestoreUnit, TypeOK, UninstallSteps,
                                   host, history
    <2>7. CASE RemoveServiceUser
      BY <2>7 DEF RemoveServiceUser, Step, TypeOK, UninstallSteps, history
    <2>8. CASE PurgeConfig
      <3>1. config' \in Contents /\ text' \in Contents /\ backups' \in [Seconds -> Contents]
        BY <2>8 DEF PurgeConfig, TypeOK, Contents
      <3>2. QED  BY <2>8, <3>1 DEF PurgeConfig, Step, TypeOK, UninstallSteps
    <2>9. CASE RemoveInstallState
      BY <2>9, NoRunType DEF RemoveInstallState, Step, TypeOK, UninstallSteps, history
    <2>10. CASE RemoveServiceHome
      BY <2>10 DEF RemoveServiceHome, End, TypeOK, history
    <2>11. QED  BY <1>5, <2>1, <2>2, <2>3, <2>4, <2>5, <2>6, <2>7, <2>8, <2>9, <2>10
                DEF UninstallStep
  <1>6. CASE DaemonReload
    BY <1>6 DEF DaemonReload, Pass, Step, TypeOK, InstallSteps, UninstallSteps, host, history
  <1>7. CASE RunOptional
    <2>1. Head(todo) \in Verbs \X Units /\ Tail(todo) \in Seq(Verbs \X Units)
      BY <1>7 DEF RunOptional, TypeOK
    <2>2. Systemctl(units, Head(todo)[1], Head(todo)[2]) \in [Units -> UnitState]
      BY <2>1, SystemctlType DEF TypeOK
    <2>3. budget' \in BudgetType
      BY <1>7, FaultType DEF RunOptional, TypeOK, BudgetType
    <2>4. run' \in RunType
      BY <1>7 DEF RunOptional, TypeOK, RunType
    <2>5. QED  BY <1>7, <2>1, <2>2, <2>3, <2>4 DEF RunOptional, TypeOK, BudgetType, history
  <1>8. CASE Abort
    BY <1>8, FaultType DEF Abort, End, TypeOK, BudgetType, host, history
  <1>9. CASE TornWrite
    <2>1. state' \in InstallState
      <3>1. [NoState EXCEPT !.kind = "torn"] \in InstallState
        BY NoRunType DEF InstallState
      <3>2. QED  BY <1>9, <3>1 DEF TornWrite, TypeOK
    <2>2. config' \in Contents
      BY <1>9 DEF TornWrite, TypeOK, Contents
    <2>3. QED  BY <1>9, <2>1, <2>2, FaultType DEF TornWrite, End, TypeOK, BudgetType, history
  <1>10. CASE OperatorEdits
    BY <1>10 DEF OperatorEdits, TypeOK, Contents
  <1>11. CASE OperatorStarts
    <2>1. units' \in [Units -> UnitState]
      BY <1>11, SystemctlType DEF OperatorStarts, TypeOK, Units, Verbs
    <2>2. QED  BY <1>11, <2>1 DEF OperatorStarts, TypeOK, history
  <1>12. CASE Reboot
    <2>1. units' \in [Units -> UnitState]
      <3>1. PICK up \in SUBSET Units :
              units' = [u \in Units |-> [units[u] EXCEPT !.active = u \in up]]
        BY <1>12 DEF Reboot
      <3>2. ASSUME NEW u \in Units PROVE [units[u] EXCEPT !.active = u \in up] \in UnitState
        <4>1. units[u] \in UnitState /\ (u \in up) \in BOOLEAN
          BY DEF TypeOK
        <4>2. QED  BY <4>1, ActiveType
      <3>3. QED  BY <3>1, <3>2
    <2>2. QED  BY <1>12, <2>1 DEF Reboot, TypeOK, history
  <1>13. CASE UNCHANGED vars
    BY <1>13 DEF vars, host, history, TypeOK
  <1>14. QED
    BY <1>2, <1>3, <1>4, <1>5, <1>6, <1>7, <1>8, <1>9, <1>10, <1>11, <1>12, <1>13 DEF Next

\* Every variable of the installer model keeps its type, whatever fails.
THEOREM InstallerTypes == Spec => []TypeOK
  <1>1. Init => TypeOK
    BY TypeInit
  <1>2. TypeOK /\ [Next]_vars => TypeOK'
    BY TypeStep
  <1>3. QED  BY <1>1, <1>2, PTL DEF Spec

-----------------------------------------------------------------------------
(* No overreach.  NoOverreach alone is not inductive: what a run does to the  *)
(* display manager comes from the record it loaded, which an earlier run made *)
(* from what it had captured, and waits in todo in between.  The invariant    *)
(* says of each of these places that it holds nothing the original host does  *)
(* not bear out.                                                              *)

Before == origin.units["display_manager"]

\* What a record may claim about the display manager.
Evidence(r) ==
    /\ r.enabled_before => Before.enabled
    /\ r.active_before => Before.active \/ Before.enabled
    /\ r.existed /\ ~r.masked_before => ~Before.masked

\* What a queued call may do to it.
Justified(call) ==
    call[2] = "display_manager" =>
      /\ call[1] = "enable" => Before.enabled
      /\ call[1] = "start" => Before.active \/ Before.enabled
      /\ call[1] = "unmask" => ~Before.masked

Records ==
    /\ Evidence(run.captured["display_manager"])
    /\ Evidence(run.loaded.units["display_manager"])
    /\ Evidence(state.units["display_manager"])

Authorship ==
    origin.user => ~run.created /\ ~run.loaded.created /\ ~state.created

Calls == \A i \in 1 .. Len(todo) : Justified(todo[i])

Reach ==
    LET now == units["display_manager"]
    IN  /\ now.enabled => Before.enabled
        /\ now.active => Before.active \/ Before.enabled
        /\ Before.masked => now.masked

Overreach == TypeOK /\ Reach /\ (origin.user => user) /\ Records /\ Authorship /\ Calls

LEMMA EmptyEvidence == Evidence(NoRecord) /\ Evidence(NoState.units["display_manager"])
  BY DEF Evidence, NoRecord, NoState, Conflicting

LEMMA CaptureEvidence ==
  ASSUME TypeOK, Reach, NEW b \in BOOLEAN
  PROVE  Evidence([Capture(units["display_manager"]) EXCEPT !.changed_by_installer = b])
  <1>1. units["display_manager"] \in UnitState
    BY DEF TypeOK, Units, Conflicting
  <1>2. CASE ~units["display_manager"].existed
    BY <1>2 DEF Capture, Evidence, NoRecord
  <1>3. CASE units["display_manager"].existed
    BY <1>1, <1>3 DEF Capture, Evidence, Reach, UnitState
  <1>4. QED  BY <1>2, <1>3

LEMMA SystemctlReach ==
  ASSUME TypeOK, Reach, NEW call \in Verbs \X Units, Justified(call),
         units' = Systemctl(units, call[1], call[2]), UNCHANGED origin
  PROVE  Reach'
  <1> DEFINE D == "display_manager"
  <1>1. D \in Units /\ units[D] \in UnitState
    BY DEF TypeOK, Units, Conflicting
  <1>2. call[1] \in Verbs /\ call[2] \in Units
    OBVIOUS
  <1>3. CASE call[2] # D /\ call[1] # "start"
    <2>1. units'[D] = units[D]
      BY <1>1, <1>2, <1>3 DEF Systemctl, Verbs, TypeOK
    <2>2. QED  BY <2>1 DEF Reach, Before
  <1>4. CASE call[2] # D /\ call[1] = "start"
    <2>1. units'[D].enabled = units[D].enabled /\ units'[D].masked = units[D].masked
          /\ (units'[D].active => units[D].active)
      BY <1>1, <1>2, <1>4 DEF Systemctl, Verbs, TypeOK, UnitState
    <2>2. QED  BY <2>1 DEF Reach, Before
  <1>5. CASE call[2] = D
    <2>1. CASE call[1] \in {"disable_now", "disable", "stop", "mask"}
      <3>1. /\ units'[D].enabled => units[D].enabled
            /\ units'[D].active => units[D].active
            /\ units[D].masked => units'[D].masked
        BY <1>1, <1>5, <2>1 DEF Systemctl, TypeOK, UnitState
      <3>2. QED  BY <3>1 DEF Reach, Before
    <2>2. CASE call[1] = "unmask"
      <3>1. units'[D].enabled = units[D].enabled /\ units'[D].active = units[D].active
        BY <1>1, <1>5, <2>2 DEF Systemctl, TypeOK, UnitState
      <3>2. QED  BY <1>5, <2>2, <3>1 DEF Reach, Before, Justified
    <2>3. CASE call[1] = "enable"
      <3>1. units'[D].masked = units[D].masked /\ units'[D].active = units[D].active
        BY <1>1, <1>5, <2>3 DEF Systemctl, TypeOK, UnitState
      <3>2. QED  BY <1>5, <2>3, <3>1 DEF Reach, Before, Justified
    <2>4. CASE call[1] = "start"
      <3>1. units'[D].masked = units[D].masked /\ units'[D].enabled = units[D].enabled
        BY <1>1, <1>5, <2>4 DEF Systemctl, TypeOK, UnitState
      <3>2. QED  BY <1>5, <2>4, <3>1 DEF Reach, Before, Justified
    <2>5. QED  BY <1>2, <2>1, <2>2, <2>3, <2>4 DEF Verbs
  <1>6. QED  BY <1>3, <1>4, <1>5

\* A step that leaves the units, the original host and the queue's origin alone
\* keeps Reach.
LEMMA SameUnits ==
  ASSUME Reach, UNCHANGED <<units, origin>>
  PROVE  Reach'
  BY DEF Reach, Before

LEMMA SameRecords ==
  ASSUME Records, Authorship, UNCHANGED origin,
         run'.captured["display_manager"] = run.captured["display_manager"],
         run'.loaded = run.loaded, run'.created = run.created, UNCHANGED state
  PROVE  Records' /\ Authorship'
  BY DEF Records, Authorship, Evidence, Before

LEMMA SameCalls ==
  ASSUME Calls, UNCHANGED origin, todo' = todo \/ todo' = <<>>
  PROVE  Calls'
  BY DEF Calls, Justified, Before

LEMMA ConcatJustified ==
  ASSUME NEW s \in Seq(Verbs \X Units), NEW t \in Seq(Verbs \X Units),
         \A i \in 1 .. Len(s) : Justified(s[i]),
         \A i \in 1 .. Len(t) : Justified(t[i])
  PROVE  /\ s \o t \in Seq(Verbs \X Units)
         /\ \A i \in 1 .. Len(s \o t) : Justified((s \o t)[i])
  <1>1. SUFFICES ASSUME NEW i \in 1 .. Len(s \o t) PROVE Justified((s \o t)[i])
    OBVIOUS
  <1>2. CASE i \in 1 .. Len(s)
    <2>1. (s \o t)[i] = s[i]
      BY <1>2
    <2>2. QED  BY <1>2, <2>1
  <1>3. CASE i \notin 1 .. Len(s)
    <2>1. i - Len(s) \in 1 .. Len(t) /\ (s \o t)[i] = t[i - Len(s)]
      BY <1>3
    <2>2. QED  BY <2>1
  <1>4. QED  BY <1>2, <1>3

LEMMA ConfigureJustified ==
  ASSUME NEW u \in Conflicting, NEW r \in UnitRecord
  PROVE  \A i \in 1 .. Len(ConfigureCalls(u, r)) : Justified(ConfigureCalls(u, r)[i])
  <1> DEFINE a == IF r.enabled_before \/ r.active_before THEN <<<<"disable_now", u>>>> ELSE <<>>
             b == IF r.existed /\ ~r.masked_before THEN <<<<"mask", u>>>> ELSE <<>>
  <1>1. ConfigureCalls(u, r) = a \o b
    BY DEF ConfigureCalls
  <1>2. \A v \in {"disable_now", "mask"} : <<v, u>> \in Verbs \X Units
    BY DEF Verbs, Units
  <1>3. a \in Seq(Verbs \X Units) /\ b \in Seq(Verbs \X Units)
    BY <1>2
  <1>4. \A i \in 1 .. Len(a) : Justified(a[i])
    BY DEF Justified
  <1>5. \A i \in 1 .. Len(b) : Justified(b[i])
    BY DEF Justified
  <1> HIDE DEF a, b
  <1>6. QED  BY <1>1, <1>3, <1>4, <1>5, ConcatJustified

LEMMA GettyJustified ==
  ASSUME NEW loaded \in InstallState
  PROVE  \A i \in 1 .. Len(GettyCalls(loaded)) : Justified(GettyCalls(loaded)[i])
  <1> DEFINE a == <<<<"unmask", "getty">>>>
             b == IF loaded.kind = "absent" \/ loaded.units["getty"].enabled_before
                  THEN <<<<"enable", "getty">>>> ELSE <<>>
             c == <<<<"start", "getty">>>>
  <1>1. GettyCalls(loaded) = a \o b \o c
    BY DEF GettyCalls
  <1>2. \A v \in {"unmask", "enable", "start"} : <<v, "getty">> \in Verbs \X Units
    BY DEF Verbs, Units, Conflicting
  <1>a. \A v \in {"unmask", "enable", "start"} : <<<<v, "getty">>>> \in Seq(Verbs \X Units)
    BY <1>2
  <1>b. a \in Seq(Verbs \X Units) /\ c \in Seq(Verbs \X Units)
    BY <1>a
  <1>c. b \in Seq(Verbs \X Units)
    BY <1>a
  <1>3. a \in Seq(Verbs \X Units) /\ b \in Seq(Verbs \X Units) /\ c \in Seq(Verbs \X Units)
    BY <1>b, <1>c
  <1>4. \A i \in 1 .. Len(a) : Justified(a[i])
    BY DEF Justified
  <1>5. \A i \in 1 .. Len(b) : Justified(b[i])
    BY DEF Justified
  <1>6. \A i \in 1 .. Len(c) : Justified(c[i])
    BY DEF Justified
  <1> HIDE DEF a, b, c
  <1>7. a \o b \in Seq(Verbs \X Units) /\ \A i \in 1 .. Len(a \o b) : Justified((a \o b)[i])
    BY <1>3, <1>4, <1>5, ConcatJustified
  <1>8. QED  BY <1>1, <1>3, <1>6, <1>7, ConcatJustified

LEMMA DisplayManagerJustified ==
  ASSUME NEW loaded \in InstallState, Evidence(loaded.units["display_manager"])
  PROVE  \A i \in 1 .. Len(DisplayManagerCalls(loaded)) : Justified(DisplayManagerCalls(loaded)[i])
  <1> DEFINE r == loaded.units["display_manager"]
             D == "display_manager"
             a == IF r.masked_before THEN <<>> ELSE <<<<"unmask", D>>>>
             b == IF r.enabled_before THEN <<<<"enable", D>>>> ELSE <<>>
             c == IF r.active_before THEN <<<<"start", D>>>> ELSE <<>>
  <1>1. CASE loaded.kind = "absent" \/ ~r.existed \/ ~r.changed_by_installer
    BY <1>1 DEF DisplayManagerCalls
  <1>2. CASE ~(loaded.kind = "absent" \/ ~r.existed \/ ~r.changed_by_installer)
    <2>1. DisplayManagerCalls(loaded) = a \o b \o c
      BY <1>2 DEF DisplayManagerCalls
    <2>2. \A v \in {"unmask", "enable", "start"} : <<v, D>> \in Verbs \X Units
      BY DEF Verbs, Units, Conflicting
    <2>p. /\ <<<<"unmask", D>>>> \in Seq(Verbs \X Units)
          /\ <<<<"enable", D>>>> \in Seq(Verbs \X Units)
          /\ <<<<"start", D>>>> \in Seq(Verbs \X Units)
          /\ <<>> \in Seq(Verbs \X Units)
      BY <2>2
    <2>a. a \in Seq(Verbs \X Units)
      BY <2>p
    <2>b. b \in Seq(Verbs \X Units)
      BY <2>p
    <2>c. c \in Seq(Verbs \X Units)
      BY <2>p
    <2>3. a \in Seq(Verbs \X Units) /\ b \in Seq(Verbs \X Units) /\ c \in Seq(Verbs \X Units)
      BY <2>a, <2>b, <2>c
    <2>4. \A i \in 1 .. Len(a) : Justified(a[i])
      BY <1>2 DEF Justified, Evidence
    <2>5. \A i \in 1 .. Len(b) : Justified(b[i])
      BY <1>2 DEF Justified, Evidence
    <2>6. \A i \in 1 .. Len(c) : Justified(c[i])
      BY <1>2 DEF Justified, Evidence
    <2> HIDE DEF a, b, c
    <2>7. a \o b \in Seq(Verbs \X Units) /\ \A i \in 1 .. Len(a \o b) : Justified((a \o b)[i])
      BY <2>3, <2>4, <2>5, ConcatJustified
    <2>8. QED  BY <2>1, <2>3, <2>6, <2>7, ConcatJustified
  <1>3. QED  BY <1>1, <1>2

LEMMA OverreachInit == Init => Overreach
  <1>1. SUFFICES ASSUME Init PROVE Overreach
    OBVIOUS
  <1>2. TypeOK
    BY <1>1, TypeInit
  <1>3. Reach /\ (origin.user => user)
    BY <1>1 DEF Init, Reach, Before
  <1>4. Records
    BY <1>1, EmptyEvidence DEF Init, Records, NoRun
  <1>5. Authorship /\ Calls
    BY <1>1 DEF Init, Authorship, NoRun, NoState, Calls
  <1>6. QED  BY <1>2, <1>3, <1>4, <1>5 DEF Overreach

LEMMA OverreachStep == Overreach /\ [Next]_vars => Overreach'
  <1>1. SUFFICES ASSUME Overreach, [Next]_vars PROVE Overreach'
    OBVIOUS
  <1> USE <1>1
  <1>2. TypeOK /\ TypeOK'
    BY TypeStep DEF Overreach
  <1>3. Reach /\ (origin.user => user) /\ Records /\ Authorship /\ Calls
    BY DEF Overreach
  <1> DEFINE Quiet == /\ Reach' /\ (origin.user => user)' /\ Records' /\ Authorship' /\ Calls'
  <1>4. SUFFICES Quiet
    BY <1>2 DEF Overreach
  <1>5. CASE Install \/ Uninstall
    <2>1. UNCHANGED <<units, origin, user, state, todo>>
      BY <1>5 DEF Install, Uninstall, Begin, host, history
    <2>2. run'.captured = NoState.units /\ run'.loaded = NoState /\ ~run'.created
      BY <1>5 DEF Install, Uninstall, Begin, NoRun
    <2>3. Records'
      BY <1>3, <2>1, <2>2, EmptyEvidence DEF Records, Evidence, Before
    <2>4. Authorship'
      BY <1>3, <2>1, <2>2 DEF Authorship, NoState
    <2>5. QED  BY <1>3, <2>1, <2>3, <2>4, SameUnits, SameCalls
  <1>6. CASE InstallStep
    <2>1. CASE \/ InstallPackages \/ RemoveOldTree \/ InstallRuntimeTree \/ InstallSharedAssets
               \/ InstallLogindOverride \/ PreserveConfig \/ CreateConfig \/ WriteConfig
               \/ ConfigAccess
      <3>1. UNCHANGED <<units, origin, user, state, todo, run>>
        BY <2>1 DEF InstallPackages, RemoveOldTree, InstallRuntimeTree, InstallSharedAssets,
             InstallLogindOverride, PreserveConfig, CreateConfig, WriteConfig, ConfigAccess,
             Put, Pass, Step, host, history
      <3>2. QED  BY <1>3, <3>1, SameUnits, SameRecords, SameCalls
    <2>2. CASE EnsureServiceUser
      <3>1. /\ UNCHANGED <<units, origin, state, todo>>
            /\ run' = [run EXCEPT !.created = ~user] /\ user' = TRUE
        BY <2>2 DEF EnsureServiceUser, history
      <3>2. Records'
        BY <1>2, <1>3, <3>1 DEF Records, Evidence, Before, TypeOK, RunType
      <3>3. Authorship'
        BY <1>2, <1>3, <3>1 DEF Authorship, TypeOK, RunType
      <3>4. QED  BY <1>3, <3>1, <3>2, <3>3, SameUnits, SameCalls
    <2>3. CASE BackupConfig
      <3>1. /\ UNCHANGED <<units, origin, user, state, todo>>
            /\ run' = [run EXCEPT !.replaced = TRUE]
        BY <2>3 DEF BackupConfig, history
      <3>2. run'.captured = run.captured /\ run'.loaded = run.loaded /\ run'.created = run.created
        BY <1>2, <3>1 DEF TypeOK, RunType
      <3>3. QED  BY <1>3, <3>1, <3>2, SameUnits, SameRecords, SameCalls
    <2>4. CASE InstallServiceUnits
      <3>1. UNCHANGED <<origin, user, state, todo, run>> /\ UNCHANGED units["display_manager"]
        BY <1>2, <2>4 DEF InstallServiceUnits, history, TypeOK, Units, Conflicting
      <3>2. Reach'
        BY <1>3, <3>1 DEF Reach, Before
      <3>3. QED  BY <1>3, <3>1, <3>2, SameRecords, SameCalls
    <2>5. CASE ConfigureConflictingUnits
      <3>1. PICK u \in Conflicting, to \in {"display_manager", "reload"} : ConfigureUnit(u, to)
        BY <2>5 DEF ConfigureConflictingUnits, Conflicting
      <3> DEFINE r == Capture(units[u])
                 b == r.enabled_before \/ r.active_before \/ (r.existed /\ ~r.masked_before)
                 q == [r EXCEPT !.changed_by_installer = b]
      <3>2. /\ UNCHANGED <<units, origin, user, state>>
            /\ run' = [run EXCEPT !.captured[u] = q] /\ todo' = ConfigureCalls(u, r)
        BY <3>1 DEF ConfigureUnit, host, history
      <3>3. r \in UnitRecord
        BY <1>2, CaptureType DEF TypeOK, Units
      <3>4. Calls'
        <4>1. \A i \in 1 .. Len(todo') : Justified(todo'[i])
          BY <3>2, <3>3, ConfigureJustified
        <4>2. QED  BY <3>2, <4>1 DEF Calls, Justified, Before
      <3>5. u = "display_manager" => Evidence(q)
        <4>1. b \in BOOLEAN
          OBVIOUS
        <4>2. QED  BY <1>2, <1>3, <4>1, CaptureEvidence
      <3> HIDE DEF q
      <3>6. /\ run'.captured["display_manager"] =
                 (IF u = "display_manager" THEN q ELSE run.captured["display_manager"])
            /\ run'.loaded = run.loaded /\ run'.created = run.created
        BY <1>2, <3>1, <3>2 DEF TypeOK, RunType, Conflicting
      <3>7. Evidence(run'.captured["display_manager"])
        BY <1>3, <3>5, <3>6 DEF Records
      <3>8. Records' /\ Authorship'
        BY <1>3, <3>2, <3>6, <3>7 DEF Records, Authorship, Evidence, Before
      <3>9. QED  BY <1>3, <3>2, <3>4, <3>8, SameUnits
    <2>6. CASE EnableServices
      <3>1. UNCHANGED <<origin, user, state, todo, run>>
            /\ units' = Systemctl(units, "enable", "relay")
        BY <2>6 DEF EnableServices, history
      <3>2. units'["display_manager"] = units["display_manager"]
        BY <1>2, <3>1 DEF Systemctl, TypeOK, Units, Conflicting
      <3>3. Reach'
        BY <1>3, <3>1, <3>2 DEF Reach, Before
      <3>4. QED  BY <1>3, <3>1, <3>3, SameRecords, SameCalls
    <2>7. CASE WriteInstallState
      <3>1. /\ UNCHANGED <<units, origin, user, run>> /\ todo' = <<>>
            /\ state' = [kind |-> "written", created |-> run.created, units |-> run.captured]
        BY <2>7 DEF WriteInstallState, End, history
      <3>2. Records' /\ Authorship'
        BY <1>3, <3>1 DEF Records, Authorship, Evidence, Before
      <3>3. QED  BY <1>3, <3>1, <3>2, SameUnits, SameCalls
    <2>8. QED  BY <1>6, <2>1, <2>2, <2>3, <2>4, <2>5, <2>6, <2>7 DEF InstallStep
  <1>7. CASE UninstallStep
    <2>1. CASE LoadUninstallState
      <3>1. UNCHANGED <<units, origin, user, state, todo>> /\ run' = [run EXCEPT !.loaded = state]
        BY <2>1 DEF LoadUninstallState, host, history
      <3>2. run'.loaded = state /\ run'.captured = run.captured /\ run'.created = run.created
        BY <1>2, <3>1 DEF TypeOK, RunType
      <3>3. Records' /\ Authorship'
        BY <1>3, <3>1, <3>2 DEF Records, Authorship, Evidence, Before
      <3>4. QED  BY <1>3, <3>1, <3>3, SameUnits, SameCalls
    <2>2. CASE \/ LoadFails \/ RemoveLogindOverride \/ RemoveRuntimeTree \/ RemoveSharedAssets
               \/ PurgeConfig \/ RemoveServiceHome
      <3>1. UNCHANGED <<units, origin, user, state, run>> /\ (todo' = todo \/ todo' = <<>>)
        BY <2>2 DEF LoadFails, RemoveLogindOverride, RemoveRuntimeTree, RemoveSharedAssets,
             PurgeConfig, RemoveServiceHome, Remove, Step, End, host, history
      <3>2. QED  BY <1>3, <3>1, SameUnits, SameRecords, SameCalls
    <2>3. CASE StopServices
      <3>1. /\ UNCHANGED <<units, origin, user, state, run>>
            /\ todo' = <<<<"stop", "relay">>, <<"disable", "relay">>>>
        BY <2>3 DEF StopServices, host, history
      <3>2. Calls'
        BY <3>1 DEF Calls, Justified
      <3>3. QED  BY <1>3, <3>1, <3>2, SameUnits, SameRecords
    <2>4. CASE RemoveServiceUnits
      <3>1. UNCHANGED <<origin, user, state, todo, run>> /\ UNCHANGED units["display_manager"]
        BY <1>2, <2>4 DEF RemoveServiceUnits, history, TypeOK, Units, Conflicting
      <3>2. Reach'
        BY <1>3, <3>1 DEF Reach, Before
      <3>3. QED  BY <1>3, <3>1, <3>2, SameRecords, SameCalls
    <2>5. CASE RestoreConflictingUnits
      <3>1. /\ UNCHANGED <<units, origin, user, state, run>>
            /\ todo' \in {GettyCalls(run.loaded), DisplayManagerCalls(run.loaded)}
        BY <2>5 DEF RestoreConflictingUnits, RestoreUnit, host, history
      <3>2. run.loaded \in InstallState /\ Evidence(run.loaded.units["display_manager"])
        BY <1>2, <1>3 DEF TypeOK, RunType, Records
      <3>3. \A i \in 1 .. Len(todo') : Justified(todo'[i])
        BY <3>1, <3>2, GettyJustified, DisplayManagerJustified
      <3>4. Calls'
        BY <3>1, <3>3 DEF Calls, Justified, Before
      <3>5. QED  BY <1>3, <3>1, <3>4, SameUnits, SameRecords
    <2>6. CASE RemoveServiceUser
      <3>1. /\ UNCHANGED <<units, origin, state, todo, run>>
            /\ user' = (user /\ ~Ours(run.loaded))
        BY <2>6 DEF RemoveServiceUser, history
      <3>2. (origin.user => user)'
        BY <1>3, <3>1 DEF Ours, Authorship
      <3>3. QED  BY <1>3, <3>1, <3>2, SameUnits, SameRecords, SameCalls
    <2>7. CASE RemoveInstallState
      <3>1. UNCHANGED <<units, origin, user, todo, run>> /\ state' = NoState
        BY <2>7 DEF RemoveInstallState, history
      <3>2. Records'
        BY <1>3, <3>1, EmptyEvidence DEF Records, Evidence, Before
      <3>3. Authorship'
        BY <1>3, <3>1 DEF Authorship, NoState
      <3>4. QED  BY <1>3, <3>1, <3>2, <3>3, SameUnits, SameCalls
    <2>8. QED  BY <1>7, <2>1, <2>2, <2>3, <2>4, <2>5, <2>6, <2>7 DEF UninstallStep
  <1>8. CASE DaemonReload \/ Abort \/ OperatorEdits \/ UNCHANGED vars
    <2>1. UNCHANGED <<units, origin, user, state, run>> /\ (todo' = todo \/ todo' = <<>>)
      BY <1>8 DEF DaemonReload, Pass, Step, Abort, End, OperatorEdits, vars, host, history
    <2>2. QED  BY <1>3, <2>1, SameUnits, SameRecords, SameCalls
  <1>9. CASE TornWrite
    <2>1. /\ UNCHANGED <<units, origin, user, run>> /\ todo' = <<>>
          /\ state' \in {state, [NoState EXCEPT !.kind = "torn"]}
      BY <1>9 DEF TornWrite, End, history
    <2>2. Evidence(state'.units["display_manager"])
      BY <1>3, <2>1, EmptyEvidence DEF Records, NoState
    <2>3. Records'
      BY <1>3, <2>1, <2>2 DEF Records, Evidence, Before
    <2>4. Authorship'
      BY <1>3, <2>1 DEF Authorship, NoState
    <2>5. QED  BY <1>3, <2>1, <2>3, <2>4, SameUnits, SameCalls
  <1>10. CASE RunOptional
    <2>1. UNCHANGED <<origin, user, state>> /\ todo # <<>> /\ todo' = Tail(todo)
      BY <1>10 DEF RunOptional, history
    <2>2. run'.captured = run.captured /\ run'.loaded = run.loaded /\ run'.created = run.created
      BY <1>2, <1>10 DEF RunOptional, TypeOK, RunType
    <2>3. Head(todo) \in Verbs \X Units /\ Justified(Head(todo))
      BY <1>2, <1>3, <2>1 DEF TypeOK, Calls
    <2>4. Reach'
      <3>1. CASE units' = Systemctl(units, Head(todo)[1], Head(todo)[2])
        BY <1>2, <1>3, <2>1, <2>3, <3>1, SystemctlReach
      <3>2. CASE UNCHANGED units
        BY <1>3, <2>1, <3>2, SameUnits
      <3>3. QED  BY <1>10, <3>1, <3>2 DEF RunOptional
    <2>5. Calls'
      <3>1. \A i \in 1 .. Len(Tail(todo)) : Tail(todo)[i] = todo[i + 1] /\ i + 1 \in 1 .. Len(todo)
        BY <1>2, <2>1 DEF TypeOK
      <3>2. \A i \in 1 .. Len(todo') : Justified(todo'[i])
        BY <1>3, <2>1, <3>1 DEF Calls
      <3>3. QED  BY <2>1, <3>2 DEF Calls, Justified, Before
    <2>6. QED  BY <1>3, <2>1, <2>2, <2>4, <2>5, SameRecords
  <1>11. CASE OperatorStarts
    <2>1. UNCHANGED <<origin, user, state, todo, run>>
          /\ units' = Systemctl(units, "start", "relay")
      BY <1>11 DEF OperatorStarts, history
    <2>2. <<"start", "relay">> \in Verbs \X Units /\ Justified(<<"start", "relay">>)
      BY DEF Verbs, Units, Justified
    <2>3. Reach'
      <3> DEFINE call == <<"start", "relay">>
      <3>1. units' = Systemctl(units, call[1], call[2])
        BY <2>1
      <3> HIDE DEF call
      <3>2. call \in Verbs \X Units /\ Justified(call)
        BY <2>2 DEF call
      <3>3. QED  BY <1>2, <1>3, <2>1, <3>1, <3>2, SystemctlReach
    <2>4. QED  BY <1>3, <2>1, <2>3, SameRecords, SameCalls
  <1>12. CASE Reboot
    <2>1. UNCHANGED <<origin, user, state, todo, run>>
      BY <1>12 DEF Reboot, history
    <2>2. PICK up \in SUBSET {u \in Units : Wanted(u)} :
            units' = [u \in Units |-> [units[u] EXCEPT !.active = u \in up]]
      BY <1>12 DEF Reboot
    <2>3. units["display_manager"] \in UnitState /\ "display_manager" \in Units
      BY <1>2 DEF TypeOK, Units, Conflicting
    <2>4. /\ units'["display_manager"].enabled = units["display_manager"].enabled
          /\ units'["display_manager"].masked = units["display_manager"].masked
          /\ units'["display_manager"].active => "display_manager" \in up
      BY <2>2, <2>3 DEF UnitState
    <2>5. "display_manager" \in up => units["display_manager"].enabled
      BY <2>2 DEF Wanted
    <2>6. Reach'
      BY <1>3, <2>1, <2>4, <2>5 DEF Reach, Before
    <2>7. QED  BY <1>3, <2>1, <2>6, SameRecords, SameCalls
  <1>13. QED
    BY <1>5, <1>6, <1>7, <1>8, <1>9, <1>10, <1>11, <1>12 DEF Next

\* uninstall reverses only what install did: on every host, and however many
\* runs fail, are killed or are repeated.
THEOREM NothingOverreached == Spec => []NoOverreach
  <1>1. Init => Overreach
    BY OverreachInit
  <1>2. Overreach /\ [Next]_vars => Overreach'
    BY OverreachStep
  <1>3. Overreach => NoOverreach
    BY DEF Overreach, Reach, Before, NoOverreach
  <1>4. QED  BY <1>1, <1>2, <1>3, PTL DEF Spec

-----------------------------------------------------------------------------
(* The operator's configuration.  While it is being overwritten ConfigKept    *)
(* rests on the copy alone, so the invariant says the copy is there by then.  *)

Saved == \/ text = "none"
         \/ \E s \in Seconds : backups[s] = text
         \/ budget.clobbered

ConfigSafe == TypeOK /\ (Saved \/ text = config) /\ (pc = "write_config" => Saved)

LEMMA ConfigSame ==
  ASSUME ConfigSafe, UNCHANGED <<text, config, backups, budget>>, pc' # "write_config" \/ UNCHANGED pc
  PROVE  (Saved \/ text = config)' /\ (pc = "write_config" => Saved)'
  BY DEF ConfigSafe, Saved

LEMMA ConfigSpent ==
  ASSUME ConfigSafe, UNCHANGED <<text, config, backups>>, budget'.clobbered = budget.clobbered,
         pc' # "write_config" \/ UNCHANGED pc
  PROVE  (Saved \/ text = config)' /\ (pc = "write_config" => Saved)'
  BY DEF ConfigSafe, Saved

LEMMA ConfigSafeStep == ConfigSafe /\ [Next]_vars => ConfigSafe'
  <1>1. SUFFICES ASSUME ConfigSafe, [Next]_vars PROVE ConfigSafe'
    OBVIOUS
  <1> USE <1>1
  <1>2. TypeOK /\ TypeOK'
    BY TypeStep DEF ConfigSafe
  <1> DEFINE Kept == (Saved \/ text = config)' /\ (pc = "write_config" => Saved)'
  <1>3. SUFFICES Kept
    BY <1>2 DEF ConfigSafe
  <1>4. CASE Install \/ Uninstall \/ Abort \/ RunOptional
    <2>1. /\ UNCHANGED <<text, config, backups>> /\ budget'.clobbered = budget.clobbered
          /\ pc' # "write_config" \/ UNCHANGED pc
      BY <1>2, <1>4 DEF Install, Uninstall, Begin, Abort, End, RunOptional, Fault, host, history,
                        TypeOK
    <2>2. QED  BY <2>1, ConfigSpent
  <1>5. CASE \/ InstallPackages \/ EnsureServiceUser \/ RemoveOldTree \/ InstallRuntimeTree
             \/ InstallSharedAssets \/ PreserveConfig \/ ConfigAccess \/ InstallServiceUnits
             \/ InstallLogindOverride \/ ConfigureConflictingUnits \/ EnableServices
             \/ WriteInstallState \/ DaemonReload
    <2>1. UNCHANGED <<text, config, backups, budget>> /\ pc' # "write_config"
      BY <1>5 DEF InstallPackages, EnsureServiceUser, RemoveOldTree, InstallRuntimeTree,
           InstallSharedAssets, PreserveConfig, ConfigAccess, InstallServiceUnits,
           InstallLogindOverride, ConfigureConflictingUnits, ConfigureUnit, EnableServices,
           WriteInstallState, DaemonReload, Put, Pass, Step, End, host, history
    <2>2. QED  BY <2>1, ConfigSame
  <1>6. CASE CreateConfig
    <2>1. UNCHANGED <<text, config, backups, budget>> /\ config = "none"
      BY <1>6 DEF CreateConfig, host, history
    <2>2. QED  BY <2>1 DEF ConfigSafe, Saved
  <1>7. CASE BackupConfig
    <2>1. UNCHANGED <<text, config>> /\ config # "none" /\ pc = "config"
      BY <1>7 DEF BackupConfig, Step, history
    <2>2. PICK now \in budget.now .. MaxTime :
            /\ backups' = [backups EXCEPT ![now] = config]
            /\ budget' = [budget EXCEPT !.now = now,
                                        !.clobbered = @ \/ backups[now] # "none"]
      BY <1>7 DEF BackupConfig
    <2>3. now \in Seconds /\ backups \in [Seconds -> Contents]
      BY <1>2, <2>2 DEF TypeOK, Seconds
    <2>4. budget'.clobbered = (budget.clobbered \/ backups[now] # "none")
      BY <1>2, <2>2 DEF TypeOK
    <2>5. CASE text = config
      <3>1. backups'[now] = text'
        BY <2>1, <2>2, <2>3, <2>5
      <3>2. QED  BY <2>3, <3>1 DEF Saved
    <2>6. CASE text = "none" \/ budget.clobbered \/ backups[now] # "none"
      BY <2>1, <2>4, <2>6 DEF Saved
    <2>7. CASE \E s \in Seconds : backups[s] = text /\ s # now
      <3>1. PICK s \in Seconds : backups[s] = text /\ s # now
        BY <2>7
      <3>2. backups'[s] = text'
        BY <2>1, <2>2, <2>3, <3>1
      <3>3. QED  BY <3>1, <3>2 DEF Saved
    <2>8. QED  BY <2>5, <2>6, <2>7 DEF ConfigSafe, Saved
  <1>8. CASE WriteConfig \/ TornWrite
    <2>1. CASE pc = "write_config"
      <3>1. UNCHANGED <<text, backups>> /\ budget'.clobbered = budget.clobbered
        BY <1>2, <1>8 DEF WriteConfig, TornWrite, End, Fault, history, TypeOK
      <3>2. QED  BY <2>1, <3>1 DEF ConfigSafe, Saved
    <2>2. CASE pc # "write_config"
      <3>1. /\ UNCHANGED <<text, config, backups>> /\ budget'.clobbered = budget.clobbered
            /\ pc' # "write_config"
        BY <1>2, <1>8, <2>2 DEF WriteConfig, TornWrite, Step, End, Fault, history, TypeOK
      <3>2. QED  BY <3>1, ConfigSpent
    <2>3. QED  BY <2>1, <2>2
  <1>9. CASE \/ LoadUninstallState \/ LoadFails \/ StopServices \/ RemoveServiceUnits
             \/ RemoveLogindOverride \/ RestoreConflictingUnits \/ RemoveRuntimeTree
             \/ RemoveSharedAssets \/ RemoveServiceUser \/ RemoveInstallState
             \/ RemoveServiceHome
    <2>1. UNCHANGED <<text, config, backups, budget>> /\ pc' # "write_config"
      BY <1>9 DEF LoadUninstallState, LoadFails, StopServices, RemoveServiceUnits,
           RemoveLogindOverride, RestoreConflictingUnits, RestoreUnit, RemoveRuntimeTree,
           RemoveSharedAssets, RemoveServiceUser, RemoveInstallState, RemoveServiceHome,
           Remove, Step, End, host, history
    <2>2. QED  BY <2>1, ConfigSame
  <1>10. CASE PurgeConfig
    <2>1. pc' # "write_config" /\ UNCHANGED budget
      BY <1>10 DEF PurgeConfig, Step
    <2>2. CASE run.flag
      BY <1>10, <2>1, <2>2 DEF PurgeConfig, Saved
    <2>3. CASE ~run.flag
      BY <1>10, <2>1, <2>3, ConfigSame DEF PurgeConfig
    <2>4. QED  BY <2>2, <2>3
  <1>11. CASE OperatorEdits
    BY <1>11 DEF OperatorEdits
  <1>12. CASE OperatorStarts \/ Reboot \/ UNCHANGED vars
    <2>1. UNCHANGED <<text, config, backups, budget, pc>>
      BY <1>12 DEF OperatorStarts, Reboot, vars, host, history
    <2>2. QED  BY <2>1, ConfigSame
  <1>13. QED
    BY <1>4, <1>5, <1>6, <1>7, <1>8, <1>9, <1>10, <1>11, <1>12
       DEF Next, InstallStep, UninstallStep

\* What the operator last wrote to config.toml survives every replacement, torn
\* write, failed run and uninstall that does not purge it.
THEOREM OperatorTextKept == Spec => []ConfigKept
  <1>1. Init => ConfigSafe
    BY TypeInit DEF Init, ConfigSafe, Saved
  <1>2. ConfigSafe /\ [Next]_vars => ConfigSafe'
    BY ConfigSafeStep
  <1>3. ConfigSafe => ConfigKept
    BY DEF ConfigSafe, Saved, ConfigKept
  <1>4. QED  BY <1>1, <1>2, <1>3, PTL DEF Spec
-----------------------------------------------------------------------------
(* What a run has done by the time it is at a step.  The steps that have a    *)
(* thing behind them, in the order of the commands:                           *)

HasUser == InstallSteps \ {"packages", "user"}
HasLib == HasUser \ {"runtime", "copytree"}
HasShare == HasLib \ {"shared"}
HasConfig == HasShare \ {"config", "write_config"}
HasUnits == HasConfig \ {"config_access", "units"}
HasLogind == HasUnits \ {"logind"}
HasGetty == HasLogind \ {"getty"}
HasBoth == HasGetty \ {"display_manager"}

NoUnits == UninstallSteps \ {"load", "stop", "remove_units"}
NoLogind == NoUnits \ {"remove_logind"}
GettyBack == NoLogind \ {"reload_removed", "restore_getty"}
BothBack == GettyBack \ {"restore_display_manager"}
NoLib == BothBack \ {"remove_runtime"}
NoShare == NoLib \ {"remove_shared"}
NoUser == NoShare \ {"remove_user"}

InstallDone ==
    /\ pc \in HasUser => user
    /\ pc \in HasLib => "lib" \in files
    /\ pc \in HasShare => "share" \in files
    /\ pc \in HasConfig => config # "none"
    /\ pc \in HasUnits => "units" \in files /\ units["relay"].existed
    /\ pc \in HasLogind => "logind" \in files
    /\ pc = "record" => units["relay"].enabled

UninstallDone ==
    /\ pc \in NoUnits => "units" \notin files /\ ~units["relay"].existed
    /\ pc \in NoLogind => "logind" \notin files
    /\ pc \in NoLib => "lib" \notin files
    /\ pc \in NoShare => "share" \notin files
    /\ pc \in NoUser /\ Ours(run.loaded) => ~user
    /\ pc = "remove_home" => state = NoState
    /\ pc \in UninstallSteps \ {"load", "remove_home"} => state = run.loaded

\* The queue holds the calls of the step before, and only those.
Only(s, u, verbs) == \A i \in 1 .. Len(s) : s[i] \in verbs \X {u}
Pending(verb, u) == \E i \in 1 .. Len(todo) : todo[i] = <<verb, u>>

Queue ==
    /\ pc = "display_manager" => Only(todo, "getty", {"disable_now", "mask"})
    /\ pc = "reload" => Only(todo, "display_manager", {"disable_now", "mask"})
    /\ pc = "remove_units" => Only(todo, "relay", {"stop", "disable"})
    /\ pc = "restore_display_manager" => Only(todo, "getty", {"unmask", "enable", "start"})
    /\ pc = "remove_runtime" => Only(todo, "display_manager", {"unmask", "enable", "start"})
    /\ pc \notin {"display_manager", "reload", "remove_units", "restore_display_manager",
                  "remove_runtime"} => todo = <<>>

\* A unit of the host that the run has been at is masked, or will be.
Clearing(u) == units[u].existed /\ ~units[u].masked => Pending("mask", u)

TtyCleared ==
    ~run.unapplied =>
      /\ pc \in HasGetty => Clearing("getty")
      /\ pc \in HasBoth => Clearing("display_manager")

RelayDown ==
    ~run.unapplied =>
      /\ pc = "remove_units" => /\ units["relay"].active => Pending("stop", "relay")
                                /\ units["relay"].enabled => Pending("disable", "relay")
      /\ pc \in NoUnits => ~units["relay"].active /\ ~units["relay"].enabled

\* A unit that the run is putting back is unmasked first, and what its record
\* says of it holds again or is still to be done.
Unmasking(u) == units[u].masked => todo # <<>> /\ todo[1] = <<"unmask", u>>

Restoring(u, r) ==
    /\ r.enabled_before /\ ~units[u].enabled => Pending("enable", u)
    /\ r.active_before /\ ~units[u].active => Pending("start", u)

\* What the uninstaller needs to touch the display manager's mask.
Evident(loaded) ==
    LET r == loaded.units["display_manager"]
    IN  loaded.kind = "written" /\ r.existed /\ r.changed_by_installer /\ ~r.masked_before

PuttingBack ==
    ~run.unapplied =>
      /\ pc \in GettyBack =>
           /\ Unmasking("getty")
           /\ units["getty"].existed => Restoring("getty", run.loaded.units["getty"])
      /\ pc \in BothBack /\ Evident(run.loaded) =>
           /\ Unmasking("display_manager")
           /\ units["display_manager"].existed =>
                Restoring("display_manager", run.loaded.units["display_manager"])

\* Units neither come nor go, and one that does not exist is not up.
Existing ==
    /\ ~units["relay"].masked
    /\ \A u \in Conflicting :
         /\ units[u].existed = origin.units[u].existed
         /\ origin.units[u].enabled \/ origin.units[u].active => origin.units[u].existed
         /\ units[u].enabled => units[u].existed

\* A display manager that was masked and down, or did not exist, is left alone.
Fixed == ~Before.active /\ (Before.masked \/ ~Before.existed)

Still == Fixed => /\ units["display_manager"].enabled = Before.enabled
                  /\ units["display_manager"].masked = Before.masked
                  /\ ~units["display_manager"].active

Unclaimed == Fixed => /\ ~run.captured["display_manager"].changed_by_installer
                      /\ ~run.loaded.units["display_manager"].changed_by_installer
                      /\ ~state.units["display_manager"].changed_by_installer

Uncalled == Fixed => \A i \in 1 .. Len(todo) : todo[i][2] # "display_manager"

LeftAlone == Still /\ Unclaimed /\ Uncalled

\* While a record says of an unmasked login that it was disabled, it is.
Off(r) == r.existed /\ ~r.enabled_before /\ ~r.masked_before

\* Where the record of the login is.
LoginRecords ==
    \/ state.kind = "written" /\ Off(state.units["getty"])
    \/ pc \in HasGetty /\ Off(run.captured["getty"])
    \/ pc \in UninstallSteps /\ run.loaded.kind = "written" /\ Off(run.loaded.units["getty"])

LoginOff ==
    /\ LoginRecords => ~units["getty"].enabled
    /\ pc = "restore_display_manager" /\ Pending("enable", "getty") =>
         run.loaded.kind = "absent" \/ run.loaded.units["getty"].enabled_before

\* The compositor of the configuration in place is installed, unless told not to.
Compositor ==
    pc \in InstallSteps \ {"packages"} /\ ~run.skip /\ ~run.replaced =>
      /\ config = "sway" => "sway" \in packages
      /\ config \in {"cage", "sample", "none"} => "cage" \in packages
      /\ pc = "write_config" => config = "none"

Finished ==
    /\ InstallReady /\ UninstallClean
    /\ pc = "idle" /\ last = "uninstalled" => ~units["relay"].existed

\* What systemctl does to one unit, attribute by attribute.
LEMMA SystemctlEffect ==
  ASSUME TypeOK, NEW call \in Verbs \X Units, NEW v \in Units,
         units' = Systemctl(units, call[1], call[2])
  PROVE  /\ units'[v].existed = units[v].existed
         /\ units'[v].masked = IF call = <<"mask", v>> THEN TRUE
                          ELSE IF call = <<"unmask", v>> THEN FALSE ELSE units[v].masked
         /\ units'[v].enabled = IF call \in {<<"disable_now", v>>, <<"disable", v>>} THEN FALSE
                           ELSE IF call = <<"enable", v>>
                           THEN units[v].enabled \/ (units[v].existed /\ ~units[v].masked)
                           ELSE units[v].enabled
         /\ call \in {<<"disable_now", v>>, <<"stop", v>>} => ~units'[v].active
         /\ call = <<"start", v>> /\ units[v].existed /\ ~units[v].masked => units'[v].active
         /\ units'[v].active /\ ~units[v].active =>
              call = <<"start", v>> /\ units[v].existed /\ ~units[v].masked
         /\ units[v].active /\ ~units'[v].active =>
              \/ call \in {<<"disable_now", v>>, <<"stop", v>>}
              \/ call[1] = "start" /\ Excludes(call[2], v)
  <1>1. PICK verb \in Verbs, u \in Units : call = <<verb, u>>
    OBVIOUS
  <1>2. units[v] \in UnitState /\ units[u] \in UnitState /\ units' = Systemctl(units, verb, u)
        /\ units \in [Units -> UnitState]
    BY <1>1 DEF TypeOK
  <1>3. \A w \in Verbs : (call = <<w, v>>) <=> (verb = w /\ u = v)
    BY <1>1
  <1>4. CASE verb = "start"
    <2>1. CASE units[u].existed /\ ~units[u].masked
      <3>1. units' = [w \in Units |-> [units[w] EXCEPT !.active = (w = u) \/ (@ /\ ~Excludes(u, w))]]
        BY <1>2, <1>4, <2>1 DEF Systemctl
      <3>2. units'[v] = [units[v] EXCEPT !.active = (v = u) \/ (units[v].active /\ ~Excludes(u, v))]
        BY <3>1
      <3>3. QED  BY <1>1, <1>2, <1>3, <1>4, <2>1, <3>2 DEF UnitState, Verbs
    <2>2. CASE ~(units[u].existed /\ ~units[u].masked)
      <3>1. units' = units
        BY <1>2, <1>4, <2>2 DEF Systemctl
      <3>2. QED  BY <1>1, <1>2, <1>3, <1>4, <2>2, <3>1 DEF UnitState, Verbs
    <2>3. QED  BY <2>1, <2>2
  <1>5. CASE verb # "start"
    <2>1. CASE u = v
      <3>1. units'[v] = CASE verb = "disable_now" -> [units[v] EXCEPT !.enabled = FALSE, !.active = FALSE]
                     [] verb = "disable" -> [units[v] EXCEPT !.enabled = FALSE]
                     [] verb = "stop" -> [units[v] EXCEPT !.active = FALSE]
                     [] verb = "mask" -> [units[v] EXCEPT !.masked = TRUE]
                     [] verb = "unmask" -> [units[v] EXCEPT !.masked = FALSE]
                     [] verb = "enable" ->
                          [units[v] EXCEPT !.enabled = @ \/ (units[v].existed /\ ~units[v].masked)]
        BY <1>2, <1>5, <2>1 DEF Systemctl, Verbs
      <3>2. QED  BY <1>2, <1>3, <1>5, <2>1, <3>1 DEF UnitState, Verbs
    <2>2. CASE u # v
      <3>1. units'[v] = units[v]
        BY <1>2, <1>5, <2>2 DEF Systemctl, Verbs
      <3>2. QED  BY <1>1, <1>2, <1>3, <1>5, <2>2, <3>1 DEF UnitState, Verbs
    <2>3. QED  BY <2>1, <2>2
  <1>6. QED  BY <1>4, <1>5

\* Only unmasking a unit unmasks it, and no call makes a unit exist.
LEMMA SystemctlMasks ==
  ASSUME TypeOK, NEW verb \in Verbs, NEW u \in Units, units' = Systemctl(units, verb, u)
  PROVE  \A v \in Units :
           /\ units'[v].existed = units[v].existed
           /\ units[v].masked /\ ~(verb = "unmask" /\ u = v) => units'[v].masked
           /\ verb = "mask" /\ u = v => units'[v].masked
  <1>1. SUFFICES ASSUME NEW v \in Units
                 PROVE  /\ units'[v].existed = units[v].existed
                        /\ units[v].masked /\ ~(verb = "unmask" /\ u = v) => units'[v].masked
                        /\ verb = "mask" /\ u = v => units'[v].masked
    OBVIOUS
  <1>2. units[v] \in UnitState /\ units \in [Units -> UnitState]
    BY DEF TypeOK
  <1>3. CASE verb = "start"
    BY <1>2, <1>3 DEF Systemctl, UnitState
  <1>4. CASE verb # "start" /\ u # v
    <2>1. units'[v] = units[v]
      BY <1>2, <1>4 DEF Systemctl, Verbs
    <2>2. QED  BY <1>4, <2>1
  <1>5. CASE verb # "start" /\ u = v
    BY <1>2, <1>5 DEF Systemctl, UnitState, Verbs
  <1>6. QED  BY <1>3, <1>4, <1>5

\* A call that is about another unit can at most stop this one.
LEMMA OtherUnit ==
  ASSUME TypeOK, NEW call \in Verbs \X Units, NEW v \in Units, call[2] # v,
         units' = Systemctl(units, call[1], call[2])
  PROVE  /\ units'[v].enabled = units[v].enabled /\ units'[v].masked = units[v].masked
         /\ units'[v].active => units[v].active
  <1>1. units[v] \in UnitState /\ call[1] \in Verbs /\ call[2] \in Units
    BY DEF TypeOK
  <1>2. CASE call[1] = "start"
    BY <1>1, <1>2 DEF Systemctl, TypeOK, UnitState
  <1>3. CASE call[1] # "start"
    <2>1. units'[v] = units[v]
      BY <1>1, <1>3 DEF Systemctl, TypeOK, Verbs
    <2>2. QED  BY <2>1
  <1>4. QED  BY <1>2, <1>3

LEMMA OnlyTail ==
  ASSUME NEW s \in Seq(Verbs \X Units), s # <<>>, NEW u, NEW verbs, Only(s, u, verbs)
  PROVE  Only(Tail(s), u, verbs) /\ Head(s) \in verbs \X {u}
  <1>1. \A i \in 1 .. Len(Tail(s)) : Tail(s)[i] = s[i + 1] /\ i + 1 \in 1 .. Len(s)
    OBVIOUS
  <1>2. Head(s) = s[1] /\ 1 \in 1 .. Len(s)
    OBVIOUS
  <1>3. QED  BY <1>1, <1>2 DEF Only

LEMMA PendingTail ==
  ASSUME TypeOK, todo # <<>>, todo' = Tail(todo), NEW verb, NEW u,
         Pending(verb, u), Head(todo) # <<verb, u>>
  PROVE  Pending(verb, u)'
  <1>1. PICK i \in 1 .. Len(todo) : todo[i] = <<verb, u>>
    BY DEF Pending
  <1>2. i # 1
    BY <1>1
  <1>3. i - 1 \in 1 .. Len(Tail(todo)) /\ Tail(todo)[i - 1] = todo[i]
    BY <1>2 DEF TypeOK
  <1>4. QED  BY <1>1, <1>3 DEF Pending

LEMMA Joined ==
  ASSUME NEW x, NEW y, NEW z
  PROVE  /\ <<x>> \o <<y>> = <<x, y>> /\ <<x, y>> \o <<z>> = <<x, y, z>>
         /\ <<>> \o <<x>> = <<x>> /\ <<x>> \o <<>> = <<x>>
         /\ <<x, y>> \o <<>> = <<x, y>> /\ <<>> \o <<>> = <<>>
  <1> DEFINE S == {x, y, z}
  <1>1. /\ <<x>> \in Seq(S) /\ <<y>> \in Seq(S) /\ <<z>> \in Seq(S)
        /\ <<x, y>> \in Seq(S) /\ <<x, y, z>> \in Seq(S)
    OBVIOUS
  <1> HIDE DEF S
  <1>2. <<x>> \o <<y>> = <<x, y>>
    <2>1. <<x>> \o <<y>> \in Seq(S) /\ Len(<<x>> \o <<y>>) = 2
      BY <1>1
    <2>2. (<<x>> \o <<y>>)[1] = x /\ (<<x>> \o <<y>>)[2] = y
      BY <1>1
    <2>3. \A i \in 1 .. 2 : (<<x>> \o <<y>>)[i] = <<x, y>>[i]
      BY <2>2
    <2>4. QED  BY <1>1, <2>1, <2>3, SeqEqual
  <1>3. <<x, y>> \o <<z>> = <<x, y, z>>
    <2>1. <<x, y>> \o <<z>> \in Seq(S) /\ Len(<<x, y>> \o <<z>>) = 3
      BY <1>1
    <2>2. (<<x, y>> \o <<z>>)[1] = x /\ (<<x, y>> \o <<z>>)[2] = y /\ (<<x, y>> \o <<z>>)[3] = z
      BY <1>1
    <2>3. \A i \in 1 .. 3 : (<<x, y>> \o <<z>>)[i] = <<x, y, z>>[i]
      BY <2>2
    <2>4. QED  BY <1>1, <2>1, <2>3, SeqEqual
  <1>4. <<>> \o <<x>> = <<x>> /\ <<x>> \o <<>> = <<x>> /\ <<>> \o <<>> = <<>>
    BY <1>1
  <1>5. <<x, y>> \o <<>> = <<x, y>>
    BY <1>1
  <1>6. QED  BY <1>2, <1>3, <1>4, <1>5

LEMMA ConfigureCallsAre ==
  ASSUME NEW u \in Conflicting, NEW r \in UnitRecord, NEW s, s = ConfigureCalls(u, r)
  PROVE  /\ Only(s, u, {"disable_now", "mask"})
         /\ r.existed /\ ~r.masked_before => \E i \in 1 .. Len(s) : s[i] = <<"mask", u>>
         /\ ~r.enabled_before /\ ~r.active_before /\ ~(r.existed /\ ~r.masked_before) => s = <<>>
  <1> DEFINE a == <<"disable_now", u>>
             b == <<"mask", u>>
             A == r.enabled_before \/ r.active_before
             B == r.existed /\ ~r.masked_before
  <1>p. s = (IF A THEN <<a>> ELSE <<>>) \o (IF B THEN <<b>> ELSE <<>>)
    BY DEF ConfigureCalls
  <1>3. a \in {"disable_now", "mask"} \X {u} /\ b \in {"disable_now", "mask"} \X {u}
    OBVIOUS
  <1> HIDE DEF a, b, A, B
  <1>q. <<a>> \o <<b>> = <<a, b>> /\ <<a>> \o <<>> = <<a>> /\ <<>> \o <<b>> = <<b>> /\ <<>> \o <<>> = <<>>
    BY Joined
  <1>1. s = IF A THEN (IF B THEN <<a, b>> ELSE <<a>>) ELSE (IF B THEN <<b>> ELSE <<>>)
    BY <1>p, <1>q
  <1>4. Only(s, u, {"disable_now", "mask"})
    BY <1>1, <1>3 DEF Only
  <1>5. ASSUME B PROVE \E i \in 1 .. Len(s) : s[i] = b
    <2>2. s[Len(s)] = b /\ Len(s) \in 1 .. Len(s)
      BY <1>1, <1>5
    <2>3. QED  BY <2>2
  <1>6. ~A /\ ~B => s = <<>>
    BY <1>1
  <1>7. QED  BY <1>4, <1>5, <1>6 DEF A, B, b

LEMMA GettyCallsAre ==
  ASSUME NEW loaded \in InstallState, NEW s, s = GettyCalls(loaded)
  PROVE  /\ Only(s, "getty", {"unmask", "enable", "start"})
         /\ s # <<>> /\ s[1] = <<"unmask", "getty">>
         /\ (\E i \in 1 .. Len(s) : s[i] = <<"enable", "getty">>)
              <=> (loaded.kind = "absent" \/ loaded.units["getty"].enabled_before)
         /\ \E i \in 1 .. Len(s) : s[i] = <<"start", "getty">>
  <1> DEFINE a == <<"unmask", "getty">>
             b == <<"enable", "getty">>
             c == <<"start", "getty">>
             E == loaded.kind = "absent" \/ loaded.units["getty"].enabled_before
  <1>p. s = <<a>> \o (IF E THEN <<b>> ELSE <<>>) \o <<c>>
    BY DEF GettyCalls
  <1>2. \A x \in {a, b, c} : x \in {"unmask", "enable", "start"} \X {"getty"}
    OBVIOUS
  <1>3. a # b /\ b # c
    OBVIOUS
  <1> HIDE DEF a, b, c, E
  <1>q. /\ <<a>> \o <<b>> = <<a, b>> /\ <<a, b>> \o <<c>> = <<a, b, c>>
        /\ <<a>> \o <<>> = <<a>> /\ <<a>> \o <<c>> = <<a, c>>
    BY Joined
  <1>1. s = IF E THEN <<a, b, c>> ELSE <<a, c>>
    BY <1>p, <1>q
  <1>4. Only(s, "getty", {"unmask", "enable", "start"})
    BY <1>1, <1>2 DEF Only
  <1>5. s # <<>> /\ s[1] = a
    BY <1>1
  <1>6. (\E i \in 1 .. Len(s) : s[i] = b) <=> E
    <2>1. CASE E
      <3>1. s[2] = b /\ 2 \in 1 .. Len(s)
        BY <1>1, <2>1
      <3>2. QED  BY <2>1, <3>1
    <2>2. CASE ~E
      BY <1>1, <1>3, <2>2
    <2>3. QED  BY <2>1, <2>2
  <1>7. s[Len(s)] = c /\ Len(s) \in 1 .. Len(s)
    BY <1>1
  <1>8. QED  BY <1>4, <1>5, <1>6, <1>7 DEF a, b, c, E

LEMMA DisplayManagerCallsAre ==
  ASSUME NEW loaded \in InstallState, NEW s, s = DisplayManagerCalls(loaded)
  PROVE  /\ Only(s, "display_manager", {"unmask", "enable", "start"})
         /\ ~loaded.units["display_manager"].changed_by_installer => s = <<>>
         /\ Evident(loaded) =>
              /\ s # <<>> /\ s[1] = <<"unmask", "display_manager">>
              /\ loaded.units["display_manager"].enabled_before =>
                   \E i \in 1 .. Len(s) : s[i] = <<"enable", "display_manager">>
              /\ loaded.units["display_manager"].active_before =>
                   \E i \in 1 .. Len(s) : s[i] = <<"start", "display_manager">>
  <1> DEFINE a == <<"unmask", "display_manager">>
             b == <<"enable", "display_manager">>
             c == <<"start", "display_manager">>
             r == loaded.units["display_manager"]
             A == ~r.masked_before
             B == r.enabled_before
             C == r.active_before
             none == loaded.kind = "absent" \/ ~r.existed \/ ~r.changed_by_installer
  <1>p. s = IF none THEN <<>>
            ELSE (IF A THEN <<a>> ELSE <<>>) \o (IF B THEN <<b>> ELSE <<>>)
                   \o (IF C THEN <<c>> ELSE <<>>)
    <2>1. (IF r.masked_before THEN <<>> ELSE <<a>>) = (IF A THEN <<a>> ELSE <<>>)
      OBVIOUS
    <2>2. QED  BY <2>1 DEF DisplayManagerCalls
  <1>2. \A x \in {a, b, c} : x \in {"unmask", "enable", "start"} \X {"display_manager"}
    OBVIOUS
  <1>3. ~r.changed_by_installer => none
    OBVIOUS
  <1>4. Evident(loaded) => ~none /\ A
    BY DEF Evident
  <1> HIDE DEF a, b, c, A, B, C, none
  <1>q. /\ <<a>> \o <<b>> = <<a, b>> /\ <<a, b>> \o <<c>> = <<a, b, c>>
        /\ <<a>> \o <<c>> = <<a, c>> /\ <<b>> \o <<c>> = <<b, c>>
        /\ <<a>> \o <<>> = <<a>> /\ <<b>> \o <<>> = <<b>> /\ <<a, b>> \o <<>> = <<a, b>>
        /\ <<>> \o <<b>> = <<b>> /\ <<>> \o <<c>> = <<c>> /\ <<>> \o <<>> = <<>>
    BY Joined
  <1>r. none => s = <<>>
    BY <1>p
  <1>s. ~none /\ A => s = IF B THEN (IF C THEN <<a, b, c>> ELSE <<a, b>>)
                         ELSE (IF C THEN <<a, c>> ELSE <<a>>)
    BY <1>p, <1>q
  <1>t. ~none /\ ~A => s = IF B THEN (IF C THEN <<b, c>> ELSE <<b>>)
                          ELSE (IF C THEN <<c>> ELSE <<>>)
    BY <1>p, <1>q
  <1>5. Only(s, "display_manager", {"unmask", "enable", "start"})
    BY <1>2, <1>r, <1>s, <1>t DEF Only
  <1>6. ASSUME ~none, A PROVE s # <<>> /\ s[1] = a
    BY <1>s, <1>6
  <1>7. ASSUME ~none, A, B PROVE \E i \in 1 .. Len(s) : s[i] = b
    <2>1. s[2] = b /\ 2 \in 1 .. Len(s)
      BY <1>s, <1>7
    <2>2. QED  BY <2>1
  <1>8. ASSUME ~none, A, C PROVE \E i \in 1 .. Len(s) : s[i] = c
    <2>1. CASE B
      <3>1. s = <<a, b, c>>
        BY <1>s, <1>8, <2>1
      <3>2. s[3] = c /\ 3 \in 1 .. Len(s)
        BY <3>1
      <3>3. QED  BY <3>2
    <2>2. CASE ~B
      <3>1. s = <<a, c>>
        BY <1>s, <1>8, <2>2
      <3>2. s[2] = c /\ 2 \in 1 .. Len(s)
        BY <3>1
      <3>3. QED  BY <3>2
    <2>3. QED  BY <2>1, <2>2
  <1>9. QED  BY <1>3, <1>4, <1>5, <1>6, <1>7, <1>8, <1>r DEF a, b, c, B, C
-----------------------------------------------------------------------------
(* The queue. *)

LEMMA QueueEmptied ==
  ASSUME Queue,
         \/ Install \/ Uninstall \/ InstallStep \/ UninstallStep \/ DaemonReload
         \/ Abort \/ TornWrite \/ OperatorEdits \/ OperatorStarts \/ Reboot,
         ~ConfigureConflictingUnits, ~StopServices, ~RestoreConflictingUnits
  PROVE  todo' = <<>>
  <1>1. CASE Install \/ Uninstall \/ OperatorEdits \/ OperatorStarts \/ Reboot
    BY <1>1 DEF Install, Uninstall, Begin, OperatorEdits, OperatorStarts, Reboot, Queue
  <1>2. CASE InstallStep
    BY <1>2 DEF InstallStep, InstallPackages, EnsureServiceUser, RemoveOldTree,
         InstallRuntimeTree, InstallSharedAssets, PreserveConfig, CreateConfig, BackupConfig,
         WriteConfig, ConfigAccess, InstallServiceUnits, InstallLogindOverride, EnableServices,
         WriteInstallState, Put, Pass, Step, End
  <1>3. CASE UninstallStep
    BY <1>3 DEF UninstallStep, LoadUninstallState, LoadFails, RemoveServiceUnits,
         RemoveLogindOverride, RemoveRuntimeTree, RemoveSharedAssets, RemoveServiceUser,
         PurgeConfig, RemoveInstallState, RemoveServiceHome, Remove, Step, End
  <1>4. CASE DaemonReload \/ Abort \/ TornWrite
    BY <1>4 DEF DaemonReload, Pass, Step, Abort, TornWrite, End
  <1>5. QED  BY <1>1, <1>2, <1>3, <1>4

LEMMA QueueStep == TypeOK /\ Queue /\ [Next]_vars => Queue'
  <1>1. SUFFICES ASSUME TypeOK, Queue, [Next]_vars PROVE Queue'
    OBVIOUS
  <1> USE <1>1
  <1>2. ASSUME todo' = <<>> PROVE Queue'
    BY <1>2 DEF Queue, Only
  <1>3. CASE ConfigureConflictingUnits
    <2>1. ASSUME NEW u \in Conflicting, NEW to, ConfigureUnit(u, to)
          PROVE  pc' = to /\ Only(todo', u, {"disable_now", "mask"})
      <3>1. Capture(units[u]) \in UnitRecord
        BY CaptureType DEF TypeOK, Units
      <3>2. todo' = ConfigureCalls(u, Capture(units[u])) /\ pc' = to
        BY <2>1 DEF ConfigureUnit, Step
      <3>3. QED  BY <3>1, <3>2, ConfigureCallsAre
    <2>2. \/ pc' = "display_manager" /\ Only(todo', "getty", {"disable_now", "mask"})
          \/ pc' = "reload" /\ Only(todo', "display_manager", {"disable_now", "mask"})
      BY <1>3, <2>1 DEF ConfigureConflictingUnits, Conflicting
    <2>3. QED  BY <2>2 DEF Queue
  <1>4. CASE StopServices
    <2>1. pc' = "remove_units" /\ todo' = <<<<"stop", "relay">>, <<"disable", "relay">>>>
      BY <1>4 DEF StopServices
    <2>2. Only(todo', "relay", {"stop", "disable"})
      BY <2>1 DEF Only
    <2>3. QED  BY <2>1, <2>2 DEF Queue
  <1>5. CASE RestoreConflictingUnits
    <2>1. run.loaded \in InstallState
      BY DEF TypeOK, RunType
    <2>2. \/ pc' = "restore_display_manager" /\ todo' = GettyCalls(run.loaded)
          \/ pc' = "remove_runtime" /\ todo' = DisplayManagerCalls(run.loaded)
      BY <1>5 DEF RestoreConflictingUnits, RestoreUnit
    <2>3. \/ pc' = "restore_display_manager" /\ Only(todo', "getty", {"unmask", "enable", "start"})
          \/ pc' = "remove_runtime" /\ Only(todo', "display_manager", {"unmask", "enable", "start"})
      BY <2>1, <2>2, GettyCallsAre, DisplayManagerCallsAre
    <2>4. QED  BY <2>3 DEF Queue
  <1>6. CASE RunOptional
    <2>1. todo # <<>> /\ todo' = Tail(todo) /\ pc' = pc /\ todo \in Seq(Verbs \X Units)
      BY <1>6 DEF RunOptional, TypeOK
    <2>2. \A u, verbs : Only(todo, u, verbs) => Only(todo', u, verbs)
      BY <2>1, OnlyTail
    <2>3. QED  BY <2>1, <2>2 DEF Queue
  <1>7. CASE UNCHANGED vars
    BY <1>7 DEF vars, Queue
  <1>8. QED  BY <1>2, <1>3, <1>4, <1>5, <1>6, <1>7, QueueEmptied DEF Next

\* The calls a run makes without _run: which step they are queued at and what
\* they do to the units, if they do not fail.
LEMMA Called ==
  ASSUME TypeOK, Queue, RunOptional
  PROVE  /\ Head(todo) \in Verbs \X Units
         /\ \/ units' = Systemctl(units, Head(todo)[1], Head(todo)[2]) /\ UNCHANGED run
            \/ run' = [run EXCEPT !.unapplied = TRUE] /\ UNCHANGED units
         /\ todo # <<>> /\ todo' = Tail(todo) /\ UNCHANGED <<pc, files, user, home, config, packages, state, last, origin>>
         /\ \/ pc = "display_manager" /\ Head(todo) \in {"disable_now", "mask"} \X {"getty"}
            \/ pc = "reload" /\ Head(todo) \in {"disable_now", "mask"} \X {"display_manager"}
            \/ pc = "remove_units" /\ Head(todo) \in {"stop", "disable"} \X {"relay"}
            \/ /\ pc = "restore_display_manager"
               /\ Head(todo) \in {"unmask", "enable", "start"} \X {"getty"}
            \/ /\ pc = "remove_runtime"
               /\ Head(todo) \in {"unmask", "enable", "start"} \X {"display_manager"}
  <1>1. todo # <<>> /\ todo \in Seq(Verbs \X Units) /\ Head(todo) \in Verbs \X Units
    BY DEF RunOptional, TypeOK
  <1>2. \A u, verbs : Only(todo, u, verbs) => Head(todo) \in verbs \X {u}
    BY <1>1, OnlyTail
  <1>3. /\ \/ units' = Systemctl(units, Head(todo)[1], Head(todo)[2]) /\ UNCHANGED run
           \/ run' = [run EXCEPT !.unapplied = TRUE] /\ UNCHANGED units
        /\ todo' = Tail(todo)
        /\ UNCHANGED <<pc, files, user, home, config, packages, state, last, origin>>
    BY DEF RunOptional, history
  <1>4. \/ pc = "display_manager" /\ Head(todo) \in {"disable_now", "mask"} \X {"getty"}
        \/ pc = "reload" /\ Head(todo) \in {"disable_now", "mask"} \X {"display_manager"}
        \/ pc = "remove_units" /\ Head(todo) \in {"stop", "disable"} \X {"relay"}
        \/ /\ pc = "restore_display_manager"
           /\ Head(todo) \in {"unmask", "enable", "start"} \X {"getty"}
        \/ /\ pc = "remove_runtime"
           /\ Head(todo) \in {"unmask", "enable", "start"} \X {"display_manager"}
    BY <1>1, <1>2 DEF Queue
  <1>5. QED  BY <1>1, <1>3, <1>4

-----------------------------------------------------------------------------
(* The units. *)

\* systemctl makes no unit exist, and enables only what exists.
LEMMA SystemctlKeeps ==
  ASSUME TypeOK, NEW call \in Verbs \X Units, NEW v \in Units,
         units' = Systemctl(units, call[1], call[2])
  PROVE  /\ units'[v].existed = units[v].existed
         /\ units'[v].enabled => units[v].enabled \/ units[v].existed
  <1>1. units[v] \in UnitState /\ call[1] \in Verbs /\ call[2] \in Units
    BY DEF TypeOK
  <1>2. CASE call[1] = "start"
    BY <1>1, <1>2 DEF Systemctl, TypeOK, UnitState
  <1>3. CASE call[1] # "start" /\ call[2] # v
    <2>1. units'[v] = units[v]
      BY <1>1, <1>3 DEF Systemctl, TypeOK, Verbs
    <2>2. QED  BY <2>1
  <1>4. CASE call[1] # "start" /\ call[2] = v
    <2>1. units'[v] = CASE call[1] = "disable_now" -> [units[v] EXCEPT !.enabled = FALSE, !.active = FALSE]
                   [] call[1] = "disable" -> [units[v] EXCEPT !.enabled = FALSE]
                   [] call[1] = "stop" -> [units[v] EXCEPT !.active = FALSE]
                   [] call[1] = "mask" -> [units[v] EXCEPT !.masked = TRUE]
                   [] call[1] = "unmask" -> [units[v] EXCEPT !.masked = FALSE]
                   [] call[1] = "enable" ->
                        [units[v] EXCEPT !.enabled = @ \/ (units[v].existed /\ ~units[v].masked)]
      BY <1>1, <1>4 DEF Systemctl, TypeOK, Verbs
    <2>2. CASE call[1] \in {"disable_now", "disable"}
      BY <1>1, <2>1, <2>2 DEF UnitState
    <2>3. CASE call[1] \in {"stop", "mask", "unmask"}
      BY <1>1, <2>1, <2>3 DEF UnitState
    <2>4. CASE call[1] = "enable"
      BY <1>1, <2>1, <2>4 DEF UnitState
    <2>5. QED  BY <1>1, <1>4, <2>2, <2>3, <2>4 DEF Verbs
  <1>5. QED  BY <1>2, <1>3, <1>4

LEMMA ExistingStep ==
  TypeOK /\ Queue /\ Existing /\ [Next]_vars => Existing'
  <1>1. SUFFICES ASSUME TypeOK, Queue, Existing, [Next]_vars PROVE Existing'
    OBVIOUS
  <1> USE <1>1
  <1>2. "relay" \in Units /\ Conflicting \subseteq Units
    BY DEF Units
  <1>3. ASSUME UNCHANGED <<units, origin>> PROVE Existing'
    BY <1>3 DEF Existing
  <1>4. ASSUME NEW call \in Verbs \X Units, units' = Systemctl(units, call[1], call[2]),
               call # <<"mask", "relay">>, UNCHANGED origin
        PROVE  Existing'
    <2>1. ~units'["relay"].masked
      BY <1>2, <1>4, SystemctlEffect DEF Existing, TypeOK
    <2>2. \A u \in Conflicting : /\ units'[u].existed = units[u].existed
                                 /\ units'[u].enabled => units[u].enabled \/ units[u].existed
      <3> SUFFICES ASSUME NEW u \in Conflicting
                   PROVE  /\ units'[u].existed = units[u].existed
                          /\ units'[u].enabled => units[u].enabled \/ units[u].existed
        OBVIOUS
      <3>1. u \in Units
        BY <1>2
      <3> QED
        BY <1>4, <3>1, SystemctlKeeps
    <2>3. QED  BY <1>4, <2>1, <2>2 DEF Existing
  <1>5. CASE InstallServiceUnits \/ RemoveServiceUnits
    <2>1. UNCHANGED origin /\ \A u \in Conflicting : units'[u] = units[u]
      BY <1>5 DEF InstallServiceUnits, RemoveServiceUnits, history, TypeOK, Conflicting, Units
    <2>2. units'["relay"].masked = units["relay"].masked
      BY <1>2, <1>5 DEF InstallServiceUnits, RemoveServiceUnits, TypeOK, UnitState
    <2>3. QED  BY <2>1, <2>2 DEF Existing
  <1>6. CASE EnableServices \/ OperatorStarts
    <2>1. UNCHANGED origin /\ \/ units' = Systemctl(units, "enable", "relay")
                              \/ units' = Systemctl(units, "start", "relay")
      BY <1>6 DEF EnableServices, OperatorStarts, history
    <2>2. PICK verb \in {"enable", "start"} : units' = Systemctl(units, verb, "relay")
      BY <2>1
    <2>3. <<verb, "relay">> \in Verbs \X Units /\ <<verb, "relay">> # <<"mask", "relay">>
          /\ <<verb, "relay">>[1] = verb /\ <<verb, "relay">>[2] = "relay"
      BY <1>2 DEF Verbs
    <2>4. QED  BY <1>4, <2>1, <2>2, <2>3
  <1>7. CASE RunOptional
    <2>1. Head(todo) \in Verbs \X Units /\ Head(todo) # <<"mask", "relay">> /\ UNCHANGED origin
      BY <1>7, Called
    <2>2. CASE units' = Systemctl(units, Head(todo)[1], Head(todo)[2])
      BY <1>4, <2>1, <2>2
    <2>3. QED  BY <1>3, <1>7, <2>1, <2>2, Called
  <1>8. CASE Reboot
    <2>1. PICK up \in SUBSET Units :
            units' = [u \in Units |-> [units[u] EXCEPT !.active = u \in up]]
      BY <1>8 DEF Reboot
    <2>2. UNCHANGED origin
      BY <1>8 DEF Reboot, history
    <2>3. \A u \in Units : /\ units'[u].existed = units[u].existed
                           /\ units'[u].enabled = units[u].enabled
                           /\ units'[u].masked = units[u].masked
      BY <2>1 DEF TypeOK, UnitState
    <2>4. QED  BY <1>2, <2>2, <2>3 DEF Existing
  <1>9. CASE InstallStep /\ ~InstallServiceUnits /\ ~EnableServices
    <2>1. UNCHANGED <<units, origin>>
      BY <1>9 DEF InstallStep, InstallPackages, EnsureServiceUser, RemoveOldTree,
         InstallRuntimeTree, InstallSharedAssets, PreserveConfig, CreateConfig, BackupConfig,
         WriteConfig, ConfigAccess, InstallLogindOverride, ConfigureConflictingUnits,
         ConfigureUnit, WriteInstallState, Put, Pass, host, history
    <2>2. QED  BY <1>3, <2>1
  <1>10. CASE UninstallStep /\ ~RemoveServiceUnits
    <2>1. UNCHANGED <<units, origin>>
      BY <1>10 DEF UninstallStep, LoadUninstallState, LoadFails, StopServices,
         RemoveLogindOverride, RestoreConflictingUnits, RestoreUnit, RemoveRuntimeTree,
         RemoveSharedAssets, RemoveServiceUser, PurgeConfig, RemoveInstallState,
         RemoveServiceHome, Remove, host, history
    <2>2. QED  BY <1>3, <2>1
  <1>11. CASE Install \/ Uninstall \/ DaemonReload \/ Abort \/ TornWrite \/ OperatorEdits
              \/ UNCHANGED vars
    <2>1. UNCHANGED <<units, origin>>
      BY <1>11 DEF Install, Uninstall, Begin, DaemonReload, Pass, Abort, TornWrite,
         OperatorEdits, vars, host, history
    <2>2. QED  BY <1>3, <2>1
  <1>12. QED  BY <1>5, <1>6, <1>7, <1>8, <1>9, <1>10, <1>11 DEF Next
-----------------------------------------------------------------------------
(* The steps of a run leave their work behind. *)

LEMMA InstallDoneStep ==
  TypeOK /\ Queue /\ Existing /\ InstallDone /\ [Next]_vars => InstallDone'
  <1>1. SUFFICES ASSUME TypeOK, Queue, Existing, InstallDone, [Next]_vars PROVE InstallDone'
    OBVIOUS
  <1> USE <1>1
  <1> USE DEF HasUser, HasLib, HasShare, HasConfig, HasUnits, HasLogind
  <1>2. "relay" \in Units /\ units["relay"] \in UnitState
    BY DEF Units, TypeOK
  <1>3. ASSUME pc' \notin HasUser PROVE InstallDone'
    BY <1>3 DEF InstallDone, InstallSteps
  <1>4. CASE \/ InstallPackages \/ PreserveConfig \/ CreateConfig \/ ConfigAccess
             \/ BackupConfig \/ DaemonReload
    <2>1. UNCHANGED <<user, files, config, units>>
      BY <1>4 DEF InstallPackages, PreserveConfig, CreateConfig, ConfigAccess, BackupConfig,
           DaemonReload, Pass, host
    <2>2. \/ pc = "packages" /\ pc' = "user"
          \/ pc = "config" /\ pc' = "config_access" /\ config # "none"
          \/ pc = "config" /\ pc' = "write_config"
          \/ pc = "config_access" /\ pc' = "units"
          \/ pc = "reload" /\ pc' = "enable"
          \/ pc' = "restore_getty"
      BY <1>4 DEF InstallPackages, PreserveConfig, CreateConfig, ConfigAccess, BackupConfig,
           DaemonReload, Pass, Step
    <2>3. QED  BY <2>1, <2>2 DEF InstallDone, InstallSteps
  <1>5. CASE EnsureServiceUser
    BY <1>5 DEF EnsureServiceUser, Step, InstallDone, InstallSteps
  <1>6. CASE RemoveOldTree
    BY <1>6 DEF RemoveOldTree, Step, InstallDone, InstallSteps
  <1>7. CASE InstallRuntimeTree
    BY <1>7 DEF InstallRuntimeTree, Put, Step, InstallDone, InstallSteps
  <1>8. CASE InstallSharedAssets
    BY <1>8 DEF InstallSharedAssets, Put, Step, InstallDone, InstallSteps
  <1>9. CASE WriteConfig
    BY <1>9 DEF WriteConfig, Step, InstallDone, InstallSteps
  <1>10. CASE InstallServiceUnits
    <2>1. units'["relay"].existed
      BY <1>2, <1>10 DEF InstallServiceUnits, TypeOK, UnitState
    <2>2. QED  BY <1>10, <2>1 DEF InstallServiceUnits, Step, InstallDone, InstallSteps
  <1>11. CASE InstallLogindOverride
    BY <1>11 DEF InstallLogindOverride, Put, Step, InstallDone, InstallSteps
  <1>12. CASE ConfigureConflictingUnits
    <2>1. UNCHANGED <<user, files, config, units>>
      BY <1>12 DEF ConfigureConflictingUnits, ConfigureUnit, host
    <2>2. \/ pc = "getty" /\ pc' = "display_manager"
          \/ pc = "display_manager" /\ pc' = "reload"
      BY <1>12 DEF ConfigureConflictingUnits, ConfigureUnit, Step
    <2>3. QED  BY <2>1, <2>2 DEF InstallDone, InstallSteps
  <1>13. CASE EnableServices
    <2>1. units' = Systemctl(units, "enable", "relay")
      BY <1>13 DEF EnableServices
    <2>2. <<"enable", "relay">> \in Verbs \X Units
      BY <1>2 DEF Verbs
    <2>3. units["relay"].existed
      BY <1>13 DEF EnableServices, Step, InstallDone, InstallSteps
    <2>4. units'["relay"].existed /\ units'["relay"].enabled
      BY <1>2, <2>1, <2>2, <2>3, SystemctlEffect DEF Existing
    <2>5. QED  BY <1>13, <2>4 DEF EnableServices, Step, InstallDone, InstallSteps
  <1>14. CASE WriteInstallState \/ Abort \/ TornWrite \/ Install \/ Uninstall
    BY <1>3, <1>14 DEF WriteInstallState, Abort, TornWrite, End, Install, Uninstall, Begin,
         InstallSteps
  <1>15. CASE UninstallStep
    <2>1. pc' \notin InstallSteps
      BY <1>15 DEF UninstallStep, LoadUninstallState, LoadFails, StopServices, RemoveServiceUnits,
           RemoveLogindOverride, RestoreConflictingUnits, RestoreUnit, RemoveRuntimeTree,
           RemoveSharedAssets, RemoveServiceUser, PurgeConfig, RemoveInstallState,
           RemoveServiceHome, Remove, Step, End, InstallSteps
    <2>2. QED  BY <1>3, <2>1
  <1>16. CASE RunOptional
    <2>1. UNCHANGED <<pc, user, files, config>> /\ pc # "record"
      BY <1>16, Called
    <2>2. units'["relay"].existed = units["relay"].existed
      BY <1>2, <1>16, Called, SystemctlEffect
    <2>3. QED  BY <2>1, <2>2 DEF InstallDone
  <1>17. CASE OperatorEdits \/ OperatorStarts \/ Reboot
    BY <1>3, <1>17 DEF OperatorEdits, OperatorStarts, Reboot, InstallSteps
  <1>18. CASE UNCHANGED vars
    BY <1>18 DEF vars, host, InstallDone
  <1>19. QED
    BY <1>4, <1>5, <1>6, <1>7, <1>8, <1>9, <1>10, <1>11, <1>12, <1>13, <1>14, <1>15, <1>16,
       <1>17, <1>18 DEF Next, InstallStep

LEMMA UninstallDoneStep ==
  TypeOK /\ Queue /\ UninstallDone /\ [Next]_vars => UninstallDone'
  <1>1. SUFFICES ASSUME TypeOK, Queue, UninstallDone, [Next]_vars PROVE UninstallDone'
    OBVIOUS
  <1> USE <1>1
  <1> USE DEF NoUnits, NoLogind, GettyBack, BothBack, NoLib, NoShare, NoUser
  <1>2. "relay" \in Units /\ units["relay"] \in UnitState
    BY DEF Units, TypeOK
  <1>3. ASSUME pc' \notin UninstallSteps \/ pc' = "load" PROVE UninstallDone'
    BY <1>3 DEF UninstallDone, UninstallSteps
  <1>4. CASE InstallStep
    <2>1. pc' \notin UninstallSteps
      BY <1>4 DEF InstallStep, InstallPackages, EnsureServiceUser, RemoveOldTree,
         InstallRuntimeTree, InstallSharedAssets, PreserveConfig, CreateConfig, BackupConfig,
         WriteConfig, ConfigAccess, InstallServiceUnits, InstallLogindOverride,
         ConfigureConflictingUnits, ConfigureUnit, EnableServices,
         WriteInstallState, Put, Pass, Step, End, UninstallSteps
    <2>2. QED  BY <1>3, <2>1
  <1>5. CASE \/ Install \/ Uninstall \/ Abort \/ TornWrite \/ LoadFails \/ RemoveServiceHome
             \/ OperatorEdits \/ OperatorStarts \/ Reboot
    BY <1>3, <1>5 DEF Install, Uninstall, Begin, Abort, TornWrite, LoadFails, RemoveServiceHome,
         End, OperatorEdits, OperatorStarts, Reboot, UninstallSteps
  <1>6. CASE LoadUninstallState
    <2>1. run'.loaded = state'
      BY <1>6 DEF LoadUninstallState, host, TypeOK, RunType
    <2>2. pc' = "stop"
      BY <1>6 DEF LoadUninstallState, Step
    <2>3. QED  BY <2>1, <2>2 DEF UninstallDone, UninstallSteps
  <1>7. CASE StopServices \/ RestoreConflictingUnits \/ DaemonReload
    <2>1. UNCHANGED <<user, files, units, state, run>>
      BY <1>7 DEF StopServices, RestoreConflictingUnits, RestoreUnit, DaemonReload, Pass, host
    <2>2. \/ pc = "stop" /\ pc' = "remove_units"
          \/ pc = "restore_getty" /\ pc' = "restore_display_manager"
          \/ pc = "restore_display_manager" /\ pc' = "remove_runtime"
          \/ pc = "reload_removed" /\ pc' = "restore_getty"
          \/ pc' = "enable"
      BY <1>7 DEF StopServices, RestoreConflictingUnits, RestoreUnit, DaemonReload, Pass, Step
    <2>3. QED  BY <2>1, <2>2 DEF UninstallDone, UninstallSteps
  <1>8. CASE RemoveServiceUnits
    <2>1. ~units'["relay"].existed
      BY <1>2, <1>8 DEF RemoveServiceUnits, TypeOK, UnitState
    <2>2. QED  BY <1>8, <2>1 DEF RemoveServiceUnits, Step, UninstallDone, UninstallSteps
  <1>9. CASE RemoveLogindOverride
    BY <1>9 DEF RemoveLogindOverride, Remove, Step, UninstallDone, UninstallSteps
  <1>10. CASE RemoveRuntimeTree
    BY <1>10 DEF RemoveRuntimeTree, Remove, Step, UninstallDone, UninstallSteps
  <1>11. CASE RemoveSharedAssets
    BY <1>11 DEF RemoveSharedAssets, Remove, Step, UninstallDone, UninstallSteps
  <1>12. CASE RemoveServiceUser
    BY <1>12 DEF RemoveServiceUser, Step, UninstallDone, UninstallSteps
  <1>13. CASE PurgeConfig
    BY <1>13 DEF PurgeConfig, Step, UninstallDone, UninstallSteps
  <1>14. CASE RemoveInstallState
    BY <1>14 DEF RemoveInstallState, Step, UninstallDone, UninstallSteps
  <1>15. CASE RunOptional
    <2>1. UNCHANGED <<pc, user, files, state>> /\ run'.loaded = run.loaded
      BY <1>15, Called DEF TypeOK, RunType
    <2>2. units'["relay"].existed = units["relay"].existed
      BY <1>2, <1>15, Called, SystemctlEffect
    <2>3. QED  BY <2>1, <2>2 DEF UninstallDone, Ours
  <1>16. CASE UNCHANGED vars
    BY <1>16 DEF vars, host, UninstallDone
  <1>17. QED
    BY <1>4, <1>5, <1>6, <1>7, <1>8, <1>9, <1>10, <1>11, <1>12, <1>13, <1>14, <1>15, <1>16
       DEF Next, UninstallStep
\* A call that has been queued is made, or the run knows that one was not.
LEMMA TtyClearedStep ==
  TypeOK /\ Queue /\ TtyCleared /\ [Next]_vars => TtyCleared'
  <1>1. SUFFICES ASSUME TypeOK, Queue, TtyCleared, [Next]_vars PROVE TtyCleared'
    OBVIOUS
  <1> USE <1>1
  <1> USE DEF HasUser, HasLib, HasShare, HasConfig, HasUnits, HasLogind, HasGetty, HasBoth
  <1>2. /\ "getty" \in Conflicting /\ "display_manager" \in Conflicting
        /\ Conflicting \subseteq Units /\ "relay" \in Units
    BY DEF Units, Conflicting
  <1>3. ASSUME pc' \notin HasGetty PROVE TtyCleared'
    BY <1>3 DEF TtyCleared
  <1>4. ASSUME todo = <<>>, NEW u, Clearing(u), units'[u].existed = units[u].existed,
               units'[u].masked = units[u].masked
        PROVE  Clearing(u)'
    BY <1>4 DEF Clearing, Pending
  <1>5. ASSUME NEW u \in Conflicting, NEW to, ConfigureUnit(u, to)
        PROVE  Clearing(u)' /\ UNCHANGED units /\ run'.unapplied = run.unapplied /\ todo = <<>>
    <2>1. /\ UNCHANGED units /\ todo = <<>> /\ run'.unapplied = run.unapplied
          /\ todo' = ConfigureCalls(u, Capture(units[u]))
      BY <1>5 DEF ConfigureUnit, Step, host, TypeOK, RunType
    <2>2. units[u] \in UnitState
      BY <1>2 DEF TypeOK
    <2>3. Capture(units[u]) \in UnitRecord
      BY <2>2, CaptureType
    <2>4. units[u].existed /\ ~units[u].masked =>
            Capture(units[u]).existed /\ ~Capture(units[u]).masked_before
      BY DEF Capture
    <2>5. QED  BY <2>1, <2>3, <2>4, ConfigureCallsAre DEF Clearing, Pending
  <1>6. CASE ConfigureUnit("getty", "display_manager")
    <2>1. pc' = "display_manager"
      BY <1>6 DEF ConfigureUnit, Step
    <2>2. QED  BY <1>2, <1>5, <1>6, <2>1 DEF TtyCleared
  <1>7. CASE ConfigureUnit("display_manager", "reload")
    <2>1. pc = "display_manager"
      BY <1>7 DEF ConfigureUnit, Step
    <2>2. run'.unapplied = run.unapplied /\ Clearing("display_manager")'
      BY <1>2, <1>5, <1>7
    <2>3. ~run.unapplied => Clearing("getty")
      BY <2>1 DEF TtyCleared, InstallSteps
    <2>4. ~run.unapplied => Clearing("getty")'
      BY <1>2, <1>4, <1>5, <1>7, <2>3
    <2>5. QED  BY <2>2, <2>4 DEF TtyCleared
  <1>8. CASE DaemonReload \/ EnableServices
    <2>1. /\ todo = <<>> /\ run' = run
          /\ \/ pc = "reload" /\ pc' = "enable"
             \/ pc = "enable" /\ pc' = "record"
             \/ pc' = "restore_getty"
      BY <1>8 DEF DaemonReload, Pass, EnableServices, Step
    <2>2. CASE pc' \in HasGetty
      <3>1. ~run.unapplied => Clearing("getty") /\ Clearing("display_manager")
        BY <2>1, <2>2 DEF TtyCleared, InstallSteps
      <3>2. \A u \in Conflicting : /\ units'[u].existed = units[u].existed
                                   /\ units'[u].masked = units[u].masked
        <4>1. CASE DaemonReload
          BY <4>1 DEF DaemonReload, Pass, host
        <4>2. CASE EnableServices
          <5>1. units' = Systemctl(units, "enable", "relay")
            BY <4>2 DEF EnableServices
          <5>2. <<"enable", "relay">> \in Verbs \X Units
            BY <1>2 DEF Verbs
          <5>3. QED  BY <1>2, <5>1, <5>2, SystemctlEffect
        <4>3. QED  BY <1>8, <4>1, <4>2
      <3>3. ~run.unapplied => Clearing("getty")' /\ Clearing("display_manager")'
        BY <1>2, <1>4, <2>1, <3>1, <3>2
      <3>4. QED  BY <2>1, <3>3 DEF TtyCleared
    <2>3. QED  BY <1>3, <2>2
  <1>9. CASE RunOptional
    <2>1. CASE run' = [run EXCEPT !.unapplied = TRUE]
      BY <2>1 DEF TtyCleared, TypeOK, RunType
    <2>2. CASE UNCHANGED run /\ pc \in HasGetty
      <3>1. /\ units' = Systemctl(units, Head(todo)[1], Head(todo)[2]) \/ UNCHANGED units
            /\ todo # <<>> /\ todo' = Tail(todo) /\ pc' = pc /\ Head(todo) \in Verbs \X Units
        BY <1>9, Called
      <3>2. \A u \in Conflicting : Head(todo) # <<"unmask", u>>
        BY <1>9, <2>2, Called DEF InstallSteps
      <3>3. CASE units' = Systemctl(units, Head(todo)[1], Head(todo)[2])
        <4>1. ASSUME NEW u \in Conflicting, Clearing(u) PROVE Clearing(u)'
          <5>1. /\ units'[u].existed = units[u].existed
                /\ units[u].masked => units'[u].masked
                /\ Head(todo) = <<"mask", u>> => units'[u].masked
            <6>1. u \in Units /\ Head(todo) # <<"unmask", u>>
              BY <1>2, <3>2, <4>1
            <6>2. /\ Head(todo)[1] \in Verbs /\ Head(todo)[2] \in Units
                  /\ Head(todo) = <<Head(todo)[1], Head(todo)[2]>>
              BY <3>1
            <6>3. /\ ~(Head(todo)[1] = "unmask" /\ Head(todo)[2] = u)
                  /\ Head(todo) = <<"mask", u>> => Head(todo)[1] = "mask" /\ Head(todo)[2] = u
              BY <6>1, <6>2
            <6>4. QED  BY <3>3, <6>1, <6>2, <6>3, SystemctlMasks
          <5>2. CASE Head(todo) = <<"mask", u>>
            BY <5>1, <5>2 DEF Clearing
          <5>3. CASE Head(todo) # <<"mask", u>>
            <6>1. Pending("mask", u) => Pending("mask", u)'
              BY <3>1, <5>3, PendingTail
            <6>2. QED  BY <4>1, <5>1, <6>1 DEF Clearing
          <5>4. QED  BY <5>2, <5>3
        <4>2. QED  BY <1>2, <2>2, <3>1, <4>1 DEF TtyCleared
      <3>4. CASE run' = [run EXCEPT !.unapplied = TRUE]
        BY <2>1, <3>4
      <3>5. QED  BY <1>9, <3>3, <3>4, Called
    <2>3. CASE pc \notin HasGetty
      BY <1>3, <1>9, <2>3, Called
    <2>4. QED  BY <1>9, <2>1, <2>2, <2>3, Called
  <1>10. CASE InstallStep /\ ~ConfigureConflictingUnits /\ ~EnableServices
    <2>1. pc' \notin HasGetty
      BY <1>10 DEF InstallStep, InstallPackages, EnsureServiceUser, RemoveOldTree,
         InstallRuntimeTree, InstallSharedAssets, PreserveConfig, CreateConfig, BackupConfig,
         WriteConfig, ConfigAccess, InstallServiceUnits, InstallLogindOverride,
         WriteInstallState, Put, Pass, Step, End, InstallSteps
    <2>2. QED  BY <1>3, <2>1
  <1>11. CASE UninstallStep
    <2>1. pc' \notin InstallSteps
      BY <1>11 DEF UninstallStep, LoadUninstallState, LoadFails, StopServices, RemoveServiceUnits,
           RemoveLogindOverride, RestoreConflictingUnits, RestoreUnit, RemoveRuntimeTree,
           RemoveSharedAssets, RemoveServiceUser, PurgeConfig, RemoveInstallState,
           RemoveServiceHome, Remove, Step, End, InstallSteps
    <2>2. QED  BY <1>3, <2>1
  <1>12. CASE Install \/ Uninstall \/ Abort \/ TornWrite \/ OperatorEdits \/ OperatorStarts \/ Reboot
    BY <1>3, <1>12 DEF Install, Uninstall, Begin, Abort, TornWrite, End, OperatorEdits,
         OperatorStarts, Reboot, InstallSteps
  <1>13. CASE UNCHANGED vars
    BY <1>13 DEF vars, host, TtyCleared, Clearing, Pending
  <1>14. QED
    BY <1>6, <1>7, <1>8, <1>9, <1>10, <1>11, <1>12, <1>13 DEF Next, ConfigureConflictingUnits

LEMMA RelayDownStep ==
  TypeOK /\ Queue /\ RelayDown /\ [Next]_vars => RelayDown'
  <1>1. SUFFICES ASSUME TypeOK, Queue, RelayDown, [Next]_vars PROVE RelayDown'
    OBVIOUS
  <1> USE <1>1
  <1> USE DEF NoUnits
  <1>2. "relay" \in Units /\ units["relay"] \in UnitState
    BY DEF Units, TypeOK
  <1>3. ASSUME pc' \notin UninstallSteps \/ pc' \in {"load", "stop"} PROVE RelayDown'
    BY <1>3 DEF RelayDown, UninstallSteps
  <1>4. CASE StopServices
    <2>1. todo' = <<<<"stop", "relay">>, <<"disable", "relay">>>> /\ pc' = "remove_units"
      BY <1>4 DEF StopServices
    <2>2. todo'[1] = <<"stop", "relay">> /\ todo'[2] = <<"disable", "relay">> /\ Len(todo') = 2
      BY <2>1
    <2>3. Pending("stop", "relay")' /\ Pending("disable", "relay")'
      BY <2>2 DEF Pending
    <2>4. QED  BY <2>1, <2>3 DEF RelayDown
  <1>5. CASE RemoveServiceUnits
    <2>1. pc = "remove_units" /\ pc' = "remove_logind" /\ todo = <<>> /\ UNCHANGED run
      BY <1>5 DEF RemoveServiceUnits, Step
    <2>2. units'["relay"].active = units["relay"].active
          /\ units'["relay"].enabled = units["relay"].enabled
      BY <1>2, <1>5 DEF RemoveServiceUnits, TypeOK, UnitState
    <2>3. QED  BY <2>1, <2>2 DEF RelayDown, Pending
  <1>6. CASE \/ RemoveLogindOverride \/ RestoreConflictingUnits \/ RemoveRuntimeTree
             \/ RemoveSharedAssets \/ RemoveServiceUser \/ PurgeConfig \/ RemoveInstallState
             \/ DaemonReload
    <2>1. UNCHANGED <<units, run>> /\ ((pc \in NoUnits /\ pc' \in NoUnits) \/ pc' = "enable")
      BY <1>6 DEF RemoveLogindOverride, RestoreConflictingUnits, RestoreUnit, RemoveRuntimeTree,
           RemoveSharedAssets, RemoveServiceUser, PurgeConfig, RemoveInstallState, DaemonReload,
           Pass, Remove, Step, host, UninstallSteps
    <2>2. QED  BY <2>1 DEF RelayDown, UninstallSteps
  <1>7. CASE RunOptional
    <2>1. CASE run' = [run EXCEPT !.unapplied = TRUE]
      BY <2>1 DEF RelayDown, TypeOK, RunType
    <2>2. CASE UNCHANGED run /\ units' = Systemctl(units, Head(todo)[1], Head(todo)[2])
      <3>1. /\ todo # <<>> /\ todo' = Tail(todo) /\ pc' = pc /\ Head(todo) \in Verbs \X Units
            /\ Head(todo) # <<"start", "relay">> /\ Head(todo) # <<"enable", "relay">>
        BY <1>7, Called
      <3>2. /\ units'["relay"].active => units["relay"].active /\ Head(todo) # <<"stop", "relay">>
            /\ units'["relay"].enabled =>
                 units["relay"].enabled /\ Head(todo) # <<"disable", "relay">>
        BY <1>2, <2>2, <3>1, SystemctlEffect
      <3>3. \A v \in {"stop", "disable"} :
              Pending(v, "relay") /\ Head(todo) # <<v, "relay">> => Pending(v, "relay")'
        BY <3>1, PendingTail
      <3>4. QED  BY <2>2, <3>1, <3>2, <3>3 DEF RelayDown
    <2>3. QED  BY <1>7, <2>1, <2>2, Called
  <1>8. CASE InstallStep
    <2>1. pc' \notin UninstallSteps
      BY <1>8 DEF InstallStep, InstallPackages, EnsureServiceUser, RemoveOldTree,
         InstallRuntimeTree, InstallSharedAssets, PreserveConfig, CreateConfig, BackupConfig,
         WriteConfig, ConfigAccess, InstallServiceUnits, InstallLogindOverride,
         ConfigureConflictingUnits, ConfigureUnit, EnableServices,
         WriteInstallState, Put, Pass, Step, End, UninstallSteps
    <2>2. QED  BY <1>3, <2>1
  <1>9. CASE \/ Install \/ Uninstall \/ Abort \/ TornWrite \/ LoadUninstallState \/ LoadFails
             \/ RemoveServiceHome \/ OperatorEdits \/ OperatorStarts \/ Reboot
    BY <1>3, <1>9 DEF Install, Uninstall, Begin, Abort, TornWrite, LoadUninstallState, LoadFails,
         RemoveServiceHome, Step, End, OperatorEdits, OperatorStarts, Reboot, UninstallSteps
  <1>10. CASE UNCHANGED vars
    BY <1>10 DEF vars, host, RelayDown, Pending
  <1>11. QED
    BY <1>4, <1>5, <1>6, <1>7, <1>8, <1>9, <1>10 DEF Next, UninstallStep
\* One of the calls that put a unit back, made while the ones before it have
\* been: enable and start find the unit unmasked.
LEMMA RestoreCall ==
  ASSUME TypeOK, todo # <<>>, todo' = Tail(todo), NEW u \in Units,
         Head(todo) \in {"unmask", "enable", "start"} \X {u},
         units' = Systemctl(units, Head(todo)[1], Head(todo)[2]), Unmasking(u)
  PROVE  /\ Unmasking(u)'
         /\ \A r : units[u].existed /\ Restoring(u, r) => Restoring(u, r)'
  <1>1. Head(todo) \in Verbs \X Units /\ Head(todo) = todo[1]
    BY DEF Verbs, TypeOK
  <1>2. /\ Head(todo) = <<"unmask", u>> => ~units'[u].masked
        /\ Head(todo) # <<"unmask", u>> => units'[u].masked = units[u].masked
        /\ units[u].enabled => units'[u].enabled
        /\ Head(todo) = <<"enable", u>> /\ units[u].existed /\ ~units[u].masked =>
             units'[u].enabled
        /\ units[u].active => units'[u].active
        /\ Head(todo) = <<"start", u>> /\ units[u].existed /\ ~units[u].masked =>
             units'[u].active
    <2>1. PICK verb \in {"unmask", "enable", "start"} : Head(todo) = <<verb, u>>
      OBVIOUS
    <2>2. Head(todo)[2] = u /\ ~Excludes(u, u)
      BY <2>1 DEF Excludes
    <2>3. \A w \in {"disable_now", "disable", "stop", "mask"} : Head(todo) # <<w, u>>
      BY <2>1
    <2>4. QED  BY <1>1, <2>2, <2>3, SystemctlEffect
  <1>3. ~units'[u].masked /\ (Head(todo) # <<"unmask", u>> => ~units[u].masked)
    BY <1>1, <1>2 DEF Unmasking
  <1>4. Unmasking(u)'
    BY <1>3 DEF Unmasking
  <1>5. \A v \in {"enable", "start"} :
          Pending(v, u) /\ Head(todo) # <<v, u>> => Pending(v, u)'
    BY PendingTail
  <1>6. ASSUME NEW r, units[u].existed, Restoring(u, r) PROVE Restoring(u, r)'
    <2>1. CASE Head(todo) # <<"unmask", u>>
      <3>1. ~units[u].masked
        BY <1>3, <2>1
      <3>2. QED  BY <1>2, <1>5, <1>6, <3>1 DEF Restoring
    <2>2. CASE Head(todo) = <<"unmask", u>>
      <3>1. Head(todo) # <<"enable", u>> /\ Head(todo) # <<"start", u>>
        BY <2>2
      <3>2. QED  BY <1>2, <1>5, <1>6, <3>1 DEF Restoring
    <2>3. QED  BY <2>1, <2>2
  <1>7. QED  BY <1>4, <1>6

\* A unit that is back, and that no queued call is about.
LEMMA RestoredKept ==
  ASSUME NEW u, \A i \in 1 .. Len(todo) : todo[i][2] # u, Unmasking(u),
         ~units'[u].masked \/ units'[u].masked = units[u].masked,
         units[u].enabled => units'[u].enabled, units[u].active => units'[u].active,
         units'[u].existed = units[u].existed, todo = <<>> \/ 1 \in 1 .. Len(todo)
  PROVE  /\ Unmasking(u)'
         /\ \A r : Restoring(u, r) => Restoring(u, r)'
  <1>1. ~units[u].masked
    BY DEF Unmasking
  <1>2. \A v : ~Pending(v, u)
    BY DEF Pending
  <1>3. QED  BY <1>1, <1>2 DEF Unmasking, Restoring

LEMMA PuttingBackStep ==
  TypeOK /\ Queue /\ PuttingBack /\ [Next]_vars => PuttingBack'
  <1>1. SUFFICES ASSUME TypeOK, Queue, PuttingBack, [Next]_vars PROVE PuttingBack'
    OBVIOUS
  <1> USE <1>1
  <1> USE DEF NoUnits, NoLogind, GettyBack, BothBack, NoLib, NoShare, NoUser
  <1> DEFINE D == "display_manager"
             G == "getty"
  <1>2. G \in Units /\ D \in Units /\ units[G] \in UnitState /\ units[D] \in UnitState
    BY DEF Units, Conflicting, TypeOK
  <1>3. ASSUME pc' \notin GettyBack PROVE PuttingBack'
    BY <1>3 DEF PuttingBack
  <1>4. run.loaded \in InstallState
    BY DEF TypeOK, RunType
  <1>5. CASE RestoreUnit("restore_getty", "restore_display_manager", GettyCalls(run.loaded))
    <2>1. /\ UNCHANGED <<units, run>> /\ todo' = GettyCalls(run.loaded)
          /\ pc' = "restore_display_manager"
      BY <1>5 DEF RestoreUnit, host
    <2>2. /\ todo' # <<>> /\ todo'[1] = <<"unmask", G>> /\ Pending("start", G)'
          /\ run.loaded.units[G].enabled_before => Pending("enable", G)'
      BY <1>4, <2>1, GettyCallsAre DEF Pending
    <2>3. Unmasking(G)' /\ Restoring(G, run.loaded.units[G])'
      BY <2>1, <2>2 DEF Unmasking, Restoring
    <2>4. QED  BY <2>1, <2>3 DEF PuttingBack
  <1>6. CASE RestoreUnit("restore_display_manager", "remove_runtime", DisplayManagerCalls(run.loaded))
    <2>1. /\ UNCHANGED <<units, run>> /\ todo' = DisplayManagerCalls(run.loaded) /\ todo = <<>>
          /\ pc = "restore_display_manager" /\ pc' = "remove_runtime"
      BY <1>6 DEF RestoreUnit, host
    <2>2. ~run.unapplied => /\ Unmasking(G)
                            /\ units[G].existed => Restoring(G, run.loaded.units[G])
      BY <2>1 DEF PuttingBack, UninstallSteps
    <2>3. ~run.unapplied => /\ Unmasking(G)'
                            /\ units[G].existed => Restoring(G, run.loaded.units[G])'
      BY <2>1, <2>2, RestoredKept
    <2>4. Evident(run.loaded) =>
            /\ todo' # <<>> /\ todo'[1] = <<"unmask", D>>
            /\ run.loaded.units[D].enabled_before => Pending("enable", D)'
            /\ run.loaded.units[D].active_before => Pending("start", D)'
      BY <1>4, <2>1, DisplayManagerCallsAre DEF Pending
    <2>5. Evident(run.loaded) => Unmasking(D)' /\ Restoring(D, run.loaded.units[D])'
      BY <2>1, <2>4 DEF Unmasking, Restoring
    <2>6. QED  BY <2>1, <2>3, <2>5 DEF PuttingBack, Evident
  <1>7. CASE \/ RemoveRuntimeTree \/ RemoveSharedAssets \/ RemoveServiceUser \/ PurgeConfig
             \/ RemoveInstallState
    <2>1. UNCHANGED <<units, run, todo>> /\ pc \in BothBack /\ pc' \in BothBack
      BY <1>7 DEF RemoveRuntimeTree, RemoveSharedAssets, RemoveServiceUser, PurgeConfig,
           RemoveInstallState, Remove, Step, UninstallSteps
    <2>2. QED  BY <2>1 DEF PuttingBack, Unmasking, Restoring, Pending, Evident
  <1>8. CASE RunOptional
    <2>1. CASE run' = [run EXCEPT !.unapplied = TRUE]
      BY <2>1 DEF PuttingBack, TypeOK, RunType
    <2>2. CASE pc \notin GettyBack
      BY <1>3, <1>8, <2>2, Called
    <2>3. CASE /\ UNCHANGED run /\ units' = Systemctl(units, Head(todo)[1], Head(todo)[2])
               /\ pc \in GettyBack /\ ~run.unapplied
      <3>1. /\ todo # <<>> /\ todo' = Tail(todo) /\ pc' = pc /\ Head(todo) \in Verbs \X Units
            /\ \/ /\ pc = "restore_display_manager"
                  /\ Head(todo) \in {"unmask", "enable", "start"} \X {G}
               \/ /\ pc = "remove_runtime"
                  /\ Head(todo) \in {"unmask", "enable", "start"} \X {D}
        BY <1>8, <2>3, Called DEF UninstallSteps
      <3>2. Unmasking(G) /\ (units[G].existed => Restoring(G, run.loaded.units[G]))
        BY <2>3 DEF PuttingBack
      <3>3. units'[G].existed = units[G].existed /\ units'[D].existed = units[D].existed
        <4>1. Head(todo)[1] \in Verbs /\ Head(todo)[2] \in Units
          BY <3>1
        <4>2. QED  BY <1>2, <2>3, <4>1, SystemctlMasks
      <3>4. CASE pc = "restore_display_manager"
        <4>1. Unmasking(G)' /\ (units[G].existed => Restoring(G, run.loaded.units[G])')
          <5>1. Head(todo) \in {"unmask", "enable", "start"} \X {G} /\ G \in Units
            BY <1>2, <3>1, <3>4
          <5>2. QED  BY <1>2, <2>3, <3>1, <3>2, <5>1, RestoreCall
        <4>2. QED  BY <2>3, <3>1, <3>3, <3>4, <4>1 DEF PuttingBack
      <3>5. CASE pc = "remove_runtime"
        <4>1. \A i \in 1 .. Len(todo) : todo[i][2] # G
          BY <3>5 DEF Queue, Only
        <4>2. /\ units'[G].masked = units[G].masked /\ (units[G].enabled => units'[G].enabled)
              /\ units[G].active => units'[G].active
          <5>1. Head(todo)[2] = D /\ ~Excludes(D, G)
            BY <3>1, <3>5 DEF Excludes
          <5>2. \A w \in Verbs : Head(todo) # <<w, G>>
            BY <5>1
          <5>3. \A w \in {"disable_now", "disable", "stop", "mask", "unmask", "enable", "start"} :
                  Head(todo) # <<w, G>>
            BY <5>2 DEF Verbs
          <5> HIDE DEF G, D
          <5>4. QED  BY <1>2, <2>3, <3>1, <5>1, <5>3, SystemctlEffect
        <4>3. 1 \in 1 .. Len(todo)
          BY <3>1 DEF TypeOK
        <4>4. Unmasking(G)' /\ (units[G].existed => Restoring(G, run.loaded.units[G])')
          <5> HIDE DEF G
          <5>1. Unmasking(G)' /\ \A r : Restoring(G, r) => Restoring(G, r)'
            BY <3>2, <3>3, <4>1, <4>2, <4>3, RestoredKept
          <5>2. QED  BY <2>3, <3>2, <5>1
        <4>5. ASSUME Evident(run.loaded)
              PROVE  Unmasking(D)' /\ (units[D].existed => Restoring(D, run.loaded.units[D])')
          <5>1. Unmasking(D) /\ (units[D].existed => Restoring(D, run.loaded.units[D]))
            BY <2>3, <3>5, <4>5 DEF PuttingBack, UninstallSteps
          <5>2. QED  BY <1>2, <2>3, <3>1, <3>5, <5>1, RestoreCall
        <4>6. QED  BY <2>3, <3>1, <3>3, <3>5, <4>4, <4>5 DEF PuttingBack, Evident
      <3>6. QED  BY <3>1, <3>4, <3>5
    <2>4. CASE UNCHANGED run /\ run.unapplied
      BY <2>4 DEF PuttingBack
    <2>5. QED  BY <1>8, <2>1, <2>2, <2>3, <2>4, Called
  <1>9. CASE InstallStep
    <2>1. pc' \notin UninstallSteps
      BY <1>9 DEF InstallStep, InstallPackages, EnsureServiceUser, RemoveOldTree,
         InstallRuntimeTree, InstallSharedAssets, PreserveConfig, CreateConfig, BackupConfig,
         WriteConfig, ConfigAccess, InstallServiceUnits, InstallLogindOverride,
         ConfigureConflictingUnits, ConfigureUnit, EnableServices,
         WriteInstallState, Put, Pass, Step, End, UninstallSteps
    <2>2. QED  BY <1>3, <2>1
  <1>10. CASE \/ Install \/ Uninstall \/ Abort \/ TornWrite \/ LoadUninstallState \/ LoadFails
              \/ StopServices \/ RemoveServiceUnits \/ RemoveLogindOverride \/ DaemonReload
              \/ RemoveServiceHome \/ OperatorEdits \/ OperatorStarts \/ Reboot
    <2>1. pc' \notin GettyBack
      BY <1>10 DEF Install, Uninstall, Begin, Abort, TornWrite, LoadUninstallState, LoadFails,
         StopServices, RemoveServiceUnits, RemoveLogindOverride, Remove, DaemonReload, Pass,
         RemoveServiceHome, Step, End, OperatorEdits, OperatorStarts, Reboot, UninstallSteps
    <2>2. QED  BY <1>3, <2>1
  <1>11. CASE UNCHANGED vars
    BY <1>11 DEF vars, host, PuttingBack, Unmasking, Restoring, Pending, Evident
  <1>12. QED
    BY <1>5, <1>6, <1>7, <1>8, <1>9, <1>10, <1>11
       DEF Next, UninstallStep, RestoreConflictingUnits
-----------------------------------------------------------------------------
(* What the records vouch for. *)

LEMMA StillStep ==
  ASSUME TypeOK, Queue, Existing, LeftAlone, [Next]_vars
  PROVE  Still'
  <1> DEFINE D == "display_manager"
  <1>1. D \in Units /\ "relay" \in Units /\ units[D] \in UnitState /\ D \in Conflicting /\ D # "relay"
    BY DEF Units, Conflicting, TypeOK
  <1>2. UNCHANGED origin
    BY DEF Next, Install, Uninstall, Begin, InstallStep, InstallPackages, EnsureServiceUser,
       RemoveOldTree, InstallRuntimeTree, InstallSharedAssets, PreserveConfig, CreateConfig,
       BackupConfig, WriteConfig, ConfigAccess, InstallServiceUnits, InstallLogindOverride,
       ConfigureConflictingUnits, ConfigureUnit, EnableServices, WriteInstallState, Put,
       UninstallStep, LoadUninstallState, LoadFails, StopServices, RemoveServiceUnits,
       RemoveLogindOverride, RestoreConflictingUnits, RestoreUnit, RemoveRuntimeTree,
       RemoveSharedAssets, RemoveServiceUser, PurgeConfig, RemoveInstallState,
       RemoveServiceHome, Remove, DaemonReload, Pass, RunOptional, Abort, TornWrite,
       OperatorEdits, OperatorStarts, Reboot, vars, history
  <1>3. SUFFICES ASSUME Fixed
                 PROVE  /\ units'[D].enabled = units[D].enabled /\ units'[D].masked = units[D].masked
                        /\ units'[D].active => units[D].active
    BY <1>2 DEF LeftAlone, Still, Fixed, Before
  <1>4. ~units[D].active /\ (units[D].masked \/ ~units[D].existed)
    BY <1>1, <1>3 DEF LeftAlone, Still, Fixed, Before, Existing
  <1>5. ASSUME NEW call \in Verbs \X Units, units' = Systemctl(units, call[1], call[2]), call[2] # D
        PROVE  /\ units'[D].enabled = units[D].enabled /\ units'[D].masked = units[D].masked
               /\ units'[D].active => units[D].active
    BY <1>1, <1>5, OtherUnit
  <1>6. CASE RunOptional
    <2>1. Head(todo) = todo[1] /\ 1 \in 1 .. Len(todo)
      BY <1>6 DEF RunOptional, TypeOK
    <2>2. Head(todo)[2] # D
      BY <1>3, <2>1 DEF LeftAlone, Uncalled
    <2>3. QED  BY <1>5, <1>6, <2>2, Called
  <1>7. CASE EnableServices \/ OperatorStarts
    <2>1. PICK verb \in {"enable", "start"} : units' = Systemctl(units, verb, "relay")
      BY <1>7 DEF EnableServices, OperatorStarts
    <2>2. <<verb, "relay">> \in Verbs \X Units /\ <<verb, "relay">>[1] = verb
          /\ <<verb, "relay">>[2] = "relay"
      BY <1>1 DEF Verbs
    <2>3. QED  BY <1>1, <1>5, <2>1, <2>2
  <1>8. CASE InstallServiceUnits \/ RemoveServiceUnits
    BY <1>1, <1>8 DEF InstallServiceUnits, RemoveServiceUnits, TypeOK
  <1>9. CASE Reboot
    <2>1. PICK up \in SUBSET {u \in Units : Wanted(u)} :
            units' = [u \in Units |-> [units[u] EXCEPT !.active = u \in up]]
      BY <1>9 DEF Reboot
    <2>2. D \notin up
      BY <1>4, <2>1 DEF Wanted
    <2>3. QED  BY <1>1, <2>1, <2>2 DEF UnitState
  <1>10. CASE UNCHANGED units
    BY <1>10
  <1>11. CASE InstallStep /\ ~InstallServiceUnits /\ ~EnableServices
    BY <1>10, <1>11 DEF InstallStep, InstallPackages, EnsureServiceUser, RemoveOldTree,
         InstallRuntimeTree, InstallSharedAssets, PreserveConfig, CreateConfig, BackupConfig,
         WriteConfig, ConfigAccess, InstallLogindOverride, ConfigureConflictingUnits,
         ConfigureUnit, WriteInstallState, Put, Pass, host
  <1>12. CASE UninstallStep /\ ~RemoveServiceUnits
    BY <1>10, <1>12 DEF UninstallStep, LoadUninstallState, LoadFails, StopServices,
         RemoveLogindOverride, RestoreConflictingUnits, RestoreUnit, RemoveRuntimeTree,
         RemoveSharedAssets, RemoveServiceUser, PurgeConfig, RemoveInstallState,
         RemoveServiceHome, Remove, host
  <1>13. CASE \/ Install \/ Uninstall \/ DaemonReload \/ Abort \/ TornWrite \/ OperatorEdits
              \/ UNCHANGED vars
    BY <1>10, <1>13 DEF Install, Uninstall, Begin, DaemonReload, Pass, Abort, TornWrite,
         OperatorEdits, vars, host
  <1>14. QED  BY <1>6, <1>7, <1>8, <1>9, <1>11, <1>12, <1>13 DEF Next

\* A display manager in that state gives the installer nothing to do.
LEMMA CaptureFixed ==
  ASSUME TypeOK, Existing, Still, Fixed, NEW r, r = Capture(units["display_manager"])
  PROVE  ~r.enabled_before /\ ~r.active_before /\ ~(r.existed /\ ~r.masked_before)
  <1>1. ~units["display_manager"].active
        /\ (units["display_manager"].masked \/ ~units["display_manager"].existed)
    BY DEF Still, Fixed, Before, Existing, Conflicting
  <1>2. CASE ~units["display_manager"].existed
    BY <1>2 DEF Capture, NoRecord
  <1>3. CASE units["display_manager"].existed
    BY <1>1, <1>3 DEF Capture
  <1>4. QED  BY <1>2, <1>3

LEMMA ClaimsStep ==
  ASSUME TypeOK, Queue, Existing, LeftAlone, [Next]_vars
  PROVE  Unclaimed' /\ Uncalled'
  <1> DEFINE D == "display_manager"
  <1>1. Still /\ Unclaimed /\ Uncalled
    BY DEF LeftAlone
  <1>2. ~NoState.units[D].changed_by_installer
    BY DEF NoState, NoRecord, Conflicting
  <1>3. ASSUME UNCHANGED origin, run'.captured[D] = run.captured[D], run'.loaded = run.loaded,
               \/ UNCHANGED state
               \/ state'.units = NoState.units
               \/ state'.units = run.captured
        PROVE  Unclaimed'
    BY <1>1, <1>2, <1>3 DEF Unclaimed, Fixed, Before
  <1>4. ASSUME UNCHANGED origin, \/ todo' \in {todo, <<>>}
                                 \/ \E u, verbs : u # D /\ Only(todo', u, verbs)
        PROVE  Uncalled'
    BY <1>1, <1>4 DEF Uncalled, Fixed, Before, Only
  <1>5. CASE Install \/ Uninstall
    <2>1. UNCHANGED <<origin, state, todo>> /\ run'.captured = NoState.units /\ run'.loaded = NoState
      BY <1>5 DEF Install, Uninstall, Begin, NoRun, host, history
    <2>2. Unclaimed'
      BY <1>1, <1>2, <2>1 DEF Unclaimed, Fixed, Before
    <2>3. QED  BY <1>4, <2>1, <2>2
  <1>6. CASE ConfigureUnit("getty", "display_manager")
    <2>1. /\ UNCHANGED <<origin, state>> /\ todo' = ConfigureCalls("getty", Capture(units["getty"]))
          /\ run'.loaded = run.loaded /\ run'.captured[D] = run.captured[D]
      BY <1>6 DEF ConfigureUnit, host, history, TypeOK, RunType, Conflicting
    <2>2. Capture(units["getty"]) \in UnitRecord /\ "getty" \in Conflicting
      BY CaptureType DEF TypeOK, Units, Conflicting
    <2>3. Only(todo', "getty", {"disable_now", "mask"})
      BY <2>1, <2>2, ConfigureCallsAre
    <2>4. QED  BY <1>3, <1>4, <2>1, <2>3
  <1>7. CASE ConfigureUnit("display_manager", "reload")
    <2> DEFINE r == Capture(units[D])
               b == r.enabled_before \/ r.active_before \/ (r.existed /\ ~r.masked_before)
               q == [r EXCEPT !.changed_by_installer = b]
    <2>1. /\ UNCHANGED <<origin, state>> /\ todo' = ConfigureCalls(D, r)
          /\ run' = [run EXCEPT !.captured[D] = q]
      BY <1>7 DEF ConfigureUnit, host, history
    <2>2. r \in UnitRecord /\ D \in Conflicting
      BY CaptureType DEF TypeOK, Units, Conflicting
    <2>3. Fixed => ~r.enabled_before /\ ~r.active_before /\ ~(r.existed /\ ~r.masked_before)
      BY <1>1, CaptureFixed
    <2>4. q.changed_by_installer = b
      BY <2>2 DEF UnitRecord
    <2> HIDE DEF q, r
    <2>5. run'.captured[D] = q /\ run'.loaded = run.loaded
      BY <2>1, <2>2 DEF TypeOK, RunType
    <2>6. Unclaimed'
      BY <1>1, <2>1, <2>3, <2>4, <2>5 DEF Unclaimed, Fixed, Before
    <2>7. Fixed => todo' = <<>>
      BY <2>1, <2>2, <2>3, ConfigureCallsAre
    <2>8. QED  BY <2>1, <2>6, <2>7 DEF Uncalled, Fixed, Before
  <1>8. CASE LoadUninstallState
    <2>1. /\ UNCHANGED <<origin, state, todo>> /\ run'.loaded = state
          /\ run'.captured = run.captured
      BY <1>8 DEF LoadUninstallState, host, history, TypeOK, RunType
    <2>2. Unclaimed'
      BY <1>1, <2>1 DEF Unclaimed, Fixed, Before
    <2>3. QED  BY <1>4, <2>1, <2>2
  <1>9. CASE StopServices \/ RestoreConflictingUnits
    <2>1. /\ UNCHANGED <<origin, state, run>>
          /\ \/ todo' = <<<<"stop", "relay">>, <<"disable", "relay">>>>
             \/ todo' = GettyCalls(run.loaded)
             \/ todo' = DisplayManagerCalls(run.loaded)
      BY <1>9 DEF StopServices, RestoreConflictingUnits, RestoreUnit, host, history
    <2>2. run.loaded \in InstallState
      BY DEF TypeOK, RunType
    <2>3. CASE todo' = <<<<"stop", "relay">>, <<"disable", "relay">>>>
      <3>1. Only(todo', "relay", {"stop", "disable"})
        BY <2>3 DEF Only
      <3>2. QED  BY <1>3, <1>4, <2>1, <3>1
    <2>4. CASE todo' = GettyCalls(run.loaded)
      BY <1>3, <1>4, <2>1, <2>2, <2>4, GettyCallsAre
    <2>5. CASE todo' = DisplayManagerCalls(run.loaded)
      <3>1. Fixed => todo' = <<>>
        BY <1>1, <2>2, <2>5, DisplayManagerCallsAre DEF Unclaimed
      <3>2. Uncalled'
        BY <2>1, <3>1 DEF Uncalled, Fixed, Before
      <3>3. QED  BY <1>3, <2>1, <3>2
    <2>6. QED  BY <2>1, <2>3, <2>4, <2>5
  <1>10. CASE RunOptional
    <2>1. /\ UNCHANGED <<origin, state>> /\ todo # <<>> /\ todo' = Tail(todo)
          /\ run'.captured = run.captured /\ run'.loaded = run.loaded
      BY <1>10, Called DEF TypeOK, RunType
    <2>2. \A i \in 1 .. Len(Tail(todo)) : Tail(todo)[i] = todo[i + 1] /\ i + 1 \in 1 .. Len(todo)
      BY <2>1 DEF TypeOK
    <2>3. Uncalled'
      BY <1>1, <2>1, <2>2 DEF Uncalled, Fixed, Before
    <2>4. QED  BY <1>3, <2>1, <2>3
  <1>11. CASE InstallStep /\ ~ConfigureConflictingUnits
    <2>1. UNCHANGED origin /\ todo' \in {todo, <<>>}
      BY <1>11 DEF InstallStep, InstallPackages, EnsureServiceUser, RemoveOldTree,
         InstallRuntimeTree, InstallSharedAssets, PreserveConfig, CreateConfig, BackupConfig,
         WriteConfig, ConfigAccess, InstallServiceUnits, InstallLogindOverride, EnableServices,
         WriteInstallState, Put, Pass, End, history
    <2>2. run'.captured = run.captured /\ run'.loaded = run.loaded
      <3>1. CASE EnsureServiceUser \/ BackupConfig
        BY <3>1 DEF EnsureServiceUser, BackupConfig, TypeOK, RunType
      <3>2. CASE ~EnsureServiceUser /\ ~BackupConfig
        BY <1>11, <3>2 DEF InstallStep, InstallPackages, RemoveOldTree, InstallRuntimeTree,
           InstallSharedAssets, PreserveConfig, CreateConfig, WriteConfig, ConfigAccess,
           InstallServiceUnits, InstallLogindOverride, EnableServices, WriteInstallState, Put, Pass
      <3>3. QED  BY <3>1, <3>2
    <2>3. UNCHANGED state \/ state'.units = run.captured
      <3>1. CASE WriteInstallState
        BY <3>1 DEF WriteInstallState
      <3>2. CASE ~WriteInstallState
        BY <1>11, <3>2 DEF InstallStep, InstallPackages, EnsureServiceUser, RemoveOldTree,
           InstallRuntimeTree, InstallSharedAssets, PreserveConfig, CreateConfig, BackupConfig,
           WriteConfig, ConfigAccess, InstallServiceUnits, InstallLogindOverride, EnableServices,
           Put, Pass, host
      <3>3. QED  BY <3>1, <3>2
    <2>4. QED  BY <1>3, <1>4, <2>1, <2>2, <2>3
  <1>12. CASE \/ LoadFails \/ RemoveServiceUnits \/ RemoveLogindOverride \/ RemoveRuntimeTree
              \/ RemoveSharedAssets \/ RemoveServiceUser \/ PurgeConfig \/ RemoveInstallState
              \/ RemoveServiceHome \/ DaemonReload \/ Abort \/ TornWrite \/ OperatorEdits
              \/ OperatorStarts \/ Reboot \/ UNCHANGED vars
    <2>1. UNCHANGED <<origin, run>> /\ todo' \in {todo, <<>>}
          /\ (UNCHANGED state \/ state'.units = NoState.units)
      BY <1>12 DEF LoadFails, RemoveServiceUnits, RemoveLogindOverride, RemoveRuntimeTree,
           RemoveSharedAssets, RemoveServiceUser, PurgeConfig, RemoveInstallState,
           RemoveServiceHome, Remove, DaemonReload, Pass, Abort, TornWrite, End, OperatorEdits,
           OperatorStarts, Reboot, vars, host, history, NoState
    <2>2. QED  BY <1>3, <1>4, <2>1
  <1>13. QED
    BY <1>5, <1>6, <1>7, <1>8, <1>9, <1>10, <1>11, <1>12
       DEF Next, UninstallStep, ConfigureConflictingUnits
LEMMA LoginOffStep ==
  TypeOK /\ Queue /\ UninstallDone /\ LoginOff /\ [Next]_vars => LoginOff'
  <1>1. SUFFICES ASSUME TypeOK, Queue, UninstallDone, LoginOff, [Next]_vars PROVE LoginOff'
    OBVIOUS
  <1> USE <1>1
  <1> DEFINE G == "getty"
             Untold == ~(pc = "restore_display_manager" /\ Pending("enable", G))
  <1>2. G \in Units /\ "relay" \in Units /\ G # "relay" /\ G \in Conflicting /\ units[G] \in UnitState
    BY DEF Units, Conflicting, TypeOK
  <1>3. LoginRecords => ~units[G].enabled
    BY DEF LoginOff
  <1>4. ASSUME LoginRecords' => LoginRecords, units'[G].enabled = units[G].enabled, Untold'
        PROVE  LoginOff'
    BY <1>3, <1>4 DEF LoginOff
  <1>5. /\ pc \in HasGetty => pc \in {"display_manager", "reload", "enable", "record"}
        /\ pc' \in HasGetty => pc' \in {"display_manager", "reload", "enable", "record"}
        /\ "record" \in HasGetty /\ "display_manager" \in HasGetty /\ "reload" \in HasGetty
        /\ "enable" \in HasGetty
    BY DEF HasUser, HasLib, HasShare, HasConfig, HasUnits, HasLogind, HasGetty, InstallSteps
  <1>6. CASE Install \/ Uninstall
    <2>1. UNCHANGED <<units, state>> /\ pc' \in {"packages", "load"}
      BY <1>6 DEF Install, Uninstall, Begin, host
    <2>2. run'.loaded = NoState
      BY <1>6 DEF Install, Uninstall, Begin, NoRun
    <2>3. run'.loaded.kind # "written"
      BY <2>2 DEF NoState
    <2>4. QED  BY <1>4, <1>5, <2>1, <2>3 DEF LoginRecords
  <1>7. CASE ConfigureUnit("getty", "display_manager")
    <2> DEFINE r == Capture(units[G])
               b == r.enabled_before \/ r.active_before \/ (r.existed /\ ~r.masked_before)
               q == [r EXCEPT !.changed_by_installer = b]
    <2>1. UNCHANGED <<units, state>> /\ pc' = "display_manager" /\ run' = [run EXCEPT !.captured[G] = q]
      BY <1>7 DEF ConfigureUnit, Step, host
    <2>2. r \in UnitRecord
      BY <1>2, CaptureType
    <2>3. Off(r) => ~units[G].enabled
      BY <1>2 DEF Off, Capture, NoRecord, UnitState
    <2>4. Off(q) => Off(r)
      BY <2>2 DEF Off, UnitRecord
    <2> HIDE DEF r, q
    <2>5. run'.captured[G] = q
      BY <1>2, <2>1 DEF TypeOK, RunType
    <2>6. LoginRecords' => LoginRecords \/ Off(q)
      BY <2>1, <2>5 DEF LoginRecords, UninstallSteps
    <2>7. QED  BY <1>3, <2>1, <2>3, <2>4, <2>6 DEF LoginOff
  <1>8. CASE ConfigureUnit("display_manager", "reload")
    <2>1. /\ UNCHANGED <<units, state>> /\ pc = "display_manager" /\ pc' = "reload"
          /\ run'.captured[G] = run.captured[G]
      BY <1>2, <1>8 DEF ConfigureUnit, Step, host, TypeOK, RunType, Conflicting
    <2>2. QED  BY <1>4, <1>5, <2>1 DEF LoginRecords, UninstallSteps
  <1>9. CASE WriteInstallState
    <2>1. /\ UNCHANGED <<units, run>> /\ pc = "record" /\ pc' = "idle"
          /\ state'.units = run.captured
      BY <1>9 DEF WriteInstallState, End
    <2>2. QED  BY <1>4, <1>5, <2>1 DEF LoginRecords, UninstallSteps
  <1>10. CASE EnableServices \/ OperatorStarts
    <2>1. /\ UNCHANGED <<run, state>>
          /\ \/ pc = "idle" /\ pc' = "idle"
             \/ pc = "enable" /\ pc' = "record"
      <3>1. CASE EnableServices
        BY <3>1 DEF EnableServices, Step
      <3>2. CASE OperatorStarts
        BY <3>2 DEF OperatorStarts
      <3>3. QED  BY <1>10, <3>1, <3>2
    <2>2. PICK verb \in {"enable", "start"} : units' = Systemctl(units, verb, "relay")
      BY <1>10 DEF EnableServices, OperatorStarts
    <2>3. <<verb, "relay">> \in Verbs \X Units /\ <<verb, "relay">>[1] = verb
          /\ <<verb, "relay">>[2] = "relay"
      BY <1>2 DEF Verbs
    <2>4. units'[G].enabled = units[G].enabled
      BY <1>2, <2>2, <2>3, OtherUnit
    <2>5. QED  BY <1>4, <1>5, <2>1, <2>4 DEF LoginRecords, UninstallSteps
  <1>11. CASE InstallServiceUnits \/ RemoveServiceUnits
    <2>1. /\ UNCHANGED <<run, state>> /\ pc' \in {"logind", "remove_logind"}
          /\ pc' = "remove_logind" => pc = "remove_units"
      BY <1>11 DEF InstallServiceUnits, RemoveServiceUnits, Step
    <2>2. units'[G] = units[G]
      BY <1>2, <1>11 DEF InstallServiceUnits, RemoveServiceUnits, TypeOK
    <2>3. QED  BY <1>4, <1>5, <2>1, <2>2 DEF LoginRecords, UninstallSteps
  <1>12. CASE Reboot
    <2>1. UNCHANGED <<run, state, pc>> /\ pc = "idle"
      BY <1>12 DEF Reboot
    <2>2. units'[G].enabled = units[G].enabled
      BY <1>2, <1>12 DEF Reboot, UnitState
    <2>3. QED  BY <1>4, <2>1, <2>2 DEF LoginRecords
  <1>13. CASE \/ InstallPackages \/ EnsureServiceUser \/ RemoveOldTree \/ InstallRuntimeTree
              \/ InstallSharedAssets \/ PreserveConfig \/ CreateConfig \/ BackupConfig
              \/ WriteConfig \/ ConfigAccess \/ InstallLogindOverride
    <2>1. UNCHANGED <<units, state>> /\ pc' \in InstallSteps \ HasGetty
      BY <1>13 DEF InstallPackages, EnsureServiceUser, RemoveOldTree, InstallRuntimeTree,
         InstallSharedAssets, PreserveConfig, CreateConfig, BackupConfig, WriteConfig,
         ConfigAccess, InstallLogindOverride, Put, Pass, Step, host, InstallSteps, HasUser,
         HasLib, HasShare, HasConfig, HasUnits, HasLogind, HasGetty
    <2>2. pc' \notin UninstallSteps /\ pc' # "restore_display_manager"
      BY <2>1 DEF InstallSteps, UninstallSteps
    <2>3. QED  BY <1>4, <2>1, <2>2 DEF LoginRecords
  <1>14. CASE LoadUninstallState
    <2>1. /\ UNCHANGED <<units, state>> /\ pc' = "stop" /\ run'.loaded = state
      BY <1>14 DEF LoadUninstallState, Step, host, TypeOK, RunType
    <2>2. QED  BY <1>4, <1>5, <2>1 DEF LoginRecords
  <1>15. CASE RestoreConflictingUnits
    <2>1. /\ UNCHANGED <<units, state, run>> /\ pc \in UninstallSteps /\ pc' \in UninstallSteps
          /\ \/ pc' = "restore_display_manager" /\ todo' = GettyCalls(run.loaded)
             \/ pc' = "remove_runtime"
      BY <1>15 DEF RestoreConflictingUnits, RestoreUnit, host, UninstallSteps
    <2>2. run.loaded \in InstallState
      BY DEF TypeOK, RunType
    <2>3. pc' = "restore_display_manager" /\ Pending("enable", G)' =>
            run'.loaded.kind = "absent" \/ run'.loaded.units[G].enabled_before
      BY <2>1, <2>2, GettyCallsAre DEF Pending
    <2>4. LoginRecords' => LoginRecords
      BY <1>5, <2>1 DEF LoginRecords
    <2>5. QED  BY <1>3, <2>1, <2>3, <2>4 DEF LoginOff
  <1>16. CASE \/ StopServices \/ RemoveLogindOverride \/ RemoveRuntimeTree \/ RemoveSharedAssets
              \/ RemoveServiceUser \/ PurgeConfig \/ RemoveInstallState \/ DaemonReload
    <2>1. /\ UNCHANGED <<units, run>> /\ (UNCHANGED state \/ state' = NoState)
          /\ pc' # "restore_display_manager"
          /\ \/ pc \in UninstallSteps /\ pc' \in UninstallSteps
             \/ pc = "reload" /\ pc' = "enable"
      BY <1>16 DEF StopServices, RemoveLogindOverride, RemoveRuntimeTree, RemoveSharedAssets,
           RemoveServiceUser, PurgeConfig, RemoveInstallState, DaemonReload, Pass, Remove, Step,
           host, UninstallSteps
    <2>2. pc' \in HasGetty => pc \in HasGetty
      BY <1>5, <2>1 DEF UninstallSteps
    <2>3. pc' \in UninstallSteps => pc \in UninstallSteps
      BY <2>1 DEF UninstallSteps
    <2>4. state'.kind = "written" => UNCHANGED state
      BY <2>1 DEF NoState
    <2>5. QED  BY <1>4, <2>1, <2>2, <2>3, <2>4 DEF LoginRecords
  <1>17. CASE LoadFails \/ RemoveServiceHome \/ Abort \/ TornWrite \/ OperatorEdits
    <2>1. /\ UNCHANGED units /\ pc' = "idle" /\ (UNCHANGED state \/ state'.kind = "torn")
      BY <1>17 DEF LoadFails, RemoveServiceHome, Abort, TornWrite, End, OperatorEdits, host, NoState
    <2>2. QED  BY <1>4, <1>5, <2>1 DEF LoginRecords, UninstallSteps
  <1>18. CASE RunOptional
    <2>1. /\ UNCHANGED <<pc, state>> /\ todo # <<>> /\ todo' = Tail(todo)
          /\ Head(todo) \in Verbs \X Units
      BY <1>18, Called
    <2>2. run'.captured = run.captured /\ run'.loaded = run.loaded
      BY <1>18, Called DEF TypeOK, RunType
    <2>3. LoginRecords' <=> LoginRecords
      BY <2>1, <2>2 DEF LoginRecords
    <2>4. Pending("enable", G)' => Pending("enable", G)
      <3>1. \A i \in 1 .. Len(Tail(todo)) : Tail(todo)[i] = todo[i + 1] /\ i + 1 \in 1 .. Len(todo)
        BY <2>1 DEF TypeOK
      <3>2. QED  BY <2>1, <3>1 DEF Pending
    <2>5. LoginRecords => ~units'[G].enabled
      <3>1. CASE UNCHANGED units
        BY <1>3, <3>1
      <3>2. CASE Head(todo) # <<"enable", G>> /\ units' = Systemctl(units, Head(todo)[1], Head(todo)[2])
        <4>1. units'[G].enabled => units[G].enabled
          BY <1>2, <2>1, <3>2, SystemctlEffect
        <4>2. QED  BY <1>3, <4>1
      <3>3. CASE Head(todo) = <<"enable", G>>
        <4>1. pc = "restore_display_manager"
          BY <1>18, <3>3, Called
        <4>2. Head(todo) = todo[1] /\ 1 \in 1 .. Len(todo)
          BY <2>1 DEF TypeOK
        <4>3. Pending("enable", G)
          BY <3>3, <4>2 DEF Pending
        <4>4. run.loaded.kind = "absent" \/ run.loaded.units[G].enabled_before
          BY <4>1, <4>3 DEF LoginOff
        <4>5. state = run.loaded
          BY <4>1 DEF UninstallDone, UninstallSteps
        <4>6. ~LoginRecords
          BY <1>5, <4>1, <4>4, <4>5 DEF LoginRecords, Off
        <4>7. QED  BY <4>6
      <3>4. QED  BY <1>18, <3>1, <3>2, <3>3, Called
    <2>6. QED  BY <2>1, <2>2, <2>3, <2>4, <2>5 DEF LoginOff
  <1>19. CASE UNCHANGED vars
    BY <1>19 DEF vars, host, LoginOff, LoginRecords, Pending
  <1>20. QED
    BY <1>6, <1>7, <1>8, <1>9, <1>10, <1>11, <1>12, <1>13, <1>14, <1>15, <1>16, <1>17, <1>18,
       <1>19 DEF Next, InstallStep, UninstallStep, ConfigureConflictingUnits
-----------------------------------------------------------------------------
(* The packages. *)

LEMMA CompositorStep ==
  TypeOK /\ Queue /\ Compositor /\ [Next]_vars => Compositor'
  <1>1. SUFFICES ASSUME TypeOK, Queue, Compositor, [Next]_vars PROVE Compositor'
    OBVIOUS
  <1> USE <1>1
  <1>2. ASSUME pc' \notin InstallSteps \/ pc' = "packages" PROVE Compositor'
    BY <1>2 DEF Compositor
  <1>3. ASSUME pc \in InstallSteps \ {"packages"}, UNCHANGED <<config, packages>>,
               run'.skip = run.skip, run'.replaced = run.replaced,
               pc' = "write_config" => pc = "write_config" \/ config = "none"
        PROVE  Compositor'
    BY <1>3 DEF Compositor
  <1>4. CASE InstallPackages
    <2>1. /\ UNCHANGED <<run, config>> /\ pc' = "user"
          /\ ~run.skip => packages' = packages \union {Resolved(config)}
      BY <1>4 DEF InstallPackages, Step
    <2>2. QED  BY <2>1 DEF Compositor, Resolved
  <1>5. CASE EnsureServiceUser
    <2>1. run'.skip = run.skip /\ run'.replaced = run.replaced
      BY <1>5 DEF EnsureServiceUser, TypeOK, RunType
    <2>2. UNCHANGED <<config, packages>> /\ pc = "user" /\ pc' = "runtime"
      BY <1>5 DEF EnsureServiceUser, Step
    <2>3. QED  BY <1>3, <2>1, <2>2 DEF InstallSteps
  <1>6. CASE \/ RemoveOldTree \/ InstallRuntimeTree \/ InstallSharedAssets \/ PreserveConfig
             \/ CreateConfig \/ ConfigAccess \/ InstallServiceUnits \/ InstallLogindOverride
             \/ EnableServices
    <2>1. /\ UNCHANGED <<config, packages, run>> /\ pc \in InstallSteps \ {"packages"}
          /\ pc' = "write_config" => config = "none"
      BY <1>6 DEF RemoveOldTree, InstallRuntimeTree, InstallSharedAssets, PreserveConfig,
           CreateConfig, ConfigAccess, InstallServiceUnits, InstallLogindOverride,
           EnableServices, Put, Pass, Step, host, InstallSteps
    <2>2. QED  BY <1>3, <2>1
  <1>7. CASE BackupConfig
    <2>1. run'.replaced
      BY <1>7 DEF BackupConfig, TypeOK, RunType
    <2>2. QED  BY <2>1 DEF Compositor
  <1>8. CASE WriteConfig
    <2>1. UNCHANGED <<run, packages>> /\ pc = "write_config" /\ pc' = "config_access" /\ config' = "sample"
      BY <1>8 DEF WriteConfig, Step
    <2>2. QED  BY <2>1 DEF Compositor, InstallSteps
  <1>9. CASE ConfigureConflictingUnits
    <2>1. /\ UNCHANGED <<config, packages>> /\ pc \in {"getty", "display_manager"}
          /\ pc' \in {"display_manager", "reload"}
      BY <1>9 DEF ConfigureConflictingUnits, ConfigureUnit, Step, host
    <2>2. run'.skip = run.skip /\ run'.replaced = run.replaced
      BY <1>9 DEF ConfigureConflictingUnits, ConfigureUnit, TypeOK, RunType
    <2>3. QED  BY <1>3, <2>1, <2>2 DEF InstallSteps
  <1>10. CASE WriteInstallState \/ Install \/ Uninstall \/ Abort \/ TornWrite
    BY <1>2, <1>10 DEF WriteInstallState, Install, Uninstall, Begin, Abort, TornWrite, End,
         InstallSteps
  <1>11. CASE UninstallStep
    <2>1. pc' \notin InstallSteps
      BY <1>11 DEF UninstallStep, LoadUninstallState, LoadFails, StopServices, RemoveServiceUnits,
           RemoveLogindOverride, RestoreConflictingUnits, RestoreUnit, RemoveRuntimeTree,
           RemoveSharedAssets, RemoveServiceUser, PurgeConfig, RemoveInstallState,
           RemoveServiceHome, Remove, Step, End, InstallSteps
    <2>2. QED  BY <1>2, <2>1
  <1>12. CASE DaemonReload
    <2>1. /\ UNCHANGED <<config, packages, run>>
          /\ \/ pc = "reload" /\ pc' = "enable"
             \/ pc' = "restore_getty"
      BY <1>12 DEF DaemonReload, Pass, Step, host
    <2>2. QED  BY <1>2, <1>3, <2>1 DEF InstallSteps
  <1>13. CASE RunOptional
    <2>1. UNCHANGED <<pc, config, packages>> /\ run'.skip = run.skip /\ run'.replaced = run.replaced
      BY <1>13, Called DEF TypeOK, RunType
    <2>2. QED  BY <2>1 DEF Compositor
  <1>14. CASE OperatorEdits \/ OperatorStarts \/ Reboot
    BY <1>2, <1>14 DEF OperatorEdits, OperatorStarts, Reboot, InstallSteps
  <1>15. CASE UNCHANGED vars
    BY <1>15 DEF vars, host, Compositor
  <1>16. QED
    BY <1>4, <1>5, <1>6, <1>7, <1>8, <1>9, <1>10, <1>11, <1>12, <1>13, <1>14, <1>15
       DEF Next, InstallStep

-----------------------------------------------------------------------------
(* The commands, all together. *)

Progress ==
    /\ Overreach /\ Queue /\ Existing
    /\ InstallDone /\ UninstallDone
    /\ TtyCleared /\ RelayDown /\ PuttingBack
    /\ LeftAlone /\ LoginOff /\ Compositor
    /\ Finished

LEMMA InstalledReady ==
  ASSUME Progress, WriteInstallState
  PROVE  InstallReady'
  <1>1. pc = "record" /\ UNCHANGED <<units, files, user, config, run>> /\ state'.kind = "written"
    BY DEF WriteInstallState
  <1>2. /\ user /\ config # "none" /\ units["relay"].enabled
        /\ "lib" \in files /\ "share" \in files /\ "units" \in files /\ "logind" \in files
    BY <1>1 DEF Progress, InstallDone, HasUser, HasLib, HasShare, HasConfig, HasUnits, HasLogind,
                InstallSteps
  <1>3. files = Artefacts
    BY <1>2 DEF Progress, Overreach, TypeOK, Artefacts
  <1>4. todo = <<>>
    BY <1>1 DEF Progress, Queue
  <1>5. ~run.unapplied => Clearing("getty") /\ Clearing("display_manager")
    BY <1>1 DEF Progress, TtyCleared, HasUser, HasLib, HasShare, HasConfig, HasUnits, HasLogind,
                HasGetty, HasBoth, InstallSteps
  <1>6. ~run.unapplied => \A u \in Conflicting : units[u].existed => units[u].masked
    BY <1>4, <1>5 DEF Clearing, Pending, Conflicting
  <1>7. QED  BY <1>1, <1>2, <1>3, <1>6 DEF InstallReady

LEMMA UninstalledClean ==
  ASSUME Progress, RemoveServiceHome
  PROVE  UninstallClean' /\ ~units'["relay"].existed
  <1>1. pc = "remove_home" /\ todo = <<>> /\ UNCHANGED <<units, files, state, run>>
    BY DEF RemoveServiceHome
  <1>2. pc \in NoShare /\ pc \in NoLib /\ pc \in GettyBack /\ pc \in NoLogind /\ pc \in NoUnits
    BY <1>1 DEF NoUnits, NoLogind, GettyBack, BothBack, NoLib, NoShare, UninstallSteps
  <1>3. /\ "lib" \notin files /\ "share" \notin files /\ "units" \notin files
        /\ "logind" \notin files /\ state = NoState /\ ~units["relay"].existed
    BY <1>1, <1>2 DEF Progress, UninstallDone
  <1>4. files = {}
    BY <1>3 DEF Progress, Overreach, TypeOK, Artefacts
  <1>5. ~run.unapplied => ~units["relay"].active /\ ~units["relay"].enabled /\ ~units["getty"].masked
    BY <1>1, <1>2 DEF Progress, RelayDown, PuttingBack, Unmasking
  <1>6. QED  BY <1>1, <1>3, <1>4, <1>5 DEF UninstallClean

LEMMA FinishedStep == Progress /\ [Next]_vars => Finished'
  <1>1. SUFFICES ASSUME Progress, [Next]_vars PROVE Finished'
    OBVIOUS
  <1> USE <1>1
  <1>2. TypeOK /\ Finished /\ Queue
    BY DEF Progress, Overreach
  <1>3. "relay" \in Units /\ Conflicting \subseteq Units
    BY DEF Units
  <1>4. ASSUME pc' # "idle" \/ last' \in {"none", "failed"} PROVE Finished'
    BY <1>4 DEF Finished, InstallReady, UninstallClean
  <1>5. CASE WriteInstallState
    <2>1. last' = "installed"
      BY <1>5 DEF WriteInstallState, End
    <2>2. QED  BY <1>5, <2>1, InstalledReady DEF Finished, UninstallClean
  <1>6. CASE RemoveServiceHome
    <2>1. last' = "uninstalled"
      BY <1>6 DEF RemoveServiceHome, End
    <2>2. QED  BY <1>6, <2>1, UninstalledClean DEF Finished, InstallReady
  <1>7. CASE OperatorEdits
    <2>1. UNCHANGED <<pc, last, files, user, state, units, run>> /\ config' # "none"
      BY <1>7, InstallerAssumption DEF OperatorEdits
    <2>2. QED  BY <1>2, <2>1 DEF Finished, InstallReady, UninstallClean
  <1>8. CASE OperatorStarts
    <2>1. /\ UNCHANGED <<pc, last, files, user, config, state, run>> /\ "lib" \in files /\ pc = "idle"
          /\ units' = Systemctl(units, "start", "relay")
      BY <1>8 DEF OperatorStarts
    <2>2. last # "uninstalled"
      BY <1>2, <2>1 DEF Finished, UninstallClean
    <2>3. <<"start", "relay">> \in Verbs \X Units
      BY <1>3 DEF Verbs
    <2>4. units["relay"].enabled => units'["relay"].enabled
      BY <1>2, <1>3, <2>1, <2>3, SystemctlEffect
    <2>5. \A u \in Conflicting : units'[u].existed = units[u].existed
                                 /\ (units[u].masked => units'[u].masked)
      <3>1. SUFFICES ASSUME NEW u \in Conflicting
                     PROVE  /\ units'[u].existed = units[u].existed
                            /\ units[u].masked => units'[u].masked
        OBVIOUS
      <3>2. u \in Units /\ "start" \in Verbs /\ "relay" \in Units
        BY DEF Units, Verbs
      <3>3. QED  BY <1>2, <2>1, <3>2, SystemctlMasks
    <2>6. QED  BY <1>2, <2>1, <2>2, <2>4, <2>5 DEF Finished, InstallReady, UninstallClean
  <1>9. CASE Reboot
    <2>1. UNCHANGED <<pc, last, files, user, config, state, run>>
      BY <1>9 DEF Reboot
    <2>2. PICK up \in SUBSET {u \in Units : Wanted(u)} :
            units' = [u \in Units |-> [units[u] EXCEPT !.active = u \in up]]
      BY <1>9 DEF Reboot
    <2>3. \A u \in Units : /\ units'[u].existed = units[u].existed
                           /\ units'[u].enabled = units[u].enabled
                           /\ units'[u].masked = units[u].masked
                           /\ units'[u].active => units[u].existed
      BY <1>2, <2>2 DEF TypeOK, UnitState, Wanted
    <2>4. "getty" \in Units
      BY DEF Units, Conflicting
    <2>5. InstallReady'
      BY <1>2, <1>3, <2>1, <2>3 DEF Finished, InstallReady
    <2>6. QED  BY <1>2, <1>3, <2>1, <2>3, <2>4, <2>5 DEF Finished, UninstallClean
  <1>10. CASE UNCHANGED vars
    BY <1>2, <1>10 DEF vars, host, Finished, InstallReady, UninstallClean
  <1>11. CASE RunOptional
    BY <1>2, <1>4, <1>11 DEF RunOptional
  <1>12. CASE InstallStep /\ ~WriteInstallState
    <2>1. pc' # "idle"
      BY <1>12 DEF InstallStep, InstallPackages, EnsureServiceUser, RemoveOldTree,
         InstallRuntimeTree, InstallSharedAssets, PreserveConfig, CreateConfig, BackupConfig,
         WriteConfig, ConfigAccess, InstallServiceUnits, InstallLogindOverride,
         ConfigureConflictingUnits, ConfigureUnit, EnableServices, Put, Pass, Step
    <2>2. QED  BY <1>4, <2>1
  <1>13. CASE UninstallStep /\ ~RemoveServiceHome
    <2>1. pc' # "idle" \/ last' = "failed"
      BY <1>13 DEF UninstallStep, LoadUninstallState, LoadFails, StopServices, RemoveServiceUnits,
           RemoveLogindOverride, RestoreConflictingUnits, RestoreUnit, RemoveRuntimeTree,
           RemoveSharedAssets, RemoveServiceUser, PurgeConfig, RemoveInstallState,
           Remove, Step, End
    <2>2. QED  BY <1>4, <2>1
  <1>14. CASE Install \/ Uninstall \/ DaemonReload \/ Abort \/ TornWrite
    BY <1>4, <1>14 DEF Install, Uninstall, Begin, DaemonReload, Pass, Step, Abort, TornWrite, End
  <1>15. QED
    BY <1>5, <1>6, <1>7, <1>8, <1>9, <1>10, <1>11, <1>12, <1>13, <1>14 DEF Next

LEMMA ProgressInit == Init => Progress
  <1>1. SUFFICES ASSUME Init PROVE Progress
    OBVIOUS
  <1> USE <1>1
  <1>2. /\ pc = "idle" /\ last = "none" /\ todo = <<>> /\ run = NoRun /\ state = NoState
        /\ origin.units = units
    BY DEF Init
  <1>3. Overreach
    BY OverreachInit
  <1>4. Queue
    BY <1>2 DEF Queue
  <1>5. PICK o \in Origins : units = [u \in Units |-> IF u = "relay" THEN NoUnit ELSE o[u]]
    BY DEF Init
  <1>6. /\ units["relay"] = NoUnit /\ \A u \in Conflicting : units[u] = o[u]
    BY <1>5 DEF Units, Conflicting
  <1>7. Existing
    BY <1>2, <1>6, InstallerAssumption DEF Existing, NoUnit
  <1>8. InstallDone /\ UninstallDone /\ TtyCleared /\ RelayDown /\ PuttingBack /\ Compositor
    BY <1>2 DEF InstallDone, UninstallDone, TtyCleared, RelayDown, PuttingBack, Compositor,
       HasUser, HasLib, HasShare, HasConfig, HasUnits, HasLogind, HasGetty, HasBoth, NoUnits,
       NoLogind, GettyBack, BothBack, NoLib, NoShare, NoUser, InstallSteps, UninstallSteps
  <1>9. Still /\ Uncalled
    BY <1>2 DEF Still, Uncalled, Fixed, Before
  <1>10. Unclaimed
    BY <1>2 DEF Unclaimed, NoRun, NoState, NoRecord, Conflicting
  <1>11. LoginOff
    BY <1>2 DEF LoginOff, LoginRecords, NoRun, NoState, HasUser, HasLib, HasShare, HasConfig,
       HasUnits, HasLogind, HasGetty, InstallSteps, UninstallSteps
  <1>12. Finished
    BY <1>2 DEF Finished, InstallReady, UninstallClean
  <1>13. QED
    BY <1>3, <1>4, <1>7, <1>8, <1>9, <1>10, <1>11, <1>12 DEF Progress, LeftAlone

LEMMA ProgressStep == Progress /\ [Next]_vars => Progress'
  <1>1. SUFFICES ASSUME Progress, [Next]_vars PROVE Progress'
    OBVIOUS
  <1> USE <1>1
  <1>2. /\ Overreach /\ TypeOK /\ Queue /\ Existing /\ InstallDone /\ UninstallDone
        /\ TtyCleared /\ RelayDown /\ PuttingBack /\ LeftAlone /\ LoginOff /\ Compositor
    BY DEF Progress, Overreach
  <1>3. Overreach' /\ Queue' /\ Existing'
    BY <1>2, OverreachStep, QueueStep, ExistingStep
  <1>4. InstallDone' /\ UninstallDone'
    BY <1>2, InstallDoneStep, UninstallDoneStep
  <1>5. TtyCleared' /\ RelayDown' /\ PuttingBack'
    BY <1>2, TtyClearedStep, RelayDownStep, PuttingBackStep
  <1>6. LeftAlone'
    BY <1>2, StillStep, ClaimsStep DEF LeftAlone
  <1>7. LoginOff' /\ Compositor'
    BY <1>2, LoginOffStep, CompositorStep
  <1>8. Finished'
    BY FinishedStep
  <1>9. QED  BY <1>3, <1>4, <1>5, <1>6, <1>7, <1>8 DEF Progress

LEMMA ProgressAlways == Spec => []Progress
  <1>1. Init => Progress
    BY ProgressInit
  <1>2. Progress /\ [Next]_vars => Progress'
    BY ProgressStep
  <1>3. QED  BY <1>1, <1>2, PTL DEF Spec

\* A completed install leaves everything the services need in place, and keeps
\* it so over starts, edits and reboots, however many runs failed before it.
THEOREM InstallIsReady == Spec => []InstallReady
  <1>1. Progress => InstallReady
    BY DEF Progress, Finished
  <1>2. QED  BY <1>1, ProgressAlways, PTL

\* A completed uninstall leaves nothing of the relay to start and a login that
\* is not masked, with or without a record, and over every later boot.
THEOREM UninstallIsClean == Spec => []UninstallClean
  <1>1. Progress => UninstallClean
    BY DEF Progress, Finished
  <1>2. QED  BY <1>1, ProgressAlways, PTL
\* The run that keeps or creates a configuration has installed its compositor
\* before it reports success.
THEOREM CompositorIsInstalled == Spec => CompositorInstalled
  <1> DEFINE Installs ==
        pc = "record" /\ last' = "installed" /\ ~run.skip /\ ~run.replaced
          => /\ config = "sway" => "sway" \in packages
             /\ config \in {"cage", "sample"} => "cage" \in packages
  <1>1. Progress => Installs
    BY DEF Progress, Compositor, InstallSteps
  <1>2. Progress /\ [Next]_vars => [Installs]_vars
    BY <1>1
  <1>3. QED  BY <1>2, ProgressAlways, PTL DEF Spec, CompositorInstalled

\* What the end of an uninstall finds, when its record is that of the host as it
\* was and none of its calls has failed.
LEMMA HostRestored ==
  ASSUME Progress, pc = "remove_home", todo = <<>>, Faithful(run.loaded), ~run.unapplied
  PROVE  /\ ~(Before.masked /\ Before.active) =>
              /\ units["display_manager"].enabled = Before.enabled
              /\ units["display_manager"].masked = Before.masked
              /\ Before.active => units["display_manager"].active
         /\ ~origin.units["getty"].masked =>
              units["getty"].enabled = origin.units["getty"].enabled
         /\ user = origin.user
  <1> DEFINE D == "display_manager"
             G == "getty"
             r == run.loaded.units[D]
             g == run.loaded.units[G]
  <1>1. TypeOK /\ Reach /\ (origin.user => user)
    BY DEF Progress, Overreach
  <1>2. /\ D \in Conflicting /\ G \in Conflicting /\ D \in Units /\ G \in Units
        /\ units[D] \in UnitState /\ units[G] \in UnitState /\ Before \in UnitState
        /\ origin.units[G] \in UnitState /\ user \in BOOLEAN /\ origin.user \in BOOLEAN
        /\ r \in UnitRecord /\ g \in UnitRecord
    BY <1>1 DEF TypeOK, Units, Conflicting, Before, RunType, InstallState
  <1>3. pc \in BothBack /\ pc \in GettyBack /\ pc \in NoUser /\ pc \in UninstallSteps
    BY DEF NoUnits, NoLogind, GettyBack, BothBack, NoLib, NoShare, NoUser, UninstallSteps
  <1>4. \A v, u : ~Pending(v, u)
    BY DEF Pending
  <1>5. /\ units[D].existed = Before.existed /\ units[G].existed = origin.units[G].existed
        /\ Before.enabled \/ Before.active => Before.existed
        /\ origin.units[G].enabled => origin.units[G].existed
        /\ units[G].enabled => units[G].existed
    BY <1>2 DEF Progress, Existing, Before
  <1>6. /\ run.loaded.kind = "written" /\ run.loaded.created = ~origin.user
        /\ [r EXCEPT !.changed_by_installer = FALSE] = Capture(Before)
        /\ [g EXCEPT !.changed_by_installer = FALSE] = Capture(origin.units[G])
        /\ r.existed /\ ~r.masked_before => r.changed_by_installer
    BY <1>2 DEF Faithful, Before
  <1>7. /\ r.existed = Capture(Before).existed
        /\ r.enabled_before = Capture(Before).enabled_before
        /\ r.active_before = Capture(Before).active_before
        /\ r.masked_before = Capture(Before).masked_before
    BY <1>2, <1>6 DEF UnitRecord
  <1>8. /\ g.existed = Capture(origin.units[G]).existed
        /\ g.enabled_before = Capture(origin.units[G]).enabled_before
        /\ g.masked_before = Capture(origin.units[G]).masked_before
    BY <1>2, <1>6 DEF UnitRecord
  <1>9. user = origin.user
    <2>1. CASE origin.user
      BY <1>1, <1>2, <2>1
    <2>2. CASE ~origin.user
      <3>1. Ours(run.loaded)
        BY <1>6, <2>2 DEF Ours
      <3>2. ~user
        BY <1>3, <3>1 DEF Progress, UninstallDone
      <3>3. QED  BY <1>2, <2>2, <3>2
    <2>3. QED  BY <2>1, <2>2
  <1>10. ASSUME ~(Before.masked /\ Before.active)
         PROVE  /\ units[D].enabled = Before.enabled /\ units[D].masked = Before.masked
                /\ Before.active => units[D].active
    <2>1. CASE Before.masked \/ ~Before.existed
      <3>1. Fixed
        BY <1>5, <1>10, <2>1 DEF Fixed
      <3>2. QED  BY <3>1 DEF Progress, LeftAlone, Still, Fixed
    <2>2. CASE ~Before.masked /\ Before.existed
      <3>1. /\ r.existed /\ ~r.masked_before /\ r.changed_by_installer
            /\ r.enabled_before = Before.enabled /\ r.active_before = Before.active
        BY <1>2, <1>6, <1>7, <2>2 DEF Capture, UnitState
      <3>2. Evident(run.loaded)
        BY <1>6, <3>1 DEF Evident
      <3>3. Unmasking(D) /\ Restoring(D, r)
        BY <1>3, <1>5, <2>2, <3>2 DEF Progress, PuttingBack
      <3>4. ~units[D].masked
        BY <3>3 DEF Unmasking
      <3>5. (Before.enabled => units[D].enabled) /\ (Before.active => units[D].active)
        BY <1>4, <3>1, <3>3 DEF Restoring
      <3>6. units[D].enabled => Before.enabled
        BY <1>1 DEF Reach
      <3>7. units[D].enabled = Before.enabled
        BY <1>2, <3>5, <3>6 DEF UnitState
      <3>8. units[D].masked = Before.masked
        BY <1>2, <2>2, <3>4 DEF UnitState
      <3>9. QED  BY <3>5, <3>7, <3>8
    <2>3. QED  BY <2>1, <2>2
  <1>11. ASSUME ~origin.units[G].masked PROVE units[G].enabled = origin.units[G].enabled
    <2>1. CASE ~origin.units[G].existed
      BY <1>2, <1>5, <2>1 DEF UnitState
    <2>2. CASE origin.units[G].existed
      <3>1. g.existed /\ ~g.masked_before /\ g.enabled_before = origin.units[G].enabled
        BY <1>2, <1>8, <1>11, <2>2 DEF Capture, UnitState
      <3>2. CASE origin.units[G].enabled
        <4>1. Restoring(G, g)
          BY <1>3, <1>5, <2>2 DEF Progress, PuttingBack
        <4>2. units[G].enabled
          BY <1>4, <3>1, <3>2, <4>1 DEF Restoring
        <4>3. QED  BY <1>2, <3>2, <4>2 DEF UnitState
      <3>3. CASE ~origin.units[G].enabled
        <4>1. Off(g)
          BY <3>1, <3>3 DEF Off
        <4>2. ~units[G].enabled
          BY <1>3, <1>6, <4>1 DEF Progress, LoginOff, LoginRecords
        <4>3. QED  BY <1>2, <3>3, <4>2 DEF UnitState
      <3>4. QED  BY <3>2, <3>3
    <2>3. QED  BY <2>1, <2>2
  <1>12. QED  BY <1>9, <1>10, <1>11

\* An uninstall with a faithful record whose calls succeed puts the host back as
\* it was, through every sequence of runs, failures and boots before it.
THEOREM UninstallRestores == Spec => Restores
  <1> DEFINE D == "display_manager"
             G == "getty"
             PutsBack ==
        /\ pc = "remove_home" /\ last' = "uninstalled"
        /\ Faithful(run.loaded) /\ ~run.unapplied
        => LET before == origin.units[D]
               now == units'[D]
           IN  /\ ~(before.masked /\ before.active) =>
                    /\ now.enabled = before.enabled /\ now.masked = before.masked
                    /\ before.active => now.active
               /\ ~origin.units[G].masked => units'[G].enabled = origin.units[G].enabled
               /\ user' = origin.user
  <1>1. Progress /\ [Next]_vars => [PutsBack]_vars
    <2>1. SUFFICES ASSUME Progress, Next, pc = "remove_home", last' = "uninstalled",
                          Faithful(run.loaded), ~run.unapplied
                   PROVE  PutsBack
      BY DEF vars
    <2>2. RemoveServiceHome
      BY <2>1 DEF Next, Install, Uninstall, Begin, InstallStep, InstallPackages,
         EnsureServiceUser, RemoveOldTree, InstallRuntimeTree, InstallSharedAssets,
         PreserveConfig, CreateConfig, BackupConfig, WriteConfig, ConfigAccess,
         InstallServiceUnits, InstallLogindOverride, ConfigureConflictingUnits, ConfigureUnit,
         EnableServices, WriteInstallState, Put, UninstallStep, LoadUninstallState, LoadFails,
         StopServices, RemoveServiceUnits, RemoveLogindOverride, RestoreConflictingUnits,
         RestoreUnit, RemoveRuntimeTree, RemoveSharedAssets, RemoveServiceUser, PurgeConfig,
         RemoveInstallState, Remove, DaemonReload, Pass, Step, End, RunOptional, Abort,
         TornWrite, OperatorEdits, OperatorStarts, Reboot, Progress, Queue
    <2>3. todo = <<>> /\ UNCHANGED <<units, user>>
      BY <2>2 DEF RemoveServiceHome
    <2>4. QED  BY <2>1, <2>3, HostRestored DEF Before
  <1>2. QED  BY <1>1, ProgressAlways, PTL DEF Spec, Restores
=============================================================================
