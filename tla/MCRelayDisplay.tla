-------------------------- MODULE MCRelayDisplay --------------------------
(***************************************************************************)
(* Instances of RelayDisplay for TLC: how many events of which kind each   *)
(* run allows.  The timer values are in the cfg files.                     *)
(***************************************************************************)
EXTENDS RelayDisplay, TLC

Nothing == [k \in EventKinds |-> 0]

\* Both processes restart, the guest changes once, one qm status fails, and a
\* start of the daemon may find its prerequisites missing.
BootBudget ==
    "vm" :> 1 @@ "crash" :> 1 @@ "kill" :> 1 @@ "qm" :> 1 @@ "start" :> 1 @@ Nothing

\* Enough qm failures to degrade, a viewer that exits, one that cannot start.
FaultBudget ==
    "vm" :> 2 @@ "exit" :> 1 @@ "qm" :> 2 @@ "launch" :> 1 @@ "kill" :> 1 @@ Nothing

\* An endpoint that refuses twice and a viewer that exits: the whole backoff.
BackoffBudget ==
    "vm" :> 1 @@ "exit" :> 2 @@ "endpoint" :> 2 @@ "validate" :> 1 @@ "pvesh" :> 1
      @@ Nothing

ButtonBudget == "vm" :> 1 @@ "press" :> 3 @@ Nothing

\* Presses around which qm, the input device, a command and the power helper fail.
ButtonFaultBudget ==
    "press" :> 2 @@ "qm" :> 1 @@ "read" :> 1 @@ "hang" :> 1 @@ "helper" :> 1 @@ Nothing

\* The host is paired, lost or unpaired while the PIN is on the screen, the
\* pairing UI or the stream exits, a check fails, the session is killed.
PairBudget ==
    "vm" :> 1 @@ "host" :> 2 @@ "exit" :> 1 @@ "kill" :> 1 @@ "validate" :> 1 @@ Nothing

\* A viewer that exits once.
ExitBudget == "exit" :> 1 @@ Nothing
=============================================================================
