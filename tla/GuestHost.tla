----------------------------- MODULE GuestHost -----------------------------
(***************************************************************************)
(* What surrounds the appliance: the guest as `qm status` reports it, the  *)
(* Sunshine host inside it, and the events nobody schedules.  Each kind of *)
(* event has a budget, so that a model is finite and so that "after the    *)
(* last fault" is a state TLC reaches.                                     *)
(***************************************************************************)
EXTENDS Integers

CONSTANTS
    VmStates,   \* the words `qm status` can print
    VmStart,    \* the guest states the host may boot with
    HostStart,  \* the Sunshine states the host may boot with
    Budget      \* how many events of each kind a behaviour may contain

EventKinds == {
    "vm",        \* the guest changes state by itself
    "host",      \* Sunshine becomes reachable, paired, unpaired, unreachable
    "press",     \* the host's power button is pressed
    "qm",        \* qm status, start or shutdown exits with an error
    "pvesh",     \* the console request (pvesh spiceproxy, qm config) does
    "endpoint",  \* the VNC endpoint refuses the probe
    "validate",  \* a console or workspace validation fails
    "read",      \* the evdev device cannot be read
    "start",     \* configuration or a startup prerequisite is invalid
    "hang",      \* a qm command outlives command_timeout_s
    "crash",     \* the daemon is killed
    "kill",      \* the session is killed
    "exit",      \* the viewer process ends by itself
    "launch",    \* the viewer cannot be started
    "helper"     \* the display power helper fails
}

HostStates == {"unreachable", "unpaired", "paired"}

ASSUME GuestAssumption ==
    /\ VmStates \subseteq STRING
    /\ {"running", "stopped"} \subseteq VmStates
    /\ "unknown" \notin VmStates
    /\ VmStart \subseteq VmStates
    /\ HostStart \subseteq HostStates
    /\ Budget \in [EventKinds -> Nat]

VARIABLES
    vm,     \* the guest's state
    host,   \* the Sunshine host's state
    left    \* events of each kind still allowed

guestVars == <<vm, host, left>>

GuestInit ==
    /\ vm \in VmStart
    /\ host \in HostStart
    /\ left = Budget

\* One event of kind k happens.
Spend(k) ==
    /\ left[k] > 0
    /\ left' = [left EXCEPT ![k] = @ - 1]

VmChanges ==
    /\ Spend("vm")
    /\ vm' \in VmStates \ {vm}
    /\ UNCHANGED host

HostChanges ==
    /\ Spend("host")
    /\ host' \in HostStates \ {host}
    /\ UNCHANGED vm

GuestTypeOK ==
    /\ vm \in VmStates
    /\ host \in HostStates
    /\ left \in [EventKinds -> Nat]
=============================================================================
