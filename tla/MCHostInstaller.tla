-------------------------- MODULE MCHostInstaller --------------------------
(***************************************************************************)
(* Hosts for TLC to install on.                                            *)
(***************************************************************************)
EXTENDS HostInstaller

Unit(enabled, active, masked) ==
    [existed |-> TRUE, enabled |-> enabled, active |-> active, masked |-> masked]

Host(getty, display_manager) == [u \in Conflicting |-> IF u = "getty" THEN getty ELSE display_manager]

Login == Unit(TRUE, TRUE, FALSE)

\* A server without a display manager, a desktop, one whose display manager was
\* started by hand, one where it is masked, and one without a login on tty1.
MCOrigins == {
    Host(Login, NoUnit),
    Host(Login, Unit(TRUE, TRUE, FALSE)),
    Host(Login, Unit(FALSE, TRUE, FALSE)),
    Host(Login, Unit(FALSE, FALSE, TRUE)),
    Host(Unit(FALSE, FALSE, FALSE), Unit(TRUE, FALSE, FALSE))}
=============================================================================
