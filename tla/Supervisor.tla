----------------------------- MODULE Supervisor -----------------------------
(***************************************************************************)
(* What the process supervisor of a debug session promises (spec.md §4.1, *)
(* §3 and §7): it owns at most one debug-server process at a time, a      *)
(* start while the owned process runs is refused instead of replacing the *)
(* handle, kill terminates the owned process, and kill never raises.      *)
(* The nvim-go code is not under this interface; DelveCommands maps its   *)
(* globals onto these variables and is checked against Spec.              *)
(***************************************************************************)
CONSTANTS
    Procs,      \* server processes that may be spawned
    NoProc      \* no owned process

VARIABLES
    owned,      \* the process the supervisor's handle refers to
    alive,      \* spawned processes that are still running
    raised      \* a kill has raised past its caller

vars == <<owned, alive, raised>>

Init ==
    /\ owned = NoProc
    /\ alive = {}
    /\ raised = FALSE

\* start: spawn p and own it, unless the owned process still runs.
Start(p) ==
    /\ owned \notin alive
    /\ p \notin alive
    /\ owned' = p
    /\ alive' = alive \cup {p}
    /\ UNCHANGED raised

\* The handle of a process that is no longer running may be dropped.
Release ==
    /\ owned # NoProc /\ owned \notin alive
    /\ owned' = NoProc
    /\ UNCHANGED <<alive, raised>>

\* A running server exits on its own (or by a graceful detach).
Exit(p) ==
    /\ p \in alive
    /\ alive' = alive \ {p}
    /\ UNCHANGED <<owned, raised>>

\* kill: the owned process stops; a dead or absent one is only reported.
Kill ==
    /\ owned \in alive
    /\ alive' = alive \ {owned}
    /\ UNCHANGED <<owned, raised>>

Next ==
    \/ \E p \in Procs : Start(p) \/ Exit(p)
    \/ Release
    \/ Kill

Spec == Init /\ [][Next]_vars

=============================================================================
