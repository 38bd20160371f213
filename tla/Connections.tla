----------------------------- MODULE Connections -----------------------------
(* The connections of clients side by side: one through the tunnel listener   *)
(* and one to the SSH listener. They share no state.                          *)
EXTENDS Tunnel, SSHSession

\* Nothing outlives its connection: when the goroutine of a tunnel (NothingLeftBehind)
\* or handle of an SSH session (NothingLeft) has returned, both sides are closed and
\* no handler, relay, bridge or timer of it is left.
NothingRemains == NothingLeftBehind /\ NothingLeft
=============================================================================
