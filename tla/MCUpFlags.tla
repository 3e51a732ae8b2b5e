----------------------------- MODULE MCUpFlags -----------------------------
(***************************************************************************)
(* Flags for UpFlags: of each kind one.  The routes and the exit node,     *)
(* that both commands take; a flag with a value that both take; a          *)
(* credential and a switch that only `up` takes; and one that minitail     *)
(* manages.                                                                *)
(***************************************************************************)
EXTENDS UpFlags

Flags == [n \in {"advertise-routes", "advertise-exit-node", "hostname", "auth-key", "reset", "socket"} |->
    CASE n = "advertise-routes" -> {{}, {"10.0.0.0/8", "junk"}, {"10.0.0.0/8"}}
      [] n = "advertise-exit-node" -> {None, {"true"}, {"1"}, {"t"}, {"false"}}
      [] n = "reset" -> {None}
      [] OTHER -> {{n}}]
=============================================================================
