---------------------------- MODULE MCController ----------------------------
(***************************************************************************)
(* Config files and instances of Controller for TLC.                       *)
(***************************************************************************)
EXTENDS Controller, TLC

File(td, up_, adv) == [td |-> td, up |-> up_, adv |-> adv, parses |-> TRUE]

\* The same [up] flags with other [tailscaled] flags.
Plain == File("t1", "u1", {})
OtherDaemon == File("t2", "u1", {})
\* Another [up] section; one that tailscaled refuses; one with a route.
OtherUp == File("t1", "u2", {})
BadUp == File("t1", "bad", {})
Routed == File("t1", "u1", {"r"})
\* A file whose routes cannot be read, which only the first file can be.
Unreadable == [OtherUp EXCEPT !.parses = FALSE]

AllFiles == {Plain, OtherDaemon, OtherUp}
DaemonFiles == {Plain, OtherDaemon}
UpFiles == {Plain, OtherUp}
MixedFiles == {Unreadable, Routed, OtherUp}

Symmetric == Permutations(Clients)
=============================================================================
