------------------------------ MODULE AppState ------------------------------
(***************************************************************************)
(* internal/app/state.go: Derive, the pure function from what minitail     *)
(* knows to what it shows, and the part of tsctl's Status it looks at.     *)
(* Wording, addresses, names and health lines are left out.                *)
(***************************************************************************)
EXTENDS Naturals

CONSTANT NoStatus       \* a nil *tsctl.Status: no answer from tailscaled

States == {"stopped", "starting", "needs-login", "needs-machine-auth", "connecting", "down",
           "not-approved", "serving", "bad-config", "error"}

Backends == {"NoState", "NeedsLogin", "NeedsMachineAuth", "Starting", "Stopped", "Running", "other"}

\* What each BackendState but Running is shown as.
Shown == [NeedsLogin |-> "needs-login", NeedsMachineAuth |-> "needs-machine-auth",
          NoState |-> "connecting", Starting |-> "connecting", Stopped |-> "down",
          other |-> "connecting"]

NoURL == 0

\* The advertised routes that are not among the self node's AllowedIPs.
PendingRoutes(st, advertised) == advertised \ st.approved

StateOf(in) ==
    IF ~in.want THEN "stopped"
    ELSE IF in.givenUp THEN "error"
    ELSE IF ~in.running \/ in.status = NoStatus THEN "starting"
    ELSE IF in.status.backend # "Running" THEN Shown[in.status.backend]
    ELSE IF in.badConfig THEN "bad-config"
    ELSE IF PendingRoutes(in.status, in.advertised) # {} THEN "not-approved"
    ELSE "serving"

\* Input carries want, running, restarts, givenUp, status, badConfig (ApplyErr is
\* not nil) and advertised; View what of it the menu bar tells apart.
Derive(in) ==
    LET state == StateOf(in) IN
    [state |-> state,
     url |-> IF state = "needs-login" THEN in.status.url ELSE NoURL,
     pending |-> IF state = "not-approved" THEN PendingRoutes(in.status, in.advertised) ELSE {},
     badConfig |-> in.badConfig,
     restarts |-> in.restarts,
     canStop |-> in.want]
=============================================================================
