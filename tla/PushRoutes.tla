----------------------------- MODULE PushRoutes -----------------------------
(***************************************************************************)
(* `cf push' beside another user who runs `cf create-route' and          *)
(* `cf delete-route' on the same space.  Both programs are single-threaded *)
(* clients of the one controller: between any two remote calls of the    *)
(* push, one call of the route commands may happen.  The routes          *)
(* (routeOwner) and the route bindings (bound) are shared.               *)
(***************************************************************************)
EXTENDS Push

CONSTANTS RcRoutes, RcSpaces, RcFaults, RcLostReplies, MaxRouteCmds

VARIABLES rcPc, rcCmd, rcRoute, rcSpace, rcRuns

RC == INSTANCE RouteCommands

rcVars == <<rcPc, rcCmd, rcRoute, rcSpace, rcRuns>>

allVars == <<vars, rcVars>>

SystemInit == Init /\ RC!RcInit

\* A step of the push, or a step of the route commands.
SystemNext ==
  \/ Next /\ UNCHANGED rcVars
  \/ RC!RcNext /\ UNCHANGED <<appState, appEnv, svcBound, uploaded, local>>

SystemSpec == SystemInit /\ [][SystemNext]_allVars

-----------------------------------------------------------------------------
=============================================================================
