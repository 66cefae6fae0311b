--------------------------- MODULE RouteCommands ---------------------------
(***************************************************************************)
(* The commands `cf create-route SPACE DOMAIN -n HOST' and `cf delete-route *)
(* DOMAIN -n HOST [-f]' (src/cf/commands/route/create_route.go and        *)
(* delete_route.go), run one after the other by a user, over the          *)
(* controller's routes and route bindings.  The two variables are shared *)
(* with module Push when the commands run beside a push.                  *)
(*                                                                         *)
(* A route is a key <<host, domain>>; routeOwner maps it to the space that *)
(* owns it, or to Nil when it does not exist.  The space and domain       *)
(* requirements are resolved before Run and are not modelled.             *)
(***************************************************************************)
EXTENDS Naturals

CONSTANTS
  Nil,
  RcRoutes,      \* the routes the user names on the command line
  RcSpaces,      \* the spaces the user names to create-route
  RcFaults,      \* kinds of remote call of these commands that may fail
  RcLostReplies, \* kinds of call that may be done while their reply is lost
  MaxRouteCmds   \* bound on the number of commands the user runs

VARIABLES
  routeOwner,  \* route -> owning space, or Nil
  bound,       \* set of <<route, app name>> bindings
  rcPc,        \* where the current command is
  rcCmd,       \* "create" or "delete"
  rcRoute,     \* the route it names
  rcSpace,     \* the space create-route names
  rcRuns       \* commands started so far

RcPCs == {"idle", "createInSpace", "findExisting", "find", "delete",
          "done", "failed"}

RcMayFail(c) == c \in RcFaults

\* The controller does the call of kind c but its reply is lost.
RcLostReply(c) == c \in RcLostReplies

\* A command may start once the previous one has ended.
RcIdle == rcPc \in {"idle", "done", "failed"} /\ rcRuns < MaxRouteCmds

-----------------------------------------------------------------------------
(***************************************************************************)
(* create-route: CreateInSpace; when it fails, FindByHostAndDomain, and a *)
(* route found in the same space (and domain) is reported as already     *)
(* existing, with success.                                                *)
(***************************************************************************)
\* GetRequirements, then Run: exactly the arguments SPACE and DOMAIN, a
\* login, a targeted org, and the space and the domain found by name, or
\* the framework never calls Run.
StartCreateRoute ==
  /\ RcIdle
  /\ \E r \in RcRoutes, s \in RcSpaces :
       rcRoute' = r /\ rcSpace' = s
  /\ rcCmd' = "create"
  /\ \/ rcPc' = "createInSpace"
     \/ rcPc' = "failed"
  /\ rcRuns' = rcRuns + 1
  /\ UNCHANGED <<routeOwner, bound>>

CreateInSpace ==
  /\ rcPc = "createInSpace"
  /\ \/ /\ routeOwner[rcRoute] = Nil
        /\ routeOwner' = [routeOwner EXCEPT ![rcRoute] = rcSpace]
        /\ rcPc' = "done"
     \/ /\ routeOwner[rcRoute] = Nil /\ RcLostReply("createInSpace")
        /\ routeOwner' = [routeOwner EXCEPT ![rcRoute] = rcSpace]
        /\ rcPc' = "findExisting"
     \/ /\ routeOwner[rcRoute] # Nil \/ RcMayFail("createInSpace")
        /\ rcPc' = "findExisting"
        /\ UNCHANGED routeOwner
  /\ UNCHANGED <<bound, rcCmd, rcRoute, rcSpace, rcRuns>>

FindExisting ==
  /\ rcPc = "findExisting"
  /\ \/ /\ routeOwner[rcRoute] = rcSpace
        /\ rcPc' = "done"
     \/ /\ routeOwner[rcRoute] # rcSpace \/ RcMayFail("findExisting")
        /\ rcPc' = "failed"
  /\ UNCHANGED <<routeOwner, bound, rcCmd, rcRoute, rcSpace, rcRuns>>

-----------------------------------------------------------------------------
(***************************************************************************)
(* delete-route: without -f the user is asked and may decline; then       *)
(* FindByHostAndDomain (not found: a warning, and the command returns),  *)
(* then Delete.  The controller removes the route with its bindings.     *)
(***************************************************************************)
\* GetRequirements (exactly the argument DOMAIN, and a login), then Run
\* up to the confirmation.
StartDeleteRoute ==
  /\ RcIdle
  /\ \E r \in RcRoutes : rcRoute' = r
  /\ \/ rcPc' = "failed"
     \/ \E confirmed \in BOOLEAN :
          rcPc' = IF confirmed THEN "find" ELSE "done"
  /\ rcCmd' = "delete"
  /\ rcRuns' = rcRuns + 1
  /\ UNCHANGED <<routeOwner, bound, rcSpace>>

FindRouteToDelete ==
  /\ rcPc = "find"
  /\ \/ /\ routeOwner[rcRoute] = Nil
        /\ rcPc' = "done"
     \/ /\ routeOwner[rcRoute] # Nil
        /\ rcPc' = "delete"
     \/ /\ RcMayFail("find")
        /\ rcPc' = "failed"
  /\ UNCHANGED <<routeOwner, bound, rcCmd, rcRoute, rcSpace, rcRuns>>

DeleteRoute ==
  /\ rcPc = "delete"
  /\ \/ /\ routeOwner' = [routeOwner EXCEPT ![rcRoute] = Nil]
        /\ bound' = {b \in bound : b[1] # rcRoute}
        /\ rcPc' = "done"
     \/ /\ RcMayFail("delete")
        /\ rcPc' = "failed"
        /\ UNCHANGED <<routeOwner, bound>>
     \/ /\ RcLostReply("delete")
        /\ routeOwner' = [routeOwner EXCEPT ![rcRoute] = Nil]
        /\ bound' = {b \in bound : b[1] # rcRoute}
        /\ rcPc' = "failed"
  /\ UNCHANGED <<rcCmd, rcRoute, rcSpace, rcRuns>>

RcInit ==
  /\ rcPc = "idle" /\ rcCmd = "create" /\ rcRoute = Nil /\ rcSpace = Nil
  /\ rcRuns = 0

RcNext ==
  \/ StartCreateRoute
  \/ CreateInSpace
  \/ FindExisting
  \/ StartDeleteRoute
  \/ FindRouteToDelete
  \/ DeleteRoute

=============================================================================
