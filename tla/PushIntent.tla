------------------------------ MODULE PushIntent ------------------------------
(***************************************************************************)
(* What `cf push' promises, without its pipeline: an invocation takes a   *)
(* target (the AppSet and whether --no-start was given) and then changes  *)
(* the controller only by effects on the apps of that target, one remote  *)
(* call at a time and in any order:                                        *)
(*   - create a named app stopped, or merge new env vars into an existing *)
(*     one (never removing one);                                          *)
(*   - create a route in the current space, on the asked domain;          *)
(*   - bind an app that wants routes to a route of the current space, or  *)
(*     unbind routes from an app pushed with --no-route;                  *)
(*   - upload an app's bits, bind it to a service it names;               *)
(*   - stop it, or start it once its bits are uploaded.                   *)
(* It ends failed at any point (the failing call may have taken effect),  *)
(* or done, and done only when every app of the target is as asked.       *)
(* Module Push implements it (PushRefinement).                             *)
(***************************************************************************)
EXTENDS Naturals, Sequences

CONSTANTS
  Nil, AppNames, EnvKeys, ServiceInstances, CurrentSpace,
  Routes,           \* the route keys <<host, domain>>
  Targets,          \* the targets an invocation may have
  InitAppState, InitAppEnv, InitRouteOwner, InitBound

VARIABLES
  appState, appEnv, routeOwner, bound, svcBound, uploaded,
  status,   \* "idle", "running", "done" or "failed"
  target    \* [apps |-> AppSet, noStart |-> BOOLEAN]

remote == <<appState, appEnv, routeOwner, bound, svcBound, uploaded>>
ivars  == <<remote, status, target>>

Entries == {target.apps[i] : i \in 1..Len(target.apps)}
Named   == {e \in Entries : e.name # Nil}
NoEnv   == [k \in EnvKeys |-> Nil]

\* Env vars of an update: the incoming ones over the existing ones.
Merged(e, old) ==
  IF e.env = Nil THEN old
  ELSE [k \in EnvKeys |-> IF e.env[k] # Nil THEN e.env[k] ELSE old[k]]

RoutesOf(a) == {r \in Routes : <<r, a>> \in bound}

\* An app of the target is as asked.
AsAsked(e) ==
  /\ e.name \in uploaded
  /\ IF e.noRoute = TRUE THEN RoutesOf(e.name) = {}
                         ELSE RoutesOf(e.name) # {}
  /\ e.services # Nil =>
       \A j \in 1..Len(e.services) : <<e.services[j], e.name>> \in svcBound
  /\ ~target.noStart => appState[e.name] = "started"

-----------------------------------------------------------------------------
\* The effects of one remote call on app e.name.
CreateAppE(e) ==
  /\ appState[e.name] = "absent"
  /\ appState' = [appState EXCEPT ![e.name] = "stopped"]
  /\ appEnv' = [appEnv EXCEPT ![e.name] = IF e.env = Nil THEN NoEnv ELSE e.env]
  /\ UNCHANGED <<routeOwner, bound, svcBound, uploaded>>

UpdateEnvE(e) ==
  /\ appState[e.name] # "absent"
  /\ appEnv' = [appEnv EXCEPT ![e.name] = Merged(e, appEnv[e.name])]
  /\ UNCHANGED <<appState, routeOwner, bound, svcBound, uploaded>>

CreateRouteE(e) ==
  /\ e.noRoute # TRUE
  /\ \E r \in Routes :
       /\ routeOwner[r] = Nil
       /\ e.domain # Nil => r[2] = e.domain
       /\ routeOwner' = [routeOwner EXCEPT ![r] = CurrentSpace]
  /\ UNCHANGED <<appState, appEnv, bound, svcBound, uploaded>>

BindRouteE(e) ==
  /\ e.noRoute # TRUE
  /\ \E r \in Routes :
       /\ routeOwner[r] = CurrentSpace
       /\ e.domain # Nil => r[2] = e.domain
       /\ bound' = bound \cup {<<r, e.name>>}
  /\ UNCHANGED <<appState, appEnv, routeOwner, svcBound, uploaded>>

UnbindRoutesE(e) ==
  /\ e.noRoute = TRUE
  /\ \E gone \in SUBSET RoutesOf(e.name) :
       bound' = bound \ {<<r, e.name>> : r \in gone}
  /\ UNCHANGED <<appState, appEnv, routeOwner, svcBound, uploaded>>

UploadE(e) ==
  /\ uploaded' = uploaded \cup {e.name}
  /\ UNCHANGED <<appState, appEnv, routeOwner, bound, svcBound>>

BindServiceE(e) ==
  /\ e.services # Nil
  /\ \E j \in 1..Len(e.services) :
       svcBound' = svcBound \cup {<<e.services[j], e.name>>}
  /\ UNCHANGED <<appState, appEnv, routeOwner, bound, uploaded>>

StopE(e) ==
  /\ appState[e.name] # "absent"
  /\ appState' = [appState EXCEPT ![e.name] = "stopped"]
  /\ UNCHANGED <<appEnv, routeOwner, bound, svcBound, uploaded>>

StartE(e) ==
  /\ e.name \in uploaded
  /\ appState' = [appState EXCEPT ![e.name] = "started"]
  /\ UNCHANGED <<appEnv, routeOwner, bound, svcBound, uploaded>>

Effect(e) ==
  \/ CreateAppE(e) \/ UpdateEnvE(e)
  \/ CreateRouteE(e) \/ BindRouteE(e) \/ UnbindRoutesE(e)
  \/ UploadE(e) \/ BindServiceE(e) \/ StopE(e) \/ StartE(e)

-----------------------------------------------------------------------------
Begin ==
  /\ status \in {"idle", "done", "failed"}
  /\ \E t \in Targets : target' = t
  /\ status' = "running"
  /\ UNCHANGED remote

\* A usage error found while the AppSet is built: nothing is pushed.
Reject ==
  /\ status \in {"idle", "done", "failed"}
  /\ \E b \in BOOLEAN : target' = [apps |-> <<>>, noStart |-> b]
  /\ status' = "failed"
  /\ UNCHANGED remote

Step ==
  /\ status = "running"
  /\ \E e \in Named : Effect(e)
  /\ UNCHANGED <<status, target>>

\* The call that fails may have been done all the same (its reply lost).
Abort ==
  /\ status = "running"
  /\ \/ UNCHANGED remote
     \/ \E e \in Named : Effect(e)
  /\ status' = "failed"
  /\ UNCHANGED target

\* The last call may be the one that starts the last app.
Finish ==
  /\ status = "running"
  /\ \/ UNCHANGED remote
     \/ \E e \in Named : StartE(e)
  /\ \A e \in Entries : AsAsked(e)'
  /\ status' = "done"
  /\ UNCHANGED target

IInit ==
  /\ appState = InitAppState
  /\ appEnv = InitAppEnv
  /\ routeOwner = InitRouteOwner
  /\ bound = InitBound
  /\ svcBound = {}
  /\ uploaded = {}
  /\ status = "idle"
  /\ target = [apps |-> <<>>, noStart |-> FALSE]

INext == Begin \/ Reject \/ Step \/ Abort \/ Finish

ISpec == IInit /\ [][INext]_ivars

=============================================================================
