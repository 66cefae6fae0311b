-------------------------------- MODULE Push --------------------------------
(***************************************************************************)
(* The Push Orchestrator of `cf push' (Push.Run in                        *)
(* src/cf/commands/application/push.go) against a model of the remote     *)
(* controller's state.  A behaviour is a series of up to MaxPushes         *)
(* invocations of the command by the user.  Each one builds the AppSet    *)
(* (module AppSet) and pushes its apps one after the other, each through   *)
(* the fixed pipeline stack -> app -> route -> bind -> upload -> services *)
(* -> restart -> start.  Every ui.Failed ends the process: pc = "failed". *)
(*                                                                         *)
(* Every remote call whose kind is in Faults may also return a transport  *)
(* error.  The program is single-threaded, so the only interleaving is    *)
(* the order of its own calls and the outcomes the remote side returns.  *)
(***************************************************************************)
EXTENDS Naturals, Sequences, SequencesExt, FiniteSets

CONSTANTS
  Nil, Cwd,
  AppNames,         \* names of apps
  Hosts,            \* host labels (character sequences): normalized app
                    \* names and -n values
  HostOf,           \* hostNameForString, a function AppNames -> Hosts
  Words,            \* what the word generator's Babble may return
  Domains,          \* domain names a push may mention
  OrgDomains,       \* the domains of the targeted organization
  SharedDomains,    \* those of OrgDomains that are shared
  DomainListing,    \* OrgDomains in the order ListDomainsForOrg visits them
  RemoteStacks,     \* stack names the controller knows
  ServiceInstances, \* service instance names that exist in the space
  EnvKeys, EnvVals, \* environment variable keys and values
  CurrentSpace, OtherSpace,
  InitAppState, InitAppEnv, InitRouteOwner, InitBound,
  Invocations,      \* the command lines (and manifests) the user may run
  MaxPushes,        \* bound on the number of invocations
  Faults,           \* kinds of remote call that may fail
  LostReplies       \* kinds of call that may take effect and still fail

INSTANCE AppSet

VARIABLES
  \* the remote controller
  appState,    \* app name -> "absent", "stopped" or "started"
  appEnv,      \* app name -> env key -> value or Nil
  routeOwner,  \* route -> the space owning it, Nil if the route does not exist
  bound,       \* set of <<route, app name>> bindings
  svcBound,    \* set of <<service instance, app name>> bindings
  uploaded,    \* apps whose bits have been uploaded
  \* the running command
  pc,          \* where the command is
  pushes,      \* invocations started so far
  inv,         \* the current invocation
  prev,        \* the previous invocation and whether it ended with success
  appSet,      \* the AppSet of the current invocation
  idx,         \* index in appSet of the app being pushed
  app,         \* the Application value returned by create or update
  route,       \* the route found or created by bindAppToRoute
  svcIdx,      \* index in the app's services of the next one to bind
  why,         \* the kind of the error that ended the command
  calls        \* kinds of state-changing remote calls made by this invocation

remote == <<appState, appEnv, routeOwner, bound, svcBound, uploaded>>
local  == <<pc, pushes, inv, prev, appSet, idx, app, route, svcIdx, why, calls>>
vars   == <<remote, local>>

-----------------------------------------------------------------------------
AppStates == {"absent", "stopped", "started"}
\* The host "", as the empty sequence of characters.
EmptyHost == <<>>
\* hostNameForString(name) + "-" + Babble()
RandomHost(h, w) == h \o <<"-">> \o w
Hostnames == Hosts \cup {EmptyHost} \cup {RandomHost(h, w) : h \in Hosts, w \in Words}
RouteKeys == Hostnames \X Domains
NoEnv     == [k \in EnvKeys |-> Nil]
NoApp     == [routes |-> {}, state |-> "absent"]
PCs == {"idle", "stack", "app", "route", "createRoute", "bind", "upload",
        "services", "restart", "start", "done", "failed"}
MutatingCalls == {"createApp", "updateApp", "createRoute", "bindRoute",
                  "unbindRoute", "upload", "bindService", "stop", "start"}
RouteCalls == {"createRoute", "bindRoute", "unbindRoute"}

\* The app being pushed and its parameters.
Params == appSet[idx]
Name   == Params.name

\* The remote call of kind c may return a transport error.
MayFail(c) == c \in Faults

\* The request of kind c reaches the controller and is done, but its
\* reply is lost: the client sees a transport error all the same.
LostReply(c) == c \in LostReplies

\* Application.Routes as the controller reports it.
RoutesOf(a) == {r \in RouteKeys : <<r, a>> \in bound}

(***************************************************************************)
(* ui.Failed: report and exit.  The error is kept with where the command  *)
(* was: the app, the step and the service.  Kind "fault" is a transport   *)
(* error of a call that could as well have succeeded; "remote" is the     *)
(* code's verdict on the controller's state (not found, already exists).  *)
(***************************************************************************)
Fail(kind) ==
  pc' = "failed" /\ why' = [kind |-> kind, at |-> <<idx, pc, svcIdx>>]

\* The error of a call that fails when verdict holds or by a fault.
Cause(verdict) == IF verdict THEN "remote" ELSE "fault"

NoError == [kind |-> "none", at |-> <<1, "idle", 1>>]

-----------------------------------------------------------------------------
(***************************************************************************)
(* Run: build the AppSet; a usage error ends the command before any       *)
(* remote call.                                                            *)
(***************************************************************************)
\* GetRequirements: more than one argument, no login or no targeted space,
\* and Run is never called.  Login and target are the user's, so any
\* command line may meet the requirements or not.
Requirements(i, met) ==
  IF met THEN FindAndValidateAppsToPush(i.cli, i.manifest)
         ELSE Failure("Requirements")

StartPush ==
  /\ pc \in {"idle", "done", "failed"}
  /\ pushes < MaxPushes
  /\ \E i \in Invocations, met \in BOOLEAN :
       LET set == Requirements(i, met) IN
       /\ inv' = i
       /\ prev' = [inv |-> inv, ok |-> pc = "done", why |-> why]
       /\ appSet' = set.apps
       /\ IF set.err = "none" THEN pc' = "stack" /\ why' = NoError
                              ELSE Fail("usage")
  /\ pushes' = pushes + 1
  /\ idx' = 1 /\ app' = NoApp /\ route' = Nil /\ svcIdx' = 1 /\ calls' = {}
  /\ UNCHANGED remote

\* Mutant of NextApp: an off-by-one in the loop over the AppSet.
NextAppOffByOne ==
  /\ IF idx + 1 < Len(appSet) THEN idx' = idx + 1 /\ pc' = "stack"
                              ELSE pc' = "done" /\ UNCHANGED idx
  /\ app' = NoApp /\ route' = Nil /\ svcIdx' = 1

\* After the app is (re)started: the next app of the AppSet, or the end.
NextApp ==
  /\ IF idx < Len(appSet) THEN idx' = idx + 1 /\ pc' = "stack"
                          ELSE pc' = "done" /\ UNCHANGED idx
  /\ app' = NoApp /\ route' = Nil /\ svcIdx' = 1

(***************************************************************************)
(* fetchStackGuid: a named stack must exist.                               *)
(***************************************************************************)
FetchStackGuid ==
  /\ pc = "stack"
  /\ \/ /\ Params.stack = Nil \/ Params.stack \in RemoteStacks
        /\ pc' = "app"
        /\ UNCHANGED why
     \/ /\ Params.stack # Nil
        /\ Params.stack \notin RemoteStacks \/ MayFail("findStack")
        /\ Fail(Cause(Params.stack \notin RemoteStacks))
  /\ UNCHANGED <<remote, pushes, inv, prev, appSet, idx, app, route, svcIdx, calls>>

\* Mutant of UpdatedEnv: the incoming map is sent without the merge loop.
UpdatedEnvReplacing(a) ==
  IF Params.env = Nil THEN appEnv[a] ELSE Params.env

(***************************************************************************)
(* updateApp: every existing variable the incoming map does not mention   *)
(* is copied into it; without an incoming map the env is not sent.        *)
(***************************************************************************)
UpdatedEnv(a) ==
  IF Params.env = Nil THEN appEnv[a]
  ELSE [k \in EnvKeys |-> IF Params.env[k] # Nil THEN Params.env[k]
                                                  ELSE appEnv[a][k]]

\* Mutant of CreateApp: the state kept as the API spells it, "STOPPED".
CreateAppUpperCaseState(a) ==
  /\ appState' = [appState EXCEPT ![a] = "STOPPED"]
  /\ appEnv' = [appEnv EXCEPT ![a] = IF Params.env = Nil THEN NoEnv
                                                         ELSE Params.env]
  /\ app' = [routes |-> {}, state |-> "STOPPED"]

CreateApp(a) ==
  /\ appState' = [appState EXCEPT ![a] = "stopped"]
  /\ appEnv' = [appEnv EXCEPT ![a] = IF Params.env = Nil THEN NoEnv
                                                         ELSE Params.env]
  /\ app' = [routes |-> {}, state |-> "stopped"]

UpdateApp(a) ==
  /\ appEnv' = [appEnv EXCEPT ![a] = UpdatedEnv(a)]
  /\ app' = [routes |-> RoutesOf(a), state |-> appState[a]]
  /\ UNCHANGED appState

(***************************************************************************)
(* createOrUpdateApp: Read by name; found -> updateApp, not found ->      *)
(* createApp, any other error, or a failing create or update, ends it.    *)
(***************************************************************************)
CreateOrUpdateApp ==
  /\ pc = "app"
  /\ \/ /\ Name = Nil
        /\ Fail("usage")
        /\ UNCHANGED <<appState, appEnv, app, calls>>
     \/ /\ Name # Nil
        /\ MayFail("readApp")
        /\ Fail("fault")
        /\ UNCHANGED <<appState, appEnv, app, calls>>
     \/ /\ Name # Nil
        /\ LET kind == IF appState[Name] = "absent" THEN "createApp"
                                                    ELSE "updateApp"
           IN  /\ calls' = calls \cup {kind}
               /\ \/ /\ MayFail(kind)
                     /\ Fail("fault")
                     /\ UNCHANGED <<appState, appEnv, app>>
                  \/ /\ kind = "createApp" /\ CreateApp(Name)
                     /\ pc' = "route" /\ UNCHANGED why
                  \/ /\ kind = "updateApp" /\ UpdateApp(Name)
                     /\ pc' = "route" /\ UNCHANGED why
                  \/ /\ LostReply(kind)
                     /\ IF kind = "createApp" THEN CreateApp(Name)
                                             ELSE UpdateApp(Name)
                     /\ Fail("fault")
  /\ UNCHANGED <<routeOwner, bound, svcBound, uploaded, pushes, inv, prev,
                 appSet, idx, route, svcIdx>>

-----------------------------------------------------------------------------
(***************************************************************************)
(* bindAppToRoute                                                          *)
(***************************************************************************)
NoRouteWanted == Params.noRoute = TRUE

\* Mutant of RouteFlagsPresent: -n is not counted as a route flag.
RouteFlagsPresentNoHost ==
  inv.cli.params.domain # Nil \/ inv.cli.noHostname

\* routeFlagsPresent: -n, -d or --no-hostname on the command line.
RouteFlagsPresent ==
  inv.cli.params.host # Nil \/ inv.cli.params.domain # Nil \/ inv.cli.noHostname

\* --no-route: unbind every route of the app.  Unbind errors are not
\* looked at, so any of the unbinds may have failed silently.
UnbindRoutes ==
  /\ pc = "route"
  /\ NoRouteWanted /\ app.routes # {}
  /\ \E kept \in IF MayFail("unbindRoute") THEN SUBSET app.routes ELSE {{}} :
       bound' = bound \ {<<r, Name>> : r \in app.routes \ kept}
  /\ calls' = calls \cup {"unbindRoute"}
  /\ pc' = "upload"
  /\ UNCHANGED <<appState, appEnv, routeOwner, svcBound, uploaded, pushes,
                 inv, prev, appSet, idx, app, route, svcIdx, why>>

\* Mutant of SkipRouting: --no-route skips routing whatever routes the app has.
SkipRoutingNoRoute ==
  /\ pc = "route"
  /\ \/ NoRouteWanted
     \/ ~NoRouteWanted /\ app.routes # {} /\ ~RouteFlagsPresent
  /\ pc' = "upload"
  /\ UNCHANGED <<remote, pushes, inv, prev, appSet, idx, app, route, svcIdx,
                 why, calls>>

\* A worker with no routes, or an app that has routes and no route flags.
SkipRouting ==
  /\ pc = "route"
  /\ \/ NoRouteWanted /\ app.routes = {}
     \/ ~NoRouteWanted /\ app.routes # {} /\ ~RouteFlagsPresent
  /\ pc' = "upload"
  /\ UNCHANGED <<remote, pushes, inv, prev, appSet, idx, app, route, svcIdx,
                 why, calls>>

\* The domains findDefaultDomain's visitor sees: it returns !domain.Shared,
\* so the listing stops after the first shared domain.
VisitedDomains ==
  LET i == SelectInSeq(DomainListing, LAMBDA d : d \in SharedDomains)
  IN  IF i = 0 THEN DomainListing ELSE SubSeq(DomainListing, 1, i)

\* findDomain: the domains it may return, Nil for an error.  The error of
\* ListDomainsForOrg is dropped: a listing failing after any prefix leaves
\* the last domain visited.
FindDomain ==
  IF Params.domain # Nil
  THEN (IF Params.domain \in OrgDomains THEN {Params.domain} ELSE {})
       \cup (IF Params.domain \notin OrgDomains \/ MayFail("findDomain")
             THEN {Nil} ELSE {})
  ELSE {IF v = <<>> THEN Nil ELSE Last(v) :
          v \in IF MayFail("listDomains") THEN Prefixes(VisitedDomains)
                                         ELSE {VisitedDomains}}

\* hostnameForApp; a random host is the name's host joined to a word.
HostnameForApp ==
  CASE inv.cli.noHostname       -> {EmptyHost}
    [] Params.host # Nil        -> {Params.host}
    [] Params.randomRoute = TRUE -> {RandomHost(HostOf[Name], w) : w \in Words}
    [] OTHER                    -> {HostOf[Name]}

\* findDomain finds no domain whatever the calls return.
NoDomain ==
  IF Params.domain # Nil THEN Params.domain \notin OrgDomains
                         ELSE VisitedDomains = <<>>

\* Resolve the domain and host, then look the route up by host and domain.
MapRoute ==
  /\ pc = "route"
  /\ ~NoRouteWanted /\ (app.routes = {} \/ RouteFlagsPresent)
  /\ \E d \in FindDomain, h \in HostnameForApp :
       \/ /\ d = Nil \/ MayFail("findRoute")
          /\ Fail(Cause(d = Nil /\ NoDomain))
          /\ UNCHANGED route
       \/ /\ d # Nil
          /\ route' = <<h, d>>
          /\ pc' = IF routeOwner[<<h, d>>] # Nil THEN "bind" ELSE "createRoute"
          /\ UNCHANGED why
  /\ UNCHANGED <<remote, pushes, inv, prev, appSet, idx, app, svcIdx, calls>>

\* The route was not found: create it.  The lookup and the creation are two
\* calls, and a route created by someone else in between makes Create fail.
CreateRoute ==
  /\ pc = "createRoute"
  /\ calls' = calls \cup {"createRoute"}
  /\ \/ /\ routeOwner[route] # Nil \/ MayFail("createRoute")
        /\ Fail(Cause(routeOwner[route] # Nil))
        /\ UNCHANGED routeOwner
     \/ /\ routeOwner[route] = Nil
        /\ routeOwner' = [routeOwner EXCEPT ![route] = CurrentSpace]
        /\ pc' = "bind"
        /\ UNCHANGED why
     \/ /\ routeOwner[route] = Nil /\ LostReply("createRoute")
        /\ routeOwner' = [routeOwner EXCEPT ![route] = CurrentSpace]
        /\ Fail("fault")
  /\ UNCHANGED <<appState, appEnv, bound, svcBound, uploaded, pushes, inv,
                 prev, appSet, idx, app, route, svcIdx>>

\* Mutant of BindRoute: the app.HasRoute test is dropped.
BindRouteAlways ==
  /\ pc = "bind"
  /\ calls' = calls \cup {"bindRoute"}
  /\ \/ /\ routeOwner[route] \notin {CurrentSpace, Nil}
        /\ Fail("routeTaken")
        /\ UNCHANGED bound
     \/ /\ routeOwner[route] = Nil
        /\ Fail("remote")
        /\ UNCHANGED bound
     \/ /\ MayFail("bindRoute")
        /\ Fail("fault")
        /\ UNCHANGED bound
     \/ /\ routeOwner[route] = CurrentSpace
        /\ bound' = bound \cup {<<route, Name>>}
        /\ pc' = "upload"
        /\ UNCHANGED why
     \/ /\ routeOwner[route] = CurrentSpace /\ LostReply("bindRoute")
        /\ bound' = bound \cup {<<route, Name>>}
        /\ Fail("fault")
  /\ UNCHANGED <<appState, appEnv, routeOwner, svcBound, uploaded, pushes,
                 inv, prev, appSet, idx, app, route, svcIdx>>

\* Bind the route unless the app already has it.  A route of another
\* space is refused with INVALID_RELATION: "route already in use"; a route
\* deleted since it was found is an error like any other.
BindRoute ==
  /\ pc = "bind"
  /\ \/ /\ route \in app.routes
        /\ pc' = "upload"
        /\ UNCHANGED <<bound, calls, why>>
     \/ /\ route \notin app.routes
        /\ calls' = calls \cup {"bindRoute"}
        /\ \/ /\ routeOwner[route] \notin {CurrentSpace, Nil}
              /\ Fail("routeTaken")
              /\ UNCHANGED bound
           \/ /\ routeOwner[route] = Nil
              /\ Fail("remote")
              /\ UNCHANGED bound
           \/ /\ MayFail("bindRoute")
              /\ Fail("fault")
              /\ UNCHANGED bound
           \/ /\ routeOwner[route] = CurrentSpace
              /\ bound' = bound \cup {<<route, Name>>}
              /\ pc' = "upload"
              /\ UNCHANGED why
           \/ /\ routeOwner[route] = CurrentSpace /\ LostReply("bindRoute")
              /\ bound' = bound \cup {<<route, Name>>}
              /\ Fail("fault")
  /\ UNCHANGED <<appState, appEnv, routeOwner, svcBound, uploaded, pushes,
                 inv, prev, appSet, idx, app, route, svcIdx>>

-----------------------------------------------------------------------------
(***************************************************************************)
(* Run: UploadApp; a failure ends the command.                             *)
(***************************************************************************)
UploadApp ==
  /\ pc = "upload"
  /\ calls' = calls \cup {"upload"}
  /\ \/ /\ MayFail("upload")
        /\ Fail("fault")
        /\ UNCHANGED uploaded
     \/ /\ uploaded' = uploaded \cup {Name}
        /\ pc' = IF Params.services # Nil THEN "services" ELSE "restart"
        /\ UNCHANGED why
     \/ /\ LostReply("upload")
        /\ uploaded' = uploaded \cup {Name}
        /\ Fail("fault")
  /\ UNCHANGED <<appState, appEnv, routeOwner, bound, svcBound, pushes, inv,
                 prev, appSet, idx, app, route, svcIdx>>

(***************************************************************************)
(* bindAppToServices: in list order; a missing instance ends the command; *)
(* an APP_ALREADY_BOUND error counts as success.                          *)
(***************************************************************************)
BindResults(s) ==
  (IF <<s, Name>> \in svcBound THEN {"alreadyBound"} ELSE {"ok"})
  \cup (IF MayFail("bindService") THEN {"error"} ELSE {})
  \cup (IF LostReply("bindService") /\ <<s, Name>> \notin svcBound
        THEN {"lost"} ELSE {})

\* The binding a bind call with this result leaves behind.
BindEffect(s, result) ==
  IF result \in {"ok", "lost"} THEN svcBound \cup {<<s, Name>>} ELSE svcBound

\* Mutant of IsBindSuccess: every bind error is taken for APP_ALREADY_BOUND.
IsBindSuccessAnyError(result) == TRUE

\* Mutant of IsBindSuccess: APP_ALREADY_BOUND is taken for a failure.
IsBindSuccessStrict(result) == result = "ok"

IsBindSuccess(result) == result \in {"ok", "alreadyBound"}

BindAppToServices ==
  /\ pc = "services"
  /\ \/ /\ svcIdx > Len(Params.services)
        /\ pc' = "restart"
        /\ UNCHANGED <<svcBound, svcIdx, calls, why>>
     \/ /\ svcIdx <= Len(Params.services)
        /\ LET s == Params.services[svcIdx] IN
           \/ /\ s \notin ServiceInstances \/ MayFail("findService")
              /\ Fail(Cause(s \notin ServiceInstances))
              /\ UNCHANGED <<svcBound, svcIdx, calls>>
           \/ /\ s \in ServiceInstances
              /\ calls' = calls \cup {"bindService"}
              /\ \E result \in BindResults(s) :
                   IF IsBindSuccess(result)
                   THEN /\ svcBound' = BindEffect(s, result)
                        /\ svcIdx' = svcIdx + 1
                        /\ UNCHANGED <<pc, why>>
                   ELSE /\ Fail(IF result = "alreadyBound" THEN "remote"
                                                             ELSE "fault")
                        /\ svcBound' = BindEffect(s, result)
                        /\ UNCHANGED svcIdx
  /\ UNCHANGED <<appState, appEnv, routeOwner, bound, uploaded, pushes, inv,
                 prev, appSet, idx, app, route>>

(***************************************************************************)
(* restart: stop an app that is not stopped (an error is swallowed), then *)
(* unless --no-start start it; a failing start ends the command.          *)
(***************************************************************************)
StopApp ==
  /\ pc = "restart"
  /\ IF app.state # "stopped"
     THEN /\ calls' = calls \cup {"stop"}
          /\ \/ appState' = [appState EXCEPT ![Name] = "stopped"]
             \/ MayFail("stop") /\ UNCHANGED appState
     ELSE UNCHANGED <<appState, calls>>
  /\ pc' = "start"
  /\ UNCHANGED <<appEnv, routeOwner, bound, svcBound, uploaded, pushes, inv,
                 prev, appSet, idx, app, route, svcIdx, why>>

StartApp ==
  /\ pc = "start"
  /\ IF inv.cli.noStart
     THEN NextApp /\ UNCHANGED <<appState, calls, why>>
     ELSE /\ calls' = calls \cup {"start"}
          /\ \/ /\ MayFail("start")
                /\ Fail("fault")
                /\ UNCHANGED <<appState, idx, app, route, svcIdx>>
             \/ /\ appState' = [appState EXCEPT ![Name] = "started"]
                /\ NextApp
                /\ UNCHANGED why
             \/ /\ LostReply("start")
                /\ appState' = [appState EXCEPT ![Name] = "started"]
                /\ Fail("fault")
                /\ UNCHANGED <<idx, app, route, svcIdx>>
  /\ UNCHANGED <<appEnv, routeOwner, bound, svcBound, uploaded, pushes, inv,
                 prev, appSet>>

-----------------------------------------------------------------------------
Init ==
  /\ appState = InitAppState
  /\ appEnv = InitAppEnv
  /\ routeOwner = InitRouteOwner
  /\ bound = InitBound
  /\ svcBound = {}
  /\ uploaded = {}
  /\ pc = "idle"
  /\ pushes = 0
  /\ inv = Nil
  /\ prev = [inv |-> Nil, ok |-> FALSE, why |-> NoError]
  /\ appSet = <<>>
  /\ idx = 1
  /\ app = NoApp
  /\ route = Nil
  /\ svcIdx = 1
  /\ why = NoError
  /\ calls = {}

Next ==
  \/ StartPush
  \/ FetchStackGuid
  \/ CreateOrUpdateApp
  \/ UnbindRoutes
  \/ SkipRouting
  \/ MapRoute
  \/ CreateRoute
  \/ BindRoute
  \/ UploadApp
  \/ BindAppToServices
  \/ StopApp
  \/ StartApp

Spec == Init /\ [][Next]_vars

-----------------------------------------------------------------------------
(***************************************************************************)
(* Properties                                                              *)
(***************************************************************************)

Errors == [kind : {"none", "usage", "remote", "routeTaken", "fault"},
           at : Nat \X PCs \X Nat]

\* Every variable ranges over its type.
TypeOK ==
  /\ appState \in [AppNames -> AppStates]
  /\ appEnv \in [AppNames -> [EnvKeys -> EnvVals \cup {Nil}]]
  /\ routeOwner \in [RouteKeys -> {CurrentSpace, OtherSpace, Nil}]
  /\ bound \subseteq RouteKeys \X AppNames
  /\ svcBound \subseteq ServiceInstances \X AppNames
  /\ uploaded \subseteq AppNames
  /\ pc \in PCs
  /\ pushes \in 0..MaxPushes
  /\ inv \in Invocations \cup {Nil}
  /\ prev \in [inv : Invocations \cup {Nil}, ok : BOOLEAN, why : Errors]
  /\ idx \in 1..Len(appSet) \/ appSet = <<>>
  /\ app \in [routes : SUBSET RouteKeys, state : AppStates]
  /\ route \in RouteKeys \cup {Nil}
  /\ svcIdx \in Nat \ {0}
  /\ why \in Errors
  /\ calls \subseteq MutatingCalls

\* The apps of an AppSet that ended with success.
PushedEntries == IF pc = "done" THEN {appSet[i] : i \in 1..Len(appSet)} ELSE {}

(***************************************************************************)
(* updateApp's environment reconciliation: no step of the command ever    *)
(* removes an environment variable an existing app has (the update keeps  *)
(* every key the incoming parameters do not mention).                     *)
(***************************************************************************)
UpdatePreservesEnv ==
  [][\A a \in AppNames, k \in EnvKeys :
       appState[a] # "absent" /\ appEnv[a][k] # Nil => appEnv'[a][k] # Nil]_vars

(***************************************************************************)
(* bindAppToRoute: when a push ends with success, every pushed app with   *)
(* --no-route has no route, every other one has a route, and one given    *)
(* -n or -d on the command line is bound to a route of that host and      *)
(* domain (even when it had other routes before).                         *)
(***************************************************************************)
RouteIntentHonoured ==
  \A e \in PushedEntries :
    IF e.noRoute = TRUE THEN RoutesOf(e.name) = {}
    ELSE /\ RoutesOf(e.name) # {}
         /\ inv.cli.params.host # Nil \/ inv.cli.params.domain # Nil =>
              \E r \in RoutesOf(e.name) :
                /\ e.host # Nil => r[1] = e.host
                /\ e.domain # Nil => r[2] = e.domain

(***************************************************************************)
(* bindAppToRoute, per app: the step that ends the routing of an app      *)
(* leaves it without routes when --no-route is asked and with a route     *)
(* otherwise.  The decision to skip or bind is taken on the routes of the *)
(* Application value read before, so it fails when that value is stale.  *)
(***************************************************************************)
AppRoutedAsAsked ==
  [][pc' = "upload" /\ pc \in {"route", "bind"} =>
       (IF NoRouteWanted THEN RoutesOf(Name)' = {}
                         ELSE RoutesOf(Name)' # {})]_vars

(***************************************************************************)
(* bindAppToServices: when a push ends with success, every service named  *)
(* by a pushed app is bound to it, whether it was bound before or not.    *)
(***************************************************************************)
ServicesBoundAfterPush ==
  \A e \in PushedEntries :
    e.services # Nil =>
      \A j \in 1..Len(e.services) : <<e.services[j], e.name>> \in svcBound

(***************************************************************************)
(* Run and restart: when a push ends with success every pushed app has    *)
(* its bits uploaded, and is started unless --no-start was given.         *)
(***************************************************************************)
PushedAppsRunning ==
  \A e \in PushedEntries :
    /\ e.name \in uploaded
    /\ ~inv.cli.noStart => appState[e.name] = "started"

\* The invocation lets hostnameForApp pick a random host: --random-route
\* somewhere, and no --no-hostname (which gives the host "" first).
UsesRandomRoute(i) ==
  /\ ~i.cli.noHostname
  /\ \/ i.cli.params.randomRoute = TRUE
     \/ \E j \in 1..Len(i.manifest.apps) : i.manifest.apps[j].randomRoute = TRUE

(***************************************************************************)
(* Route reconciliation is idempotent: running again the invocation that  *)
(* just succeeded makes no app creation and no route creation, bind or    *)
(* unbind call (spec section 8).  Random routes are excluded: they are    *)
(* new by design.                                                         *)
(***************************************************************************)
RePushIsIdempotent ==
  prev.ok /\ prev.inv = inv /\ ~UsesRandomRoute(inv) =>
    calls \cap (RouteCalls \cup {"createApp"}) = {}

\* The steps of the pipeline of one app, in the order Run takes them.
StageOrder ==
  <<"stack", "app", "route", "createRoute", "bind", "upload", "services",
    "restart", "start">>

Stage(s) == SelectInSeq(StageOrder, LAMBDA t : t = s)

\* Position p = <<app, step, service>> comes strictly after position q.
Beyond(p, q) ==
  \/ p[1] > q[1]
  \/ p[1] = q[1] /\ Stage(p[2]) > Stage(q[2])
  \/ p[1] = q[1] /\ p[2] = q[2] /\ p[3] > q[3]

(***************************************************************************)
(* Recovery by re-running: when a push ended on a transport fault and the *)
(* user runs the same command again, what the first run already did (the *)
(* app created, routes created and bound, services bound, the app        *)
(* stopped) never makes the second one fail on an error of the           *)
(* controller's state before the step where the first one stopped (at    *)
(* that step it may: the fault can hide a refusal such as a route of     *)
(* another space).  Random routes are excluded: a new host is drawn.     *)
(***************************************************************************)
RePushGetsFurther ==
  /\ pc = "failed" /\ why.kind \in {"remote", "routeTaken"}
  /\ prev.inv = inv /\ prev.why.kind = "fault" /\ ~UsesRandomRoute(inv)
  => ~Beyond(prev.why.at, why.at)

(***************************************************************************)
(* A usage error (an app without a name) ends the command before any      *)
(* remote state is changed (spec section 7, UsageError).                  *)
(***************************************************************************)
UsageErrorBeforeRemoteChange ==
  why.kind = "usage" => calls = {}

\* The default domain the spec describes: the first listed domain that is
\* not shared, else the first shared one.
SpecDefaultDomain ==
  LET i == SelectInSeq(DomainListing, LAMBDA d : d \notin SharedDomains)
  IN  IF i # 0 THEN DomainListing[i] ELSE DomainListing[1]

(***************************************************************************)
(* findDefaultDomain: an app pushed without a domain is routed on the     *)
(* first private domain of the organization when there is one (spec 4.5). *)
(***************************************************************************)
DefaultDomainIsFirstPrivate ==
  pc = "bind" /\ Params.domain = Nil => route[2] = SpecDefaultDomain

=============================================================================
