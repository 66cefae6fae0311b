------------------------------- MODULE AppSet -------------------------------
(***************************************************************************)
(* The Parameter Merger of `cf push' (src/cf/commands/application/push.go, *)
(* findAndValidateAppsToPush and the helpers it calls): from the command  *)
(* line and the manifest it builds the ordered list of ApplicationParams  *)
(* (the AppSet) that Run pushes, or a usage error that ends the command   *)
(* before any remote call.                                                 *)
(*                                                                         *)
(* An AppParams is a record over ParamFields whose every field is either  *)
(* a value or Nil (the Go nil pointer).  The boolean fields NoRoute and   *)
(* UseRandomHostname are TRUE or Nil.  Memory, disk, instances, buildpack,*)
(* command and timeout are folded into the one field "settings": the      *)
(* merger treats them alike and no later step of this model reads them.   *)
(***************************************************************************)
EXTENDS Naturals, Sequences, SequencesExt

CONSTANTS
  Nil,   \* the absent value of an optional field
  Cwd    \* the working directory, the default path of an app

ParamFields ==
  {"name", "path", "host", "domain", "stack", "services", "env",
   "noRoute", "randomRoute", "settings"}

\* The AppParams with no field set.
NoParams == [f \in ParamFields |-> Nil]

\* The result of building the AppSet: an error kind or the apps.
Failure(kind) == [err |-> kind, apps |-> <<>>]
Success(apps) == [err |-> "none", apps |-> apps]

(***************************************************************************)
(* AppParams.Merge (models, not under src/, modelled from the spec):      *)
(* every field the command line sets overrides the manifest's.            *)
(***************************************************************************)
Merge(manifestApp, contextApp) ==
  [f \in ParamFields |->
     IF contextApp[f] # Nil THEN contextApp[f] ELSE manifestApp[f]]

(***************************************************************************)
(* AppParams.IsEmpty as the spec states it: no override other than the    *)
(* app name and the path.                                                  *)
(***************************************************************************)
IsEmpty(app) == \A f \in ParamFields \ {"name", "path"} : app[f] = Nil

\* addApp: a missing path defaults to the working directory.
WithPath(app) == IF app.path = Nil THEN [app EXCEPT !.path = Cwd] ELSE app

\* addApp's error: the app has no name.
MissingName(app) == app.name = Nil

\* findAppWithNameInManifest: the first manifest app with that name, or 0.
FindAppWithNameInManifest(name, manifestApps) ==
  SelectInSeq(manifestApps, LAMBDA p : p.name = name)

(***************************************************************************)
(* createAppSetFromContextAndManifest.  With several manifest apps the    *)
(* error of addApp is dropped: a nameless manifest app enters the AppSet. *)
(***************************************************************************)
CreateAppSet(contextApp, manifestApps) ==
  CASE Len(manifestApps) = 0 ->
         IF MissingName(contextApp) THEN Failure("MissingName")
         ELSE Success(<<WithPath(contextApp)>>)
    [] Len(manifestApps) = 1 ->
         LET merged == Merge(manifestApps[1], contextApp)
         IN  IF MissingName(merged) THEN Failure("MissingName")
             ELSE Success(<<WithPath(merged)>>)
    [] OTHER ->
         IF ~IsEmpty([contextApp EXCEPT !.name = Nil])
         THEN Failure("ConflictingFlags")
         ELSE IF contextApp.name # Nil
         THEN LET i == FindAppWithNameInManifest(contextApp.name, manifestApps)
              IN  IF i = 0 THEN Failure("AppNotFoundInManifest")
                  ELSE Success(<<WithPath(manifestApps[i])>>)
         ELSE Success([i \in 1..Len(manifestApps) |-> WithPath(manifestApps[i])])

(***************************************************************************)
(* getAppParamsFromManifest.  A manifest is "missing" (no file at the     *)
(* default path), "broken" (ReadManifest or Applications failed) or "ok"  *)
(* with its apps.  A missing file is an error only when -f named it.      *)
(***************************************************************************)
ManifestFails(cli, manifest) ==
  /\ ~cli.noManifest
  /\ \/ manifest.kind = "broken"
     \/ manifest.kind = "missing" /\ cli.manifestFlag

AppsFromManifest(cli, manifest) ==
  IF cli.noManifest \/ manifest.kind = "missing" THEN <<>> ELSE manifest.apps

(***************************************************************************)
(* getAppParamsFromContext: the AppParams the flags give, Nil when it     *)
(* fails (an instance count below 1, an unparsable disk, memory or        *)
(* timeout: cli.invalid).  Flag values are abstracted: "null" and         *)
(* "default" for -b and -c are values like any other.                    *)
(***************************************************************************)
AppParamsFromContext(cli) == IF cli.invalid THEN Nil ELSE cli.params

(***************************************************************************)
(* findAndValidateAppsToPush: the manifest is read first, then the flags  *)
(* are parsed, then the two are merged.                                   *)
(***************************************************************************)
FindAndValidateAppsToPush(cli, manifest) ==
  CASE ManifestFails(cli, manifest)   -> Failure("ManifestError")
    [] AppParamsFromContext(cli) = Nil -> Failure("InvalidFlag")
    [] OTHER -> CreateAppSet(AppParamsFromContext(cli),
                             AppsFromManifest(cli, manifest))

=============================================================================
