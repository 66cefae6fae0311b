---------------------------- MODULE PushRefinement ----------------------------
(***************************************************************************)
(* Module Push implements PushIntent: the remote variables are the same,  *)
(* the invocation's status is read off pc, and its target is the AppSet   *)
(* built by StartPush with the --no-start flag of the command line.       *)
(* Every pipeline step of Push is one effect of PushIntent or a stutter.  *)
(***************************************************************************)
EXTENDS Push

\* The targets the command lines can give.
TargetOf(i) ==
  [apps |-> FindAndValidateAppsToPush(i.cli, i.manifest).apps,
   noStart |-> i.cli.noStart]

Intent == INSTANCE PushIntent WITH
  Routes <- RouteKeys,
  Targets <- {TargetOf(i) : i \in Invocations},
  status <- CASE pc = "idle"              -> "idle"
              [] pc \in {"done", "failed"} -> pc
              [] OTHER                     -> "running",
  target <- [apps |-> appSet,
             noStart |-> IF inv = Nil THEN FALSE ELSE inv.cli.noStart]

-----------------------------------------------------------------------------
(***************************************************************************)
(* Every behaviour of Run is one PushIntent allows: the command changes   *)
(* only the apps of its AppSet, by the effects the spec lists (create,    *)
(* env merge, route create in this space, bind, --no-route unbind,        *)
(* upload, service bind, stop, start after upload), and it ends with      *)
(* success only when every app of the AppSet is as asked.                 *)
(***************************************************************************)
PushImplementsIntent == Intent!ISpec

=============================================================================
