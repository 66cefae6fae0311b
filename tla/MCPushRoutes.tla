---------------------------- MODULE MCPushRoutes ----------------------------
(***************************************************************************)
(* PushRoutes for TLC: the apps, domains and routes of MCPush; pushes that *)
(* create, reuse and keep routes; a user creating and deleting the routes *)
(* h1.d1 (the one `cf push a1 -n h1' creates), h2.d1 (a2's route) and     *)
(* h3.d1 (owned by another space) in either space.                        *)
(***************************************************************************)
EXTENDS MCPush, PushRoutes

MCRcRoutes == {<<h1, d1>>, <<h2, d1>>, <<h3, d1>>}

\* cf push a1 -n h1; cf push a1 -n h1 -d d1 -s st1; cf push a2; and
\* cf push a2 with a manifest that binds s1
MCRouteInvocations ==
  {PushA1Host1, PushA1Routed, PushA2NoManifest,
   Invocation(Cli(App(a2)), Manifest(<<[App(a2) EXCEPT !.services = <<s1>>]>>))}

=============================================================================
