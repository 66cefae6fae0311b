------------------------------- MODULE MCPush -------------------------------
(***************************************************************************)
(* Instances of Push for TLC: two apps, three domains (d1 private, d2     *)
(* shared, dx not in the organization), one service instance that exists *)
(* (s1) and one that does not (s2), one route of another space (h3 on     *)
(* d1), and small sets of command lines that reach every branch of Run.   *)
(***************************************************************************)
EXTENDS Push, TLC

CONSTANTS a1, a2, d1, d2, dx, st1, st2, s1, s2,
          k1, k2, v1, v2, space1, space2

MCAppNames == {a1, a2}

\* hostNameForString, from module HostName, over the characters of the names.
HN == INSTANCE HostName WITH
        Chars <- {"A", "a", "b", "1", "_"},
        LowerOf <- [c \in {"A", "a", "b", "1", "_"} |-> IF c = "A" THEN "a" ELSE c],
        Separators <- {"_"},
        HostChars <- {"a", "b", "1", "-"},
        MaxLen <- 3,
        name <- <<>>

\* a1 is spelled "A_1" and a2 "a"; their hosts are "a-1" and "a".  The
\* -n value h3 is "b", and Babble says "b".
Spelling == [a \in MCAppNames |-> IF a = a1 THEN <<"A", "_", "1">> ELSE <<"a">>]
MCHostOf == [a \in MCAppNames |-> HN!HostNameForString(Spelling[a])]
h1 == MCHostOf[a1]
h2 == MCHostOf[a2]
h3 == <<"b">>
MCHosts == {h1, h2, h3}
MCWords == {<<"b">>}
MCDomains == {d1, d2, dx}
MCOrgDomains == {d1, d2}
MCSharedDomains == {d2}
MCDomainListing == <<d1, d2>>

\* a2 already runs with k1 set and the route h2.d1; h3.d1 belongs to
\* another space.
MCInitAppState == [a \in MCAppNames |-> IF a = a2 THEN "started" ELSE "absent"]
MCInitAppEnv ==
  [a \in MCAppNames |-> [k \in {k1, k2} |->
                           IF a = a2 /\ k = k1 THEN v1 ELSE Nil]]
MCInitRouteOwner ==
  [r \in RouteKeys |-> CASE r = <<h2, d1>> -> space1
                         [] r = <<h3, d1>> -> space2
                         [] OTHER          -> Nil]
MCInitBound == {<<<<h2, d1>>, a2>>}

(***************************************************************************)
(* Command lines.                                                          *)
(***************************************************************************)
App(n) == [NoParams EXCEPT !.name = n]
Cli(params) == [params |-> params, noManifest |-> FALSE,
                manifestFlag |-> FALSE, noHostname |-> FALSE,
                noStart |-> FALSE, invalid |-> FALSE]
NoManifestFile == [kind |-> "missing", apps |-> <<>>]
Manifest(apps) == [kind |-> "ok", apps |-> apps]
Invocation(cli, manifest) == [cli |-> cli, manifest |-> manifest]

\* cf push a1 (a manifest sets k1=v2 and binds s1)
PushA1 == Invocation(Cli(App(a1)),
               Manifest(<<[App(a1) EXCEPT !.env = [k \in {k1, k2} |->
                                                    IF k = k1 THEN v2 ELSE Nil],
                                          !.services = <<s1>>]>>))
\* cf push a1 -n h1 -d d1 -s st1
PushA1Routed == Invocation(Cli([App(a1) EXCEPT !.host = h1, !.domain = d1,
                                         !.stack = st1]), NoManifestFile)
\* cf push a1 --no-route
PushA1NoRoute == Invocation(Cli([App(a1) EXCEPT !.noRoute = TRUE]), NoManifestFile)
\* cf push --no-start with a manifest of both apps; a2 sets k2 and binds s1
PushBoth == Invocation([Cli(NoParams) EXCEPT !.noStart = TRUE],
                 Manifest(<<App(a1),
                            [App(a2) EXCEPT !.env = [k \in {k1, k2} |->
                                                      IF k = k2 THEN v2 ELSE Nil],
                                            !.services = <<s1>>]>>))
\* cf push a2 -n h3 (h3 on the default domain)
PushA2Host3 == Invocation(Cli([App(a2) EXCEPT !.host = h3]), NoManifestFile)
\* cf push a2 --no-hostname --random-route -d d1
PushA2Root == Invocation([Cli([App(a2) EXCEPT !.randomRoute = TRUE, !.domain = d1])
                      EXCEPT !.noHostname = TRUE], NoManifestFile)
\* cf push a1 -n h3 -d d1: a route of another space
PushA1Taken == Invocation(Cli([App(a1) EXCEPT !.host = h3, !.domain = d1]),
                    NoManifestFile)
\* cf push a1 -s st2 (unknown stack), and one binding an unknown service
PushA1BadStack == Invocation(Cli([App(a1) EXCEPT !.stack = st2]), NoManifestFile)
PushA1BadService == Invocation(Cli(App(a1)),
                         Manifest(<<[App(a1) EXCEPT !.services = <<s2>>]>>))
\* cf push a1 -d dx: a domain outside the organization
PushA1Dx == Invocation(Cli([App(a1) EXCEPT !.domain = dx]), NoManifestFile)
\* cf push -i 0 a1, and cf push with a manifest but -m 1G
PushInvalid == Invocation([Cli(App(a1)) EXCEPT !.invalid = TRUE], NoManifestFile)
PushBothConflict == Invocation(Cli([NoParams EXCEPT !.settings = "1G"]),
                         Manifest(<<App(a1), App(a2)>>))

\* cf push with a manifest whose second app has no name
PushNameless == Invocation(Cli(NoParams), Manifest(<<App(a1), NoParams>>))
\* cf push a1 -n h1: the route goes on the default domain
PushA1Host1 == Invocation(Cli([App(a1) EXCEPT !.host = h1]), NoManifestFile)

\* cf push -f missing.yml a1; cf push --no-manifest a2 beside a broken one
PushMissingFile == Invocation([Cli(App(a1)) EXCEPT !.manifestFlag = TRUE],
                              NoManifestFile)
PushA2NoManifest == Invocation([Cli(App(a2)) EXCEPT !.noManifest = TRUE],
                               [kind |-> "broken", apps |-> <<>>])

MCInvocations ==
  {PushA1, PushA1Routed, PushA1NoRoute, PushBoth, PushA2Host3, PushA2Root,
   PushA1Taken, PushA1Dx, PushA1BadStack, PushA1BadService, PushInvalid,
   PushBothConflict, PushNameless, PushA1Host1, PushMissingFile,
   PushA2NoManifest}

\* Remote calls that may fail in the main run (unbind and listing are left
\* to the runs that show what their ignored errors do).
MCFaults ==
  {"findStack", "readApp", "createApp", "updateApp", "findDomain", "findRoute",
   "createRoute", "bindRoute", "upload", "findService", "bindService", "stop",
   "start"}

\* Calls whose reply may be lost after the controller has done them.
MCLostReplies == {"createApp", "updateApp", "createRoute", "bindRoute", "upload",
                  "bindService", "start"}

=============================================================================
