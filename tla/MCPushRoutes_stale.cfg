CONSTANTS
  Nil = Nil
  Cwd = Cwd
  a1 = a1  a2 = a2
  d1 = d1  d2 = d2  dx = dx  st1 = st1  st2 = st2  s1 = s1  s2 = s2
  k1 = k1  k2 = k2  v1 = v1  v2 = v2  space1 = space1  space2 = space2
  AppNames <- MCAppNames
  Hosts <- MCHosts
  HostOf <- MCHostOf
  Words <- MCWords
  Domains <- MCDomains
  OrgDomains <- MCOrgDomains
  SharedDomains <- MCSharedDomains
  DomainListing <- MCDomainListing
  RemoteStacks = {st1}
  ServiceInstances = {s1}
  EnvKeys = {k1, k2}
  EnvVals = {v1, v2}
  CurrentSpace = space1
  OtherSpace = space2
  InitAppState <- MCInitAppState
  InitAppEnv <- MCInitAppEnv
  InitRouteOwner <- MCInitRouteOwner
  InitBound <- MCInitBound
  Invocations <- MCRouteInvocations
  MaxPushes = 2
  Faults = {}
  LostReplies = {}
  RcRoutes <- MCRcRoutes
  RcSpaces = {space1, space2}
  RcFaults = {}
  RcLostReplies = {}
  MaxRouteCmds = 2

SPECIFICATION SystemSpec

PROPERTY AppRoutedAsAsked

\* Both commands stop after their last invocation.
CHECK_DEADLOCK FALSE
