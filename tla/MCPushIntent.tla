---------------------------- MODULE MCPushIntent ----------------------------
\* The instance of MCPush, checked against PushIntent and for termination.
EXTENDS MCPush, PushRefinement

=============================================================================
