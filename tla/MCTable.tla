------------------------------ MODULE MCTable ------------------------------
(***************************************************************************)
(* The listing commands' headers for TLC.  Widths are abstract: what      *)
(* matters is whether a cell is narrower or wider than its header and     *)
(* than the cells above it.                                                *)
(***************************************************************************)
EXTENDS Table

MCHeaderOf ==
  [c \in {"stacks", "service-auth-tokens", "quota", "orgs", "spaces",
          "service-brokers"} |->
     CASE c = "stacks"              -> <<2, 3>>  \* name, description
       [] c = "service-auth-tokens" -> <<3, 3>>  \* label, provider
       [] c = "quota"               -> <<0, 0>>  \* "", ""
       [] c = "service-brokers"     -> <<2, 1>>  \* name, url
       [] OTHER                     -> <<2>>]    \* name

=============================================================================
