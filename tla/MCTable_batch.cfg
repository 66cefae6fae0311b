\* cf stacks, service-auth-tokens and quota: one Print of all rows.
CONSTANTS
  HeaderOf <- MCHeaderOf
  Widths = {1, 2, 4}
  MaxRows = 3
  Commands = {"stacks", "service-auth-tokens", "quota"}
  ListFaults = TRUE

SPECIFICATION Spec

INVARIANT TypeOK

\* The command ends after printing.
CHECK_DEADLOCK FALSE
