\* cf orgs, spaces and service-brokers: one Print per listed item.
CONSTANTS
  HeaderOf <- MCHeaderOf
  Widths = {1, 2, 4}
  MaxRows = 3
  Commands = {"orgs", "spaces", "service-brokers"}
  ListFaults = TRUE

SPECIFICATION Spec

INVARIANT TypeOK

\* The command ends after printing.
CHECK_DEADLOCK FALSE
