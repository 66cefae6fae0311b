\* cf service-brokers: one Print per listed broker.
CONSTANTS
  HeaderOf <- MCHeaderOf
  Widths = {1, 2, 4}
  MaxRows = 3
  Commands = {"service-brokers"}
  ListFaults = TRUE

SPECIFICATION Spec

INVARIANT ColumnsAligned


\* The command ends after printing.
CHECK_DEADLOCK FALSE
