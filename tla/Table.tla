------------------------------- MODULE Table -------------------------------
(***************************************************************************)
(* terminal.PrintableTable (src/cf/terminal/table.go) and the listing      *)
(* commands that print with it.  A cell is abstracted to its visible      *)
(* width (len(decolorize(value))); a printed line is the sequence of its  *)
(* cells, each with the padding cellValue gave it.  A cell takes          *)
(* width + padding + 3 columns of the terminal ("%s%s   ").               *)
(*                                                                         *)
(* Two kinds of callers:                                                   *)
(*  - batch: stacks, service-auth-tokens and quota fetch everything, then *)
(*    call Print once with all rows;                                       *)
(*  - stream: orgs, spaces and service-brokers call Print with one row    *)
(*    from inside the listing callback, once per item.                    *)
(***************************************************************************)
EXTENDS Integers, Sequences, SequencesExt

CONSTANTS
  Commands,   \* the listing commands run, a subset of the six below
  HeaderOf,   \* command -> widths of its header cells
  Widths,     \* widths a data cell may have
  MaxRows,    \* bound on the number of rows listed
  ListFaults  \* TRUE when the listing call may fail

StreamCommands == {"orgs", "spaces", "service-brokers"}

VARIABLES
  cmd,            \* the command run
  lpc,            \* where the listing command is
  headerPrinted,  \* PrintableTable.headerPrinted
  maxSizes,       \* PrintableTable.maxSizes
  out,            \* the lines printed so far
  found           \* an item was listed (noOrgs, foundSpaces, foundBrokers)

vars == <<cmd, lpc, headerPrinted, maxSizes, out, found>>

Header == HeaderOf[cmd]
Cols == 1..Len(Header)
Rows == [Cols -> Widths]
RowSeqs == UNION {[1..n -> Rows] : n \in 0..MaxRows}

-----------------------------------------------------------------------------
\* calculateMaxSize over every row and the header, the first loop of Print.
\* Mutant of MaxSizesOver: the header is left out of the loop.
MaxSizesRowsOnly(rows) ==
  [c \in Cols |-> Max({maxSizes[c]} \cup {rows[i][c] : i \in 1..Len(rows)})]

MaxSizesOver(rows) ==
  [c \in Cols |-> Max({maxSizes[c], Header[c]}
                      \cup {rows[i][c] : i \in 1..Len(rows)})]

\* printHeader / printRow: cellValue pads every column but the last.
Line(kind, row, sizes) ==
  [kind |-> kind,
   cells |-> [c \in Cols |->
                [w |-> row[c],
                 pad |-> IF c < Len(Header) THEN sizes[c] - row[c] ELSE 0]]]

\* PrintableTable.Print: widen the columns, print the header the first
\* time, then the rows.
TablePrint(rows) ==
  LET sizes == MaxSizesOver(rows) IN
  /\ maxSizes' = sizes
  /\ headerPrinted' = TRUE
  /\ out' = out \o (IF headerPrinted THEN <<>>
                                     ELSE <<Line("header", Header, sizes)>>)
                \o [i \in 1..Len(rows) |-> Line("row", rows[i], sizes)]

-----------------------------------------------------------------------------
(***************************************************************************)
(* Batch callers: FindAll (FindByName for quota); an error ends the       *)
(* command, else the rows are printed by one call of Print.               *)
(***************************************************************************)
FetchAllThenPrint(rowSeqs) ==
  /\ lpc = "fetch"
  /\ \/ /\ ListFaults
        /\ lpc' = "failed"
        /\ UNCHANGED <<headerPrinted, maxSizes, out, found>>
     \/ /\ \E rows \in rowSeqs : TablePrint(rows) /\ found' = (rows # <<>>)
        /\ lpc' = "done"
  /\ UNCHANGED cmd

\* cf stacks: a row per stack.
ListStacks == cmd = "stacks" /\ FetchAllThenPrint(RowSeqs)

\* cf service-auth-tokens: a row per token.
ListServiceAuthTokens ==
  cmd = "service-auth-tokens" /\ FetchAllThenPrint(RowSeqs)

\* cf quota: the four rows memory, routes, services, paid plans.
ShowQuota == cmd = "quota" /\ FetchAllThenPrint([1..4 -> Rows])

(***************************************************************************)
(* Stream callers: the listing calls back once per item, and the callback *)
(* prints it as a one-row table; the listing ends, or fails after any     *)
(* number of items already printed.                                       *)
(***************************************************************************)
PrintEachItem ==
  /\ lpc = "list"
  /\ \/ /\ Len(SelectSeq(out, LAMBDA l : l.kind = "row")) < MaxRows
        /\ \E row \in Rows : TablePrint(<<row>>)
        /\ found' = TRUE
        /\ UNCHANGED lpc
     \/ /\ lpc' = "done"
        /\ UNCHANGED <<headerPrinted, maxSizes, out, found>>
     \/ /\ ListFaults
        /\ lpc' = "failed"
        /\ UNCHANGED <<headerPrinted, maxSizes, out, found>>
  /\ UNCHANGED cmd

\* cf orgs, cf spaces, cf service-brokers
ListOrgs == cmd = "orgs" /\ PrintEachItem
ListSpaces == cmd = "spaces" /\ PrintEachItem
ListServiceBrokers == cmd = "service-brokers" /\ PrintEachItem

\* NewTable: no column has a width yet.
Init ==
  /\ cmd \in Commands
  /\ lpc = IF cmd \in StreamCommands THEN "list" ELSE "fetch"
  /\ headerPrinted = FALSE
  /\ maxSizes = [c \in Cols |-> 0]
  /\ out = <<>>
  /\ found = FALSE

Next ==
  \/ ListStacks \/ ListServiceAuthTokens \/ ShowQuota
  \/ ListOrgs \/ ListSpaces \/ ListServiceBrokers

Spec == Init /\ [][Next]_vars

-----------------------------------------------------------------------------
(***************************************************************************)
(* Every variable ranges over its type; in particular every padding is a *)
(* count strings.Repeat accepts (a negative one panics), so every cell   *)
(* is at most as wide as its column when it is printed.                  *)
(***************************************************************************)
TypeOK ==
  /\ cmd \in Commands
  /\ lpc \in {"fetch", "list", "done", "failed"}
  /\ headerPrinted \in BOOLEAN
  /\ maxSizes \in [Cols -> Nat]
  /\ \A i \in 1..Len(out) :
       /\ out[i].kind \in {"header", "row"}
       /\ \A c \in Cols : out[i].cells[c].pad \in Nat
  /\ found \in BOOLEAN

\* The terminal column where cell c of line l ends.
CellEnd(l, c) ==
  FoldSeq(LAMBDA x, y : x + y, 0,
          [k \in 1..c |-> l.cells[k].w + l.cells[k].pad + 3])

(***************************************************************************)
(* The printed table lines up: every column starts at the same terminal  *)
(* column on every line, the header's included.                         *)
(***************************************************************************)
ColumnsAligned ==
  \A i, j \in 1..Len(out), c \in 1..Len(Header) - 1 :
    CellEnd(out[i], c) = CellEnd(out[j], c)

=============================================================================
