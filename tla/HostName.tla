------------------------------ MODULE HostName ------------------------------
(***************************************************************************)
(* The Hostname Normalizer of `cf push': hostNameForString in             *)
(* src/cf/commands/application/push.go.  A name is a sequence of          *)
(* characters from Chars.  The function lowercases the name, replaces     *)
(* every run of whitespace or underscores ([\s_]+) by one hyphen, then    *)
(* removes every character outside [a-z0-9-].                             *)
(***************************************************************************)
EXTENDS Naturals, Sequences, SequencesExt

CONSTANTS
  Chars,       \* the characters a name may contain
  LowerOf,     \* strings.ToLower on one character: Chars -> Chars
  Separators,  \* the characters of the class [\s_]
  HostChars,   \* the characters of the class [a-z0-9-]
  MaxLen       \* bound on the length of the names checked

Hyphen == "-"

\* strings.ToLower
ToLower(s) == [i \in 1..Len(s) |-> LowerOf[s[i]]]

\* The suffix of s after its leading separators.
RECURSIVE DropSeparators(_)
DropSeparators(s) ==
  IF s # <<>> /\ Head(s) \in Separators THEN DropSeparators(Tail(s)) ELSE s

\* Mutant of ReplaceSeparatorRuns: [\s_] without the +.
RECURSIVE ReplaceEachSeparator(_)
ReplaceEachSeparator(s) ==
  IF s = <<>> THEN <<>>
  ELSE IF Head(s) \in Separators
       THEN <<Hyphen>> \o ReplaceEachSeparator(Tail(s))
       ELSE <<Head(s)>> \o ReplaceEachSeparator(Tail(s))

\* whitespaceRegex.ReplaceAllString(name, "-"): a leftmost-longest match
\* of [\s_]+ takes the whole run.
RECURSIVE ReplaceSeparatorRuns(_)
ReplaceSeparatorRuns(s) ==
  IF s = <<>> THEN <<>>
  ELSE IF Head(s) \in Separators
       THEN <<Hyphen>> \o ReplaceSeparatorRuns(DropSeparators(Tail(s)))
       ELSE <<Head(s)>> \o ReplaceSeparatorRuns(Tail(s))

\* forbiddenHostCharRegex.ReplaceAllString(name, "")
StripForbidden(s) == SelectSeq(s, LAMBDA c : c \in HostChars)

HostNameForString(s) == StripForbidden(ReplaceSeparatorRuns(ToLower(s)))

-----------------------------------------------------------------------------
(***************************************************************************)
(* Reference definition, position by position: after lowercasing, a       *)
(* separator that starts a run becomes a hyphen, any other separator is   *)
(* dropped, and any other character is kept exactly when it is allowed.  *)
(***************************************************************************)
HostNameReference(s) ==
  LET l == ToLower(s)
      Kept(i) == IF l[i] \in Separators
                 THEN i = 1 \/ l[i - 1] \notin Separators
                 ELSE l[i] \in HostChars
      keptIdx == SelectSeq([i \in 1..Len(l) |-> i], Kept)
  IN  [j \in 1..Len(keptIdx) |->
         IF l[keptIdx[j]] \in Separators THEN Hyphen ELSE l[keptIdx[j]]]

\* Names of at most MaxLen characters.
Names == UNION {[1..n -> Chars] : n \in 0..MaxLen}

-----------------------------------------------------------------------------
(***************************************************************************)
(* The names are typed one character at a time, up to MaxLen.             *)
(***************************************************************************)
VARIABLE name

Init == name = <<>>

Type ==
  /\ Len(name) < MaxLen
  /\ \E c \in Chars : name' = Append(name, c)

\* A name of MaxLen characters stays as it is.
Full ==
  /\ Len(name) = MaxLen
  /\ UNCHANGED name

Next == Type \/ Full

Spec == Init /\ [][Next]_name

-----------------------------------------------------------------------------
(***************************************************************************)
(* hostNameForString agrees with the reference definition on every name: *)
(* its output has only [a-z0-9-] and one hyphen per run of separators.    *)
(***************************************************************************)
HostNameMatchesReference ==
  HostNameForString(name) = HostNameReference(name)

(***************************************************************************)
(* The spec promises a valid DNS label: never empty, never starting or    *)
(* ending with a hyphen.  hostNameForString does not ensure it: a name of *)
(* only forbidden characters gives "", which bindAppToRoute uses as the   *)
(* root domain.                                                            *)
(***************************************************************************)
HostIsDnsLabel ==
  LET h == HostNameForString(name) IN
  name # <<>> => h # <<>> /\ h[1] # Hyphen /\ Last(h) # Hyphen

=============================================================================
