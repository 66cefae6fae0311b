----------------------------- MODULE MCHostName -----------------------------
(***************************************************************************)
(* HostName over seven characters standing for the classes the two       *)
(* regular expressions tell apart: an upper-case letter, a lower-case    *)
(* letter, a digit, whitespace, underscore, hyphen and any other (".").  *)
(***************************************************************************)
EXTENDS HostName

MCChars == {"A", "a", "1", " ", "_", "-", "."}
MCLowerOf == [c \in MCChars |-> IF c = "A" THEN "a" ELSE c]
MCSeparators == {" ", "_"}
MCHostChars == {"a", "1", "-"}

=============================================================================
