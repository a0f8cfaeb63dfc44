----------------------------- MODULE MCSettings -----------------------------
(* Instances of Settings: two files, and what they may contain.             *)
EXTENDS Settings, TLC

CONSTANTS i1, i2

File(image, test) == [image |-> image, test |-> test]

\* A complete file, one with another image only, one that fails validation
\* and one that cannot be parsed.
MCContents == {File(i1, TRUE), File(i2, Unset), File(Unset, FALSE), Malformed}
CoreBudget == [edit |-> 3, watchError |-> 1, crash |-> 1]
=============================================================================
