--------------------------- MODULE MCDocCoverage ---------------------------
(***************************************************************************)
(* A directory r with a header f1 and a subdirectory s holding a source    *)
(* file f2 and a Python file f3; x is a path that does not exist.  The     *)
(* contents cover a Doxygen block, a plain block comment, a dereference,   *)
(* a "///" line beside code (exactly the 50% threshold) and an empty file. *)
(***************************************************************************)
EXTENDS DocCoverage

CONSTANTS r, s, x, f1, f2, f3

MCDirs == {r, s, x}

MCFiles == {f1, f2, f3}

MCBelow(d) == CASE d = r -> {f1, f2, f3} [] d = s -> {f2, f3} [] OTHER -> {}

MCSuffix(f) == CASE f = f1 -> ".h" [] f = f2 -> ".cpp" [] OTHER -> ".py"

MCContents ==
  { <<"docOpen", "star", "close", "code">>,
    <<"plainOpen", "star", "close", "code">>,
    <<"deref", "blank">>,
    <<"triple", "code">>,
    <<>> }

MCThreshold == 50

=============================================================================
