--------------------------- MODULE MCOrchestrator ---------------------------
(***************************************************************************)
(* A small instance of Orchestrator for TLC: three files, two reference   *)
(* strings and "", a tree whose files are drawn from the entries below.    *)
(***************************************************************************)
EXTENDS Orchestrator

CONSTANTS r1, r2, e0

Inc(r)    == [form |-> "c_include",    ref |-> r]
Imp(r)    == [form |-> "py_import",    ref |-> r]
ImpAs(r)  == [form |-> "py_import_as", ref |-> r]
Src(r)    == [form |-> "sh_source",    ref |-> r]
Cmd(r)    == [form |-> "sh_command",   ref |-> r]
AsmInc(r) == [form |-> "asm_include",  ref |-> r]

\* Two identical #include lines; a file whose only include is #include ""; an import the query misses
\* next to one it finds; a shell script that sources a file.
MCEntries ==
  { [suffix |-> ".c",   parts |-> {},        content |-> <<Inc(r1), Inc(r1)>>],
    [suffix |-> ".c",   parts |-> {"build"}, content |-> <<Inc(r2)>>],
    [suffix |-> ".cpp", parts |-> {},        content |-> <<Inc(e0)>>],
    [suffix |-> ".py",  parts |-> {},        content |-> <<Imp(r1), ImpAs(r2)>>],
    [suffix |-> ".sh",  parts |-> {},        content |-> <<Src(r2)>>],
    [suffix |-> ".txt", parts |-> {},        content |-> <<>>] }

\* An assembly file with a %include line, next to an ordinary C file.
MCEntriesAsm ==
  { [suffix |-> ".S", parts |-> {}, content |-> <<AsmInc(r1)>>],
    [suffix |-> ".c", parts |-> {}, content |-> <<Inc(r2)>>] }

\* A shell script that runs a command on a word, and one that sources.
MCEntriesShell ==
  { [suffix |-> ".sh", parts |-> {}, content |-> <<Cmd(r1), Src(r2)>>],
    [suffix |-> ".sh", parts |-> {}, content |-> <<Src(r2)>>] }

MCOmit == {"build"}
=============================================================================
