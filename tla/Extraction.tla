----------------------------- MODULE Extraction -----------------------------
(***************************************************************************)
(* The Language Classifier and the Extraction Strategies of               *)
(* src/scripts/generate_ast_dependencies.py, as pure operators.            *)
(*                                                                         *)
(* A file's content is abstracted to the sequence of the constructs that   *)
(* either extraction tier can react to.  A construct is a record           *)
(* [form |-> F, ref |-> r]: F names the syntax (an include line, an        *)
(* import, a shell command, ...) and r the reference string it names,      *)
(* already stripped of its quotes or brackets (_strip_quotes).  Which      *)
(* forms the tree-sitter query of a language captures and which its regex  *)
(* matches is read off the query strings and patterns of the source.       *)
(***************************************************************************)
EXTENDS Naturals, Sequences

CONSTANTS
  Refs,      \* reference strings, as model values
  EmptyRef   \* the empty string "", which a capture can strip down to

ASSUME ExtractionAssumption == EmptyRef \in Refs

(***************************************************************************)
(* Language Classifier: LANGUAGE_MAP and detect_language.                  *)
(***************************************************************************)
NoLanguage == "none"

LANGUAGE_MAP ==
  [x \in {".c", ".h", ".cpp", ".hpp", ".cppm", ".S", ".py", ".sh", ".lua", ".pl"} |->
     CASE x \in {".c", ".h", ".S"}         -> "c"
       [] x \in {".cpp", ".hpp", ".cppm"}  -> "cpp"
       [] x = ".py"                        -> "python"
       [] x = ".sh"                        -> "bash"
       [] x = ".lua"                       -> "lua"
       [] x = ".pl"                        -> "perl"]

Languages == {"c", "cpp", "python", "bash", "lua", "perl"}

\* detect_language: a lookup of Path.suffix, case-sensitive.
DetectLanguage(suffix) ==
  IF suffix \in DOMAIN LANGUAGE_MAP THEN LANGUAGE_MAP[suffix] ELSE NoLanguage

(***************************************************************************)
(* The syntax forms, and which tier of which strategy reacts to each.      *)
(*   c_include     #include "x" / <x>        (both C tiers; "" only by the  *)
(*                                            query, the regex needs [^>"]+)*)
(*   asm_include   %include x / .include x   (only _regex_asm_includes)     *)
(*   py_import     import x / from x import  (both Python tiers)            *)
(*   py_import_as  import x as y             (regex only: the query wants   *)
(*                                            a bare dotted_name child)     *)
(*   sh_source     source x / . x            (both Bash tiers)              *)
(*   sh_command    any other `cmd word`      (the query: its #match? text   *)
(*                                            "source|\." unescapes to      *)
(*                                            "source|.", any name)         *)
(*   lua_require   require("x")              (both Lua tiers)               *)
(*   pl_use        use X::Y                  (both Perl tiers)              *)
(* Every form but sh_command names a real dependency.                      *)
(***************************************************************************)
Forms == {"c_include", "asm_include", "py_import", "py_import_as",
          "sh_source", "sh_command", "lua_require", "pl_use"}

Construct == [form : Forms, ref : Refs]

\* The forms a construct denotes a dependency by.
DependencyForms == Forms \ {"sh_command"}

\* QUERY_DISPATCH: "c" and "cpp" share _query_c_includes.
Strategy(lang) == IF lang = "cpp" THEN "c" ELSE lang

\* The structural query of each _query_* function.
QueryForms ==
  [c      |-> {"c_include"},
   python |-> {"py_import"},
   bash   |-> {"sh_source", "sh_command"},
   lua    |-> {"lua_require"},
   perl   |-> {"pl_use"}]

\* The pattern of each _regex_* function; "asm" is _regex_asm_includes.
RegexForms ==
  [c      |-> {"c_include"},
   python |-> {"py_import", "py_import_as"},
   bash   |-> {"sh_source"},
   lua    |-> {"lua_require"},
   perl   |-> {"pl_use"},
   asm    |-> {"asm_include"}]

\* query.captures: the positions of the matching constructs.
CaptureIndices(strategy, content) ==
  {i \in 1..Len(content) : content[i].form \in QueryForms[strategy]}

\* The references the capture loop appends before position k (the loop
\* up to a raise at capture k, or the whole loop for k = Len + 1).
CapturedBefore(strategy, content, k) ==
  {content[i].ref : i \in {j \in CaptureIndices(strategy, content) : j < k}}

\* _regex_*: every pattern needs a non-empty group, so "" never matches.
RegexRefs(tier, content) ==
  {content[i].ref : i \in {j \in 1..Len(content) :
       content[j].form \in RegexForms[tier] /\ content[j].ref # EmptyRef}}

(***************************************************************************)
(* One call of a _query_* function.  The environment is the state of the   *)
(* grammar bundle for the language (grammar), and the position of the     *)
(* first construct whose bytes are not UTF-8 (badAt, 0 when none): when   *)
(* it is a capture its .decode() raises; the fallbacks decode with         *)
(* errors="ignore".  The result is [raised |-> BOOLEAN, refs |-> SUBSET    *)
(* Refs].                                                                  *)
(*   "missing":  get_language/get_parser raise, outside every try.          *)
(*   "badQuery": language.query raises; inside the try except for C.        *)
(***************************************************************************)
GrammarStates == {"ok", "missing", "badQuery"}

Raised == [raised |-> TRUE, refs |-> {}]

Returned(refs) == [raised |-> FALSE, refs |-> refs]

\* _query_c_includes: nothing is guarded; the regex runs only on no capture.
QueryC(content, grammar, badAt) ==
  LET caps == CaptureIndices("c", content) IN
  IF grammar # "ok" \/ badAt \in caps THEN Raised
  ELSE IF caps = {} THEN Returned(RegexRefs("c", content))
  ELSE Returned(CapturedBefore("c", content, Len(content) + 1))

\* _query_python_imports, _query_bash_sources, _query_lua_requires and
\* _query_perl_uses: the query and the capture loop are inside the try;
\* the except branch extends what the loop collected with the regex.
QueryGuarded(strategy, content, grammar, badAt) ==
  LET caps     == CaptureIndices(strategy, content)
      regex    == RegexRefs(strategy, content)
      collected ==
        IF grammar = "badQuery" THEN regex
        ELSE IF badAt \in caps THEN CapturedBefore(strategy, content, badAt) \cup regex
        ELSE CapturedBefore(strategy, content, Len(content) + 1)
  IN  IF grammar = "missing" THEN Raised
      ELSE IF collected = {} THEN Returned(regex)
      ELSE Returned(collected)

(***************************************************************************)
(* analyze_file: classify, read (read_bytes raises when the file cannot be *)
(* read), then dispatch.  Every language of LANGUAGE_MAP is in             *)
(* QUERY_DISPATCH, so the ".S" branch is reached only for suffixes that    *)
(* are not in LANGUAGE_MAP, which never get there.                         *)
(***************************************************************************)
QueryDispatchDomain == Languages

AnalyzeFile(suffix, content, grammar, readable, badAt) ==
  LET lang == DetectLanguage(suffix) IN
  IF lang = NoLanguage THEN Returned({})
  ELSE IF ~readable THEN Raised
  ELSE IF lang \in QueryDispatchDomain THEN
         IF Strategy(lang) = "c" THEN QueryC(content, grammar, badAt)
         ELSE QueryGuarded(Strategy(lang), content, grammar, badAt)
  ELSE IF suffix = ".S" THEN Returned(RegexRefs("asm", content))
  ELSE Returned({})

(***************************************************************************)
(* Properties of a construct sequence that the spec talks about.           *)
(***************************************************************************)
\* The dependencies the content really names.
DeclaredRefs(content) ==
  {content[i].ref : i \in {j \in 1..Len(content) : content[j].form \in DependencyForms}}

\* Every reference string that occurs in the content.
ContentRefs(content) == {content[i].ref : i \in 1..Len(content)}

=============================================================================
