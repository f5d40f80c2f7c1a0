------------------------------- MODULE Parser --------------------------------
(***************************************************************************)
(* The parser run on files (lib/Parse; its callers are in                  *)
(* tools/swift/Frontend.cpp and lib/Sema/NameBinding.cpp): a file is read, *)
(* and parsed as the file of the main module, of a library, or of an       *)
(* imported module.                                                        *)
(***************************************************************************)
EXTENDS ParserMachine, SwiftGrammar

CONSTANT Files                        \* the files that may be read

Drivers == {"main", "library", "import"}

VARIABLES file,                       \* the tokens of the file
          driver,                     \* who has it parsed
          parser                      \* the parser, <<>> before it ran

vars == <<file, driver, parser>>

Init == file \in Files /\ driver \in Drivers /\ parser = <<>>

ParseIntoTranslationUnit ==
  /\ parser = <<>>
  /\ parser' = <<Parse(file, driver)>>
  /\ UNCHANGED <<file, driver>>

Next == ParseIntoTranslationUnit

Spec == Init /\ [][Next]_vars

Done == parser # <<>>
Outcome == parser[1]

(* What of the file was parsed. *)
Consumed == SubSeq(file, 1, Len(file) - Len(Outcome.rest))


(***************************************************************************)
(* What the parser accepts without a diagnostic, after all its look-ahead, *)
(* optional parts, dropped errors and ">>" split in two, is a program by   *)
(* the productions its functions quote, or by the two Tolerated ones.  (A   *)
(* token that was skipped in silence: FailuresAreDiagnosed.)               *)
(***************************************************************************)
AcceptedIsGrammatical ==
  Done /\ ~ Outcome.said /\ ~ Outcome.hushed => IsTolerated(Consumed)

(***************************************************************************)
(* A function gives up, or recovery skips a token, only after a diagnostic *)
(* told the user why: no error that one function reports to its caller and *)
(* no null result passes unexplained.  The exception: a subscript without  *)
(* accessors, where parseDecl takes the missing declaration for an error   *)
(* that was diagnosed.                                                     *)
(***************************************************************************)
HasHollowSubscript ==
  \E i, j \in DOMAIN file :
    i < j /\ file[i] = "subscript" /\ SubSeq(file, j, j + 1) = <<"{", "}">>

FailuresAreDiagnosed == Done /\ Outcome.hushed => HasHollowSubscript

(***************************************************************************)
(* No assertion of the parser fails, and no token is asked for behind the  *)
(* end of the file, except for the bound of a "new T[...]" that does not   *)
(* parse: parseExprNew asks the null bound for its value.                  *)
(***************************************************************************)
HasArrayNew == \E i, j \in DOMAIN file :
                 i < j /\ file[i] = "new" /\ file[j] = "["

=============================================================================
