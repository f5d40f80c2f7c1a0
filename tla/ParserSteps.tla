------------------------------ MODULE ParserSteps -----------------------------
(***************************************************************************)
(* What the functions of the parser (lib/Parse) are made of: the tokens    *)
(* and conditions they look at, and the steps they take on the token       *)
(* stream, on diagnostics and on the null results of each other.           *)
(*                                                                         *)
(* A function that returns null, or true for an error, is the step Fail:   *)
(* its callers give up in turn, up to the nearest one that handles the     *)
(* error (Guarded); objects on their stacks (ContextChange) are destroyed  *)
(* on the way.                                                             *)
(***************************************************************************)
EXTENDS Naturals, Sequences

(***************************************************************************)
(* Tokens.  Only what the parser tells apart is kept: identifiers with a   *)
(* meaning somewhere, operators by fixity, brackets by the space before    *)
(* them, one literal of each sort, the keywords.                           *)
(***************************************************************************)
Ids == {"id", "_", "get", "set", "heap", "infix", "fragile", "byref", "asmname"}
Binary == {"+", "==", "<"}
Prefix == {"-", "&"}
Postfix == {"++", ">", ">>"}
Operators == Binary \cup Prefix \cup Postfix
Greater == {">", ">>"}
LParen == {"(", " ("}
LSquare == {"[", " ["}
Literals == {"int", "str"}
Keywords == {"import", "extension", "var", "typealias", "oneof", "struct",
             "class", "constructor", "destructor", "protocol", "static",
             "func", "subscript", "requires", "metatype", "in", "if", "do",
             "else", "for", "while", "return", "break", "continue", "new"}
Marks == LParen \cup LSquare \cup
         {")", "{", "}", "]", ".", ",", ":", ";", "=", "...", "->"}
Tokens == Ids \cup Operators \cup Literals \cup Keywords \cup Marks
            \cup {"$0", "unknown", "eof"}

(***************************************************************************)
(* Conditions on the current token and the one after it: sets of pairs, of *)
(* which one must match.                                                   *)
(***************************************************************************)
At(S) == {<<S, Tokens>>}
AtPair(S, T) == {<<S, T>>}
NotAt(S) == At(Tokens \ S)

IsStartOfStmtOtherThanAssignment ==
  At({";", "{", "return", "if", "while", "do", "for", "break", "continue"})

(* "func" starts a declaration before a name or an attribute list, and an  *)
(* expression otherwise.                                                   *)
IsFuncDecl == AtPair({"func"}, Ids \cup Operators \cup LSquare)

IsStartOfDecl ==
  IsFuncDecl
    \cup AtPair({"static"}, {"func"})
    \cup At({"extension", "var", "typealias", "oneof", "struct", "class",
             "import", "subscript", "constructor", "destructor"})
    \cup AtPair({"protocol"}, Tokens \ {"<"})

(***************************************************************************)
(* The steps of a function.                                                *)
(***************************************************************************)
Eat == [do |-> "eat"]                       \* consumeToken()
SplitAngle == [do |-> "split"]              \* consumeStartingLess / Greater
Say == [do |-> "say"]                       \* diagnose(...)
Fail == [do |-> "fail"]                     \* return null, or true
Trip == [do |-> "trip"]                     \* an assertion that does not hold
Break == [do |-> "break"]                   \* out of the innermost loop
Made == [do |-> "made"]                     \* Entries.push_back
Clear == [do |-> "clear"]                   \* Entries.clear()
CallWith(f, a) == [do |-> "call", fn |-> f, arg |-> a]
Call(f) == CallWith(f, "")
Within(kind, body) == [do |-> "within", kind |-> kind, body |-> body]
Set(what) == [do |-> "set", what |-> what]  \* the shape of what was parsed
SkipUntil(cond) == [do |-> "skip", cond |-> cond]
SkipTo(S) == SkipUntil(At(S))
Switch(cases, other) == [do |-> "switch", cases |-> cases, other |-> other]
IfAt(cond, yes, no) == Switch(<< <<cond, yes>> >>, no)
If(S, yes, no) == IfAt(At(S), yes, no)
When(S, yes) == If(S, yes, <<>>)
While(cond, body) == [do |-> "while", cond |-> cond, body |-> body]
IfShape(S, yes, no) == [do |-> "shape", of |-> S, yes |-> yes, no |-> no]
IfEntries(yes, no) == [do |-> "entries", yes |-> yes, no |-> no]
IfInClosure(yes, no) == [do |-> "closure", yes |-> yes, no |-> no]
Guarded(body, handler) ==
  [do |-> "guarded", body |-> body, handler |-> handler]

(* parseToken, parseMatchingToken, parseIdentifier without a token to skip *)
(* to: the token is consumed, or its absence is diagnosed and an error.    *)
Need(S) == If(S, <<Eat>>, <<Say, Fail>>)
Closing(t) == If({t}, <<Eat>>, <<Say>>)     \* its absence is only diagnosed
Ignoring(body) == Guarded(body, <<>>)       \* the caller drops the error
ListOf(item) == <<item, While(At({","}), <<Eat, item>>)>>
=============================================================================
