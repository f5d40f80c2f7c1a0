----------------------------- MODULE SwiftGrammar ----------------------------
(***************************************************************************)
(* The language the parser is meant to accept: the productions its         *)
(* functions quote above them (lib/Parse), as a context-free grammar over  *)
(* the tokens of ParserSteps.  Independent of how the parser goes about    *)
(* it: no look-ahead, no errors, no order of alternatives.                 *)
(***************************************************************************)
EXTENDS ParserSteps

One(S) == {<<t>> : t \in S}
Maybe(S) == {<<>>} \cup S
Name == One(Ids)

(* A list with a separator, of the non-terminal item: the rest of it.      *)
More(sep, item, list) == {<<>>, <<sep, item, list>>}

Expressions == [
  expr |-> {<<"unary", "binaries">>},
  binaries |-> Maybe({<<o, "unary", "binaries">> : o \in Binary}),
  unary |-> {<<"primary", "suffixes">>, <<"new", "typeId", "bounds">>,
             <<"new", "typeId">>, <<"new", "typeId", "call">>}
              \cup {<<o, "unary">> : o \in Prefix},
  bounds |-> {<<"[", "expr", "]", "moreBounds">>},
  moreBounds |-> {<<>>, <<"[", "]", "moreBounds">>,
                  <<"[", "expr", "]", "moreBounds">>},
  primary |-> One(Literals \cup Ids \cup {"$0"})
                \cup {<<"{", "}">>, <<"{", "expr", "}">>, <<".", "name">>,
                      <<"paren">>, <<"func", "stmtBrace">>,
                      <<"func", "signature", "stmtBrace">>},
  suffixes |-> {<<>>, <<".", "name", "suffixes">>, <<".", "$0", "suffixes">>,
                <<".", "metatype", "suffixes">>, <<"call", "suffixes">>,
                <<"[", "expr", "]", "suffixes">>}
                 \cup {<<o, "suffixes">> : o \in Postfix},
  call |-> {<<"(", ")">>, <<"(", "element", "elements", ")">>},
  paren |-> {<<p, ")">> : p \in LParen}
              \cup {<<p, "element", "elements", ")">> : p \in LParen},
  elements |-> More(",", "element", "elements"),
  element |-> {<<"expr">>, <<"name", "=", "expr">>},
  name |-> Name]

Statements == [
  file |-> {<<>>, <<"item", "file">>},
  items |-> {<<>>, <<"item", "items">>},
  item |-> {<<"decl">>, <<"expr">>, <<"stmt">>, <<"assign">>},
  assign |-> {<<"expr", "=", "expr">>},
  stmt |-> {<<";">>, <<"break">>, <<"continue">>, <<"stmtBrace">>,
            <<"return">>, <<"return", "expr">>, <<"stmtIf">>,
            <<"while", "expr", "stmtBrace">>,
            <<"do", "stmtBrace", "while", "expr">>,
            <<"for", "pattern", "in", "expr", "stmtBrace">>,
            <<"for", "forInit", ";", "maybeExpr", ";", "forStep",
              "stmtBrace">>},
  stmtBrace |-> {<<"{", "items", "}">>},
  stmtIf |-> {<<"if", "expr", "stmtBrace">>,
              <<"if", "expr", "stmtBrace", "else", "stmtBrace">>,
              <<"if", "expr", "stmtBrace", "else", "stmtIf">>},
  forInit |-> {<<>>, <<"declVar">>, <<"expr">>, <<"assign">>},
  forStep |-> {<<>>, <<"expr">>, <<"assign">>},
  maybeExpr |-> {<<>>, <<"expr">>}]

Types == [
  annotation |-> {<<"attributes", "type">>},
  type |-> {<<"simple">>, <<"array">>, <<"tuple", "->", "type">>},
  simple |-> {<<"typeId", "metatypes">>, <<"tuple", "metatypes">>,
              <<"composition", "metatypes">>},
  metatypes |-> {<<>>, <<".", "metatype", "metatypes">>},
  array |-> {<<"simple", "slice">>},
  slice |-> {<<"[", "]">>, <<"[", "]", "slice">>},
  typeId |-> {<<"name", "generic">>, <<"name", "generic", ".", "typeId">>},
  generic |-> {<<>>, <<"<", "type", "types", "closeAngle">>},
  types |-> More(",", "type", "types"),
  closeAngle |-> {<<">">>},
  composition |-> {<<"protocol", "<", "closeAngle">>,
                   <<"protocol", "<", "typeId", "typeIds", "closeAngle">>},
  typeIds |-> More(",", "typeId", "typeIds"),
  tuple |-> {<<p, "tupleBody", ")">> : p \in LParen}
              \cup {<<p, ")">> : p \in LParen},
  tupleBody |-> {<<"tupleElement", "tupleElements">>,
                 <<"tupleElement", "tupleElements", "...">>},
  tupleElements |-> More(",", "tupleElement", "tupleElements"),
  tupleElement |-> {<<"annotation">>, <<"name", "value">>},
  value |-> {<<":", "annotation">>, <<":", "annotation", "=", "expr">>,
             <<"=", "expr">>},
  attributes |-> Maybe({<<s, "]">> : s \in LSquare}
                       \cup {<<s, "attribute", "moreAttributes", "]">> :
                               s \in LSquare}),
  moreAttributes |-> More(",", "attribute", "moreAttributes"),
  attribute |-> {<<"infix">>, <<"infix", "=", "int">>, <<"fragile">>,
                 <<"byref">>, <<"asmname", "=", "str">>}
                  \cup {<<"byref", p, "heap", ")">> : p \in LParen}]

Patterns == [
  pattern |-> {<<"atom">>, <<"atom", ":", "annotation">>},
  atom |-> {<<"name">>, <<"patternTuple">>},
  patternTuple |-> {<<p, ")">> : p \in LParen}
                     \cup {<<p, "patternElement", "patternElements", ")">> :
                             p \in LParen},
  patternElements |-> {<<>>, <<"...">>,
                       <<",", "patternElement", "patternElements">>},
  patternElement |-> {<<"pattern">>, <<"pattern", "=", "expr">>},
  signature |-> {<<"arguments">>, <<"arguments", "->", "type">>},
  arguments |-> {<<"curried">>, <<"patternTuple", "selectors">>},
  curried |-> {<<"patternTuple">>, <<"patternTuple", "curried">>},
  selectors |-> {<<"selector">>, <<"selector", "selectors">>},
  selector |-> {<<"name", p, "patternElement", ")">> : p \in LParen},
  genericParams |-> {<<>>,
    <<"<", "genericParam", "moreParams", "maybeRequires", "closeAngle">>},
  moreParams |-> More(",", "genericParam", "moreParams"),
  genericParam |-> {<<"name">>, <<"name", ":", "typeId">>,
                    <<"name", ":", "composition">>},
  maybeRequires |-> {<<>>, <<"requires", "requirement", "requirements">>},
  requirements |-> More(",", "requirement", "requirements"),
  requirement |-> {<<"typeId", ":", "typeId">>,
                   <<"typeId", ":", "composition">>,
                   <<"typeId", "==", "typeId">>}]

Declarations == [
  decl |-> {<<"import", "attributes", "anyName", "path">>,
            <<"extension", "typeId", "inherits", "{", "members", "}">>,
            <<"declVar">>,
            <<"typealias", "name", "inherits", "=", "type">>,
            <<"typealias", "name", "inherits">>,
            <<"oneof", "nominal", "{", "oneOfBody", "}">>,
            <<"struct", "nominal", "{", "members", "}">>,
            <<"class", "nominal", "{", "members", "}">>,
            <<"constructor", "attributes", "genericParams", "patternTuple",
              "stmtBrace">>,
            <<"destructor", "attributes", "stmtBrace">>,
            <<"protocol", "attributes", "name", "inherits",
              "{", "members", "}">>,
            <<"declFunc">>, <<"static", "declFunc">>,
            <<"subscript", "attributes", "patternTuple", "->", "annotation">>,
            <<"subscript", "attributes", "patternTuple", "->", "annotation",
              "{", "accessors", "}">>},
  anyName |-> One(Ids \cup Operators),
  path |-> More(".", "anyName", "path"),
  inherits |-> {<<>>, <<":", "typeId", "typeIds">>},
  nominal |-> {<<"attributes", "name", "genericParams", "inherits">>},
  members |-> {<<>>, <<"decl", "members">>, <<"decl", ";", "members">>},
  oneOfBody |-> {<<"oneOfElement", "oneOfElements", "members">>},
  oneOfElements |-> More(",", "oneOfElement", "oneOfElements"),
  oneOfElement |-> {<<"name">>, <<"name", ":", "annotation">>},
  declVar |-> {<<"var", "attributes", "binding", "bindings">>,
               <<"var", "attributes", "name", ":", "annotation",
                 "{", "getSet", "}">>},
  bindings |-> More(",", "binding", "bindings"),
  binding |-> {<<"pattern">>, <<"pattern", "=", "expr">>},
  accessors |-> {<<"getSet">>},
  getSet |-> {<<"getter">>, <<"getter", "setter">>, <<"setter", "getter">>},
  getter |-> {<<"get", "stmtBrace">>},
  setter |-> {<<"set", "setName", "stmtBrace">>},
  setName |-> Maybe({<<p, "name", ")">> : p \in LParen}),
  declFunc |-> {<<"func", "attributes", "anyName", "genericParams",
                  "signature">>,
                <<"func", "attributes", "anyName", "genericParams",
                  "signature", "stmtBrace">>}]

(* What no production has and the parser takes all the same: a comma behind *)
(* the last element of a oneof, a subscript without accessors.             *)
Tolerated == [
  oneOfElements |-> {<<",">>},
  accessors |-> {<<>>}]

Grammar == <<Expressions, Statements, Types, Patterns, Declarations>>
Nonterminals == UNION {DOMAIN Grammar[i] : i \in DOMAIN Grammar}
Productions(s) ==
  Grammar[CHOOSE i \in DOMAIN Grammar : s \in DOMAIN Grammar[i]][s]

(***************************************************************************)
(* Can the stack of symbols produce the text, with productions beyond the  *)
(* grammar's?  A ">>" closes two brackets.                                 *)
(***************************************************************************)
RECURSIVE Derives(_, _, _)
Derives(symbols, text, more) ==
  IF symbols = <<>> THEN text = <<>>
  ELSE LET s == Head(symbols)
           others == Tail(symbols)
       IN  \/ /\ s \in Nonterminals
              /\ \E p \in Productions(s) : Derives(p \o others, text, more)
           \/ /\ s \in DOMAIN more
              /\ \E p \in more[s] : Derives(p \o others, text, more)
           \/ /\ s \notin Nonterminals
              /\ text # <<>>
              /\ \/ Head(text) = s /\ Derives(others, Tail(text), more)
                 \/ /\ s = ">" /\ Head(text) = ">>"
                    /\ Derives(others, <<">">> \o Tail(text), more)

IsProgram(text) == Derives(<<"file">>, text, <<>>)
IsTolerated(text) == Derives(<<"file">>, text, Tolerated)
=============================================================================
