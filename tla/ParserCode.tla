----------------------------- MODULE ParserCode ------------------------------
(***************************************************************************)
(* The functions of the parser (lib/Parse), as sequences of the steps of   *)
(* ParserSteps.  What a function returns, where a caller looks at it, is   *)
(* left in the machine's "shape".  Not modelled: names and the scopes they *)
(* are looked up in, the applicability and duplication of attributes, and  *)
(* the expressions inside interpolated strings.                            *)
(***************************************************************************)
EXTENDS ParserSteps

Attributes == When(LSquare, <<Call("attributeListPresent")>>)
Generics == When({"<"}, <<Call("genericParameters")>>)
Inheritance == When({":"}, <<Ignoring(<<Call("inheritance")>>)>>)
Identifier == Need(Ids)
AnyIdentifier == Need(Ids \cup Operators)

(*------------------------------ Expressions ------------------------------*)
ParseExpr ==
  <<Call("exprUnary"), While(At(Binary), <<Eat, Call("exprUnary")>>)>>

(* A binary operator where an operand is expected is diagnosed and taken   *)
(* for a prefix operator.                                                  *)
ParseExprUnary ==
  <<If({"new"}, <<Call("exprNew")>>,
       <<When(Binary, <<Say>>),
         If(Binary \cup Prefix, <<Eat, Call("exprUnary")>>,
                                <<Call("exprPostfix")>>)>>)>>

ParseExprNew ==
  <<Eat, Call("typeIdentifier"),
    If({"["}, <<CallWith("newBound", [first |-> TRUE, invalid |-> FALSE])>>,
              <<When({"("}, <<Call("exprParen")>>)>>)>>

(* One bound, and the rest.  After a bad bound the parser goes on at the   *)
(* "]", but asks the null bound for its value, which asserts.              *)
ParseNewBound(first, invalid) ==
  LET rest(bad) ==
        If({"["}, <<CallWith("newBound", [first |-> FALSE, invalid |-> bad])>>,
           IF bad THEN <<Fail>> ELSE <<When({"("}, <<Say, Fail>>)>>)
      broken == <<Set("broken"), SkipTo({"]"}), When(Tokens \ {"]"}, <<Fail>>)>>
  IN
  <<Eat,
    If({"]"},
       (IF first THEN <<Say>> ELSE <<>>) \o <<Eat, rest(invalid \/ first)>>,
       <<Guarded(<<Call("expr"), Set("value")>>, broken \o <<Trip>>),
         IfShape({"value"}, <<When(Tokens \ {"]"}, <<Say>> \o broken)>>, <<>>),
         Eat,
         IfShape({"value"}, <<rest(invalid)>>, <<rest(TRUE)>>)>>)>>

ParseExprPostfix ==
  <<Switch(<< <<At(Literals \cup Ids), <<Eat>> >>,
              <<At({"$0"}), <<Call("exprAnonClosureArg")>> >>,
              <<At({"{"}), <<Call("exprExplicitClosure")>> >>,
              <<At({"."}), <<Eat, Identifier>> >>,
              <<At(LParen), <<Call("exprParen")>> >>,
              <<At({"func"}), <<Call("exprFunc")>> >>,
              <<At({"unknown"}), <<Eat, Fail>> >> >>,
           <<Say, Fail>>),
    While(At({".", "(", "["} \cup Postfix),
      <<Switch(<< <<At({"."}), <<Eat, Need(Ids \cup {"$0", "metatype"})>> >>,
                  <<At({"("}), <<Call("exprParen")>> >>,
                  <<At({"["}), <<Eat, Call("expr"), Need({"]"})>> >> >>,
               <<Eat>>)>>)>>

(* "{ expr? }"; a missing "}" is diagnosed but the closure is kept.        *)
ParseExprExplicitClosure ==
  <<Eat, Within("closure",
                <<When(Tokens \ {"}"}, <<Call("expr")>>), Closing("}")>>)>>

ParseExprAnonClosureArg == <<Eat, IfInClosure(<<>>, <<Say>>)>>

ParseExprParen ==
  <<Eat, When(Tokens \ {")"}, ListOf(Call("exprParenElement"))), Need({")"})>>

ParseExprParenElement ==
  <<IfAt(AtPair(Ids, {"="}), <<Eat, Eat>>, <<>>), Call("expr")>>

(* Mutant: no diagnostic where neither a signature nor a body follows. *)
ParseExprFunc_Silent ==
  <<Eat,
    Switch(<< <<At({"{"}), <<>> >>, <<At(LParen), <<Call("signature")>> >> >>,
           <<Fail>>),
    Within("func", <<Call("stmtBrace")>>)>>

ParseExprFunc ==
  <<Eat,
    Switch(<< <<At({"{"}), <<>> >>, <<At(LParen), <<Call("signature")>> >> >>,
           <<Say, Fail>>),
    Within("func", <<Call("stmtBrace")>>)>>

(*------------------------------- Statements ------------------------------*)
ParseExprOrStmtAssign ==
  <<Call("expr"), When({"="}, <<Eat, Call("expr")>>)>>

ParseExprOrStmt ==
  <<Switch(<< <<At({";", "break", "continue"}), <<Eat>> >>,
              <<At({"{"}), <<Call("stmtBrace")>> >>,
              <<At({"return"}), <<Call("stmtReturn")>> >>,
              <<At({"if"}), <<Call("stmtIf")>> >>,
              <<At({"while"}), <<Call("stmtWhile")>> >>,
              <<At({"do"}), <<Call("stmtDoWhile")>> >>,
              <<At({"for"}), <<Call("stmtFor")>> >> >>,
           <<Call("exprOrStmtAssign")>>)>>

(* Where the parser goes on after an error in a list of items.             *)
SkipUntilDeclStmtRBrace ==
  SkipUntil(IsStartOfStmtOtherThanAssignment \cup IsStartOfDecl)
SkipUntilDeclRBrace == SkipUntil(IsStartOfDecl)

ParseBraceItemList ==
  <<Within("items",
      <<While(NotAt({"}", "eof"}),
          <<Clear,
            Guarded(<<IfAt(IsStartOfDecl, <<CallWith("decl", "local")>>,
                                          <<Call("exprOrStmt")>>)>>,
                    <<SkipUntilDeclStmtRBrace>>)>>)>>)>>

(* The list of the file: in the main module it ends after each item with a *)
(* side effect; in any other such an item is diagnosed.                    *)
ParseTopLevelItemList(isMain) ==
  LET inMain(steps) == IF isMain THEN steps ELSE <<>>
  IN
  <<Within("items",
      <<While(NotAt({"}", "eof"}),
          <<Clear,
            Guarded(
              <<Switch(<< <<At({"var"}), <<CallWith("decl", "top")>>
                                           \o inMain(<<Break>>)>>,
                          <<IsStartOfDecl, <<CallWith("decl", "top")>> >> >>,
                       <<Call("exprOrStmt"), IF isMain THEN Break ELSE Say>>)>>,
              <<SkipUntilDeclStmtRBrace>>)>>)>>)>>


ParseTranslationUnit(isMain) ==
  <<When({"}"}, <<Say, Eat>>), CallWith("topLevelItemList", isMain)>>

(* The compiler's own files are parsed again and again from where the last *)
(* call stopped, an imported module is parsed by one call.                 *)
ParseFile(driver) ==
  IF driver = "import" THEN <<CallWith("translationUnit", FALSE)>>
  ELSE LET unit == CallWith("translationUnit", driver = "main")
       IN  <<unit, While(NotAt({"eof"}), <<unit>>)>>

ParseStmtBrace == <<Need({"{"}), Call("braceItemList"), Need({"}"})>>

ParseStmtReturn == <<Eat, When(Tokens \ {"}", ";"}, <<Call("expr")>>)>>

ParseStmtIf ==
  <<Eat, Call("expr"), Call("stmtBrace"),
    When({"else"}, <<Eat, If({"if"}, <<Call("stmtIf")>>,
                                     <<Call("stmtBrace")>>)>>)>>

ParseStmtWhile == <<Eat, Call("expr"), Call("stmtBrace")>>

(* Mutant: the "while" is optional. *)
ParseStmtDoWhile_Optional ==
  <<Eat, Call("stmtBrace"), When({"while"}, <<Eat, Call("expr")>>)>>

ParseStmtDoWhile ==
  <<Eat, Call("stmtBrace"), Need({"while"}), Call("expr")>>

ParseStmtFor ==
  <<Eat, IfAt(At(LParen) \cup AtPair(Ids, {":", "in"}),
              <<Call("stmtForEach")>>, <<Call("stmtForCStyle")>>)>>

ParseStmtForCStyle ==
  <<Switch(<< <<At({"var"}), <<CallWith("declVar", "local")>> >>,
              <<At({";"}), <<>> >> >>, <<Call("exprOrStmtAssign")>>),
    Need({";"}),
    When(Tokens \ {";", "{"}, <<Call("expr")>>),
    Need({";"}),
    When(Tokens \ {"{"}, <<Call("exprOrStmtAssign")>>),
    Call("stmtBrace")>>

(* The body is parsed even after an error in the pattern or the container. *)
ParseStmtForEach ==
  LET body(bad) ==
        <<Eat, Guarded(<<Call("expr"), Set("container")>>, <<Set("none")>>),
          IfShape({"container"},
                  <<Call("stmtBrace")>> \o (IF bad THEN <<Fail>> ELSE <<>>),
                  <<Call("stmtBrace"), Fail>>)>>
  IN
  <<Guarded(<<Call("pattern"), Set("pattern")>>, <<Set("none")>>),
    IfShape({"pattern"}, <<If({"in"}, body(FALSE), <<Say, Fail>>)>>,
                         <<If({"in"}, body(TRUE), <<Fail>>)>>)>>

(*--------------------------------- Types ---------------------------------*)
ParseTypeAnnotation == <<Attributes, Call("type")>>

ParseValueSpecifier ==
  <<Switch(<< <<At({":"}), <<Eat, Call("typeAnnotation"), Set("typed"),
                             When({"="}, <<Eat, Call("expr"), Set("init")>>)>> >>,
              <<At({"="}), <<Eat, Call("expr"), Set("init")>> >> >>,
           <<Say, Fail>>)>>

ParseType ==
  <<Switch(<< <<At(Ids), <<Call("typeIdentifier"), Set("plain")>> >>,
              <<At({"protocol"}), <<Call("typeComposition"), Set("plain")>> >>,
              <<At(LParen), <<Eat, Call("typeTupleBody"), Need({")"}),
                              Set("tuple")>> >> >>,
           <<Say, Fail>>),
    While(AtPair({"."}, {"metatype"}), <<Eat, Eat>>),
    Switch(<< <<At({"->"}), <<Eat, IfShape({"tuple"}, <<>>, <<Say>>),
                              Call("type")>> >>,
              <<At({"["}), <<Call("typeArray")>> >> >>, <<>>)>>

ParseGenericArguments ==
  <<SplitAngle,
    Guarded(ListOf(Call("type")) \o
              <<If(Greater, <<SplitAngle>>, <<Say, Fail>>)>>,
            <<SkipTo(Operators), When(Greater, <<SplitAngle>>), Fail>>)>>

ParseTypeIdentifier ==
  LET component == <<Identifier, When({"<"}, <<Call("genericArguments")>>)>>
  IN  component \o
      <<While(AtPair({"."}, Tokens \ {"metatype"}), <<Eat>> \o component)>>

(* Not an error, whatever is between the brackets.                         *)
ParseTypeComposition ==
  <<Eat, If({"<"}, <<SplitAngle>>, <<Say, Fail>>),
    If(Greater, <<SplitAngle>>,
       <<Ignoring(ListOf(Call("typeIdentifier")) \o
                    <<When(Tokens \ Greater, <<Say>>)>>),
         When(Tokens \ Greater, <<SkipTo(Operators)>>),
         When(Greater, <<SplitAngle>>)>>)>>

ParseTypeTupleElement ==
  <<IfAt(AtPair(Ids, {":", "="}), <<Eat, Call("valueSpecifier")>>,
         <<Call("typeAnnotation"), Set("type")>>)>>

ParseTypeTupleBody ==
  <<IfAt(At({")", "}", "..."}) \cup IsStartOfDecl, <<Set("empty")>>,
         <<Guarded(ListOf(Call("typeTupleElement")),
                   <<SkipTo({")"}), When({")"}, <<Eat>>), Fail>>)>>),
    When({"..."}, <<Eat, IfShape({"empty", "init"}, <<Say, Fail>>, <<>>)>>)>>

(* Arrays of a fixed length are parsed and then refused.                   *)
ParseTypeArray ==
  LET more == When({"["}, <<Call("typeArray")>>)
  IN  <<Eat, If({"]"}, <<Eat, more>>,
                <<Call("expr"), Need({"]"}), more, Say, Fail>>)>>

(*-------------------------------- Patterns -------------------------------*)
Typed(plain, typed) ==
  If({":"}, <<Eat, Call("typeAnnotation"), Set(typed)>>, <<Set(plain)>>)

ParsePattern ==
  <<Switch(<< <<At(LParen \cup {"_"}), <<Call("patternAtom"),
                                         Typed("other", "typedOther")>> >> >>,
           <<Call("patternAtom"), Typed("named", "typedNamed")>>)>>

ParsePatternAtom ==
  <<Switch(<< <<At(LParen), <<Call("patternTuple")>> >>,
              <<At(Ids), <<Eat>> >> >>, <<Say, Fail>>)>>

ParsePatternTupleElement ==
  <<Call("pattern"), When({"="}, <<Eat, Call("expr"), Set("init")>>)>>

(* After an error the parser goes to the ")" but leaves it.                *)
ParsePatternTuple ==
  LET ellipsis == When({"..."},
        <<IfShape({"init"}, <<Say, Fail>>, <<>>), Eat,
          IfShape({"typedNamed", "typedOther"}, <<>>, <<Say, Fail>>)>>)
  IN
  <<Eat,
    If({")"}, <<Eat, Set("notOne")>>,
       <<Guarded(
           <<Call("patternTupleElement"),
             If({","},
                <<While(At({","}), <<Eat, Call("patternTupleElement")>>),
                  ellipsis, Need({")"}), Set("notOne")>>,
                <<ellipsis, Need({")"}), Set("one")>>)>>,
           <<SkipTo({")"}), Fail>>)>>)>>

ParseSelectorArgument ==
  <<Eat, If(LParen, <<Eat>>, <<Say, Fail>>), When({")"}, <<Say, Fail>>),
    Guarded(<<Call("patternAtom"),
              When({":"}, <<Eat, Call("typeAnnotation")>>),
              When({"="}, <<Eat, Call("expr")>>)>>,
            <<SkipTo({")"}), Fail>>),
    When({","}, <<Say, SkipTo({")"}), Fail>>),
    Need({")"})>>

(* One clause, then either selectors or more clauses.                      *)
ParseFunctionArguments ==
  <<Call("patternTuple"),
    If(Ids,
       <<IfShape({"one"}, <<>>, <<Say, Fail>>),
         While(At(Ids), <<Call("selectorArgument")>>),
         When(LParen, <<Say, Fail>>)>>,
       <<While(At(LParen), <<Call("patternTuple")>>)>>)>>

ParseFunctionSignature ==
  <<Call("functionArguments"), When({"->"}, <<Eat, Call("type")>>)>>


ParseGenericParameters ==
  <<SplitAngle,
    Ignoring(ListOf(Call("genericParam"))),
    When({"requires"}, <<Ignoring(<<Call("requiresClause")>>)>>),
    When(Tokens \ Greater, <<Say, SkipTo(Operators)>>),
    When(Greater, <<SplitAngle>>)>>

ParseGenericParam ==
  <<Identifier,
    When({":"}, <<Eat,
      Switch(<< <<At(Ids), <<Ignoring(<<Call("typeIdentifier")>>)>> >>,
                <<At({"protocol"}),
                  <<Ignoring(<<Call("typeComposition")>>)>> >> >>,
             <<Say>>)>>)>>

ParseRequiresClause == <<Eat>> \o ListOf(Call("requirement"))

ParseRequirement ==
  <<Call("typeIdentifier"),
    Switch(<< <<At({":"}), <<Eat, If({"protocol"}, <<Call("typeComposition")>>,
                                                 <<Call("typeIdentifier")>>)>> >>,
              <<At({"=="}), <<Eat, Call("typeIdentifier")>> >>,
              <<At({"="}), <<Say, Eat, Call("typeIdentifier")>> >> >>,
           <<Say, Fail>>)>>

(*------------------------------ Declarations -----------------------------*)
ParseAttribute ==
  <<Switch(
      << <<At({"infix"}),
           <<Eat, When({"="}, <<Eat, Guarded(<<Need({"int"})>>,
                                             <<SkipTo({"]", ","})>>)>>)>> >>,
         <<At({"fragile"}), <<Eat>> >>,
         <<At({"byref"}),
           <<Eat, When(LParen,
              <<Eat, Switch(<< <<At({"heap"}), <<Eat>> >>,
                               <<At(Ids), <<Say, Eat>> >> >>,
                            <<Say, SkipTo({")"})>>),
                Closing(")")>>)>> >>,
         <<At({"asmname"}),
           <<Eat, If({"="}, <<Eat, Closing("str")>>, <<Say>>)>> >> >>,
      <<Say, SkipTo({"]"}), Fail>>)>>

ParseAttributeListPresent ==
  <<Eat,
    If({"]"}, <<Eat>>,
       <<Set("fine")>> \o ListOf(Guarded(<<Call("attribute")>>, <<Set("bad")>>))
       \o <<If({"]"}, <<Eat>>,
               <<IfShape({"fine"}, <<Say>>, <<>>), SkipTo({"]"}),
                 When({"]"}, <<Eat>>)>>)>>)>>

(* where: "top", "local", or the type whose member it is.  In a type a ";" *)
(* after the declaration is eaten.  No entry so far is an error, as is a   *)
(* null one.                                                               *)
Members == {"struct", "class", "oneof", "extension", "protocol"}
ParseDecl(where) ==
  LET unless(allowed) == IF allowed THEN <<>> ELSE <<Say>>
      topOnly == unless(where = "top")
      nominal(sort) == <<CallWith("declNominal", sort)>>
                          \o unless(where # "protocol")
      semi == IF where \in Members THEN <<When({";"}, <<Eat>>)>> ELSE <<>>
  IN
  <<Guarded(
      <<Switch(
          << <<At({";"}), <<Say, Eat>> >>,
             <<At({"import"}), <<Call("declImport"), Made>> \o topOnly>>,
             <<At({"extension"}), <<Call("declExtension"), Made>> \o topOnly>>,
             <<At({"var"}), <<CallWith("declVar", where)>> >>,
             <<At({"typealias"}), <<CallWith("declTypeAlias", where), Made>> >>,
             <<At({"oneof"}), nominal("oneof")>>,
             <<At({"struct"}), nominal("struct")>>,
             <<At({"class"}), nominal("class")>>,
             <<At({"constructor"}), <<Call("declConstructor"), Made>> >>,
             <<At({"destructor"}), <<Call("declDestructor"), Made>> >>,
             <<At({"protocol"}), <<Call("declProtocol"), Made>> \o topOnly
                                    \o unless(where # "protocol")>>,
             <<At({"func"}) \cup AtPair({"static"}, {"func"}),
               <<CallWith("declFunc", where), Made>> >>,
             <<At({"subscript"}), <<CallWith("declSubscript", where)>> >> >>,
          <<Say, Fail>>)>>,
      semi \o <<Fail>>)>>
  \o semi \o <<IfEntries(<<>>, <<Fail>>)>>

ParseDeclImport ==
  <<Eat, Attributes, AnyIdentifier, While(At({"."}), <<Eat, AnyIdentifier>>)>>

ParseInheritance == <<Eat>> \o ListOf(Call("typeIdentifier"))

MemberList(where) ==
  While(NotAt({"}", "eof"}),
        <<Guarded(<<CallWith("decl", where)>>, <<SkipUntilDeclRBrace>>)>>)

ParseDeclExtension ==
  <<Eat, Call("typeIdentifier"), Inheritance, Need({"{"}),
    Within("type", <<MemberList("extension"), Closing("}")>>)>>

ParseDeclTypeAlias(where) ==
  <<Eat, Identifier, Inheritance>> \o
  IF where = "protocol" THEN <<When({"="}, <<Eat, Call("type"), Say>>)>>
  ELSE <<Need({"="}), Call("type")>>

(* A variable that is not a property is refused in an extension, one that  *)
(* is a property or has an initial value in a protocol.                    *)
ParseDeclVar(where) ==
  LET sayIn(S) == IF where \in S THEN <<Say>> ELSE <<>>
      init(hasGetSet) ==
        <<When({"="}, <<Eat, Call("expr")>> \o sayIn({"protocol"})
                        \o IF hasGetSet THEN <<Say>> ELSE <<>>),
          Made>>
      stored == sayIn({"extension", "oneof"})
      others(hasGetSet) ==
        init(hasGetSet) \o
        <<While(At({","}), <<Eat, Call("pattern")>> \o stored \o init(hasGetSet))>>
  IN
  <<Eat, Attributes, Call("pattern"),
    IfAt(AtPair({"{"}, {"get"}) \cup AtPair({"{"}, {"set"}),
         <<Call("declVarGetSet")>> \o sayIn({"protocol"}) \o others(TRUE),
         stored \o others(FALSE))>>

(* The accessors up to the "}"; in the end what there is of them.          *)
ParseGetSet(has) ==
  LET again(t) == IF t \in has THEN <<Say>> ELSE <<>>
      body(t) == <<Within("func", <<Guarded(<<Call("stmtBrace")>>,
                                            <<SkipUntilDeclRBrace, Fail>>)>>),
                   CallWith("getSet", has \cup {t})>>
      result == IF "get" \in has THEN "get"
                ELSE IF "set" \in has THEN "setOnly" ELSE "neither"
  IN
  <<Switch(
      << <<At({"get"}),
           again("get") \o
           <<Eat, IfAt(AtPair(LParen, {")"}), <<Eat, Eat, Say>>, <<>>)>>
           \o body("get")>>,
         <<At({"set"}),
           again("set") \o
           <<Eat, When(LParen,
              <<Eat, Switch(<< <<At(Ids), <<Eat, Closing(")")>> >>,
                               <<At({")"}), <<Say, Eat>> >> >>,
                            <<Say, SkipTo({")", "{"}), When({")"}, <<Eat>>)>>)>>)>>
           \o body("set")>>,
         <<At(Ids), <<Say, SkipUntilDeclRBrace, Fail>> >> >>,
      <<Set(result)>>)>>

ParseDeclVarGetSet ==
  <<IfShape({"typedNamed"}, <<>>, <<Say>>), Eat,
    Guarded(<<CallWith("getSet", {}), Closing("}"),
              IfShape({"setOnly"}, <<Say>>, <<>>)>>,
            <<SkipUntilDeclRBrace>>)>>

(* An error in the body is diagnosed there and the function is kept.       *)
ParseDeclFunc(where) ==
  <<When({"static"}, <<Eat>> \o IF where \in Members THEN <<>> ELSE <<Say>>),
    Eat, Attributes, AnyIdentifier, Generics,
    If(LParen, <<Call("signature")>>, <<Say, Fail>>),
    When({"{"}, <<Within("func", <<Ignoring(<<Call("stmtBrace")>>)>>)>>
                   \o IF where = "protocol" THEN <<Say>> ELSE <<>>)>>

ParseOneOfElement ==
  <<Eat,
    When({":"}, <<Eat, Guarded(<<Call("typeAnnotation")>>,
                               <<SkipTo({"}"}), Fail>>)>>),
    Made,
    When({","}, <<Eat, When(Ids, <<Call("oneOfElement")>>)>>)>>

ParseDeclNominal(sort) ==
  <<Eat, Attributes, Identifier, Generics, Inheritance, Need({"{"}), Made,
    Within("type", (IF sort = "oneof" THEN <<When(Ids, <<Call("oneOfElement")>>)>>
                    ELSE <<>>) \o <<MemberList(sort)>>),
    Need({"}"})>>

(* The list of members starts with the associated type This.               *)
ParseDeclProtocol ==
  <<Eat, Attributes, Identifier, Inheritance,
    Within("type", <<Need({"{"}), Made, MemberList("protocol"), Closing("}")>>)>>

(* A get-set clause without either is no error, and adds no declaration.   *)
ParseDeclSubscript(where) ==
  <<Eat, Attributes, If(LParen, <<Call("patternTuple")>>, <<Say, Fail>>),
    Need({"->"}), Call("typeAnnotation")>>
  \o
  IF where = "protocol" THEN <<Made>>
  ELSE <<Need({"{"}),
         Guarded(<<CallWith("getSet", {}), Closing("}")>>,
                 <<SkipUntilDeclRBrace, Set("invalid")>>),
         IfShape({"get"}, <<Made>>, <<>>),
         IfShape({"setOnly"}, <<Say, Fail>>, <<>>),
         IfShape({"invalid"}, <<Fail>>, <<>>)>>

ParseDeclConstructor ==
  <<Eat, Attributes, Generics,
    If(LParen, <<Call("patternTuple")>>, <<Say, Fail>>),
    If({"{"}, <<>>, <<Say, Fail>>),
    Within("func", <<Ignoring(<<Call("stmtBrace")>>)>>)>>

ParseDeclDestructor ==
  <<Eat, Attributes, If({"{"}, <<>>, <<Say, Fail>>),
    Within("func", <<Ignoring(<<Call("stmtBrace")>>)>>)>>

(*------------------------------ The functions ----------------------------*)
Plain == [
  expr |-> ParseExpr,
  exprUnary |-> ParseExprUnary,
  exprNew |-> ParseExprNew,
  exprPostfix |-> ParseExprPostfix,
  exprExplicitClosure |-> ParseExprExplicitClosure,
  exprAnonClosureArg |-> ParseExprAnonClosureArg,
  exprParen |-> ParseExprParen,
  exprParenElement |-> ParseExprParenElement,
  exprFunc |-> ParseExprFunc,
  exprOrStmtAssign |-> ParseExprOrStmtAssign,
  exprOrStmt |-> ParseExprOrStmt,
  braceItemList |-> ParseBraceItemList,
  stmtBrace |-> ParseStmtBrace,
  stmtReturn |-> ParseStmtReturn,
  stmtIf |-> ParseStmtIf,
  stmtWhile |-> ParseStmtWhile,
  stmtDoWhile |-> ParseStmtDoWhile,
  stmtFor |-> ParseStmtFor,
  stmtForCStyle |-> ParseStmtForCStyle,
  stmtForEach |-> ParseStmtForEach,
  typeAnnotation |-> ParseTypeAnnotation,
  valueSpecifier |-> ParseValueSpecifier,
  type |-> ParseType,
  genericArguments |-> ParseGenericArguments,
  typeIdentifier |-> ParseTypeIdentifier,
  typeComposition |-> ParseTypeComposition,
  typeTupleElement |-> ParseTypeTupleElement,
  typeTupleBody |-> ParseTypeTupleBody,
  typeArray |-> ParseTypeArray,
  pattern |-> ParsePattern,
  patternAtom |-> ParsePatternAtom,
  patternTupleElement |-> ParsePatternTupleElement,
  patternTuple |-> ParsePatternTuple,
  selectorArgument |-> ParseSelectorArgument,
  functionArguments |-> ParseFunctionArguments,
  signature |-> ParseFunctionSignature,
  genericParameters |-> ParseGenericParameters,
  genericParam |-> ParseGenericParam,
  requiresClause |-> ParseRequiresClause,
  requirement |-> ParseRequirement,
  attribute |-> ParseAttribute,
  attributeListPresent |-> ParseAttributeListPresent,
  declImport |-> ParseDeclImport,
  inheritance |-> ParseInheritance,
  declExtension |-> ParseDeclExtension,
  declVarGetSet |-> ParseDeclVarGetSet,
  oneOfElement |-> ParseOneOfElement,
  declProtocol |-> ParseDeclProtocol,
  declConstructor |-> ParseDeclConstructor,
  declDestructor |-> ParseDeclDestructor]

Code(fn, arg) ==
  CASE fn = "newBound"         -> ParseNewBound(arg.first, arg.invalid)
    [] fn = "topLevelItemList" -> ParseTopLevelItemList(arg)
    [] fn = "translationUnit"  -> ParseTranslationUnit(arg)
    [] fn = "decl"             -> ParseDecl(arg)
    [] fn = "declTypeAlias"    -> ParseDeclTypeAlias(arg)
    [] fn = "declVar"          -> ParseDeclVar(arg)
    [] fn = "getSet"           -> ParseGetSet(arg)
    [] fn = "declFunc"         -> ParseDeclFunc(arg)
    [] fn = "declNominal"      -> ParseDeclNominal(arg)
    [] fn = "declSubscript"    -> ParseDeclSubscript(arg)
    [] OTHER                   -> Plain[fn]
=============================================================================
