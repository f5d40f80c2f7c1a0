---------------------------- MODULE ParserMachine ----------------------------
(***************************************************************************)
(* The parser at work (lib/Parse): the token stream, and "todo", what is   *)
(* left to do of all the active functions, innermost first, as the C++     *)
(* stack would have it.                                                    *)
(***************************************************************************)
EXTENDS ParserCode

(***************************************************************************)
(* frames: the active contexts, each with the question whether the list of *)
(* declarations it fills has an entry.  The history of what went wrong:    *)
(* said, some diagnostic was given; hushed, a function failed or skipped a *)
(* token before any was; stuck, a loop came back to the token it started   *)
(* from; tripped, an assertion did not hold.                               *)
(***************************************************************************)
Tok(m) == IF m.rest = <<>> THEN "eof" ELSE Head(m.rest)
Peek(m) == IF Len(m.rest) < 2 THEN "eof" ELSE m.rest[2]
Holds(cond, m) == \E c \in cond : Tok(m) \in c[1] /\ Peek(m) \in c[2]

(* The lexer runs one token ahead of the parser and diagnoses what it does *)
(* not know.                                                               *)
Lexed(m) == [m EXCEPT !.said = @ \/ Tok(m) = "unknown" \/ Peek(m) = "unknown"]

Start(text, code) ==
  Lexed([rest |-> text, todo |-> code, shape |-> "",
         frames |-> <<[kind |-> "file", any |-> FALSE]>>,
         said |-> FALSE, hushed |-> FALSE, stuck |-> FALSE, tripped |-> FALSE])

ConsumeToken(m) ==
  IF m.rest = <<>> THEN [m EXCEPT !.tripped = TRUE]   \* "Lexing past eof!"
  ELSE Lexed([m EXCEPT !.rest = Tail(@)])

ConsumeStarting(m) ==
  IF Tok(m) = ">>" THEN [m EXCEPT !.rest = <<">">> \o Tail(@)]
  ELSE ConsumeToken(m)

(* skipUntil, skipUntilAnyOperator, skipUntilDeclRBrace,                   *)
(* skipUntilDeclStmtRBrace: they differ in what they stop at; all stop at  *)
(* the end of the file.                                                    *)
From(m, i) == [rest |-> SubSeq(m.rest, i + 1, Len(m.rest))]
Skipped(m, cond) ==
  LET stops == {i \in 0..Len(m.rest) :
                  i = Len(m.rest) \/ Holds(cond, From(m, i))}
      stop  == CHOOSE i \in stops : \A j \in stops : i <= j
      over  == {m.rest[i] : i \in 1..stop}
  IN  Lexed([m EXCEPT !.rest = SubSeq(@, stop + 1, Len(@)),
                      !.said = @ \/ "unknown" \in over,
                      !.hushed = @ \/ (stop > 0 /\ ~ m.said)])

(* Drop what the active functions still had to do up to the first step of  *)
(* the given kind; the contexts they entered are left on the way.          *)
DropTo(m, kind) ==
  LET found == {i \in 1..Len(m.todo) : m.todo[i].do = kind}
      to    == IF found = {} THEN Len(m.todo) + 1
               ELSE CHOOSE i \in found : \A j \in found : i <= j
      left  == Len(SelectSeq(SubSeq(m.todo, 1, to - 1),
                             LAMBDA s : s.do = "leave"))
  IN  [m EXCEPT !.todo = SubSeq(@, to, Len(@)),
                !.frames = SubSeq(@, 1, Len(@) - left)]

Failing(m) ==
  LET d == DropTo([m EXCEPT !.hushed = @ \/ ~ m.said], "rescue")
  IN  IF d.todo = <<>> THEN d
      ELSE [d EXCEPT !.todo = Head(d.todo).handler \o Tail(d.todo)]

InClosure(m) ==
  LET contexts == SelectSeq(m.frames, LAMBDA f : f.kind # "items")
  IN  contexts[Len(contexts)].kind = "closure"

Chosen(m, s) ==
  LET fits == {i \in 1..Len(s.cases) : Holds(s.cases[i][1], m)}
  IN  IF fits = {} THEN s.other
      ELSE s.cases[CHOOSE i \in fits : \A j \in fits : i <= j][2]

(* What s leads to next, where it only chooses.                            *)
Onward(m, s) ==
  CASE s.do = "call"    -> Code(s.fn, s.arg)
    [] s.do = "switch"  -> Chosen(m, s)
    [] s.do = "shape"   -> IF m.shape \in s.of THEN s.yes ELSE s.no
    [] s.do = "entries" -> IF m.frames[Len(m.frames)].any THEN s.yes ELSE s.no
    [] s.do = "closure" -> IF InClosure(m) THEN s.yes ELSE s.no
    [] s.do = "guarded" -> Append(s.body, [do |-> "rescue",
                                           handler |-> s.handler])
    [] s.do = "within"  -> Append(s.body, [do |-> "leave"])
    [] s.do = "while"   -> IF Holds(s.cond, m)
                           THEN Append(s.body, [do |-> "again", loop |-> s,
                                                from |-> m.rest])
                           ELSE <<>>
    [] s.do = "again"   -> IF s.from = m.rest THEN <<>> ELSE <<s.loop>>
    [] OTHER            -> <<>>

(* One step of the innermost function, with the others' in m.todo.         *)
Step(m, s) ==
  CASE s.do = "eat"   -> ConsumeToken(m)
    [] s.do = "split" -> ConsumeStarting(m)
    [] s.do = "say"   -> [m EXCEPT !.said = TRUE]
    [] s.do = "fail"  -> Failing(m)
    [] s.do = "trip"  -> [m EXCEPT !.tripped = TRUE]
    [] s.do = "skip"  -> Skipped(m, s.cond)
    [] s.do = "set"   -> [m EXCEPT !.shape = s.what]
    [] s.do = "within" -> [m EXCEPT !.frames =
                             Append(@, [kind |-> s.kind, any |-> FALSE]),
                                    !.todo = Onward(m, s) \o @]
    [] s.do = "leave" -> [m EXCEPT !.frames = SubSeq(@, 1, Len(@) - 1)]
    [] s.do \in {"made", "clear"} ->
         [m EXCEPT !.frames[Len(m.frames)].any = s.do = "made"]
    [] s.do = "break" -> [DropTo(m, "again") EXCEPT !.todo = Tail(@)]
    [] OTHER -> [m EXCEPT !.todo = Onward(m, s) \o @,
                          !.stuck = @ \/ (s.do = "again" /\ s.from = m.rest)]

(* Up to 2^k steps.                                                        *)
RECURSIVE Run(_, _)
Run(k, m) ==
  IF m.todo = <<>> THEN m
  ELSE IF k = 0 THEN Step([m EXCEPT !.todo = Tail(@)], Head(m.todo))
  ELSE Run(k - 1, Run(k - 1, m))

Parse(text, driver) == Run(10, Start(text, ParseFile(driver)))
=============================================================================
