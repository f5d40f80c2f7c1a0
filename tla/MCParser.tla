------------------------------ MODULE MCParser -------------------------------
(***************************************************************************)
(* Small programs that between them use every production of the grammar,   *)
(* and everything one edit away from them: a token dropped, replaced or    *)
(* put in.  Programs are what the recovery was written for, edits what it  *)
(* has to recover from.                                                    *)
(***************************************************************************)
EXTENDS Parser, TLC

Seeds == {
  <<"var", "id", ":", "id", "=", "int">>,
  <<"id", "=", "-", "id", "+", "id", "(", "id", "=", "int", ",", "str", ")">>,
  <<"id", ".", "id", "[", "int", "]", "++", "+", ".", "id">>,
  <<"new", "id", "[", "id", "]", "[", "]">>,
  <<"new", "id", "(", "int", ")">>,
  <<"id", "(", "{", "$0", "+", "int", "}", ")">>,
  <<"id", "=", "func", "(", "id", ":", "id", ")", "{", "return", "id", "}">>,
  <<"if", "id", "{", "id", "}", "else", "if", "id", "{", "}", "else", "{", "}">>,
  <<"while", "id", "{", "break", "}", "do", "{", "continue", "}", "while", "id">>,
  <<"for", "id", "in", "id", "{", "id", "++", "}">>,
  <<"for", " (", "id", ",", "_", ")", "in", "id", "{", "}">>,
  <<"for", "var", "id", "=", "int", ";", "id", "<", "int", ";", "id", "=", "int", "{", "}">>,
  <<"func", "id", "<", "id", ":", "id", ",", "id", ">", "(", "id", ":", "id", ")", "->", "id", "{", "}">>,
  <<"func", "id", "<", "id", "requires", "id", ".", "id", "==", "id", ">", "(", ")", "{", "}">>,
  <<"func", "id", "(", "id", ":", "id", ")", "id", "(", "id", ":", "id", "=", "int", ")">>,
  <<"func", " [", "infix", "=", "int", "]", "+", "(", "id", ":", "id", ")", "(", "id", ":", "id", "...", ")">>,
  <<"struct", "id", "<", "id", ">", ":", "id", "{", "var", "id", ":", "id", "}">>,
  <<"class", "id", "{", "constructor", "(", ")", "{", "}", "destructor", "{", "}", "}">>,
  <<"extension", "id", ".", "id", ":", "id", "{", "static", "func", "id", "(", ")", "{", "}", ";", "}">>,
  <<"extension", "id", "{", "var", "id", ":", "id", "{", "get", "{", "}", "set", "(", "id", ")", "{", "}", "}", "}">>,
  <<"struct", "id", "{", "subscript", "(", "id", ":", "id", ")", "->", "id", "{", "get", "{", "}", "}", "}">>,
  <<"struct", "id", "{", "subscript", "(", "id", ")", "->", "id", "{", "}", "}">>,
  <<"oneof", "id", "{", "id", ":", "id", ",", "id", "func", "id", "(", ")", "{", "}", "}">>,
  <<"protocol", "id", ":", "id", "{", "typealias", "id", "func", "id", "(", ")", "var", "id", ":", "id", "}">>,
  <<"import", " [", "fragile", "]", "id", ".", "id">>,
  <<"typealias", "id", "=", "(", "id", ":", "id", "=", "int", ",", "id", "...", ")", "->", "id", "[", "]">>,
  <<"var", "id", ":", " [", "byref", "(", "heap", ")", "]", "id", "<", "id", "<", "id", ">>">>,
  <<"var", "id", ":", "protocol", "<", "id", ",", "id", ">", "=", "id", ".", "metatype">>,
  <<"func", "id", "(", ")", "{", "var", "id", ":", "id", ".", "metatype", "if", "id", "{", "}", "}">>
}

\* What an edit puts in: each kind of token the parser looks for anywhere.
Edits == {"id", "int", "(", ")", "{", "}", "[", "]", ",", ":", ";", "=", "->",
  ".", "<", ">", "func", "var", "if", "in", "get", "...", "unknown", "+",
  "static", "protocol"}

\* The first i tokens of s, then by, then s from its j-th token on.
Cut(s, i, by, j) == SubSeq(s, 1, i) \o by \o SubSeq(s, j, Len(s))
Edited(s) ==
  {s} \cup {Cut(s, i - 1, <<>>, i + 1) : i \in 1..Len(s)}
      \cup {Cut(s, i - 1, <<t>>, i + 1) : i \in 1..Len(s), t \in Edits}
      \cup {Cut(s, i, <<t>>, i + 1) : i \in 0..Len(s), t \in Edits}
MCFiles == UNION {Edited(s) : s \in Seeds}
=============================================================================
