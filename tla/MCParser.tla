------------------------------ MODULE MCParser ------------------------------
(***************************************************************************)
(* Texts for the front end: every short text over the characters on which  *)
(* the lexer branches, and programs that use every rule of the grammar,    *)
(* whole and with one token taken away, put in the place of another, or    *)
(* everything behind it missing.                                           *)
(***************************************************************************)
EXTENDS Parser

(* Programs as lists of lexemes.                                           *)
Units ==
  <<"package", "a", ".", "app", ";", "import", "b", ";", "import", "a", ".", "b", ";",
    "pub", "const", "a", "=", "1", ";">>
Functions ==
  <<"fn", "f", "[", "T", ",", "a", "]", "(", "Self", ":", "*", "const", "T", ",",
    "b", ":", "[", "1", "]", "a", ".", "b", ")", "->", "?", "T", "[", "a", "[", "b", "]", "]",
    "{", "return", ";", "}", "extern", "STRING", "fn", "f", "(", ")", "->", "T", ";">>
Loops ==
  <<"fn", "f", "(", ")", "->", "T", "{",
    "for", "let", "a", "=", "1", ";", "a", "<", "b", ";", "a", "++", "{", "break", ";", "}",
    "while", "a", "{", "continue", ";", "}",
    "for", ";", ";", "{", "}", "loop", "{", "unsafe", "{", "}", "}", "}">>
Statements ==
  <<"fn", "f", "(", ")", "->", "T", "{",
    "if", "a", "==", "b", "{", "a", "+=", "1", ";", "}",
    "else", "if", "a", "{", "let", "a", ":", "T", ";", "}",
    "else", "{", "defer", "f", "(", "a", ",", "-", "b", ")", ";", "}",
    "return", "a", "[", "1", "..", "]", "?", ".", "b", "as", "T", ";", "}">>
Expressions ==
  <<"const", "a", "=", "match", "b", "{", "E", ".", "a", "(", "a", ",", "b", ")", "=>",
    "(", "a", ")", ",", "E", "=>", "T", "{", "a", ":", "1", ",", "b", ":", "T", "{", "}", "}",
    "_", "=>", "T", "[", "a", "]", "{", "a", ":", "b", "[", "..", "1", "]", "}", "}", ";">>
Types ==
  <<"packed", "struct", "T", "{", "a", ":", "T", ";", "}",
    "pub", "struct", "T", "[", "a", "]", "{", "a", ":", "[", "]", "b", ";", "}",
    "enum", "E", "{", "a", ";", "b", "(", "a", ":", "T", ",", "b", ":", "T", ")", ";", "}",
    "union", "T", "{", "a", ":", "T", ";", "}">>
Members ==
  <<"impl", "T", ":", "a", "{", "pub", "fn", "f", "(", ")", "->", "T", "{", "}", "}",
    "interface", "T", "{", "fn", "f", "(", ")", "->", "T", ";", "}",
    "comptime", "{", "const", "a", ":", "T", "=", "1", ";", "}">>
Apps ==
  <<"kernel", "app", "a", "{", "fn", "f", "(", ")", "->", "T", "{", "}", "}",
    "ui", "app", "a", "{", "window", "(", "STRING", ")", "{", "a", ":", "1", ";",
    "button", "{", "onClick", "{", "f", "(", "CHAR", ")", ";", "}", "}", "}", "}">>

Programs ==
  {Units, Functions, Loops, Statements, Expressions, Types, Members, Apps}

(* A program with one thing wrong; some are still programs.                *)
CONSTANT Intruders
Damaged(p) ==
  {SubSeq(p, 1, n) : n \in 0..(Len(p) - 1)}
  \cup {RemoveAt(p, i) : i \in DOMAIN p}
  \cup {[p EXCEPT ![i] = x] : i \in DOMAIN p, x \in Intruders}

(* The characters of a lexeme, and a blank behind it.                      *)
Pairs == {<<c, TwoChar[c]>> : c \in DOMAIN TwoChar}
Spell(w) ==
  CASE w = "STRING" -> <<"\"", "a", "\"", " ">>
    [] w = "CHAR" -> <<"'", "a", "'", " ">>
    [] \E p \in Pairs : p[2] = w -> Append((CHOOSE p \in Pairs : p[2] = w)[1], " ")
    [] OTHER -> <<w, " ">>
Spelled(p) == FlattenSeq([i \in DOMAIN p |-> Spell(p[i])])

CommentChars == {"/", "*"}
NumberChars == {"0", "1", ".", "e", "+", "x", "_"}
OtherChars == {"a", "\"", "'", "\\", "n", "\n", "=", "@", "#"}
CONSTANTS MaxComment, MaxNumber, MaxOther
Short(S, n) == UNION {[1..k -> S] : k \in 0..n}

MCTexts ==
  Short(CommentChars, MaxComment) \cup Short(NumberChars, MaxNumber)
  \cup Short(OtherChars, MaxOther)
  \cup {Spelled(p) : p \in Programs \cup UNION {Damaged(p) : p \in Programs}}

MCLetters ==
  {"a", "b", "f", "e", "x", "n", "T", "E", "window", "button", "onClick"}
  \cup (Keywords \ {"_"})

(* Every program of the grammar is accepted, and what is accepted has been *)
(* read to its end: no guess about what a brace, a bracket or a word of a  *)
(* path opens goes wrong in one direction or the other (parser.c:416).     *)
AcceptsPrograms ==
  /\ AcceptedWhole
  /\ verdict \in {"rejected", "crashed"} \/ mode = "error" =>
       text \notin {Spelled(p) : p \in Programs}
=============================================================================
