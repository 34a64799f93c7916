-------------------------------- MODULE Lexer --------------------------------
(***************************************************************************)
(* lexer_tokenize: a text becomes a list of tokens, or an error.  The text *)
(* is a sequence of characters; a word that is not taken apart by any      *)
(* property stands for its letters and counts as one character.  Reading   *)
(* at Len(text) + 1 finds the terminating NUL, beyond that is outside the  *)
(* buffer.                                                                 *)
(***************************************************************************)
EXTENDS Tokens

CONSTANTS
  Texts,      (* the source texts a behaviour may start from                *)
  Letters,    (* letters and words: what isalpha accepts, without "_"       *)
  HexLetters, (* those of them that are one of a .. f                       *)
  Digits,     (* digits and numbers: what isdigit accepts                   *)
  MaxString   (* bytes kept of a string literal, 4095 in the code           *)

NUL == "NUL"
Blanks == {" ", "\n"}

(* Neither isalpha nor isdigit accepts a sign, a blank or the terminator.  *)
ASSUME LexerAssumption ==
  /\ \A t \in Texts : t \in Seq(STRING)
  /\ HexLetters \subseteq Letters
  /\ "0" \in Digits
  /\ Letters \cap Digits = {}
  /\ (Letters \cup Digits) \cap (OneChar \cup Blanks \cup {NUL, "_", "\"", "'", "\\"}) = {}
  /\ MaxString \in Nat

VARIABLES
  text,    (* source; it never changes                                      *)
  at,      (* l.pos + 1                                                     *)
  mode,    (* where lexer_tokenize is: code, comment, string, done, error   *)
  depth,   (* the local of skip_whitespace_and_comments                     *)
  first,   (* where the string literal under way begins                     *)
  blen,    (* the bytes of it kept so far                                   *)
  tokens   (* out->tokens: kind, first and last character, and start, the   *)
           (* character the code takes for the first                        *)

lexVars == <<text, at, mode, depth, first, blen, tokens>>

Alnum == Letters \cup Digits \cup {"_"}
EscapesAndEnd == {"n", "r", "t", "0", "\\", "\"", "'", NUL}
Escapes == {"n", "r", "t", "0", "\\", "\"", "'"}

(* peek, peek_next, is_at_end: what stands at i, the terminator at the end. *)
Char(i) == IF i \in DOMAIN text THEN text[i] ELSE NUL
AtEnd == at > Len(text)
Next2 == <<Char(at), Char(at + 1)>>

(* The first position from i on whose character is not in S: a loop of      *)
(* advance while peek is in S.                                              *)
After(S, i) ==
  CHOOSE j \in i..(IF i > Len(text) THEN i ELSE Len(text) + 1) :
    Char(j) \notin S /\ \A k \in i..(j - 1) : Char(k) \in S

Token(kind, from, end, start) ==
  [kind |-> kind, first |-> from, last |-> end - 1, start |-> start]

(* list_push of a token that ends before `end', and the loop goes on there. *)
Push(kind, from, end, start) ==
  /\ tokens' = Append(tokens, Token(kind, from, end, start))
  /\ at' = end
  /\ mode' = "code"
  /\ UNCHANGED <<text, depth, first, blen>>

Fail(end) ==
  /\ mode' = "error"
  /\ at' = end
  /\ UNCHANGED <<text, depth, first, blen, tokens>>

Move(end) ==
  /\ at' = end
  /\ UNCHANGED <<text, mode, depth, first, blen, tokens>>

LexInit ==
  /\ text \in Texts
  /\ at = 1
  /\ mode = "code"
  /\ depth = 0
  /\ first = 0
  /\ blen = 0
  /\ tokens = <<>>

(***************************************************************************)
(* Blanks and comments.                                                    *)
(***************************************************************************)
SkipBlank == mode = "code" /\ Char(at) \in Blanks /\ Move(After(Blanks, at))

SkipLineComment ==
  /\ mode = "code"
  /\ Next2 = <<"/", "/">>
  /\ \E end \in at..(Len(text) + 1) :
       /\ Char(end) \in {"\n", NUL}
       /\ \A k \in at..(end - 1) : Char(k) # "\n"
       /\ Move(end)

OpenComment ==
  /\ mode = "code"
  /\ Next2 = <<"/", "*">>
  /\ mode' = "comment"
  /\ depth' = 1
  /\ at' = at + 2
  /\ UNCHANGED <<text, first, blen, tokens>>

NewDepth ==
  CASE Next2 = <<"/", "*">> -> depth + 1
    [] Next2 = <<"*", "/">> -> depth - 1
    [] OTHER -> depth

InComment ==
  /\ mode = "comment"
  /\ ~AtEnd
  /\ depth' = NewDepth
  /\ at' = IF NewDepth = depth THEN at + 1 ELSE at + 2
  /\ mode' = IF NewDepth = 0 THEN "code" ELSE "comment"
  /\ UNCHANGED <<text, first, blen, tokens>>

(* A comment that is not closed ends with the text, without an error.      *)
CommentAtEnd ==
  /\ mode = "comment"
  /\ AtEnd
  /\ mode' = "code"
  /\ UNCHANGED <<text, at, depth, first, blen, tokens>>

Comment == Next2 \in {<<"/", "/">>, <<"/", "*">>}

(***************************************************************************)
(* One token.  The guards follow the order of the tests of the loop.       *)
(***************************************************************************)
LexTwoChar ==
  /\ mode = "code"
  /\ ~Comment
  /\ Next2 \in DOMAIN TwoChar
  /\ Push(TwoChar[Next2], at, at + 2, at)

WordEndAtDigit == After(Letters \cup {"_"}, at)
WordEnd == After(Alnum, at)

LexWord ==
  LET end == WordEnd
      word == IF end = at + 1 /\ Char(at) \in Keywords THEN Char(at) ELSE "IDENT"
  IN  /\ mode = "code"
      /\ Char(at) \in Letters \cup {"_"}
      /\ Push(word, at, end, at)

(* The end of a decimal number: digits, a fraction, an exponent.           *)
FractionEnd(i) ==
  IF Char(i) = "." /\ Char(i + 1) \in Digits THEN After(Digits \cup {"_"}, i + 1) ELSE i
ExponentEnd(i) ==
  IF Char(i) \notin {"e", "E"} THEN i
  ELSE IF Char(i + 1) \in {"+", "-"} THEN After(Digits, i + 2)
  ELSE After(Digits, i + 1)

LexNumber ==
  LET hex == Char(at) = "0" /\ Char(at + 1) \in {"x", "X"}
      int == IF hex THEN After(Digits \cup HexLetters \cup {"_"}, at + 2)
                    ELSE After(Digits \cup {"_"}, at)
      end == IF hex THEN int ELSE ExponentEnd(FractionEnd(int))
  IN  /\ mode = "code"
      /\ Char(at) \in Digits
      /\ Push(IF end = int THEN "INT" ELSE "FLOAT", at, end, at)

OpenString ==
  /\ mode = "code"
  /\ Char(at) = "\""
  /\ mode' = "string"
  /\ first' = at
  /\ blen' = 0
  /\ at' = at + 1
  /\ UNCHANGED <<text, depth, tokens>>

(* A character or an escape of a string; what the buffer cannot hold is    *)
(* dropped.                                                                *)
KeptOneMore == IF blen <= MaxString THEN blen + 1 ELSE blen
Kept == IF blen < MaxString THEN blen + 1 ELSE blen

InString ==
  LET size == IF Char(at) = "\\" THEN 2 ELSE 1
  IN  /\ mode = "string"
      /\ Char(at) \notin {NUL, "\"", "\n"}
      /\ Char(at) = "\\" => Char(at + 1) \in Escapes
      /\ at' = at + size
      /\ blen' = Kept
      /\ UNCHANGED <<text, mode, depth, first, tokens>>

StringBroken ==
  /\ mode = "string"
  /\ \/ Char(at) \in {NUL, "\n"} /\ Fail(at)
     \/ Char(at) = "\\" /\ Char(at + 1) \notin Escapes /\ Fail(at + 2)

(* The start is computed back from the kept bytes and the two quotes.      *)
StringStartEarly == (at + 1) - blen - 3
StringStart == (at + 1) - blen - 2

CloseString ==
  /\ mode = "string"
  /\ Char(at) = "\""
  /\ Push("STRING", first, at + 1, StringStart)

LexChar ==
  LET body == IF Char(at + 1) = "\\" THEN 2 ELSE 1
      close == at + 1 + body
  IN  /\ mode = "code"
      /\ Char(at) = "'"
      /\ \/ Char(at + 1) = NUL /\ Fail(at + 1)
         \/ body = 2 /\ Char(at + 2) \notin Escapes /\ Fail(close)
         \/ /\ Char(at + 1) # NUL
            /\ body = 2 => Char(at + 2) \in Escapes
            /\ IF Char(close) = "'" THEN Push("CHAR", at, close + 1, (close + 1) - 3)
                                    ELSE Fail(close)

LexOneChar ==
  /\ mode = "code"
  /\ ~Comment
  /\ Next2 \notin DOMAIN TwoChar
  /\ Char(at) \in OneChar
  /\ Push(Char(at), at, at + 1, at)

BadChar ==
  /\ mode = "code"
  /\ ~AtEnd
  /\ Char(at) \notin Blanks \cup Alnum \cup OneChar \cup {"\"", "'"}
  /\ Fail(at + 1)

EndOfText ==
  /\ mode = "code"
  /\ AtEnd
  /\ tokens' = Append(tokens, Token("EOF", at, at, at))
  /\ mode' = "done"
  /\ UNCHANGED <<text, at, depth, first, blen>>

LexNext ==
  \/ SkipBlank \/ SkipLineComment \/ OpenComment \/ InComment \/ CommentAtEnd
  \/ LexTwoChar \/ LexWord \/ LexNumber \/ LexChar \/ LexOneChar
  \/ OpenString \/ InString \/ StringBroken \/ CloseString
  \/ BadChar \/ EndOfText

(***************************************************************************)
(* Properties.                                                             *)
(***************************************************************************)
TypeOKLex ==
  /\ text \in Seq(STRING)
  /\ at \in Nat \ {0}
  /\ mode \in {"code", "comment", "string", "done", "error"}
  /\ depth \in Nat
  /\ first \in Nat
  /\ blen \in 0..MaxString
  /\ tokens \in Seq([kind : Kinds, first : Nat, last : Nat, start : Nat])

(* The lexer reads the text and its terminator and nothing behind it, also *)
(* after an escape that the end of the text cuts off.                      *)
ReadsInside == at <= Len(text) + 1 \/ mode = "error"

(* The tokens stand in the text one after the other: each begins, also by  *)
(* the start that string and character literals compute backwards, after   *)
(* the end of the one before, and none but the end marker is empty.        *)
TokensInOrder ==
  \A i \in DOMAIN tokens :
    /\ tokens[i].last < at
    /\ tokens[i].first <= tokens[i].start
    /\ tokens[i].start <= tokens[i].last + 1
    /\ tokens[i].kind # "EOF" => tokens[i].first <= tokens[i].last
    /\ i > 1 => tokens[i - 1].last < tokens[i].first
    /\ tokens[i].kind = "EOF" => i = Len(tokens) /\ mode = "done"

(* A token is as long as it can be: one that touches the next one is not   *)
(* the first half of a token of two characters, nor of a longer word.      *)
MaximalMunch ==
  \A i \in 2..Len(tokens) :
    LET a == tokens[i - 1]
        b == tokens[i]
    IN  (a.last + 1 = b.first /\ b.kind # "EOF") =>
          /\ a.first = a.last => <<text[a.last], text[b.first]>> \notin DOMAIN TwoChar
          /\ a.kind \in Keywords \cup {"IDENT"} => text[b.first] \notin Alnum
=============================================================================
