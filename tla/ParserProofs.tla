---------------------------- MODULE ParserProofs ----------------------------
(***************************************************************************)
(* What holds of the lexer and the parser for every text: the lexer stays  *)
(* inside the text, its tokens stand in order and are as long as they can  *)
(* be, the parser's cursor does not leave the token list before the first  *)
(* error, and what the parser accepts it has read to its end.              *)
(***************************************************************************)
EXTENDS Parser, SequenceLemmas, FiniteSetTheorems

(***************************************************************************)
(* Facts about numbers and tuples.                                         *)
(***************************************************************************)

(* Every pair of the table of two-character tokens is made of signs, and   *)
(* its token is one of the eighteen.                                       *)
TwoCharKinds ==
  {"->", "=>", "==", "!=", "<=", ">=", "&&", "||", "++", "--", "+=", "-=", "*=",
   "/=", "%=", "<<", ">>", ".."}

(* The domain holds pairs of signs only, and the arrows are tokens.        *)
LEMMA TwoCharFacts ==
  /\ \A p \in DOMAIN TwoChar :
       /\ p = <<p[1], p[2]>>
       /\ p[1] \in OneChar
       /\ p[2] \in OneChar
       /\ TwoChar[p] \in TwoCharKinds
  /\ {"->", "=>"} \subseteq Kinds
<1> DEFINE rows == {<<"-", ">", "->">>, <<"=", ">", "=>">>, <<"=", "=", "==">>,
                    <<"!", "=", "!=">>, <<"<", "=", "<=">>, <<">", "=", ">=">>,
                    <<"&", "&", "&&">>, <<"|", "|", "||">>, <<"+", "+", "++">>,
                    <<"-", "-", "--">>, <<"+", "=", "+=">>, <<"-", "=", "-=">>,
                    <<"*", "=", "*=">>, <<"/", "=", "/=">>, <<"%", "=", "%=">>,
                    <<"<", "<", "<<">>, <<">", ">", ">>">>, <<".", ".", "..">>}
           found(p) == CHOOSE r \in rows : <<r[1], r[2]>> = p
<1>1. ASSUME NEW r \in rows
      PROVE  r[1] \in OneChar /\ r[2] \in OneChar /\ r[3] \in TwoCharKinds
  <2>1. r[1] \in {"-", "=", "!", "<", ">", "&", "|", "+", "*", "/", "%", "."}
    OBVIOUS
  <2>2. r[2] \in {">", "=", "&", "|", "-", "+", "<", "."}
    OBVIOUS
  <2>3. r[3] \in TwoCharKinds
    BY DEF TwoCharKinds
  <2>4. QED
    BY <2>1, <2>2, <2>3 DEF OneChar
<1>2. TwoChar = [p \in {<<r[1], r[2]>> : r \in rows} |-> found(p)[3]]
  BY DEF TwoChar
<1>3. /\ <<"-", ">", "->">> \in rows
      /\ <<"=", ">", "=>">> \in rows
  OBVIOUS
<1>4. \A r \in rows : <<r[1], r[2]>> = <<"-", ">">> => r[3] = "->"
  OBVIOUS
<1>5. \A r \in rows : <<r[1], r[2]>> = <<"=", ">">> => r[3] = "=>"
  OBVIOUS
<1> HIDE DEF rows
<1>6. ASSUME NEW p \in DOMAIN TwoChar
      PROVE  /\ p = <<p[1], p[2]>>
             /\ p[1] \in OneChar
             /\ p[2] \in OneChar
             /\ TwoChar[p] \in TwoCharKinds
  <2>1. PICK r \in rows : <<r[1], r[2]>> = p
    BY <1>2
  <2>2. p = <<p[1], p[2]>> /\ p[1] = r[1] /\ p[2] = r[2]
    BY <2>1
  <2>3. found(p) \in rows
    BY <2>1
  <2>4. TwoChar[p] = found(p)[3]
    BY <1>2
  <2> HIDE DEF found
  <2>5. QED
    BY <1>1, <2>2, <2>3, <2>4
<1>7. TwoChar[<<"-", ">">>] = "->" /\ <<"-", ">">> \in DOMAIN TwoChar
  <2>1. <<"-", ">">> \in {<<r[1], r[2]>> : r \in rows}
    BY <1>3
  <2>2. found(<<"-", ">">>) \in rows /\ <<found(<<"-", ">">>)[1], found(<<"-", ">">>)[2]>> = <<"-", ">">>
    BY <1>3
  <2>3. found(<<"-", ">">>)[3] = "->"
    BY <1>4, <2>2
  <2> HIDE DEF found
  <2>4. QED
    BY <1>2, <2>1, <2>3
<1>8. TwoChar[<<"=", ">">>] = "=>" /\ <<"=", ">">> \in DOMAIN TwoChar
  <2>1. <<"=", ">">> \in {<<r[1], r[2]>> : r \in rows}
    BY <1>3
  <2>2. found(<<"=", ">">>) \in rows /\ <<found(<<"=", ">">>)[1], found(<<"=", ">">>)[2]>> = <<"=", ">">>
    BY <1>3
  <2>3. found(<<"=", ">">>)[3] = "=>"
    BY <1>5, <2>2
  <2> HIDE DEF found
  <2>4. QED
    BY <1>2, <2>1, <2>3
<1>9. {"->", "=>"} \subseteq {TwoChar[p] : p \in DOMAIN TwoChar}
  BY <1>7, <1>8
<1>10. QED
  BY <1>6, <1>9 DEF Kinds

(* Every kind is one of the listed spellings.                              *)
LEMMA KindsListed ==
  Kinds \subseteq Keywords \cup TwoCharKinds \cup OneChar \cup Literals \cup {"IDENT", "EOF"}
<1>1. \A p \in DOMAIN TwoChar : TwoChar[p] \in TwoCharKinds
  BY TwoCharFacts
<1>2. QED
  BY <1>1 DEF Kinds

(* A short list of members of a set is a sequence over it.                 *)
LEMMA Tuples ==
  ASSUME NEW S
  PROVE  /\ <<>> \in Seq(S)
         /\ \A a \in S : <<a>> \in Seq(S)
         /\ \A a, b \in S : <<a, b>> \in Seq(S)
         /\ \A a, b, c \in S : <<a, b, c>> \in Seq(S)
         /\ \A a, b, c, d \in S : <<a, b, c, d>> \in Seq(S)
         /\ \A a, b, c, d, e \in S : <<a, b, c, d, e>> \in Seq(S)
         /\ \A a, b, c, d, e, f \in S : <<a, b, c, d, e, f>> \in Seq(S)
         /\ \A a, b, c, d, e, f, g \in S : <<a, b, c, d, e, f, g>> \in Seq(S)
         /\ \A a, b, c, d, e, f, g, h \in S : <<a, b, c, d, e, f, g, h>> \in Seq(S)
<1>1. <<>> \in Seq(S)
  BY EmptySeq
<1>2. ASSUME NEW a \in S PROVE <<a>> \in Seq(S)
  OBVIOUS
<1>3. ASSUME NEW a \in S, NEW b \in S PROVE <<a, b>> \in Seq(S)
  OBVIOUS
<1>4. ASSUME NEW a \in S, NEW b \in S, NEW c \in S PROVE <<a, b, c>> \in Seq(S)
  OBVIOUS
<1>5. ASSUME NEW a \in S, NEW b \in S, NEW c \in S, NEW d \in S
      PROVE <<a, b, c, d>> \in Seq(S)
  OBVIOUS
<1>6. ASSUME NEW a \in S, NEW b \in S, NEW c \in S, NEW d \in S, NEW e \in S
      PROVE <<a, b, c, d, e>> \in Seq(S)
  OBVIOUS
<1>7. ASSUME NEW a \in S, NEW b \in S, NEW c \in S, NEW d \in S, NEW e \in S, NEW f \in S
      PROVE <<a, b, c, d, e, f>> \in Seq(S)
  OBVIOUS
<1>8. ASSUME NEW a \in S, NEW b \in S, NEW c \in S, NEW d \in S, NEW e \in S, NEW f \in S,
             NEW g \in S
      PROVE <<a, b, c, d, e, f, g>> \in Seq(S)
  OBVIOUS
<1>9. ASSUME NEW a \in S, NEW b \in S, NEW c \in S, NEW d \in S, NEW e \in S, NEW f \in S,
             NEW g \in S, NEW h \in S
      PROVE <<a, b, c, d, e, f, g, h>> \in Seq(S)
  OBVIOUS
<1>10. QED
  BY <1>1, <1>2, <1>3, <1>4, <1>5, <1>6, <1>7, <1>8, <1>9

(***************************************************************************)
(* The characters of the text.                                             *)
(***************************************************************************)

(* A character that is not the terminator stands in the text.              *)
LEMMA CharFacts ==
  ASSUME TypeOKLex
  PROVE  /\ Len(text) \in Nat
         /\ DOMAIN text = 1 .. Len(text)
         /\ \A i : Char(i) # NUL => i \in 1 .. Len(text) /\ Char(i) = text[i]
         /\ Char(Len(text) + 1) = NUL
<1>1. Len(text) \in Nat /\ DOMAIN text = 1 .. Len(text)
  BY LenProperties DEF TypeOKLex
<1>2. Len(text) + 1 \notin 1 .. Len(text)
  BY <1>1
<1>3. QED
  BY <1>1, <1>2 DEF Char

(* What isalpha and isdigit accept is none of the signs the lexer tells    *)
(* apart.                                                                  *)
LEMMA ClassFacts ==
  /\ NUL \notin Alnum \cup HexLetters \cup Blanks \cup OneChar
  /\ (Letters \cup Digits) \cap OneChar = {}
  /\ "_" \notin OneChar
<1>1. NUL \notin Letters \cup Digits
  BY LexerAssumption
<1>2. NUL \notin HexLetters
  BY <1>1, LexerAssumption
<1>3. NUL \notin Blanks \cup OneChar \cup {"_"} /\ "_" \notin OneChar
  BY DEF NUL, Blanks, OneChar
<1>4. (Letters \cup Digits) \cap OneChar = {}
  BY LexerAssumption
<1>5. QED
  BY <1>1, <1>2, <1>3, <1>4 DEF Alnum

(* A loop of advance stays inside the text and its terminator, stops at a  *)
(* character that is not of the class, and moves when it starts at one     *)
(* that is.                                                                *)
LEMMA AfterFacts ==
  ASSUME TypeOKLex, NEW S, NUL \notin S, NEW i \in 1 .. Len(text) + 1
  PROVE  /\ After(S, i) \in i .. Len(text) + 1
         /\ Char(After(S, i)) \notin S
         /\ Char(i) \in S => After(S, i) > i
<1> DEFINE n == Len(text)
           range == i .. (IF i > n THEN i ELSE n + 1)
           stop(j) == Char(j) \notin S /\ \A k \in i .. (j - 1) : Char(k) \in S
           T == {j \in range : Char(j) \notin S}
<1>1. n \in Nat /\ Char(n + 1) = NUL
  BY CharFacts
<1> HIDE DEF n
<1>2. range = i .. n + 1 /\ i \in Nat /\ n + 1 \in range
  BY <1>1 DEF n
<1>3. T \subseteq Nat /\ n + 1 \in T
  BY <1>1, <1>2
<1>4. PICK j \in T : \A k \in T : j <= k
  <2> HIDE DEF T
  <2>1. QED
    BY <1>3, LeastIn
<1>5. stop(j) /\ j \in range
  <2>1. ASSUME NEW k \in i .. (j - 1)
        PROVE  Char(k) \in S
    <3>1. k \in range /\ ~(j <= k)
      BY <1>1, <1>2, <1>4
    <3>2. QED
      BY <1>4, <3>1
  <2>2. QED
    BY <1>4, <2>1
<1> HIDE DEF T
<1>6. After(S, i) = CHOOSE m \in range : stop(m)
  BY DEF After, n
<1>7. After(S, i) \in range /\ stop(After(S, i))
  <2> HIDE DEF range, stop
  <2>1. QED
    BY <1>5, <1>6
<1>8. QED
  BY <1>2, <1>7 DEF n


(***************************************************************************)
(* The invariant of the lexer.                                             *)
(***************************************************************************)

(* A string literal under way begins behind the tokens, and no more bytes  *)
(* of it are kept than were read: so its start can be computed back.       *)
StringOpen ==
  mode = "string" =>
    /\ first >= 1
    /\ first + blen < at
    /\ \A i \in DOMAIN tokens : tokens[i].last < first

(* Inside a comment at least one is open.                                  *)
CommentOpen == mode = "comment" => depth >= 1

(* A token ends inside the text; one character is not the first half of a  *)
(* token of two with what follows it, and no word goes on behind its end.  *)
Words == Keywords \cup {"IDENT"}
Munched(t) ==
  t.kind # "EOF" =>
    /\ t.last \in 1 .. Len(text)
    /\ t.first = t.last => <<Char(t.last), Char(t.last + 1)>> \notin DOMAIN TwoChar
    /\ t.kind \in Words => Char(t.last + 1) \notin Alnum
AllMunched == \A i \in DOMAIN tokens : Munched(tokens[i])

(* What the lexer hands over ends with the end marker.                     *)
EndMarked == mode = "done" => tokens # <<>> /\ tokens[Len(tokens)].kind = "EOF"

LexInv ==
  /\ TypeOKLex
  /\ ReadsInside
  /\ TokensInOrder
  /\ StringOpen
  /\ CommentOpen
  /\ AllMunched
  /\ EndMarked

(* What the type of the token list says of one token.                      *)
LEMMA TokenFacts ==
  ASSUME TypeOKLex
  PROVE  /\ Len(tokens) \in Nat
         /\ DOMAIN tokens = 1 .. Len(tokens)
         /\ \A i \in DOMAIN tokens :
              /\ tokens[i].kind \in Kinds
              /\ tokens[i].first \in Nat
              /\ tokens[i].last \in Nat
              /\ tokens[i].start \in Nat
<1> DEFINE T == [kind : Kinds, first : Nat, last : Nat, start : Nat]
<1>1. tokens \in Seq(T)
  BY DEF TypeOKLex
<1>2. Len(tokens) \in Nat /\ DOMAIN tokens = 1 .. Len(tokens)
  BY <1>1, LenProperties
<1>3. \A i \in DOMAIN tokens : tokens[i] \in T
  BY <1>1, <1>2, ElementOfSeq
<1>4. QED
  BY <1>2, <1>3

(* Maximal munch in the words of Lexer follows.                            *)
LEMMA MunchFollows ==
  ASSUME LexInv
  PROVE  MaximalMunch
<1> USE DEF LexInv
<1>1. Len(tokens) \in Nat /\ DOMAIN tokens = 1 .. Len(tokens)
  BY LenProperties DEF TypeOKLex
<1> SUFFICES ASSUME NEW i \in 2 .. Len(tokens),
                    tokens[i - 1].last + 1 = tokens[i].first,
                    tokens[i].kind # "EOF"
             PROVE  /\ tokens[i - 1].first = tokens[i - 1].last =>
                         <<text[tokens[i - 1].last], text[tokens[i].first]>>
                           \notin DOMAIN TwoChar
                    /\ tokens[i - 1].kind \in Keywords \cup {"IDENT"} =>
                         text[tokens[i].first] \notin Alnum
  BY DEF MaximalMunch
<1> DEFINE a == tokens[i - 1]
           b == tokens[i]
<1>2. i \in DOMAIN tokens /\ i - 1 \in DOMAIN tokens /\ i - 1 # Len(tokens)
  BY <1>1
<1>3. Munched(a) /\ Munched(b)
  BY <1>2 DEF AllMunched
<1>4. a.kind # "EOF"
  BY <1>2 DEF TokensInOrder
<1>5. b.first <= b.last
  BY <1>2 DEF TokensInOrder
<1>6. a.last \in 1 .. Len(text) /\ b.last \in 1 .. Len(text)
  BY <1>3, <1>4 DEF Munched
<1>7. b.first \in Nat /\ Len(text) \in Nat /\ DOMAIN text = 1 .. Len(text)
  BY <1>2, CharFacts, TokenFacts
<1>8. b.first \in 1 .. Len(text) /\ a.last + 1 = b.first
  BY <1>5, <1>6, <1>7
<1>9. Char(a.last) = text[a.last] /\ Char(a.last + 1) = text[b.first]
  BY <1>6, <1>7, <1>8 DEF Char
<1>10. QED
  BY <1>3, <1>4, <1>9 DEF Munched, Words

(* The lexer begins with the invariant.                                    *)
LEMMA LexInvInit ==
  ASSUME LexInit
  PROVE  LexInv
<1>1. tokens = <<>> /\ DOMAIN tokens = {} /\ Len(tokens) = 0
  BY DEF LexInit
<1>2. text \in Seq(STRING)
  BY LexerAssumption DEF LexInit
<1>3. Len(text) \in Nat
  BY <1>2, LenProperties
<1>4. TypeOKLex
  <2>1. tokens \in Seq([kind : Kinds, first : Nat, last : Nat, start : Nat])
    BY <1>1, EmptySeq
  <2>2. 0 \in 0 .. MaxString
    <3>1. MaxString \in Nat
      BY LexerAssumption
    <3>2. QED
      BY <3>1
  <2>3. QED
    BY <1>2, <2>1, <2>2 DEF LexInit, TypeOKLex
<1>5. QED
  BY <1>1, <1>3, <1>4 DEF LexInit, LexInv, ReadsInside, TokensInOrder, StringOpen, CommentOpen,
     AllMunched, EndMarked


(* A token that lies behind the others, is as long as it can be and starts *)
(* where it says keeps the invariant when it is appended.                  *)
LEMMA PushKeeps ==
  ASSUME LexInv, mode \in {"code", "string"},
         NEW kind \in Kinds \ {"EOF"}, NEW from \in Nat, NEW end \in Nat, NEW start \in Nat,
         1 <= from, from < end, end <= Len(text) + 1, from <= start, start <= end,
         \A i \in DOMAIN tokens : tokens[i].last < from,
         from = end - 1 => <<Char(from), Char(from + 1)>> \notin DOMAIN TwoChar,
         kind \in Words => Char(end) \notin Alnum,
         Push(kind, from, end, start)
  PROVE  LexInv'
<1> DEFINE t == Token(kind, from, end, start)
           n == Len(tokens)
           T == [kind : Kinds, first : Nat, last : Nat, start : Nat]
<1>1. TypeOKLex /\ tokens \in Seq(T) /\ n \in Nat /\ DOMAIN tokens = 1 .. n
  BY TokenFacts DEF LexInv, TypeOKLex
<1>2. /\ t.kind = kind /\ t.first = from /\ t.last = end - 1 /\ t.start = start
      /\ t \in T
  <2>1. end - 1 \in Nat
    OBVIOUS
  <2>2. QED
    BY <2>1 DEF Token
<1>3. /\ tokens' = Append(tokens, t)
      /\ at' = end /\ mode' = "code"
      /\ text' = text /\ depth' = depth /\ first' = first /\ blen' = blen
  BY DEF Push
<1> HIDE DEF t, T
<1>4. /\ tokens' \in Seq(T)
      /\ DOMAIN tokens' = 1 .. n + 1 /\ Len(tokens') = n + 1
      /\ \A i \in 1 .. n : tokens'[i] = tokens[i]
      /\ tokens'[n + 1] = t
  BY <1>1, <1>2, <1>3, AppendProperties
<1>5. \A i \in 1 .. n : tokens[i].kind # "EOF"
  BY <1>1 DEF LexInv, TokensInOrder
<1> HIDE DEF n
<1>6. TypeOKLex'
  BY <1>1, <1>3, <1>4 DEF TypeOKLex, T
<1>7. ReadsInside'
  BY <1>3 DEF ReadsInside
<1>8. TokensInOrder'
  <2> SUFFICES ASSUME NEW i \in 1 .. n + 1
               PROVE  /\ tokens'[i].last < end
                      /\ tokens'[i].first <= tokens'[i].start
                      /\ tokens'[i].start <= tokens'[i].last + 1
                      /\ tokens'[i].kind # "EOF"
                      /\ tokens'[i].first <= tokens'[i].last
                      /\ i > 1 => tokens'[i - 1].last < tokens'[i].first
    BY <1>3, <1>4 DEF TokensInOrder
  <2>1. CASE i \in 1 .. n
    <3>1. tokens'[i] = tokens[i] /\ (i > 1 => tokens'[i - 1] = tokens[i - 1])
      BY <1>1, <1>4, <2>1
    <3>2. /\ tokens[i].last < from
          /\ tokens[i].last \in Nat
      BY <1>1, <2>1, TokenFacts
    <3>3. tokens[i].last < end
      BY <3>2
    <3>4. QED
      BY <1>1, <1>5, <2>1, <3>1, <3>3 DEF LexInv, TokensInOrder
  <2>2. CASE i = n + 1
    <3>1. tokens'[i] = t /\ (i > 1 => tokens'[i - 1] = tokens[i - 1] /\ i - 1 \in 1 .. n)
      BY <1>1, <1>4, <2>2
    <3>2. end - 1 < end /\ start <= end - 1 + 1 /\ from <= end - 1
      OBVIOUS
    <3>3. i > 1 => tokens[i - 1].last < from
      BY <1>1, <3>1
    <3>4. QED
      BY <1>2, <3>1, <3>2, <3>3
  <2>3. QED
    BY <1>1, <2>1, <2>2
<1>9. StringOpen' /\ CommentOpen' /\ EndMarked'
  BY <1>3 DEF StringOpen, CommentOpen, EndMarked
<1>10. AllMunched'
  <2>1. ASSUME NEW i \in 1 .. n
        PROVE  Munched(tokens[i])'
    <3>1. tokens'[i] = tokens[i]
      BY <1>4
    <3>2. Munched(tokens[i])
      BY <1>1 DEF LexInv, AllMunched
    <3>3. QED
      BY <1>3, <3>1, <3>2 DEF Munched, Char
  <2>2. ASSUME NEW i, i = n + 1
        PROVE  Munched(tokens[i])'
    <3>1. end - 1 \in 1 .. Len(text)
      <4>1. Len(text) \in Nat
        BY <1>1, CharFacts
      <4>2. QED
        BY <4>1
    <3>2. from = end - 1 => <<Char(end - 1), Char(end)>> \notin DOMAIN TwoChar
      <4>1. from = end - 1 => from + 1 = end
        OBVIOUS
      <4>2. QED
        BY <4>1
    <3>3. end - 1 + 1 = end
      OBVIOUS
    <3>4. /\ tokens'[i].kind = kind /\ tokens'[i].first = from
          /\ tokens'[i].last = end - 1
      BY <1>2, <1>4, <2>2
    <3> DEFINE e == end - 1
    <3>5. /\ e \in 1 .. Len(text)
          /\ from = e => <<Char(e), Char(e + 1)>> \notin DOMAIN TwoChar
          /\ kind \in Words => Char(e + 1) \notin Alnum
      BY <3>1, <3>2, <3>3
    <3>6. tokens'[i].last = e
      BY <3>4
    <3> HIDE DEF e
    <3>7. QED
      BY <1>3, <3>4, <3>5, <3>6 DEF Munched, Char
  <2>3. \A i \in 1 .. n + 1 : Munched(tokens[i])'
    <3> SUFFICES ASSUME NEW i \in 1 .. n + 1
                 PROVE  Munched(tokens[i])'
      OBVIOUS
    <3>1. i \in 1 .. n \/ i = n + 1
      BY <1>1
    <3>2. QED
      BY <2>1, <2>2, <3>1
  <2>4. QED
    BY <1>4, <2>3 DEF AllMunched
<1>11. QED
  BY <1>6, <1>7, <1>8, <1>9, <1>10 DEF LexInv

(* What reads on without a token keeps the invariant, if the position only *)
(* grows and stays inside the text, and strings and comments stay in form. *)
LEMMA MoveKeeps ==
  ASSUME LexInv, mode # "done",
         UNCHANGED <<text, tokens>>,
         at' \in Nat, at' >= at,
         mode' \in {"code", "comment", "string", "error"},
         at' <= Len(text) + 1 \/ mode' = "error",
         depth' \in Nat, mode' = "comment" => depth' >= 1,
         first' \in Nat, blen' \in 0 .. MaxString,
         StringOpen'
  PROVE  LexInv'
<1>1. TypeOKLex /\ text' = text /\ tokens' = tokens
  BY DEF LexInv
<1>2. at \in Nat \ {0} /\ at' \in Nat \ {0}
  BY <1>1 DEF TypeOKLex
<1>3. TypeOKLex'
  BY <1>1, <1>2 DEF TypeOKLex
<1>4. ReadsInside' /\ CommentOpen' /\ EndMarked'
  BY <1>1 DEF ReadsInside, CommentOpen, EndMarked
<1>5. TokensInOrder'
  <2>1. \A i \in DOMAIN tokens : tokens[i].last < at /\ tokens[i].kind # "EOF"
    BY DEF LexInv, TokensInOrder
  <2>2. \A i \in DOMAIN tokens : tokens[i].last < at'
    <3>1. \A i \in DOMAIN tokens : tokens[i].last \in Nat
      BY <1>1, TokenFacts
    <3>2. QED
      BY <1>2, <2>1, <3>1
  <2>3. QED
    BY <1>1, <2>1, <2>2 DEF LexInv, TokensInOrder
<1>6. AllMunched'
  BY <1>1 DEF LexInv, AllMunched, Munched, Char
<1>7. QED
  BY <1>3, <1>4, <1>5, <1>6 DEF LexInv


(* Where the lexer stands: inside the text or on its terminator, and a     *)
(* character that is not the terminator leaves room for one more step.     *)
Standing(i) == i \in 1 .. Len(text) + 1

(* The lexer always stands there while it works, behind all tokens.        *)
LEMMA StandingFacts ==
  ASSUME LexInv, mode # "error"
  PROVE  /\ Len(text) \in Nat
         /\ at \in Nat \ {0}
         /\ Standing(at)
         /\ \A i \in Nat \ {0} : Char(i) # NUL => Standing(i) /\ Standing(i + 1)
         /\ \A i \in DOMAIN tokens : tokens[i].last < at
<1>1. TypeOKLex /\ Len(text) \in Nat
  BY CharFacts DEF LexInv
<1>2. \A i : Char(i) # NUL => i \in 1 .. Len(text)
  BY <1>1, CharFacts
<1>3. at \in Nat \ {0} /\ at <= Len(text) + 1
  BY DEF LexInv, TypeOKLex, ReadsInside
<1>4. \A i \in DOMAIN tokens : tokens[i].last < at
  BY DEF LexInv, TokensInOrder
<1>5. \A i \in 1 .. Len(text) : Standing(i) /\ Standing(i + 1)
  BY <1>1 DEF Standing
<1>6. QED
  BY <1>1, <1>2, <1>3, <1>4, <1>5 DEF Standing

(* Blanks and comments.                                                    *)
LEMMA SkipStep ==
  ASSUME LexInv, SkipBlank \/ SkipLineComment \/ OpenComment \/ InComment \/ CommentAtEnd
  PROVE  LexInv'
<1>1. mode \in {"code", "comment"}
  BY DEF SkipBlank, SkipLineComment, OpenComment, InComment, CommentAtEnd
<1>2. /\ Len(text) \in Nat
      /\ at \in Nat \ {0}
      /\ Standing(at)
      /\ \A i \in Nat \ {0} : Char(i) # NUL => Standing(i) /\ Standing(i + 1)
  BY <1>1, StandingFacts
<1>3. TypeOKLex /\ depth \in Nat /\ first \in Nat /\ blen \in 0 .. MaxString
  BY DEF LexInv, TypeOKLex
<1>4. CASE SkipBlank
  <2>1. After(Blanks, at) \in at .. Len(text) + 1
    BY <1>2, <1>3, AfterFacts, ClassFacts DEF Standing
  <2>2. mode = "code" /\ Move(After(Blanks, at))
    BY <1>4 DEF SkipBlank
  <2> DEFINE e == After(Blanks, at)
  <2> HIDE DEF e
  <2>3. e \in Nat /\ e >= at /\ e <= Len(text) + 1
    BY <1>2, <2>1 DEF e
  <2>4. mode = "code" /\ Move(e)
    BY <2>2 DEF e
  <2>5. QED
    BY <1>3, <2>3, <2>4, MoveKeeps DEF Move, StringOpen
<1>5. CASE SkipLineComment
  <2>1. PICK e \in at .. Len(text) + 1 : Move(e)
    BY <1>5 DEF SkipLineComment
  <2>2. mode = "code"
    BY <1>5 DEF SkipLineComment
  <2>3. e \in Nat /\ e >= at /\ e <= Len(text) + 1
    BY <1>2
  <2>4. QED
    BY <1>3, <2>1, <2>2, <2>3, MoveKeeps DEF Move, StringOpen
<1>6. CASE OpenComment
  <2>1. Char(at + 1) # NUL
    BY <1>6 DEF OpenComment, Next2, NUL
  <2>2. Standing(at + 2)
    <3>1. at + 1 \in Nat \ {0} /\ at + 1 + 1 = at + 2
      BY <1>2
    <3>2. QED
      BY <1>2, <2>1, <3>1
  <2>3. at + 2 \in Nat /\ at + 2 >= at /\ at + 2 <= Len(text) + 1
    BY <1>2, <2>2 DEF Standing
  <2>4. QED
    BY <1>3, <1>6, <2>3, MoveKeeps DEF OpenComment, StringOpen
<1>7. CASE InComment
  <2> DEFINE size == IF NewDepth = depth THEN 1 ELSE 2
  <2>1. depth >= 1 /\ mode = "comment" /\ at <= Len(text)
    BY <1>2, <1>7 DEF InComment, LexInv, CommentOpen, AtEnd, Standing
  <2>2. NewDepth \in Nat
    BY <1>3, <2>1 DEF NewDepth
  <2>3. NewDepth # depth => Char(at + 1) # NUL
    <3>1. NewDepth # depth => Next2 \in {<<"/", "*">>, <<"*", "/">>}
      BY DEF NewDepth
    <3>2. QED
      BY <3>1 DEF Next2, NUL
  <2>4. NewDepth # depth => Standing(at + 2)
    <3>1. at + 1 \in Nat \ {0} /\ at + 1 + 1 = at + 2
      BY <1>2
    <3>2. QED
      BY <1>2, <2>3, <3>1
  <2>5. /\ at' = IF NewDepth = depth THEN at + 1 ELSE at + 2
        /\ depth' = NewDepth
        /\ mode' = IF NewDepth = 0 THEN "code" ELSE "comment"
        /\ UNCHANGED <<text, first, blen, tokens>>
    BY <1>7 DEF InComment
  <2>6. at' \in Nat /\ at' >= at /\ at' <= Len(text) + 1
    BY <1>2, <2>1, <2>4, <2>5 DEF Standing
  <2>7. mode' = "comment" => depth' >= 1
    BY <2>2, <2>5
  <2>8. StringOpen' /\ mode' \in {"code", "comment"}
    BY <2>5 DEF StringOpen
  <2>9. QED
    BY <1>3, <2>1, <2>2, <2>5, <2>6, <2>7, <2>8, MoveKeeps
<1>8. CASE CommentAtEnd
  <2>1. at <= Len(text) + 1
    BY <1>2 DEF Standing
  <2>2. QED
    BY <1>2, <1>3, <1>8, <2>1, MoveKeeps DEF CommentAtEnd, StringOpen
<1>9. QED
  BY <1>4, <1>5, <1>6, <1>7, <1>8


(* The kinds of tokens fall apart: words, signs and literals.              *)
LEMMA KindFacts ==
  /\ Words \subseteq Kinds \ {"EOF"}
  /\ OneChar \subseteq Kinds \ ({"EOF"} \cup Words)
  /\ Literals \subseteq Kinds \ ({"EOF"} \cup Words)
  /\ \A p \in DOMAIN TwoChar : TwoChar[p] \in Kinds \ ({"EOF"} \cup Words)
<1>1. \A p \in DOMAIN TwoChar : TwoChar[p] \in Kinds \cap TwoCharKinds
  BY TwoCharFacts DEF Kinds
<1>2. TwoCharKinds \cap ({"EOF"} \cup Words) = {}
  BY DEF TwoCharKinds, Words, Keywords
<1>3. Words \subseteq Kinds \ {"EOF"}
  BY DEF Words, Kinds, Keywords
<1>4. OneChar \cap ({"EOF"} \cup Words) = {}
  BY DEF OneChar, Words, Keywords
<1>5. Literals \cap ({"EOF"} \cup Words) = {}
  BY DEF Literals, Words, Keywords
<1>6. OneChar \subseteq Kinds /\ Literals \subseteq Kinds
  BY DEF Kinds
<1>7. QED
  BY <1>1, <1>2, <1>3, <1>4, <1>5, <1>6

(* Signs of one and two characters.                                        *)
LEMMA SignStep ==
  ASSUME LexInv, LexTwoChar \/ LexOneChar
  PROVE  LexInv'
<1>1. mode = "code"
  BY DEF LexTwoChar, LexOneChar
<1>2. /\ Len(text) \in Nat
      /\ at \in Nat \ {0}
      /\ Standing(at)
      /\ \A i \in Nat \ {0} : Char(i) # NUL => Standing(i) /\ Standing(i + 1)
      /\ \A i \in DOMAIN tokens : tokens[i].last < at
  BY <1>1, StandingFacts
<1>3. NUL \notin OneChar
  BY ClassFacts
<1>4. CASE LexTwoChar
  <2>1. /\ Next2 \in DOMAIN TwoChar
        /\ Push(TwoChar[Next2], at, at + 2, at)
    BY <1>4 DEF LexTwoChar
  <2>2. Next2[2] \in OneChar
    BY <2>1, TwoCharFacts
  <2>3. Char(at + 1) # NUL
    BY <2>2, <1>3 DEF Next2
  <2>4. at + 1 \in Nat \ {0} /\ at + 1 + 1 = at + 2
    BY <1>2
  <2>5. Standing(at + 2)
    BY <1>2, <2>3, <2>4
  <2>6. /\ 1 <= at /\ at < at + 2 /\ at + 2 <= Len(text) + 1 /\ at <= at /\ at <= at + 2
        /\ at # at + 2 - 1 /\ at + 2 \in Nat /\ at \in Nat
    BY <1>2, <2>5 DEF Standing
  <2> DEFINE e == at + 2
             k == TwoChar[Next2]
  <2>7. k \in Kinds \ {"EOF"} /\ k \notin Words
    BY <2>1, KindFacts
  <2> HIDE DEF e, k
  <2>8. Push(k, at, e, at)
    BY <2>1 DEF e, k
  <2>9. 1 <= at /\ at < e /\ e <= Len(text) + 1 /\ at <= e /\ at # e - 1 /\ e \in Nat
    BY <2>6 DEF e
  <2>10. QED
    BY <1>1, <1>2, <2>6, <2>7, <2>8, <2>9, PushKeeps
<1>5. CASE LexOneChar
  <2>1. /\ Next2 \notin DOMAIN TwoChar
        /\ Char(at) \in OneChar
        /\ Push(Char(at), at, at + 1, at)
    BY <1>5 DEF LexOneChar
  <2>2. Standing(at + 1)
    BY <1>2, <1>3, <2>1
  <2> DEFINE e == at + 1
             k == Char(at)
  <2>3. 1 <= at /\ at < e /\ e <= Len(text) + 1 /\ at <= at /\ at <= e /\ e \in Nat /\ at \in Nat
    BY <1>2, <2>2 DEF Standing
  <2>4. <<Char(at), Char(at + 1)>> \notin DOMAIN TwoChar
    BY <2>1 DEF Next2
  <2>5. k \in Kinds \ {"EOF"} /\ k \notin Words
    BY <2>1, KindFacts
  <2>6. Push(k, at, e, at)
    BY <2>1
  <2> HIDE DEF e, k
  <2>7. QED
    BY <1>1, <1>2, <2>3, <2>4, <2>5, <2>6, PushKeeps
<1>6. QED
  BY <1>4, <1>5

(* Words: nothing of the word is left behind its end.                      *)
LEMMA WordStep ==
  ASSUME LexInv, LexWord
  PROVE  LexInv'
<1> DEFINE e == WordEnd
           k == IF e = at + 1 /\ Char(at) \in Keywords THEN Char(at) ELSE "IDENT"
<1>1. mode = "code" /\ Char(at) \in Letters \cup {"_"} /\ Push(k, at, e, at)
  BY DEF LexWord
<1>2. /\ Len(text) \in Nat
      /\ at \in Nat \ {0}
      /\ Standing(at)
      /\ \A i \in DOMAIN tokens : tokens[i].last < at
  BY <1>1, StandingFacts
<1>3. TypeOKLex /\ NUL \notin Alnum
  BY ClassFacts DEF LexInv
<1>4. /\ e \in at .. Len(text) + 1
      /\ Char(e) \notin Alnum
      /\ e > at
  BY <1>1, <1>2, <1>3, AfterFacts DEF WordEnd, Alnum, Standing
<1>5. k \in Kinds \ {"EOF"}
  BY KindFacts DEF Words
<1>6. <<Char(at), Char(at + 1)>> \notin DOMAIN TwoChar
  <2>1. Char(at) \notin OneChar
    BY <1>1, ClassFacts
  <2>2. QED
    BY <2>1, TwoCharFacts
<1> HIDE DEF e, k
<1>7. 1 <= at /\ at < e /\ e <= Len(text) + 1 /\ at <= at /\ at <= e /\ e \in Nat /\ at \in Nat
  BY <1>2, <1>4
<1>8. QED
  BY <1>1, <1>2, <1>4, <1>5, <1>6, <1>7, PushKeeps


(* The fraction and the exponent of a number end inside the text.          *)
LEMMA NumberParts ==
  ASSUME LexInv, mode = "code", NEW i, Standing(i)
  PROVE  /\ Standing(FractionEnd(i)) /\ FractionEnd(i) >= i
         /\ Standing(ExponentEnd(i)) /\ ExponentEnd(i) >= i
<1>1. /\ Len(text) \in Nat
      /\ \A j \in Nat \ {0} : Char(j) # NUL => Standing(j) /\ Standing(j + 1)
  BY StandingFacts
<1>2. i \in Nat \ {0} /\ i <= Len(text) + 1
  BY <1>1 DEF Standing
<1>3. TypeOKLex /\ NUL \notin Digits \cup {"_"} /\ NUL \notin Digits
  BY ClassFacts DEF LexInv, Alnum
<1>4. Standing(FractionEnd(i)) /\ FractionEnd(i) >= i
  <2> DEFINE more == Char(i) = "." /\ Char(i + 1) \in Digits
  <2>1. CASE more
    <3>1. Standing(i + 1)
      BY <1>1, <1>2, <2>1 DEF NUL
    <3>2. After(Digits \cup {"_"}, i + 1) \in (i + 1) .. Len(text) + 1
      BY <1>3, <3>1, AfterFacts DEF Standing
    <3>3. FractionEnd(i) \in (i + 1) .. Len(text) + 1
      BY <2>1, <3>2 DEF FractionEnd
    <3>4. QED
      BY <1>1, <1>2, <3>3 DEF Standing
  <2>2. CASE ~more
    <3>1. FractionEnd(i) = i
      BY <2>2 DEF FractionEnd
    <3>2. QED
      BY <1>2, <3>1
  <2>3. QED
    BY <2>1, <2>2
<1>5. Standing(ExponentEnd(i)) /\ ExponentEnd(i) >= i
  <2>1. CASE Char(i) \notin {"e", "E"}
    BY <1>2, <2>1 DEF ExponentEnd
  <2>2. CASE Char(i) \in {"e", "E"}
    <3>1. Standing(i + 1) /\ i + 1 \in Nat \ {0}
      BY <1>1, <1>2, <2>2 DEF NUL
    <3>2. CASE Char(i + 1) \in {"+", "-"}
      <4>1. Standing(i + 1 + 1) /\ i + 1 + 1 = i + 2
        BY <1>1, <1>2, <3>1, <3>2 DEF NUL
      <4>2. After(Digits, i + 2) \in (i + 2) .. Len(text) + 1
        BY <1>3, <4>1, AfterFacts DEF Standing
      <4>3. ExponentEnd(i) \in (i + 2) .. Len(text) + 1
        BY <2>2, <3>2, <4>2 DEF ExponentEnd
      <4>4. QED
        BY <1>1, <1>2, <4>3 DEF Standing
    <3>3. CASE Char(i + 1) \notin {"+", "-"}
      <4>1. After(Digits, i + 1) \in (i + 1) .. Len(text) + 1
        BY <1>3, <3>1, AfterFacts DEF Standing
      <4>2. ExponentEnd(i) \in (i + 1) .. Len(text) + 1
        BY <2>2, <3>3, <4>1 DEF ExponentEnd
      <4>3. QED
        BY <1>1, <1>2, <4>2 DEF Standing
    <3>4. QED
      BY <3>2, <3>3
  <2>3. QED
    BY <2>1, <2>2
<1>6. QED
  BY <1>4, <1>5

(* Numbers.                                                                *)
LEMMA NumberStep ==
  ASSUME LexInv, LexNumber
  PROVE  LexInv'
<1> DEFINE hex == Char(at) = "0" /\ Char(at + 1) \in {"x", "X"}
           int == IF hex THEN After(Digits \cup HexLetters \cup {"_"}, at + 2)
                         ELSE After(Digits \cup {"_"}, at)
           e == IF hex THEN int ELSE ExponentEnd(FractionEnd(int))
           k == IF e = int THEN "INT" ELSE "FLOAT"
<1>1. mode = "code" /\ Char(at) \in Digits /\ Push(k, at, e, at)
  BY DEF LexNumber
<1>2. /\ Len(text) \in Nat
      /\ at \in Nat \ {0}
      /\ Standing(at)
      /\ \A i \in Nat \ {0} : Char(i) # NUL => Standing(i) /\ Standing(i + 1)
      /\ \A i \in DOMAIN tokens : tokens[i].last < at
  BY <1>1, StandingFacts
<1>3. TypeOKLex /\ NUL \notin Digits \cup {"_"} /\ NUL \notin Digits \cup HexLetters \cup {"_"}
  BY ClassFacts DEF LexInv, Alnum
<1>4. int \in (at + 1) .. Len(text) + 1
  <2>1. CASE hex
    <3>1. at + 1 \in Nat \ {0} /\ at + 1 + 1 = at + 2
      BY <1>2
    <3>2. Standing(at + 2)
      BY <1>2, <2>1, <3>1 DEF NUL
    <3>3. After(Digits \cup HexLetters \cup {"_"}, at + 2) \in (at + 2) .. Len(text) + 1
      BY <1>3, <3>2, AfterFacts DEF Standing
    <3>4. int \in (at + 2) .. Len(text) + 1
      BY <2>1, <3>3
    <3> HIDE DEF int
    <3>5. QED
      BY <1>2, <3>4
  <2>2. CASE ~hex
    <3> DEFINE j == After(Digits \cup {"_"}, at)
    <3>1. j \in at .. Len(text) + 1 /\ j > at
      BY <1>1, <1>2, <1>3, AfterFacts DEF Standing
    <3>2. int = j
      BY <2>2
    <3> HIDE DEF int, j
    <3>3. QED
      BY <1>2, <3>1, <3>2
  <2>3. QED
    BY <2>1, <2>2
<1> HIDE DEF int
<1>5. Standing(int) /\ int >= at + 1
  BY <1>2, <1>4 DEF Standing
<1>6. Standing(e) /\ e >= int
  <2>1. Standing(FractionEnd(int)) /\ FractionEnd(int) >= int
    BY <1>1, <1>5, NumberParts
  <2> DEFINE f == FractionEnd(int)
             g == ExponentEnd(f)
  <2>2. Standing(f) /\ f >= int
    BY <2>1
  <2> HIDE DEF f
  <2>3. Standing(g) /\ g >= f
    BY <1>1, <2>2, NumberParts
  <2>4. e = int \/ e = g
    BY DEF f
  <2> HIDE DEF g, e
  <2>5. int >= int /\ g >= int
    BY <1>2, <1>5, <2>2, <2>3 DEF Standing
  <2>6. QED
    BY <1>5, <2>3, <2>4, <2>5
<1>7. k \in Kinds \ {"EOF"} /\ k \notin Words
  BY KindFacts DEF Literals
<1>8. <<Char(at), Char(at + 1)>> \notin DOMAIN TwoChar
  <2>1. Char(at) \notin OneChar
    BY <1>1, ClassFacts
  <2>2. QED
    BY <2>1, TwoCharFacts
<1> HIDE DEF e, k
<1>9. 1 <= at /\ at < e /\ e <= Len(text) + 1 /\ at <= at /\ at <= e /\ e \in Nat /\ at \in Nat
  BY <1>2, <1>5, <1>6 DEF Standing
<1>10. QED
  BY <1>1, <1>2, <1>7, <1>8, <1>9, PushKeeps


(* Character literals: their start is computed back over three characters, *)
(* from the end, and so stands one behind the quote when they hold an      *)
(* escape.                                                                 *)
LEMMA CharStep ==
  ASSUME LexInv, LexChar
  PROVE  LexInv'
<1> DEFINE body == IF Char(at + 1) = "\\" THEN 2 ELSE 1
           close == at + 1 + body
<1>1. /\ mode = "code"
      /\ Char(at) = "'"
      /\ \/ Char(at + 1) = NUL /\ Fail(at + 1)
         \/ body = 2 /\ Char(at + 2) \notin Escapes /\ Fail(close)
         \/ IF Char(close) = "'" THEN Push("CHAR", at, close + 1, (close + 1) - 3)
                                 ELSE Fail(close)
  BY DEF LexChar
<1>2. /\ Len(text) \in Nat
      /\ at \in Nat \ {0}
      /\ \A i \in Nat \ {0} : Char(i) # NUL => Standing(i) /\ Standing(i + 1)
      /\ \A i \in DOMAIN tokens : tokens[i].last < at
  BY <1>1, StandingFacts
<1>3. TypeOKLex /\ depth \in Nat /\ first \in Nat /\ blen \in 0 .. MaxString
  BY DEF LexInv, TypeOKLex
<1>4. body \in {1, 2}
  OBVIOUS
<1> HIDE DEF body
<1>5. close \in Nat /\ close >= at + 2 /\ close <= at + 3
  BY <1>2, <1>4
<1> HIDE DEF close
<1>6. ASSUME NEW e \in {at + 1, close}, Fail(e)
      PROVE  LexInv'
  <2>1. e \in Nat /\ e >= at
    BY <1>2, <1>5
  <2>2. QED
    BY <1>1, <1>3, <1>6, <2>1, MoveKeeps DEF Fail, StringOpen
<1>7. CASE Char(close) = "'" /\ Push("CHAR", at, close + 1, (close + 1) - 3)
  <2>1. close \in Nat \ {0} /\ Char(close) # NUL
    BY <1>2, <1>5, <1>7 DEF NUL
  <2>2. Standing(close + 1)
    BY <1>2, <2>1
  <2> DEFINE e == close + 1
             s == (close + 1) - 3
  <2>3. /\ 1 <= at /\ at < e /\ e <= Len(text) + 1 /\ at <= s /\ s <= e
        /\ e \in Nat /\ at \in Nat /\ s \in Nat /\ at # e - 1
    BY <1>2, <1>5, <2>2 DEF Standing
  <2>4. "CHAR" \in Kinds \ {"EOF"} /\ "CHAR" \notin Words
    BY KindFacts DEF Literals
  <2>5. Push("CHAR", at, e, s)
    BY <1>7
  <2> HIDE DEF e, s
  <2>6. QED
    BY <1>1, <1>2, <2>3, <2>4, <2>5, PushKeeps
<1>8. QED
  BY <1>1, <1>6, <1>7

(* String literals: the position stays ahead of the bytes kept, so that    *)
(* the start computed back from them is not before the opening quote.      *)
LEMMA StringStep ==
  ASSUME LexInv, OpenString \/ InString \/ StringBroken \/ CloseString
  PROVE  LexInv'
<1>1. mode \in {"code", "string"}
  BY DEF OpenString, InString, StringBroken, CloseString
<1>2. /\ Len(text) \in Nat
      /\ at \in Nat \ {0}
      /\ Standing(at)
      /\ \A i \in Nat \ {0} : Char(i) # NUL => Standing(i) /\ Standing(i + 1)
      /\ \A i \in DOMAIN tokens : tokens[i].last < at
  BY <1>1, StandingFacts
<1>3. /\ TypeOKLex /\ depth \in Nat /\ first \in Nat /\ blen \in 0 .. MaxString
      /\ MaxString \in Nat
  BY LexerAssumption DEF LexInv, TypeOKLex
<1>4. CASE OpenString
  <2>1. Standing(at + 1)
    BY <1>2, <1>4 DEF OpenString, NUL
  <2>2. at + 1 \in Nat /\ at + 1 >= at /\ at + 1 <= Len(text) + 1 /\ at >= 1 /\ at + 0 < at + 1
    BY <1>2, <2>1 DEF Standing
  <2>3. 0 \in 0 .. MaxString
    BY <1>3
  <2>4. /\ mode = "code" /\ mode' = "string" /\ first' = at /\ blen' = 0 /\ at' = at + 1
        /\ UNCHANGED <<text, depth, tokens>>
    BY <1>4 DEF OpenString
  <2>5. StringOpen'
    <3>1. first' + blen' < at'
      BY <2>2, <2>4
    <3>2. QED
      BY <1>2, <2>2, <2>4, <3>1 DEF StringOpen
  <2>6. QED
    BY <1>2, <1>3, <2>2, <2>3, <2>4, <2>5, MoveKeeps
<1>5. CASE InString
  <2> DEFINE size == IF Char(at) = "\\" THEN 2 ELSE 1
  <2>1. /\ mode = "string"
        /\ Char(at) # NUL
        /\ Char(at) = "\\" => Char(at + 1) \in Escapes
        /\ at' = at + size
        /\ blen' = Kept
        /\ UNCHANGED <<text, mode, depth, first, tokens>>
    BY <1>5 DEF InString
  <2>2. size \in {1, 2}
    OBVIOUS
  <2>3. Standing(at + size)
    <3>1. Standing(at + 1)
      BY <1>2, <2>1
    <3>2. Char(at) = "\\" => Char(at + 1) # NUL
      BY <2>1 DEF Escapes, NUL
    <3>3. at + 1 \in Nat \ {0} /\ at + 1 + 1 = at + 2
      BY <1>2
    <3>4. Char(at) = "\\" => Standing(at + 2)
      BY <1>2, <3>2, <3>3
    <3>5. QED
      BY <3>1, <3>4
  <2> HIDE DEF size
  <2>4. at' \in Nat /\ at' >= at + 1 /\ at' <= Len(text) + 1
    BY <1>2, <2>1, <2>2, <2>3 DEF Standing
  <2>5. blen' \in 0 .. MaxString /\ blen' <= blen + 1
    BY <1>3, <2>1 DEF Kept
  <2>6. first >= 1 /\ first + blen < at /\ \A i \in DOMAIN tokens : tokens[i].last < first
    BY <2>1 DEF LexInv, StringOpen
  <2>7. first' + blen' < at' /\ first' = first
    BY <1>2, <1>3, <2>1, <2>4, <2>5, <2>6
  <2>8. StringOpen'
    BY <2>1, <2>6, <2>7 DEF StringOpen
  <2>9. at' >= at
    BY <1>2, <2>4
  <2>10. QED
    BY <1>3, <2>1, <2>4, <2>5, <2>8, <2>9, MoveKeeps
<1>6. CASE StringBroken
  <2>1. PICK e \in {at, at + 2} : Fail(e)
    BY <1>6 DEF StringBroken
  <2>2. mode = "string"
    BY <1>6 DEF StringBroken
  <2>3. e \in Nat /\ e >= at
    BY <1>2
  <2>4. QED
    BY <1>3, <2>1, <2>2, <2>3, MoveKeeps DEF Fail, StringOpen
<1>7. CASE CloseString
  <2>1. mode = "string" /\ Char(at) # NUL /\ Push("STRING", first, at + 1, StringStart)
    BY <1>7 DEF CloseString, NUL
  <2>2. first >= 1 /\ first + blen < at /\ \A i \in DOMAIN tokens : tokens[i].last < first
    BY <2>1 DEF LexInv, StringOpen
  <2>3. Standing(at + 1)
    BY <1>2, <2>1
  <2> DEFINE e == at + 1
             s == StringStart
  <2>4. /\ 1 <= first /\ first < e /\ e <= Len(text) + 1 /\ first <= s /\ s <= e
        /\ e \in Nat /\ s \in Nat /\ first # e - 1
    BY <1>2, <1>3, <2>2, <2>3 DEF Standing, StringStart
  <2>5. "STRING" \in Kinds \ {"EOF"} /\ "STRING" \notin Words
    BY KindFacts DEF Literals
  <2>6. Push("STRING", first, e, s)
    BY <2>1
  <2> HIDE DEF e, s
  <2>7. QED
    BY <1>1, <1>3, <2>2, <2>4, <2>5, <2>6, PushKeeps
<1>8. QED
  BY <1>4, <1>5, <1>6, <1>7


(* The end marker is the last token and the only one of its kind.          *)
LEMMA EndStep ==
  ASSUME LexInv, EndOfText
  PROVE  LexInv'
<1> DEFINE t == Token("EOF", at, at, at)
           n == Len(tokens)
           T == [kind : Kinds, first : Nat, last : Nat, start : Nat]
<1>1. TypeOKLex /\ tokens \in Seq(T) /\ n \in Nat /\ DOMAIN tokens = 1 .. n
  BY TokenFacts DEF LexInv, TypeOKLex
<1>2. /\ mode = "code" /\ mode' = "done" /\ tokens' = Append(tokens, t)
      /\ UNCHANGED <<text, at, depth, first, blen>>
  BY DEF EndOfText
<1>3. at \in Nat \ {0} /\ (\A i \in DOMAIN tokens : tokens[i].last < at)
  BY <1>2, StandingFacts
<1>4. /\ t.kind = "EOF" /\ t.first = at /\ t.last = at - 1 /\ t.start = at
      /\ t \in T
  <2>1. at - 1 \in Nat
    BY <1>3
  <2>2. "EOF" \in Kinds
    BY DEF Kinds
  <2>3. QED
    BY <1>3, <2>1, <2>2 DEF Token
<1> HIDE DEF t, T
<1>5. /\ tokens' \in Seq(T)
      /\ DOMAIN tokens' = 1 .. n + 1 /\ Len(tokens') = n + 1
      /\ \A i \in 1 .. n : tokens'[i] = tokens[i]
      /\ tokens'[n + 1] = t
  BY <1>1, <1>2, <1>4, AppendProperties
<1>6. \A i \in 1 .. n : tokens[i].kind # "EOF"
  BY <1>1, <1>2 DEF LexInv, TokensInOrder
<1> HIDE DEF n
<1>7. TypeOKLex'
  BY <1>1, <1>2, <1>5 DEF TypeOKLex, T
<1>8. ReadsInside'
  BY <1>2 DEF LexInv, ReadsInside
<1>9. TokensInOrder'
  <2> SUFFICES ASSUME NEW i \in 1 .. n + 1
               PROVE  /\ tokens'[i].last < at
                      /\ tokens'[i].first <= tokens'[i].start
                      /\ tokens'[i].start <= tokens'[i].last + 1
                      /\ tokens'[i].kind # "EOF" => tokens'[i].first <= tokens'[i].last
                      /\ i > 1 => tokens'[i - 1].last < tokens'[i].first
                      /\ tokens'[i].kind = "EOF" => i = n + 1
    BY <1>2, <1>5 DEF TokensInOrder
  <2>1. CASE i \in 1 .. n
    <3>1. tokens'[i] = tokens[i] /\ (i > 1 => tokens'[i - 1] = tokens[i - 1])
      BY <1>1, <1>5, <2>1
    <3>2. QED
      BY <1>1, <1>3, <1>6, <2>1, <3>1 DEF LexInv, TokensInOrder
  <2>2. CASE i = n + 1
    <3>1. tokens'[i] = t /\ (i > 1 => tokens'[i - 1] = tokens[i - 1] /\ i - 1 \in 1 .. n)
      BY <1>1, <1>5, <2>2
    <3>2. i > 1 => tokens[i - 1].last < at
      BY <1>1, <1>3, <3>1
    <3>3. at - 1 < at /\ at <= at - 1 + 1 /\ at <= at
      BY <1>3
    <3>4. QED
      BY <1>4, <2>2, <3>1, <3>2, <3>3
  <2>3. QED
    BY <1>1, <2>1, <2>2
<1>10. StringOpen' /\ CommentOpen'
  BY <1>2 DEF StringOpen, CommentOpen
<1>11. EndMarked'
  <2>1. tokens' # <<>>
    BY <1>1, <1>5
  <2>2. QED
    BY <1>4, <1>5, <2>1 DEF EndMarked
<1>12. AllMunched'
  <2> SUFFICES ASSUME NEW i \in 1 .. n + 1
               PROVE  Munched(tokens[i])'
    BY <1>5 DEF AllMunched
  <2>1. CASE i \in 1 .. n
    <3>1. tokens'[i] = tokens[i]
      BY <1>5, <2>1
    <3>2. Munched(tokens[i])
      BY <1>1, <2>1 DEF LexInv, AllMunched
    <3>3. QED
      BY <1>2, <3>1, <3>2 DEF Munched, Char
  <2>2. CASE i = n + 1
    <3>1. tokens'[i].kind = "EOF"
      BY <1>4, <1>5, <2>2
    <3>2. QED
      BY <3>1 DEF Munched
  <2>3. QED
    BY <1>1, <2>1, <2>2
<1>13. QED
  BY <1>7, <1>8, <1>9, <1>10, <1>11, <1>12 DEF LexInv

(* Every step of the lexer keeps its invariant, and none follows the end   *)
(* marker.                                                                 *)
LEMMA LexSteps ==
  ASSUME LexInv, LexNext
  PROVE  LexInv' /\ mode \in {"code", "comment", "string"}
<1>1. CASE SkipBlank \/ SkipLineComment \/ OpenComment \/ InComment \/ CommentAtEnd
  BY <1>1, SkipStep
     DEF SkipBlank, SkipLineComment, OpenComment, InComment, CommentAtEnd
<1>2. CASE LexTwoChar \/ LexOneChar
  BY <1>2, SignStep DEF LexTwoChar, LexOneChar
<1>3. CASE LexWord
  BY <1>3, WordStep DEF LexWord
<1>4. CASE LexNumber
  BY <1>4, NumberStep DEF LexNumber
<1>5. CASE LexChar
  BY <1>5, CharStep DEF LexChar
<1>6. CASE OpenString \/ InString \/ StringBroken \/ CloseString
  BY <1>6, StringStep DEF OpenString, InString, StringBroken, CloseString
<1>7. CASE BadChar
  <2>1. mode = "code" /\ Fail(at + 1)
    BY <1>7 DEF BadChar
  <2>2. at \in Nat \ {0} /\ depth \in Nat /\ first \in Nat /\ blen \in 0 .. MaxString
    BY DEF LexInv, TypeOKLex
  <2>3. at + 1 \in Nat /\ at + 1 >= at
    BY <2>2
  <2>4. QED
    BY <2>1, <2>2, <2>3, MoveKeeps DEF Fail, StringOpen
<1>8. CASE EndOfText
  BY <1>8, EndStep DEF EndOfText
<1>9. QED
  BY <1>1, <1>2, <1>3, <1>4, <1>5, <1>6, <1>7, <1>8 DEF LexNext


(***************************************************************************)
(* The symbols of the parser.                                              *)
(***************************************************************************)

(* All symbols but the one that advances blindly behind a closing bracket. *)
Plain == Symbols \ {"GenericName"}

(* The symbols of the top level: one of them is below everything else.     *)
TopLevel == {"Program", "Imports", "Decls"}

(* The symbols that stand for a call other than these.                     *)
Ordinary == Symbols \ (Kinds \cup TopLevel \cup {"GenericName"})

(* No name of a rule is the spelling of a token.                           *)
LEMMA SymbolFacts ==
  /\ Kinds \cup (Rules \ {"GenericName"}) \subseteq Plain
  /\ DOMAIN Options \cup DOMAIN Items \cup DOMAIN Listed \subseteq Plain
  /\ Rules \ (TopLevel \cup {"GenericName"}) \subseteq Ordinary
  /\ DOMAIN Options \cup DOMAIN Items \cup DOMAIN Listed \subseteq Ordinary
  /\ Rules \cap Kinds = {}
  /\ Plain \subseteq Symbols
<1> DEFINE spelt == Keywords \cup TwoCharKinds \cup OneChar \cup Literals \cup {"IDENT", "EOF"}
           loops == DOMAIN Options \cup DOMAIN Items \cup DOMAIN Listed
<1>1. "GenericName" \notin spelt
  BY DEF Keywords, TwoCharKinds, OneChar, Literals
<1>2. Rules \cap spelt = {}
  BY DEF Keywords, TwoCharKinds, OneChar, Literals, Rules
<1>3. loops \cap spelt = {}
  BY DEF Keywords, TwoCharKinds, OneChar, Literals, Options, Items, Listed
<1>4. loops \cap (TopLevel \cup {"GenericName"}) = {}
  BY DEF TopLevel, Options, Items, Listed
<1> HIDE DEF spelt, loops
<1>5. Kinds \subseteq spelt
  BY KindsListed DEF spelt
<1>6. Symbols = Kinds \cup Rules \cup loops
  BY DEF Symbols, loops
<1>7. QED
  BY <1>1, <1>2, <1>3, <1>4, <1>5, <1>6 DEF Plain, Ordinary, loops

(* The spellings the rules name are plain symbols.                         *)
LEMMA PlainMembers ==
  /\ Keywords \cup OneChar \cup Literals \cup {"IDENT", "EOF", "->", "=>"} \subseteq Plain
  /\ Rules \ {"GenericName"} \subseteq Plain
  /\ DOMAIN Options \subseteq Plain
  /\ DOMAIN Items \subseteq Plain
  /\ DOMAIN Listed \subseteq Plain
<1>1. Keywords \cup OneChar \cup Literals \cup {"IDENT", "EOF", "->", "=>"} \subseteq Kinds
  BY TwoCharFacts DEF Kinds
<1>2. QED
  BY <1>1, SymbolFacts

(* Short lists of plain symbols.                                           *)
LEMMA PlainTuples ==
  /\ <<>> \in Seq(Plain)
  /\ \A a \in Plain : <<a>> \in Seq(Plain)
  /\ \A a, b \in Plain : <<a, b>> \in Seq(Plain)
  /\ \A a, b, c \in Plain : <<a, b, c>> \in Seq(Plain)
  /\ \A a, b, c, d \in Plain : <<a, b, c, d>> \in Seq(Plain)
  /\ \A a, b, c, d, e \in Plain : <<a, b, c, d, e>> \in Seq(Plain)
  /\ \A a, b, c, d, e, f \in Plain : <<a, b, c, d, e, f>> \in Seq(Plain)
  /\ \A a, b, c, d, e, f, g \in Plain : <<a, b, c, d, e, f, g>> \in Seq(Plain)
  /\ \A a, b, c, d, e, f, g, h \in Plain : <<a, b, c, d, e, f, g, h>> \in Seq(Plain)
BY Tuples, Zenon

(* A call that is replaced by plain symbols and leaves the cursor alone.   *)
Expanding ==
  /\ Ready
  /\ Head(work) \in Ordinary
  /\ \E s \in Seq(Plain) : Calls(s)

(* A rule of an ordinary name that calls plain symbols is such a call.     *)
LEMMA RuleExpands ==
  ASSUME NEW name, NEW s, Rule(name, s), name \in Ordinary, s \in Seq(Plain)
  PROVE  Expanding
BY DEF Rule, Expanding

(* The token at the cursor of a parser that may go on is a plain symbol.   *)
LEMMA NowFacts ==
  ASSUME TypeOKLex, pos \in Nat \ {0}, Ready
  PROVE  /\ Now \in Plain
         /\ Now \in Kinds
         /\ pos \in DOMAIN tokens
         /\ Now = tokens[pos].kind
<1>1. pos \in DOMAIN tokens
  BY TokenFacts DEF Ready
<1>2. Now = tokens[pos].kind
  BY <1>1 DEF Now, Kind
<1>3. Now \in Kinds
  BY <1>1, <1>2, TokenFacts
<1>4. QED
  BY <1>1, <1>2, <1>3, SymbolFacts


(***************************************************************************)
(* The rules: each replaces its name by plain symbols.                     *)
(***************************************************************************)

(* Statements.                                                             *)
LEMMA StmtRules ==
  ASSUME TypeOKLex, pos \in Nat \ {0},
         ParseBlock \/ ParseBinding \/ ParseStmt \/ ParseElse \/ ParseFor
  PROVE  Expanding
<1> USE PlainMembers, PlainTuples
<1>1. CASE ParseBlock
  <2>1. <<"{", "Stmts", "}">> \in Seq(Plain)
    BY DEF OneChar, Items
  <2>2. "Block" \in Ordinary
    BY SymbolFacts DEF Rules, TopLevel
  <2>3. QED
    BY <1>1, <2>1, <2>2, RuleExpands DEF ParseBlock
<1>2. CASE ParseBinding
  <2>1. (IF Now = ":" THEN <<":", "Type">> ELSE <<>>) \in Seq(Plain)
    BY DEF OneChar, Rules
  <2>2. (IF Now = "=" THEN <<"=", "Expr">> ELSE <<>>) \in Seq(Plain)
    BY DEF OneChar, Rules
  <2>3. "Ascription" \in Ordinary /\ "Initial" \in Ordinary
    BY SymbolFacts DEF Rules, TopLevel
  <2>4. QED
    BY <1>2, <2>1, <2>2, <2>3, RuleExpands DEF ParseBinding
<1>3. CASE ParseStmt
  <2> DEFINE rhs ==
        CASE Now = "let" -> Append(LetBinding, ";")
          [] Now = "const" -> ConstBinding
          [] Now = "return" -> IF Kind(pos + 1) = ";" THEN <<"return", ";">>
                               ELSE <<"return", "Expr", ";">>
          [] Now = "if" -> <<"if", "Expr", "Block", "Else">>
          [] Now = "while" -> <<"while", "Expr", "Block">>
          [] Now = "for" -> <<"for", "ForInit", ";", "ForCond", ";", "ForPost", "Block">>
          [] Now \in {"loop", "unsafe"} -> <<Now, "Block">>
          [] Now \in {"break", "continue"} -> <<Now, ";">>
          [] Now = "defer" -> <<"defer", "Expr", ";">>
          [] OTHER -> <<"Expr", ";">>
  <2>1. Append(LetBinding, ";") \in Seq(Plain)
    <3>1. LetBinding \in Seq(Plain)
      BY DEF LetBinding, Keywords, Rules
    <3>2. ";" \in Plain
      BY DEF OneChar
    <3>3. QED
      BY <3>1, <3>2, AppendProperties
  <2>2. ConstBinding \in Seq(Plain)
    BY DEF ConstBinding, OneChar, Keywords, Rules
  <2>3. /\ <<"return", ";">> \in Seq(Plain)
        /\ <<"return", "Expr", ";">> \in Seq(Plain)
        /\ <<"if", "Expr", "Block", "Else">> \in Seq(Plain)
        /\ <<"while", "Expr", "Block">> \in Seq(Plain)
        /\ <<"for", "ForInit", ";", "ForCond", ";", "ForPost", "Block">> \in Seq(Plain)
        /\ <<"defer", "Expr", ";">> \in Seq(Plain)
        /\ <<"Expr", ";">> \in Seq(Plain)
    BY DEF OneChar, Keywords, Rules
  <2>4. /\ Now \in {"loop", "unsafe"} => <<Now, "Block">> \in Seq(Plain)
        /\ Now \in {"break", "continue"} => <<Now, ";">> \in Seq(Plain)
    BY DEF OneChar, Keywords, Rules
  <2>5. rhs \in Seq(Plain)
    BY <2>1, <2>2, <2>3, <2>4
  <2>6. "Stmt" \in Ordinary
    BY SymbolFacts DEF Rules, TopLevel
  <2>7. Rule("Stmt", rhs)
    BY <1>3 DEF ParseStmt
  <2> HIDE DEF rhs
  <2>8. QED
    BY <2>5, <2>6, <2>7, RuleExpands
<1>4. CASE ParseElse
  <2>1. (CASE Now # "else" -> <<>>
           [] Kind(pos + 1) = "if" -> <<"else", "Stmt">>
           [] OTHER -> <<"else", "Block">>) \in Seq(Plain)
    BY DEF Keywords, Rules
  <2>2. "Else" \in Ordinary
    BY SymbolFacts DEF Rules, TopLevel
  <2>3. QED
    BY <1>4, <2>1, <2>2, RuleExpands DEF ParseElse
<1>5. CASE ParseFor
  <2>1. LetBinding \in Seq(Plain)
    BY DEF LetBinding, Keywords, Rules
  <2>2. /\ (CASE Now = ";" -> <<>> [] Now = "let" -> LetBinding [] OTHER -> <<"Expr">>)
             \in Seq(Plain)
        /\ (IF Now = ";" THEN <<>> ELSE <<"Expr">>) \in Seq(Plain)
        /\ (IF Now = "{" THEN <<>> ELSE <<"Expr">>) \in Seq(Plain)
    BY <2>1 DEF Rules
  <2>3. "ForInit" \in Ordinary /\ "ForCond" \in Ordinary /\ "ForPost" \in Ordinary
    BY SymbolFacts DEF Rules, TopLevel
  <2>4. QED
    BY <1>5, <2>2, <2>3, RuleExpands DEF ParseFor
<1>6. QED
  BY <1>1, <1>2, <1>3, <1>4, <1>5


(* Paths, types and patterns.                                              *)
LEMMA TypeRules ==
  ASSUME TypeOKLex, pos \in Nat \ {0}, ParsePath \/ ParseType \/ ParsePattern
  PROVE  Expanding
<1> USE PlainMembers, PlainTuples
<1>1. Ready
  BY DEF ParsePath, ParseType, ParsePattern, Rule
<1>2. Now \in Plain
  BY <1>1, NowFacts
<1>3. CASE ParsePath
  <2>1. (IF Now \in PathWords THEN <<Now>> ELSE <<"IDENT">>) \in Seq(Plain)
    BY <1>2
  <2>2. (IF Now = "." THEN <<".", "PathName", "Dots">> ELSE <<>>) \in Seq(Plain)
    BY DEF OneChar, Rules
  <2>3. "PathName" \in Ordinary /\ "Dots" \in Ordinary
    BY SymbolFacts DEF Rules, TopLevel
  <2>4. QED
    BY <1>3, <2>1, <2>2, <2>3, RuleExpands DEF ParsePath
<1>4. CASE ParseType
  <2>1. <<"Null?", "PlainType">> \in Seq(Plain)
    BY DEF Options, Rules
  <2>2. (CASE Now = "*" -> <<"*", "Const?", "Type">>
           [] Now = "[" -> <<"[", "Int?", "]", "Type">>
           [] Now = "Self" -> <<"Self", "Dots", "TypeArgs">>
           [] OTHER -> <<"PathName", "Dots", "TypeArgs">>) \in Seq(Plain)
    BY DEF OneChar, Options, Keywords, Rules
  <2>3. "Type" \in Ordinary /\ "PlainType" \in Ordinary
    BY SymbolFacts DEF Rules, TopLevel
  <2>4. QED
    BY <1>4, <2>1, <2>2, <2>3, RuleExpands DEF ParseType
<1>5. CASE ParsePattern
  <2>1. (CASE Now = "_" -> <<"_">>
           [] Now = "IDENT" /\ Kind(pos + 1) = "." -> <<"IDENT", ".", "IDENT", "Bindings">>
           [] OTHER -> <<"IDENT", "Bindings">>) \in Seq(Plain)
    BY DEF OneChar, Keywords, Rules
  <2>2. /\ (IF Now = "(" THEN <<"(", "Names", ")">> ELSE <<>>) \in Seq(Plain)
        /\ (IF Now \in {")", "EOF"} THEN <<>> ELSE <<"IDENT", "MoreNames">>) \in Seq(Plain)
        /\ (IF Now = "," THEN <<",", "Names">> ELSE <<>>) \in Seq(Plain)
    BY DEF OneChar, Rules
  <2>3. {"Pattern", "Bindings", "Names", "MoreNames"} \subseteq Ordinary
    BY SymbolFacts DEF Rules, TopLevel
  <2>4. QED
    BY <1>5, <2>1, <2>2, <2>3, RuleExpands DEF ParsePattern
<1>6. QED
  BY <1>3, <1>4, <1>5

(* Expressions, but for the primary ones.                                  *)
LEMMA ExprRules ==
  ASSUME TypeOKLex, pos \in Nat \ {0},
         ParsePostfix \/ ParseUnary \/ Operators \/ ParseAssign
  PROVE  Expanding
<1> USE PlainMembers, PlainTuples
<1>1. Ready
  BY DEF ParsePostfix, ParseUnary, Operators, ParseAssign, Rule
<1>2. Now \in Plain
  BY <1>1, NowFacts
<1>3. CASE ParsePostfix
  <2>1. (CASE Now = "(" -> <<"(", "Args", ")", "Postfix">>
           [] Now = "." -> <<".", "IDENT", "Postfix">>
           [] Now = "[" -> <<"[", "Index", "]", "Postfix">>
           [] Now \in {"?", "++", "--"} -> <<Now, "Postfix">>
           [] OTHER -> <<>>) \in Seq(Plain)
    BY <1>2 DEF OneChar, Rules
  <2>2. /\ (IF Now = ")" THEN <<>> ELSE <<"Expr", "MoreArgs">>) \in Seq(Plain)
        /\ (IF Now = "]" THEN <<>> ELSE <<"Expr">>) \in Seq(Plain)
    BY DEF Listed, Rules
  <2>3. /\ (IF Now = ".." THEN <<"..", "SliceEnd">> ELSE <<"Expr", "SliceRest">>) \in Seq(Plain)
        /\ (IF Now = ".." THEN <<"..", "SliceEnd">> ELSE <<>>) \in Seq(Plain)
    BY <1>2 DEF Rules
  <2>4. {"Postfix", "Args", "Index", "SliceRest", "SliceEnd"} \subseteq Ordinary
    BY SymbolFacts DEF Rules, TopLevel
  <2>5. QED
    BY <1>3, <2>1, <2>2, <2>3, <2>4, RuleExpands DEF ParsePostfix
<1>4. CASE ParseUnary
  <2>1. (IF Now \in {"!", "-", "*", "&", "~"} THEN <<Now, "Operand">>
         ELSE <<"Primary", "Postfix">>) \in Seq(Plain)
    BY <1>2 DEF Rules
  <2>2. "Operand" \in Ordinary
    BY SymbolFacts DEF Rules, TopLevel
  <2>3. QED
    BY <1>4, <2>1, <2>2, RuleExpands DEF ParseUnary
<1>5. CASE Operators
  <2>1. (CASE Now = "as" -> <<"as", "Type", "Operators">>
           [] Now \in BinaryOps -> <<Now, "Operand", "Operators">>
           [] OTHER -> <<"Assign">>) \in Seq(Plain)
    BY <1>2 DEF Keywords, Rules
  <2>2. "Operators" \in Ordinary
    BY SymbolFacts DEF Rules, TopLevel
  <2>3. QED
    BY <1>5, <2>1, <2>2, RuleExpands DEF Operators
<1>6. CASE ParseAssign
  <2>1. /\ <<"Operand", "Operators">> \in Seq(Plain)
        /\ (IF Now \in AssignOps THEN <<Now, "Expr">> ELSE <<>>) \in Seq(Plain)
    BY <1>2 DEF Rules
  <2>2. "Expr" \in Ordinary /\ "Assign" \in Ordinary
    BY SymbolFacts DEF Rules, TopLevel
  <2>3. QED
    BY <1>6, <2>1, <2>2, RuleExpands DEF ParseAssign
<1>7. QED
  BY <1>3, <1>4, <1>5, <1>6

(* Functions and the other declarations.                                   *)
LEMMA DeclRules ==
  ASSUME TypeOKLex, pos \in Nat \ {0},
         ParseParams \/ ParseTypeParams \/ ParseFnDecl \/ ParseDecl
  PROVE  Expanding
<1> USE PlainMembers, PlainTuples
<1>1. CASE ParseParams
  <2>1. /\ <<"(", "ParamList", ")">> \in Seq(Plain)
        /\ (IF Now = ")" THEN <<>> ELSE <<"Param", "MoreParams">>) \in Seq(Plain)
        /\ <<IF Now = "Self" THEN "Self" ELSE "IDENT", ":", "Type">> \in Seq(Plain)
    BY DEF OneChar, Keywords, Listed, Rules
  <2>2. {"Params", "ParamList", "Param"} \subseteq Ordinary
    BY SymbolFacts DEF Rules, TopLevel
  <2>3. QED
    BY <1>1, <2>1, <2>2, RuleExpands DEF ParseParams
<1>2. CASE ParseTypeParams
  <2>1. (IF Now = "[" THEN <<"[", "IDENT", "MoreTypeParams", "]">> ELSE <<>>) \in Seq(Plain)
    BY DEF OneChar, Listed
  <2>2. "TypeParams" \in Ordinary
    BY SymbolFacts DEF Rules, TopLevel
  <2>3. QED
    BY <1>2, <2>1, <2>2, RuleExpands DEF ParseTypeParams
<1>3. CASE ParseFnDecl
  <2>1. <<"IDENT", "TypeParams", "Params", "->", "Type", "Block">> \in Seq(Plain)
    BY DEF Rules
  <2>2. "FnDecl" \in Ordinary
    BY SymbolFacts DEF Rules, TopLevel
  <2>3. QED
    BY <1>3, <2>1, <2>2, RuleExpands DEF ParseFnDecl
<1>4. CASE ParseDecl
  <2>1. <<"Pub?", "DeclBody">> \in Seq(Plain)
    BY DEF Options, Rules
  <2>2. /\ ConstBinding \in Seq(Plain)
        /\ ImplDecl \in Seq(Plain)
        /\ InterfaceDecl \in Seq(Plain)
        /\ ComptimeDecl \in Seq(Plain)
    BY DEF ConstBinding, ImplDecl, InterfaceDecl, ComptimeDecl, OneChar, Keywords, Items, Rules
  <2>3. /\ PackedDecl \in Seq(Plain)
        /\ StructDecl \in Seq(Plain)
        /\ EnumDecl \in Seq(Plain)
        /\ UnionDecl \in Seq(Plain)
    BY DEF PackedDecl, StructDecl, EnumDecl, UnionDecl, OneChar, Keywords, Items, Rules
  <2>4. /\ ExternDecl \in Seq(Plain)
        /\ UiDecl \in Seq(Plain)
        /\ KernelDecl \in Seq(Plain)
        /\ <<"fn", "FnDecl">> \in Seq(Plain)
        /\ <<"Error">> \in Seq(Plain)
    BY DEF ExternDecl, UiDecl, KernelDecl, OneChar, Keywords, Items, Options, Rules
  <2> DEFINE rhs ==
        CASE Now = "const" -> ConstBinding
          [] Now = "impl" -> ImplDecl
          [] Now = "interface" -> InterfaceDecl
          [] Now = "comptime" -> ComptimeDecl
          [] Now = "packed" -> PackedDecl
          [] Now = "struct" -> StructDecl
          [] Now = "enum" -> EnumDecl
          [] Now = "union" -> UnionDecl
          [] Now = "extern" -> ExternDecl
          [] Now = "fn" -> <<"fn", "FnDecl">>
          [] Now = "ui" -> UiDecl
          [] Now = "kernel" -> KernelDecl
          [] OTHER -> <<"Error">>
  <2>5. rhs \in Seq(Plain)
    BY <2>2, <2>3, <2>4
  <2>6. "Decl" \in Ordinary /\ "DeclBody" \in Ordinary
    BY SymbolFacts DEF Rules, TopLevel
  <2>7. Rule("Decl", <<"Pub?", "DeclBody">>) \/ Rule("DeclBody", rhs)
    BY <1>4 DEF ParseDecl
  <2> HIDE DEF rhs
  <2>8. QED
    BY <2>1, <2>5, <2>6, <2>7, RuleExpands
<1>5. QED
  BY <1>1, <1>2, <1>3, <1>4

(* The parts of declarations and the elements of user interfaces.          *)
LEMMA PartRules ==
  ASSUME TypeOKLex, pos \in Nat \ {0}, ParseDeclParts \/ ParseUiElement
  PROVE  Expanding
<1> USE PlainMembers, PlainTuples
<1>1. CASE ParseDeclParts
  <2>1. ConstBinding \in Seq(Plain)
    BY DEF ConstBinding, OneChar, Keywords, Rules
  <2>2. /\ (IF Now = ":" THEN <<":", "IDENT">> ELSE <<>>) \in Seq(Plain)
        /\ (IF Now = "const" THEN ConstBinding ELSE <<"Error">>) \in Seq(Plain)
        /\ (IF Now = "(" THEN <<"(", "VariantFields", ")">> ELSE <<>>) \in Seq(Plain)
        /\ (IF Now = "fn" THEN <<"fn", "FnDecl">> ELSE <<"Error">>) \in Seq(Plain)
    BY <2>1 DEF OneChar, Keywords, Items, Rules
  <2>3. {"Interface", "ComptimeConst", "Payload", "KernelFn"} \subseteq Ordinary
    BY SymbolFacts DEF Rules, TopLevel
  <2>4. QED
    BY <1>1, <2>2, <2>3, RuleExpands DEF ParseDeclParts
<1>2. CASE ParseUiElement
  <2>1. /\ (IF Word \in UiElements THEN <<"IDENT", "Title", "{", "Members", "}">>
            ELSE <<"Error">>) \in Seq(Plain)
        /\ (IF Now = "(" THEN <<"(", "String?", ")">> ELSE <<>>) \in Seq(Plain)
        /\ (CASE Word \in UiHandlers -> <<"IDENT", "Block">>
              [] Word \in UiElements -> <<"Element">>
              [] OTHER -> <<"IDENT", ":", "Expr", ";">>) \in Seq(Plain)
    BY DEF OneChar, Items, Options, Rules
  <2>2. {"Element", "Title", "Member"} \subseteq Ordinary
    BY SymbolFacts DEF Rules, TopLevel
  <2>3. QED
    BY <1>2, <2>1, <2>2, RuleExpands DEF ParseUiElement
<1>3. QED
  BY <1>1, <1>2


(* Optional tokens and the loops.                                          *)
LEMMA LoopRules ==
  ASSUME TypeOKLex, pos \in Nat \ {0}, Match \/ Loop \/ More
  PROVE  Expanding
<1> USE PlainMembers, PlainTuples
<1>1. Ready
  BY DEF Match, Loop, More
<1>2. Now \in Plain
  BY <1>1, NowFacts
<1>3. CASE Match
  <2>1. (IF Now = Options[Head(work)] THEN <<Now>> ELSE <<>>) \in Seq(Plain)
    BY <1>2
  <2>2. Head(work) \in Ordinary
    BY <1>3, SymbolFacts DEF Match
  <2>3. QED
    BY <1>1, <1>3, <2>1, <2>2 DEF Match, Expanding
<1>4. CASE Loop
  <2>1. \A name \in DOMAIN Items : Items[name] \in Seq(Plain)
    <3>1. /\ <<"Stmt">> \in Seq(Plain)
          /\ <<"Pattern", "=>", "Expr", "Comma?">> \in Seq(Plain)
          /\ <<"IDENT", ":", "Expr", "Comma?">> \in Seq(Plain)
          /\ <<"IDENT", ":", "Type", ";">> \in Seq(Plain)
          /\ <<"Pub?", "fn", "FnDecl">> \in Seq(Plain)
          /\ <<"Pub?", "fn", "IDENT", "Params", "->", "Type", ";">> \in Seq(Plain)
      BY DEF OneChar, Keywords, Options, Rules
    <3>2. /\ <<"Pub?", "ComptimeConst">> \in Seq(Plain)
          /\ <<"IDENT", "Payload", ";">> \in Seq(Plain)
          /\ <<"IDENT", ":", "Type", "Comma?">> \in Seq(Plain)
          /\ <<"Element">> \in Seq(Plain)
          /\ <<"Member">> \in Seq(Plain)
          /\ <<"Pub?", "KernelFn">> \in Seq(Plain)
      BY DEF OneChar, Keywords, Options, Rules
    <3>3. QED
      BY <3>1, <3>2 DEF Items
  <2>2. Head(work) \in DOMAIN Items
    BY <1>4 DEF Loop
  <2>3. Append(Items[Head(work)], Head(work)) \in Seq(Plain)
    BY <2>1, <2>2, AppendProperties
  <2>4. (IF Now \in {Stop(Head(work)), "EOF"} THEN <<>>
         ELSE Append(Items[Head(work)], Head(work))) \in Seq(Plain)
    BY <2>3
  <2>5. Head(work) \in Ordinary
    BY <2>2, SymbolFacts
  <2>6. QED
    BY <1>1, <1>4, <2>4, <2>5 DEF Loop, Expanding
<1>5. CASE More
  <2>1. Head(work) \in DOMAIN Listed
    BY <1>5 DEF More
  <2>2. \A name \in DOMAIN Listed : Listed[name] \in {"Expr", "Param", "IDENT"}
    BY DEF Listed
  <2>3. Listed[Head(work)] \in Plain
    BY <2>1, <2>2 DEF Rules
  <2>4. (IF Now = "," THEN <<",", Listed[Head(work)], Head(work)>> ELSE <<>>) \in Seq(Plain)
    BY <2>1, <2>3 DEF OneChar
  <2>5. Head(work) \in Ordinary
    BY <2>1, SymbolFacts
  <2>6. QED
    BY <1>1, <1>5, <2>4, <2>5 DEF More, Expanding
<1>6. QED
  BY <1>3, <1>4, <1>5

(* A primary expression that announces a generic literal has seen its      *)
(* bracket, what closes it and the fields behind that.                     *)
BracketAhead(i) == i \in DOMAIN tokens /\ Kind(i) = "[" /\ LooksLikeFields(Behind(i))

Announcing ==
  /\ Ready
  /\ Head(work) \in Ordinary
  /\ Now \in {"IDENT", "Self"}
  /\ BracketAhead(pos + 1)
  /\ Calls(<<Now, "GenericName", "Values", "}">>)

(* A primary expression is an ordinary call or announces a generic literal. *)
LEMMA PrimaryRules ==
  ASSUME TypeOKLex, pos \in Nat \ {0}, ParsePrimary
  PROVE  Expanding \/ Announcing
<1> USE PlainMembers, PlainTuples
<1> DEFINE rhs ==
      CASE Now \in Literals \cup {"true", "false", "null"} -> <<Now>>
        [] Now = "match" -> MatchExpr
        [] Now = "(" -> <<"(", "Expr", ")">>
        [] Now \in {"IDENT", "Self"} -> Named(Now)
        [] OTHER -> <<"Error">>
<1>1. Rule("Primary", rhs)
  BY DEF ParsePrimary
<1>2. Now \in Plain /\ Ready /\ Head(work) = "Primary" /\ "Primary" \in Ordinary
  BY <1>1, NowFacts, SymbolFacts DEF Rule, Rules, TopLevel
<1>3. CASE /\ Now \in {"IDENT", "Self"}
           /\ Kind(pos + 1) = "["
           /\ LooksLikeFields(Behind(pos + 1))
  <2>1. rhs = Named(Now)
    BY <1>3 DEF Literals
  <2>2. Named(Now) = <<Now, "GenericName", "Values", "}">>
    <3>1. ~LooksLikeFields(pos + 1)
      BY <1>3 DEF LooksLikeFields
    <3>2. QED
      BY <1>3, <3>1 DEF Named
  <2>3. BracketAhead(pos + 1)
    BY <1>3 DEF BracketAhead, Kind
  <2> HIDE DEF rhs
  <2>4. QED
    BY <1>1, <1>2, <1>3, <2>1, <2>2, <2>3 DEF Announcing, Rule
<1>4. CASE ~(/\ Now \in {"IDENT", "Self"}
             /\ Kind(pos + 1) = "["
             /\ LooksLikeFields(Behind(pos + 1)))
  <2>1. Now \in {"IDENT", "Self"} =>
          Named(Now) \in {<<Now, "{", "Values", "}">>, <<Now>>}
    BY <1>4 DEF Named
  <2>2. <<Now, "{", "Values", "}">> \in Seq(Plain) /\ <<Now>> \in Seq(Plain)
    BY <1>2 DEF OneChar, Items
  <2>3. MatchExpr \in Seq(Plain)
    BY DEF MatchExpr, OneChar, Keywords, Items, Rules
  <2>4. <<"(", "Expr", ")">> \in Seq(Plain) /\ <<"Error">> \in Seq(Plain)
    BY DEF OneChar, Rules
  <2>5. Now \in {"IDENT", "Self"} => Named(Now) \in Seq(Plain)
    BY <2>1, <2>2
  <2>6. rhs \in Seq(Plain)
    BY <2>2, <2>3, <2>4, <2>5
  <2> HIDE DEF rhs
  <2>7. QED
    BY <1>1, <1>2, <2>6, RuleExpands
<1>5. QED
  BY <1>3, <1>4

(* The top level goes on until the end marker.                             *)
TopStep ==
  /\ Ready
  /\ Head(work) \in TopLevel
  /\ \E s \in Seq(Plain) :
       /\ Calls(s)
       /\ IF s = <<>> THEN Now = "EOF" ELSE s[Len(s)] \in TopLevel

(* A file is read as a step of the top level.                              *)
LEMMA TopRules ==
  ASSUME TypeOKLex, pos \in Nat \ {0}, ParseProgram
  PROVE  TopStep
<1> USE PlainMembers, PlainTuples
<1>1. CASE Rule("Program",
             IF Now = "package" THEN <<"package", "PathName", "Dots", ";", "Imports">>
             ELSE <<"Imports">>)
  <2> DEFINE s == IF Now = "package" THEN <<"package", "PathName", "Dots", ";", "Imports">>
                  ELSE <<"Imports">>
  <2>1. s \in Seq(Plain)
    BY DEF OneChar, Keywords, Rules
  <2>2. s # <<>> /\ s[Len(s)] = "Imports"
    OBVIOUS
  <2>3. Ready /\ Head(work) = "Program" /\ Calls(s)
    BY <1>1 DEF Rule
  <2> HIDE DEF s
  <2>4. QED
    BY <2>1, <2>2, <2>3 DEF TopStep, TopLevel
<1>2. CASE Rule("Imports",
             IF Now = "import" THEN <<"import", "PathName", "Dots", ";", "Imports">>
             ELSE <<"Decls">>)
  <2> DEFINE s == IF Now = "import" THEN <<"import", "PathName", "Dots", ";", "Imports">>
                  ELSE <<"Decls">>
  <2>1. s \in Seq(Plain)
    BY DEF OneChar, Keywords, Rules
  <2>2. s # <<>> /\ s[Len(s)] \in {"Imports", "Decls"}
    OBVIOUS
  <2>3. Ready /\ Head(work) = "Imports" /\ Calls(s)
    BY <1>2 DEF Rule
  <2> HIDE DEF s
  <2>4. QED
    BY <2>1, <2>2, <2>3 DEF TopStep, TopLevel
<1>3. CASE Rule("Decls", IF Now = "EOF" THEN <<>> ELSE <<"Decl", "Decls">>)
  <2> DEFINE s == IF Now = "EOF" THEN <<>> ELSE <<"Decl", "Decls">>
  <2>1. s \in Seq(Plain)
    BY DEF Rules
  <2>2. IF s = <<>> THEN Now = "EOF" ELSE s[Len(s)] = "Decls"
    OBVIOUS
  <2>3. Ready /\ Head(work) = "Decls" /\ Calls(s)
    BY <1>3 DEF Rule
  <2> HIDE DEF s
  <2>4. QED
    BY <2>1, <2>2, <2>3 DEF TopStep, TopLevel
<1>4. QED
  BY <1>1, <1>2, <1>3 DEF ParseProgram


(***************************************************************************)
(* The cursor.                                                             *)
(***************************************************************************)

(* The list of a parser at work ends with the only end marker.             *)
LEMMA EndFacts ==
  ASSUME LexInv, mode = "done"
  PROVE  /\ Len(tokens) \in Nat \ {0}
         /\ DOMAIN tokens = 1 .. Len(tokens)
         /\ Kind(Len(tokens)) = "EOF"
         /\ \A i \in DOMAIN tokens : Kind(i) = "EOF" => i = Len(tokens)
         /\ \A i : Kind(i) # "none" => i \in DOMAIN tokens
<1>1. TypeOKLex /\ tokens # <<>> /\ tokens[Len(tokens)].kind = "EOF"
  BY DEF LexInv, EndMarked
<1>2. Len(tokens) \in Nat /\ DOMAIN tokens = 1 .. Len(tokens)
  BY <1>1, TokenFacts
<1>3. Len(tokens) # 0
  <2>1. tokens \in Seq([kind : Kinds, first : Nat, last : Nat, start : Nat])
    BY <1>1 DEF TypeOKLex
  <2>2. QED
    BY <1>1, <2>1, EmptySeq
<1>4. \A i \in DOMAIN tokens : tokens[i].kind = "EOF" => i = Len(tokens)
  BY DEF LexInv, TokensInOrder
<1>5. QED
  BY <1>1, <1>2, <1>3, <1>4 DEF Kind

(* A token that is not the end marker has one behind it.                   *)
LEMMA GoesOn ==
  ASSUME LexInv, mode = "done", NEW i \in DOMAIN tokens, Kind(i) # "EOF"
  PROVE  i + 1 \in DOMAIN tokens /\ i \in Nat \ {0}
<1>1. i # Len(tokens)
  BY EndFacts
<1>2. QED
  BY <1>1, EndFacts

(* The search for the end of type arguments ends inside the list: behind   *)
(* the bracket that closes them, or at the end marker.                     *)
LEMMA BehindFacts ==
  ASSUME LexInv, mode = "done", NEW i \in DOMAIN tokens, Kind(i) = "["
  PROVE  /\ Behind(i) \in (i + 1) .. Len(tokens)
         /\ Opened(i, Behind(i) - 1) = 0 \/ Kind(Behind(i)) = "EOF"
<1> DEFINE n == Len(tokens)
           hit(j) == Opened(i, j - 1) = 0 \/ Kind(j) = "EOF"
           fit(j) == hit(j) /\ \A k \in (i + 1) .. (j - 1) : Opened(i, k - 1) # 0
           T == {j \in (i + 1) .. n : hit(j)}
<1>1. n \in Nat \ {0} /\ i \in Nat \ {0} /\ i + 1 \in 1 .. n /\ Kind(n) = "EOF"
  BY EndFacts, GoesOn
<1> HIDE DEF n
<1>2. T \subseteq Nat /\ n \in T
  BY <1>1
<1>3. PICK j \in T : \A k \in T : j <= k
  <2> HIDE DEF T
  <2>1. QED
    BY <1>2, LeastIn
<1>4. fit(j) /\ j \in (i + 1) .. n
  <2>1. ASSUME NEW k \in (i + 1) .. (j - 1)
        PROVE  ~hit(k)
    <3>1. k \in (i + 1) .. n /\ ~(j <= k)
      BY <1>1, <1>3
    <3>2. QED
      BY <1>3, <3>1
  <2>2. QED
    BY <1>3, <2>1
<1>5. Behind(i) = CHOOSE m \in (i + 1) .. n : fit(m)
  BY DEF Behind, n
<1> HIDE DEF T, hit
<1>6. Behind(i) \in (i + 1) .. n /\ fit(Behind(i))
  <2> HIDE DEF fit
  <2>1. QED
    BY <1>4, <1>5
<1>7. QED
  BY <1>6 DEF n, hit

(* Between a bracket and the place where as many are closed as were opened *)
(* stands a closing one.                                                   *)
LEMMA OneCloses ==
  ASSUME NEW i \in Nat, NEW j \in Nat, i <= j, Kind(i) = "[", Opened(i, j) = 0
  PROVE  \E k \in i .. j : Kind(k) = "]"
<1> DEFINE A == {k \in i .. j : Kind(k) = "["}
           B == {k \in i .. j : Kind(k) = "]"}
<1>1. IsFiniteSet(i .. j)
  BY FS_Interval
<1>2. A \in SUBSET (i .. j) /\ B \in SUBSET (i .. j) /\ i \in A
  OBVIOUS
<1>3. Opened(i, j) = Cardinality(A) - Cardinality(B)
  BY DEF Opened
<1>4. B = {} <=> ~\E k \in i .. j : Kind(k) = "]"
  OBVIOUS
<1> HIDE DEF A, B
<1>5. IsFiniteSet(A) /\ IsFiniteSet(B)
  BY <1>1, <1>2, FS_Subset
<1>6. Cardinality(A) \in Nat /\ Cardinality(B) \in Nat
  BY <1>5, FS_CardinalityType
<1>7. Cardinality(A) # 0
  BY <1>2, <1>5, FS_EmptySet
<1>8. Cardinality(B) # 0
  BY <1>3, <1>6, <1>7
<1>9. B # {}
  BY <1>8, FS_EmptySet
<1>10. QED
  BY <1>4, <1>9

(* The first closing bracket behind a generic name, and what is taken for  *)
(* its brace, stand before the end marker.                                 *)
FirstClose(i) ==
  CHOOSE j \in i .. Len(tokens) :
    /\ Kind(j) = "]"
    /\ \A k \in i .. (j - 1) : Kind(k) # "]"

(* The closing bracket is there, with two tokens behind it.                *)
LEMMA CloseFacts ==
  ASSUME LexInv, mode = "done", NEW i, BracketAhead(i)
  PROVE  FirstClose(i) \in i .. Len(tokens) /\ FirstClose(i) + 2 <= Len(tokens)
<1> DEFINE n == Len(tokens)
           b == Behind(i)
           fit(j) == Kind(j) = "]" /\ \A k \in i .. (j - 1) : Kind(k) # "]"
           T == {j \in i .. n : Kind(j) = "]"}
<1>1. /\ n \in Nat \ {0} /\ DOMAIN tokens = 1 .. n
      /\ Kind(n) = "EOF"
      /\ \A k : Kind(k) # "none" => k \in DOMAIN tokens
  BY EndFacts
<1>2. i \in DOMAIN tokens /\ i \in 1 .. n /\ Kind(i) = "[" /\ Kind(b) = "{"
  BY <1>1 DEF BracketAhead, LooksLikeFields
<1>3. b \in (i + 1) .. n /\ Opened(i, b - 1) = 0
  <2>1. Kind(b) # "EOF"
    BY <1>2
  <2>2. QED
    BY <1>2, <2>1, BehindFacts
<1>4. b # n
  <2>1. Kind(b) # Kind(n)
    BY <1>1, <1>2
  <2>2. QED
    BY <2>1
<1> HIDE DEF n, b
<1>5. i \in Nat /\ b - 1 \in Nat /\ i <= b - 1 /\ b \in Nat /\ b <= n - 1
  <2>1. n \in Nat /\ i \in 1 .. n /\ b \in (i + 1) .. n /\ b # n
    BY <1>1, <1>2, <1>3, <1>4
  <2>2. QED
    BY ONLY <2>1
<1>6. PICK c \in i .. (b - 1) : Kind(c) = "]"
  BY <1>2, <1>3, <1>5, OneCloses
<1>7. T \subseteq Nat /\ c \in T
  BY <1>1, <1>5, <1>6
<1>8. PICK j \in T : \A k \in T : j <= k
  <2> HIDE DEF T
  <2>1. QED
    BY <1>7, LeastIn
<1>9. fit(j) /\ j \in i .. n /\ j <= c
  <2>1. ASSUME NEW k \in i .. (j - 1)
        PROVE  Kind(k) # "]"
    <3>1. k \in i .. n /\ ~(j <= k)
      BY <1>1, <1>5, <1>8
    <3>2. QED
      BY <1>8, <3>1
  <2>2. QED
    BY <1>7, <1>8, <2>1
<1>10. FirstClose(i) = CHOOSE m \in i .. n : fit(m)
  BY DEF FirstClose, n
<1>11. FirstClose(i) \in i .. n /\ fit(FirstClose(i))
  <2> HIDE DEF fit
  <2>1. QED
    BY <1>9, <1>10
<1>12. FirstClose(i) <= c
  <2>1. ~(c \in i .. (FirstClose(i) - 1))
    BY <1>6, <1>11
  <2>2. QED
    BY <1>1, <1>5, <1>6, <1>11, <2>1
<1> DEFINE f == FirstClose(i)
<1>13. f \in i .. n /\ f <= c
  BY <1>11, <1>12
<1> HIDE DEF T, fit, f
<1>14. f + 2 <= n
  <2>1. /\ n \in Nat /\ i \in Nat /\ b \in Nat /\ b <= n - 1
        /\ c \in i .. (b - 1) /\ f \in i .. n /\ f <= c
    BY <1>1, <1>5, <1>6, <1>13
  <2>2. QED
    BY ONLY <2>1
<1>15. QED
  BY <1>13, <1>14 DEF n, f


(***************************************************************************)
(* The stack of calls.                                                     *)
(***************************************************************************)

(* A symbol in front of a sequence is its head.                            *)
LEMMA InFront ==
  ASSUME NEW S, NEW a \in S, NEW r \in Seq(S)
  PROVE  /\ <<a>> \o r \in Seq(S)
         /\ <<a>> \o r # <<>>
         /\ Head(<<a>> \o r) = a
         /\ Tail(<<a>> \o r) = r
<1> DEFINE w == <<a>> \o r
<1>1. <<a>> \in Seq(S) /\ Len(<<a>>) = 1 /\ <<a>>[1] = a
  BY Tuples
<1>2. /\ w \in Seq(S) /\ Len(w) = 1 + Len(r)
      /\ \A i \in 1 .. 1 + Len(r) : w[i] = IF i <= 1 THEN <<a>>[i] ELSE r[i - 1]
  BY <1>1, ConcatProperties
<1>3. Len(r) \in Nat
  BY LenProperties
<1> HIDE DEF w
<1>4. w # <<>>
  BY <1>2, <1>3, EmptySeq
<1>5. Head(w) = a
  <2>1. Head(w) = w[1]
    BY <1>2, <1>4
  <2>2. 1 \in 1 .. 1 + Len(r)
    BY <1>3
  <2>3. QED
    BY <1>1, <1>2, <2>1, <2>2
<1>6. Tail(w) = r
  <2>1. /\ Tail(w) \in Seq(S)
        /\ Len(Tail(w)) = Len(w) - 1
        /\ \A i \in 1 .. Len(Tail(w)) : Tail(w)[i] = w[i + 1]
    BY <1>2, <1>4, HeadTailProperties
  <2>2. Len(Tail(w)) = Len(r)
    BY <1>2, <1>3, <2>1
  <2>3. ASSUME NEW i \in 1 .. Len(r)
        PROVE  Tail(w)[i] = r[i]
    <3>1. i + 1 \in 1 .. 1 + Len(r) /\ ~(i + 1 <= 1) /\ i + 1 - 1 = i
      BY <1>3
    <3>2. w[i + 1] = r[i]
      BY <1>2, <3>1
    <3>3. QED
      BY <2>1, <2>2, <3>2
  <2>4. QED
    BY <2>1, <2>2, <2>3, SeqEqual
<1>7. QED
  BY <1>2, <1>4, <1>5, <1>6 DEF w

(* The bottom of a stack does not move when its top is replaced, and is    *)
(* the bottom of what is put on it last when nothing else is left.         *)
LEMMA BottomFacts ==
  ASSUME NEW S, NEW w \in Seq(S), w # <<>>, NEW s \in Seq(S)
  PROVE  /\ Head(w) \in S
         /\ Tail(w) \in Seq(S)
         /\ s \o Tail(w) \in Seq(S)
         /\ Tail(w) = <<>> => Last(w) = Head(w) /\ s \o Tail(w) = s
         /\ Tail(w) # <<>> => /\ Last(Tail(w)) = Last(w)
                              /\ s \o Tail(w) # <<>>
                              /\ Last(s \o Tail(w)) = Last(w)
<1> DEFINE t == Tail(w)
           n == Len(w)
<1>1. n \in Nat \ {0}
  BY EmptySeq
<1>2. /\ Head(w) \in S /\ t \in Seq(S) /\ Len(t) = n - 1
      /\ \A i \in 1 .. Len(t) : t[i] = w[i + 1]
  BY HeadTailProperties
<1>3. Head(w) = w[1] /\ Last(w) = w[n]
  BY DEF Last
<1>4. /\ s \o t \in Seq(S)
      /\ Len(s \o t) = Len(s) + Len(t)
      /\ \A i \in 1 .. Len(s) + Len(t) : (s \o t)[i] = IF i <= Len(s) THEN s[i] ELSE t[i - Len(s)]
  BY <1>2, ConcatProperties
<1>5. Len(s) \in Nat
  BY LenProperties
<1> HIDE DEF t, n
<1>6. CASE t = <<>>
  <2>1. Len(t) = 0
    BY <1>6, EmptySeq
  <2>2. n = 1
    BY <1>1, <1>2, <2>1
  <2>3. s \o t = s
    BY <1>6, ConcatEmptySeq
  <2>4. QED
    BY <1>2, <1>3, <1>4, <1>6, <2>2, <2>3 DEF t
<1>7. CASE t # <<>>
  <2>1. Len(t) \in Nat \ {0}
    BY <1>2, <1>7, EmptySeq
  <2>2. Last(t) = t[Len(t)] /\ Last(s \o t) = (s \o t)[Len(s \o t)]
    BY DEF Last
  <2>3. t[Len(t)] = w[n]
    <3>1. Len(t) \in 1 .. Len(t) /\ Len(t) + 1 = n
      BY <1>1, <1>2, <2>1
    <3>2. QED
      BY <1>2, <3>1
  <2>4. (s \o t)[Len(s \o t)] = t[Len(t)]
    <3> DEFINE m == Len(s) + Len(t)
    <3>1. m \in 1 .. m /\ ~(m <= Len(s)) /\ m - Len(s) = Len(t)
      BY <1>5, <2>1
    <3>2. QED
      BY <1>4, <3>1
  <2>5. s \o t # <<>>
    <3>1. Len(s \o t) # 0
      BY <1>4, <1>5, <2>1
    <3>2. QED
      BY <3>1, EmptySeq
  <2>6. QED
    BY <1>2, <1>3, <1>4, <1>7, <2>2, <2>3, <2>4, <2>5 DEF t
<1>8. QED
  BY <1>6, <1>7


(***************************************************************************)
(* The invariant of the parser.                                            *)
(***************************************************************************)

(* The parser starts when the lexer is done.                               *)
Idle == mode # "done" => pos = 1 /\ work = <<"Program">> /\ verdict = "none"

(* The blind advance over a generic name is only on the stack when the     *)
(* brackets it jumps over have been looked at: as the next thing to do, or *)
(* behind the word before the bracket.                                     *)
GenericAhead ==
  \/ work \in Seq(Plain)
  \/ \E rest \in Seq(Plain) : work = <<"GenericName">> \o rest /\ BracketAhead(pos)
  \/ \E rest \in Seq(Plain), word \in {"IDENT", "Self"} :
       /\ work = <<word>> \o (<<"GenericName">> \o rest)
       /\ Now = word
       /\ BracketAhead(pos + 1)

(* The top level stays below every call, and leaves only at the end.       *)
Bottom == work # <<>> => Last(work) \in TopLevel
WholeRead == work = <<>> /\ verdict = "none" => pos \in DOMAIN tokens /\ Now = "EOF"

ParserInv ==
  /\ TypeOK
  /\ LexInv
  /\ Idle
  /\ CursorInside
  /\ GenericAhead
  /\ Bottom
  /\ WholeRead
  /\ AcceptedWhole

(* While the parser works, what was said of the lexer stays said.          *)
LEMMA LexInvStays ==
  ASSUME LexInv, UNCHANGED lexVars
  PROVE  LexInv'
<1>1. /\ text' = text /\ at' = at /\ mode' = mode /\ depth' = depth /\ first' = first
      /\ blen' = blen /\ tokens' = tokens
  BY DEF lexVars
<1>2. TypeOKLex' /\ ReadsInside' /\ TokensInOrder'
  BY <1>1 DEF LexInv, TypeOKLex, ReadsInside, TokensInOrder
<1>3. StringOpen' /\ CommentOpen' /\ EndMarked'
  BY <1>1 DEF LexInv, StringOpen, CommentOpen, EndMarked
<1>4. AllMunched'
  BY <1>1 DEF LexInv, AllMunched, Munched, Char
<1>5. QED
  BY <1>2, <1>3, <1>4 DEF LexInv

(* So do the tokens and what was seen among them.                          *)
LEMMA AheadStays ==
  ASSUME tokens' = tokens, NEW i, BracketAhead(i)
  PROVE  BracketAhead(i)'
<1>1. Behind(i)' = Behind(i)
  BY DEF Behind, Opened, Kind
<1>2. i \in DOMAIN tokens' /\ Kind(i)' = "["
  BY DEF BracketAhead, Kind
<1>3. LooksLikeFields(Behind(i))'
  BY <1>1 DEF BracketAhead, LooksLikeFields, Kind
<1>4. QED
  BY <1>2, <1>3 DEF BracketAhead

(* A parser that starts satisfies the invariant.                           *)
LEMMA ParserInvInit ==
  ASSUME Init
  PROVE  ParserInv
<1>1. LexInv
  BY LexInvInit DEF Init
<1>2. pos = 1 /\ work = <<"Program">> /\ hadError = FALSE /\ verdict = "none" /\ mode = "code"
  BY DEF Init, LexInit
<1>3. "Program" \in Plain /\ "Program" \in Symbols
  BY PlainMembers, SymbolFacts DEF Rules
<1>4. work \in Seq(Plain) /\ work \in Seq(Symbols) /\ Last(work) = "Program"
  <2>1. <<"Program">> \in Seq(Plain) /\ <<"Program">> \in Seq(Symbols)
    BY <1>3, Tuples
  <2>2. Last(<<"Program">>) = "Program"
    BY DEF Last
  <2>3. QED
    BY <1>2, <2>1, <2>2
<1>5. TypeOK
  <2>1. hadError \in BOOLEAN
    BY <1>2, Zenon
  <2>2. TypeOKLex /\ pos \in Nat \ {0}
    BY <1>1, <1>2 DEF LexInv
  <2>3. QED
    BY <1>2, <1>4, <2>1, <2>2, Zenon DEF TypeOK
<1>6. work # <<>>
  BY <1>2
<1>7. QED
  BY <1>1, <1>2, <1>4, <1>5, <1>6
     DEF ParserInv, Idle, CursorInside, GenericAhead, Bottom, WholeRead, AcceptedWhole, TopLevel

(* A step of the lexer keeps the invariant.                                *)
LEMMA LexPart ==
  ASSUME ParserInv, LexNext, UNCHANGED parseVars
  PROVE  ParserInv'
<1>1. LexInv' /\ mode # "done"
  BY LexSteps DEF ParserInv
<1>2. pos = 1 /\ work = <<"Program">> /\ verdict = "none"
  BY <1>1 DEF ParserInv, Idle
<1>3. pos' = pos /\ work' = work /\ hadError' = hadError /\ verdict' = verdict
  BY DEF parseVars
<1>4. TypeOK' /\ Idle' /\ WholeRead' /\ AcceptedWhole'
  <2>1. work # <<>>
    BY <1>2
  <2>2. QED
    BY <1>1, <1>2, <1>3, <2>1
       DEF ParserInv, TypeOK, LexInv, Idle, WholeRead, AcceptedWhole
<1>5. CursorInside'
  <2>1. CASE mode' = "done"
    <3>1. tokens' # <<>>
      BY <1>1, <2>1 DEF LexInv, EndMarked
    <3>2. tokens' \in Seq([kind : Kinds, first : Nat, last : Nat, start : Nat])
      BY <1>1 DEF LexInv, TypeOKLex
    <3>3. Len(tokens') \in Nat \ {0}
      BY <3>1, <3>2, EmptySeq
    <3>4. QED
      BY <1>2, <1>3, <3>3 DEF CursorInside
  <2>2. CASE mode' # "done"
    BY <2>2 DEF CursorInside
  <2>3. QED
    BY <2>1, <2>2
<1>6. GenericAhead' /\ Bottom'
  <2>1. "Program" \in Plain
    BY PlainMembers DEF Rules
  <2>2. work \in Seq(Plain)
    BY <1>2, <2>1, Tuples
  <2>3. QED
    BY <1>3, <2>2 DEF ParserInv, GenericAhead, Bottom
<1>7. QED
  BY <1>1, <1>4, <1>5, <1>6 DEF ParserInv

(* What a parser at work may rely on.                                      *)
LEMMA ReadyFacts ==
  ASSUME ParserInv, Ready
  PROVE  /\ LexInv /\ mode = "done" /\ verdict = "none"
         /\ pos \in Nat \ {0} /\ pos \in DOMAIN tokens
         /\ work \in Seq(Symbols) /\ work # <<>>
         /\ hadError \in BOOLEAN
         /\ Now \in Kinds
         /\ Kind(pos) = Now
<1>1. TypeOK /\ LexInv /\ mode = "done" /\ verdict = "none" /\ work # <<>>
  BY DEF ParserInv, Ready
<1>2. QED
  BY <1>1, NowFacts DEF TypeOK, Now

(* A call or an expect below which the top level remains.                  *)
LEMMA BelowTop ==
  ASSUME ParserInv, Ready, Head(work) \notin TopLevel,
         UNCHANGED lexVars, verdict' = verdict,
         pos' \in Nat \ {0}, hadError' \in BOOLEAN,
         pos' <= Len(tokens) \/ hadError',
         NEW s \in Seq(Symbols), work' = s \o Tail(work),
         GenericAhead'
  PROVE  ParserInv'
<1>1. /\ LexInv /\ mode = "done" /\ verdict = "none"
      /\ work \in Seq(Symbols) /\ work # <<>>
  BY ReadyFacts
<1>2. Last(work) \in TopLevel
  BY <1>1 DEF ParserInv, Bottom
<1>3. Tail(work) # <<>>
  BY <1>1, <1>2, BottomFacts
<1>4. work' # <<>> /\ Last(work') = Last(work) /\ work' \in Seq(Symbols)
  BY <1>1, <1>3, BottomFacts
<1>5. /\ tokens' = tokens /\ mode' = mode /\ LexInv'
  BY <1>1, LexInvStays DEF lexVars
<1>6. TypeOK'
  BY <1>1, <1>4, <1>5 DEF TypeOK, LexInv
<1>7. Idle' /\ CursorInside' /\ Bottom' /\ WholeRead' /\ AcceptedWhole'
  BY <1>1, <1>2, <1>4, <1>5 DEF Idle, CursorInside, Bottom, WholeRead, AcceptedWhole
<1>8. QED
  BY <1>5, <1>6, <1>7 DEF ParserInv


(* What is on the stack above plain symbols tells which case of the guard  *)
(* holds.                                                                  *)
LEMMA AheadCases ==
  ASSUME ParserInv, Ready
  PROVE  \/ work \in Seq(Plain)
         \/ \E rest \in Seq(Plain) :
              /\ Head(work) = "GenericName" /\ Tail(work) = rest
              /\ BracketAhead(pos)
         \/ \E rest \in Seq(Plain) :
              /\ Head(work) \in {"IDENT", "Self"} /\ Now = Head(work)
              /\ Tail(work) = <<"GenericName">> \o rest
              /\ BracketAhead(pos + 1)
<1>1. "GenericName" \in Symbols /\ {"IDENT", "Self"} \subseteq Symbols
  BY DEF Symbols, Rules, Kinds, Keywords
<1>2. \A rest \in Seq(Plain) : rest \in Seq(Symbols)
  BY SymbolFacts, SeqMonotonic
<1>3. ASSUME NEW rest \in Seq(Plain), work = <<"GenericName">> \o rest, BracketAhead(pos)
      PROVE  Head(work) = "GenericName" /\ Tail(work) = rest
  BY <1>1, <1>2, <1>3, InFront
<1>4. ASSUME NEW rest \in Seq(Plain), NEW word \in {"IDENT", "Self"},
             work = <<word>> \o (<<"GenericName">> \o rest)
      PROVE  Head(work) = word /\ Tail(work) = <<"GenericName">> \o rest
  <2> DEFINE r == <<"GenericName">> \o rest
  <2>1. r \in Seq(Symbols)
    BY <1>1, <1>2, InFront
  <2>2. work = <<word>> \o r /\ word \in Symbols
    BY <1>1, <1>4
  <2> HIDE DEF r
  <2>3. Head(work) = word /\ Tail(work) = r
    BY <2>1, <2>2, InFront
  <2>4. QED
    BY <2>3 DEF r
<1>5. GenericAhead
  BY DEF ParserInv
<1>6. CASE work \in Seq(Plain)
  BY <1>6
<1>7. CASE \E rest \in Seq(Plain) : work = <<"GenericName">> \o rest /\ BracketAhead(pos)
  <2>1. PICK rest \in Seq(Plain) : work = <<"GenericName">> \o rest /\ BracketAhead(pos)
    BY <1>7
  <2>2. Head(work) = "GenericName" /\ Tail(work) = rest
    BY <1>3, <2>1
  <2>3. QED
    BY <2>1, <2>2
<1>8. CASE \E rest \in Seq(Plain), word \in {"IDENT", "Self"} :
             /\ work = <<word>> \o (<<"GenericName">> \o rest)
             /\ Now = word
             /\ BracketAhead(pos + 1)
  <2>1. PICK rest \in Seq(Plain), word \in {"IDENT", "Self"} :
             /\ work = <<word>> \o (<<"GenericName">> \o rest)
             /\ Now = word
             /\ BracketAhead(pos + 1)
    BY <1>8
  <2>2. Head(work) = word /\ Tail(work) = <<"GenericName">> \o rest
    BY <1>4, <2>1
  <2>3. QED
    BY <2>1, <2>2
<1>9. QED
  BY <1>5, <1>6, <1>7, <1>8 DEF GenericAhead

(* With an ordinary symbol on top, nothing blind is on the stack.          *)
LEMMA PlainStack ==
  ASSUME ParserInv, Ready, Head(work) \notin {"GenericName", "IDENT", "Self"}
  PROVE  work \in Seq(Plain) /\ Tail(work) \in Seq(Plain)
<1>1. work \in Seq(Plain)
  BY AheadCases
<1>2. QED
  BY <1>1, HeadTailProperties DEF Ready

(* Calls.                                                                  *)
LEMMA ExpandingStep ==
  ASSUME ParserInv, Expanding
  PROVE  ParserInv'
<1>1. Ready /\ Head(work) \in Ordinary
  BY DEF Expanding
<1>2. PICK s \in Seq(Plain) : Calls(s)
  BY DEF Expanding
<1>3. /\ work' = s \o Tail(work) /\ pos' = pos /\ hadError' = hadError /\ verdict' = verdict
      /\ UNCHANGED lexVars
  BY <1>2 DEF Calls
<1>4. Head(work) \notin TopLevel \cup {"GenericName", "IDENT", "Self"}
  <2>1. {"IDENT", "Self"} \subseteq Kinds
    BY DEF Kinds, Keywords
  <2>2. QED
    BY <1>1, <2>1 DEF Ordinary
<1>5. s \in Seq(Symbols)
  BY SymbolFacts, SeqMonotonic
<1>6. work' \in Seq(Plain)
  BY <1>1, <1>3, <1>4, PlainStack, ConcatProperties
<1>7. GenericAhead'
  BY <1>6 DEF GenericAhead
<1>8. pos' \in Nat \ {0} /\ hadError' \in BOOLEAN /\ (pos' <= Len(tokens) \/ hadError')
  BY <1>1, <1>3, ReadyFacts DEF Ready
<1>9. QED
  BY <1>1, <1>3, <1>4, <1>5, <1>7, <1>8, BelowTop

(* A generic literal announced: its bracket stays ahead of the cursor.     *)
LEMMA AnnouncingStep ==
  ASSUME ParserInv, Announcing
  PROVE  ParserInv'
<1> DEFINE back == <<"Values", "}">>
           tail == back \o Tail(work)
           s == <<Now, "GenericName", "Values", "}">>
<1>1. /\ Ready /\ Head(work) \in Ordinary /\ Now \in {"IDENT", "Self"}
      /\ BracketAhead(pos + 1)
      /\ work' = s \o Tail(work) /\ pos' = pos /\ hadError' = hadError /\ verdict' = verdict
      /\ UNCHANGED lexVars
  BY DEF Announcing, Calls
<1>2. Head(work) \notin TopLevel \cup {"GenericName", "IDENT", "Self"}
  <2>1. {"IDENT", "Self"} \subseteq Kinds
    BY DEF Kinds, Keywords
  <2>2. QED
    BY <1>1, <2>1 DEF Ordinary
<1>3. Tail(work) \in Seq(Plain) /\ Tail(work) \in Seq(Symbols)
  <2>1. Tail(work) \in Seq(Plain)
    BY <1>1, <1>2, PlainStack
  <2>2. QED
    BY <2>1, SymbolFacts, SeqMonotonic
<1>4. {"GenericName", "IDENT", "Self", "Values", "}"} \subseteq Symbols
  BY DEF Symbols, Rules, Kinds, Keywords, OneChar, Items
<1>5. s \in Seq(Symbols)
  BY <1>1, <1>4, Tuples
<1>6. back \in Seq(Plain) /\ back \in Seq(Symbols)
  <2>1. "Values" \in Plain /\ "}" \in Plain
    BY PlainMembers DEF Items, OneChar
  <2>2. QED
    BY <1>4, <2>1, Tuples
<1>7. tail \in Seq(Plain)
  BY <1>3, <1>6, ConcatProperties
<1>8. work' = <<Now>> \o (<<"GenericName">> \o tail)
  <2>1. ASSUME NEW a, a = Now, NEW b, b = "GenericName", NEW c, c = "Values", NEW d, d = "}"
        PROVE  <<a, b, c, d>> \o Tail(work) = <<a>> \o (<<b>> \o (<<c, d>> \o Tail(work)))
    <3> DEFINE u == <<a>>
               v == <<b>>
               w == <<c, d>>
               vw == <<b, c, d>>
               uvw == <<a, b, c, d>>
               t == Tail(work)
    <3>1. a \in Symbols /\ b \in Symbols /\ c \in Symbols /\ d \in Symbols /\ t \in Seq(Symbols)
      BY <1>1, <1>3, <1>4, <2>1
    <3>2. u \in Seq(Symbols) /\ v \in Seq(Symbols) /\ w \in Seq(Symbols) /\ vw \in Seq(Symbols)
      BY ONLY <3>1, Tuples
    <3>3. vw = v \o w
      BY ONLY <3>1
    <3>4. uvw = u \o vw
      BY ONLY <3>1
    <3> HIDE DEF u, v, w, vw, uvw, t
    <3>5. (u \o vw) \o t = u \o (vw \o t)
      BY ONLY <3>1, <3>2, ConcatAssociative
    <3>6. (v \o w) \o t = v \o (w \o t)
      BY ONLY <3>1, <3>2, ConcatAssociative
    <3>7. uvw \o t = u \o (v \o (w \o t))
      BY ONLY <3>3, <3>4, <3>5, <3>6
    <3>8. QED
      BY ONLY <3>7 DEF u, v, w, uvw, t
  <2>2. QED
    BY <1>1, <2>1
<1> HIDE DEF tail, back
<1>9. GenericAhead'
  <2>1. tokens' = tokens
    BY <1>1 DEF lexVars
  <2>2. BracketAhead(pos + 1)' /\ Now' = Now
    <3> DEFINE i == pos + 1
    <3>1. BracketAhead(i)' /\ i' = i
      BY <1>1, <2>1, AheadStays
    <3>2. Now' = Now
      BY <1>1, <2>1 DEF Now, Kind
    <3>3. QED
      BY <3>1, <3>2
  <2>3. QED
    BY <1>1, <1>7, <1>8, <2>2 DEF GenericAhead
<1>10. pos' \in Nat \ {0} /\ hadError' \in BOOLEAN /\ (pos' <= Len(tokens) \/ hadError')
  BY <1>1, ReadyFacts DEF Ready
<1> HIDE DEF s
<1>11. QED
  BY <1>1, <1>2, <1>5, <1>9, <1>10, BelowTop


(* An expect takes the token at the cursor, but never the end marker.      *)
LEMMA ExpectStep ==
  ASSUME ParserInv, Expect
  PROVE  ParserInv'
<1>1. /\ Ready /\ Head(work) \in Kinds
      /\ hadError' = (hadError \/ Now # Head(work))
      /\ pos' = AfterExpect
      /\ work' = Tail(work) /\ verdict' = verdict
      /\ UNCHANGED lexVars
  BY DEF Expect
<1>2. /\ LexInv /\ mode = "done" /\ pos \in Nat \ {0} /\ pos \in DOMAIN tokens
      /\ work \in Seq(Symbols) /\ work # <<>> /\ Kind(pos) = Now
  BY <1>1, ReadyFacts
<1>3. Head(work) \notin TopLevel \cup {"GenericName"}
  <2>1. TopLevel \cup {"GenericName"} \subseteq Rules
    BY DEF TopLevel, Rules
  <2>2. QED
    BY <1>1, <2>1, SymbolFacts
<1>4. /\ pos' \in DOMAIN tokens /\ pos' \in Nat \ {0}
      /\ Now # "EOF" => pos' = pos + 1
  <2>1. CASE Now = "EOF"
    BY <1>1, <1>2, <2>1 DEF AfterExpect
  <2>2. CASE Now # "EOF"
    <3>1. pos' = pos + 1
      BY <1>1, <2>2 DEF AfterExpect
    <3>2. pos + 1 \in DOMAIN tokens
      BY <1>2, <2>2, GoesOn
    <3>3. pos + 1 \in Nat \ {0}
      BY <1>2
    <3>4. QED
      BY <3>1, <3>2, <3>3
  <2>3. QED
    BY <2>1, <2>2
<1>5. pos' <= Len(tokens)
  BY <1>2, <1>4, EndFacts
<1>6. hadError' \in BOOLEAN
  BY <1>1, Zenon
<1>7. GenericAhead'
  <2>1. tokens' = tokens
    BY <1>1 DEF lexVars
  <2>2. CASE work \in Seq(Plain)
    <3>1. Tail(work) \in Seq(Plain)
      BY <1>2, <2>2, HeadTailProperties
    <3>2. QED
      BY <1>1, <3>1 DEF GenericAhead
  <2>3. CASE \E rest \in Seq(Plain) :
               /\ Head(work) \in {"IDENT", "Self"} /\ Now = Head(work)
               /\ Tail(work) = <<"GenericName">> \o rest
               /\ BracketAhead(pos + 1)
    <3>1. PICK rest \in Seq(Plain) :
               /\ Head(work) \in {"IDENT", "Self"} /\ Now = Head(work)
               /\ Tail(work) = <<"GenericName">> \o rest
               /\ BracketAhead(pos + 1)
      BY <2>3
    <3>2. pos' = pos + 1
      BY <1>4, <3>1
    <3> DEFINE i == pos + 1
    <3>3. BracketAhead(i)
      BY <3>1
    <3> HIDE DEF i
    <3>4. pos' = i
      BY <3>2 DEF i
    <3>5. BracketAhead(pos')
      BY <3>3, <3>4
    <3>6. BracketAhead(pos)'
      BY <2>1, <3>5, AheadStays
    <3>7. QED
      BY <1>1, <3>1, <3>6 DEF GenericAhead
  <2>4. QED
    BY <1>1, <1>3, <2>2, <2>3, AheadCases
<1>8. <<>> \in Seq(Symbols) /\ work' = <<>> \o Tail(work)
  BY <1>1, <1>2, EmptySeq, HeadTailProperties, ConcatEmptySeq
<1>9. QED
  BY <1>1, <1>3, <1>4, <1>5, <1>6, <1>7, <1>8, BelowTop

(* A step that only pops: over plain symbols, to a place in the list or    *)
(* with an error.                                                          *)
LEMMA PopStep ==
  ASSUME ParserInv, Ready, Head(work) \in Rules, Head(work) \notin TopLevel,
         UNCHANGED lexVars, verdict' = verdict, work' = Tail(work),
         Tail(work) \in Seq(Plain),
         pos' \in Nat \ {0}, hadError' \in BOOLEAN,
         pos' <= Len(tokens) \/ hadError'
  PROVE  ParserInv'
<1>1. work \in Seq(Symbols) /\ work # <<>>
  BY ReadyFacts
<1>2. <<>> \in Seq(Symbols) /\ work' = <<>> \o Tail(work)
  BY <1>1, EmptySeq, HeadTailProperties, ConcatEmptySeq
<1>3. GenericAhead'
  BY DEF GenericAhead
<1>4. QED
  BY <1>2, <1>3, BelowTop

(* The blind advances.                                                     *)
LEMMA BlindStep ==
  ASSUME ParserInv, Unexpected \/ TypeArgs \/ GenericName
  PROVE  ParserInv'
<1>1. Ready
  BY DEF Unexpected, TypeArgs, GenericName
<1>2. /\ LexInv /\ mode = "done" /\ pos \in Nat \ {0} /\ pos \in DOMAIN tokens
      /\ hadError \in BOOLEAN /\ Kind(pos) = Now
      /\ Len(tokens) \in Nat \ {0} /\ pos <= Len(tokens)
  BY <1>1, ReadyFacts, EndFacts
<1>3. CASE Unexpected
  <2>1. /\ Head(work) = "Error" /\ hadError' = TRUE /\ pos' = pos + 1 /\ work' = Tail(work)
        /\ verdict' = verdict /\ UNCHANGED lexVars
    BY <1>3 DEF Unexpected, AfterUnexpected
  <2>2. "Error" \in Rules /\ "Error" \notin TopLevel
    BY DEF Rules, TopLevel
  <2>3. Tail(work) \in Seq(Plain)
    BY <1>1, <2>1, PlainStack
  <2>4. pos + 1 \in Nat \ {0} /\ TRUE \in BOOLEAN
    BY <1>2
  <2>5. QED
    BY <1>1, <2>1, <2>2, <2>3, <2>4, PopStep
<1>4. CASE TypeArgs
  <2>1. /\ Head(work) = "TypeArgs" /\ hadError' = hadError /\ work' = Tail(work)
        /\ pos' = IF Now = "[" THEN Behind(pos) ELSE pos
        /\ verdict' = verdict /\ UNCHANGED lexVars
    BY <1>4 DEF TypeArgs
  <2>2. "TypeArgs" \in Rules /\ "TypeArgs" \notin TopLevel
    BY DEF Rules, TopLevel
  <2>3. Tail(work) \in Seq(Plain)
    BY <1>1, <2>1, PlainStack
  <2>4. Now = "[" => Behind(pos) \in (pos + 1) .. Len(tokens)
    BY <1>2, BehindFacts
  <2>5. pos' \in Nat \ {0} /\ pos' <= Len(tokens)
    BY <1>2, <2>1, <2>4
  <2>6. QED
    BY <1>1, <1>2, <2>1, <2>2, <2>3, <2>5, PopStep
<1>5. CASE GenericName
  <2>1. /\ Head(work) = "GenericName" /\ hadError' = hadError /\ work' = Tail(work)
        /\ pos' = FirstClose(pos) + 2
        /\ verdict' = verdict /\ UNCHANGED lexVars
    BY <1>5 DEF GenericName, FirstClose
  <2>2. "GenericName" \in Rules /\ "GenericName" \notin TopLevel
    BY DEF Rules, TopLevel
  <2>3. Tail(work) \in Seq(Plain) /\ BracketAhead(pos)
    <3>1. work \notin Seq(Plain)
      <4>1. work # <<>> /\ Head(work) \notin Plain
        BY <1>1, <2>1 DEF Plain, Ready
      <4>2. QED
        BY <4>1, HeadTailProperties
    <3>2. QED
      BY <1>1, <2>1, <3>1, AheadCases
  <2>4. FirstClose(pos) \in pos .. Len(tokens) /\ FirstClose(pos) + 2 <= Len(tokens)
    BY <1>2, <2>3, CloseFacts
  <2>5. pos' \in Nat \ {0} /\ pos' <= Len(tokens)
    BY <1>2, <2>1, <2>4
  <2>6. QED
    BY <1>1, <1>2, <2>1, <2>2, <2>3, <2>5, PopStep
<1>6. QED
  BY <1>3, <1>4, <1>5


(* The steps of the top level.                                             *)
LEMMA TopLevelStep ==
  ASSUME ParserInv, TopStep
  PROVE  ParserInv'
<1>1. Ready /\ Head(work) \in TopLevel
  BY DEF TopStep
<1>2. PICK s \in Seq(Plain) :
        /\ Calls(s)
        /\ IF s = <<>> THEN Now = "EOF" ELSE s[Len(s)] \in TopLevel
  BY DEF TopStep
<1>3. /\ work' = s \o Tail(work) /\ pos' = pos /\ hadError' = hadError /\ verdict' = verdict
      /\ UNCHANGED lexVars
  BY <1>2 DEF Calls
<1>4. /\ LexInv /\ mode = "done" /\ verdict = "none"
      /\ pos \in Nat \ {0} /\ pos \in DOMAIN tokens
      /\ work \in Seq(Symbols) /\ work # <<>> /\ hadError \in BOOLEAN
  BY <1>1, ReadyFacts
<1>5. s \in Seq(Symbols)
  BY SymbolFacts, SeqMonotonic
<1>6. work' \in Seq(Symbols)
  BY <1>3, <1>4, <1>5, BottomFacts
<1>7. tokens' = tokens /\ mode' = mode /\ LexInv'
  BY <1>3, <1>4, LexInvStays DEF lexVars
<1>8. TypeOK'
  BY <1>3, <1>4, <1>6, <1>7 DEF TypeOK, LexInv
<1>9. work' \in Seq(Plain)
  <2>1. Head(work) \notin {"GenericName", "IDENT", "Self"}
    BY <1>1 DEF TopLevel
  <2>2. QED
    BY <1>1, <1>3, <2>1, PlainStack, ConcatProperties
<1>10. Bottom' /\ WholeRead'
  <2>1. Last(work) \in TopLevel
    BY <1>4 DEF ParserInv, Bottom
  <2>2. CASE Tail(work) # <<>>
    <3>1. work' # <<>> /\ Last(work') = Last(work)
      BY <1>3, <1>4, <1>5, <2>2, BottomFacts
    <3>2. QED
      BY <2>1, <3>1 DEF Bottom, WholeRead
  <2>3. CASE Tail(work) = <<>>
    <3>1. work' = s
      BY <1>3, <1>4, <1>5, <2>3, BottomFacts
    <3>2. CASE s = <<>>
      <4>1. Now' = Now
        BY <1>3, <1>7 DEF Now, Kind
      <4>2. QED
        BY <1>2, <1>3, <1>4, <1>7, <3>1, <3>2, <4>1 DEF Bottom, WholeRead
    <3>3. CASE s # <<>>
      BY <1>2, <3>1, <3>3 DEF Bottom, WholeRead, Last
    <3>4. QED
      BY <3>2, <3>3
  <2>4. QED
    BY <2>2, <2>3
<1>11. Idle' /\ CursorInside' /\ GenericAhead' /\ AcceptedWhole'
  <2>1. pos <= Len(tokens)
    BY <1>1 DEF Ready
  <2>2. QED
    BY <1>3, <1>4, <1>7, <1>9, <2>1
       DEF Idle, CursorInside, GenericAhead, AcceptedWhole
<1>12. QED
  BY <1>7, <1>8, <1>10, <1>11 DEF ParserInv

(* The end: parser_parse returns with nothing left to do, or has left the  *)
(* list, which it does only after an error.                                *)
LEMMA EndOfParse ==
  ASSUME ParserInv, Return \/ Overrun
  PROVE  ParserInv'
<1>1. /\ mode = "done" /\ verdict = "none" /\ UNCHANGED lexVars
      /\ pos' = pos /\ hadError' = hadError
  BY DEF Return, Overrun
<1>2. /\ LexInv /\ TypeOK /\ CursorInside /\ WholeRead /\ hadError \in BOOLEAN
      /\ pos \in Nat \ {0}
  BY DEF ParserInv, TypeOK
<1>3. tokens' = tokens /\ mode' = mode /\ LexInv'
  BY <1>1, <1>2, LexInvStays DEF lexVars
<1>4. Len(tokens) \in Nat
  BY <1>1, <1>2, EndFacts
<1>5. /\ work' = <<>>
      /\ verdict' \in {"accepted", "rejected", "crashed"}
      /\ verdict' = "accepted" => pos = Len(tokens) /\ Now = "EOF"
  <2>1. CASE Return
    <3>1. work = <<>> /\ work' = work /\ verdict' \in {"accepted", "rejected"}
      BY <2>1 DEF Return
    <3>2. pos \in DOMAIN tokens /\ Now = "EOF"
      BY <1>1, <1>2, <3>1 DEF WholeRead
    <3>3. pos = Len(tokens)
      BY <1>1, <1>2, <3>2, EndFacts DEF Now
    <3>4. QED
      BY <3>1, <3>2, <3>3
  <2>2. CASE Overrun
    <3>1. pos > Len(tokens) /\ work' = <<>>
      BY <2>2 DEF Overrun
    <3>2. hadError
      <4>1. ~(pos <= Len(tokens))
        BY <1>2, <1>4, <3>1
      <4>2. QED
        BY <1>1, <1>2, <4>1 DEF CursorInside
    <3>3. verdict' \in {"crashed", "rejected"}
      BY <2>2, <3>2 DEF Overrun
    <3>4. QED
      BY <3>1, <3>3
  <2>3. QED
    BY <2>1, <2>2
<1>6. TypeOK'
  <2>1. work' \in Seq(Symbols)
    BY <1>5, EmptySeq
  <2>2. QED
    BY <1>1, <1>2, <1>3, <1>5, <2>1 DEF TypeOK, LexInv
<1>7. GenericAhead'
  <2>1. work' \in Seq(Plain)
    BY <1>5, EmptySeq
  <2>2. QED
    BY <2>1 DEF GenericAhead
<1>8. Idle' /\ CursorInside' /\ Bottom' /\ WholeRead'
  BY <1>1, <1>2, <1>3, <1>5 DEF Idle, CursorInside, Bottom, WholeRead
<1>9. AcceptedWhole'
  <2>1. Now' = Now
    BY <1>1, <1>3 DEF Now, Kind
  <2>2. QED
    BY <1>1, <1>3, <1>5, <2>1 DEF AcceptedWhole
<1>10. QED
  BY <1>3, <1>6, <1>7, <1>8, <1>9 DEF ParserInv

(* A step of the parser keeps the invariant.                               *)
LEMMA ParsePart ==
  ASSUME ParserInv, ParseNext
  PROVE  ParserInv'
<1>1. TypeOKLex /\ pos \in Nat \ {0}
  BY DEF ParserInv, TypeOK
<1>2. CASE Expect
  BY <1>2, ExpectStep
<1>3. CASE Unexpected \/ TypeArgs \/ GenericName
  BY <1>3, BlindStep
<1>4. CASE Match \/ Loop \/ More
  BY <1>1, <1>4, LoopRules, ExpandingStep
<1>5. CASE ParsePath \/ ParseType \/ ParsePattern
  BY <1>1, <1>5, TypeRules, ExpandingStep
<1>6. CASE ParsePrimary
  BY <1>1, <1>6, PrimaryRules, ExpandingStep, AnnouncingStep
<1>7. CASE ParsePostfix \/ ParseUnary \/ Operators \/ ParseAssign
  BY <1>1, <1>7, ExprRules, ExpandingStep
<1>8. CASE ParseBlock \/ ParseBinding \/ ParseStmt \/ ParseElse \/ ParseFor
  BY <1>1, <1>8, StmtRules, ExpandingStep
<1>9. CASE ParseParams \/ ParseTypeParams \/ ParseFnDecl \/ ParseDecl
  BY <1>1, <1>9, DeclRules, ExpandingStep
<1>10. CASE ParseDeclParts \/ ParseUiElement
  BY <1>1, <1>10, PartRules, ExpandingStep
<1>11. CASE ParseProgram
  BY <1>1, <1>11, TopRules, TopLevelStep
<1>12. CASE Return \/ Overrun
  BY <1>12, EndOfParse
<1>13. QED
  BY <1>2, <1>3, <1>4, <1>5, <1>6, <1>7, <1>8, <1>9, <1>10, <1>11, <1>12 DEF ParseNext

(* Nothing changes: the invariant stays.                                   *)
LEMMA ParserStutters ==
  ASSUME ParserInv, UNCHANGED vars
  PROVE  ParserInv'
<1>1. /\ UNCHANGED lexVars
      /\ pos' = pos /\ work' = work /\ hadError' = hadError /\ verdict' = verdict
      /\ tokens' = tokens /\ mode' = mode
  BY DEF vars, lexVars
<1>2. LexInv'
  BY <1>1, LexInvStays DEF ParserInv
<1>3. TypeOK' /\ Idle' /\ CursorInside' /\ Bottom'
  BY <1>1, <1>2 DEF ParserInv, TypeOK, LexInv, Idle, CursorInside, Bottom
<1>4. Now' = Now
  BY <1>1 DEF Now, Kind
<1>5. WholeRead' /\ AcceptedWhole'
  BY <1>1, <1>4 DEF ParserInv, WholeRead, AcceptedWhole
<1>6. GenericAhead'
  <2>1. GenericAhead
    BY DEF ParserInv
  <2> DEFINE i == pos + 1
  <2>2. \A j : BracketAhead(j) => BracketAhead(j)'
    BY <1>1, AheadStays
  <2>3. BracketAhead(pos) => BracketAhead(pos)'
    BY <1>1, <2>2
  <2>4. BracketAhead(pos + 1) => BracketAhead(pos + 1)'
    BY <1>1, <2>2
  <2>5. QED
    BY <1>1, <1>4, <2>1, <2>3, <2>4 DEF GenericAhead
<1>7. QED
  BY <1>2, <1>3, <1>5, <1>6 DEF ParserInv

(***************************************************************************)
(* The theorems.                                                           *)
(***************************************************************************)

(* The invariant holds in every reachable state, for every set of texts.   *)
THEOREM FrontEndInvariant ==
  Spec => []ParserInv
<1>1. Init => ParserInv
  BY ParserInvInit
<1>2. ParserInv /\ [Next]_vars => ParserInv'
  <2> SUFFICES ASSUME ParserInv, [Next]_vars
               PROVE  ParserInv'
    OBVIOUS
  <2>1. CASE LexNext /\ UNCHANGED parseVars
    BY <2>1, LexPart
  <2>2. CASE ParseNext
    BY <2>2, ParsePart
  <2>3. CASE UNCHANGED vars
    BY <2>3, ParserStutters
  <2>4. QED
    BY <2>1, <2>2, <2>3 DEF Next
<1>3. QED
  BY <1>1, <1>2, PTL DEF Spec

(* Types: the tokens are tokens, and the stack of calls holds names of     *)
(* rules and tokens only.                                                  *)
THEOREM FrontEndTypes ==
  Spec => []TypeOK
<1>1. ParserInv => TypeOK
  BY DEF ParserInv
<1>2. QED
  BY <1>1, FrontEndInvariant, PTL

(* lexer_tokenize never reads behind the terminator of the text.           *)
THEOREM LexerReadsInside ==
  Spec => []ReadsInside
<1>1. ParserInv => ReadsInside
  BY DEF ParserInv, LexInv
<1>2. QED
  BY <1>1, FrontEndInvariant, PTL

(* The tokens stand one behind the other, with the starts computed back    *)
(* inside them, and end with the only end marker.                          *)
THEOREM LexerKeepsOrder ==
  Spec => []TokensInOrder
<1>1. ParserInv => TokensInOrder
  BY DEF ParserInv, LexInv
<1>2. QED
  BY <1>1, FrontEndInvariant, PTL

(* A token is as long as it can be: no token of two characters and no word *)
(* is cut in two.                                                          *)
THEOREM LexerMunchesAll ==
  Spec => []MaximalMunch
<1>1. ParserInv => MaximalMunch
  BY MunchFollows DEF ParserInv
<1>2. QED
  BY <1>1, FrontEndInvariant, PTL

(* Before its first error the parser never leaves the token list, whatever *)
(* its blind advances skip.                                                *)
THEOREM ParserStaysInside ==
  Spec => []CursorInside
<1>1. ParserInv => CursorInside
  BY DEF ParserInv
<1>2. QED
  BY <1>1, FrontEndInvariant, PTL

(* What parser_parse accepts it has read to the end marker.                *)
THEOREM AcceptedIsRead ==
  Spec => []AcceptedWhole
<1>1. ParserInv => AcceptedWhole
  BY DEF ParserInv
<1>2. QED
  BY <1>1, FrontEndInvariant, PTL

=============================================================================
