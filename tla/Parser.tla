------------------------------- MODULE Parser -------------------------------
(***************************************************************************)
(* parser_parse over the tokens of Lexer: recursive descent as a machine   *)
(* with a stack.  `work' is what the active calls still have to do: the    *)
(* kind of a token for an expect, another name for a call.  A rule lists   *)
(* the tokens it consumes itself too: an expect of the token at the cursor *)
(* is a match.  The tree is left out, and with it the levels of the binary *)
(* operators, which consume the same tokens as one loop over all of them.  *)
(***************************************************************************)
EXTENDS Lexer, FiniteSets, SequencesExt

VARIABLES
  pos,       (* p->pos + 1                                                  *)
  work,      (* the rest of the calls under way, innermost first            *)
  hadError,  (* p->had_error                                                *)
  verdict    (* none while parsing; accepted, rejected, or crashed          *)

parseVars == <<pos, work, hadError, verdict>>
vars == <<text, at, mode, depth, first, blen, tokens, pos, work, hadError, verdict>>

Kind(i) == IF i \in DOMAIN tokens THEN tokens[i].kind ELSE "none"
Now == Kind(pos)

(* cur_ident_is: the word of the identifier at the cursor.                 *)
Word == IF Now = "IDENT" /\ tokens[pos].first = tokens[pos].last
        THEN text[tokens[pos].first] ELSE ""

Ready == mode = "done" /\ verdict = "none" /\ work # <<>> /\ pos <= Len(tokens)

Calls(symbols) ==
  /\ work' = symbols \o Tail(work)
  /\ UNCHANGED <<lexVars, pos, hadError, verdict>>

Rule(name, symbols) == Ready /\ Head(work) = name /\ Calls(symbols)

(***************************************************************************)
(* The cursor.                                                             *)
(***************************************************************************)
(* expect: a token that does not fit is an error and skipped, but not EOF. *)
AfterExpect == IF Now = "EOF" THEN pos ELSE pos + 1

Expect ==
  /\ Ready
  /\ Head(work) \in Kinds
  /\ hadError' = (hadError \/ Now # Head(work))
  /\ pos' = AfterExpect
  /\ work' = Tail(work)
  /\ UNCHANGED <<lexVars, verdict>>

(* What parse_primary, parse_decl and others do with a token they do not   *)
(* know: report it and go on behind it, whatever it is.                    *)
AfterUnexpectedStay == pos
AfterUnexpected == pos + 1

Unexpected ==
  /\ Ready
  /\ Head(work) = "Error"
  /\ hadError' = TRUE
  /\ pos' = AfterUnexpected
  /\ work' = Tail(work)
  /\ UNCHANGED <<lexVars, verdict>>

(* match: a token that may stand here or not.                              *)
Options ==
  [name \in {"Const?", "Pub?", "Comma?", "Int?", "String?", "Null?"} |->
     CASE name = "Const?" -> "const"
       [] name = "Pub?" -> "pub"
       [] name = "Comma?" -> ","
       [] name = "Int?" -> "INT"
       [] name = "String?" -> "STRING"
       [] name = "Null?" -> "?"]

Match ==
  /\ Ready
  /\ Head(work) \in DOMAIN Options
  /\ Calls(IF Now = Options[Head(work)] THEN <<Now>> ELSE <<>>)

(* The loops `while (!check(stop) && !check(EOF))' over the items of a     *)
(* block or a body.                                                        *)
Items ==
  [name \in {"Stmts", "Arms", "Values", "Fields", "Methods", "Signatures", "Consts",
             "Variants", "VariantFields", "Elements", "Members", "KernelFns"} |->
     CASE name = "Stmts" -> <<"Stmt">>
       [] name = "Arms" -> <<"Pattern", "=>", "Expr", "Comma?">>
       [] name = "Values" -> <<"IDENT", ":", "Expr", "Comma?">>
       [] name = "Fields" -> <<"IDENT", ":", "Type", ";">>
       [] name = "Methods" -> <<"Pub?", "fn", "FnDecl">>
       [] name = "Signatures" -> <<"Pub?", "fn", "IDENT", "Params", "->", "Type", ";">>
       [] name = "Consts" -> <<"Pub?", "ComptimeConst">>
       [] name = "Variants" -> <<"IDENT", "Payload", ";">>
       [] name = "VariantFields" -> <<"IDENT", ":", "Type", "Comma?">>
       [] name = "Elements" -> <<"Element">>
       [] name = "Members" -> <<"Member">>
       [] name = "KernelFns" -> <<"Pub?", "KernelFn">>]

Stop(name) == IF name = "VariantFields" THEN ")" ELSE "}"

Loop ==
  /\ Ready
  /\ Head(work) \in DOMAIN Items
  /\ Calls(IF Now \in {Stop(Head(work)), "EOF"} THEN <<>>
           ELSE Append(Items[Head(work)], Head(work)))

(* do ... while (match(TOK_COMMA)).                                        *)
Listed ==
  [name \in {"MoreArgs", "MoreParams", "MoreTypeParams"} |->
     CASE name = "MoreArgs" -> "Expr"
       [] name = "MoreParams" -> "Param"
       [] name = "MoreTypeParams" -> "IDENT"]

More ==
  /\ Ready
  /\ Head(work) \in DOMAIN Listed
  /\ Calls(IF Now = "," THEN <<",", Listed[Head(work)], Head(work)>> ELSE <<>>)

(***************************************************************************)
(* Paths and types.                                                        *)
(***************************************************************************)
PathWordsOnlyNames == {"IDENT"}
PathWords == {"IDENT", "kernel", "native", "ui", "android", "driver", "app", "module"}

ParsePath ==
  \/ Rule("PathName", IF Now \in PathWords THEN <<Now>> ELSE <<"IDENT">>)
  \/ Rule("Dots", IF Now = "." THEN <<".", "PathName", "Dots">> ELSE <<>>)

ParseType ==
  \/ Rule("Type", <<"Null?", "PlainType">>)
  \/ Rule("PlainType",
       CASE Now = "*" -> <<"*", "Const?", "Type">>
         [] Now = "[" -> <<"[", "Int?", "]", "Type">>
         [] Now = "Self" -> <<"Self", "Dots", "TypeArgs">>
         [] OTHER -> <<"PathName", "Dots", "TypeArgs">>)

(* How many square brackets opened since i are open behind j.              *)
Opened(i, j) ==
  Cardinality({k \in i..j : Kind(k) = "["}) - Cardinality({k \in i..j : Kind(k) = "]"})

BehindBlind(i) ==
  CHOOSE j \in (i + 1)..(Len(tokens) + 1) :
    /\ Opened(i, j - 1) = 0 \/ j > Len(tokens)
    /\ \A k \in (i + 1)..(j - 1) : Opened(i, k - 1) # 0
BehindFirst(i) ==
  CHOOSE j \in (i + 1)..Len(tokens) :
    /\ Kind(j - 1) = "]" \/ Kind(j) = "EOF"
    /\ \A k \in (i + 1)..(j - 1) : Kind(k - 1) # "]"

(* The position behind the bracket that closes the one at i, or of EOF.    *)
Behind(i) ==
  CHOOSE j \in (i + 1)..Len(tokens) :
    /\ Opened(i, j - 1) = 0 \/ Kind(j) = "EOF"
    /\ \A k \in (i + 1)..(j - 1) : Opened(i, k - 1) # 0

(* Type arguments are copied token by token, whatever they are.            *)
TypeArgs ==
  /\ Ready
  /\ Head(work) = "TypeArgs"
  /\ pos' = IF Now = "[" THEN Behind(pos) ELSE pos
  /\ work' = Tail(work)
  /\ UNCHANGED <<lexVars, hadError, verdict>>

(***************************************************************************)
(* Expressions.                                                            *)
(***************************************************************************)
LooksLikeFields(i) ==
  /\ Kind(i) = "{"
  /\ \/ Kind(i + 1) = "}"
     \/ Kind(i + 1) = "IDENT" /\ Kind(i + 2) = ":"

MatchExpr == <<"match", "Expr", "{", "Arms", "}">>

ParsePattern ==
  \/ Rule("Pattern",
       CASE Now = "_" -> <<"_">>
         [] Now = "IDENT" /\ Kind(pos + 1) = "." -> <<"IDENT", ".", "IDENT", "Bindings">>
         [] OTHER -> <<"IDENT", "Bindings">>)
  \/ Rule("Bindings", IF Now = "(" THEN <<"(", "Names", ")">> ELSE <<>>)
  \/ Rule("Names", IF Now \in {")", "EOF"} THEN <<>> ELSE <<"IDENT", "MoreNames">>)
  \/ Rule("MoreNames", IF Now = "," THEN <<",", "Names">> ELSE <<>>)

(* `Name[Args] { field: value }': the tokens up to the first closing       *)
(* bracket are the name, and the one behind it is taken for the brace.     *)
GenericName ==
  /\ Ready
  /\ Head(work) = "GenericName"
  /\ LET close == CHOOSE j \in pos..Len(tokens) :
                    /\ Kind(j) = "]"
                    /\ \A k \in pos..(j - 1) : Kind(k) # "]"
     IN  pos' = close + 2
  /\ work' = Tail(work)
  /\ UNCHANGED <<lexVars, hadError, verdict>>

Named(word) ==
  CASE Kind(pos + 1) = "[" /\ LooksLikeFields(Behind(pos + 1)) ->
         <<word, "GenericName", "Values", "}">>
    [] LooksLikeFields(pos + 1) -> <<word, "{", "Values", "}">>
    [] OTHER -> <<word>>

ParsePrimary ==
  Rule("Primary",
    CASE Now \in Literals \cup {"true", "false", "null"} -> <<Now>>
      [] Now = "match" -> MatchExpr
      [] Now = "(" -> <<"(", "Expr", ")">>
      [] Now \in {"IDENT", "Self"} -> Named(Now)
      [] OTHER -> <<"Error">>)

ParsePostfix ==
  \/ Rule("Postfix",
       CASE Now = "(" -> <<"(", "Args", ")", "Postfix">>
         [] Now = "." -> <<".", "IDENT", "Postfix">>
         [] Now = "[" -> <<"[", "Index", "]", "Postfix">>
         [] Now \in {"?", "++", "--"} -> <<Now, "Postfix">>
         [] OTHER -> <<>>)
  \/ Rule("Args", IF Now = ")" THEN <<>> ELSE <<"Expr", "MoreArgs">>)
  \/ Rule("Index", IF Now = ".." THEN <<"..", "SliceEnd">> ELSE <<"Expr", "SliceRest">>)
  \/ Rule("SliceRest", IF Now = ".." THEN <<"..", "SliceEnd">> ELSE <<>>)
  \/ Rule("SliceEnd", IF Now = "]" THEN <<>> ELSE <<"Expr">>)

ParseUnary ==
  Rule("Operand",
    IF Now \in {"!", "-", "*", "&", "~"} THEN <<Now, "Operand">>
    ELSE <<"Primary", "Postfix">>)

BinaryOps ==
  {"*", "/", "%", "+", "-", "<<", ">>", "<", ">", "<=", ">=", "==", "!=",
   "&", "^", "|", "&&", "||"}
AssignOps == {"+=", "-=", "*=", "/=", "%=", "="}

(* parse_cast and the ten levels of parse_binop, then parse_assign.        *)
Operators ==
  Rule("Operators",
    CASE Now = "as" -> <<"as", "Type", "Operators">>
      [] Now \in BinaryOps -> <<Now, "Operand", "Operators">>
      [] OTHER -> <<"Assign">>)

ParseAssign ==
  \/ Rule("Expr", <<"Operand", "Operators">>)
  \/ Rule("Assign", IF Now \in AssignOps THEN <<Now, "Expr">> ELSE <<>>)

(***************************************************************************)
(* Statements.                                                             *)
(***************************************************************************)
ParseBlock == Rule("Block", <<"{", "Stmts", "}">>)

LetBinding == <<"let", "IDENT", "Ascription", "Initial">>
ConstBinding == <<"const", "IDENT", "Ascription", "=", "Expr", ";">>

ParseBinding ==
  \/ Rule("Ascription", IF Now = ":" THEN <<":", "Type">> ELSE <<>>)
  \/ Rule("Initial", IF Now = "=" THEN <<"=", "Expr">> ELSE <<>>)

ParseStmt ==
  Rule("Stmt",
    CASE Now = "let" -> Append(LetBinding, ";")
      [] Now = "const" -> ConstBinding
      [] Now = "return" -> IF Kind(pos + 1) = ";" THEN <<"return", ";">>
                           ELSE <<"return", "Expr", ";">>
      [] Now = "if" -> <<"if", "Expr", "Block", "Else">>
      [] Now = "while" -> <<"while", "Expr", "Block">>
      [] Now = "for" -> <<"for", "ForInit", ";", "ForCond", ";", "ForPost", "Block">>
      [] Now \in {"loop", "unsafe"} -> <<Now, "Block">>
      [] Now \in {"break", "continue"} -> <<Now, ";">>
      [] Now = "defer" -> <<"defer", "Expr", ";">>
      [] OTHER -> <<"Expr", ";">>)

ParseElse ==
  Rule("Else",
    CASE Now # "else" -> <<>>
      [] Kind(pos + 1) = "if" -> <<"else", "Stmt">>
      [] OTHER -> <<"else", "Block">>)

ParseFor ==
  \/ Rule("ForInit",
       CASE Now = ";" -> <<>> [] Now = "let" -> LetBinding [] OTHER -> <<"Expr">>)
  \/ Rule("ForCond", IF Now = ";" THEN <<>> ELSE <<"Expr">>)
  \/ Rule("ForPost", IF Now = "{" THEN <<>> ELSE <<"Expr">>)

(***************************************************************************)
(* Declarations.                                                           *)
(***************************************************************************)
ParseParams ==
  \/ Rule("Params", <<"(", "ParamList", ")">>)
  \/ Rule("ParamList", IF Now = ")" THEN <<>> ELSE <<"Param", "MoreParams">>)
  \/ Rule("Param", <<IF Now = "Self" THEN "Self" ELSE "IDENT", ":", "Type">>)

ParseTypeParams ==
  Rule("TypeParams",
    IF Now = "[" THEN <<"[", "IDENT", "MoreTypeParams", "]">> ELSE <<>>)

ParseFnDecl ==
  Rule("FnDecl", <<"IDENT", "TypeParams", "Params", "->", "Type", "Block">>)

ImplDecl == <<"impl", "IDENT", "Interface", "{", "Methods", "}">>
InterfaceDecl == <<"interface", "IDENT", "{", "Signatures", "}">>
ComptimeDecl == <<"comptime", "{", "Consts", "}">>
PackedDecl == <<"packed", "struct", "IDENT", "TypeParams", "{", "Fields", "}">>
StructDecl == <<"struct", "IDENT", "TypeParams", "{", "Fields", "}">>
EnumDecl == <<"enum", "IDENT", "{", "Variants", "}">>
UnionDecl == <<"union", "IDENT", "{", "Fields", "}">>
ExternDecl == <<"extern", "String?", "fn", "IDENT", "Params", "->", "Type", ";">>
UiDecl == <<"ui", "app", "IDENT", "{", "Elements", "}">>
KernelDecl == <<"kernel", "app", "IDENT", "{", "KernelFns", "}">>

ParseDecl ==
  \/ Rule("Decl", <<"Pub?", "DeclBody">>)
  \/ Rule("DeclBody",
       CASE Now = "const" -> ConstBinding
         [] Now = "impl" -> ImplDecl
         [] Now = "interface" -> InterfaceDecl
         [] Now = "comptime" -> ComptimeDecl
         [] Now = "packed" -> PackedDecl
         [] Now = "struct" -> StructDecl
         [] Now = "enum" -> EnumDecl
         [] Now = "union" -> UnionDecl
         [] Now = "extern" -> ExternDecl
         [] Now = "fn" -> <<"fn", "FnDecl">>
         [] Now = "ui" -> UiDecl
         [] Now = "kernel" -> KernelDecl
         [] OTHER -> <<"Error">>)

ParseDeclParts ==
  \/ Rule("Interface", IF Now = ":" THEN <<":", "IDENT">> ELSE <<>>)
  \/ Rule("ComptimeConst", IF Now = "const" THEN ConstBinding ELSE <<"Error">>)
  \/ Rule("Payload", IF Now = "(" THEN <<"(", "VariantFields", ")">> ELSE <<>>)
  \/ Rule("KernelFn", IF Now = "fn" THEN <<"fn", "FnDecl">> ELSE <<"Error">>)

UiElements ==
  {"window", "button", "label", "input", "row", "column", "canvas", "panel", "menu"}
UiHandlers == {"onClick", "onKey", "onChange"}

ParseUiElement ==
  \/ Rule("Element",
       IF Word \in UiElements THEN <<"IDENT", "Title", "{", "Members", "}">>
       ELSE <<"Error">>)
  \/ Rule("Title", IF Now = "(" THEN <<"(", "String?", ")">> ELSE <<>>)
  \/ Rule("Member",
       CASE Word \in UiHandlers -> <<"IDENT", "Block">>
         [] Word \in UiElements -> <<"Element">>
         [] OTHER -> <<"IDENT", ":", "Expr", ";">>)

(***************************************************************************)
(* parser_parse.                                                           *)
(***************************************************************************)
ParseProgram ==
  \/ Rule("Program",
       IF Now = "package" THEN <<"package", "PathName", "Dots", ";", "Imports">>
       ELSE <<"Imports">>)
  \/ Rule("Imports",
       IF Now = "import" THEN <<"import", "PathName", "Dots", ";", "Imports">>
       ELSE <<"Decls">>)
  \/ Rule("Decls", IF Now = "EOF" THEN <<>> ELSE <<"Decl", "Decls">>)

Return ==
  /\ mode = "done"
  /\ verdict = "none"
  /\ work = <<>>
  /\ verdict' = IF hadError THEN "rejected" ELSE "accepted"
  /\ UNCHANGED <<lexVars, pos, work, hadError>>

(* The cursor has left the list: what the memory behind it holds is taken  *)
(* for tokens.  The parser crashes there or gets to an end of its own, and *)
(* had_error is not taken back.                                            *)
Overrun ==
  /\ mode = "done"
  /\ verdict = "none"
  /\ pos > Len(tokens)
  /\ verdict' \in {"crashed", IF hadError THEN "rejected" ELSE "accepted"}
  /\ work' = <<>>
  /\ UNCHANGED <<lexVars, pos, hadError>>

ParseNext ==
  \/ Expect \/ Unexpected \/ Match \/ Loop \/ More
  \/ ParsePath \/ ParseType \/ TypeArgs
  \/ ParsePattern \/ GenericName \/ ParsePrimary \/ ParsePostfix \/ ParseUnary
  \/ Operators \/ ParseAssign
  \/ ParseBlock \/ ParseBinding \/ ParseStmt \/ ParseElse \/ ParseFor
  \/ ParseParams \/ ParseTypeParams \/ ParseFnDecl
  \/ ParseDecl \/ ParseDeclParts \/ ParseUiElement
  \/ ParseProgram \/ Return \/ Overrun

Init ==
  /\ LexInit
  /\ pos = 1
  /\ work = <<"Program">>
  /\ hadError = FALSE
  /\ verdict = "none"

Next == (LexNext /\ UNCHANGED parseVars) \/ ParseNext

(* lex and parse run to the end in one thread.                             *)
Spec == Init /\ [][Next]_vars /\ WF_vars(Next)

(***************************************************************************)
(* Properties.                                                             *)
(***************************************************************************)
(* The names of the rules that stand on the stack of calls.                *)
Rules ==
  {"Program", "PathName", "Dots", "Imports", "Decls", "Decl", "DeclBody", "Type",
   "PlainType", "TypeArgs", "Pattern", "Bindings", "Names", "MoreNames", "GenericName",
   "Primary", "Postfix", "Args", "Index", "SliceRest", "SliceEnd", "Operand", "Operators",
   "Expr", "Assign", "Block", "Ascription", "Initial", "Stmt", "Else", "ForInit", "ForCond",
   "ForPost", "Params", "ParamList", "Param", "TypeParams", "FnDecl", "Interface",
   "ComptimeConst", "Payload", "KernelFn", "Element", "Title", "Member", "Error"}
Symbols == Kinds \cup Rules \cup DOMAIN Options \cup DOMAIN Items \cup DOMAIN Listed

(* The tokens are tokens, and every call the parser still has to make is   *)
(* one of a rule or of expect with a kind of token.                        *)
TypeOK ==
  /\ TypeOKLex
  /\ pos \in Nat \ {0}
  /\ work \in Seq(Symbols)
  /\ hadError \in BOOLEAN
  /\ verdict \in {"none", "accepted", "rejected", "crashed"}

(* Before the first error the cursor never leaves the list: the blind      *)
(* advances of type arguments, generic literals and the declarations stay  *)
(* before the EOF token.                                                   *)
CursorInside == pos <= Len(tokens) \/ hadError \/ mode # "done"

(* What parser_parse accepts it has read to its end.                       *)
AcceptedWhole == verdict = "accepted" => pos = Len(tokens) /\ Now = "EOF"

(* In what is accepted the brackets nest.  Type arguments are copied as    *)
(* they are, so that round and curly ones inside square ones do not count. *)
Nested(open, kind) ==
  LET top == IF open = <<>> THEN "" ELSE Last(open)
  IN  CASE kind = "[" -> Append(open, "[")
        [] kind = "]" -> IF top = "[" THEN Front(open) ELSE Append(open, "bad")
        [] top \notin {"[", "bad"} /\ kind \in {"(", "{"} -> Append(open, kind)
        [] kind \in {")", "}"} /\ top \notin {"[", "bad"} ->
             IF top = (IF kind = ")" THEN "(" ELSE "{") THEN Front(open)
             ELSE Append(open, "bad")
        [] OTHER -> open

AcceptedNests ==
  verdict = "accepted" => FoldLeft(LAMBDA open, t : Nested(open, t.kind), <<>>, tokens) = <<>>

(* Every text is lexed and parsed to an end: no loop of the grammar goes   *)
(* round without a token.                                                  *)
Terminates == <>(mode = "error" \/ verdict # "none")
=============================================================================
