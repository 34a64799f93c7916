------------------------------- MODULE MCCheck -------------------------------
(***************************************************************************)
(* Programs for the analysis and the type checker: every sequence of at    *)
(* most MaxDecls declarations of a pool, and, in a fixed program of two    *)
(* packages, main with one or two statements of a pool.                    *)
(***************************************************************************)
EXTENDS CheckedPrograms

CONSTANTS MaxDecls

i32 == <<"i32">>
Ptr(t) == <<"*", t>>
Opt(t) == <<"Option", t>>
Res(t, e) == <<"Result", t, e>>
One == Lit("int")
True == Lit("bool")
Var(n, t) == Let(n, t, None)
Main(fs, t, body) == Fn("main", <<>>, fs, t, body, FALSE, "a")

(* A call of a method in the body makes two declarations meet.             *)
Show(body) == Fn("show", <<>>, <<Var("self", Ptr(<<"P">>))>>, <<>>, body, TRUE, "a")
DeclPool == <<
  Struct("P", <<>>, <<Var("x", i32)>>, FALSE, "a"),
  Struct("Q", <<>>, <<Var("p", Ptr(<<"P">>)), Var("e", <<"E">>)>>, FALSE, "a"),
  Struct("G", <<"A">>, <<Var("v", <<"A">>)>>, FALSE, "a"),
  Enum("E", <<Variant("A", <<>>), Variant("B", <<Var("v", i32)>>)>>, FALSE, "a"),
  Union("U", <<Var("p", Ptr(<<"P">>)), Var("i", <<"I">>)>>, FALSE, "a"),
  Const("K", <<>>, Id("J")),
  Const("K", i32, Id("J")),
  Const("J", <<>>, Bin(Id("K"), "+", One)),
  Const("J", <<>>, One),
  Fn("f", <<>>, <<Var("p", Ptr(<<"P">>))>>, i32, <<Return(Field(Id("p"), "x"))>>, FALSE, "a"),
  Fn("id", <<"A">>, <<Var("x", <<"A">>)>>, <<"A">>, <<Return(Id("x"))>>, FALSE, "a"),
  Main(<<>>, <<>>, <<Let("k", i32, Id("K"))>>),
  Main(<<Var("p", <<"P">>)>>, <<>>,
       <<Do(Call(Field(Id("p"), "show"), <<>>)), Do(Call(Id("f"), <<Un("&", Id("p"))>>))>>),
  Main(<<Var("e", <<"E">>)>>, i32,
       <<Return(Match(Id("e"), <<Arm(<<"E", "A">>, <<>>, One), Arm(<<"E", "B">>, <<"v">>, Id("v"))>>))>>),
  Interface("I", <<"show">>, FALSE, "a"),
  Impl("P", "I", <<Show(<<>>)>>),
  Impl("P", "", <<Show(<<Do(Call(Id("puts"), <<Lit("string")>>))>>)>>),
  Extern("puts", <<Var("s", <<"cstr">>)>>, i32, FALSE, "a"),
  Kernel("k", <<Main(<<Var("i", <<"I">>)>>, <<>>, <<Do(Call(Index(Id("id"), Id("i32")), <<One>>))>>)>>),
  Comptime(<<Const("K", <<>>, One)>>) >>

(* The program around the bodies.  Package b keeps S, D and hid private.   *)
Around == <<
  Struct("P", <<>>, <<Var("x", i32), Var("s", Ptr(<<"S">>)), Var("u", <<"U">>)>>, FALSE, "a"),
  Struct("S", <<>>, <<Var("y", i32)>>, FALSE, "b"),
  Struct("G", <<"A">>, <<Var("v", <<"A">>), Var("n", i32)>>, FALSE, "a"),
  Union("U", <<Var("i", i32), Var("f", <<"f32">>)>>, TRUE, "b"),
  Enum("E", <<Variant("A", <<>>), Variant("B", <<Var("v", i32), Var("w", <<"str">>)>>)>>, TRUE, "b"),
  Enum("D", <<Variant("A", <<>>)>>, FALSE, "b"),
  Interface("I", <<"get">>, TRUE, "a"),
  Impl("P", "I", <<
    Fn("get", <<>>, <<Var("self", Ptr(<<"P">>)), Var("n", i32)>>, i32,
       <<Return(Field(Id("self"), "x"))>>, TRUE, "a")>>),
  Impl("P", "", <<
    Fn("make", <<>>, <<>>, i32, <<Loop(<<Break>>)>>, FALSE, "b")>>),
  Fn("hid", <<>>, <<>>, <<>>, <<>>, FALSE, "b"),
  Fn("opt", <<>>, <<Var("o", Opt(i32))>>, Opt(i32), <<Return(Id("o"))>>, TRUE, "b"),
  Fn("res", <<>>, <<>>, Res(i32, <<"str">>), <<Return(Call(Id("Err"), <<Lit("string")>>))>>, TRUE, "b"),
  Fn("sec", <<>>, <<>>, <<"S">>, <<Return(New(<<"S">>, <<"y">>, <<One>>))>>, TRUE, "b"),
  Fn("id", <<"A">>, <<Var("x", <<"A">>)>>, <<"A">>, <<>>, TRUE, "a"),
  Extern("puts", <<Var("s", <<"cstr">>)>>, i32, TRUE, "b"),
  Const("K", <<>>, One),
  Const("L", Ptr(i32), Lit("null")) >>

Params == <<
  Var("p", <<"P">>), Var("q", Ptr(<<"P">>)), Var("e", <<"E">>), Var("o", Opt(i32)),
  Var("r", Res(i32, <<"str">>)), Var("un", <<"U">>), Var("sl", <<"[]", i32>>),
  Var("ar", <<"[1]", i32>>), Var("s", <<"str">>), Var("st", <<"String">>),
  Var("n", i32), Var("g", <<"G", i32>>) >>

p == Id("p")
n == Id("n")
str == Lit("string")
Call1(f, x) == Call(Id(f), <<x>>)
Invoke(x, m, es) == Call(Field(x, m), es)
Cases(x, pats) == Match(x, [i \in DOMAIN pats |-> Arm(pats[i], <<>>, One)])
EA == <<"E", "A">>
EB == <<"E", "B">>
Wild == <<"_">>

Expressions == <<
  Bin(One, "+", Lit("float")), Bin(True, "+", One), Bin(n, "==", str), Bin(n, "<", One),
  Bin(True, "&&", One), Bin(n, "<<", One), Bin(One, "&", Lit("float")), Group(Bin(n, "%", n)),
  Un("!", n), Un("-", str), Un("&", n), Un("&", Group(n)), Un("*", Id("q")), Un("*", n),
  Un("~", Lit("char")), Un("?", Id("o")), Un("?", n),
  Assign(n, "", One), Assign(n, "+", One), Assign(n, "", str), Assign(One, "", n),
  Assign(Field(p, "x"), "", n), Assign(Id("hid"), "", n), Assign(Id("K"), "", One),
  Index(Id("ar"), One), Index(Id("q"), n), Index(Id("s"), One), Index(Id("un"), One),
  Index(Id("sl"), str), Index(Id("L"), Id("missing")), Index(n, Id("missing")),
  Slice(Id("sl"), <<One>>), Slice(Id("st"), <<n, n>>), Slice(Id("s"), <<str>>), Slice(n, <<>>),
  Slice(Id("ar"), <<Id("missing")>>),
  Call1("Some", One), Call1("print", n), Call1("print", Call(Id("hid"), <<>>)),
  Call1("input", n), Call1("inw", n), Invoke(Id("stdout"), "write", <<p>>),
  Invoke(Id("stdin"), "read_int", <<>>), Invoke(Id("stdout"), "seek", <<>>),
  Invoke(Id("String"), "from", <<str>>), Invoke(Id("String"), "from", <<n>>),
  Invoke(Id("E"), "B", <<One, str>>), Invoke(Id("E"), "B", <<str, One>>),
  Invoke(Id("E"), "B", <<One>>), Field(Id("E"), "A"), Field(Id("E"), "C"), Field(Id("D"), "A"),
  Invoke(Id("D"), "A", <<>>), Invoke(Id("P"), "make", <<>>), Invoke(Id("P"), "get", <<Un("&", p), n>>),
  Invoke(p, "get", <<n>>), Invoke(Id("q"), "get", <<str>>), Invoke(Group(p), "get", <<n>>),
  Invoke(p, "make", <<>>), Invoke(p, "put", <<>>), Invoke(Id("st"), "free", <<>>),
  Invoke(Invoke(Id("String"), "from", <<str>>), "free", <<>>), Invoke(Id("st"), "as_str", <<n>>),
  Call1("P_as_I", Un("&", p)), Field(Call1("P_as_I", p), "get"),
  Call1("id", One), Call(Index(Id("id"), Id("i32")), <<One>>),
  Bin(Call(Index(Id("id"), Id("P")), <<p>>), "==", One),
  Call(Id("hid"), <<>>), Call1("opt", Id("None")), Call1("opt", Call1("Some", n)),
  Call1("opt", Call1("Some", str)), Call1("opt", One), Call(Id("opt"), <<>>),
  Call(Id("sec"), <<>>), Call1("puts", str), Call1("n", One), Id("None"), Id("puts"),
  Cast(n, Ptr(<<"P">>)), Cast(Id("s"), i32), Cast(Lit("null"), Ptr(i32)), Cast(n, <<"X">>),
  Field(p, "x"), Field(Id("q"), "x"), Field(p, "z"), Field(p, "s"), Field(p, "u"),
  Field(Field(p, "u"), "i"), Field(Id("un"), "i"), Field(Group(Un("&", Id("un"))), "f"),
  Field(Id("sl"), "len"), Field(Id("s"), "ptr"), Field(Id("st"), "cap"), Field(Id("ar"), "len"),
  Bin(Field(Id("g"), "v"), "+", Field(Id("g"), "n")), Field(n, "x"),
  New(<<"P">>, <<"x">>, <<One>>), New(<<"P">>, <<"x">>, <<str>>), New(<<"P">>, <<"x", "x">>, <<One, One>>),
  New(<<"S">>, <<"y">>, <<One>>), New(<<"S">>, <<>>, <<>>), New(<<"U">>, <<"i">>, <<One>>),
  New(<<"G", i32>>, <<"v", "n">>, <<One, str>>), New(<<"E">>, <<>>, <<>>),
  Cases(Id("e"), <<EA, EB>>), Cases(Id("e"), <<EA>>), Cases(Id("e"), <<EB, EB, Wild>>),
  Cases(Id("e"), <<EA, Wild>>), Cases(Id("e"), <<Wild, Wild>>), Cases(Id("e"), <<EA, <<"D", "A">>>>),
  Cases(Id("e"), <<EA, <<"Some">>>>), Cases(Id("e"), <<<<"E", "C">>>>), Cases(Group(Id("e")), <<>>),
  Cases(Id("o"), <<<<"Some">>, <<"None">>>>), Cases(Id("o"), <<<<"None">>>>),
  Cases(Id("o"), <<<<"Some">>, <<"Ok">>>>), Cases(Id("o"), <<<<"Some">>, EA>>),
  Cases(Id("r"), <<<<"Ok">>, <<"Err">>>>), Cases(Id("r"), <<<<"Ok">>, <<"Ok">>, <<"Err">>>>),
  Cases(n, <<Wild>>), Cases(p, <<Wild>>),
  Match(Id("e"), <<Arm(EA, <<>>, One), Arm(EB, <<"v">>, n)>>),
  Match(Id("e"), <<Arm(EA, <<>>, One), Arm(EB, <<"v", "w">>, Id("v"))>>),
  Match(Id("e"), <<Arm(EA, <<>>, One), Arm(EB, <<"v", "w">>, Id("w"))>>),
  Match(Id("e"), <<Arm(EB, <<"v", "v">>, n), Arm(Wild, <<>>, n)>>),
  Match(Id("r"), <<Arm(<<"Ok">>, <<"v">>, Assign(Id("v"), "", One)), Arm(Wild, <<>>, One)>>),
  Match(Id("o"), <<Arm(<<"Some">>, <<"v">>, Id("v")), Arm(<<"None">>, <<>>, Id("v"))>>) >>

a1 == Id("a")
Let1 == Let("a", <<>>, One)
Const1 == Const("a", <<>>, One)
Statements == <<
  Let1, Const1, Do(Assign(a1, "", n)), Let("a", <<"f64">>, a1), Const("n", <<>>, One),
  Unsafe(<<Const1, Do(Assign(a1, "", One))>>), Unsafe(<<Do(Assign(Field(Id("un"), "i"), "", One))>>),
  If(Bin(a1, "==", One), <<Let1, Do(Assign(a1, "+", One))>>, <<Do(a1)>>),
  While(True, <<Break>>), While(n, <<Break>>), Loop(<<Continue, Let1>>), Break,
  For(<<Let1>>, Bin(a1, "<", n), Assign(a1, "+", One), <<Const1, Break>>),
  For(<<>>, None, None, <<Do(a1)>>), For(<<Do(n)>>, n, Id("P"), <<Break>>), For(<<>>, True, Id("P"), <<Break>>),
  Defer(Call1("puts", str)), Defer(Id("P")), Return(None), Return(n) >>
Typings == <<
  Let("a", <<>>, None), Let("a", i32, None), Let("a", i32, str), Let("a", <<>>, Lit("null")),
  Let("a", Ptr(<<"P">>), Lit("null")), Let("a", <<"D">>, None), Let("a", Ptr(<<"S">>), None),
  Let("a", Opt(<<"S">>), Id("None")), Let("a", Res(i32, <<"str">>), Call1("Err", str)),
  Let("a", Res(i32, <<"str">>), Call1("Ok", str)), Let("a", <<"G", i32>>, Id("g")),
  Let("a", <<"P", i32>>, p), Let("a", <<"X">>, None), Const("a", <<"I">>, Call1("P_as_I", p)),
  Const("a", <<>>, Lit("null")), Let("a", <<>>, Call(Id("res"), <<>>)), Let("a", <<>>, Id("P")) >>
Returns == <<Return(None), Return(n), Return(Un("?", Id("o"))), Return(Un("?", Id("r"))),
             Return(Id("None")), Return(Call1("Ok", Un("?", Id("r")))), Do(Un("?", Id("o")))>>
Results == <<i32, Opt(i32), Res(i32, <<"str">>), Res(i32, i32), <<"S">>>>

(* Programs for the generator: templates that call each other and          *)
(* themselves, two symbols of one text, and main with two statements.      *)
Use(f, t, x) == Call(Index(Id(f), Id(t)), <<x>>)
Template1(m, body) == Fn(m, <<"A">>, <<Var("x", <<"A">>)>>, <<"A">>, body, TRUE, "a")
Get(body) == Fn("get", <<>>, <<Var("self", Ptr(<<"P">>))>>, i32, body, TRUE, "a")
Templates1 == <<
  Struct("P", <<>>, <<Var("x", i32)>>, TRUE, "a"),
  Struct("G", <<"A">>, <<Var("v", <<"A">>)>>, TRUE, "a"),
  Template1("id", <<Return(Id("x"))>>),
  Template1("twice", <<Do(Use("id", "i32", Id("x"))), Return(Use("twice", "A", Id("x")))>>),
  Fn("one", <<>>, <<Var("x", i32)>>, i32, <<Return(Id("x"))>>, TRUE, "a"),
  Impl("P", "", <<Get(<<Return(Use("id", "i32", One))>>)>>) >>
Extras == <<
  <<>>,
  <<Fn("id_i32", <<>>, <<Var("x", i32)>>, i32, <<Return(Id("x"))>>, TRUE, "a")>>,
  <<Fn("P_get", <<>>, <<>>, i32, <<Return(Use("twice", "i32", One))>>, TRUE, "a")>>,
  <<Fn("free", <<>>, <<Var("x", i32)>>, i32, <<Return(Call1("one", Id("x")))>>, TRUE, "a")>>,
  <<Template1("puts", <<Return(Use("id", "i32", Id("x")))>>)>>,
  <<Interface("I", <<"get">>, TRUE, "a"), Impl("P", "I", <<>>)>> >>
Uses == <<
  Do(Use("id", "i32", One)), Do(Use("id", "P", n)), Do(Use("twice", "i32", n)),
  Let("a", i32, Use("id", "i32", Use("id", "i64", One))), Defer(Use("one", "i32", One)),
  Do(Call1("one", Use("id", "i32", One))), Return(Call1("one", Use("twice", "i32", n))),
  Do(Group(Use("id", "u8", One))), Const("k", <<>>, Use("id", "u8", One)),
  Do(New(<<"P">>, <<"x">>, <<Use("id", "i32", One)>>)),
  Do(Match(n, <<>>)), Do(Slice(Id("s"), <<Use("id", "u8", One)>>)),
  Let("g", Ptr(<<"G", i32>>), Lit("null")), Let("h", <<>>, Id("one")), Do(Call1("h", One)),
  If(Bin(Use("id", "bool", True), "==", True), <<Do(Use("id", "i32", One))>>, <<Do(Call1("free", One))>>),
  For(<<Let("i", i32, Use("id", "i32", One))>>, Bin(Id("i"), "<", n), Use("id", "u8", One),
      <<Break, Do(Use("id", "u16", One))>>),
  While(True, <<Do(Call(Field(Un("&", Id("p")), "get"), <<>>)), Continue>>),
  Do(Call1("print", Use("id", "i32", One))), Do(Call1("print_char", Use("id", "u32", One))),
  Do(Use("puts", "i32", One)), Do(Group(Use("puts", "i32", One))), Let("r", Opt(i32), Call1("Some", Use("id", "i32", One))),
  Do(Use("id", "missing", Cast(Use("id", "f32", One), i32))), Return(One) >>

(* An input is a tuple of indices: of declarations, or of what main does.  *)
MCInputs == ({"decls"} \X UNION {[1..k -> DOMAIN DeclPool] : k \in 1..MaxDecls})
              \cup ({"expr"} \X (DOMAIN Expressions)) \cup ({"typing"} \X (DOMAIN Typings))
              \cup ({"return"} \X ((DOMAIN Results) \X (DOMAIN Returns)))
              \cup ({"stmts"} \X ((DOMAIN Statements) \X (DOMAIN Statements)))
              \cup ({"generic"} \X ((DOMAIN Extras) \X (DOMAIN Uses) \X (DOMAIN Uses)))

MCCoercion(t, i) == t \o "_as_" \o i
MCSymbol(m, t) == m \o "_" \o t
With(t, body) == Around \o <<Main(Params, t, body)>>
MCProgram(x) ==
  CASE x[1] = "decls" -> [i \in DOMAIN x[2] |-> DeclPool[x[2][i]]]
    [] x[1] = "expr" -> With(<<>>, <<Do(Expressions[x[2]])>>)
    [] x[1] = "typing" -> With(<<>>, <<Typings[x[2]]>>)
    [] x[1] = "return" -> With(Results[x[2][1]], <<Returns[x[2][2]]>>)
    [] x[1] = "generic" ->
         Templates1 \o Extras[x[2][1]] \o
           <<Main(<<Params[1], Params[9], Params[11]>>, i32,
                  <<Uses[x[2][2]], Uses[x[2][3]], Return(One)>>)>>
    [] x[1] = "stmts" -> With(<<>>, <<Statements[x[2][1]], Statements[x[2][2]]>>)
=============================================================================
