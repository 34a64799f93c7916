------------------------------ MODULE TypeCheck ------------------------------
(***************************************************************************)
(* typeck_check: the bodies of an analysed program, one declaration a      *)
(* step.  T is check_expr: it yields the type of an expression, or         *)
(*   <<"error">>  TYPE_ERROR with no message: assignable to everything,    *)
(*   <<"bad">>    a message: the program is rejected,                      *)
(*   <<"crash">>  a constant that reads itself: unbounded recursion.       *)
(* The code goes on behind a message, to report more; the model stops      *)
(* there.  "int", "float" and "string" are the types of literals.          *)
(***************************************************************************)
EXTENDS Sema

Ok == <<"ok">>
Bad == <<"bad">>
Crash == <<"crash">>
Error == <<"error">>
Hole == <<"hole">>
Void == <<"void">>
Bool == <<"bool">>

Failing(t) == t \in {Bad, Crash}
Check(cond, t) == IF cond THEN t ELSE Bad
Then(t, good) == IF Failing(t) THEN t ELSE good

(* The first of ts that fails, or else the type `good'.                    *)
First(ts, good) ==
  LET failing == {i \in DOMAIN ts : Failing(ts[i])}
  IN  IF failing = {} THEN good ELSE ts[Min(failing)]

(***************************************************************************)
(* Types.                                                                  *)
(***************************************************************************)
IntegerKinds ==
  {"char", "i8", "i16", "i32", "i64", "isize", "u8", "u16", "u32", "u64", "usize", "int"}
FloatKinds == {"f32", "f64", "float"}
Unnamed ==
  IntegerKinds \cup FloatKinds \cup Pointers \cup Arrays
    \cup {"error", "void", "bool", "str", "cstr", "fn", "string", "null"}

IsInteger(t) == t[1] \in IntegerKinds
IsFloat(t) == t[1] \in FloatKinds
Numeric(t) == IsInteger(t) \/ IsFloat(t)
Named(t) == t[1] \notin Unnamed
IsPointer(t) == t[1] \in Pointers
FromAst(t) == IF t = <<>> THEN Void ELSE t

Assignable(want, t) ==
  \/ want = Error \/ t = Error \/ want = t
  \/ t = <<"int">> /\ IsInteger(want)
  \/ t = <<"float">> /\ IsFloat(want)
  \/ t = <<"string">> /\ want \in {<<"str">>, <<"cstr">>}
  \/ t = <<"null">> /\ IsPointer(want)
Alike(t, w) == Assignable(t, w) \/ Assignable(w, t)
Fits(want, t) == Then(t, Check(Assignable(want, t), t))

Castable(t, want) ==
  \/ want = Error \/ t = Error \/ want = t
  \/ Numeric(t) /\ Numeric(want)
  \/ IsPointer(t) /\ (IsPointer(want) \/ IsInteger(want) \/ want = <<"null">>)
  \/ IsPointer(want) /\ (IsInteger(t) \/ t = <<"null">>)

Widen(t) ==
  CASE t = <<"int">> -> <<"i32">>
    [] t = <<"float">> -> <<"f64">>
    [] t = <<"string">> -> <<"str">>
    [] OTHER -> t

Addressable(x) ==
  \/ x.k \in {"id", "field", "index", "slice"}
  \/ x.k = "unary" /\ x.op = "*"

(***************************************************************************)
(* The Checker `c': the semantic model, the constants, templates and       *)
(* coercions of the program, the package and the return type of the        *)
(* function under check, and the constants being evaluated.                *)
(***************************************************************************)
Checker(p, s) ==
  LET named(kind) == {i \in DOMAIN p : p[i].k = kind}
      consts == named("const")
      generic == {i \in named("fn") : p[i].tps # <<>>}
      coerced == {i \in named("impl") : p[i].iface # ""}
      at(is, n) == p[CHOOSE i \in is : p[i].n = n]
  IN  s @@ [consts |-> [n \in {p[i].n : i \in consts} |-> at(consts, n)],
            generic |-> [n \in {p[i].n : i \in generic} |-> at(generic, n)],
            coerce |-> [n \in {Coercion(p[i].n, p[i].iface) : i \in coerced} |->
                         LET i == CHOOSE j \in coerced : Coercion(p[j].n, p[j].iface) = n
                         IN  <<p[i].iface>>],
            pkg |-> "", ret |-> Void, seen |-> {}]

(* A function type names its declaration: <<"fn", f>> or <<"fn", T, f>>.   *)
Callee(c, t) ==
  CASE Len(t) = 3 -> c.methods[<<t[2], t[3]>>]
    [] t[2] \in DOMAIN c.fn -> c.fn[t[2]]
    [] OTHER -> c.extern[t[2]]

IsEnum(c, t) == Len(t) = 1 /\ t[1] \in DOMAIN c.enum
VariantsOf(d) == ToSet(NamesOf(d.vs))
VariantFields(d, v) == d.vs[CHOOSE i \in DOMAIN d.vs : d.vs[i].n = v].fs

VisibleDecl(c, d) == d.pub \/ d.pkg = c.pkg
TypeDecls(c, n) ==
  IF n \in DOMAIN c.struct THEN {c.struct[n]}
  ELSE IF n \in DOMAIN c.enum THEN {c.enum[n]}
  ELSE IF n \in DOMAIN c.union THEN {c.union[n]} ELSE {}

(* ensure_type_visible, ensure_resolved_type_visible: a name with          *)
(* arguments is no declaration's name.                                     *)
VisibleShallow(c, t) ==
  Len(t) = 1 => \A d \in TypeDecls(c, t[1]) : VisibleDecl(c, d)
RECURSIVE Visible(_, _)
Visible(c, t) ==
  CASE t = <<>> -> TRUE
    [] IsPointer(t) \/ t[1] \in Arrays -> Visible(c, t[2])
    [] t[1] = "fn" -> VisibleDecl(c, Callee(c, t))
    [] OTHER -> Len(t) = 1 => \A d \in TypeDecls(c, t[1]) : VisibleDecl(c, d)

(***************************************************************************)
(* Rules for operands whose types are known and did not fail.              *)
(***************************************************************************)
TryType(c, t) ==
  CASE IsOption(t) -> Check(IsOption(c.ret), t[2])
    [] IsResult(t) ->
         Check(IsResult(c.ret) /\ Assignable(c.ret[3], t[3]) /\ Assignable(t[3], c.ret[3]),
               t[2])
    [] OTHER -> Bad

UnaryType(c, op, x, t) ==
  CASE op = "?" -> TryType(c, t)
    [] op = "!" -> Check(Assignable(Bool, t), Bool)
    [] op = "-" -> Check(Numeric(t), t)
    [] op = "&" -> Check(Addressable(x), <<"*", Widen(t)>>)
    [] op = "*" -> IF IsPointer(t) THEN t[2] ELSE Bad
    [] op = "~" -> Check(IsInteger(t), t)

BinaryType(op, l, r) ==
  CASE op \in {"+", "-", "*", "/", "%"} ->
         Check(Numeric(l) /\ Numeric(r),
               IF IsFloat(l) \/ IsFloat(r) THEN <<"f64">> ELSE <<"int">>)
    [] op \in {"==", "!="} -> Check(Alike(l, r), Bool)
    [] op \in {"<", ">", "<=", ">="} -> Check(Numeric(l) /\ Numeric(r), Bool)
    [] op \in {"&&", "||"} -> Check(Assignable(Bool, l) /\ Assignable(Bool, r), Bool)
    [] op \in {"&", "|", "^", "<<", ">>"} ->
         Check(IsInteger(l) /\ IsInteger(r), IF l = <<"int">> THEN r ELSE l)

AssignType(op, target, t) ==
  IF op = "" THEN Check(Assignable(target, t), target)
  ELSE Check(Numeric(target) /\ Numeric(t), target)

IndexType(t, i) ==
  CASE ~(i = Error \/ IsInteger(i)) -> Bad
    [] t[1] \in Arrays \/ IsPointer(t) -> t[2]
    [] t \in {<<"str">>, <<"String">>} -> <<"u8">>
    [] t = Error -> Error
    [] OTHER -> Bad

SliceType(t, is) ==
  CASE \E i \in DOMAIN is : ~(is[i] = Error \/ IsInteger(is[i])) -> Bad
    [] t \in {<<"str">>, <<"String">>} -> <<"str">>
    [] t[1] \in Arrays -> <<"[]", t[2]>>
    [] t = Error -> Error
    [] OTHER -> Bad

(* A field of a value.  The owner is the value's type or what it points    *)
(* to; a generic struct is found by the name before the bracket.           *)
OwnersOf(t) ==
  CASE Named(t) -> {t}
    [] IsPointer(t) -> IF Named(t[2]) THEN {t[2]} ELSE {}
    [] OTHER -> {}
FieldsFrom(c, owner) ==
  IF owner[1] \in DOMAIN c.struct THEN {c.struct[owner[1]]}
  ELSE IF Len(owner) = 1 /\ owner[1] \in DOMAIN c.union THEN {c.union[owner[1]]} ELSE {}
AllowedAnywhere(d, u) == d.k = "union" => u >= 0
Allowed(d, u) == d.k = "union" => u > 0
FieldIndex(d, n) == CHOOSE i \in DOMAIN d.fs : d.fs[i].n = n

BuiltinField(t, n) ==
  CASE n = "len" -> <<"usize">>
    [] n = "cap" /\ t = <<"String">> -> <<"usize">>
    [] n = "ptr" -> CASE t = <<"str">> -> <<"*const", <<"u8">>>>
                      [] t = <<"String">> -> <<"*", <<"u8">>>>
                      [] OTHER -> <<"*", t[2]>>
    [] OTHER -> Bad

FieldType(c, u, t, n) ==
  IF t[1] = "[]" \/ t \in {<<"str">>, <<"String">>} THEN BuiltinField(t, n)
  ELSE LET found == UNION {{<<o, d>> : d \in FieldsFrom(c, o)} : o \in OwnersOf(t)}
           o == (CHOOSE od \in found : TRUE)[1]
           d == (CHOOSE od \in found : TRUE)[2]
           ft == FromAst(d.fs[FieldIndex(d, n)].t)
       IN  CASE found = {} -> Bad
             [] ~Allowed(d, u) -> Bad
             [] ~HasField(d, n) -> Bad
             [] Len(o) > 1 /\ \E i \in DOMAIN d.tps : ft = <<d.tps[i]>> -> o[2]
             [] OTHER -> Check(Visible(c, ft), ft)

(* A call of a built-in by its name, or of a stream's method: its type.    *)
BuiltinCall ==
  [n \in {"print", "println", "eprint", "eprintln", "print_int", "print_long",
          "print_uint", "print_ulong", "print_f32", "print_f64", "print_bool",
          "print_char", "flush", "asm", "outb", "outw", "outl", "io_wait"} |-> Void]
  @@ [n \in {"read_int", "read_long"} |-> <<"i32">>]
  @@ ("input" :> <<"cstr">> @@ "read_uint" :> <<"u32">> @@ "read_f64" :> <<"f64">>
      @@ "inb" :> <<"u8">> @@ "inw" :> <<"u16">> @@ "inl" :> <<"u32">>)
ArgumentsUnread ==
  {"input", "read_int", "read_long", "read_uint", "read_f64", "asm", "outb", "outw",
   "outl", "io_wait", "inb", "inw", "inl"}
StreamCall ==
  [p \in {"stdout", "stderr"} \X {"flush", "write"} |-> Void]
  @@ (<<"stdin", "read_line">> :> <<"cstr">> @@ <<"stdin", "read_int">> :> <<"i32">>
      @@ <<"stdin", "read_f64">> :> <<"f64">>)

(* String.free and String.as_str, on a value or through a pointer.         *)
StringMethod(x, t, n, es) ==
  CASE es # <<>> -> Bad
    [] n = "as_str" -> <<"str">>
    [] OTHER -> Check(IsPointer(t) \/ Addressable(x), Void)

(* check_receiver: a pointer is made of an addressable value.              *)
ReceiverFits(want, t, x) ==
  \/ Assignable(want, t)
  \/ IsPointer(want) /\ Named(t) /\ want[2] = t /\ Addressable(x)

(***************************************************************************)
(* check_expr.  env maps the names in scope to [t, mut]; u is unsafe_depth.*)
(***************************************************************************)
RECURSIVE T(_, _, _, _)
RECURSIVE Expect(_, _, _, _, _)
RECURSIVE MatchType(_, _, _, _)
RECURSIVE CallType(_, _, _, _)

(* check_contextual_constructor, else check_expr.                          *)
Expect(c, env, u, want, x) ==
  LET calls(ns) == x.k = "call" /\ x.x.k = "id" /\ x.x.n \in ns
      constructs == \/ IsOption(want) /\ calls({"Some"})
                    \/ IsResult(want) /\ calls({"Ok", "Err"})
      of == IF calls({"Err"}) THEN want[3] ELSE want[2]
  IN  CASE IsOption(want) /\ x.k = "id" /\ x.n = "None" -> want
        [] constructs ->
             IF Len(x.es) # 1 THEN Bad ELSE Then(Fits(of, T(c, env, u, x.es[1])), want)
        [] OTHER -> T(c, env, u, x)

Each(c, env, u, es) == [i \in DOMAIN es |-> T(c, env, u, es[i])]

(* check_call_arguments.                                                   *)
Arguments(c, env, u, params, es) ==
  LET arg(i) == LET w == FromAst(params[i].t) IN Fits(w, Expect(c, env, u, w, es[i]))
  IN  IF Len(es) # Len(params) THEN Bad ELSE First([i \in DOMAIN es |-> arg(i)], Ok)

(* A call of f with its parameters from `from' on: the type it returns.    *)
Returned(c, env, u, f, from, es) ==
  LET ret == FromAst(f.t)
  IN  Then(Arguments(c, env, u, SubSeq(f.fs, from, Len(f.fs)), es),
           Check(Visible(c, ret), ret))

(* A constant has its declared type, or else that of its value.            *)
ConstTypeReread(c, u, n) ==
  IF n \in c.seen THEN Crash
  ELSE T([c EXCEPT !.seen = @ \cup {n}], <<>>, u, c.consts[n].x)
ConstType(c, u, n) ==
  CASE c.consts[n].t # <<>> -> c.consts[n].t
    [] n \in c.seen -> Crash
    [] OTHER -> T([c EXCEPT !.seen = @ \cup {n}], <<>>, u, c.consts[n].x)

IdentType(c, env, u, n) ==
  CASE n \in DOMAIN env -> Check(Visible(c, env[n].t), env[n].t)
    [] n = "None" -> Bad
    [] n \in {"stdout", "stderr", "stdin"} -> Void
    [] n \in DOMAIN c.fn \cup DOMAIN c.extern ->
         Check(VisibleDecl(c, Callee(c, <<"fn", n>>)), <<"fn", n>>)
    [] n \in DOMAIN c.consts -> ConstType(c, u, n)
    [] OTHER -> Error

(* T.n as a value: a variant, or a method of the type.                     *)
IsVariant(c, x, n) ==
  x.k = "id" /\ x.n \in DOMAIN c.enum /\ n \in VariantsOf(c.enum[x.n])
IsMethod(c, x, n) == x.k = "id" /\ <<x.n, n>> \in DOMAIN c.methods

(* A literal of a generic struct is not compared with the fields, and the  *)
(* privacy of a struct is looked at once for each field.                   *)
LiteralType(c, env, u, e) ==
  LET values == Each(c, env, u, e.es)
      d == Composite(c, e.t[1])
      want(i) == FromAst(d.fs[FieldIndex(d, e.ns[i])].t)
      value(i) == IF VisibleDecl(c, d) THEN Fits(want(i), values[i]) ELSE Bad
  IN  IF Len(e.t) > 1 THEN First(values, e.t)
      ELSE First([i \in DOMAIN e.ns |-> value(i)], e.t)

(* check_match_expr.  A pattern without a dot on an enum ends the check    *)
(* with no message.                                                        *)
SubjectVariantsButLast(c, t) ==
  LET names == IF IsOption(t) THEN <<"None", "Some">>
               ELSE IF IsResult(t) THEN <<"Err", "Ok">> ELSE NamesOf(c.enum[t[1]].vs)
  IN  ToSet(Front(names))
SubjectVariants(c, t) ==
  CASE IsOption(t) -> {"Some", "None"}
    [] IsResult(t) -> {"Ok", "Err"}
    [] OTHER -> VariantsOf(c.enum[t[1]])
BindingTypes(c, t, v) ==
  CASE v \in {"Some", "Ok"} -> <<t[2]>>
    [] v = "None" -> <<>>
    [] v = "Err" -> <<t[3]>>
    [] OTHER -> LET fs == VariantFields(c.enum[t[1]], v)
                IN  [i \in DOMAIN fs |-> FromAst(fs[i].t)]

MatchType(c, env, u, e) ==
  LET t == T(c, env, u, e.x)
      enum == IsEnum(c, t)
      wild(i) == e.arms[i].pat = <<"_">>
      variant(i) == Last(e.arms[i].pat)
      fits(i) == IF enum THEN e.arms[i].pat[1] = t[1]
                 ELSE Len(e.arms[i].pat) = 1 /\ variant(i) \in SubjectVariants(c, t)
      again(i) == \E j \in 1..(i - 1) : e.arms[j].pat = e.arms[i].pat
      value(i) ==
        LET ns == e.arms[i].ns
            ts == IF wild(i) THEN <<>> ELSE BindingTypes(c, t, variant(i))
            bound == [n \in ToSet(ns) |->
                       [t |-> ts[CHOOSE j \in DOMAIN ns : ns[j] = n], mut |-> FALSE]]
        IN  IF ns # <<>> /\ Len(ns) # Len(ts) THEN Bad
            ELSE T(c, bound @@ env, u, e.arms[i].x)
      arm[i \in DOMAIN e.arms] ==
        CASE ~wild(i) /\ enum /\ Len(e.arms[i].pat) = 1 -> Hole
          [] ~wild(i) /\ ~fits(i) -> Bad
          [] again(i) -> Bad
          [] i = 1 -> value(1)
          [] OTHER -> LET v == value(i) IN Then(v, Check(Alike(arm[1], v), v))
      stops == {i \in DOMAIN e.arms : Failing(arm[i]) \/ arm[i] = Hole}
      covered == \/ \E i \in DOMAIN e.arms : wild(i)
                 \/ SubjectVariants(c, t) \subseteq {variant(i) : i \in DOMAIN e.arms}
  IN  CASE Failing(t) -> t
        [] ~(enum \/ IsOption(t) \/ IsResult(t)) -> Bad
        [] stops # {} -> IF arm[Min(stops)] = Hole THEN Error ELSE arm[Min(stops)]
        [] ~covered -> Bad
        [] e.arms = <<>> -> Error
        [] OTHER -> arm[1]

(* f[A](..) of a template: its arguments are compared with nothing.        *)
TemplateReturns(d, x) ==
  IF d.t = <<d.tps[1]>> /\ x.k = "id" THEN <<x.n>> ELSE Void

MethodType(c, env, u, e, t) ==
  LET f == e.x
      string == <<"String">> \in OwnersOf(t) /\ f.n \in {"free", "as_str"}
      found == {o \in OwnersOf(t) : Len(o) = 1 /\ <<o[1], f.n>> \in DOMAIN c.methods}
      m == c.methods[<<(CHOOSE o \in found : TRUE)[1], f.n>>]
      general == T(c, env, u, f)
  IN  CASE Failing(t) -> t
        [] string -> StringMethod(f.x, t, f.n, e.es)
        [] found # {} ->
             IF /\ VisibleDecl(c, m)
                /\ m.fs # <<>> /\ m.fs[1].n = "self"
                /\ ReceiverFits(m.fs[1].t, t, f.x)
             THEN Returned(c, env, u, m, 2, e.es) ELSE Bad
        [] OTHER -> Then(general, Bad)

CallType(c, env, u, e) ==
  LET f == e.x
      args == Each(c, env, u, e.es)
      static == f.k = "field" /\ f.x.k = "id"
      payload == VariantFields(c.enum[f.x.n], f.n)
      callee == T(c, env, u, f)
  IN  CASE f.k = "id" /\ f.n \in {"Some", "Ok", "Err"} -> Bad
        [] f.k = "id" /\ f.n \in DOMAIN BuiltinCall ->
             First(IF f.n \in ArgumentsUnread THEN <<>> ELSE args, BuiltinCall[f.n])
        [] static /\ <<f.x.n, f.n>> \in DOMAIN StreamCall ->
             First(IF f.n = "write" THEN args ELSE <<>>, StreamCall[<<f.x.n, f.n>>])
        [] static /\ f.x.n = "String" /\ f.n = "from" ->
             IF Len(e.es) # 1 THEN Bad
             ELSE Then(args[1], Check(\/ Assignable(<<"str">>, args[1])
                                      \/ Assignable(<<"cstr">>, args[1]), <<"String">>))
        [] static /\ IsVariant(c, f.x, f.n) ->
             IF VisibleDecl(c, c.enum[f.x.n]) /\ Len(e.es) = Len(payload)
             THEN First([i \in DOMAIN args |-> Fits(FromAst(payload[i].t), args[i])],
                        <<f.x.n>>)
             ELSE Bad
        [] static /\ IsMethod(c, f.x, f.n) ->
             LET m == c.methods[<<f.x.n, f.n>>]
             IN  IF VisibleDecl(c, m) THEN Returned(c, env, u, m, 1, e.es) ELSE Bad
        [] f.k = "field" -> MethodType(c, env, u, e, T(c, env, u, f.x))
        [] f.k = "id" /\ f.n \in DOMAIN c.coerce -> First(args, c.coerce[f.n])
        [] f.k = "index" /\ f.x.k = "id" /\ f.x.n \in DOMAIN c.generic ->
             First(args, TemplateReturns(c.generic[f.x.n], f.y))
        [] callee[1] = "fn" -> Returned(c, env, u, Callee(c, callee), 1, e.es)
        [] OTHER -> Then(callee, Bad)

T(c, env, u, e) ==
  LET t(x) == T(c, env, u, x)
      AssignOK == /\ Addressable(e.x)
                  /\ e.x.k = "id" /\ e.x.n \in DOMAIN env => env[e.x.n].mut
  IN  CASE e.k = "none" -> Void
        [] e.k = "lit" -> e.t
        [] e.k = "id" -> IdentType(c, env, u, e.n)
        [] e.k = "group" -> t(e.x)
        [] e.k = "unary" -> Then(t(e.x), UnaryType(c, e.op, e.x, t(e.x)))
        [] e.k = "binary" -> First(<<t(e.x), t(e.y)>>, BinaryType(e.op, t(e.x), t(e.y)))
        [] e.k = "assign" ->
             IF ~AssignOK THEN Bad
             ELSE First(<<t(e.x), t(e.y)>>, AssignType(e.op, t(e.x), t(e.y)))
        [] e.k = "index" -> First(<<t(e.x), t(e.y)>>, IndexType(t(e.x), t(e.y)))
        [] e.k = "slice" ->
             LET is == Each(c, env, u, e.es)
             IN  First(<<t(e.x)>> \o is, SliceType(t(e.x), is))
        [] e.k = "call" -> CallType(c, env, u, e)
        [] e.k = "cast" -> Then(t(e.x), Check(Castable(t(e.x), FromAst(e.t)), FromAst(e.t)))
        [] e.k = "field" ->
             CASE IsVariant(c, e.x, e.n) -> Check(VisibleDecl(c, c.enum[e.x.n]), <<e.x.n>>)
               [] IsMethod(c, e.x, e.n) ->
                    Check(VisibleDecl(c, c.methods[<<e.x.n, e.n>>]), <<"fn", e.x.n, e.n>>)
               [] OTHER -> Then(t(e.x), FieldType(c, u, t(e.x), e.n))
        [] e.k = "new" -> LiteralType(c, env, u, e)
        [] e.k = "match" -> MatchType(c, env, u, e)

(***************************************************************************)
(* Statements: Ok, Bad or Crash.                                           *)
(***************************************************************************)

(* What a let or const binds its name to, `actual' the type of its value.  *)
BoundTo(c, st, actual) ==
  CASE ~Visible(c, st.t) -> Bad
    [] st.x.k = "none" -> IF st.t = <<>> THEN Bad ELSE st.t
    [] st.t # <<>> -> Then(Fits(st.t, actual), st.t)
    [] OTHER -> Then(actual, Check(actual # <<"null">>, Widen(actual)))
Bound(c, env, u, st) ==
  BoundTo(c, st, Expect(c, env, u, IF st.t = <<>> THEN Error ELSE st.t, st.x))

BindMutable(env, st, t) == (st.n :> [t |-> t, mut |-> TRUE]) @@ env
Bind(env, st, t) == (st.n :> [t |-> t, mut |-> st.k = "let"]) @@ env

ReturnOK(c, env, u, x) ==
  CASE c.ret = Void -> Check(x.k = "none", Ok)
    [] x.k = "none" -> Bad
    [] OTHER -> Then(Fits(c.ret, Expect(c, env, u, c.ret, x)), Ok)

(* The step of a for loop and a deferred call may not even be of no type:  *)
(* they are rejected then, without a message.                              *)
Typed(t) == Then(t, Check(t # Error, Ok))

RECURSIVE Block(_, _, _, _)
Binds(st) == st.k \in {"let", "const"}

Condition(c, env, u, x) == IF x.k = "none" THEN Ok ELSE Fits(Bool, T(c, env, u, x))

(* A for loop behind its init: scope holds what that declares.             *)
ForOK(c, scope, u, st) ==
  First(<<Condition(c, scope, u, st.x), Typed(T(c, scope, u, st.y)),
          Block(c, scope, u, st.body)>>, Ok)

Statement(c, env, u, st) ==
  LET inits == st.init # <<>> /\ Binds(st.init[1])
      scope == IF inits THEN Bind(env, st.init[1], Bound(c, env, u, st.init[1])) ELSE env
  IN  CASE st.k = "return" -> ReturnOK(c, env, u, st.x)
        [] st.k \in {"if", "while"} ->
             First(<<Condition(c, env, u, st.x), Block(c, env, u, st.body),
                     Block(c, env, u, IF st.k = "if" THEN st.other ELSE <<>>)>>, Ok)
        [] st.k = "loop" -> Block(c, env, u, st.body)
        [] st.k = "unsafe" -> Block(c, env, u + 1, st.body)
        [] st.k = "for" -> Then(Block(c, env, u, st.init), ForOK(c, scope, u, st))
        [] st.k = "defer" -> Typed(T(c, env, u, st.x))
        [] st.k = "do" -> Then(T(c, env, u, st.x), Ok)
        [] st.k \in {"break", "continue"} -> Ok

(* A declaration is in scope for the statements behind it.                 *)
Behind(c, env, u, body, bound) ==
  Then(bound, Block(c, Bind(env, Head(body), bound), u, Tail(body)))

Block(c, env, u, body) ==
  CASE body = <<>> -> Ok
    [] body # <<>> /\ Binds(Head(body)) ->
         Behind(c, env, u, body, Bound(c, env, u, Head(body)))
    [] OTHER -> Then(Statement(c, env, u, Head(body)), Block(c, env, u, Tail(body)))

(* check_function: functions, parameters and locals share a scope.         *)
CheckFunction(c, f) ==
  LET d == [c EXCEPT !.pkg = f.pkg, !.ret = FromAst(f.t)]
      functions == [n \in DOMAIN c.fn \cup DOMAIN c.extern |->
                     [t |-> <<"fn", n>>, mut |-> FALSE]]
      params == [n \in ToSet(NamesOf(f.fs)) |->
                  [t |-> FromAst(f.fs[FieldIndex(f, n)].t), mut |-> TRUE]]
  IN  IF Visible(d, f.t) /\ \A i \in DOMAIN f.fs : Visible(d, f.fs[i].t)
      THEN Block(d, params @@ functions, 0, f.body) ELSE Bad

CheckDecl(c, d) == First([i \in DOMAIN Bodies(d) |-> CheckFunction(c, Bodies(d)[i])], Ok)

(***************************************************************************)
(* The machine.                                                            *)
(***************************************************************************)
Decide(v) == phase' = "done" /\ verdict' = v /\ UNCHANGED <<prog, next, a>>

CheckNext ==
  /\ phase = "check"
  /\ IF next > Len(prog) THEN Decide("accepted")
     ELSE \E t \in {CheckDecl(Checker(prog, a), prog[next])} :
            \/ t = Bad /\ Decide("rejected")
            \/ t = Crash /\ Decide("crashed")
            \/ /\ t = Ok
               /\ next' = next + 1
               /\ UNCHANGED <<prog, phase, a, verdict>>

(* The analysis and the check of a program, without the steps.             *)
Accepts(p) ==
  LET s == Analyzed(p)
  IN  ~s.error /\ \A i \in DOMAIN p : CheckDecl(Checker(p, s), p[i]) = Ok
=============================================================================
