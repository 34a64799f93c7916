-------------------------------- MODULE Sema --------------------------------
(***************************************************************************)
(* sema_analyze: five passes over the declarations of a program, one step  *)
(* for each declaration.  The table of imports is left to ImportLoader,    *)
(* the lengths of names (char base[256] and others) are left out.          *)
(***************************************************************************)
EXTENDS Ast, FiniteSets, SequencesExt

CONSTANTS
  Inputs,         (* what a behaviour starts from                           *)
  Program(_),     (* the declarations of an input, a sequence               *)
  Coercion(_, _)  (* the name T_as_I for a struct T and an interface I      *)

VARIABLES
  prog,     (* program->as.program.decls                                    *)
  phase,    (* the pass under way                                           *)
  next,     (* i of its loop, + 1                                           *)
  a,        (* the Analyzer, then the SemanticModel                         *)
  verdict   (* none, accepted, rejected or crashed                          *)

vars == <<prog, phase, next, a, verdict>>

NoDuplicate(s) == \A i, j \in DOMAIN s : i # j => s[i] # s[j]
EmptyAnalyzer ==
  [names |-> {}, struct |-> <<>>, enum |-> <<>>, union |-> <<>>, interface |-> <<>>,
   fn |-> <<>>, extern |-> <<>>, methods |-> <<>>, error |-> FALSE]

Failed(s) == [s EXCEPT !.error = TRUE]
Require(cond, s) == IF cond THEN s ELSE Failed(s)

(* register_global_name, and push_named_decl into the table of the kind.   *)
AddNameUnchecked(s, n) == [s EXCEPT !.names = @ \cup {n}]
AddNameForgets(s, n) == Require(n \notin s.names, s)
AddName(s, n) ==
  IF n \in s.names THEN Failed(s) ELSE [s EXCEPT !.names = @ \cup {n}]
Push(s, table, key, d) ==
  IF s.error THEN s ELSE [s EXCEPT ![table] = (key :> d) @@ @]

(***************************************************************************)
(* Types.                                                                  *)
(***************************************************************************)
Builtins ==
  {"i8", "i16", "i32", "i64", "isize", "u8", "u16", "u32", "u64", "usize", "f32",
   "f64", "bool", "char", "void", "never", "str", "String", "cstr"}
BuiltinIO ==
  {"print", "println", "eprint", "eprintln", "print_int", "print_long",
   "print_uint", "print_ulong", "print_f32", "print_f64", "print_bool",
   "print_char", "flush", "input", "read_int", "read_long", "read_uint",
   "read_f64", "stdout", "stderr", "stdin", "asm", "inb", "outb", "inw", "outw",
   "inl", "outl", "io_wait"}
Pointers == {"*", "*const", "?*", "?*const"}
Arrays == {"[]", "[1]"}

KnownType(s, n) ==
  n \in Builtins \cup DOMAIN s.struct \cup DOMAIN s.enum \cup DOMAIN s.union
        \cup DOMAIN s.interface

IsOption(t) == t # <<>> /\ t[1] = "Option" /\ Len(t) > 1
IsResult(t) == t # <<>> /\ t[1] = "Result" /\ Len(t) > 1

(* The arguments of a generic struct are not looked at.                    *)
RECURSIVE ValidTypeName(_, _)
ValidTypeName(s, t) ==
  CASE IsOption(t) -> Len(t) = 2 /\ ValidTypeName(s, t[2])
    [] IsResult(t) -> Len(t) = 3 /\ ValidTypeName(s, t[2]) /\ ValidTypeName(s, t[3])
    [] Len(t) > 1 -> t[1] \in DOMAIN s.struct /\ s.struct[t[1]].tps # <<>>
    [] OTHER -> KnownType(s, t[1])

RECURSIVE ValidType(_, _)
ValidType(s, t) ==
  \/ t = <<>>
  \/ t[1] \in Pointers \cup Arrays /\ ValidType(s, t[2])
  \/ t[1] \notin Pointers \cup Arrays /\ ValidTypeName(s, t)

(***************************************************************************)
(* The passes over declarations.  Each maps the analyzer and a declaration *)
(* to the analyzer behind it.                                              *)
(***************************************************************************)
FieldsOK(s, fs) == NoDuplicate(NamesOf(fs)) /\ \A i \in DOMAIN fs : ValidType(s, fs[i].t)

RegisterTypeAtOnce(s, d) ==
  LET named == AddName(s, d.n)
  IN  CASE d.k = "struct" /\ d.tps = <<>> ->
             Push(Require(FieldsOK(named, d.fs), named), d.k, d.n, d)
        [] d.k \in {"struct", "enum", "union"} -> Push(named, d.k, d.n, d)
        [] d.k = "const" -> named
        [] OTHER -> s
RegisterType(s, d) ==
  CASE d.k \in {"struct", "enum", "union"} -> Push(AddName(s, d.n), d.k, d.n, d)
    [] d.k = "const" -> AddName(s, d.n)
    [] OTHER -> s

CheckMembers(s, d) ==
  CASE d.k = "struct" /\ d.tps = <<>> -> Require(FieldsOK(s, d.fs), s)
    [] d.k = "union" -> Require(FieldsOK(s, d.fs), s)
    [] d.k = "enum" -> Require(NoDuplicate(NamesOf(d.vs)), s)
    [] OTHER -> s

RegisterInterface(s, d) ==
  CASE d.k = "interface" -> Push(AddName(s, d.n), "interface", d.n, d)
    [] d.k = "comptime" -> FoldLeft(LAMBDA r, c : AddName(r, c.n), s, d.ds)
    [] OTHER -> s

(* register_function_like.                                                 *)
SignatureOK(s, f) == ValidType(s, f.t) /\ FieldsOK(s, f.fs)

RegisterFunctionLike(s, f) ==
  LET named == AddName(s, f.n)
  IN  Push(Require(SignatureOK(s, f), named), f.k, f.n, f)

ReceiverOK(f, owner) ==
  \/ f.fs = <<>>
  \/ f.fs[1].n # "self"
  \/ f.fs[1].t = <<owner>>
  \/ \E p \in Pointers : f.fs[1].t = <<p, <<owner>>>>

RegisterMethod(s, owner, f) ==
  LET ok == /\ <<owner, f.n>> \notin DOMAIN s.methods
            /\ SignatureOK(s, f)
            /\ ReceiverOK(f, owner)
  IN  Push(Require(ok, s), "methods", <<owner, f.n>>, f)

Satisfies(d, iface) ==
  \A i \in DOMAIN iface.ns : \E j \in DOMAIN d.ms : d.ms[j].n = iface.ns[i]

RegisterImpl(s, d) ==
  LET methods == FoldLeft(LAMBDA r, f : RegisterMethod(r, d.n, f), s, d.ms)
      ok == /\ d.n \in DOMAIN s.struct
            /\ d.iface # "" => /\ d.iface \in DOMAIN s.interface
                               /\ Satisfies(d, s.interface[d.iface])
  IN  IF d.iface = "" THEN Require(ok, methods)
      ELSE AddName(Require(ok, methods), Coercion(d.n, d.iface))

RegisterFunction(s, d) ==
  CASE d.k = "fn" /\ d.tps # <<>> -> AddName(s, d.n)
    [] d.k \in {"fn", "extern"} -> RegisterFunctionLike(s, d)
    [] d.k = "impl" -> RegisterImpl(s, d)
    [] d.k = "kernel" -> FoldLeft(RegisterFunctionLike, s, d.ms)
    [] OTHER -> s

(***************************************************************************)
(* Bodies.  `sc' is the set of the names in scope.                         *)
(***************************************************************************)
Declares(s, n, v) ==
  n \in DOMAIN s.enum /\ \E i \in DOMAIN s.enum[n].vs : s.enum[n].vs[i].n = v

PatternOK(s, p) ==
  CASE Len(p) = 1 -> p[1] \in {"_", "Some", "None", "Ok", "Err"}
    [] OTHER -> Declares(s, p[1], p[2])

Composite(s, n) ==
  IF n \in DOMAIN s.struct THEN s.struct[n] ELSE s.union[n]

HasField(d, n) == \E i \in DOMAIN d.fs : d.fs[i].n = n

(* The struct or union a literal names: all of its text, or for a generic  *)
(* struct the text before the bracket.                                     *)
LiteralOK(s, e) ==
  /\ \/ e.t[1] \in DOMAIN s.struct
     \/ Len(e.t) = 1 /\ e.t[1] \in DOMAIN s.union
  /\ NoDuplicate(e.ns)
  /\ \A i \in DOMAIN e.ns : HasField(Composite(s, e.t[1]), e.ns[i])

SymbolOK(s, sc, n) == n \in {"None"} \cup BuiltinIO \cup sc \cup s.names

RECURSIVE ExprOK(_, _, _)
ExprOK(s, sc, e) ==
  LET ok(x) == ExprOK(s, sc, x)
      All(es) == \A i \in DOMAIN es : ok(es[i])
      named == e.k \in {"index", "field", "call"} /\ e.x.k = "id"
  IN  CASE e.k \in {"none", "lit"} -> TRUE
        [] e.k = "id" -> SymbolOK(s, sc, e.n)
        [] e.k \in {"group", "unary"} -> ok(e.x)
        [] e.k \in {"binary", "assign"} -> ok(e.x) /\ ok(e.y)
        [] e.k = "index" ->
             IF named /\ e.x.n \in s.names \ (DOMAIN s.fn \cup DOMAIN s.extern)
             THEN ok(e.x) ELSE ok(e.x) /\ ok(e.y)
        [] e.k = "slice" -> ok(e.x) /\ All(e.es)
        [] e.k = "call" ->
             /\ \/ named /\ e.x.n \in {"Some", "Ok", "Err"}
                \/ ok(e.x)
             /\ All(e.es)
        [] e.k = "cast" -> ValidType(s, e.t) /\ ok(e.x)
        [] e.k = "field" ->
             CASE named /\ e.x.n \in DOMAIN s.enum ->
                    Declares(s, e.x.n, e.n) \/ <<e.x.n, e.n>> \in DOMAIN s.methods
               [] named /\ KnownType(s, e.x.n) -> TRUE
               [] OTHER -> ok(e.x)
        [] e.k = "new" -> LiteralOK(s, e) /\ All(e.es)
        [] e.k = "match" ->
             /\ ok(e.x)
             /\ \A i \in DOMAIN e.arms :
                  LET m == e.arms[i]
                  IN  /\ PatternOK(s, m.pat)
                      /\ NoDuplicate(m.ns)
                      /\ ExprOK(s, sc \cup ToSet(m.ns), m.x)

(* The statements of a block: `own' are the names its own scope holds.     *)
NewNamesLeaky(st) ==
  LET binding == IF st.k = "for" /\ st.init # <<>> THEN st.init[1] ELSE st
  IN  IF binding.k \in {"let", "const"} THEN {binding.n} ELSE {}
NewNames(st) == IF st.k \in {"let", "const"} THEN {st.n} ELSE {}

RECURSIVE BlockOK(_, _, _, _, _)
BlockOK(s, sc, own, body, loops) ==
  LET st == Head(body)
      ok(x) == ExprOK(s, sc \cup own, x)
      Inner(b, n) == BlockOK(s, sc \cup own, {}, b, n)
      heads == IF st.init = <<>> THEN {} ELSE NewNames(st.init[1])
  IN  \/ body = <<>>
      \/ /\ CASE st.k \in {"let", "const"} ->
                   ValidType(s, st.t) /\ ok(st.x) /\ st.n \notin own
              [] st.k \in {"return", "do", "defer"} -> ok(st.x)
              [] st.k = "if" -> ok(st.x) /\ Inner(st.body, loops) /\ Inner(st.other, loops)
              [] st.k = "while" -> ok(st.x) /\ Inner(st.body, loops + 1)
              [] st.k = "loop" -> Inner(st.body, loops + 1)
              [] st.k = "unsafe" -> Inner(st.body, loops)
              [] st.k = "for" ->
                   /\ Inner(st.init, loops)
                   /\ ExprOK(s, sc \cup own \cup heads, st.x)
                   /\ ExprOK(s, sc \cup own \cup heads, st.y)
                   /\ BlockOK(s, sc \cup own \cup heads, {}, st.body, loops + 1)
              [] st.k \in {"break", "continue"} -> loops > 0
         /\ BlockOK(s, sc, own \cup NewNames(st), Tail(body), loops)

(* analyze_function_body: functions, parameters and the locals of the body *)
(* share one scope.                                                        *)
BodyOK(s, f) ==
  LET functions == DOMAIN s.fn \cup DOMAIN s.extern
      params == ToSet(NamesOf(f.fs))
  IN  /\ functions \cap params = {}
      /\ NoDuplicate(NamesOf(f.fs))
      /\ BlockOK(s, {}, functions \cup params, f.body, 0)

(* The functions of a declaration whose bodies are analysed and checked:   *)
(* templates are not.                                                      *)
Bodies(d) ==
  CASE d.k = "fn" -> IF d.tps = <<>> THEN <<d>> ELSE <<>>
    [] d.k \in {"impl", "kernel"} -> d.ms
    [] OTHER -> <<>>

AnalyzeBodies(s, d) == Require(\A i \in DOMAIN Bodies(d) : BodyOK(s, Bodies(d)[i]), s)

(***************************************************************************)
(* The machine.                                                            *)
(***************************************************************************)
Pass(p, after, Step(_, _)) ==
  /\ phase = p
  /\ ~a.error
  /\ IF next <= Len(prog)
     THEN a' = Step(a, prog[next]) /\ next' = next + 1 /\ phase' = phase
     ELSE a' = a /\ next' = 1 /\ phase' = after
  /\ UNCHANGED <<prog, verdict>>

TypesPass == Pass("types", "members", RegisterType)
MembersPass == Pass("members", "interfaces", CheckMembers)
InterfacesPass == Pass("interfaces", "functions", RegisterInterface)
FunctionsPass == Pass("functions", "bodies", RegisterFunction)
BodiesPass == Pass("bodies", "check", AnalyzeBodies)

SemaFails ==
  /\ a.error
  /\ phase # "done"
  /\ phase' = "done"
  /\ verdict' = "rejected"
  /\ UNCHANGED <<prog, next, a>>

SemaInit ==
  /\ \E x \in Inputs : prog = Program(x)
  /\ phase = "types"
  /\ next = 1
  /\ a = EmptyAnalyzer
  /\ verdict = "none"

SemaNext ==
  \/ TypesPass \/ MembersPass \/ InterfacesPass \/ FunctionsPass \/ BodiesPass
  \/ SemaFails

(* All passes at once: the analyzer at the end.                            *)
Analyzed(p) ==
  LET after(s, Step(_, _)) ==
        FoldLeft(LAMBDA r, d : IF r.error THEN r ELSE Step(r, d), s, p)
  IN  after(after(after(after(after(EmptyAnalyzer, RegisterType), CheckMembers),
        RegisterInterface), RegisterFunction), AnalyzeBodies)
=============================================================================
