------------------------------- MODULE Generics -------------------------------
(***************************************************************************)
(* How llvmgen_generate binds the calls of an accepted program: it looks   *)
(* for uses of templates (pass 3), declares the functions (4, 4b), emits   *)
(* an instance for each use (6) and then all other bodies (7).  A call is  *)
(* bound when it is emitted, by the text of its symbol.  Calls through a   *)
(* dot are taken to be found; what the emitted code does and the layout of *)
(* types are left out, and so are the limits of 64 templates and 1024      *)
(* globals.                                                                *)
(***************************************************************************)
EXTENDS TypeCheck

CONSTANTS Symbol(_, _)   (* the text a_b: lg_mangle, and a method's symbol  *)

VARIABLES
  lg   (* the part of the LG that binds calls:                              *)
       (*   pass, at   the pass, and how far it is in gfn_insts             *)
       (*   fns        gfn_insts: the template and argument, newest first   *)
       (*   structs    the types of gst_insts                               *)
       (*   globals    each symbol with what it was added for               *)
       (*   calls      the calls emitted so far, with what they call        *)

EmptyLG ==
  [pass |-> "prescan", at |-> 1, fns |-> <<>>, structs |-> {}, globals |-> <<>>,
   calls |-> {}]

(* What globals are added for; a function as in the types of TypeCheck.    *)
Function(n) == <<"fn", n>>
Method(t, n) == <<"fn", t, n>>
Instance(n, arg) == <<"instance", n, arg>>
Runtime(n) == <<"runtime", n>>
Nothing == <<"none">>

Template(n) == CHOOSE d \in ToSet(prog) : d.k = "fn" /\ d.n = n /\ d.tps # <<>>
Templates(kind) == {prog[i].n : i \in {j \in DOMAIN prog : prog[j].k = kind /\ prog[j].tps # <<>>}}

(***************************************************************************)
(* The search for uses.  It goes through the statements in order, but not  *)
(* into constants, groups, matches, struct literals and slices.            *)
(***************************************************************************)
BracketArg(e) == IF e.y.k = "id" THEN e.y.n ELSE ""
IsBracket(e) == e.k = "index" /\ e.x.k = "id"

RECURSIVE ScanExpr(_)
ScanExpr(e) ==
  CASE e.k = "call" ->
         LET use == IF /\ IsBracket(e.x)
                       /\ e.x.x.n \in Templates("fn")
                       /\ BracketArg(e.x) # ""
                    THEN <<[n |-> e.x.x.n, arg |-> BracketArg(e.x)]>> ELSE <<>>
         IN  use \o ScanExpr(e.x) \o FlattenSeq([i \in DOMAIN e.es |-> ScanExpr(e.es[i])])
    [] e.k \in {"binary", "assign", "index"} -> ScanExpr(e.x) \o ScanExpr(e.y)
    [] e.k \in {"unary", "field", "cast"} -> ScanExpr(e.x)
    [] OTHER -> <<>>

RECURSIVE ScanType(_)
ScanType(t) ==
  CASE t = <<>> -> {}
    [] t[1] \in Pointers \cup Arrays -> ScanType(t[2])
    [] OTHER -> IF Len(t) > 1 /\ t[1] \in Templates("struct") THEN {t} ELSE {}

(* The types and expressions of a body, each as a let.                     *)
Visit(x) == <<Let("", <<>>, x)>>
RECURSIVE ScanStmts(_)
ScanStmts(body) ==
  LET st == Head(body)
      here ==
        CASE st.k = "let" -> <<st>>
          [] st.k \in {"return", "do", "defer"} -> Visit(st.x)
          [] st.k \in {"if", "while"} ->
               Visit(st.x) \o ScanStmts(st.body)
                 \o (IF st.k = "if" THEN ScanStmts(st.other) ELSE <<>>)
          [] st.k = "for" ->
               ScanStmts(st.init) \o Visit(st.x) \o Visit(st.y) \o ScanStmts(st.body)
          [] st.k \in {"loop", "unsafe"} -> ScanStmts(st.body)
          [] OTHER -> <<>>
  IN  IF body = <<>> THEN <<>> ELSE here \o ScanStmts(Tail(body))

FindOrAddByName(g, use) ==
  IF \E i \in DOMAIN g.fns : g.fns[i].n = use.n THEN g
  ELSE [g EXCEPT !.fns = <<use>> \o @]
FindOrAdd(g, use) ==
  IF \E i \in DOMAIN g.fns : Symbol(g.fns[i].n, g.fns[i].arg) = Symbol(use.n, use.arg)
  THEN g ELSE [g EXCEPT !.fns = <<use>> \o @]

(* Methods and templates are not searched.                                 *)
ScanDecl(g, d) ==
  LET items == d.fs \o <<Let("", d.t, None)>> \o ScanStmts(d.body)
      uses == FlattenSeq([i \in DOMAIN items |-> ScanExpr(items[i].x)])
      types == UNION {ScanType(items[i].t) : i \in DOMAIN items}
  IN  IF d.k = "fn" /\ d.tps = <<>>
      THEN [FoldLeft(FindOrAdd, g, uses) EXCEPT !.structs = @ \cup types] ELSE g

(***************************************************************************)
(* Globals: the first of a name stays.                                     *)
(***************************************************************************)
RuntimeNames ==
  {"NS_println", "NS_print", "NS_println_int", "NS_println_f64", "NS_println_bool",
   "NS_println_char", "NS_string_from", "NS_string_as_str", "NS_string_free",
   "NS_string_push_str", "NS_string_len", "NS_alloc", "NS_free", "NS_exit", "printf",
   "puts", "fputs", "fflush", "malloc", "free", "ns_io_print_i32", "ns_io_print_i64",
   "ns_io_print_u32", "ns_io_print_u64", "ns_io_print_f64", "ns_io_print_bool",
   "ns_io_read_i32", "ns_io_readln"}
Aliases ==
  {"println", "print", "print_int", "print_i32", "print_i64", "print_u32", "print_u64",
   "print_f64", "print_bool", "read_int", "readln"}

AddGlobal(g, sym, what) ==
  IF sym \in DOMAIN g.globals THEN g ELSE [g EXCEPT !.globals = (sym :> what) @@ @]

DeclareMethod(g, owner, f) ==
  IF f.tps # <<>> THEN g ELSE AddGlobal(g, Symbol(owner, f.n), Method(owner, f.n))
DeclareFn(g, d) ==
  CASE d.k = "extern" \/ (d.k = "fn" /\ d.tps = <<>>) -> AddGlobal(g, d.n, Function(d.n))
    [] d.k = "impl" -> FoldLeft(LAMBDA r, f : DeclareMethod(r, d.n, f), g, d.ms)
    [] OTHER -> g

DeclareCoercion(g, d) ==
  IF d.k = "impl" /\ d.iface # ""
  THEN LET n == Coercion(d.n, d.iface) IN AddGlobal(g, n, <<"coercion", n>>)
  ELSE g

(***************************************************************************)
(* Bodies: the calls of f(..) and f[A](..), by the function `who'.         *)
(***************************************************************************)
Lookup(g, n, arg) ==
  CASE arg # "" /\ Symbol(n, arg) \in DOMAIN g.globals -> g.globals[Symbol(n, arg)]
    [] n \in DOMAIN g.globals -> g.globals[n]
    [] n \in Aliases -> Runtime(n)
    [] OTHER -> Nothing

(* Some, Ok and Err build a value; Ok and Err only where a Result is       *)
(* returned.  The arguments of a call that is bound to nothing are not     *)
(* emitted, it is the constant 0.                                          *)
RECURSIVE Calls(_, _, _, _)
Calls(g, who, ret, e) ==
  LET calls(x) == Calls(g, who, ret, x)
      all(es) == UNION {calls(es[i]) : i \in DOMAIN es}
  IN  CASE e.k = "call" /\ (e.x.k = "id" \/ IsBracket(e.x)) ->
             LET n == IF e.x.k = "id" THEN e.x.n ELSE e.x.x.n
                 arg == IF e.x.k = "id" THEN "" ELSE BracketArg(e.x)
                 to == Lookup(g, n, arg)
                 builds == n = "Some" \/ (n \in {"Ok", "Err"} /\ IsResult(ret))
             IN  CASE to # Nothing ->
                        {[by |-> who, n |-> n, arg |-> arg, to |-> to]} \cup all(e.es)
                   [] builds -> all(e.es)
                   [] OTHER -> {[by |-> who, n |-> n, arg |-> arg, to |-> Nothing]}
        [] e.k = "call" -> IF e.x.k = "field" THEN calls(e.x.x) \cup all(e.es) ELSE {}
        [] e.k \in {"group", "unary", "cast", "field"} -> calls(e.x)
        [] e.k \in {"binary", "assign", "index"} -> calls(e.x) \cup calls(e.y)
        [] e.k = "slice" -> calls(e.x) \cup all(e.es)
        [] e.k = "new" -> all(e.es)
        [] e.k = "match" ->
             IF e.arms = <<>> THEN {}
             ELSE calls(e.x) \cup UNION {calls(e.arms[i].x) : i \in DOMAIN e.arms}
        [] OTHER -> {}

(* The expressions that llg_emit_block and llg_emit_stmt emit: nothing     *)
(* behind a return, break or continue.                                     *)
RECURSIVE EmittedExprs(_)
EmittedExprs(body) ==
  LET st == Head(body)
      here ==
        CASE st.k \in {"let", "const", "return", "do", "defer"} -> {st.x}
          [] st.k = "if" -> {st.x} \cup EmittedExprs(st.body) \cup EmittedExprs(st.other)
          [] st.k = "while" -> {st.x} \cup EmittedExprs(st.body)
          [] st.k = "for" ->
               {st.x, st.y} \cup EmittedExprs(st.init) \cup EmittedExprs(st.body)
          [] st.k \in {"loop", "unsafe"} -> EmittedExprs(st.body)
          [] OTHER -> {}
      ends == st.k \in {"return", "break", "continue"}
  IN  CASE body = <<>> -> {}
        [] ends -> here
        [] OTHER -> here \cup EmittedExprs(Tail(body))

EmitBody(g, sym, who, f) ==
  IF sym \notin DOMAIN g.globals THEN g
  ELSE [g EXCEPT !.calls = @ \cup UNION {Calls(g, who, f.t, x) : x \in EmittedExprs(f.body)}]

(* An instance is declared before its body is emitted, so it may call      *)
(* itself; other instances it finds only if they were emitted before.      *)
InstantiateFn(g, inst) ==
  LET sym == Symbol(inst.n, inst.arg)
      who == Instance(inst.n, inst.arg)
  IN  IF sym \in DOMAIN g.globals THEN g
      ELSE EmitBody(AddGlobal(g, sym, who), sym, who, Template(inst.n))

EmitDecl(g, d) ==
  CASE d.k = "fn" /\ d.tps = <<>> -> EmitBody(g, d.n, Function(d.n), d)
    [] d.k = "impl" ->
         FoldLeft(LAMBDA r, f : EmitBody(r, Symbol(d.n, f.n), Method(d.n, f.n), f), g, d.ms)
    [] OTHER -> g

(***************************************************************************)
(* The machine: analysis and check, then the passes of the generator.      *)
(***************************************************************************)
GeneratorPass(p, after, g) ==
  /\ verdict = "accepted"
  /\ lg.pass = p
  /\ lg' = [g EXCEPT !.pass = after]
  /\ UNCHANGED vars

Prescan == GeneratorPass("prescan", "declare", FoldLeft(ScanDecl, lg, prog))

Declare ==
  LET runtime == [lg EXCEPT !.globals = [n \in RuntimeNames |-> Runtime(n)]]
      declared == FoldLeft(DeclareFn, runtime, prog)
  IN  GeneratorPass("declare", "instances", FoldLeft(DeclareCoercion, declared, prog))

Instantiate ==
  /\ lg.pass = "instances"
  /\ lg.at <= Len(lg.fns)
  /\ lg' = [InstantiateFn(lg, lg.fns[lg.at]) EXCEPT !.at = @ + 1]
  /\ UNCHANGED vars

Instantiated ==
  /\ lg.pass = "instances"
  /\ lg.at > Len(lg.fns)
  /\ lg' = [lg EXCEPT !.pass = "bodies"]
  /\ UNCHANGED vars

EmitBodies == GeneratorPass("bodies", "end", FoldLeft(EmitDecl, lg, prog))

Init == SemaInit /\ lg = EmptyLG
Analyse == (SemaNext \/ CheckNext) /\ UNCHANGED lg
Next == Analyse \/ Prescan \/ Declare \/ Instantiate \/ Instantiated \/ EmitBodies
Spec == Init /\ [][Next]_<<vars, lg>>
=============================================================================
