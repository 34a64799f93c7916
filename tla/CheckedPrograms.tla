--------------------------- MODULE CheckedPrograms ---------------------------
(***************************************************************************)
(* What the analysis, the type checker and the generator promise of a      *)
(* program, stated over the program itself: the places of its bodies at    *)
(* which an expression stands, each with the names that are declared       *)
(* there.  The types of names are the declared ones only; nothing is       *)
(* inferred.                                                               *)
(***************************************************************************)
EXTENDS Generics

LOCAL INSTANCE Relation

(* What stands between the brackets of a global name that is no function   *)
(* is left out: the analysis takes it for the argument of a template.      *)
Brackets(e) == e.x.k = "id" /\ e.x.n \in a.names \ (DOMAIN a.fn \cup DOMAIN a.extern)
Kids(e) ==
  CASE e.k \in {"group", "unary", "cast", "field"} -> <<e.x>>
    [] e.k = "index" -> IF Brackets(e) THEN <<e.x>> ELSE <<e.x, e.y>>
    [] e.k \in {"binary", "assign"} -> <<e.x, e.y>>
    [] e.k \in {"slice", "call"} -> <<e.x>> \o e.es
    [] e.k = "new" -> e.es
    [] e.k = "match" -> <<e.x>>
    [] OTHER -> <<>>

Names(ns, t, const) == [n \in ns |-> [t |-> t, const |-> const]]

RECURSIVE SitesOf(_, _, _)
SitesOf(e, env, u) ==
  LET kids == [i \in DOMAIN Kids(e) |-> SitesOf(Kids(e)[i], env, u)]
      arm(m) == SitesOf(m.x, Names(ToSet(m.ns), <<>>, TRUE) @@ env, u)
      arms == IF e.k = "match" THEN [i \in DOMAIN e.arms |-> arm(e.arms[i])] ELSE <<>>
  IN  <<[e |-> e, env |-> env, u |-> u]>> \o FlattenSeq(kids \o arms)

RECURSIVE BlockSites(_, _, _)
BlockSites(body, env, u) ==
  LET st == Head(body)
      here ==
        CASE st.k \in {"let", "const", "return", "do", "defer"} -> SitesOf(st.x, env, u)
          [] st.k = "if" ->
               SitesOf(st.x, env, u) \o BlockSites(st.body, env, u) \o BlockSites(st.other, env, u)
          [] st.k = "while" -> SitesOf(st.x, env, u) \o BlockSites(st.body, env, u)
          [] st.k = "loop" -> BlockSites(st.body, env, u)
          [] st.k = "unsafe" -> BlockSites(st.body, env, u + 1)
          [] st.k = "for" ->
               BlockSites(st.init \o <<Do(st.x), Do(st.y), Loop(st.body)>>, env, u)
          [] OTHER -> <<>>
      own == IF st.k \in {"let", "const"} THEN Names({st.n}, st.t, st.k = "const") ELSE <<>>
  IN  IF body = <<>> THEN <<>> ELSE here \o BlockSites(Tail(body), own @@ env, u)

FunctionSites(f) ==
  LET functions == [n \in DOMAIN a.fn \cup DOMAIN a.extern |->
                     [t |-> <<"fn", n>>, const |-> TRUE]]
      params == [n \in ToSet(NamesOf(f.fs)) |->
                  [t |-> f.fs[FieldIndex(f, n)].t, const |-> FALSE]]
  IN  BlockSites(f.body, params @@ functions, 0)

Functions == FlattenSeq([i \in DOMAIN prog |-> Bodies(prog[i])])
AtSites(P(_, _)) ==
  \A i \in DOMAIN Functions :
    LET f == Functions[i]
        sites == FunctionSites(f)
    IN  \A j \in DOMAIN sites : P(f, sites[j])

IsNamed(s, x) == x.k = "id" /\ x.n \in DOMAIN s.env
Accepted == verdict = "accepted"

(* The tables hold registered names only, and a verdict ends the run:      *)
(* register_global_name before every push of a top-level declaration.      *)
TypeOK ==
  /\ phase \in {"types", "members", "interfaces", "functions", "bodies", "check", "done"}
  /\ verdict \in {"none", "accepted", "rejected", "crashed"}
  /\ (phase = "done") = (verdict # "none")
  /\ next \in 1..(Len(prog) + 1)
  /\ DOMAIN a.struct \cup DOMAIN a.enum \cup DOMAIN a.union \cup DOMAIN a.interface
       \cup DOMAIN a.fn \cup DOMAIN a.extern \subseteq a.names
  /\ \A m \in DOMAIN a.methods : a.methods[m].n = m[2]
  /\ phase \in {"bodies", "check"} => \A m \in DOMAIN a.methods : m[1] \in DOMAIN a.struct
  /\ verdict # "accepted" => lg = EmptyLG
  /\ \A i \in DOMAIN lg.fns : lg.fns[i].n \in Templates("fn")
  /\ \A c \in lg.calls : c.to = Nothing \/ c.n \in Aliases \/ \E sym \in DOMAIN lg.globals : c.to = lg.globals[sym]

(* The five passes make declarations usable before they are written: a     *)
(* program is accepted exactly when it is with its declarations reversed   *)
(* or rotated.                                                             *)
OrderFree ==
  phase = "done" =>
    \A p \in {Reverse(prog), Tail(prog) \o <<Head(prog)>>} : Accepts(p) = Accepted

(* No two top-level declarations of an accepted program share a name,      *)
(* whatever the passes that register them, the constants of comptime       *)
(* blocks, kernel functions and coercions included.                        *)
TopNames(d) ==
  CASE d.k = "impl" -> IF d.iface = "" THEN <<>> ELSE <<Coercion(d.n, d.iface)>>
    [] d.k = "comptime" -> NamesOf(d.ds)
    [] d.k = "kernel" -> NamesOf(d.ms)
    [] OTHER -> <<d.n>>
NamesDistinct ==
  Accepted => NoDuplicate(FlattenSeq([i \in DOMAIN prog |-> TopNames(prog[i])]))

(* Every symbol of an accepted body is declared where it stands, or        *)
(* global, or built in.                                                    *)
Resolved ==
  LET symbol(f, s) ==
        s.e.k = "id" =>
          \/ s.e.n \in DOMAIN s.env
          \/ s.e.n \in ToSet(FlattenSeq([i \in DOMAIN prog |-> TopNames(prog[i])]))
          \/ s.e.n \in BuiltinIO \cup Builtins \cup {"None", "Some", "Ok", "Err"}
  IN  Accepted => AtSites(symbol)

(* An accepted match on a variable of a declared enum, Option or Result    *)
(* type has an arm for every value and no two for the same, and binds all  *)
(* of a variant's values or none.  The patterns of an enum are the         *)
(* qualified ones here: a bare Some, None, Ok or Err ends check_match_expr *)
(* (the run match_hole).                                                   *)
MatchesCover ==
  LET covers(f, s) ==
        /\ s.e.k = "match"
        /\ IsNamed(s, s.e.x)
        =>
        LET t == s.env[s.e.x.n].t
            arms == s.e.arms
            pats == [i \in DOMAIN arms |-> arms[i].pat]
            enum == t # <<>> /\ IsEnum(a, t)
            judged == /\ t # <<>>
                      /\ enum \/ IsOption(t) \/ IsResult(t)
                      /\ enum => \A i \in DOMAIN pats : Len(pats[i]) = 2 \/ pats[i] = <<"_">>
            pattern(v) == IF enum THEN <<t[1], v>> ELSE <<v>>
            all == {pattern(v) : v \in SubjectVariants(a, t)}
        IN  judged =>
              /\ NoDuplicate(pats)
              /\ ToSet(pats) \subseteq all \cup {<<"_">>}
              /\ all \subseteq ToSet(pats) \/ <<"_">> \in ToSet(pats)
              /\ \A i \in DOMAIN arms :
                   arms[i].ns # <<>> =>
                     Len(arms[i].ns) = Len(BindingTypes(a, t, Last(pats[i])))
  IN  Accepted => AtSites(covers)

(* Every accepted match on a variable of a declared enum type has an arm    *)
(* for each variant, or a wildcard: the message of typeck.c:1210.  A bare   *)
(* Some, None, Ok or Err shows that it does not.                           *)
EnumMatchesExhaustive ==
  LET exhaustive(f, s) ==
        /\ s.e.k = "match"
        /\ IsNamed(s, s.e.x)
        /\ s.env[s.e.x.n].t # <<>>
        /\ IsEnum(a, s.env[s.e.x.n].t)
        =>
        LET t == s.env[s.e.x.n].t
            pats == {s.e.arms[i].pat : i \in DOMAIN s.e.arms}
        IN  <<"_">> \in pats \/ {<<t[1], v>> : v \in SubjectVariants(a, t)} \subseteq pats
  IN  Accepted => AtSites(exhaustive)

(* A field of a union is read or written in an unsafe block only, through  *)
(* a variable or a pointer.                                                *)
UnionInUnsafe ==
  LET guarded(f, s) ==
        /\ s.e.k = "field"
        /\ IsNamed(s, s.e.x)
        /\ \E n \in DOMAIN a.union :
             s.env[s.e.x.n].t \in {<<n>>} \cup {<<p, <<n>>>> : p \in Pointers}
        => s.u > 0
  IN  Accepted => AtSites(guarded)

(* No assignment to a const of a function, a match binding or a function,  *)
(* whatever they hide or are hidden by.  Top-level constants are not among *)
(* the names the checker keeps (typeck.c:1481).                            *)
ConstUnassigned ==
  LET assigns(f, s) ==
        s.e.k = "assign" /\ IsNamed(s, s.e.x) => ~s.env[s.e.x.n].const
  IN  Accepted => AtSites(assigns)

(* An accepted function calls no private function of another package by    *)
(* its name, builds no value of a private struct with a field, and has no  *)
(* variable of a declared type that is private there.  Names inside        *)
(* Option, Result or a generic struct are not looked up by the code.       *)
RECURSIVE Element(_)
Element(t) == IF t # <<>> /\ t[1] \in Pointers \cup Arrays THEN Element(t[2]) ELSE t
PrivateStaysPrivate ==
  LET seen(f, d) == d.pub \/ d.pkg = f.pkg
      TypeSeen(f, t) ==
        Len(Element(t)) = 1 => \A d \in TypeDecls(a, Element(t)[1]) : seen(f, d)
      private(f, s) ==
        /\ s.e.k = "call" /\ IsNamed(s, s.e.x) /\ s.env[s.e.x.n].t = <<"fn", s.e.x.n>>
           => seen(f, Callee(a, <<"fn", s.e.x.n>>))
        /\ s.e.k = "new" /\ s.e.ns # <<>> => TypeSeen(f, s.e.t)
        /\ \A n \in DOMAIN s.env :
             s.env[n].t # <<>> /\ s.env[n].t[1] # "fn" => TypeSeen(f, s.env[n].t)
  IN  Accepted => AtSites(private)

(* check_expr runs out of stack only on a top-level constant without a     *)
(* type whose value reads the constant again.                              *)
CrashNeedsCycle ==
  LET untyped == {i \in DOMAIN prog : prog[i].k = "const" /\ prog[i].t = <<>>}
      read(i) == LET sites == SitesOf(prog[i].x, <<>>, 0)
                 IN  {sites[j].e.n : j \in {l \in DOMAIN sites : sites[l].e.k = "id"}}
      ns == {prog[i].n : i \in untyped}
      reads == [m, n \in ns |-> \E i \in untyped : prog[i].n = m /\ n \in read(i)]
  IN  verdict = "crashed" => \E n \in ns : TransitiveClosure(reads, ns)[n, n]

(* The symbols of the emitted module, each with what it names: what the    *)
(* program declares, templates among it, the instances it calls, and the   *)
(* runtime.  Two of one text cannot be told apart (lg_mangle,              *)
(* llg_declare_fn).                                                        *)
Symbols ==
  LET fns == {f.n : f \in {d \in ToSet(prog) : d.k = "extern" \/ (d.k = "fn" /\ d.tps = <<>>)}}
      methods == UNION {{<<d.n, f.n>> : f \in ToSet(d.ms)} :
                          d \in {b \in ToSet(prog) : b.k = "impl"}}
      coerced == {Coercion(d.n, d.iface) :
                    d \in {b \in ToSet(prog) : b.k = "impl" /\ b.iface # ""}}
      uses == {<<c.n, c.arg>> : c \in {b \in lg.calls : b.n \in Templates("fn") /\ b.arg # ""}}
  IN  {<<n, Function(n)>> : n \in fns} \cup {<<n, Runtime(n)>> : n \in RuntimeNames}
        \cup {<<Symbol(m[1], m[2]), Method(m[1], m[2])>> : m \in methods}
        \cup {<<n, <<"coercion", n>>>> : n \in coerced}
        \cup {<<Symbol(u[1], u[2]), Instance(u[1], u[2])>> : u \in uses}
        \cup {<<n, <<"template", n>>>> : n \in Templates("fn")}
Clashes(sym) == Cardinality({s \in Symbols : s[1] = sym}) > 1

RECURSIVE HoldsConst(_)
HoldsConst(body) ==
  \E i \in DOMAIN body :
    LET st == body[i]
    IN  \/ st.k = "const"
        \/ st.k \in {"if", "while", "for", "loop", "unsafe"} /\ HoldsConst(st.body)
        \/ st.k = "if" /\ HoldsConst(st.other)
        \/ st.k = "for" /\ HoldsConst(st.init)

(* The search for uses of templates and the emission of bodies are two     *)
(* walks over the same trees (llvmgen.c:2328, 1497), and symbols are texts *)
(* put together.  In a top-level function without a const, group, match,   *)
(* struct literal or slice, each emitted call of a template f[A] is bound  *)
(* to the instance of f for A, and the types of its variables are found.   *)
(* Wherever it is emitted, a call f[A] is bound to that instance or to     *)
(* nothing, and a call of a declared name to that declaration, whatever    *)
(* hides the name.  Names of the same text are left out.                   *)
CallsBindByName ==
  LET quiet(f) ==
        /\ ~HoldsConst(f.body)
        /\ LET sites == FunctionSites(f)
           IN  \A j \in DOMAIN sites : sites[j].e.k \notin {"group", "match", "new", "slice"}
      searched == {f \in ToSet(prog) : f.k = "fn" /\ f.tps = <<>> /\ quiet(f)}
      template(c) == c.n \in Templates("fn") /\ c.arg # ""
  IN  lg.pass = "end" =>
        /\ \A c \in lg.calls :
             IF template(c)
             THEN \/ Clashes(Symbol(c.n, c.arg))
                  \/ Clashes(c.n)
                  \/ c.to = Instance(c.n, c.arg)
                  \/ c.to = Nothing /\ c.by \notin {Function(f.n) : f \in searched}
             ELSE c.n \in DOMAIN a.fn \cup DOMAIN a.extern =>
                    Clashes(c.n) \/ c.to = Function(c.n)
        /\ \A f \in searched :
             LET sites == FunctionSites(f)
             IN  \A j \in DOMAIN sites : \A n \in DOMAIN sites[j].env :
                   sites[j].env[n].t = <<>> \/ ScanType(sites[j].env[n].t) \subseteq lg.structs
=============================================================================
