--------------------------------- MODULE Ast ---------------------------------
(***************************************************************************)
(* The nodes of ast.h that the semantic analysis and the type checker      *)
(* read.  A type is a tuple: <<"i32">>, <<"Pair", T>> a name with its      *)
(* arguments (the code keeps both in one text), <<"*", T>> and its kinds   *)
(* "*const", "?*", "?*const" a pointer, <<"[]", T>> a slice, <<"[1]", T>>  *)
(* an array; <<>> is the null pointer.  Fields of the same name have       *)
(* values of the same sort in all nodes: n a name, ns names, t a type, x   *)
(* and y expressions, es expressions, body statements.                     *)
(***************************************************************************)
EXTENDS Naturals, Sequences

(* Expressions.                                                            *)
None == [k |-> "none"]
Lit(t) == [k |-> "lit", t |-> <<t>>]
Id(n) == [k |-> "id", n |-> n]
Group(x) == [k |-> "group", x |-> x]
Un(op, x) == [k |-> "unary", op |-> op, x |-> x]
Bin(x, op, y) == [k |-> "binary", op |-> op, x |-> x, y |-> y]
Assign(x, op, y) == [k |-> "assign", op |-> op, x |-> x, y |-> y]
Index(x, y) == [k |-> "index", x |-> x, y |-> y]
Slice(x, es) == [k |-> "slice", x |-> x, es |-> es]
Call(x, es) == [k |-> "call", x |-> x, es |-> es]
Cast(x, t) == [k |-> "cast", x |-> x, t |-> t]
Field(x, n) == [k |-> "field", x |-> x, n |-> n]
New(t, ns, es) == [k |-> "new", t |-> t, ns |-> ns, es |-> es]
Match(x, arms) == [k |-> "match", x |-> x, arms |-> arms]
Arm(pat, ns, x) == [pat |-> pat, ns |-> ns, x |-> x]

(* Statements.  A for loop holds its init as a block of at most one.       *)
Let(n, t, x) == [k |-> "let", n |-> n, t |-> t, x |-> x]
Const(n, t, x) == [k |-> "const", n |-> n, t |-> t, x |-> x]
Do(x) == [k |-> "do", x |-> x]
Defer(x) == [k |-> "defer", x |-> x]
Return(x) == [k |-> "return", x |-> x]
If(x, body, other) == [k |-> "if", x |-> x, body |-> body, other |-> other]
While(x, body) == [k |-> "while", x |-> x, body |-> body]
For(init, x, y, body) == [k |-> "for", init |-> init, x |-> x, y |-> y, body |-> body]
Loop(body) == [k |-> "loop", body |-> body]
Unsafe(body) == [k |-> "unsafe", body |-> body]
Break == [k |-> "break"]
Continue == [k |-> "continue"]

(* Declarations.  fs are fields or parameters (Let without a value), vs    *)
(* variants with their fields, tps type parameters, ms methods.            *)
Struct(n, tps, fs, pub, pkg) ==
  [k |-> "struct", n |-> n, tps |-> tps, fs |-> fs, pub |-> pub, pkg |-> pkg]
Union(n, fs, pub, pkg) ==
  [k |-> "union", n |-> n, tps |-> <<>>, fs |-> fs, pub |-> pub, pkg |-> pkg]
Enum(n, vs, pub, pkg) == [k |-> "enum", n |-> n, vs |-> vs, pub |-> pub, pkg |-> pkg]
Variant(n, fs) == [n |-> n, fs |-> fs]
Fn(n, tps, fs, t, body, pub, pkg) ==
  [k |-> "fn", n |-> n, tps |-> tps, fs |-> fs, t |-> t, body |-> body,
   pub |-> pub, pkg |-> pkg]
Extern(n, fs, t, pub, pkg) ==
  [k |-> "extern", n |-> n, fs |-> fs, t |-> t, pub |-> pub, pkg |-> pkg]
Impl(n, iface, ms) == [k |-> "impl", n |-> n, iface |-> iface, ms |-> ms]
Interface(n, ns, pub, pkg) ==
  [k |-> "interface", n |-> n, ns |-> ns, pub |-> pub, pkg |-> pkg]
Comptime(ds) == [k |-> "comptime", ds |-> ds]
Kernel(n, ms) == [k |-> "kernel", n |-> n, ms |-> ms]

NamesOf(fs) == [i \in DOMAIN fs |-> fs[i].n]
=============================================================================
