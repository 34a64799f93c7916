---------------------------- MODULE DeferScopes -----------------------------
(***************************************************************************)
(* What `defer' promises, with no compiler in sight: a running function    *)
(* has a path of open scopes; a defer registers an expression with the     *)
(* innermost one; when scopes are left their expressions run, newest       *)
(* first, each exactly once, and nothing is left behind.                   *)
(***************************************************************************)
EXTENDS Naturals, Sequences

CONSTANT Expr   (* the deferred expressions *)

VARIABLES
  path,     (* the open scopes, outermost first; empty outside a call      *)
  pending,  (* registered expressions that have not run: [d, scope]        *)
  ran,      (* the last expression run                                     *)
  leaving   (* the scope whose expressions run, 0 if none is being left    *)

scopeVars == <<path, pending, ran, leaving>>

OpenIn(s, p) == \E i \in DOMAIN p : p[i] = s

Init ==
  /\ path = <<>>
  /\ pending = <<>>
  /\ ran = [d |-> 0, due |-> TRUE]
  /\ leaving = 0

(* Scopes are entered and left.  A scope that is left has nothing pending, *)
(* and one whose expressions began to run is left.                         *)
Move ==
  /\ path' # path
  /\ \A i \in DOMAIN pending : OpenIn(pending[i].scope, path')
  /\ ~OpenIn(leaving, path') \/ leaving = 0
  /\ leaving' = 0
  /\ UNCHANGED <<pending, ran>>

Register ==
  /\ path # <<>>
  /\ leaving = 0
  /\ \E d \in Expr : pending' = Append(pending, [d |-> d, scope |-> path[Len(path)]])
  /\ UNCHANGED <<path, ran, leaving>>

Run ==
  /\ pending # <<>>
  /\ LET p == pending[Len(pending)]
     IN /\ ran' = [d |-> p.d, due |-> TRUE]
        /\ leaving' = p.scope
  /\ pending' = SubSeq(pending, 1, Len(pending) - 1)
  /\ UNCHANGED path

Next == Move \/ Register \/ Run

Spec == Init /\ [][Next]_scopeVars

=============================================================================
