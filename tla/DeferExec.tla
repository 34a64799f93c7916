----------------------------- MODULE DeferExec ------------------------------
(***************************************************************************)
(* The code DeferCodegen emits, executed.  The function body is emitted    *)
(* first; then one call of the function runs, with every conditional       *)
(* branch free to go either way.  The run keeps, as history, which         *)
(* deferred expressions the source has registered and not yet run, each    *)
(* with the block scope that registered it.                                *)
(***************************************************************************)
EXTENDS DeferCodegen

VARIABLES
  at,       (* the basic block that executes, 0 before and after the call  *)
  ip,       (* its next instruction                                        *)
  dest,     (* the block a branch goes to, 0 outside a branch              *)
  pending,  (* registered and not yet run: [d, scope], in order            *)
  ran,      (* the last deferred expression run, and whether it was due    *)
  leaving,  (* the scope whose deferred calls run, 0 if none               *)
  over      (* the call has returned                                       *)

run == <<at, ip, dest, pending, ran, leaving, over>>
execVars == <<code, cur, defers, marks, scopes, loops, frames, left,
              at, ip, dest, pending, ran, leaving, over>>

(* The scopes that stay open when control comes to the start of block b:   *)
(* b's own path, without the scope whose body starts there.                *)
Kept(b) ==
  IF Last(code[b].path) = b THEN Front(code[b].path) ELSE code[b].path

InScope(p, path) == \E i \in DOMAIN path : path[i] = p.scope
NotIn(path) == {i \in DOMAIN pending : ~InScope(pending[i], path)}

ExecInit ==
  /\ Init
  /\ at = 0
  /\ ip = 1
  /\ dest = 0
  /\ pending = <<>>
  /\ ran = [d |-> 0, due |-> TRUE]
  /\ leaving = 0
  /\ over = FALSE

Generate == Next /\ UNCHANGED run

Call ==
  /\ frames = <<>>
  /\ at = 0 /\ dest = 0 /\ ~over
  /\ dest' = 1
  /\ UNCHANGED <<vars, at, ip, pending, ran, leaving, over>>

AtInstr(op) ==
  /\ at # 0 /\ dest = 0
  /\ ip <= Len(code[at].ins)
  /\ code[at].ins[ip].op = op
  /\ ip' = ip + 1
  /\ UNCHANGED <<vars, at, dest, over>>

Register ==
  /\ AtInstr("reg")
  /\ pending' = Append(pending, [d |-> code[at].ins[ip].d,
                                 scope |-> Last(code[at].path)])
  /\ UNCHANGED <<ran, leaving>>

(* The newest pending entry of the expression is the one that runs.        *)
RunDefer ==
  LET d == code[at].ins[ip].d
      due == {i \in DOMAIN pending : pending[i].d = d}
  IN /\ AtInstr("run")
     /\ ran' = [d |-> d, due |-> due # {}]
     /\ IF due = {} THEN UNCHANGED <<pending, leaving>>
        ELSE LET i == CHOOSE i \in due : \A j \in due : j <= i
             IN /\ pending' = RemoveAt(pending, i)
                /\ leaving' = pending[i].scope

AtTerm(ops) ==
  /\ at # 0 /\ dest = 0
  /\ ip > Len(code[at].ins)
  /\ code[at].term.op \in ops
  /\ UNCHANGED vars

(* A branch closes every scope that is not kept, the innermost first; what *)
(* is still pending there, and after it, can never run.                    *)
Branch ==
  /\ AtTerm({"br", "condbr"})
  /\ \E b \in code[at].term.to :
       /\ dest' = b
       /\ pending' = IF NotIn(Kept(b)) = {} THEN pending
                     ELSE SubSeq(pending, 1, Min(NotIn(Kept(b))) - 1)
  /\ leaving' = 0
  /\ UNCHANGED <<at, ip, ran, over>>

Arrive ==
  /\ dest # 0
  /\ at' = dest
  /\ ip' = 1
  /\ dest' = 0
  /\ UNCHANGED <<vars, pending, ran, leaving, over>>

Return ==
  /\ AtTerm({"ret"})
  /\ over' = TRUE
  /\ at' = 0
  /\ pending' = <<>>
  /\ leaving' = 0
  /\ UNCHANGED <<ip, dest, ran>>

Done == over /\ UNCHANGED execVars

ExecNext ==
  \/ Generate
  \/ Call \/ Register \/ RunDefer \/ Branch \/ Arrive \/ Return
  \/ Done

ExecSpec == ExecInit /\ [][ExecNext]_execVars

-----------------------------------------------------------------------------
(* What a defer promises: see DeferScopes.                                 *)
CurrentPath ==
  IF at = 0 /\ dest = 0 THEN <<>>
  ELSE IF dest # 0 THEN Kept(dest)
  ELSE code[at].path

Scopes == INSTANCE DeferScopes WITH Expr <- 1 .. Budget, path <- CurrentPath

(* The emitted code implements block scoped defers: every deferred         *)
(* expression that is registered runs exactly once, newest first, when its *)
(* block is left, on whatever way out (lg_emit_scope_defers,               *)
(* lg_emit_defers_range and their callers).                                *)
ImplementsScopes == Scopes!Spec

(* Whatever break and continue leave behind, a deferred call is only ever  *)
(* executed for a registration that is still waiting: no block runs a      *)
(* defer of a branch that was not taken, or one that ran already.  LG.defers *)
(* is compile time state, cut back at each block's end and at each jump.   *)
RunsAreDue == ran.due

(* A jump runs at least what its own block registered: whatever a branch   *)
(* leaves unrun belongs to a block further out (lg_emit_scope_defers).     *)
LosesOuterOnly ==
  dest = 0 /\ dest' # 0 /\ at # 0 =>
    \A i \in NotIn(Kept(dest')) : pending[i].scope # Last(code[at].path)
JumpsRunOwnBlock == [][LosesOuterOnly]_execVars

(* A return, written or made by `?', runs everything that is still         *)
(* registered, also after breaks and continues further up the function     *)
(* (the range from 0 in lg_emit_defers_range).                             *)
ReturnsRunAll == [][~over /\ over' => pending = <<>>]_execVars

(* "block terminated by return/break/continue -- defers already emitted":  *)
(* a branch out of blocks leaves none of their defers unrun.               *)
LeftScopesAreDone ==
  [][dest = 0 /\ dest' # 0 /\ at # 0 => NotIn(Kept(dest')) = {}]_execVars

=============================================================================
