---------------------------- MODULE DeferCodegen ----------------------------
(***************************************************************************)
(* Statement emission of the LLVM back end (llvmgen.c): how the nested     *)
(* blocks of one function body become basic blocks, and where the calls of *)
(* deferred expressions are emitted.  The recursive descent of             *)
(* llg_emit_block / llg_emit_stmt over the syntax tree is a stack of       *)
(* frames; the tree itself is chosen one statement at a time, so that a    *)
(* behaviour is the emission of one arbitrary function body.               *)
(*                                                                         *)
(* Only what decides control and the place of defers is kept.  Straight    *)
(* line code (let, const, expressions without `?') emits no branch and is  *)
(* left out.  The conditions of if, while and for hold no `?' here: one    *)
(* before the statement emits the same blocks.  A deferred expression      *)
(* holds no `?'.  The parser builds no bare block statement.               *)
(***************************************************************************)
EXTENDS Naturals, Sequences, SequencesExt

CONSTANTS
  Kinds,      (* the statement kinds the function body may use             *)
  AnyDepth,   (* FALSE: break and continue stand directly in a loop's body *)
  Budget,     (* number of statements of the body; bounds the model        *)
  MaxDefers,  (* length of LG.defers, 256 in the code                      *)
  MaxScopes,  (* length of LG.scope_defer_marks, 64 in the code            *)
  MaxLoops    (* length of LG.loops, 64 in the code                        *)

AllKinds == {"try", "return", "returnTry", "defer", "if", "while", "loop",
             "unsafe", "for", "break", "continue"}

ASSUME ConstantsAssumption ==
  /\ Kinds \subseteq AllKinds
  /\ AnyDepth \in BOOLEAN
  /\ Budget \in Nat
  /\ MaxDefers \in Nat
  /\ MaxScopes \in Nat \ {0}
  /\ MaxLoops \in Nat

VARIABLES
  code,    (* the function's basic blocks, in the order they are appended  *)
  cur,     (* the block the builder is positioned at                       *)
  defers,  (* LG.defers[0 .. defer_count-1]                                *)
  marks,   (* LG.scope_defer_marks[0 .. scope_defer_depth-1]               *)
  scopes,  (* the list at LG.scope: the block its statements start in, or  *)
           (* 0 for a scope that holds only parameters or a for variable   *)
  loops,   (* LG.loops[0 .. loop_depth-1]                                  *)
  frames,  (* the active calls of llg_emit_block and their constructs      *)
  left     (* statements the body may still have                           *)

vars == <<code, cur, defers, marks, scopes, loops, frames, left>>

-----------------------------------------------------------------------------
(* Basic blocks.  `path' is the scope list at the block's place in the     *)
(* source: it is not emitted, the run of the code refers to it.  The "reg" *)
(* instruction marks the place of a defer statement, which emits nothing.  *)

NoTerm == [op |-> "none", to |-> {}, by |-> "flow"]
Ret == [op |-> "ret", to |-> {}, by |-> "flow"]
Br(b) == [op |-> "br", to |-> {b}, by |-> "flow"]
Leave(b, stmt) == [op |-> "br", to |-> {b}, by |-> stmt]
CondBr(b1, b2) == [op |-> "condbr", to |-> {b1, b2}, by |-> "flow"]

Block(ins, term, path, of) ==
  [ins |-> ins, term |-> term, path |-> path, of |-> of]
Empty(path, of) == Block(<<>>, NoTerm, path, of)

IsOpen(c, b) == c[b].term = NoTerm
Emit(c, b, is) == [c EXCEPT ![b].ins = @ \o is]
Close(c, b, t) == [c EXCEPT ![b].term = t]

(* Mutant of FallTo: a block without instructions is taken as done.        *)
FallToIfUsed(c, b, to) ==
  IF IsOpen(c, b) /\ c[b].ins # <<>> THEN Close(c, b, Br(to)) ELSE c

(* if (!LLVMGetBasicBlockTerminator(end)) LLVMBuildBr(b, to)               *)
FallTo(c, b, to) == IF IsOpen(c, b) THEN Close(c, b, Br(to)) ELSE c

(* Mutant of Runs: oldest first.                                           *)
RunsOldestFirst(from) ==
  [i \in 1 .. Len(defers) - from |-> [op |-> "run", d |-> defers[from + i]]]

(* lg_emit_defers_range: the deferred calls above `from', newest first.    *)
Runs(from) ==
  [i \in 1 .. Len(defers) - from |->
     [op |-> "run", d |-> defers[Len(defers) + 1 - i]]]

(* Mutant of Unmarked: pops only while more than one scope is left.        *)
UnmarkedButLast(m) == IF Len(m) < 2 THEN m ELSE Front(m)

(* What lg_push_scope and lg_pop_scope do to the marks.                    *)
Marked(m, count) == IF Len(m) < MaxScopes THEN Append(m, count) ELSE m
Unmarked(m) == IF m = <<>> THEN m ELSE Front(m)
Mark == IF marks = <<>> THEN 0 ELSE Last(marks)

(* Mutant of LoopPopped: loop_depth is never counted down.                 *)
LoopKept == loops

(* A loop is pushed only while there is room and popped only if one is     *)
(* there.                                                                  *)
LoopPushed(brk, cont) ==
  IF Len(loops) < MaxLoops THEN Append(loops, [brk |-> brk, cont |-> cont])
                           ELSE loops
LoopPopped == IF loops = <<>> THEN loops ELSE Front(loops)

(* One active call: the construct whose block is emitted, the block to     *)
(* continue at (`next': else, condition or post block) and the done block. *)
Frame(kind, next, done, alt) ==
  [kind |-> kind, next |-> next, done |-> done, alt |-> alt]

Top == Last(frames)
Base == Front(frames)
Replace(f) == Append(Base, f)

-----------------------------------------------------------------------------
Init ==
  /\ code = <<Empty(<<0, 1>>, "entry")>>
  /\ cur = 1
  /\ defers = <<>>
  /\ scopes = <<0, 1>>
  /\ marks = Marked(Marked(<<>>, 0), 0)
  /\ loops = <<>>
  /\ frames = <<Frame("body", 0, 0, "none")>>
  /\ left = Budget

(* Mutant of AtStmt: statements after a terminator are emitted too.        *)
AtStmtUnchecked(kind) ==
  /\ frames # <<>>
  /\ Top.kind # "elif"
  /\ kind \in Kinds
  /\ left > 0
  /\ left' = left - 1

(* llg_emit_block goes on with the next statement only while the block     *)
(* has no terminator.                                                      *)
AtStmt(kind) ==
  /\ frames # <<>>
  /\ Top.kind # "elif"
  /\ IsOpen(code, cur)
  /\ kind \in Kinds
  /\ left > 0
  /\ left' = left - 1

(* An expression with the `?' operator: the error path runs every deferred *)
(* call of the function and returns, the code goes on in the ok block.     *)
TryInto(c) ==
  LET ok == Len(c) + 1
      err == Len(c) + 2
  IN Close(c, cur, CondBr(ok, err))
       \o <<Empty(scopes, "try"), Block(Runs(0), Ret, scopes, "try")>>

TryStmt ==
  /\ AtStmt("try")
  /\ code' = TryInto(code)
  /\ cur' = Len(code) + 1
  /\ UNCHANGED <<defers, marks, scopes, loops, frames>>

(* Mutant of ReturnStmt: only the innermost scope's deferred calls.        *)
ReturnScopeOnly ==
  /\ AtStmt("return")
  /\ code' = Close(Emit(code, cur, Runs(Mark)), cur, Ret)
  /\ UNCHANGED <<cur, defers, marks, scopes, loops, frames>>

(* return: the deferred calls come first, then the value.  The count stays *)
(* until the block ends.                                                   *)
ReturnStmt ==
  /\ AtStmt("return")
  /\ code' = Close(Emit(code, cur, Runs(0)), cur, Ret)
  /\ UNCHANGED <<cur, defers, marks, scopes, loops, frames>>

ReturnTryStmt ==
  /\ AtStmt("returnTry")
  /\ code' = Close(TryInto(Emit(code, cur, Runs(0))), Len(code) + 1, Ret)
  /\ cur' = Len(code) + 1
  /\ UNCHANGED <<defers, marks, scopes, loops, frames>>

(* Mutant of DeferStmt: the array's length is not checked.                 *)
DeferUnchecked ==
  /\ AtStmt("defer")
  /\ code' = Emit(code, cur, <<[op |-> "reg", d |-> left]>>)
  /\ defers' = Append(defers, left)
  /\ UNCHANGED <<cur, marks, scopes, loops, frames>>

(* A defer beyond the array is dropped without a word.  Statements are     *)
(* numbered by the budget left, which names the deferred expression.       *)
DeferStmt ==
  /\ AtStmt("defer")
  /\ code' = Emit(code, cur, <<[op |-> "reg", d |-> left]>>)
  /\ defers' = IF Len(defers) < MaxDefers THEN Append(defers, left) ELSE defers
  /\ UNCHANGED <<cur, marks, scopes, loops, frames>>

(* break and continue run the deferred calls of the innermost scope only.  *)
JumpStmt(kind, target) ==
  /\ AtStmt(kind)
  /\ \E i \in DOMAIN frames : frames[i].kind \in {"while", "loop", "for"}
  /\ AnyDepth \/ Top.kind \in {"while", "loop", "for"}
  /\ code' = LET c == Emit(code, cur, Runs(Mark))
             IN IF loops = <<>> THEN c
                ELSE Close(c, cur, Leave(target, kind))
  /\ defers' = SubSeq(defers, 1, Mark)
  /\ UNCHANGED <<cur, marks, scopes, loops, frames>>

BreakStmt == JumpStmt("break", Last(loops).brk)
ContinueStmt == JumpStmt("continue", Last(loops).cont)

(* Entering the block of a construct: lg_push_scope at the start of        *)
(* llg_emit_block, once per scope in `ids'.                                *)
EnterBlock(start, f, fs) ==
  /\ cur' = start
  /\ scopes' = Append(scopes, start)
  /\ marks' = Marked(marks, Len(defers))
  /\ frames' = Append(fs, f)

(* The condition is emitted before; alt is the kind of the else branch.    *)
IfBlocks(alt) ==
  LET then == Len(code) + 1
      else == Len(code) + 2
      done == Len(code) + 3
  IN /\ code' = Close(code, cur, CondBr(then, else))
                  \o <<Empty(Append(scopes, then), "if"),
                       Empty(IF alt = "block" THEN Append(scopes, else)
                             ELSE scopes, "if"),
                       Empty(scopes, "if")>>
     /\ EnterBlock(then, Frame("then", else, done, alt), frames)
     /\ UNCHANGED <<defers, loops>>

IfStmt ==
  /\ AtStmt("if")
  /\ \E alt \in {"none", "block"} : IfBlocks(alt)

(* if .. else if: the inner if is one more statement of the budget.        *)
IfElseIfStmt ==
  /\ AtStmt("if")
  /\ IfBlocks("if")

(* else if: the nested if is emitted straight into the else block.         *)
ElseIf ==
  /\ frames # <<>>
  /\ Top.kind = "elif"
  /\ cur = Top.next
  /\ \/ /\ \E alt \in {"none", "block"} : IfBlocks(alt)
        /\ UNCHANGED left
     \/ /\ IfBlocks("if")
        /\ left > 0
        /\ left' = left - 1

WhileStmt ==
  LET cond == Len(code) + 1
      body == Len(code) + 2
      done == Len(code) + 3
  IN /\ AtStmt("while")
     /\ code' = Close(code, cur, Br(cond))
                  \o <<Block(<<>>, CondBr(body, done), scopes, "while"),
                       Empty(Append(scopes, body), "while"),
                       Empty(scopes, "while")>>
     /\ loops' = LoopPushed(done, cond)
     /\ EnterBlock(body, Frame("while", cond, done, "none"), frames)
     /\ UNCHANGED defers

(* loop and unsafe are one case of llg_emit_stmt.                          *)
LoopOrUnsafe(kind) ==
  LET body == Len(code) + 1
      done == Len(code) + 2
  IN /\ AtStmt(kind)
     /\ code' = Close(code, cur, Br(body))
                  \o <<Empty(Append(scopes, body), kind), Empty(scopes, kind)>>
     /\ loops' = LoopPushed(done, body)
     /\ EnterBlock(body, Frame(kind, done, done, "none"), frames)
     /\ UNCHANGED defers

LoopStmt == LoopOrUnsafe("loop")
UnsafeStmt == LoopOrUnsafe("unsafe")

(* for: a scope for the init variable, then the body's own.  Without a     *)
(* condition the condition block goes on to the body.  The post block only *)
(* branches.                                                               *)
ForStmt ==
  LET cond == Len(code) + 1
      body == Len(code) + 2
      post == Len(code) + 3
      done == Len(code) + 4
      inner == Append(scopes, 0)
  IN /\ AtStmt("for")
     /\ \E test \in {CondBr(body, done), Br(body)} :
          code' = Close(code, cur, Br(cond))
                    \o <<Block(<<>>, test, inner, "for"),
                         Empty(Append(inner, body), "for"),
                         Block(<<>>, Br(cond), inner, "for"),
                         Empty(scopes, "for")>>
     /\ loops' = LoopPushed(done, post)
     /\ cur' = body
     /\ scopes' = Append(inner, body)
     /\ marks' = Marked(Marked(marks, Len(defers)), Len(defers))
     /\ frames' = Append(frames, Frame("for", post, done, "none"))
     /\ UNCHANGED defers

-----------------------------------------------------------------------------
(* Mutant of BlockExit: falling out of a block runs nothing.               *)
BlockExitSilent == code

(* The end of llg_emit_block: an open block runs the deferred calls of its *)
(* scope; a terminated one only resets the count to the scope's mark.      *)
BlockExit == IF IsOpen(code, cur) THEN Emit(code, cur, Runs(Mark)) ELSE code

(* Mutant of LeaveBlock: the count of defers is not set back.              *)
LeaveBlockKeeping(kind) ==
  /\ frames # <<>>
  /\ Top.kind = kind
  /\ scopes' = Front(scopes)
  /\ marks' = Unmarked(marks)
  /\ UNCHANGED <<defers, left>>

LeaveBlock(kind) ==
  /\ frames # <<>>
  /\ Top.kind = kind
  /\ defers' = SubSeq(defers, 1, Mark)
  /\ scopes' = Front(scopes)
  /\ marks' = Unmarked(marks)
  /\ UNCHANGED left

(* After the then block: emit the else block, or start the nested if, or   *)
(* leave the else block empty.                                             *)
EndThenElse ==
  LET c == FallTo(BlockExit, cur, Top.done)
  IN /\ frames # <<>>
     /\ Top.kind = "then"
     /\ Top.alt = "block"
     /\ code' = c
     /\ defers' = SubSeq(defers, 1, Mark)
     /\ cur' = Top.next
     /\ scopes' = Append(Front(scopes), Top.next)
     /\ marks' = Marked(Unmarked(marks), Mark)
     /\ frames' = Replace(Frame("else", Top.done, Top.done, "none"))
     /\ UNCHANGED <<loops, left>>

EndThenElseIf ==
  /\ LeaveBlock("then")
  /\ Top.alt = "if"
  /\ code' = FallTo(BlockExit, cur, Top.done)
  /\ cur' = Top.next
  /\ frames' = Replace(Frame("elif", Top.next, Top.done, "none"))
  /\ UNCHANGED loops

EndThen ==
  /\ LeaveBlock("then")
  /\ Top.alt = "none"
  /\ code' = Close(FallTo(BlockExit, cur, Top.done), Top.next, Br(Top.done))
  /\ cur' = Top.done
  /\ frames' = Base
  /\ UNCHANGED loops

EndElse ==
  /\ LeaveBlock("else")
  /\ code' = FallTo(BlockExit, cur, Top.done)
  /\ cur' = Top.done
  /\ frames' = Base
  /\ UNCHANGED loops

(* The nested if is emitted: the outer else path joins the done block.     *)
EndElseIf ==
  /\ frames # <<>>
  /\ Top.kind = "elif"
  /\ cur # Top.next
  /\ code' = FallTo(code, cur, Top.done)
  /\ cur' = Top.done
  /\ frames' = Base
  /\ UNCHANGED <<defers, marks, scopes, loops, left>>

(* The body's end goes back to the condition.                              *)
EndWhile ==
  /\ LeaveBlock("while")
  /\ code' = FallTo(BlockExit, cur, Top.next)
  /\ cur' = Top.done
  /\ loops' = LoopPopped
  /\ frames' = Base

(* The end of a loop or unsafe body goes on to the done block.             *)
EndLoopOrUnsafe(kind) ==
  /\ LeaveBlock(kind)
  /\ code' = FallTo(BlockExit, cur, Top.next)
  /\ cur' = Top.done
  /\ loops' = LoopPopped
  /\ frames' = Base

EndLoop == EndLoopOrUnsafe("loop")
EndUnsafe == EndLoopOrUnsafe("unsafe")

EndFor ==
  /\ frames # <<>>
  /\ Top.kind = "for"
  /\ code' = FallTo(BlockExit, cur, Top.next)
  /\ cur' = Top.done
  /\ defers' = SubSeq(defers, 1, Mark)
  /\ scopes' = Front(Front(scopes))
  /\ marks' = Unmarked(Unmarked(marks))
  /\ loops' = LoopPopped
  /\ frames' = Base
  /\ UNCHANGED left

(* The end of llg_emit_fn: the parameter scope is popped and a missing     *)
(* terminator becomes a return.                                            *)
EndBody ==
  /\ frames # <<>>
  /\ Top.kind = "body"
  /\ code' = IF IsOpen(BlockExit, cur) THEN Close(BlockExit, cur, Ret)
             ELSE BlockExit
  /\ defers' = SubSeq(defers, 1, Mark)
  /\ scopes' = <<>>
  /\ marks' = Unmarked(Unmarked(marks))
  /\ frames' = <<>>
  /\ UNCHANGED <<cur, loops, left>>

Next ==
  \/ TryStmt \/ ReturnStmt \/ ReturnTryStmt \/ DeferStmt
  \/ BreakStmt \/ ContinueStmt
  \/ IfStmt \/ IfElseIfStmt \/ ElseIf
  \/ WhileStmt \/ LoopStmt \/ UnsafeStmt \/ ForStmt
  \/ EndThenElse \/ EndThenElseIf \/ EndThen \/ EndElse \/ EndElseIf
  \/ EndWhile \/ EndLoop \/ EndUnsafe \/ EndFor \/ EndBody

Spec == Init /\ [][Next]_vars

-----------------------------------------------------------------------------
Loops == {"while", "loop", "for"}
FrameKinds == Loops \cup {"body", "then", "elif", "else", "unsafe"}

Instr == [op : {"reg", "run"}, d : 1 .. Budget]
Term == [op : {"none", "br", "condbr", "ret"}, to : SUBSET (Nat \ {0}),
         by : {"flow", "break", "continue"}]
BasicBlock == [ins : Seq(Instr), term : Term, path : Seq(Nat),
               of : {"entry", "try", "if"} \cup Loops \cup {"unsafe"}]

(* Every variable has its type; the marks and the counts stay inside the   *)
(* fixed arrays of LG.                                                     *)
TypeOK ==
  /\ code \in Seq(BasicBlock)
  /\ cur \in DOMAIN code
  /\ defers \in Seq(1 .. Budget) /\ Len(defers) <= MaxDefers
  /\ marks \in Seq(Nat) /\ Len(marks) <= MaxScopes
  /\ scopes \in Seq(Nat)
  /\ loops \in Seq([brk : Nat, cont : Nat]) /\ Len(loops) <= MaxLoops
  /\ frames \in Seq([kind : FrameKinds, next : Nat, done : Nat,
                     alt : {"none", "block", "if"}])
  /\ left \in 0 .. Budget

(* A finished function has a terminator in every basic block and branches  *)
(* only to blocks of its own, as LLVM's verifier demands; the code relies  *)
(* on each construct to close the blocks it appended.                      *)
FunctionTerminated ==
  frames = <<>> => \A b \in DOMAIN code :
                     ~IsOpen(code, b) /\ code[b].term.to \subseteq DOMAIN code

(* Nothing is ever added to a block that has a terminator, and no block    *)
(* gets a second one: every llg_emit_stmt case checks, or starts a block.  *)
TerminatorsFinal ==
  [][\A b \in DOMAIN code : ~IsOpen(code, b) => code'[b] = code[b]]_vars

(* When a function is finished no defer, mark or loop of it is left in LG. *)
(* llg_instantiate_generics and the UI handlers rely on it: they reset     *)
(* defer_count at most, and never scope_defer_depth or loop_depth.         *)
CleanAtEnd ==
  frames = <<>> => /\ defers = <<>>
                   /\ marks = <<>>
                   /\ loops = <<>>

(* The construct a break or continue belongs to, as a set of frames: the   *)
(* innermost frame of the given kinds.                                     *)
Innermost(kinds) ==
  {frames[i] : i \in {j \in DOMAIN frames :
     /\ frames[j].kind \in kinds
     /\ \A k \in j + 1 .. Len(frames) : frames[k].kind \notin kinds}}

BreakLeaves(kinds) ==
  (code'[cur].term # code[cur].term /\ code'[cur].term.by = "break")
    => code'[cur].term.to = {f.done : f \in Innermost(kinds)}

(* A break leaves the innermost construct that pushed a loop, however many *)
(* loops were pushed and popped before it (LG.loops is a stack the nested  *)
(* constructs share).                                                      *)
BreakBindsInnermost == [][BreakLeaves(Loops \cup {"unsafe"})]_vars

(* Only a break leaves a loop: "halt in an infinite loop" is written       *)
(* `loop { ... }' in the kernel library.                                   *)
LoopLeftByBreakOnly ==
  \A b \in DOMAIN code : \A t \in code[b].term.to :
    code[t].of = "loop" /\ Last(code[t].path) # t => code[b].term.by = "break"

=============================================================================
