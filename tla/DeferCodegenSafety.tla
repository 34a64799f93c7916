------------------------- MODULE DeferCodegenSafety -------------------------
(***************************************************************************)
(* Proof that DeferCodegen emits only finished functions, for every budget *)
(* of statements and every length of the arrays of LG: IInv is inductive.  *)
(* The statements fall into three families, those without a block of their *)
(* own, those that enter a construct and the ends of blocks; each family   *)
(* has one lemma, and every action is shown to be of its family.           *)
(***************************************************************************)
EXTENDS DeferCodegenProofs, FiniteSetTheorems

(* The strengthening of TypeOK, FunctionTerminated and CleanAtEnd.         *)
IInv ==
  /\ Built(code, cur, frames)
  /\ scopes \in Seq(Nat)
  /\ ScopesFit(code, frames, Len(scopes))
  /\ defers \in Seq(1 .. Budget)
  /\ Len(defers) <= MaxDefers
  /\ frames = <<>> => defers = <<>>
  /\ MarksFit(marks, Len(defers), Len(scopes))
  /\ LoopsFit(loops, frames)
  /\ \A k \in DOMAIN loops : /\ loops[k].brk \in DOMAIN code
                             /\ loops[k].cont \in DOMAIN code
  /\ left \in 0 .. Budget

(* What a step leaves of the blocks that have a terminator.                *)
Final == \A b \in DOMAIN code : ~IsOpen(code, b) => code'[b] = code[b]

(* The plain consequences of the invariant that every step uses.           *)
LEMMA StateFacts ==
  ASSUME IInv
  PROVE  /\ code \in Blocks
         /\ Len(code) \in Nat \ {0}
         /\ DOMAIN code = 1 .. Len(code)
         /\ cur \in DOMAIN code
         /\ cur \in Nat \ {0}
         /\ Inside(code, Len(code))
         /\ FramesFit(code, frames)
         /\ frames \in Seq(FrameType)
         /\ Len(defers) \in Nat
         /\ Len(scopes) \in Nat
         /\ Mark = MarkOf(marks)
         /\ Mark \in 0 .. Len(defers)
<1>1. code \in Blocks /\ cur \in DOMAIN code /\ Inside(code, Len(code))
      /\ FramesFit(code, frames) /\ frames \in Seq(FrameType)
  BY DEF IInv, Built, FramesFit
<1>2. DOMAIN code = 1 .. Len(code) /\ Len(code) \in Nat
  BY <1>1, LenProperties DEF Blocks
<1>3. Len(defers) \in Nat /\ Len(scopes) \in Nat
  BY LenProperties DEF IInv
<1>4. Mark = MarkOf(marks)
  BY DEF Mark, MarkOf
<1>5. MarkOf(marks) \in 0 .. Len(defers)
  BY <1>3, MarkInside DEF IInv
<1>6. QED
  BY <1>1, <1>2, <1>3, <1>4, <1>5

(* The calls emitted for the deferred expressions above a count.           *)
LEMMA RunsType ==
  ASSUME IInv, NEW from \in 0 .. Len(defers)
  PROVE  Runs(from) \in Seq(Instr)
<1> DEFINE n == Len(defers) - from
           e == [i \in 1 .. n |->
                   [op |-> "run", d |-> defers[Len(defers) + 1 - i]]]
<1>1. Len(defers) \in Nat /\ n \in Nat
  BY StateFacts
<1>2. \A i \in 1 .. n : defers[Len(defers) + 1 - i] \in 1 .. Budget
  <2>1. TAKE i \in 1 .. n
  <2>2. Len(defers) + 1 - i \in 1 .. Len(defers)
    BY <1>1
  <2>3. QED
    BY <2>2, ElementOfSeq DEF IInv
<1>3. e \in [1 .. n -> Instr]
  BY <1>2 DEF Instr
<1>4. e \in Seq(Instr)
  <2> HIDE DEF n, e
  <2>1. Seq(Instr) = UNION {[1 .. m -> Instr] : m \in Nat}
    BY SeqDef
  <2>2. QED
    BY <1>1, <1>3, <2>1
<1>5. QED
  BY <1>4 DEF Runs

(* The deferred expressions that stay when those above a mark go.          *)
LEMMA CutFacts ==
  ASSUME IInv
  PROVE  /\ SubSeq(defers, 1, Mark) \in Seq(1 .. Budget)
         /\ Len(SubSeq(defers, 1, Mark)) = Mark
         /\ Mark <= MaxDefers
         /\ Mark \in Nat
<1>1. Mark \in 0 .. Len(defers) /\ Len(defers) \in Nat
  BY StateFacts
<1>2. defers \in Seq(1 .. Budget) /\ Len(defers) <= MaxDefers
  BY DEF IInv
<1>3. Mark <= MaxDefers /\ Mark \in Nat
  BY <1>1, <1>2, ConstantsAssumption
<1>4. QED
  BY <1>1, <1>2, <1>3, PrefixFacts

-----------------------------------------------------------------------------
(* Function c has become d: its block k got a terminator and the blocks bs *)
(* were added at the end.                                                  *)
Appended(c, k, d, bs) ==
  /\ d \in Blocks
  /\ Len(d) = Len(c) + Len(bs)
  /\ DOMAIN d = 1 .. Len(c) + Len(bs)
  /\ Grows(c, d, {k})
  /\ Inside(d, Len(d))
  /\ \A i \in DOMAIN bs : d[Len(c) + i] = bs[i]
  /\ \A b \in DOMAIN d : IsOpen(d, b) =>
       \/ \E i \in DOMAIN bs : b = Len(c) + i /\ bs[i].term = NoTerm
       \/ b \in DOMAIN c /\ b # k /\ IsOpen(c, b)

(* A block gets its terminator and new blocks follow the function: what    *)
(* every construct, and `?', does to the blocks first.                     *)
LEMMA CloseThenAppend ==
  ASSUME NEW c \in Blocks, NEW k \in DOMAIN c, IsOpen(c, k),
         Inside(c, Len(c)), NEW t \in Term, t # NoTerm, NEW bs \in Blocks,
         t.to \subseteq 1 .. Len(c) + Len(bs), Inside(bs, Len(c) + Len(bs))
  PROVE  Appended(c, k, Close(c, k, t) \o bs, bs)
<1> DEFINE n == Len(c) + Len(bs)
           d == Close(c, k, t) \o bs
<1> DEFINE e == Close(c, k, t)
<1>1. /\ Len(c) \in Nat /\ Len(bs) \in Nat /\ n \in Nat
      /\ DOMAIN c = 1 .. Len(c) /\ DOMAIN bs = 1 .. Len(bs)
  BY LenProperties DEF Blocks
<1>2. /\ e \in Blocks /\ Len(e) = Len(c) /\ DOMAIN e = DOMAIN c
  BY CloseFacts
<1>3. Grows(c, e, {k})
  BY GrowsByClose
<1>4. <<>> \in Seq(Instr)
  BY EmptySeq
<1>5. ~IsOpen(e, k) /\ \A a \in DOMAIN c \ {k} : IsOpen(e, a) <=> IsOpen(c, a)
  BY <1>4, OpenAfter
<1>6. Len(c) <= n
  BY <1>1
<1>7. Inside(c, n)
  BY <1>1, <1>4, <1>6, InsideAfter
<1>8. Inside(e, n)
  BY <1>1, <1>4, <1>7, InsideAfter
<1> HIDE DEF e
<1> HIDE DEF n
<1>9. /\ e \o bs \in Blocks
      /\ Len(e \o bs) = Len(c) + Len(bs)
      /\ \A a \in DOMAIN c : (e \o bs)[a] = e[a]
      /\ \A i \in DOMAIN bs : (e \o bs)[Len(c) + i] = bs[i]
      /\ Grows(e, e \o bs, {k})
  <2>1. /\ e \o bs \in Blocks
        /\ Len(e \o bs) = Len(e) + Len(bs)
        /\ \A a \in DOMAIN e : (e \o bs)[a] = e[a]
        /\ \A i \in DOMAIN bs : (e \o bs)[Len(e) + i] = bs[i]
        /\ Grows(e, e \o bs, {k})
    BY <1>2, NewBlocks
  <2>2. QED
    BY ONLY <1>2, <2>1
<1>10. d = e \o bs
  BY DEF e
<1> HIDE DEF d
<1>11. Inside(d, n)
  BY <1>1, <1>2, <1>8, <1>10, InsideConcat DEF n
<1>12. Grows(c, d, {k})
  BY <1>2, <1>3, <1>9, <1>10, GrowsTwice
<1>13. /\ d \in Blocks /\ Len(d) = n
       /\ \A a \in DOMAIN c : d[a] = e[a]
       /\ \A i \in DOMAIN bs : d[Len(c) + i] = bs[i]
  BY <1>9, <1>10 DEF n
<1>14. DOMAIN d = 1 .. n
  BY <1>13, LenProperties DEF Blocks
<1>15. ASSUME NEW b \in DOMAIN d, IsOpen(d, b)
       PROVE  \/ \E i \in DOMAIN bs : b = Len(c) + i /\ bs[i].term = NoTerm
              \/ b \in DOMAIN c /\ b # k /\ IsOpen(c, b)
  <2>1. CASE b \in DOMAIN c
    <3>1. IsOpen(e, b)
      BY <1>13, <1>15, <2>1 DEF IsOpen
    <3>2. QED
      BY <1>5, <2>1, <3>1
  <2>2. CASE b \notin DOMAIN c
    <3>1. b - Len(c) \in DOMAIN bs /\ b = Len(c) + (b - Len(c))
      BY <1>1, <1>14, <2>2 DEF n
    <3>2. bs[b - Len(c)].term = NoTerm
      BY <1>13, <1>15, <3>1 DEF IsOpen
    <3>3. QED
      BY <3>1, <3>2
  <2>3. QED
    BY <2>1, <2>2
<1>16. QED
  BY <1>11, <1>12, <1>13, <1>14, <1>15 DEF Appended, d, n
-----------------------------------------------------------------------------
(* The blocks a loop stands for stay inside a growing function.            *)
LEMMA LoopsInside ==
  ASSUME IInv, NEW d \in Blocks, NEW B, Grows(code, d, B)
  PROVE  \A k \in DOMAIN loops : /\ loops[k].brk \in DOMAIN d
                                 /\ loops[k].cont \in DOMAIN d
<1>1. DOMAIN code \subseteq DOMAIN d
  BY StateFacts, LenProperties DEF Grows, Blocks
<1>2. QED
  BY <1>1 DEF IInv

(* A step that only grows the function changes no finished block.          *)
LEMMA GrowsFinal ==
  ASSUME NEW B, Grows(code, code', B)
  PROVE  Final
BY DEF Grows, Final

(* A statement without a block of its own keeps the invariant.             *)
LEMMA StraightStep ==
  ASSUME IInv, frames # <<>>, Top.kind # "elif",
         code' \in Blocks, Grows(code, code', {cur}), Inside(code', Len(code')),
         cur' \in DOMAIN code', cur' = cur \/ cur' > Len(code),
         \A b \in DOMAIN code' : IsOpen(code', b) =>
            cur' = b \/ (b \in DOMAIN code /\ b # cur /\ IsOpen(code, b)),
         defers' \in Seq(1 .. Budget), Len(defers') <= MaxDefers,
         MarksFit(marks', Len(defers'), Len(scopes)),
         left' \in 0 .. Budget,
         UNCHANGED <<marks, scopes, loops, frames>>
  PROVE  IInv' /\ Final
<1>1. Built(code, cur, frames) /\ code \in Blocks /\ FramesFit(code, frames)
  BY StateFacts DEF IInv
<1>2. Built(code', cur', frames)
  <2>1. Last(frames).kind # "elif"
    BY DEF Top
  <2>2. QED
    BY <1>1, <2>1, BuiltStraight
<1>3. ScopesFit(code', frames, Len(scopes))
  BY <1>1, ScopesKeep DEF IInv
<1>4. \A k \in DOMAIN loops : /\ loops[k].brk \in DOMAIN code'
                              /\ loops[k].cont \in DOMAIN code'
  BY LoopsInside
<1>5. /\ scopes' = scopes /\ marks' = marks
      /\ loops' = loops /\ frames' = frames
  OBVIOUS
<1>6. IInv'
  BY <1>2, <1>3, <1>4, <1>5 DEF IInv
<1>7. QED
  BY <1>6, GrowsFinal

(* Entering a construct keeps the invariant.                               *)
LEMMA EnterStep ==
  ASSUME IInv, frames # <<>>,
         NEW f, Enters(code, cur, code', cur', f),
         code'[f.done].path = scopes,
         frames' = Append(frames, f),
         scopes' \in Seq(Nat), Len(scopes') = Len(scopes) + Opens(f.kind),
         MarksFit(marks', Len(defers), Len(scopes')),
         LoopsFit(loops', frames'),
         \A k \in DOMAIN loops' : /\ loops'[k].brk \in DOMAIN code'
                                  /\ loops'[k].cont \in DOMAIN code',
         defers' = defers, left' \in 0 .. Budget
  PROVE  IInv' /\ Final
<1>1. Built(code, cur, frames) /\ code \in Blocks /\ FramesFit(code, frames)
      /\ frames \in Seq(FrameType)
  BY StateFacts DEF IInv
<1>2. Built(code', cur', Append(frames, f))
  BY <1>1, BuiltEnter
<1>3. ScopesFit(code', Append(frames, f), Len(scopes) + Opens(f.kind))
  <2>1. ScopesFit(code, frames, Len(scopes))
    BY DEF IInv
  <2>2. /\ f.kind # "body" /\ Len(code'[f.done].path) = Len(scopes)
        /\ code' \in Blocks /\ f \in FrameType /\ Grows(code, code', {cur})
    BY DEF Enters
  <2>3. QED
    BY ONLY <1>1, <2>1, <2>2, ScopesEnter, frames # <<>>
<1>4. Append(frames, f) # <<>>
  <2>1. f \in FrameType
    BY DEF Enters
  <2>2. QED
    BY ONLY <1>1, <2>1, PushFacts
<1>5. IInv'
  BY <1>2, <1>3, <1>4 DEF IInv
<1>6. QED
  BY <1>5, GrowsFinal DEF Enters

(* The end of an inner block keeps the invariant.                          *)
LEMMA LeaveStep ==
  ASSUME IInv, frames # <<>>, Top.kind # "body",
         code' \in Blocks, Grows(code, code', {cur, Top.next}),
         Inside(code', Len(code')), DOMAIN code' = DOMAIN code,
         \A b \in DOMAIN code : IsOpen(code', b) =>
            /\ IsOpen(code, b)
            /\ b # cur
            /\ Top.kind = "then" => b # Top.next,
         cur' = Top.done, frames' = Base,
         scopes' \in Seq(Nat), Len(scopes') = Len(scopes) - Opens(Top.kind),
         defers' \in Seq(1 .. Budget), Len(defers') <= MaxDefers,
         MarksFit(marks', Len(defers'), Len(scopes')),
         \/ loops' = LoopPopped
         \/ loops' = loops /\ Top.kind \notin Pushing,
         left' = left
  PROVE  IInv' /\ Final
<1>1. Built(code, cur, frames) /\ code \in Blocks /\ FramesFit(code, frames)
      /\ frames \in Seq(FrameType)
  BY StateFacts DEF IInv
<1>2. Built(code', cur', frames')
  BY <1>1, BuiltLeave DEF Top, Base
<1>3. /\ ScopesFit(code', Base, Len(scopes) - Opens(Top.kind))
      /\ Len(scopes) - Opens(Top.kind) >= 2
  BY <1>1, ScopesLeave DEF IInv, Top, Base
<1>4. frames' # <<>>
  <2>1. Len(scopes) \in Nat /\ Opens(Top.kind) \in Nat
    BY StateFacts DEF Opens
  <2>2. Len(scopes) - Opens(Top.kind) # 0
    BY <1>3, <2>1
  <2>3. QED
    BY <1>3, <2>2 DEF ScopesFit
<1>5. LoopsFit(loops', frames')
  <2>1. CASE loops' = LoopPopped
    BY <1>1, <2>1, LoopsPop DEF LoopPopped, Base, IInv
  <2>2. CASE loops' = loops /\ Top.kind \notin Pushing
    BY <1>1, <2>2, LoopsKept DEF Base, Top, IInv
  <2>3. QED
    BY <2>1, <2>2
<1>6. \A k \in DOMAIN loops' : /\ loops'[k].brk \in DOMAIN code'
                               /\ loops'[k].cont \in DOMAIN code'
  <2>1. \A k \in DOMAIN loops : /\ loops[k].brk \in DOMAIN code'
                                /\ loops[k].cont \in DOMAIN code'
    BY LoopsInside
  <2>2. loops' = loops \/ (loops # <<>> /\ loops' = Front(loops))
    BY DEF LoopPopped
  <2>3. CASE loops # <<>> /\ loops' = Front(loops)
    <3>1. loops \in Seq(LoopType)
      BY DEF IInv, LoopsFit
    <3>2. /\ DOMAIN loops = 1 .. Len(loops)
          /\ Len(loops) \in Nat \ {0}
          /\ DOMAIN loops' = 1 .. Len(loops) - 1
          /\ \A k \in DOMAIN loops' : loops'[k] = loops[k]
      BY <2>3, <3>1, PopFacts
    <3>3. DOMAIN loops' \subseteq DOMAIN loops
      BY <3>2
    <3>4. QED
      BY <2>1, <3>2, <3>3
  <2>4. QED
    BY <2>1, <2>2, <2>3
<1>7. IInv'
  BY <1>2, <1>3, <1>4, <1>5, <1>6 DEF IInv
<1>8. QED
  BY <1>7, GrowsFinal

-----------------------------------------------------------------------------
(* Statements without a block of their own.                                *)

(* The two blocks of `?': the code goes on in the first, the second one    *)
(* has returned.                                                           *)
LEMMA TryIntoFacts ==
  ASSUME IInv, NEW c \in Blocks, cur \in DOMAIN c, IsOpen(c, cur),
         Inside(c, Len(c)), NEW d, d = TryInto(c)
  PROVE  /\ d \in Blocks
         /\ Len(d) = Len(c) + 2
         /\ DOMAIN d = 1 .. Len(c) + 2
         /\ Grows(c, d, {cur})
         /\ Inside(d, Len(d))
         /\ IsOpen(d, Len(c) + 1)
         /\ \A b \in DOMAIN d : IsOpen(d, b) =>
              \/ b = Len(c) + 1
              \/ b \in DOMAIN c /\ b # cur /\ IsOpen(c, b)
<1> DEFINE ok == Len(c) + 1
           err == Len(c) + 2
           t == CondBr(ok, err)
           bs == <<Empty(scopes, "try"), Block(Runs(0), Ret, scopes, "try")>>
<1>1. Len(c) \in Nat
  BY LenProperties DEF Blocks
<1>2. t \in Term /\ t # NoTerm /\ t.to = {ok, err}
  <2>1. ok \in Nat \ {0} /\ err \in Nat \ {0}
    BY <1>1
  <2>2. t.to = {ok, err}
    BY DEF CondBr
  <2>3. QED
    BY <2>1, <2>2, MadeTypes
<1>3. Runs(0) \in Seq(Instr) /\ scopes \in Seq(Nat)
  BY StateFacts, RunsType DEF IInv
<1>4. /\ bs[1] \in BasicBlock /\ bs[1].term = NoTerm
      /\ bs[2] \in BasicBlock /\ bs[2].term = Ret
  BY <1>3, MadeBlock, MadeEmpty, MadeTypes
<1>5. bs \in Blocks /\ Len(bs) = 2 /\ DOMAIN bs = {1, 2}
  BY <1>4 DEF Blocks
<1>6. d = Close(c, cur, t) \o bs
  BY DEF TryInto
<1>7. Inside(bs, Len(c) + 2)
  BY <1>4, <1>5 DEF Inside, NoTerm, Ret
<1>8. t.to \subseteq 1 .. Len(c) + 2
  BY <1>1, <1>2
<1>9. NoTerm # Ret
  BY DEF NoTerm, Ret
<1>10. Len(c) + 2 = Len(c) + Len(bs)
  BY <1>5
<1> HIDE DEF bs, t
<1>11. Appended(c, cur, Close(c, cur, t) \o bs, bs)
  BY <1>2, <1>5, <1>7, <1>8, <1>10, CloseThenAppend
<1>12. Appended(c, cur, d, bs)
  BY <1>6, <1>11
<1>13. IsOpen(d, Len(c) + 1)
  BY <1>4, <1>5, <1>12 DEF IsOpen, Appended
<1>14. \A b \in DOMAIN d : IsOpen(d, b) =>
          \/ b = Len(c) + 1
          \/ b \in DOMAIN c /\ b # cur /\ IsOpen(c, b)
  BY <1>4, <1>5, <1>9, <1>12 DEF Appended
<1>15. QED
  BY <1>5, <1>13, <1>14, <1>10, <1>12 DEF Appended

(* What a statement's guard gives.                                         *)
LEMMA AtStmtFacts ==
  ASSUME IInv, NEW kind, AtStmt(kind)
  PROVE  /\ frames # <<>>
         /\ Top.kind # "elif"
         /\ IsOpen(code, cur)
         /\ left \in 1 .. Budget
         /\ left' \in 0 .. Budget
         /\ left' = left - 1
BY ConstantsAssumption DEF AtStmt, IInv

(* A statement with the ? operator ends its block in two new ones, one of  *)
(* which is closed by the error path.                                      *)
LEMMA TryStmtStep ==
  ASSUME IInv, TryStmt
  PROVE  IInv' /\ Final
<1>1. AtStmt("try") /\ code' = TryInto(code) /\ cur' = Len(code) + 1
      /\ UNCHANGED <<defers, marks, scopes, loops, frames>>
  BY DEF TryStmt
<1>2. /\ frames # <<>> /\ Top.kind # "elif" /\ IsOpen(code, cur)
      /\ left' \in 0 .. Budget
  BY <1>1, AtStmtFacts
<1>3. /\ code \in Blocks /\ cur \in DOMAIN code /\ Inside(code, Len(code))
      /\ Len(code) \in Nat
  BY StateFacts
<1>4. /\ code' \in Blocks
      /\ DOMAIN code' = 1 .. Len(code) + 2
      /\ Grows(code, code', {cur})
      /\ Inside(code', Len(code'))
      /\ \A b \in DOMAIN code' : IsOpen(code', b) =>
           \/ b = Len(code) + 1
           \/ b \in DOMAIN code /\ b # cur /\ IsOpen(code, b)
  BY <1>1, <1>2, <1>3, TryIntoFacts
<1>5. cur' \in DOMAIN code' /\ cur' > Len(code)
  BY <1>1, <1>3, <1>4
<1>6. /\ defers' \in Seq(1 .. Budget) /\ Len(defers') <= MaxDefers
      /\ MarksFit(marks', Len(defers'), Len(scopes))
  BY <1>1 DEF IInv
<1>7. \A b \in DOMAIN code' : IsOpen(code', b) =>
         cur' = b \/ (b \in DOMAIN code /\ b # cur /\ IsOpen(code, b))
  BY <1>1, <1>4
<1>8. QED
  BY <1>1, <1>2, <1>4, <1>5, <1>6, <1>7, StraightStep

(* A return runs every deferred expression and closes its block.           *)
LEMMA ReturnStmtStep ==
  ASSUME IInv, ReturnStmt
  PROVE  IInv' /\ Final
<1> DEFINE e == Emit(code, cur, Runs(0))
<1>1. AtStmt("return") /\ code' = Close(e, cur, Ret)
      /\ UNCHANGED <<cur, defers, marks, scopes, loops, frames>>
  BY DEF ReturnStmt
<1>2. /\ frames # <<>> /\ Top.kind # "elif" /\ IsOpen(code, cur)
      /\ left' \in 0 .. Budget
  BY <1>1, AtStmtFacts
<1>3. /\ code \in Blocks /\ cur \in DOMAIN code /\ Inside(code, Len(code))
      /\ Len(code) \in Nat /\ Runs(0) \in Seq(Instr)
  BY StateFacts, RunsType
<1>4. /\ Ret \in Term /\ Ret # NoTerm /\ Ret.to = {}
  BY MadeTypes DEF Ret
<1>5. /\ e \in Blocks /\ Len(e) = Len(code) /\ DOMAIN e = DOMAIN code
      /\ Grows(code, e, {cur})
      /\ \A b \in DOMAIN code : IsOpen(e, b) <=> IsOpen(code, b)
      /\ Inside(e, Len(code))
  BY <1>2, <1>3, <1>4, EmitFacts, GrowsByEmit, OpenAfter, InsideAfter
<1> HIDE DEF e
<1>6. /\ code' \in Blocks /\ Len(code') = Len(code)
      /\ DOMAIN code' = DOMAIN code
  <2>1. /\ Close(e, cur, Ret) \in Blocks
        /\ Len(Close(e, cur, Ret)) = Len(e)
        /\ DOMAIN Close(e, cur, Ret) = DOMAIN e
    BY <1>3, <1>4, <1>5, CloseFacts
  <2>2. QED
    BY <1>1, <1>5, <2>1
<1>7. Grows(e, code', {cur})
  BY <1>1, <1>2, <1>3, <1>4, <1>5, GrowsByClose
<1>8. Grows(code, code', {cur})
  BY <1>3, <1>5, <1>6, <1>7, GrowsTwice
<1>9. Inside(code', Len(code'))
  <2>1. Ret.to \subseteq 1 .. Len(code)
    BY <1>4
  <2>2. QED
    BY <1>1, <1>3, <1>4, <1>5, <1>6, <2>1, InsideAfter
<1>10. /\ ~IsOpen(code', cur)
       /\ \A b \in DOMAIN e \ {cur} : IsOpen(code', b) <=> IsOpen(e, b)
  BY <1>1, <1>3, <1>4, <1>5, OpenAfter
<1>11. \A b \in DOMAIN code' : IsOpen(code', b) =>
          cur' = b \/ (b \in DOMAIN code /\ b # cur /\ IsOpen(code, b))
  BY <1>5, <1>6, <1>10
<1>12. /\ defers' \in Seq(1 .. Budget) /\ Len(defers') <= MaxDefers
       /\ MarksFit(marks', Len(defers'), Len(scopes))
  BY <1>1 DEF IInv
<1>13. cur' \in DOMAIN code' /\ cur' = cur
  BY <1>1, <1>3, <1>6
<1>14. QED
  BY <1>1, <1>2, <1>6, <1>8, <1>9, <1>11, <1>12, <1>13, StraightStep

(* The value of a return may hold a `?': the ok block returns.             *)
LEMMA ReturnTryStmtStep ==
  ASSUME IInv, ReturnTryStmt
  PROVE  IInv' /\ Final
<1> DEFINE e == Emit(code, cur, Runs(0))
           d == TryInto(e)
           n == Len(code) + 1
<1>1. AtStmt("returnTry") /\ code' = Close(d, n, Ret) /\ cur' = n
      /\ UNCHANGED <<defers, marks, scopes, loops, frames>>
  BY DEF ReturnTryStmt
<1>2. /\ frames # <<>> /\ Top.kind # "elif" /\ IsOpen(code, cur)
      /\ left' \in 0 .. Budget
  BY <1>1, AtStmtFacts
<1>3. /\ code \in Blocks /\ cur \in DOMAIN code /\ Inside(code, Len(code))
      /\ Len(code) \in Nat /\ Runs(0) \in Seq(Instr)
      /\ DOMAIN code = 1 .. Len(code)
  BY StateFacts, RunsType
<1>4. /\ Ret \in Term /\ Ret # NoTerm /\ Ret.to = {}
  BY MadeTypes DEF Ret
<1>5. /\ e \in Blocks /\ Len(e) = Len(code) /\ DOMAIN e = DOMAIN code
      /\ Grows(code, e, {cur})
      /\ \A b \in DOMAIN code : IsOpen(e, b) <=> IsOpen(code, b)
      /\ Inside(e, Len(code))
  BY <1>2, <1>3, <1>4, EmitFacts, GrowsByEmit, OpenAfter, InsideAfter
<1> HIDE DEF e
<1>6. IsOpen(e, cur) /\ cur \in DOMAIN e /\ Inside(e, Len(e))
  BY <1>2, <1>3, <1>5
<1>7. /\ d \in Blocks
      /\ Len(d) = Len(e) + 2
      /\ DOMAIN d = 1 .. Len(e) + 2
      /\ Grows(e, d, {cur})
      /\ Inside(d, Len(d))
      /\ IsOpen(d, Len(e) + 1)
      /\ \A b \in DOMAIN d : IsOpen(d, b) =>
           \/ b = Len(e) + 1
           \/ b \in DOMAIN e /\ b # cur /\ IsOpen(e, b)
  BY <1>5, <1>6, TryIntoFacts
<1>8. Grows(code, d, {cur})
  BY <1>3, <1>5, <1>7, GrowsTwice
<1> HIDE DEF d
<1>9. n = Len(e) + 1 /\ n \in DOMAIN d /\ n > Len(code) /\ n \notin DOMAIN code
  BY <1>3, <1>5, <1>7
<1> HIDE DEF n
<1>10. /\ code' \in Blocks /\ Len(code') = Len(d) /\ DOMAIN code' = DOMAIN d
       /\ \A a \in DOMAIN d : a # n => code'[a] = d[a]
  <2>1. /\ Close(d, n, Ret) \in Blocks
        /\ Len(Close(d, n, Ret)) = Len(d)
        /\ DOMAIN Close(d, n, Ret) = DOMAIN d
        /\ \A a \in DOMAIN d : a # n => Close(d, n, Ret)[a] = d[a]
    <3>1. d \in Blocks /\ n \in DOMAIN d /\ Ret \in Term
      BY <1>4, <1>7, <1>9
    <3>2. QED
      BY <3>1, CloseFacts, Zenon
  <2>2. QED
    BY <1>1, <2>1, Zenon
<1>11. Grows(code, code', {cur})
  <2>1. DOMAIN code \subseteq DOMAIN d
    BY <1>3, <1>5, <1>7
  <2>2. \A a \in DOMAIN code : code'[a] = d[a]
    BY <1>9, <1>10, <2>1
  <2>3. QED
    BY <1>8, <1>10, <2>2 DEF Grows
<1>12. Inside(code', Len(code'))
  <2>1. Ret.to \subseteq 1 .. Len(d) /\ Len(d) \in Nat
    BY <1>4, <1>7, <1>5, <1>3
  <2>2. QED
    BY <1>1, <1>3, <1>4, <1>7, <1>9, <1>10, <2>1, InsideAfter
<1>13. ~IsOpen(code', n)
  BY <1>1, <1>3, <1>4, <1>7, <1>9, OpenAfter
<1>14. \A b \in DOMAIN code' : IsOpen(code', b) =>
          cur' = b \/ (b \in DOMAIN code /\ b # cur /\ IsOpen(code, b))
  <2>1. TAKE b \in DOMAIN code'
  <2>2. HAVE IsOpen(code', b)
  <2>3. b # n /\ b \in DOMAIN d
    BY <1>10, <1>13, <2>2
  <2>4. IsOpen(d, b)
    BY <1>10, <2>2, <2>3 DEF IsOpen
  <2>5. QED
    BY <1>5, <1>7, <1>9, <2>3, <2>4
<1>15. /\ defers' \in Seq(1 .. Budget) /\ Len(defers') <= MaxDefers
       /\ MarksFit(marks', Len(defers'), Len(scopes))
  BY <1>1 DEF IInv
<1>16. cur' \in DOMAIN code' /\ cur' > Len(code)
  BY <1>1, <1>9, <1>10
<1>17. QED
  BY <1>1, <1>2, <1>10, <1>11, <1>12, <1>14, <1>15, <1>16, StraightStep

(* A defer statement registers an expression or refuses it at the limit.   *)
LEMMA DeferStmtStep ==
  ASSUME IInv, DeferStmt
  PROVE  IInv' /\ Final
<1> DEFINE is == <<[op |-> "reg", d |-> left]>>
<1>1. AtStmt("defer") /\ code' = Emit(code, cur, is)
      /\ defers' = (IF Len(defers) < MaxDefers THEN Append(defers, left)
                    ELSE defers)
      /\ UNCHANGED <<cur, marks, scopes, loops, frames>>
  BY DEF DeferStmt
<1>2. /\ frames # <<>> /\ Top.kind # "elif" /\ IsOpen(code, cur)
      /\ left \in 1 .. Budget /\ left' \in 0 .. Budget
  BY <1>1, AtStmtFacts
<1>3. /\ code \in Blocks /\ cur \in DOMAIN code /\ Inside(code, Len(code))
      /\ Len(code) \in Nat
  BY StateFacts
<1>4. is \in Seq(Instr)
  BY <1>2 DEF Instr
<1> HIDE DEF is
<1>5. Ret \in Term /\ Ret # NoTerm
  BY MadeTypes
<1>6. /\ code' \in Blocks /\ Len(code') = Len(code)
      /\ DOMAIN code' = DOMAIN code
      /\ Grows(code, code', {cur})
      /\ \A b \in DOMAIN code : IsOpen(code', b) <=> IsOpen(code, b)
      /\ Inside(code', Len(code))
  <2> DEFINE e == Emit(code, cur, is)
  <2>1. /\ e \in Blocks /\ Len(e) = Len(code) /\ DOMAIN e = DOMAIN code
        /\ Grows(code, e, {cur})
        /\ \A b \in DOMAIN code : IsOpen(e, b) <=> IsOpen(code, b)
        /\ Inside(e, Len(code))
    BY <1>2, <1>3, <1>4, <1>5, EmitFacts, GrowsByEmit, OpenAfter, InsideAfter
  <2>2. code' = e
    BY <1>1
  <2> HIDE DEF e
  <2>3. QED
    BY <2>1, <2>2
<1>7. \A b \in DOMAIN code' : IsOpen(code', b) =>
         cur' = b \/ (b \in DOMAIN code /\ b # cur /\ IsOpen(code, b))
  BY <1>1, <1>6
<1>8. /\ defers' \in Seq(1 .. Budget) /\ Len(defers') <= MaxDefers
      /\ Len(defers') \in Nat /\ Len(defers) <= Len(defers')
  <2>1. defers \in Seq(1 .. Budget) /\ Len(defers) \in Nat
        /\ Len(defers) <= MaxDefers
    BY StateFacts DEF IInv
  <2>2. CASE Len(defers) < MaxDefers
    <3>1. Append(defers, left) \in Seq(1 .. Budget)
          /\ Len(Append(defers, left)) = Len(defers) + 1
      BY <1>2, <2>1, PushFacts
    <3>2. QED
      BY <1>1, <2>1, <2>2, <3>1, ConstantsAssumption
  <2>3. CASE ~(Len(defers) < MaxDefers)
    BY <1>1, <2>1, <2>3
  <2>4. QED
    BY <2>2, <2>3
<1>9. MarksFit(marks', Len(defers'), Len(scopes))
  BY <1>1, <1>8, StateFacts, FitMore DEF IInv
<1>10. cur' \in DOMAIN code' /\ cur' = cur
  BY <1>1, <1>3, <1>6
<1>11. Inside(code', Len(code'))
  BY <1>6
<1>12. QED
  BY <1>1, <1>2, <1>6, <1>7, <1>8, <1>9, <1>10, <1>11, StraightStep

(* break and continue, with a loop to leave or, the array having run full, *)
(* without one.                                                            *)
LEMMA JumpStep ==
  ASSUME IInv, NEW kind \in {"break", "continue"}, NEW target,
         loops # <<>> => target \in DOMAIN code, JumpStmt(kind, target)
  PROVE  IInv' /\ Final
<1> DEFINE e == Emit(code, cur, Runs(Mark))
           t == Leave(target, kind)
<1>1. AtStmt(kind) /\ code' = (IF loops = <<>> THEN e ELSE Close(e, cur, t))
      /\ defers' = SubSeq(defers, 1, Mark)
      /\ UNCHANGED <<cur, marks, scopes, loops, frames>>
  BY DEF JumpStmt
<1>2. /\ frames # <<>> /\ Top.kind # "elif" /\ IsOpen(code, cur)
      /\ left' \in 0 .. Budget
  BY <1>1, AtStmtFacts
<1>3. /\ code \in Blocks /\ cur \in DOMAIN code /\ Inside(code, Len(code))
      /\ Len(code) \in Nat /\ Runs(Mark) \in Seq(Instr)
      /\ DOMAIN code = 1 .. Len(code)
  BY StateFacts, RunsType
<1>4. /\ Ret \in Term /\ Ret # NoTerm
      /\ loops # <<>> => t \in Term /\ t # NoTerm /\ t.to \subseteq DOMAIN code
  <2>1. Ret \in Term /\ Ret # NoTerm
    BY MadeTypes
  <2>2. ASSUME loops # <<>>
        PROVE  t \in Term /\ t # NoTerm /\ t.to \subseteq DOMAIN code
    <3>1. target \in DOMAIN code /\ target \in Nat \ {0}
      BY <1>3, <2>2
    <3>2. QED
      BY <3>1 DEF Leave, Term, NoTerm
  <2>3. QED
    BY <2>1, <2>2
<1>5. /\ e \in Blocks /\ Len(e) = Len(code) /\ DOMAIN e = DOMAIN code
      /\ Grows(code, e, {cur})
      /\ \A b \in DOMAIN code : IsOpen(e, b) <=> IsOpen(code, b)
      /\ Inside(e, Len(code))
  BY <1>2, <1>3, <1>4, EmitFacts, GrowsByEmit, OpenAfter, InsideAfter
<1> HIDE DEF e, t
<1>6. /\ code' \in Blocks /\ DOMAIN code' = DOMAIN code
      /\ Grows(code, code', {cur}) /\ Inside(code', Len(code'))
      /\ \A b \in DOMAIN code' : IsOpen(code', b) =>
           b = cur \/ (b \in DOMAIN code /\ b # cur /\ IsOpen(code, b))
  <2>1. CASE loops = <<>>
    <3>1. code' = e
      BY <1>1, <2>1
    <3>2. QED
      BY <1>5, <3>1
  <2>2. CASE loops # <<>>
    <3> DEFINE d == Close(e, cur, t)
    <3>1. t \in Term /\ t # NoTerm /\ t.to \subseteq 1 .. Len(code)
          /\ cur \in DOMAIN e /\ IsOpen(e, cur) /\ <<>> \in Seq(Instr)
      BY <1>2, <1>3, <1>4, <1>5, <2>2, EmptySeq
    <3>2. /\ d \in Blocks /\ Len(d) = Len(e) /\ DOMAIN d = DOMAIN e
          /\ Grows(e, d, {cur})
      BY <1>5, <3>1, CloseFacts, GrowsByClose
    <3>3. /\ Inside(d, Len(code))
          /\ \A b \in DOMAIN e \ {cur} : IsOpen(d, b) <=> IsOpen(e, b)
      BY <1>3, <1>5, <3>1, InsideAfter, OpenAfter
    <3>4. code' = d
      BY <1>1, <2>2
    <3> HIDE DEF d
    <3>5. Grows(code, d, {cur})
      BY <1>3, <1>5, <3>2, GrowsTwice
    <3>6. QED
      BY <1>5, <3>2, <3>3, <3>4, <3>5
  <2>3. QED
    BY <2>1, <2>2
<1>7. /\ defers' \in Seq(1 .. Budget) /\ Len(defers') <= MaxDefers
      /\ Len(defers') = MarkOf(marks)
  BY <1>1, CutFacts, StateFacts
<1>8. MarksFit(marks', Len(defers'), Len(scopes))
  BY <1>1, <1>7, StateFacts, FitCut DEF IInv
<1>9. cur' \in DOMAIN code' /\ cur' = cur
  BY <1>1, <1>3, <1>6
<1>10. QED
  BY <1>1, <1>2, <1>6, <1>7, <1>8, <1>9, StraightStep

(* A break or continue leaves its loop and closes its block.               *)
LEMMA BreakContinueStep ==
  ASSUME IInv, BreakStmt \/ ContinueStmt
  PROVE  IInv' /\ Final
<1>1. loops # <<>> => /\ Last(loops).brk \in DOMAIN code
                      /\ Last(loops).cont \in DOMAIN code
  <2>1. HAVE loops # <<>>
  <2>2. loops \in Seq(LoopType)
    BY DEF IInv, LoopsFit
  <2>3. Last(loops) = loops[Len(loops)] /\ Len(loops) \in DOMAIN loops
    BY <2>1, <2>2, PopFacts
  <2>4. QED
    BY <2>3 DEF IInv
<1>2. CASE BreakStmt
  BY <1>1, <1>2, JumpStep DEF BreakStmt
<1>3. CASE ContinueStmt
  BY <1>1, <1>3, JumpStep DEF ContinueStmt
<1>4. QED
  BY <1>2, <1>3

-----------------------------------------------------------------------------
(* Entering a construct.                                                   *)

(* The scopes and marks after lg_push_scope at the start of a block.       *)
LEMMA OneScope ==
  ASSUME IInv, frames # <<>>, NEW start \in Nat
  PROVE  /\ Append(scopes, start) \in Seq(Nat)
         /\ Len(Append(scopes, start)) = Len(scopes) + 1
         /\ MarksFit(Marked(marks, Len(defers)), Len(defers), Len(scopes) + 1)
         /\ Len(scopes) >= 2
<1>1. scopes \in Seq(Nat) /\ Len(scopes) \in Nat /\ Len(defers) \in Nat
  BY StateFacts DEF IInv
<1>2. Len(scopes) >= 2
  <2>1. Len(frames) \in DOMAIN frames
    BY StateFacts, PopFacts
  <2>2. Depth(code, frames, Len(scopes), Len(frames)) >= 2
    BY <2>1 DEF IInv, ScopesFit
  <2>3. QED
    BY <2>2 DEF Depth
<1>3. MarksFit(marks, Len(defers), Len(scopes))
  BY DEF IInv
<1>4. QED
  BY <1>1, <1>2, <1>3, FitPush, PushFacts

(* A loop pushed for a construct, or not for want of room.                 *)
LEMMA LoopPushedFits ==
  ASSUME IInv, NEW f \in FrameType, f.kind \in Pushing,
         NEW d \in Blocks, NEW B, Grows(code, d, B),
         NEW brk \in DOMAIN d, NEW cont \in DOMAIN d
  PROVE  /\ LoopsFit(LoopPushed(brk, cont), Append(frames, f))
         /\ \A k \in DOMAIN LoopPushed(brk, cont) :
              /\ LoopPushed(brk, cont)[k].brk \in DOMAIN d
              /\ LoopPushed(brk, cont)[k].cont \in DOMAIN d
<1> DEFINE e == [brk |-> brk, cont |-> cont]
<1>1. /\ LoopsFit(loops, frames) /\ loops \in Seq(LoopType)
      /\ frames \in Seq(FrameType)
  BY StateFacts DEF IInv, LoopsFit
<1>2. \A k \in DOMAIN loops : /\ loops[k].brk \in DOMAIN d
                              /\ loops[k].cont \in DOMAIN d
  BY LoopsInside
<1>3. e \in LoopType /\ e.brk = brk /\ e.cont = cont
  BY LenProperties DEF LoopType, Blocks
<1>4. CASE Len(loops) < MaxLoops
  <2>1. LoopPushed(brk, cont) = Append(loops, e)
    BY <1>4 DEF LoopPushed
  <2> HIDE DEF e
  <2>2. LoopsFit(Append(loops, e), Append(frames, f))
    BY <1>1, <1>3, <1>4, LoopsPush
  <2>3. ASSUME NEW k \in DOMAIN Append(loops, e)
        PROVE  /\ Append(loops, e)[k].brk \in DOMAIN d
               /\ Append(loops, e)[k].cont \in DOMAIN d
    <3>1. \/ k \in DOMAIN loops /\ Append(loops, e)[k] = loops[k]
          \/ Append(loops, e)[k] = e
      BY <1>1, <1>3, AppendAt
    <3>2. QED
      BY <1>2, <1>3, <3>1
  <2>4. QED
    BY <2>1, <2>2, <2>3
<1>5. CASE ~(Len(loops) < MaxLoops)
  <2>1. LoopPushed(brk, cont) = loops
    BY <1>5 DEF LoopPushed
  <2>2. LoopsFit(loops, Append(frames, f))
    BY <1>1, LoopsNext
  <2>3. QED
    BY <1>2, <2>1, <2>2
<1>6. QED
  BY <1>4, <1>5

(* if: the then, the else and the done block.                              *)
LEMMA IfBlocksStep ==
  ASSUME IInv, frames # <<>>, IsOpen(code, cur),
         NEW alt \in {"none", "block", "if"}, IfBlocks(alt),
         left' \in 0 .. Budget
  PROVE  IInv' /\ Final
<1> DEFINE n == Len(code)
           then == n + 1
           else == n + 2
           done == n + 3
           t == CondBr(then, else)
           f == Frame("then", else, done, alt)
           outer == IF alt = "block" THEN Append(scopes, else) ELSE scopes
           bs == <<Empty(Append(scopes, then), "if"), Empty(outer, "if"),
                   Empty(scopes, "if")>>
<1>1. /\ code' = Close(code, cur, t) \o bs
      /\ EnterBlock(then, f, frames)
      /\ defers' = defers /\ loops' = loops
  BY DEF IfBlocks
<1>2. /\ code \in Blocks /\ cur \in DOMAIN code /\ Inside(code, n)
      /\ n \in Nat /\ DOMAIN code = 1 .. n /\ scopes \in Seq(Nat)
      /\ frames \in Seq(FrameType)
  BY StateFacts DEF IInv
<1>3. then \in Nat /\ else \in Nat /\ done \in Nat
  BY <1>2
<1>4. /\ Append(scopes, then) \in Seq(Nat)
      /\ Len(Append(scopes, then)) = Len(scopes) + 1
      /\ MarksFit(Marked(marks, Len(defers)), Len(defers), Len(scopes) + 1)
      /\ outer \in Seq(Nat)
  BY <1>2, <1>3, OneScope
<1>5. /\ bs[1] \in BasicBlock /\ bs[1].term = NoTerm
      /\ bs[2] \in BasicBlock /\ bs[2].term = NoTerm
      /\ bs[3] \in BasicBlock /\ bs[3].term = NoTerm
      /\ bs[3].path = scopes
  <2>1. <<>> \in Seq(Instr) /\ NoTerm \in Term
    BY EmptySeq, MadeTypes
  <2>2. QED
    BY <1>2, <1>4, <2>1, MadeBlock, MadeEmpty
<1>6. bs \in Blocks /\ Len(bs) = 3 /\ DOMAIN bs = {1, 2, 3}
  BY <1>5 DEF Blocks
<1>7. t \in Term /\ t # NoTerm /\ t.to = {then, else}
  <2>1. then \in Nat \ {0} /\ else \in Nat \ {0}
    BY <1>2
  <2>2. t.to = {then, else}
    BY DEF CondBr
  <2>3. QED
    BY <2>1, <2>2, MadeTypes
<1>8. Inside(bs, n + Len(bs))
  BY <1>5, <1>6 DEF Inside, NoTerm
<1>9. t.to \subseteq 1 .. n + Len(bs)
  <2> HIDE DEF bs, t
  <2>1. QED
    BY <1>2, <1>6, <1>7
<1>10. f \in FrameType /\ f.kind = "then" /\ f.next = else /\ f.done = done
  BY <1>3 DEF Frame, FrameType, FrameKinds
<1> HIDE DEF bs, t, outer, f
<1>11. Appended(code, cur, code', bs)
  BY <1>1, <1>2, <1>6, <1>7, <1>8, <1>9, CloseThenAppend
<1>12. /\ code' \in Blocks /\ DOMAIN code' = 1 .. n + 3
       /\ Grows(code, code', {cur}) /\ Inside(code', Len(code'))
       /\ code'[then] = bs[1] /\ code'[else] = bs[2] /\ code'[done] = bs[3]
       /\ \A b \in DOMAIN code' : IsOpen(code', b) =>
            \/ b = then \/ b = else \/ b = done
            \/ b \in DOMAIN code /\ b # cur /\ IsOpen(code, b)
  BY <1>6, <1>11 DEF Appended
<1>13. cur' = then /\ scopes' = Append(scopes, then)
       /\ marks' = Marked(marks, Len(defers)) /\ frames' = Append(frames, f)
  BY <1>1 DEF EnterBlock
<1>14. Enters(code, cur, code', cur', f)
  <2>1. /\ f.next > n /\ f.next <= f.done /\ f.done \in DOMAIN code'
        /\ cur' \in DOMAIN code' /\ cur' > n
        /\ f.next < f.done /\ cur' # f.next
    BY <1>2, <1>10, <1>12, <1>13
  <2>2. IsOpen(code', f.next)
    BY <1>5, <1>10, <1>12 DEF IsOpen
  <2>3. \A b \in DOMAIN code' : IsOpen(code', b) =>
          \/ b = cur'
          \/ b = f.done
          \/ f.kind = "then" /\ b = f.next
          \/ b \in DOMAIN code /\ b # cur /\ IsOpen(code, b)
    BY <1>10, <1>12, <1>13
  <2>4. f.kind \notin {"body", "elif"}
    BY <1>10
  <2>5. QED
    BY <1>10, <1>12, <2>1, <2>2, <2>3, <2>4 DEF Enters
<1>15. Opens(f.kind) = 1 /\ code'[f.done].path = scopes
  BY <1>5, <1>10, <1>12 DEF Opens
<1>16. LoopsFit(loops', frames')
  BY <1>1, <1>2, <1>10, <1>13, LoopsNext DEF IInv
<1>17. \A k \in DOMAIN loops' : /\ loops'[k].brk \in DOMAIN code'
                                /\ loops'[k].cont \in DOMAIN code'
  BY <1>1, <1>12, LoopsInside
<1>18. /\ scopes' \in Seq(Nat) /\ Len(scopes') = Len(scopes) + Opens(f.kind)
       /\ MarksFit(marks', Len(defers), Len(scopes'))
  BY <1>4, <1>13, <1>15
<1>19. QED
  BY <1>1, <1>13, <1>14, <1>15, <1>16, <1>17, <1>18, EnterStep

(* The statements that lay out the blocks of a conditional.                *)
LEMMA IfSteps ==
  ASSUME IInv, IfStmt \/ IfElseIfStmt \/ ElseIf
  PROVE  IInv' /\ Final
<1>1. CASE IfStmt
  BY <1>1, AtStmtFacts, IfBlocksStep DEF IfStmt
<1>2. CASE IfElseIfStmt
  BY <1>2, AtStmtFacts, IfBlocksStep DEF IfElseIfStmt
<1>3. CASE ElseIf
  <2>1. frames # <<>> /\ Top.kind = "elif" /\ cur = Top.next
    BY <1>3 DEF ElseIf
  <2>2. IsOpen(code, cur)
    BY <2>1 DEF IInv, Built, Top
  <2>3. left' \in 0 .. Budget
    BY <1>3, ConstantsAssumption DEF ElseIf, IInv
  <2>4. \E alt \in {"none", "block", "if"} : IfBlocks(alt)
    BY <1>3 DEF ElseIf
  <2>5. QED
    BY <2>1, <2>2, <2>3, <2>4, IfBlocksStep
<1>4. QED
  BY <1>1, <1>2, <1>3

(* while: the condition's block, which the code ends at once, the body's   *)
(* and the done block.                                                     *)
LEMMA WhileStep ==
  ASSUME IInv, WhileStmt
  PROVE  IInv' /\ Final
<1> DEFINE n == Len(code)
           cond == n + 1
           body == n + 2
           done == n + 3
           t == Br(cond)
           f == Frame("while", cond, done, "none")
           bs == <<Block(<<>>, CondBr(body, done), scopes, "while"),
                   Empty(Append(scopes, body), "while"),
                   Empty(scopes, "while")>>
<1>1. /\ AtStmt("while")
      /\ code' = Close(code, cur, t) \o bs
      /\ EnterBlock(body, f, frames)
      /\ loops' = LoopPushed(done, cond)
      /\ defers' = defers
  BY DEF WhileStmt
<1>2. /\ frames # <<>> /\ IsOpen(code, cur) /\ left' \in 0 .. Budget
  BY <1>1, AtStmtFacts
<1>3. /\ code \in Blocks /\ cur \in DOMAIN code /\ Inside(code, n)
      /\ n \in Nat /\ DOMAIN code = 1 .. n /\ scopes \in Seq(Nat)
      /\ frames \in Seq(FrameType)
  BY StateFacts DEF IInv
<1>4. cond \in Nat \ {0} /\ body \in Nat \ {0} /\ done \in Nat \ {0}
  BY <1>3
<1>5. /\ Append(scopes, body) \in Seq(Nat)
      /\ Len(Append(scopes, body)) = Len(scopes) + 1
      /\ MarksFit(Marked(marks, Len(defers)), Len(defers), Len(scopes) + 1)
  BY <1>2, <1>4, OneScope
<1>6. /\ bs[1] \in BasicBlock /\ bs[1].term = CondBr(body, done)
      /\ bs[2] \in BasicBlock /\ bs[2].term = NoTerm
      /\ bs[3] \in BasicBlock /\ bs[3].term = NoTerm
      /\ bs[3].path = scopes
  <2>1. <<>> \in Seq(Instr) /\ NoTerm \in Term /\ CondBr(body, done) \in Term
    BY <1>4, EmptySeq, MadeTypes
  <2>2. ASSUME NEW path \in Seq(Nat), NEW x \in Term
        PROVE  /\ Block(<<>>, x, path, "while") \in BasicBlock
               /\ Block(<<>>, x, path, "while").term = x
               /\ Empty(path, "while") \in BasicBlock
               /\ Empty(path, "while").term = NoTerm
               /\ Empty(path, "while").path = path
    BY <2>1, MadeBlock, MadeEmpty
  <2>3. QED
    BY <1>3, <1>5, <2>1, <2>2
<1>7. bs \in Blocks /\ Len(bs) = 3 /\ DOMAIN bs = {1, 2, 3}
  BY <1>6 DEF Blocks
<1>8. t \in Term /\ t # NoTerm /\ t.to = {cond}
  <2>1. t.to = {cond}
    BY DEF Br
  <2>2. QED
    BY <1>4, <2>1, MadeTypes
<1>9. CondBr(body, done) # NoTerm /\ CondBr(body, done).to = {body, done}
      /\ NoTerm.to = {}
  <2>1. CondBr(body, done).to = {body, done} /\ NoTerm.to = {}
    BY DEF CondBr, NoTerm
  <2>2. QED
    BY <1>4, <2>1, MadeTypes
<1>10. f \in FrameType /\ f.kind = "while" /\ f.next = cond /\ f.done = done
  BY <1>4 DEF Frame, FrameType, FrameKinds, Loops
<1> HIDE DEF bs, t, f
<1>11. Inside(bs, n + Len(bs)) /\ t.to \subseteq 1 .. n + Len(bs)
  BY <1>3, <1>6, <1>7, <1>8, <1>9 DEF Inside
<1>12. Appended(code, cur, code', bs)
  BY <1>1, <1>2, <1>3, <1>7, <1>8, <1>11, CloseThenAppend
<1>13. /\ code' \in Blocks /\ DOMAIN code' = 1 .. n + 3
       /\ Grows(code, code', {cur}) /\ Inside(code', Len(code'))
       /\ code'[done] = bs[3]
       /\ \A b \in DOMAIN code' : IsOpen(code', b) =>
            \/ b = body \/ b = done
            \/ b \in DOMAIN code /\ b # cur /\ IsOpen(code, b)
  BY <1>6, <1>7, <1>9, <1>12 DEF Appended
<1>14. cur' = body /\ scopes' = Append(scopes, body)
       /\ marks' = Marked(marks, Len(defers)) /\ frames' = Append(frames, f)
  BY <1>1 DEF EnterBlock
<1>15. Enters(code, cur, code', cur', f)
  <2>1. /\ f.next > n /\ f.next <= f.done /\ f.done \in DOMAIN code'
        /\ cur' \in DOMAIN code' /\ cur' > n
    BY <1>3, <1>10, <1>13, <1>14
  <2>2. \A b \in DOMAIN code' : IsOpen(code', b) =>
          \/ b = cur'
          \/ b = f.done
          \/ f.kind = "then" /\ b = f.next
          \/ b \in DOMAIN code /\ b # cur /\ IsOpen(code, b)
    BY <1>10, <1>13, <1>14
  <2>3. f.kind \notin {"body", "elif"} /\ f.kind # "then"
    BY <1>10
  <2>4. QED
    BY <1>10, <1>13, <2>1, <2>2, <2>3 DEF Enters
<1>16. Opens(f.kind) = 1 /\ code'[f.done].path = scopes /\ f.kind \in Pushing
  BY <1>6, <1>10, <1>13 DEF Opens, Pushing, Loops
<1>17. done \in DOMAIN code' /\ cond \in DOMAIN code'
  BY <1>3, <1>13
<1>18. /\ LoopsFit(loops', frames')
       /\ \A k \in DOMAIN loops' : /\ loops'[k].brk \in DOMAIN code'
                                   /\ loops'[k].cont \in DOMAIN code'
  BY <1>1, <1>10, <1>13, <1>14, <1>16, <1>17, LoopPushedFits
<1>19. /\ scopes' \in Seq(Nat) /\ Len(scopes') = Len(scopes) + Opens(f.kind)
       /\ MarksFit(marks', Len(defers), Len(scopes'))
  BY <1>5, <1>14, <1>16
<1>20. QED
  BY <1>1, <1>2, <1>14, <1>15, <1>16, <1>18, <1>19, EnterStep

(* loop and unsafe: the body's and the done block.                         *)
LEMMA LoopOrUnsafeStep ==
  ASSUME IInv, NEW kind \in {"loop", "unsafe"}, LoopOrUnsafe(kind)
  PROVE  IInv' /\ Final
<1> DEFINE n == Len(code)
           body == n + 1
           done == n + 2
           t == Br(body)
           f == Frame(kind, done, done, "none")
           bs == <<Empty(Append(scopes, body), kind), Empty(scopes, kind)>>
<1>1. /\ AtStmt(kind)
      /\ code' = Close(code, cur, t) \o bs
      /\ EnterBlock(body, f, frames)
      /\ loops' = LoopPushed(done, body)
      /\ defers' = defers
  BY DEF LoopOrUnsafe
<1>2. /\ frames # <<>> /\ IsOpen(code, cur) /\ left' \in 0 .. Budget
  BY <1>1, AtStmtFacts
<1>3. /\ code \in Blocks /\ cur \in DOMAIN code /\ Inside(code, n)
      /\ n \in Nat /\ DOMAIN code = 1 .. n /\ scopes \in Seq(Nat)
      /\ frames \in Seq(FrameType)
  BY StateFacts DEF IInv
<1>4. body \in Nat \ {0} /\ done \in Nat \ {0}
  BY <1>3
<1>5. /\ Append(scopes, body) \in Seq(Nat)
      /\ Len(Append(scopes, body)) = Len(scopes) + 1
      /\ MarksFit(Marked(marks, Len(defers)), Len(defers), Len(scopes) + 1)
  BY <1>2, <1>4, OneScope
<1>6. /\ bs[1] \in BasicBlock /\ bs[1].term = NoTerm
      /\ bs[2] \in BasicBlock /\ bs[2].term = NoTerm
      /\ bs[2].path = scopes
  <2>1. <<>> \in Seq(Instr) /\ NoTerm \in Term
    BY EmptySeq, MadeTypes
  <2>2. kind \in {"entry", "try", "if", "while", "loop", "for", "unsafe"}
    OBVIOUS
  <2>3. ASSUME NEW path \in Seq(Nat)
        PROVE  /\ Empty(path, kind) \in BasicBlock
               /\ Empty(path, kind).term = NoTerm
               /\ Empty(path, kind).path = path
    BY <2>2, MadeEmpty
  <2>4. QED
    BY <1>3, <1>5, <2>3
<1>7. bs \in Blocks /\ Len(bs) = 2 /\ DOMAIN bs = {1, 2}
  BY <1>6 DEF Blocks
<1>8. t \in Term /\ t # NoTerm /\ t.to = {body} /\ NoTerm.to = {}
  <2>1. t.to = {body} /\ NoTerm.to = {}
    BY DEF Br, NoTerm
  <2>2. QED
    BY <1>4, <2>1, MadeTypes
<1>9. f \in FrameType /\ f.kind = kind /\ f.next = done /\ f.done = done
  BY <1>4 DEF Frame, FrameType, FrameKinds, Loops
<1> HIDE DEF bs, t, f
<1>10. Inside(bs, n + Len(bs)) /\ t.to \subseteq 1 .. n + Len(bs)
  BY <1>3, <1>6, <1>7, <1>8 DEF Inside
<1>11. Appended(code, cur, code', bs)
  BY <1>1, <1>2, <1>3, <1>7, <1>8, <1>10, CloseThenAppend
<1>12. /\ code' \in Blocks /\ DOMAIN code' = 1 .. n + 2
       /\ Grows(code, code', {cur}) /\ Inside(code', Len(code'))
       /\ code'[done] = bs[2]
       /\ \A b \in DOMAIN code' : IsOpen(code', b) =>
            \/ b = body \/ b = done
            \/ b \in DOMAIN code /\ b # cur /\ IsOpen(code, b)
  BY <1>7, <1>11 DEF Appended
<1>13. cur' = body /\ scopes' = Append(scopes, body)
       /\ marks' = Marked(marks, Len(defers)) /\ frames' = Append(frames, f)
  BY <1>1 DEF EnterBlock
<1>14. Enters(code, cur, code', cur', f)
  <2>1. /\ f.next > n /\ f.next <= f.done /\ f.done \in DOMAIN code'
        /\ cur' \in DOMAIN code' /\ cur' > n
    BY <1>3, <1>9, <1>12, <1>13
  <2>2. \A b \in DOMAIN code' : IsOpen(code', b) =>
          \/ b = cur'
          \/ b = f.done
          \/ f.kind = "then" /\ b = f.next
          \/ b \in DOMAIN code /\ b # cur /\ IsOpen(code, b)
    BY <1>9, <1>12, <1>13
  <2>3. f.kind \notin {"body", "elif"} /\ f.kind # "then"
    BY <1>9
  <2>4. QED
    BY <1>9, <1>12, <2>1, <2>2, <2>3 DEF Enters
<1>15. Opens(f.kind) = 1 /\ code'[f.done].path = scopes /\ f.kind \in Pushing
  BY <1>6, <1>9, <1>12 DEF Opens, Pushing, Loops
<1>16. done \in DOMAIN code' /\ body \in DOMAIN code'
  BY <1>3, <1>12
<1>17. /\ LoopsFit(loops', frames')
       /\ \A k \in DOMAIN loops' : /\ loops'[k].brk \in DOMAIN code'
                                   /\ loops'[k].cont \in DOMAIN code'
  BY <1>1, <1>9, <1>12, <1>13, <1>15, <1>16, LoopPushedFits
<1>18. /\ scopes' \in Seq(Nat) /\ Len(scopes') = Len(scopes) + Opens(f.kind)
       /\ MarksFit(marks', Len(defers), Len(scopes'))
  BY <1>5, <1>13, <1>15
<1>19. QED
  BY <1>1, <1>2, <1>13, <1>14, <1>15, <1>17, <1>18, EnterStep

(* for: a scope and a mark more, and a post block that only branches.      *)
LEMMA ForStep ==
  ASSUME IInv, ForStmt
  PROVE  IInv' /\ Final
<1> DEFINE n == Len(code)
           cond == n + 1
           body == n + 2
           post == n + 3
           done == n + 4
           inner == Append(scopes, 0)
           t == Br(cond)
           f == Frame("for", post, done, "none")
           bs(test) == <<Block(<<>>, test, inner, "for"),
                         Empty(Append(inner, body), "for"),
                         Block(<<>>, Br(cond), inner, "for"),
                         Empty(scopes, "for")>>
<1>1. PICK test \in {CondBr(body, done), Br(body)} :
         code' = Close(code, cur, t) \o bs(test)
  BY DEF ForStmt
<1>2. /\ AtStmt("for")
      /\ loops' = LoopPushed(done, post)
      /\ cur' = body
      /\ scopes' = Append(inner, body)
      /\ marks' = Marked(Marked(marks, Len(defers)), Len(defers))
      /\ frames' = Append(frames, f)
      /\ defers' = defers
  BY DEF ForStmt
<1> DEFINE new == bs(test)
<1>3. /\ frames # <<>> /\ IsOpen(code, cur) /\ left' \in 0 .. Budget
  BY <1>2, AtStmtFacts
<1>4. /\ code \in Blocks /\ cur \in DOMAIN code /\ Inside(code, n)
      /\ n \in Nat /\ DOMAIN code = 1 .. n /\ scopes \in Seq(Nat)
      /\ frames \in Seq(FrameType)
      /\ Len(scopes) \in Nat /\ Len(defers) \in Nat
  BY StateFacts DEF IInv
<1>5. /\ cond \in Nat \ {0} /\ body \in Nat \ {0} /\ post \in Nat \ {0}
      /\ done \in Nat \ {0}
  BY <1>4
<1>6. /\ inner \in Seq(Nat)
      /\ Len(inner) = Len(scopes) + 1
      /\ MarksFit(Marked(marks, Len(defers)), Len(defers), Len(scopes) + 1)
      /\ Len(scopes) >= 2
  BY <1>3, OneScope
<1>7. /\ Append(inner, body) \in Seq(Nat)
      /\ Len(Append(inner, body)) = Len(scopes) + 1 + 1
      /\ MarksFit(Marked(Marked(marks, Len(defers)), Len(defers)),
                  Len(defers), Len(scopes) + 1 + 1)
  <2>1. Append(inner, body) \in Seq(Nat)
        /\ Len(Append(inner, body)) = Len(inner) + 1
    BY <1>5, <1>6, PushFacts
  <2>2. Len(scopes) + 1 \in Nat /\ Len(scopes) + 1 >= 2
    BY <1>4, <1>6
  <2>3. QED
    BY <1>4, <1>6, <2>1, <2>2, FitPush
<1>8. /\ test \in Term /\ test # NoTerm /\ test.to \subseteq {body, done}
  <2>1. CondBr(body, done).to = {body, done} /\ Br(body).to = {body}
    BY DEF CondBr, Br
  <2>2. /\ CondBr(body, done) \in Term /\ CondBr(body, done) # NoTerm
        /\ Br(body) \in Term /\ Br(body) # NoTerm
    BY <1>5, MadeTypes
  <2>3. QED
    BY <2>1, <2>2
<1>9. t \in Term /\ t # NoTerm /\ t.to = {cond} /\ NoTerm.to = {}
  <2>1. t.to = {cond} /\ NoTerm.to = {}
    BY DEF Br, NoTerm
  <2>2. QED
    BY <1>5, <2>1, MadeTypes
<1> HIDE DEF inner
<1>10. /\ new[1] \in BasicBlock /\ new[1].term = test
       /\ new[2] \in BasicBlock /\ new[2].term = NoTerm
       /\ new[3] \in BasicBlock /\ new[3].term = t
       /\ new[4] \in BasicBlock /\ new[4].term = NoTerm
       /\ new[4].path = scopes
  <2>1. <<>> \in Seq(Instr) /\ NoTerm \in Term
    BY EmptySeq, MadeTypes
  <2>2. ASSUME NEW path \in Seq(Nat), NEW x \in Term
        PROVE  /\ Block(<<>>, x, path, "for") \in BasicBlock
               /\ Block(<<>>, x, path, "for").term = x
               /\ Empty(path, "for") \in BasicBlock
               /\ Empty(path, "for").term = NoTerm
               /\ Empty(path, "for").path = path
    BY <2>1, MadeBlock, MadeEmpty
  <2>3. t = Br(cond)
    OBVIOUS
  <2> HIDE DEF t
  <2>4. QED
    BY <1>4, <1>6, <1>7, <1>8, <1>9, <2>2, <2>3
<1>11. new \in Blocks /\ Len(new) = 4 /\ DOMAIN new = {1, 2, 3, 4}
  BY <1>10 DEF Blocks
<1>12. f \in FrameType /\ f.kind = "for" /\ f.next = post /\ f.done = done
  BY <1>5 DEF Frame, FrameType, FrameKinds, Loops
<1> HIDE DEF new, t, f
<1>13. Inside(new, n + Len(new)) /\ t.to \subseteq 1 .. n + Len(new)
  BY <1>4, <1>8, <1>9, <1>10, <1>11 DEF Inside
<1>14. Appended(code, cur, code', new)
  <2>1. code' = Close(code, cur, t) \o new
    BY <1>1 DEF new
  <2>2. QED
    BY <1>3, <1>4, <1>9, <1>11, <1>13, <2>1, CloseThenAppend
<1>15. /\ code' \in Blocks /\ DOMAIN code' = 1 .. n + 4
       /\ Grows(code, code', {cur}) /\ Inside(code', Len(code'))
       /\ code'[done] = new[4]
       /\ \A b \in DOMAIN code' : IsOpen(code', b) =>
            \/ b = body \/ b = done
            \/ b \in DOMAIN code /\ b # cur /\ IsOpen(code, b)
  BY <1>8, <1>9, <1>10, <1>11, <1>14 DEF Appended
<1>16. Enters(code, cur, code', cur', f)
  <2>1. /\ f.next > n /\ f.next <= f.done /\ f.done \in DOMAIN code'
        /\ cur' \in DOMAIN code' /\ cur' > n
    BY <1>2, <1>4, <1>12, <1>15
  <2>2. \A b \in DOMAIN code' : IsOpen(code', b) =>
          \/ b = cur'
          \/ b = f.done
          \/ f.kind = "then" /\ b = f.next
          \/ b \in DOMAIN code /\ b # cur /\ IsOpen(code, b)
    BY <1>2, <1>12, <1>15
  <2>3. f.kind \notin {"body", "elif"} /\ f.kind # "then"
    BY <1>12
  <2>4. QED
    BY <1>12, <1>15, <2>1, <2>2, <2>3 DEF Enters
<1>17. Opens(f.kind) = 2 /\ code'[f.done].path = scopes /\ f.kind \in Pushing
  BY <1>10, <1>12, <1>15 DEF Opens, Pushing, Loops
<1>18. done \in DOMAIN code' /\ post \in DOMAIN code'
  BY <1>4, <1>15
<1>19. /\ LoopsFit(loops', frames')
       /\ \A k \in DOMAIN loops' : /\ loops'[k].brk \in DOMAIN code'
                                   /\ loops'[k].cont \in DOMAIN code'
  BY <1>2, <1>12, <1>15, <1>17, <1>18, LoopPushedFits
<1>20. /\ scopes' \in Seq(Nat) /\ Len(scopes') = Len(scopes) + Opens(f.kind)
       /\ MarksFit(marks', Len(defers), Len(scopes'))
  <2>1. Len(scopes) + 1 + 1 = Len(scopes) + Opens(f.kind)
    BY <1>4, <1>17
  <2>2. QED
    BY <1>2, <1>7, <2>1
<1>21. QED
  BY <1>2, <1>3, <1>16, <1>17, <1>19, <1>20, EnterStep

-----------------------------------------------------------------------------
(* The ends of blocks.                                                     *)

(* The blocks of an inner construct are blocks of the function.            *)
LEMMA TopBlocks ==
  ASSUME IInv, frames # <<>>, Top.kind # "body"
  PROVE  /\ Top.next \in DOMAIN code
         /\ Top.done \in DOMAIN code
         /\ Top.kind = "then" => /\ Top.next < Top.done
                                 /\ IsOpen(code, Top.next)
                                 /\ cur # Top.next
<1>1. frames \in Seq(FrameType) /\ FramesFit(code, frames)
  BY StateFacts
<1>2. /\ Top = frames[Len(frames)] /\ Len(frames) \in DOMAIN frames
      /\ Len(frames) \in Nat \ {0}
  BY <1>1, PopFacts DEF Top
<1>3. Len(frames) > 1
  BY <1>1, <1>2 DEF FramesFit
<1>4. QED
  BY <1>1, <1>2, <1>3 DEF FramesFit, IInv, Built

(* The deferred calls at the end of a block, if it is open.                *)
LEMMA BlockExitFacts ==
  ASSUME IInv
  PROVE  /\ BlockExit \in Blocks
         /\ Len(BlockExit) = Len(code)
         /\ DOMAIN BlockExit = DOMAIN code
         /\ Grows(code, BlockExit, {cur})
         /\ Inside(BlockExit, Len(code))
         /\ \A b \in DOMAIN code : IsOpen(BlockExit, b) <=> IsOpen(code, b)
<1>1. /\ code \in Blocks /\ cur \in DOMAIN code /\ Inside(code, Len(code))
      /\ Len(code) \in Nat /\ Runs(Mark) \in Seq(Instr)
      /\ Ret \in Term /\ Ret # NoTerm
  BY StateFacts, RunsType, MadeTypes
<1>2. CASE IsOpen(code, cur)
  <2> DEFINE e == Emit(code, cur, Runs(Mark))
  <2>1. /\ e \in Blocks /\ Len(e) = Len(code) /\ DOMAIN e = DOMAIN code
        /\ Grows(code, e, {cur})
        /\ \A b \in DOMAIN code : IsOpen(e, b) <=> IsOpen(code, b)
        /\ Inside(e, Len(code))
    BY <1>1, <1>2, EmitFacts, GrowsByEmit, OpenAfter, InsideAfter
  <2>2. BlockExit = e
    BY <1>2 DEF BlockExit
  <2> HIDE DEF e
  <2>3. QED
    BY <2>1, <2>2
<1>3. CASE ~IsOpen(code, cur)
  <2>1. BlockExit = code
    BY <1>3 DEF BlockExit
  <2>2. QED
    BY <1>1, <2>1, GrowsNothing
<1>4. QED
  BY <1>2, <1>3

(* Function d has the blocks of c; of those only block k has changed, and  *)
(* it has a terminator now.                                                *)
Closed(c, k, d) ==
  /\ d \in Blocks
  /\ Len(d) = Len(c)
  /\ DOMAIN d = DOMAIN c
  /\ Grows(c, d, {k})
  /\ Inside(d, Len(d))
  /\ \A b \in DOMAIN c : IsOpen(d, b) => IsOpen(c, b) /\ b # k

(* The deferred calls of the block and then the branch onwards.            *)
LEMMA ExitThenFall ==
  ASSUME IInv, NEW to \in DOMAIN code
  PROVE  Closed(code, cur, FallTo(BlockExit, cur, to))
<1> DEFINE e == BlockExit
           d == FallTo(e, cur, to)
<1>1. /\ e \in Blocks /\ Len(e) = Len(code) /\ DOMAIN e = DOMAIN code
      /\ Grows(code, e, {cur}) /\ Inside(e, Len(code))
      /\ \A b \in DOMAIN code : IsOpen(e, b) <=> IsOpen(code, b)
  BY BlockExitFacts
<1> HIDE DEF e
<1>2. /\ code \in Blocks /\ cur \in DOMAIN e /\ Len(code) \in Nat
      /\ to \in Nat \ {0} /\ to <= Len(code)
  BY <1>1, StateFacts
<1>3. /\ d \in Blocks /\ Len(d) = Len(e) /\ DOMAIN d = DOMAIN e
      /\ Grows(e, d, {cur}) /\ Inside(d, Len(code)) /\ ~IsOpen(d, cur)
      /\ \A a \in DOMAIN e \ {cur} : IsOpen(d, a) <=> IsOpen(e, a)
  BY <1>1, <1>2, FallToFacts
<1>4. d = FallTo(BlockExit, cur, to)
  BY DEF e
<1> HIDE DEF d
<1>5. Grows(code, d, {cur})
  BY <1>1, <1>2, <1>3, GrowsTwice
<1>6. Closed(code, cur, d)
  BY <1>1, <1>3, <1>5 DEF Closed
<1>7. QED
  BY <1>4, <1>6

(* The scopes, marks and deferred expressions after the end of a block     *)
(* with one scope of its own.                                              *)
LEMMA LeaveBlockFacts ==
  ASSUME IInv, frames # <<>>, NEW kind, kind \notin {"body", "for", "elif"},
         LeaveBlock(kind)
  PROVE  /\ Top.kind = kind
         /\ scopes' \in Seq(Nat)
         /\ Len(scopes') = Len(scopes) - Opens(kind)
         /\ defers' \in Seq(1 .. Budget)
         /\ Len(defers') <= MaxDefers
         /\ MarksFit(marks', Len(defers'), Len(scopes'))
         /\ left' = left
<1>1. /\ Top.kind = kind /\ defers' = SubSeq(defers, 1, Mark)
      /\ scopes' = Front(scopes) /\ marks' = Unmarked(marks) /\ left' = left
  BY DEF LeaveBlock
<1>2. scopes \in Seq(Nat) /\ Len(scopes) \in Nat /\ Len(scopes) >= 2
  BY StateFacts, OneScope DEF IInv
<1>3. scopes # <<>>
  BY <1>2
<1>4. /\ scopes' \in Seq(Nat) /\ Len(scopes') = Len(scopes) - 1
  BY <1>1, <1>2, <1>3, FrontLast
<1>5. /\ defers' \in Seq(1 .. Budget) /\ Len(defers') = MarkOf(marks)
      /\ Len(defers') <= MaxDefers /\ Len(defers') \in Nat
  BY <1>1, CutFacts, StateFacts
<1>6. MarksFit(marks, Len(defers'), Len(scopes))
  BY <1>5, StateFacts, FitCut DEF IInv
<1>7. MarksFit(marks', Len(defers'), Len(scopes) - 1)
  BY <1>1, <1>2, <1>5, <1>6, FitPop
<1>8. Opens(kind) = 1
  BY DEF Opens
<1>9. QED
  BY <1>1, <1>4, <1>5, <1>7, <1>8

(* The end of a block after which the builder goes on in the done block of *)
(* its construct.                                                          *)
LEMMA EndStep ==
  ASSUME IInv, frames # <<>>, Top.kind \notin {"body", "then"},
         Closed(code, cur, code'),
         cur' = Top.done, frames' = Base,
         scopes' \in Seq(Nat), Len(scopes') = Len(scopes) - Opens(Top.kind),
         defers' \in Seq(1 .. Budget), Len(defers') <= MaxDefers,
         MarksFit(marks', Len(defers'), Len(scopes')),
         \/ loops' = LoopPopped
         \/ loops' = loops /\ Top.kind \notin Pushing,
         left' = left
  PROVE  IInv' /\ Final
<1>1. /\ code' \in Blocks /\ Grows(code, code', {cur})
      /\ Inside(code', Len(code')) /\ DOMAIN code' = DOMAIN code
      /\ \A b \in DOMAIN code : IsOpen(code', b) => IsOpen(code, b) /\ b # cur
  BY DEF Closed
<1>2. Grows(code, code', {cur, Top.next})
  BY <1>1 DEF Grows
<1>3. \A b \in DOMAIN code : IsOpen(code', b) =>
         /\ IsOpen(code, b)
         /\ b # cur
         /\ Top.kind = "then" => b # Top.next
  BY <1>1
<1>4. QED
  BY <1>1, <1>2, <1>3, LeaveStep

(* The ends of else, while, loop and unsafe blocks.                        *)
LEMMA EndPlainSteps ==
  ASSUME IInv, EndElse \/ EndWhile \/ EndLoop \/ EndUnsafe
  PROVE  IInv' /\ Final
<1>1. ASSUME NEW kind \in {"else", "while", "loop", "unsafe"},
             NEW to, to = Top.done \/ to = Top.next,
             LeaveBlock(kind), code' = FallTo(BlockExit, cur, to),
             cur' = Top.done, frames' = Base,
             \/ loops' = LoopPopped
             \/ loops' = loops /\ kind = "else"
      PROVE  IInv' /\ Final
  <2>1. frames # <<>> /\ Top.kind = kind
    BY <1>1 DEF LeaveBlock
  <2>2. /\ scopes' \in Seq(Nat) /\ Len(scopes') = Len(scopes) - Opens(kind)
        /\ defers' \in Seq(1 .. Budget) /\ Len(defers') <= MaxDefers
        /\ MarksFit(marks', Len(defers'), Len(scopes')) /\ left' = left
    BY <1>1, <2>1, LeaveBlockFacts
  <2>3. to \in DOMAIN code
    BY <1>1, <2>1, TopBlocks
  <2>4. Closed(code, cur, code')
    BY <1>1, <2>3, ExitThenFall
  <2>5. "else" \notin Pushing
    BY DEF Pushing, Loops
  <2>6. QED
    BY <1>1, <2>1, <2>2, <2>4, <2>5, EndStep
<1>2. CASE EndElse
  BY <1>1, <1>2 DEF EndElse
<1>3. CASE EndWhile
  BY <1>1, <1>3 DEF EndWhile
<1>4. CASE EndLoop
  BY <1>1, <1>4 DEF EndLoop, EndLoopOrUnsafe
<1>5. CASE EndUnsafe
  BY <1>1, <1>5 DEF EndUnsafe, EndLoopOrUnsafe
<1>6. QED
  BY <1>2, <1>3, <1>4, <1>5

(* The end of a nested if, which has no scope of its own.                  *)
LEMMA EndElseIfStep ==
  ASSUME IInv, EndElseIf
  PROVE  IInv' /\ Final
<1>1. /\ frames # <<>> /\ Top.kind = "elif"
      /\ code' = FallTo(code, cur, Top.done)
      /\ cur' = Top.done /\ frames' = Base
      /\ UNCHANGED <<defers, marks, scopes, loops, left>>
  BY DEF EndElseIf
<1>2. /\ code \in Blocks /\ cur \in DOMAIN code /\ Inside(code, Len(code))
      /\ Len(code) \in Nat /\ DOMAIN code = 1 .. Len(code)
  BY StateFacts
<1>3. Top.done \in Nat \ {0} /\ Top.done <= Len(code)
  <2>1. Top.done \in DOMAIN code
    BY <1>1, TopBlocks
  <2>2. QED
    BY <1>2, <2>1
<1>4. Closed(code, cur, code')
  BY <1>1, <1>2, <1>3, FallToFacts DEF Closed
<1>5. Opens(Top.kind) = 0 /\ Top.kind \notin Pushing
  BY <1>1 DEF Opens, Pushing, Loops
<1>6. /\ scopes' \in Seq(Nat) /\ Len(scopes') = Len(scopes) - Opens(Top.kind)
      /\ defers' \in Seq(1 .. Budget) /\ Len(defers') <= MaxDefers
      /\ MarksFit(marks', Len(defers'), Len(scopes'))
  BY <1>1, <1>5, StateFacts DEF IInv
<1>7. QED
  BY <1>1, <1>4, <1>5, <1>6, EndStep


(* The end of a for: two scopes and two marks go.                          *)
LEMMA EndForStep ==
  ASSUME IInv, EndFor
  PROVE  IInv' /\ Final
<1>1. /\ frames # <<>> /\ Top.kind = "for"
      /\ code' = FallTo(BlockExit, cur, Top.next)
      /\ cur' = Top.done
      /\ defers' = SubSeq(defers, 1, Mark)
      /\ scopes' = Front(Front(scopes))
      /\ marks' = Unmarked(Unmarked(marks))
      /\ loops' = LoopPopped /\ frames' = Base /\ left' = left
  BY DEF EndFor
<1>2. scopes \in Seq(Nat) /\ Len(scopes) \in Nat /\ Len(scopes) >= 2
  BY <1>1, StateFacts, OneScope DEF IInv
<1>3. scopes # <<>>
  BY <1>2
<1>4. Front(scopes) \in Seq(Nat) /\ Len(Front(scopes)) = Len(scopes) - 1
  BY <1>2, <1>3, FrontLast
<1>5. Front(scopes) # <<>>
  BY <1>2, <1>4
<1>6. scopes' \in Seq(Nat) /\ Len(scopes') = Len(Front(scopes)) - 1
  BY <1>1, <1>4, <1>5, FrontLast
<1>7. Opens(Top.kind) = 2 /\ Len(scopes) - 1 - 1 = Len(scopes) - Opens(Top.kind)
  BY <1>1, <1>2 DEF Opens
<1>8. Len(scopes') = Len(scopes) - 1 - 1
  BY <1>4, <1>6
<1>9. /\ defers' \in Seq(1 .. Budget) /\ Len(defers') = MarkOf(marks)
      /\ Len(defers') <= MaxDefers /\ Len(defers') \in Nat
  BY <1>1, CutFacts, StateFacts
<1>10. MarksFit(marks, Len(defers'), Len(scopes))
  BY <1>9, StateFacts, FitCut DEF IInv
<1>11. MarksFit(Unmarked(marks), Len(defers'), Len(scopes) - 1)
  BY <1>2, <1>9, <1>10, FitPop
<1>12. MarksFit(marks', Len(defers'), Len(scopes) - 1 - 1)
  <2>1. Len(scopes) - 1 \in Nat /\ Len(scopes) - 1 >= 1
    BY <1>2
  <2>2. QED
    BY <1>1, <1>9, <1>11, <2>1, FitPop
<1>13. Closed(code, cur, code')
  BY <1>1, TopBlocks, ExitThenFall
<1>14. QED
  BY <1>1, <1>6, <1>7, <1>8, <1>9, <1>12, <1>13, EndStep

(* The end of an if without else: its else block only branches.            *)
LEMMA EndThenStep ==
  ASSUME IInv, EndThen
  PROVE  IInv' /\ Final
<1> DEFINE d == FallTo(BlockExit, cur, Top.done)
           t == Br(Top.done)
<1>1. /\ LeaveBlock("then") /\ code' = Close(d, Top.next, t)
      /\ cur' = Top.done /\ frames' = Base /\ loops' = loops
  BY DEF EndThen
<1>2. frames # <<>> /\ Top.kind = "then"
  BY <1>1 DEF LeaveBlock
<1>3. /\ Top.next \in DOMAIN code /\ Top.done \in DOMAIN code
      /\ IsOpen(code, Top.next) /\ cur # Top.next
  BY <1>2, TopBlocks
<1>4. Closed(code, cur, d)
  BY <1>3, ExitThenFall
<1> HIDE DEF d
<1>5. /\ code \in Blocks /\ Len(code) \in Nat /\ DOMAIN code = 1 .. Len(code)
      /\ cur \in DOMAIN code
  BY StateFacts
<1>6. t \in Term /\ t # NoTerm /\ t.to \subseteq 1 .. Len(code)
  <2>1. t.to = {Top.done}
    BY DEF Br
  <2>2. Top.done \in Nat \ {0} /\ Top.done \in 1 .. Len(code)
    BY <1>3, <1>5
  <2>3. QED
    BY <2>1, <2>2, MadeTypes
<1> HIDE DEF t
<1> DEFINE both == {cur, Top.next}
<1>7. /\ d \in Blocks /\ Len(d) = Len(code) /\ DOMAIN d = DOMAIN code
      /\ Grows(code, d, {cur}) /\ Inside(d, Len(d))
      /\ \A b \in DOMAIN code : IsOpen(d, b) => IsOpen(code, b) /\ b # cur
  BY <1>4 DEF Closed
<1>8. Grows(code, d, both)
  BY <1>7 DEF Grows
<1>9. IsOpen(d, Top.next)
  BY <1>3, <1>7 DEF Grows, IsOpen
<1>10. /\ code' \in Blocks /\ Len(code') = Len(d) /\ DOMAIN code' = DOMAIN d
       /\ Grows(d, code', both)
  <2>1. Top.next \in DOMAIN d /\ Top.next \in both
    BY <1>3, <1>7
  <2> HIDE DEF both
  <2>2. QED
    BY <1>1, <1>6, <1>7, <1>9, <2>1, CloseFacts, GrowsByClose
<1>11. Grows(code, code', both)
  BY <1>5, <1>7, <1>8, <1>10, GrowsTwice
<1>12. <<>> \in Seq(Instr)
  BY EmptySeq
<1>13. Inside(code', Len(code'))
  BY <1>1, <1>3, <1>5, <1>6, <1>7, <1>10, <1>12, InsideAfter
<1>14. /\ ~IsOpen(code', Top.next)
       /\ \A b \in DOMAIN d \ {Top.next} : IsOpen(code', b) <=> IsOpen(d, b)
  BY <1>1, <1>3, <1>6, <1>7, <1>12, OpenAfter
<1>15. \A b \in DOMAIN code : IsOpen(code', b) =>
          /\ IsOpen(code, b)
          /\ b # cur
          /\ Top.kind = "then" => b # Top.next
  BY <1>7, <1>14
<1>16. /\ scopes' \in Seq(Nat) /\ Len(scopes') = Len(scopes) - Opens("then")
       /\ defers' \in Seq(1 .. Budget) /\ Len(defers') <= MaxDefers
       /\ MarksFit(marks', Len(defers'), Len(scopes')) /\ left' = left
  BY <1>1, <1>2, LeaveBlockFacts
<1>17. Top.kind \notin Pushing /\ Top.kind # "body"
  BY <1>2 DEF Pushing, Loops
<1>18. DOMAIN code' = DOMAIN code
  BY <1>7, <1>10
<1>19. QED
  BY <1>1, <1>2, <1>11, <1>13, <1>15, <1>16, <1>17, <1>18, <1>10, LeaveStep

(* From the then block to what follows it: an else block or a nested if.   *)
LEMMA SwapStep ==
  ASSUME IInv, frames # <<>>, Top.kind = "then",
         Closed(code, cur, code'), cur' = Top.next,
         NEW f \in FrameType, f.kind \in {"else", "elif"}, f.done = Top.done,
         \/ f.next = Top.next
         \/ f.kind = "else" /\ f.next = Top.done,
         frames' = Append(Base, f), loops' = loops,
         scopes' \in Seq(Nat), Len(scopes') = Len(scopes) - 1 + Opens(f.kind),
         defers' \in Seq(1 .. Budget), Len(defers') <= MaxDefers,
         MarksFit(marks', Len(defers'), Len(scopes')), left' = left
  PROVE  IInv' /\ Final
<1>1. Built(code, cur, frames) /\ code \in Blocks /\ FramesFit(code, frames)
      /\ frames \in Seq(FrameType)
  BY StateFacts DEF IInv
<1>2. /\ code' \in Blocks /\ Grows(code, code', {cur})
      /\ Inside(code', Len(code')) /\ DOMAIN code' = DOMAIN code
      /\ \A b \in DOMAIN code : IsOpen(code', b) => IsOpen(code, b) /\ b # cur
  BY DEF Closed
<1>3. Built(code', cur', frames')
  BY <1>1, <1>2, BuiltSwap DEF Top, Base
<1>4. ScopesFit(code', frames', Len(scopes'))
  <2>1. ScopesFit(code, frames, Len(scopes)) /\ f.kind # "body"
    BY DEF IInv
  <2>2. ScopesFit(code', Append(Base, f), Len(scopes) - 1 + Opens(f.kind))
    BY <1>1, <1>2, <2>1, ScopesSwap DEF Top, Base
  <2>3. QED
    BY <2>2
<1>5. LoopsFit(loops', frames')
  <2>1. Last(frames).kind \notin Pushing
    BY DEF Top, Pushing, Loops
  <2>2. LoopsFit(loops, Base) /\ Base \in Seq(FrameType)
    BY <1>1, <2>1, LoopsKept, PopFacts DEF Base, IInv
  <2>3. QED
    BY <2>2, LoopsNext
<1>6. \A k \in DOMAIN loops' : /\ loops'[k].brk \in DOMAIN code'
                               /\ loops'[k].cont \in DOMAIN code'
  BY <1>2, LoopsInside
<1>7. frames' # <<>>
  BY <1>1, PushFacts, PopFacts DEF Base
<1>8. IInv'
  BY <1>3, <1>4, <1>5, <1>6, <1>7 DEF IInv
<1>9. QED
  BY <1>2, <1>8, GrowsFinal

(* The end of a first branch, after which the next one is entered.         *)
LEMMA EndThenSwapSteps ==
  ASSUME IInv, EndThenElse \/ EndThenElseIf
  PROVE  IInv' /\ Final
<1>1. ASSUME frames # <<>>, Top.kind = "then"
      PROVE  /\ Top.next \in Nat /\ Top.done \in Nat
             /\ Top.done \in DOMAIN code
  <2>1. Top.next \in DOMAIN code /\ Top.done \in DOMAIN code
    BY <1>1, TopBlocks
  <2>2. QED
    BY <2>1, StateFacts
<1>2. CASE EndThenElse
  <2> DEFINE f == Frame("else", Top.done, Top.done, "none")
  <2>1. /\ frames # <<>> /\ Top.kind = "then"
        /\ code' = FallTo(BlockExit, cur, Top.done)
        /\ defers' = SubSeq(defers, 1, Mark)
        /\ cur' = Top.next
        /\ scopes' = Append(Front(scopes), Top.next)
        /\ marks' = Marked(Unmarked(marks), Mark)
        /\ frames' = Append(Base, f)
        /\ loops' = loops /\ left' = left
    BY <1>2 DEF EndThenElse, Replace
  <2>2. Top.next \in Nat /\ Top.done \in Nat /\ Top.done \in DOMAIN code
    BY <1>1, <2>1
  <2>3. /\ f \in FrameType /\ f.kind = "else" /\ f.done = Top.done
        /\ f.next = Top.done
    BY <2>2 DEF Frame, FrameType, FrameKinds, Loops
  <2> HIDE DEF f
  <2>4. Closed(code, cur, code')
    BY <2>1, <2>2, ExitThenFall
  <2>5. scopes \in Seq(Nat) /\ Len(scopes) \in Nat /\ Len(scopes) >= 2
    BY <2>1, StateFacts, OneScope DEF IInv
  <2>6. /\ Front(scopes) \in Seq(Nat) /\ Len(Front(scopes)) = Len(scopes) - 1
    <3>1. scopes # <<>>
      BY <2>5
    <3>2. QED
      BY <2>5, <3>1, FrontLast
  <2>7. scopes' \in Seq(Nat) /\ Len(scopes') = Len(Front(scopes)) + 1
    BY <2>1, <2>2, <2>6, PushFacts
  <2>8. /\ defers' \in Seq(1 .. Budget) /\ Len(defers') = MarkOf(marks)
        /\ Len(defers') <= MaxDefers /\ Len(defers') \in Nat
        /\ Mark = Len(defers')
    BY <2>1, CutFacts, StateFacts
  <2>9. MarksFit(marks, Len(defers'), Len(scopes))
    BY <2>8, StateFacts, FitCut DEF IInv
  <2>10. MarksFit(Unmarked(marks), Len(defers'), Len(scopes) - 1)
    BY <2>5, <2>8, <2>9, FitPop
  <2>11. Len(scopes) - 1 \in Nat /\ Len(scopes) - 1 >= 2
    <3>1. code \in Blocks /\ FramesFit(code, frames)
          /\ ScopesFit(code, frames, Len(scopes))
      BY StateFacts DEF IInv
    <3>2. code' \in Blocks /\ Grows(code, code', {cur})
      BY <2>4 DEF Closed
    <3>3. Last(frames).kind = "then" /\ f.done = Last(frames).done
          /\ f.kind # "body"
      BY <2>1, <2>3 DEF Top
    <3>4. Len(scopes) - 1 >= 2
      BY <2>1, <2>3, <3>1, <3>2, <3>3, ScopesSwap
    <3>5. QED
      BY <2>5, <3>4
  <2>12. MarksFit(marks', Len(defers'), Len(scopes) - 1 + 1)
    BY <2>1, <2>8, <2>10, <2>11, FitPush
  <2>13. Len(scopes') = Len(scopes) - 1 + 1
         /\ Len(scopes') = Len(scopes) - 1 + Opens(f.kind)
    BY <2>3, <2>6, <2>7 DEF Opens
  <2>14. QED
    BY <2>1, <2>3, <2>4, <2>7, <2>8, <2>12, <2>13, SwapStep
<1>3. CASE EndThenElseIf
  <2> DEFINE f == Frame("elif", Top.next, Top.done, "none")
  <2>1. /\ LeaveBlock("then")
        /\ code' = FallTo(BlockExit, cur, Top.done)
        /\ cur' = Top.next
        /\ frames' = Append(Base, f)
        /\ loops' = loops
    BY <1>3 DEF EndThenElseIf, Replace
  <2>2. frames # <<>> /\ Top.kind = "then"
    BY <2>1 DEF LeaveBlock
  <2>3. Top.next \in Nat /\ Top.done \in Nat /\ Top.done \in DOMAIN code
    BY <1>1, <2>2
  <2>4. /\ f \in FrameType /\ f.kind = "elif" /\ f.done = Top.done
        /\ f.next = Top.next
    BY <2>3 DEF Frame, FrameType, FrameKinds, Loops
  <2> HIDE DEF f
  <2>5. Closed(code, cur, code')
    BY <2>1, <2>3, ExitThenFall
  <2>6. /\ scopes' \in Seq(Nat) /\ Len(scopes') = Len(scopes) - Opens("then")
        /\ defers' \in Seq(1 .. Budget) /\ Len(defers') <= MaxDefers
        /\ MarksFit(marks', Len(defers'), Len(scopes')) /\ left' = left
    BY <2>1, <2>2, LeaveBlockFacts
  <2>7. Len(scopes') = Len(scopes) - 1 + Opens(f.kind)
    BY <2>4, <2>6, StateFacts DEF Opens
  <2>8. QED
    BY <2>1, <2>2, <2>4, <2>5, <2>6, <2>7, SwapStep
<1>4. QED
  BY <1>2, <1>3


(* With nothing open there is nothing to keep in step.                     *)
LEMMA EmptyFits ==
  /\ MarksFit(<<>>, 0, 0)
  /\ LoopsFit(<<>>, <<>>)
  /\ \A c : ScopesFit(c, <<>>, 0)
<1>1. /\ <<>> \in Seq(Nat) /\ <<>> \in Seq(LoopType) /\ Len(<<>>) = 0
      /\ DOMAIN <<>> = {}
  BY EmptySeq
<1>2. MarksFit(<<>>, 0, 0)
  BY <1>1, ConstantsAssumption DEF MarksFit
<1>3. LoopsFit(<<>>, <<>>)
  <2>1. \E at \in [DOMAIN <<>> -> DOMAIN <<>>] :
          /\ \A k \in DOMAIN <<>> : <<>>[at[k]].kind \in Pushing
          /\ \A k, l \in DOMAIN <<>> : k < l => at[k] < at[l]
    <3> DEFINE f == [i \in DOMAIN <<>> |-> i]
    <3>1. f \in [DOMAIN <<>> -> DOMAIN <<>>]
      OBVIOUS
    <3> HIDE DEF f
    <3>2. /\ \A k \in DOMAIN <<>> : <<>>[f[k]].kind \in Pushing
          /\ \A k, l \in DOMAIN <<>> : k < l => f[k] < f[l]
      BY <1>1, Zenon
    <3>3. QED
      BY <3>1, <3>2, Zenon
  <2>2. <<>> \in Seq(LoopType) /\ Len(<<>>) <= MaxLoops
    BY <1>1, ConstantsAssumption
  <2>3. QED
    BY <2>1, <2>2, Zenon DEF LoopsFit
<1>4. \A c : ScopesFit(c, <<>>, 0)
  BY <1>1 DEF ScopesFit
<1>5. QED
  BY <1>2, <1>3, <1>4

(* The end of llg_emit_fn: the body is the only call left, its two scopes  *)
(* and marks go, and so has every loop.                                    *)
LEMMA EndBodyStep ==
  ASSUME IInv, EndBody
  PROVE  IInv' /\ Final
<1> DEFINE e == BlockExit
<1>1. /\ frames # <<>> /\ Top.kind = "body"
      /\ code' = (IF IsOpen(e, cur) THEN Close(e, cur, Ret) ELSE e)
      /\ defers' = SubSeq(defers, 1, Mark)
      /\ scopes' = <<>>
      /\ marks' = Unmarked(Unmarked(marks))
      /\ frames' = <<>>
      /\ UNCHANGED <<cur, loops, left>>
  BY DEF EndBody
<1>2. /\ code \in Blocks /\ cur \in DOMAIN code /\ Len(code) \in Nat
      /\ Len(defers) \in Nat /\ Ret \in Term /\ Ret # NoTerm /\ Ret.to = {}
  BY StateFacts, MadeTypes DEF Ret
<1>3. /\ e \in Blocks /\ Len(e) = Len(code) /\ DOMAIN e = DOMAIN code
      /\ Grows(code, e, {cur}) /\ Inside(e, Len(code))
      /\ \A b \in DOMAIN code : IsOpen(e, b) <=> IsOpen(code, b)
  BY BlockExitFacts
<1> HIDE DEF e
<1>4. Closed(code, cur, code')
  <2>1. CASE IsOpen(e, cur)
    <3> DEFINE d == Close(e, cur, Ret)
    <3>1. <<>> \in Seq(Instr) /\ Ret.to \subseteq 1 .. Len(code)
          /\ cur \in DOMAIN e
      BY <1>2, <1>3, EmptySeq
    <3>2. /\ d \in Blocks /\ Len(d) = Len(e) /\ DOMAIN d = DOMAIN e
          /\ Grows(e, d, {cur})
      BY <1>2, <1>3, <2>1, <3>1, CloseFacts, GrowsByClose
    <3>3. /\ Inside(d, Len(code)) /\ ~IsOpen(d, cur)
          /\ \A b \in DOMAIN e \ {cur} : IsOpen(d, b) <=> IsOpen(e, b)
      BY <1>2, <1>3, <3>1, InsideAfter, OpenAfter
    <3>4. code' = d
      BY <1>1, <2>1
    <3> HIDE DEF d
    <3>5. Grows(code, d, {cur})
      BY <1>2, <1>3, <3>2, GrowsTwice
    <3>6. QED
      BY <1>3, <3>2, <3>3, <3>4, <3>5 DEF Closed
  <2>2. CASE ~IsOpen(e, cur)
    <3>1. code' = e
      BY <1>1, <2>2
    <3>2. QED
      BY <1>3, <2>2, <3>1 DEF Closed
  <2>3. QED
    BY <2>1, <2>2
<1>5. /\ Built(code', cur', <<>>) /\ Len(frames) = 1
  <2>1. Last(frames).kind = "body" /\ Built(code, cur, frames)
    BY <1>1 DEF Top, IInv
  <2>2. QED
    BY <1>1, <1>4, <2>1, BuiltEnd DEF Closed
<1>6. Len(scopes) = 2
  <2>1. Depth(code, frames, Len(scopes), 1) = 2
    BY <1>1 DEF IInv, ScopesFit
  <2>2. QED
    BY <1>5, <2>1 DEF Depth
<1>7. MarkOf(marks) = 0 /\ Unmarked(Unmarked(marks)) = <<>>
  <2>1. MarksFit(marks, Len(defers), 2)
    BY <1>6 DEF IInv
  <2>2. QED
    BY <1>2, <2>1, FitBottom
<1>8. /\ defers' \in Seq(1 .. Budget) /\ Len(defers') = 0
      /\ Len(defers') <= MaxDefers
  <2>1. Mark = 0
    BY <1>7, StateFacts
  <2>2. QED
    BY <1>1, <2>1, CutFacts
<1>9. defers' = <<>>
  BY <1>8, EmptySeq
<1>10. loops = <<>>
  <2>1. LoopsFit(loops, frames) /\ frames \in Seq(FrameType)
    BY StateFacts DEF IInv
  <2>2. frames[1].kind = "body" /\ DOMAIN frames = {1}
    <3>1. Top = frames[Len(frames)] /\ DOMAIN frames = 1 .. Len(frames)
      BY <1>1, <2>1, PopFacts DEF Top
    <3>2. QED
      BY <1>1, <1>5, <3>1
  <2>3. "body" \notin Pushing
    BY DEF Pushing, Loops
  <2>4. QED
    BY <2>1, <2>2, <2>3, LoopsNone
<1>11. /\ MarksFit(<<>>, 0, 0) /\ LoopsFit(<<>>, <<>>)
       /\ ScopesFit(code', <<>>, 0)
  BY EmptyFits
<1>12. IInv'
  <2>1. scopes' \in Seq(Nat) /\ Len(scopes') = 0
    BY <1>1, EmptySeq
  <2>2. /\ Built(code', cur', frames') /\ ScopesFit(code', frames', Len(scopes'))
        /\ LoopsFit(loops', frames')
        /\ MarksFit(marks', Len(defers'), Len(scopes'))
    BY <1>1, <1>5, <1>7, <1>8, <1>10, <1>11, <2>1
  <2>3. \A k \in DOMAIN loops' : /\ loops'[k].brk \in DOMAIN code'
                                 /\ loops'[k].cont \in DOMAIN code'
    BY <1>1, <1>10
  <2>4. left' \in 0 .. Budget
    BY <1>1 DEF IInv
  <2>5. QED
    BY <1>8, <1>9, <2>1, <2>2, <2>3, <2>4 DEF IInv
<1>13. QED
  BY <1>4, <1>12, GrowsFinal DEF Closed


-----------------------------------------------------------------------------
(* The invariant.                                                          *)

(* The two scopes of an empty function and their marks.                    *)
LEMMA InitIInv == Init => IInv
<1> SUFFICES ASSUME Init PROVE IInv
  OBVIOUS
<1> DEFINE b == Empty(<<0, 1>>, "entry")
           f == Frame("body", 0, 0, "none")
<1>1. /\ code = <<b>> /\ cur = 1 /\ defers = <<>> /\ scopes = <<0, 1>>
      /\ marks = Marked(Marked(<<>>, 0), 0) /\ loops = <<>>
      /\ frames = <<f>> /\ left = Budget
  BY DEF Init
<1>2. scopes \in Seq(Nat) /\ Len(scopes) = 2
  BY <1>1
<1>3. b \in BasicBlock /\ b.term = NoTerm /\ NoTerm.to = {}
  BY <1>1, <1>2, MadeEmpty DEF NoTerm
<1>4. f \in FrameType /\ f.kind = "body"
  BY DEF Frame, FrameType, FrameKinds
<1> HIDE DEF b, f
<1>5. code \in Blocks /\ Len(code) = 1 /\ DOMAIN code = {1} /\ code[1] = b
  BY <1>1, <1>3 DEF Blocks
<1>6. /\ frames \in Seq(FrameType) /\ Len(frames) = 1 /\ DOMAIN frames = {1}
      /\ frames[1] = f /\ frames # <<>> /\ Last(frames) = f
  BY <1>1, <1>4 DEF Last
<1>7. Built(code, cur, frames)
  <2>1. FramesFit(code, frames)
    BY <1>4, <1>6 DEF FramesFit
  <2>2. Inside(code, Len(code))
    BY <1>3, <1>5 DEF Inside
  <2>3. cur \in DOMAIN code
    BY <1>1, <1>5
  <2>4. \A c \in DOMAIN code : IsOpen(code, c) =>
           frames # <<>> /\ (c = cur \/ Owed(frames, c))
    BY <1>1, <1>5, <1>6
  <2>5. \A i \in DOMAIN frames : i > 1 /\ frames[i].kind = "then" =>
           IsOpen(code, frames[i].next) /\ cur # frames[i].next
    BY <1>6
  <2>6. Last(frames).kind # "elif"
    BY <1>4, <1>6
  <2>7. QED
    BY <1>5, <2>1, <2>2, <2>3, <2>4, <2>5, <2>6 DEF Built
<1>8. ScopesFit(code, frames, Len(scopes))
  BY <1>2, <1>6 DEF ScopesFit, Depth
<1>9. /\ defers \in Seq(1 .. Budget) /\ Len(defers) = 0
      /\ Len(defers) <= MaxDefers
  BY <1>1, EmptySeq, ConstantsAssumption
<1>10. MarksFit(marks, Len(defers), Len(scopes))
  <2>1. MarksFit(Marked(<<>>, 0), 0, 0 + 1)
    BY EmptyFits, FitPush
  <2>2. MarksFit(Marked(<<>>, 0), 0, 1)
    BY <2>1
  <2>3. MarksFit(Marked(Marked(<<>>, 0), 0), 0, 1 + 1)
    BY <2>2, FitPush
  <2>4. QED
    BY <1>1, <1>2, <1>9, <2>3
<1>11. LoopsFit(loops, frames)
  <2>1. LoopsFit(<<>>, <<>>) /\ <<>> \in Seq(FrameType)
    BY EmptyFits, EmptySeq
  <2>2. LoopsFit(<<>>, Append(<<>>, f))
    BY <1>4, <2>1, LoopsNext
  <2>3. Append(<<>>, f) = <<f>>
    BY <1>4
  <2>4. QED
    BY <1>1, <2>2, <2>3
<1>12. \A k \in DOMAIN loops : /\ loops[k].brk \in DOMAIN code
                               /\ loops[k].cont \in DOMAIN code
  BY <1>1
<1>13. left \in 0 .. Budget
  BY <1>1, ConstantsAssumption
<1>14. QED
  BY <1>2, <1>6, <1>7, <1>8, <1>9, <1>10, <1>11, <1>12, <1>13 DEF IInv

(* No step breaks the invariant or touches a finished block.               *)
LEMMA NextIInv ==
  ASSUME IInv, [Next]_vars
  PROVE  IInv' /\ Final
<1>1. CASE TryStmt
  BY <1>1, TryStmtStep
<1>2. CASE ReturnStmt
  BY <1>2, ReturnStmtStep
<1>3. CASE ReturnTryStmt
  BY <1>3, ReturnTryStmtStep
<1>4. CASE DeferStmt
  BY <1>4, DeferStmtStep
<1>5. CASE BreakStmt \/ ContinueStmt
  BY <1>5, BreakContinueStep
<1>6. CASE IfStmt \/ IfElseIfStmt \/ ElseIf
  BY <1>6, IfSteps
<1>7. CASE WhileStmt
  BY <1>7, WhileStep
<1>8. CASE LoopStmt \/ UnsafeStmt
  BY <1>8, LoopOrUnsafeStep DEF LoopStmt, UnsafeStmt
<1>9. CASE ForStmt
  BY <1>9, ForStep
<1>10. CASE EndThenElse \/ EndThenElseIf
  BY <1>10, EndThenSwapSteps
<1>11. CASE EndThen
  BY <1>11, EndThenStep
<1>12. CASE EndElse \/ EndWhile \/ EndLoop \/ EndUnsafe
  BY <1>12, EndPlainSteps
<1>13. CASE EndElseIf
  BY <1>13, EndElseIfStep
<1>14. CASE EndFor
  BY <1>14, EndForStep
<1>15. CASE EndBody
  BY <1>15, EndBodyStep
<1>16. CASE UNCHANGED vars
  <2>1. /\ code' = code /\ cur' = cur /\ defers' = defers /\ marks' = marks
        /\ scopes' = scopes /\ loops' = loops /\ frames' = frames
        /\ left' = left
    BY <1>16 DEF vars
  <2>2. QED
    BY <2>1 DEF IInv, Final
<1>17. QED
  BY <1>1, <1>2, <1>3, <1>4, <1>5, <1>6, <1>7, <1>8, <1>9, <1>10, <1>11,
     <1>12, <1>13, <1>14, <1>15, <1>16 DEF Next

(* The properties the runs check follow from the invariant.                *)
LEMMA IInvImplies ==
  ASSUME IInv
  PROVE  /\ TypeOK
         /\ FunctionTerminated
         /\ CleanAtEnd
<1>1. TypeOK
  <2>1. code \in Seq(BasicBlock) /\ cur \in DOMAIN code
        /\ frames \in Seq([kind : FrameKinds, next : Nat, done : Nat,
                           alt : {"none", "block", "if"}])
    BY StateFacts DEF Blocks, FrameType
  <2>2. /\ defers \in Seq(1 .. Budget) /\ Len(defers) <= MaxDefers
        /\ marks \in Seq(Nat) /\ Len(marks) <= MaxScopes
        /\ scopes \in Seq(Nat) /\ left \in 0 .. Budget
    BY DEF IInv, MarksFit
  <2>3. loops \in Seq([brk : Nat, cont : Nat]) /\ Len(loops) <= MaxLoops
    BY DEF IInv, LoopsFit, LoopType
  <2>4. QED
    BY <2>1, <2>2, <2>3 DEF TypeOK
<1>2. FunctionTerminated
  BY StateFacts DEF FunctionTerminated, IInv, Built, Inside
<1>3. CleanAtEnd
  <2>1. SUFFICES ASSUME frames = <<>>
                 PROVE  defers = <<>> /\ marks = <<>> /\ loops = <<>>
    BY DEF CleanAtEnd
  <2>2. defers = <<>> /\ Len(scopes) = 0
    BY <2>1 DEF IInv, ScopesFit
  <2>3. marks = <<>>
    <3>1. marks \in Seq(Nat) /\ Len(marks) <= 0
      BY <2>2 DEF IInv, MarksFit
    <3>2. Len(marks) = 0
      BY <3>1, LenProperties
    <3>3. QED
      BY <3>1, <3>2, EmptySeq
  <2>4. loops = <<>>
    BY <2>1, LoopsNone DEF IInv
  <2>5. QED
    BY <2>2, <2>3, <2>4
<1>4. QED
  BY <1>1, <1>2, <1>3

(* IInv holds in every state of the emission of a function.                *)
THEOREM Invariant == Spec => []IInv
<1>1. Init => IInv
  BY InitIInv
<1>2. IInv /\ [Next]_vars => IInv'
  BY NextIInv
<1>3. QED
  BY <1>1, <1>2, PTL DEF Spec

(* Every variable has its type and LG's three arrays never overrun.        *)
THEOREM TypeCorrect == Spec => []TypeOK
<1>1. IInv => TypeOK
  BY IInvImplies
<1>2. QED
  BY <1>1, Invariant, PTL

(* Every block of a finished function has a terminator, and every branch   *)
(* goes to a block of the function, whatever statements its body has.      *)
THEOREM BlocksTerminated == Spec => []FunctionTerminated
<1>1. IInv => FunctionTerminated
  BY IInvImplies
<1>2. QED
  BY <1>1, Invariant, PTL

(* A finished function leaves no defer, mark or loop in LG, not even when  *)
(* an array ran full on the way.                                           *)
THEOREM NothingLeftBehind == Spec => []CleanAtEnd
<1>1. IInv => CleanAtEnd
  BY IInvImplies
<1>2. QED
  BY <1>1, Invariant, PTL

(* A block that has its terminator is never changed again.                 *)
THEOREM TerminatorsStay == Spec => TerminatorsFinal
<1> DEFINE A == \A b \in DOMAIN code : ~IsOpen(code, b) => code'[b] = code[b]
<1>1. IInv /\ [Next]_vars => A
  BY NextIInv DEF Final
<1>2. Spec => [][A]_vars
  BY <1>1, Invariant, PTL DEF Spec
<1>3. QED
  BY <1>2, PTL DEF TerminatorsFinal

-----------------------------------------------------------------------------
(* The target of a break.  LG.loops is full at MaxLoops entries: a deeper  *)
(* construct pushes nothing, but its end pops all the same, and from then  *)
(* on a break can leave a construct further out.  As long as a function    *)
(* does not nest deeper than that, the entries are exactly the open        *)
(* constructs that push one, each with its own done block.                 *)

(* The active calls whose construct pushes a loop.                         *)
PushingAt(fs) == {i \in DOMAIN fs : fs[i].kind \in Pushing}

(* No more loops and unsafe blocks stand inside each other than LG.loops   *)
(* has room for.                                                           *)
LoopsHaveRoom == Cardinality(PushingAt(frames)) <= MaxLoops

(* Entry k of ls belongs to the call at[k], and every pushing call has one.*)
Pairs(ls, fs, at) ==
  /\ at \in [DOMAIN ls -> DOMAIN fs]
  /\ \A k \in DOMAIN ls : ls[k].brk = fs[at[k]].done
  /\ \A k, l \in DOMAIN ls : k < l => at[k] < at[l]
  /\ \A i \in DOMAIN fs : i \in PushingAt(fs) <=> \E k \in DOMAIN ls : at[k] = i

Paired(ls, fs) == /\ ls \in Seq(LoopType)
                  /\ fs \in Seq(FrameType)
                  /\ \E at : Pairs(ls, fs, at)

(* A construct is entered that pushes no loop.                             *)
LEMMA PairsNext ==
  ASSUME NEW ls, NEW fs, Paired(ls, fs), NEW f \in FrameType, f.kind \notin Pushing
  PROVE  Paired(ls, Append(fs, f))
<1> DEFINE gs == Append(fs, f)
<1>1. PICK at : Pairs(ls, fs, at)
  BY DEF Paired
<1>2. /\ gs \in Seq(FrameType) /\ Len(fs) \in Nat
      /\ DOMAIN fs = 1 .. Len(fs) /\ DOMAIN gs = 1 .. Len(fs) + 1
      /\ gs[Len(fs) + 1] = f
      /\ \A i \in DOMAIN fs : gs[i] = fs[i]
  BY PushFacts DEF Paired
<1> HIDE DEF gs
<1>3. \A k \in DOMAIN ls : at[k] \in DOMAIN fs
  BY <1>1 DEF Pairs
<1>4. at \in [DOMAIN ls -> DOMAIN gs]
  BY <1>1, <1>2, <1>3 DEF Pairs
<1>5. \A k \in DOMAIN ls : ls[k].brk = gs[at[k]].done
  BY <1>1, <1>2, <1>3 DEF Pairs
<1>6. PushingAt(gs) = PushingAt(fs)
  BY <1>2 DEF PushingAt
<1>7. \A i \in DOMAIN gs : i \in PushingAt(gs) <=> \E k \in DOMAIN ls : at[k] = i
  <2>1. TAKE i \in DOMAIN gs
  <2>2. CASE i \in DOMAIN fs
    BY <1>1, <1>6, <2>2 DEF Pairs
  <2>3. CASE i \notin DOMAIN fs
    BY <1>3, <1>6, <2>3 DEF PushingAt
  <2>4. QED
    BY <2>2, <2>3
<1>8. Pairs(ls, gs, at)
  BY <1>1, <1>4, <1>5, <1>7 DEF Pairs
<1>9. QED
  BY <1>2, <1>8 DEF Paired, gs

(* A construct is entered and its loop pushed.                             *)
LEMMA PairsPush ==
  ASSUME NEW ls, NEW fs, Paired(ls, fs), NEW f \in FrameType, f.kind \in Pushing,
         NEW e \in LoopType, e.brk = f.done
  PROVE  Paired(Append(ls, e), Append(fs, f))
<1>1. PICK at : Pairs(ls, fs, at)
  BY DEF Paired
<1> DEFINE gs == Append(fs, f)
           ms == Append(ls, e)
           new == Len(fs) + 1
           to == [k \in DOMAIN ms |-> IF k \in DOMAIN ls THEN at[k] ELSE new]
<1>2. /\ gs \in Seq(FrameType) /\ Len(fs) \in Nat
      /\ DOMAIN fs = 1 .. Len(fs) /\ DOMAIN gs = 1 .. Len(fs) + 1
      /\ gs[Len(fs) + 1] = f
      /\ \A i \in DOMAIN fs : gs[i] = fs[i]
  BY PushFacts DEF Paired
<1>3. /\ ms \in Seq(LoopType) /\ Len(ls) \in Nat
      /\ DOMAIN ls = 1 .. Len(ls) /\ DOMAIN ms = 1 .. Len(ls) + 1
      /\ ms[Len(ls) + 1] = e
      /\ \A k \in DOMAIN ls : ms[k] = ls[k]
  BY PushFacts DEF Paired
<1> HIDE DEF gs, ms
<1>4. \A k \in DOMAIN ls : at[k] \in 1 .. Len(fs)
  BY <1>1, <1>2 DEF Pairs
<1>5. /\ to \in [DOMAIN ms -> DOMAIN gs]
      /\ to[Len(ls) + 1] = new
      /\ \A k \in DOMAIN ls : to[k] = at[k]
  BY <1>2, <1>3, <1>4
<1> HIDE DEF to
<1>6. \A k \in DOMAIN ms : ms[k].brk = gs[to[k]].done
  <2>1. TAKE k \in DOMAIN ms
  <2>2. CASE k \in DOMAIN ls
    BY <1>1, <1>2, <1>3, <1>4, <1>5, <2>2 DEF Pairs
  <2>3. CASE k \notin DOMAIN ls
    BY <1>2, <1>3, <1>5, <2>3
  <2>4. QED
    BY <2>2, <2>3
<1>7. \A k, l \in DOMAIN ms : k < l => to[k] < to[l]
  <2>1. TAKE k, l \in DOMAIN ms
  <2>2. HAVE k < l
  <2>3. k \in DOMAIN ls /\ to[k] = at[k]
    BY <1>3, <1>5, <2>2
  <2>4. CASE l \in DOMAIN ls
    BY <1>1, <1>5, <2>2, <2>3, <2>4 DEF Pairs
  <2>5. CASE l \notin DOMAIN ls
    <3>1. l = Len(ls) + 1
      BY <1>3, <2>5
    <3>2. QED
      BY <1>2, <1>4, <1>5, <2>3, <3>1
  <2>6. QED
    BY <2>4, <2>5
<1>8. PushingAt(gs) = PushingAt(fs) \cup {new}
  BY <1>2 DEF PushingAt
<1>9. \A i \in DOMAIN gs : i \in PushingAt(gs) <=> \E k \in DOMAIN ms : to[k] = i
  <2>1. TAKE i \in DOMAIN gs
  <2>2. CASE i = new
    BY <1>3, <1>5, <1>8, <2>2
  <2>3. CASE i # new
    <3>1. i \in DOMAIN fs
      BY <1>2, <2>3
    <3>2. i \in PushingAt(gs) <=> i \in PushingAt(fs)
      BY <1>8, <2>3
    <3>3. (\E k \in DOMAIN ms : to[k] = i) <=> (\E k \in DOMAIN ls : at[k] = i)
      BY <1>3, <1>5, <2>3
    <3>4. QED
      BY <1>1, <3>1, <3>2, <3>3 DEF Pairs
  <2>4. QED
    BY <2>2, <2>3
<1>10. Pairs(ms, gs, to)
  BY <1>5, <1>6, <1>7, <1>9 DEF Pairs
<1>11. QED
  BY <1>2, <1>3, <1>10 DEF Paired, gs, ms

(* The end of a construct: the entry of one that pushed goes with it.      *)
LEMMA PairsPop ==
  ASSUME NEW ls, NEW fs, Paired(ls, fs), fs # <<>>,
         NEW ms, ms = IF Last(fs).kind \in Pushing
                        THEN IF ls = <<>> THEN ls ELSE Front(ls) ELSE ls
  PROVE  Paired(ms, Front(fs))
<1>1. PICK at : Pairs(ls, fs, at)
  BY DEF Paired
<1> DEFINE gs == Front(fs)
           n == Len(fs)
           to == [k \in DOMAIN ms |-> at[k]]
<1>2. /\ gs \in Seq(FrameType) /\ n \in Nat \ {0}
      /\ DOMAIN fs = 1 .. n /\ DOMAIN gs = 1 .. n - 1
      /\ Last(fs) = fs[n]
      /\ \A i \in DOMAIN gs : gs[i] = fs[i]
  BY PopFacts DEF Paired
<1>3. ls \in Seq(LoopType) /\ Len(ls) \in Nat /\ DOMAIN ls = 1 .. Len(ls)
  BY LenProperties DEF Paired
<1>4. \A k \in DOMAIN ls : at[k] \in 1 .. n
  BY <1>1, <1>2 DEF Pairs
<1>5. n \in PushingAt(fs) <=> Last(fs).kind \in Pushing
  BY <1>2 DEF PushingAt
<1>6. Last(fs).kind \in Pushing => /\ ls # <<>>
                                   /\ Len(ls) \in DOMAIN ls
                                   /\ at[Len(ls)] = n
  <2>1. HAVE Last(fs).kind \in Pushing
  <2>2. PICK k \in DOMAIN ls : at[k] = n
    BY <1>1, <1>2, <1>5, <2>1 DEF Pairs
  <2>3. k \in Nat /\ k <= Len(ls) /\ Len(ls) \in DOMAIN ls /\ Len(ls) # 0
    BY <1>3
  <2>4. k = Len(ls)
    <3>1. SUFFICES ASSUME k < Len(ls) PROVE FALSE
      BY <1>3, <2>3
    <3>2. at[k] < at[Len(ls)]
      BY <1>1, <2>3, <3>1 DEF Pairs
    <3>3. QED
      BY <1>2, <1>4, <2>2, <2>3, <3>2
  <2>5. QED
    BY <1>3, <2>2, <2>3, <2>4, EmptySeq
<1>7. /\ ms \in Seq(LoopType)
      /\ DOMAIN ms = {k \in DOMAIN ls : at[k] # n}
      /\ \A k \in DOMAIN ms : ms[k] = ls[k]
  <2>1. CASE Last(fs).kind \in Pushing
    <3>1. ms = Front(ls) /\ ls # <<>>
      BY <1>6, <2>1
    <3>2. /\ ms \in Seq(LoopType) /\ DOMAIN ms = 1 .. Len(ls) - 1
          /\ \A k \in DOMAIN ms : ms[k] = ls[k]
      BY <1>3, <3>1, PopFacts
    <3>3. ASSUME NEW k \in DOMAIN ls, k < Len(ls)
          PROVE  at[k] # n
      <4>1. at[k] < at[Len(ls)]
        BY <1>1, <1>6, <2>1, <3>3 DEF Pairs
      <4>2. QED
        BY <1>2, <1>4, <1>6, <2>1, <4>1
    <3>4. \A k \in DOMAIN ls : k \in DOMAIN ms <=> at[k] # n
      BY <1>3, <1>6, <2>1, <3>2, <3>3
    <3>5. DOMAIN ms \subseteq DOMAIN ls
      BY <1>3, <3>2
    <3>6. QED
      BY <3>2, <3>4, <3>5
  <2>2. CASE Last(fs).kind \notin Pushing
    <3>1. ms = ls
      BY <2>2
    <3>2. \A k \in DOMAIN ls : at[k] # n
      BY <1>1, <1>2, <1>5, <2>2 DEF Pairs
    <3>3. QED
      BY <1>3, <3>1, <3>2
  <2>3. QED
    BY <2>1, <2>2
<1> HIDE DEF gs, n
<1>8. \A k \in DOMAIN ms : k \in DOMAIN ls /\ to[k] = at[k] /\ at[k] \in DOMAIN gs
  BY <1>2, <1>4, <1>7
<1>9. to \in [DOMAIN ms -> DOMAIN gs]
  BY <1>8
<1> HIDE DEF to
<1>10. \A k \in DOMAIN ms : ms[k].brk = gs[to[k]].done
  BY <1>1, <1>2, <1>7, <1>8 DEF Pairs
<1>11. \A k, l \in DOMAIN ms : k < l => to[k] < to[l]
  BY <1>1, <1>8 DEF Pairs
<1>12. \A i \in DOMAIN gs : i \in PushingAt(gs) <=> \E k \in DOMAIN ms : to[k] = i
  <2>1. TAKE i \in DOMAIN gs
  <2>2. i \in DOMAIN fs /\ i # n
    BY <1>2
  <2>3. i \in PushingAt(gs) <=> i \in PushingAt(fs)
    BY <1>2, <2>2 DEF PushingAt
  <2>4. (\E k \in DOMAIN ms : to[k] = i) <=> (\E k \in DOMAIN ls : at[k] = i)
    BY <1>7, <1>8, <2>2
  <2>5. QED
    BY <1>1, <2>2, <2>3, <2>4 DEF Pairs
<1>13. Pairs(ms, gs, to)
  BY <1>9, <1>10, <1>11, <1>12 DEF Pairs
<1>14. QED
  BY <1>2, <1>7, <1>13 DEF Paired, gs

(* There are as many entries as pushing calls.                             *)
LEMMA PairsCount ==
  ASSUME NEW ls, NEW fs, Paired(ls, fs)
  PROVE  /\ IsFiniteSet(PushingAt(fs))
         /\ Cardinality(PushingAt(fs)) = Len(ls)
<1>1. PICK at : Pairs(ls, fs, at)
  BY DEF Paired
<1>2. Len(ls) \in Nat /\ DOMAIN ls = 1 .. Len(ls)
  BY LenProperties DEF Paired
<1>3. DOMAIN fs = 1 .. Len(fs) /\ Len(fs) \in Nat
  BY LenProperties DEF Paired
<1> DEFINE P == PushingAt(fs)
<1>4. at \in [1 .. Len(ls) -> P]
  BY <1>1, <1>2 DEF Pairs
<1>5. \A k, l \in 1 .. Len(ls) : at[k] = at[l] => k = l
  <2>1. TAKE k, l \in 1 .. Len(ls)
  <2>2. HAVE at[k] = at[l]
  <2>3. at[k] \in 1 .. Len(fs) /\ at[l] \in 1 .. Len(fs)
    BY <1>1, <1>2, <1>3 DEF Pairs
  <2>4. ~(k < l) /\ ~(l < k)
    BY <1>1, <1>2, <2>2, <2>3 DEF Pairs
  <2>5. QED
    BY <1>2, <2>4
<1>6. \A i \in P : \E k \in 1 .. Len(ls) : at[k] = i
  BY <1>1, <1>2 DEF Pairs, PushingAt
<1>7. at \in Bijection(1 .. Len(ls), P)
  BY <1>4, <1>5, <1>6 DEF Bijection, Injection, Surjection, IsInjective
<1>8. ExistsBijection(1 .. Len(ls), P)
  BY <1>7 DEF ExistsBijection
<1>9. /\ Cardinality(P) = Len(ls)
      /\ IsFiniteSet(P)
  BY <1>2, <1>8, FS_CountingElements, FS_Bijection, FS_Interval
<1>10. QED
  BY <1>9


(* A construct that pushes finds room, when the nesting fits.              *)
LEMMA PushedPairs ==
  ASSUME Paired(loops, frames), NEW f \in FrameType, f.kind \in Pushing,
         NEW cont \in Nat,
         Cardinality(PushingAt(Append(frames, f))) <= MaxLoops
  PROVE  Paired(LoopPushed(f.done, cont), Append(frames, f))
<1> DEFINE gs == Append(frames, f)
           new == Len(frames) + 1
           e == [brk |-> f.done, cont |-> cont]
<1>1. /\ Len(frames) \in Nat /\ DOMAIN frames = 1 .. Len(frames)
      /\ DOMAIN gs = 1 .. new /\ gs[new] = f
      /\ \A i \in DOMAIN frames : gs[i] = frames[i]
  BY PushFacts DEF Paired
<1>2. PushingAt(gs) = PushingAt(frames) \cup {new} /\ new \notin PushingAt(frames)
  BY <1>1 DEF PushingAt
<1>3. Cardinality(PushingAt(gs)) = Len(loops) + 1
  BY <1>2, PairsCount, FS_AddElement
<1>4. Len(loops) < MaxLoops
  BY <1>3, LenProperties, ConstantsAssumption DEF Paired
<1>5. e \in LoopType /\ e.brk = f.done
  BY DEF LoopType, FrameType
<1>6. LoopPushed(f.done, cont) = Append(loops, e)
  BY <1>4 DEF LoopPushed
<1>7. QED
  BY <1>5, <1>6, PairsPush

(* The call that stands for the innermost of the pushing constructs.       *)
LEMMA InnermostPushing ==
  ASSUME Paired(loops, frames), NEW i \in PushingAt(frames)
  PROVE  /\ loops # <<>>
         /\ {f.done : f \in Innermost(Pushing)} = {Last(loops).brk}
<1>1. PICK at : Pairs(loops, frames, at)
  BY DEF Paired
<1>2. loops \in Seq(LoopType) /\ Len(loops) \in Nat /\ DOMAIN loops = 1 .. Len(loops)
  BY LenProperties DEF Paired
<1>3. PICK k \in DOMAIN loops : at[k] = i
  BY <1>1 DEF Pairs, PushingAt
<1>4. loops # <<>>
  BY <1>2, <1>3, EmptySeq
<1> DEFINE n == Len(loops)
           m == at[n]
<1>5. n \in DOMAIN loops /\ Last(loops) = loops[n]
  BY <1>2, <1>4, PopFacts
<1>6. /\ frames \in Seq(FrameType) /\ DOMAIN frames = 1 .. Len(frames)
      /\ Len(frames) \in Nat /\ m \in 1 .. Len(frames)
  BY <1>1, <1>5, LenProperties DEF Paired, Pairs
<1>7. m \in PushingAt(frames) /\ frames[m].done = Last(loops).brk
  BY <1>1, <1>5, <1>6 DEF Pairs
<1>8. \A j \in PushingAt(frames) : j \in 1 .. Len(frames) /\ j <= m
  <2>1. TAKE j \in PushingAt(frames)
  <2>2. PICK l \in DOMAIN loops : at[l] = j
    BY <1>1 DEF Pairs, PushingAt
  <2>3. l = n \/ l < n
    BY <1>2
  <2>4. j \in 1 .. Len(frames)
    BY <1>6 DEF PushingAt
  <2>5. l < n => at[l] < m
    BY <1>1, <1>5 DEF Pairs
  <2>6. QED
    BY <1>6, <2>2, <2>3, <2>4, <2>5
<1> HIDE DEF m, n
<1>9. \A j \in DOMAIN frames :
        (/\ frames[j].kind \in Pushing
         /\ \A l \in j + 1 .. Len(frames) : frames[l].kind \notin Pushing) <=> j = m
  <2>1. TAKE j \in DOMAIN frames
  <2>2. ASSUME j = m
        PROVE  /\ frames[j].kind \in Pushing
               /\ \A l \in j + 1 .. Len(frames) : frames[l].kind \notin Pushing
    <3>1. ASSUME NEW l \in j + 1 .. Len(frames), frames[l].kind \in Pushing
          PROVE  FALSE
      <4>1. l \in 1 .. Len(frames) /\ l > m
        BY <1>6, <2>2
      <4>2. l \in PushingAt(frames)
        BY <1>6, <3>1, <4>1 DEF PushingAt
      <4>3. QED
        BY <1>6, <1>8, <4>1, <4>2
    <3>2. QED
      BY <1>7, <2>2, <3>1 DEF PushingAt
  <2>3. ASSUME frames[j].kind \in Pushing, j # m
        PROVE  m \in j + 1 .. Len(frames)
    <3>1. j \in PushingAt(frames)
      BY <2>3 DEF PushingAt
    <3>2. QED
      BY <1>6, <1>8, <2>3, <3>1
  <2>4. QED
    BY <1>7, <2>2, <2>3 DEF PushingAt
<1>10. Innermost(Pushing) = {frames[m]}
  BY <1>6, <1>9 DEF Innermost
<1>11. QED
  BY <1>4, <1>7, <1>10

(* A step without a break gives the builder's block no end by a break.     *)
Flows(d) == d[cur].term = code[cur].term \/ d[cur].term.by # "break"

(* The same under the blocks a statement appends.                          *)
LEMMA FlowsClosed ==
  ASSUME code \in Blocks, cur \in DOMAIN code, NEW t \in Term, t.by # "break",
         NEW S, NEW s \in Seq(S)
  PROVE  Flows(Close(code, cur, t) \o s) /\ Flows(Close(code, cur, t))
<1> DEFINE c == Close(code, cur, t)
           T == BasicBlock \cup S
<1>1. c \in Seq(BasicBlock) /\ DOMAIN c = DOMAIN code /\ c[cur].term = t
  BY CloseFacts DEF Blocks
<1> HIDE DEF c
<1>2. c \in Seq(T) /\ s \in Seq(T)
  BY <1>1, SeqMonotonic
<1> HIDE DEF T
<1>3. (c \o s)[cur] = c[cur]
  BY <1>1, <1>2, ConcatProperties, LenProperties
<1>4. Flows(c \o s) /\ Flows(c)
  BY <1>1, <1>3 DEF Flows
<1>5. QED
  BY <1>4 DEF c

(* The end of a block.                                                     *)
LEMMA FlowsFall ==
  ASSUME IInv, NEW to \in DOMAIN code
  PROVE  Flows(FallTo(BlockExit, cur, to)) /\ Flows(FallTo(code, cur, to))
<1>1. code \in Blocks /\ cur \in DOMAIN code /\ to \in Nat \ {0} /\ Runs(Mark) \in Seq(Instr)
  BY StateFacts, RunsType
<1>2. Br(to) \in Term /\ Br(to).by = "flow"
  BY <1>1, MadeTypes DEF Br
<1>3. ASSUME NEW c \in Blocks, DOMAIN c = DOMAIN code, c[cur].term = code[cur].term
      PROVE  Flows(FallTo(c, cur, to))
  <2>1. Close(c, cur, Br(to))[cur].term = Br(to)
    BY <1>1, <1>2, <1>3, CloseFacts
  <2>2. CASE IsOpen(c, cur)
    BY <1>2, <2>1, <2>2 DEF Flows, FallTo
  <2>3. CASE ~IsOpen(c, cur)
    BY <1>3, <2>3 DEF Flows, FallTo
  <2>4. QED
    BY <2>2, <2>3
<1>4. /\ BlockExit \in Blocks /\ DOMAIN BlockExit = DOMAIN code
      /\ BlockExit[cur].term = code[cur].term
  BY <1>1, EmitFacts DEF BlockExit
<1>5. QED
  BY <1>1, <1>3, <1>4


(* Statements without a construct of their own.                            *)
LEMMA StraightBreaks ==
  ASSUME IInv, TryStmt \/ ReturnStmt \/ ReturnTryStmt \/ DeferStmt \/ ContinueStmt
  PROVE  Flows(code') /\ loops' = loops /\ frames' = frames /\ cur \in DOMAIN code
<1>1. /\ code \in Blocks /\ cur \in DOMAIN code /\ Len(code) \in Nat \ {0}
      /\ DOMAIN code = 1 .. Len(code) /\ Mark \in 0 .. Len(defers)
  BY StateFacts
<1>2. Runs(0) \in Seq(Instr) /\ Runs(Mark) \in Seq(Instr)
  BY <1>1, RunsType, StateFacts
<1>3. /\ CondBr(Len(code) + 1, Len(code) + 2) \in Term
      /\ CondBr(Len(code) + 1, Len(code) + 2).by # "break"
      /\ Ret \in Term /\ Ret.by # "break"
  BY <1>1, MadeTypes DEF CondBr, Ret
<1>4. CASE TryStmt
  <2>1. PICK a, b : code' = Close(code, cur, CondBr(Len(code) + 1, Len(code) + 2)) \o <<a, b>>
    BY <1>4 DEF TryStmt, TryInto
  <2>2. <<a, b>> \in Seq({a, b})
    OBVIOUS
  <2>3. QED
    BY <1>1, <1>3, <1>4, <2>1, <2>2, FlowsClosed DEF TryStmt
<1>5. CASE ReturnStmt
  <2> DEFINE e == Emit(code, cur, Runs(0))
  <2>1. e \in Blocks /\ DOMAIN e = DOMAIN code
    BY <1>1, <1>2, EmitFacts
  <2>2. code' = Close(e, cur, Ret) /\ loops' = loops /\ frames' = frames
    BY <1>5 DEF ReturnStmt
  <2> HIDE DEF e
  <2>3. cur \in DOMAIN e
    BY <1>1, <2>1
  <2>4. Close(e, cur, Ret)[cur].term = Ret
    BY <1>3, <2>1, <2>3, CloseFacts
  <2>5. QED
    BY <1>1, <1>3, <2>2, <2>4 DEF Flows
<1>6. CASE ReturnTryStmt
  <2> DEFINE e == Emit(code, cur, Runs(0))
             t == CondBr(Len(code) + 1, Len(code) + 2)
             c == Close(e, cur, t)
  <2>1. e \in Blocks /\ DOMAIN e = DOMAIN code /\ Len(e) = Len(code)
    BY <1>1, <1>2, EmitFacts
  <2>2. PICK a, b : code' = Close(c \o <<a, b>>, Len(code) + 1, Ret)
    BY <1>6, <2>1 DEF ReturnTryStmt, TryInto
  <2> HIDE DEF e, t
  <2>3. c \in Seq(BasicBlock) /\ DOMAIN c = DOMAIN code /\ c[cur].term = t
        /\ Len(c) = Len(code)
    <3>1. cur \in DOMAIN e /\ t \in Term
      BY <1>1, <1>3, <2>1 DEF t
    <3>2. QED
      BY <2>1, <3>1, CloseFacts DEF Blocks
  <2> DEFINE T == BasicBlock \cup {a, b}
             d == c \o <<a, b>>
  <2>4. c \in Seq(T) /\ <<a, b>> \in Seq(T)
    BY <2>3, SeqMonotonic
  <2> HIDE DEF c, T
  <2>5. d[cur] = c[cur]
    BY <1>1, <2>3, <2>4, ConcatProperties, LenProperties
  <2>6. cur # Len(code) + 1
    BY <1>1
  <2>7. code' = [d EXCEPT ![Len(code) + 1].term = Ret]
    BY <2>2 DEF Close
  <2>8. cur \in DOMAIN d
    BY <1>1, <2>3, <2>4, ConcatProperties, LenProperties
  <2> HIDE DEF d
  <2>9. code'[cur] = d[cur]
    BY <2>6, <2>7, <2>8
  <2>10. Flows(code')
    BY <1>3, <2>3, <2>5, <2>9 DEF Flows, t
  <2>11. QED
    BY <1>1, <1>6, <2>10 DEF ReturnTryStmt
<1>7. CASE DeferStmt
  <2> DEFINE is == <<[op |-> "reg", d |-> left]>>
  <2>1. left \in 1 .. Budget
    BY <1>7, AtStmtFacts DEF DeferStmt
  <2>2. is \in Seq(Instr)
    BY <2>1 DEF Instr
  <2>3. Emit(code, cur, is)[cur].term = code[cur].term
    BY <1>1, <2>2, EmitFacts
  <2>4. QED
    BY <1>1, <1>7, <2>3 DEF DeferStmt, Flows
<1>8. CASE ContinueStmt
  <2> DEFINE e == Emit(code, cur, Runs(Mark))
             t == Leave(Last(loops).cont, "continue")
  <2>1. /\ code' = IF loops = <<>> THEN e ELSE Close(e, cur, t)
        /\ loops' = loops /\ frames' = frames
    BY <1>8 DEF ContinueStmt, JumpStmt
  <2>2. e \in Blocks /\ DOMAIN e = DOMAIN code /\ e[cur].term = code[cur].term
    BY <1>1, <1>2, EmitFacts
  <2> HIDE DEF e
  <2>3. CASE loops = <<>>
    BY <1>1, <2>1, <2>2, <2>3 DEF Flows
  <2>4. CASE loops # <<>>
    <3>1. Last(loops).cont \in Nat \ {0}
      <4>1. loops \in Seq(LoopType)
        BY DEF IInv, LoopsFit
      <4>2. Last(loops) = loops[Len(loops)] /\ Len(loops) \in DOMAIN loops
        BY <2>4, <4>1, PopFacts
      <4>3. QED
        BY <1>1, <4>2 DEF IInv
    <3>2. t \in Term /\ t.by = "continue"
      BY <3>1, MadeTypes DEF Leave
    <3>3. code' = Close(e, cur, t)
      BY <2>1, <2>4
    <3> HIDE DEF t
    <3>4. cur \in DOMAIN e
      BY <1>1, <2>2
    <3>5. Close(e, cur, t)[cur].term = t
      BY <2>2, <3>2, <3>4, CloseFacts
    <3>6. QED
      BY <1>1, <2>1, <3>2, <3>3, <3>5 DEF Flows
  <2>5. QED
    BY <2>3, <2>4
<1>9. QED
  BY <1>4, <1>5, <1>6, <1>7, <1>8


(* Constructs that are entered.                                            *)
LEMMA EnterBreaks ==
  ASSUME IInv, Paired(loops, frames), LoopsHaveRoom',
         IfStmt \/ IfElseIfStmt \/ ElseIf \/ WhileStmt \/ LoopStmt \/ UnsafeStmt \/ ForStmt
  PROVE  Flows(code') /\ Paired(loops', frames')
<1> DEFINE n == Len(code)
<1>1. code \in Blocks /\ cur \in DOMAIN code /\ n \in Nat \ {0}
  BY StateFacts
<1> HIDE DEF n
<1>2. /\ \A a, b \in Nat \ {0} : CondBr(a, b) \in Term /\ CondBr(a, b).by # "break"
      /\ \A a \in Nat \ {0} : Br(a) \in Term /\ Br(a).by # "break"
  BY MadeTypes DEF CondBr, Br
<1>3. /\ n + 1 \in Nat \ {0} /\ n + 2 \in Nat \ {0}
      /\ n + 3 \in Nat \ {0} /\ n + 4 \in Nat \ {0}
  BY <1>1
<1>4. \A a, b, c, d : /\ <<a, b>> \in Seq({a, b})
                      /\ <<a, b, c>> \in Seq({a, b, c})
                      /\ <<a, b, c, d>> \in Seq({a, b, c, d})
  OBVIOUS
<1>5. ASSUME NEW f, f \in FrameType, f.kind \in Pushing, NEW cont \in Nat,
             loops' = LoopPushed(f.done, cont), frames' = Append(frames, f)
      PROVE  Paired(loops', frames')
  <2>1. Cardinality(PushingAt(Append(frames, f))) <= MaxLoops
    BY <1>5 DEF LoopsHaveRoom
  <2>2. QED
    BY <1>5, <2>1, PushedPairs
<1>6. ASSUME NEW alt \in {"none", "block", "if"}, IfBlocks(alt)
      PROVE  Flows(code') /\ Paired(loops', frames')
  <2> DEFINE f == Frame("then", n + 2, n + 3, alt)
  <2>1. PICK a, b, c : code' = Close(code, cur, CondBr(n + 1, n + 2)) \o <<a, b, c>>
    BY <1>6 DEF IfBlocks, n
  <2>2. Flows(code')
    BY <1>1, <1>2, <1>3, <1>4, <2>1, FlowsClosed
  <2>3. loops' = loops /\ frames' = Append(frames, f)
    BY <1>6 DEF IfBlocks, EnterBlock, n
  <2>4. f \in FrameType /\ f.kind \notin Pushing
    BY <1>3 DEF Frame, FrameType, FrameKinds, Loops, Pushing
  <2>5. QED
    BY <2>2, <2>3, <2>4, PairsNext
<1>7. CASE IfStmt \/ IfElseIfStmt \/ ElseIf
  <2>1. \E alt \in {"none", "block", "if"} : IfBlocks(alt)
    BY <1>7 DEF IfStmt, IfElseIfStmt, ElseIf
  <2>2. QED
    BY <1>6, <2>1
<1>8. CASE WhileStmt
  <2> DEFINE f == Frame("while", n + 1, n + 3, "none")
  <2>1. PICK a, b, c : code' = Close(code, cur, Br(n + 1)) \o <<a, b, c>>
    BY <1>8 DEF WhileStmt, n
  <2>2. Flows(code')
    BY <1>1, <1>2, <1>3, <1>4, <2>1, FlowsClosed
  <2>3. loops' = LoopPushed(n + 3, n + 1) /\ frames' = Append(frames, f)
    BY <1>8 DEF WhileStmt, EnterBlock, n
  <2>4. f \in FrameType /\ f.kind \in Pushing /\ f.done = n + 3
    BY <1>3 DEF Frame, FrameType, FrameKinds, Loops, Pushing
  <2> HIDE DEF f
  <2>5. QED
    BY <1>3, <1>5, <2>2, <2>3, <2>4
<1>9. ASSUME NEW kind \in {"loop", "unsafe"}, LoopOrUnsafe(kind)
      PROVE  Flows(code') /\ Paired(loops', frames')
  <2> DEFINE f == Frame(kind, n + 2, n + 2, "none")
  <2>1. PICK a, b : code' = Close(code, cur, Br(n + 1)) \o <<a, b>>
    BY <1>9 DEF LoopOrUnsafe, n
  <2>2. Flows(code')
    BY <1>1, <1>2, <1>3, <1>4, <2>1, FlowsClosed
  <2>3. loops' = LoopPushed(n + 2, n + 1) /\ frames' = Append(frames, f)
    BY <1>9 DEF LoopOrUnsafe, EnterBlock, n
  <2>4. f \in FrameType /\ f.kind \in Pushing /\ f.done = n + 2
    BY <1>3 DEF Frame, FrameType, FrameKinds, Loops, Pushing
  <2> HIDE DEF f
  <2>5. QED
    BY <1>3, <1>5, <2>2, <2>3, <2>4
<1>10. CASE LoopStmt \/ UnsafeStmt
  BY <1>9, <1>10 DEF LoopStmt, UnsafeStmt
<1>11. CASE ForStmt
  <2> DEFINE f == Frame("for", n + 3, n + 4, "none")
  <2>1. PICK a, b, c, d : code' = Close(code, cur, Br(n + 1)) \o <<a, b, c, d>>
    BY <1>11 DEF ForStmt, n
  <2>2. Flows(code')
    BY <1>1, <1>2, <1>3, <1>4, <2>1, FlowsClosed
  <2>3. loops' = LoopPushed(n + 4, n + 3) /\ frames' = Append(frames, f)
    BY <1>11 DEF ForStmt, n
  <2>4. f \in FrameType /\ f.kind \in Pushing /\ f.done = n + 4
    BY <1>3 DEF Frame, FrameType, FrameKinds, Loops, Pushing
  <2> HIDE DEF f
  <2>5. QED
    BY <1>3, <1>5, <2>2, <2>3, <2>4
<1>12. QED
  BY <1>7, <1>8, <1>10, <1>11

(* Constructs that end, and their first branches.                          *)
LEMMA EndBreaks ==
  ASSUME IInv, Paired(loops, frames),
         \/ EndThenElse \/ EndThenElseIf \/ EndThen \/ EndElse \/ EndElseIf
         \/ EndWhile \/ EndLoop \/ EndUnsafe \/ EndFor
  PROVE  Flows(code') /\ Paired(loops', frames')
<1>1. /\ frames # <<>> /\ Top.kind # "body"
      /\ Top.kind \in {"then", "else", "elif", "while", "loop", "unsafe", "for"}
  BY DEF EndThenElse, EndThenElseIf, EndThen, EndElse, EndElseIf, EndWhile, EndLoop,
         EndUnsafe, EndFor, EndLoopOrUnsafe, LeaveBlock
<1>2. /\ code \in Blocks /\ cur \in DOMAIN code
      /\ Top.next \in DOMAIN code /\ Top.done \in DOMAIN code
      /\ DOMAIN code \subseteq Nat \ {0}
      /\ frames \in Seq(FrameType)
  BY <1>1, StateFacts, TopBlocks
<1>3. Paired(IF Top.kind \in Pushing THEN LoopPopped ELSE loops, Base)
  BY <1>1, PairsPop DEF Top, Base, LoopPopped
<1>4. ASSUME NEW f \in FrameType, f.kind \notin Pushing, Top.kind \notin Pushing
      PROVE  Paired(loops, Replace(f))
  BY <1>3, <1>4, PairsNext DEF Replace
<1>5. /\ {"then", "else", "elif"} \cap Pushing = {}
      /\ {"while", "loop", "unsafe", "for"} \subseteq Pushing
  BY DEF Pushing, Loops
<1>6. CASE EndThenElse
  <2> DEFINE f == Frame("else", Top.done, Top.done, "none")
  <2>1. f \in FrameType /\ f.kind \notin Pushing
    BY <1>2 DEF Frame, FrameType, FrameKinds, Loops, Pushing
  <2>2. QED
    BY <1>2, <1>4, <1>5, <1>6, <2>1, FlowsFall DEF EndThenElse
<1>7. CASE EndThenElseIf
  <2> DEFINE f == Frame("elif", Top.next, Top.done, "none")
  <2>1. f \in FrameType /\ f.kind \notin Pushing
    BY <1>2 DEF Frame, FrameType, FrameKinds, Loops, Pushing
  <2>2. QED
    BY <1>2, <1>4, <1>5, <1>7, <2>1, FlowsFall DEF EndThenElseIf, LeaveBlock
<1>8. CASE EndThen
  <2> DEFINE c == FallTo(BlockExit, cur, Top.done)
             t == Br(Top.done)
  <2>1. Flows(c) /\ Closed(code, cur, c)
    BY <1>2, FlowsFall, ExitThenFall
  <2>2. /\ code' = Close(c, Top.next, t) /\ loops' = loops /\ frames' = Base
        /\ Top.kind = "then"
    BY <1>8 DEF EndThen, LeaveBlock
  <2>3. t \in Term /\ cur # Top.next
    BY <1>1, <1>2, <2>2, MadeTypes, TopBlocks
  <2> HIDE DEF c, t
  <2>4. c \in Blocks /\ DOMAIN c = DOMAIN code
    BY <2>1 DEF Closed
  <2>5. code'[cur] = c[cur]
    BY <1>2, <2>2, <2>3, <2>4, CloseFacts
  <2>6. QED
    BY <1>3, <1>5, <2>1, <2>2, <2>5 DEF Flows
<1>9. CASE EndElse
  BY <1>2, <1>3, <1>5, <1>9, FlowsFall DEF EndElse, LeaveBlock
<1>10. CASE EndElseIf
  BY <1>2, <1>3, <1>5, <1>10, FlowsFall DEF EndElseIf
<1>11. CASE EndWhile
  BY <1>2, <1>3, <1>5, <1>11, FlowsFall DEF EndWhile, LeaveBlock
<1>12. CASE EndLoop \/ EndUnsafe
  BY <1>2, <1>3, <1>5, <1>12, FlowsFall DEF EndLoop, EndUnsafe, EndLoopOrUnsafe, LeaveBlock
<1>13. CASE EndFor
  BY <1>2, <1>3, <1>5, <1>13, FlowsFall DEF EndFor
<1>14. QED
  BY <1>6, <1>7, <1>8, <1>9, <1>10, <1>11, <1>12, <1>13


(* Nothing is open, and no loop is left.                                   *)
LEMMA PairsEmpty == Paired(<<>>, <<>>)
<1> DEFINE e == <<>>
           at == [k \in {} |-> 0]
<1>1. e \in Seq(LoopType) /\ e \in Seq(FrameType) /\ DOMAIN e = {}
  BY EmptySeq
<1> HIDE DEF e
<1>2. Pairs(e, e, at)
  BY <1>1 DEF Pairs
<1>3. Paired(e, e)
  BY <1>1, <1>2 DEF Paired
<1>4. QED
  BY <1>3 DEF e

(* The end of the function.                                                *)
LEMMA BodyBreaks ==
  ASSUME IInv, IInv', EndBody
  PROVE  Flows(code') /\ Paired(loops', frames')
<1>1. frames' = <<>>
  BY DEF EndBody
<1>2. loops' = <<>>
  <2>1. LoopsFit(loops', frames') /\ frames' \in Seq(FrameType)
    BY DEF IInv, Built, FramesFit
  <2>2. \A i \in DOMAIN frames' : FALSE
    BY <1>1, EmptySeq
  <2>3. QED
    BY <2>1, <2>2, LoopsNone
<1>3. /\ code \in Blocks /\ cur \in DOMAIN code /\ Runs(Mark) \in Seq(Instr)
      /\ Ret \in Term /\ Ret.by # "break"
  BY StateFacts, RunsType, MadeTypes DEF Ret
<1>4. /\ BlockExit \in Blocks /\ cur \in DOMAIN BlockExit
      /\ BlockExit[cur].term = code[cur].term
  BY <1>3, EmitFacts DEF BlockExit
<1>5. Close(BlockExit, cur, Ret)[cur].term = Ret
  BY <1>3, <1>4, CloseFacts
<1>6. Flows(code')
  BY <1>3, <1>4, <1>5 DEF EndBody, Flows
<1>7. QED
  BY <1>1, <1>2, <1>6, PairsEmpty

(* A break branches to the done block of the innermost pushing construct.  *)
LEMMA BreakBinds ==
  ASSUME IInv, Paired(loops, frames), BreakStmt
  PROVE  BreakLeaves(Pushing) /\ loops' = loops /\ frames' = frames
<1>1. /\ \E i \in DOMAIN frames : frames[i].kind \in {"while", "loop", "for"}
      /\ code' = LET c == Emit(code, cur, Runs(Mark))
                 IN IF loops = <<>> THEN c
                    ELSE Close(c, cur, Leave(Last(loops).brk, "break"))
      /\ loops' = loops /\ frames' = frames
  BY DEF BreakStmt, JumpStmt
<1>2. PICK i : i \in PushingAt(frames)
  BY <1>1 DEF PushingAt, Pushing, Loops
<1>3. loops # <<>> /\ {f.done : f \in Innermost(Pushing)} = {Last(loops).brk}
  BY <1>2, InnermostPushing
<1> DEFINE e == Emit(code, cur, Runs(Mark))
           t == Leave(Last(loops).brk, "break")
<1>4. e \in Blocks /\ cur \in DOMAIN e
  BY StateFacts, RunsType, EmitFacts
<1>5. t \in Term /\ t.to = {Last(loops).brk}
  <2>1. Last(loops) = loops[Len(loops)] /\ Len(loops) \in DOMAIN loops
    BY <1>3, PopFacts DEF Paired
  <2>2. Last(loops).brk \in Nat \ {0}
    BY <2>1, StateFacts DEF IInv
  <2>3. QED
    BY <2>2, MadeTypes DEF Leave
<1>6. code' = Close(e, cur, t)
  BY <1>1, <1>3
<1> HIDE DEF e, t
<1>7. code'[cur].term = t
  BY <1>4, <1>5, <1>6, CloseFacts
<1>8. QED
  BY <1>1, <1>3, <1>5, <1>7 DEF BreakLeaves

(* The pairs are kept, and every step binds the break it emits.            *)
LEMMA NextPaired ==
  ASSUME IInv, IInv', Paired(loops, frames), LoopsHaveRoom', [Next]_vars
  PROVE  Paired(loops', frames') /\ BreakLeaves(Pushing)
<1>1. CASE BreakStmt
  BY <1>1, BreakBinds
<1>2. ASSUME Flows(code'), Paired(loops', frames')
      PROVE  Paired(loops', frames') /\ BreakLeaves(Pushing)
  BY <1>2 DEF Flows, BreakLeaves
<1>3. CASE TryStmt \/ ReturnStmt \/ ReturnTryStmt \/ DeferStmt \/ ContinueStmt
  BY <1>2, <1>3, StraightBreaks
<1>4. CASE IfStmt \/ IfElseIfStmt \/ ElseIf \/ WhileStmt \/ LoopStmt \/ UnsafeStmt \/ ForStmt
  BY <1>2, <1>4, EnterBreaks
<1>5. CASE \/ EndThenElse \/ EndThenElseIf \/ EndThen \/ EndElse \/ EndElseIf
           \/ EndWhile \/ EndLoop \/ EndUnsafe \/ EndFor
  BY <1>2, <1>5, EndBreaks
<1>6. CASE EndBody
  BY <1>2, <1>6, BodyBreaks
<1>7. CASE UNCHANGED vars
  BY <1>2, <1>7 DEF vars, Flows
<1>8. QED
  BY <1>1, <1>3, <1>4, <1>5, <1>6, <1>7 DEF Next

(* An empty function has no loop and is in none.                           *)
LEMMA InitPaired == Init => Paired(loops, frames)
<1>1. Frame("body", 0, 0, "none") \in FrameType
      /\ Frame("body", 0, 0, "none").kind \notin Pushing
  BY DEF Frame, FrameType, FrameKinds, Loops, Pushing
<1>2. Paired(<<>>, Append(<<>>, Frame("body", 0, 0, "none")))
  BY <1>1, PairsEmpty, PairsNext
<1>3. Append(<<>>, Frame("body", 0, 0, "none")) = <<Frame("body", 0, 0, "none")>>
  OBVIOUS
<1>4. QED
  BY <1>2, <1>3 DEF Init

(* A break leaves the innermost construct that pushes a loop, in every     *)
(* function that nests no more of them than LG.loops has room for.  The    *)
(* code does not check that: beyond MaxLoops it holds no longer.           *)
THEOREM BreaksBind == Spec /\ []LoopsHaveRoom => BreakBindsInnermost
<1>1. Init => Paired(loops, frames)
  BY InitPaired
<1>2. IInv /\ IInv' /\ Paired(loops, frames) /\ LoopsHaveRoom' /\ [Next]_vars
        => Paired(loops, frames)' /\ BreakLeaves(Pushing)
  BY NextPaired
<1>3. BreakLeaves(Pushing) <=> BreakLeaves(Loops \cup {"unsafe"})
  BY DEF Pushing
<1>4. QED
  BY <1>1, <1>2, <1>3, Invariant, PTL DEF Spec, BreakBindsInnermost

=============================================================================
