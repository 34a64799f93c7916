------------------------- MODULE DeferCodegenProofs -------------------------
(***************************************************************************)
(* Proofs about DeferCodegen, for every budget of statements and every     *)
(* length of the arrays of LG.  First what the builder's helpers do to the *)
(* blocks, then what every statement does to them, then type correctness.  *)
(***************************************************************************)
EXTENDS DeferCodegen, SequenceLemmas

Blocks == Seq(BasicBlock)

(* The instructions, the types of the parts of a block.                    *)
LEMMA BlockParts ==
  ASSUME NEW c \in Blocks, NEW b \in DOMAIN c
  PROVE  /\ Len(c) \in Nat
         /\ DOMAIN c = 1 .. Len(c)
         /\ c[b] \in BasicBlock
         /\ c[b].ins \in Seq(Instr)
         /\ c[b].term \in Term
         /\ c[b].path \in Seq(Nat)
<1>1. Len(c) \in Nat /\ DOMAIN c = 1 .. Len(c) /\ c[b] \in BasicBlock
  BY LenProperties, ElementOfSeq DEF Blocks
<1>2. QED
  BY <1>1 DEF BasicBlock

(* Replacing one block of a function.                                      *)
LEMMA ReplaceBlock ==
  ASSUME NEW c \in Blocks, NEW b \in DOMAIN c, NEW x \in BasicBlock
  PROVE  /\ [c EXCEPT ![b] = x] \in Blocks
         /\ Len([c EXCEPT ![b] = x]) = Len(c)
         /\ DOMAIN [c EXCEPT ![b] = x] = DOMAIN c
         /\ [c EXCEPT ![b] = x][b] = x
         /\ \A a \in DOMAIN c : a # b => [c EXCEPT ![b] = x][a] = c[a]
<1>1. b \in 1 .. Len(c) /\ DOMAIN c = 1 .. Len(c)
  BY BlockParts
<1>2. /\ [c EXCEPT ![b] = x] \in Seq(BasicBlock)
      /\ Len([c EXCEPT ![b] = x]) = Len(c)
  BY <1>1, ExceptSeq DEF Blocks
<1>3. QED
  BY <1>1, <1>2, LenProperties DEF Blocks

(* Instructions added at the builder's block: nothing else changes.        *)
LEMMA EmitFacts ==
  ASSUME NEW c \in Blocks, NEW b \in DOMAIN c, NEW is \in Seq(Instr)
  PROVE  /\ Emit(c, b, is) \in Blocks
         /\ Len(Emit(c, b, is)) = Len(c)
         /\ DOMAIN Emit(c, b, is) = DOMAIN c
         /\ \A a \in DOMAIN c : /\ Emit(c, b, is)[a].term = c[a].term
                                /\ Emit(c, b, is)[a].path = c[a].path
                                /\ a # b => Emit(c, b, is)[a] = c[a]
<1> DEFINE x == [c[b] EXCEPT !.ins = @ \o is]
<1>1. /\ c[b] \in BasicBlock
      /\ c[b].ins \o is \in Seq(Instr)
  BY BlockParts, ConcatProperties
<1>2. /\ x \in BasicBlock
      /\ x.term = c[b].term
      /\ x.path = c[b].path
  BY <1>1 DEF BasicBlock
<1> DEFINE d == Emit(c, b, is)
<1>3. d = [c EXCEPT ![b] = x]
  BY DEF Emit
<1> HIDE DEF x, d
<1>4. /\ d \in Blocks
      /\ Len(d) = Len(c)
      /\ DOMAIN d = DOMAIN c
      /\ d[b] = x
      /\ \A a \in DOMAIN c : a # b => d[a] = c[a]
  <2>1. x \in BasicBlock
    BY <1>2
  <2>2. /\ [c EXCEPT ![b] = x] \in Blocks
        /\ Len([c EXCEPT ![b] = x]) = Len(c)
        /\ DOMAIN [c EXCEPT ![b] = x] = DOMAIN c
        /\ [c EXCEPT ![b] = x][b] = x
        /\ \A a \in DOMAIN c : a # b => [c EXCEPT ![b] = x][a] = c[a]
    BY ONLY <2>1, ReplaceBlock, b \in DOMAIN c, c \in Blocks
  <2>3. QED
    BY ONLY <2>2, <1>3
<1>5. QED
  BY <1>2, <1>4 DEF d

(* A terminator set: the rest of the block and the other blocks stay.      *)
LEMMA CloseFacts ==
  ASSUME NEW c \in Blocks, NEW b \in DOMAIN c, NEW t \in Term
  PROVE  /\ Close(c, b, t) \in Blocks
         /\ Len(Close(c, b, t)) = Len(c)
         /\ DOMAIN Close(c, b, t) = DOMAIN c
         /\ Close(c, b, t)[b].term = t
         /\ \A a \in DOMAIN c : /\ Close(c, b, t)[a].path = c[a].path
                                /\ a # b => Close(c, b, t)[a] = c[a]
<1> DEFINE x == [c[b] EXCEPT !.term = t]
<1>1. c[b] \in BasicBlock
  BY BlockParts
<1>2. /\ x \in BasicBlock
      /\ x.term = t
      /\ x.path = c[b].path
  BY <1>1 DEF BasicBlock
<1> DEFINE d == Close(c, b, t)
<1>3. d = [c EXCEPT ![b] = x]
  BY DEF Close
<1> HIDE DEF x, d
<1>4. /\ d \in Blocks
      /\ Len(d) = Len(c)
      /\ DOMAIN d = DOMAIN c
      /\ d[b] = x
      /\ \A a \in DOMAIN c : a # b => d[a] = c[a]
  <2>1. x \in BasicBlock
    BY <1>2
  <2>2. /\ [c EXCEPT ![b] = x] \in Blocks
        /\ Len([c EXCEPT ![b] = x]) = Len(c)
        /\ DOMAIN [c EXCEPT ![b] = x] = DOMAIN c
        /\ [c EXCEPT ![b] = x][b] = x
        /\ \A a \in DOMAIN c : a # b => [c EXCEPT ![b] = x][a] = c[a]
    BY ONLY <2>1, ReplaceBlock, b \in DOMAIN c, c \in Blocks
  <2>3. QED
    BY ONLY <2>2, <1>3
<1>5. QED
  BY <1>2, <1>4 DEF d

-----------------------------------------------------------------------------
(* Function d is function c after some emission that touched, of c's       *)
(* blocks, at most those of B, and none that had a terminator.             *)
Grows(c, d, B) ==
  /\ d \in Blocks
  /\ Len(c) <= Len(d)
  /\ \A a \in DOMAIN c : /\ d[a].path = c[a].path
                         /\ ~IsOpen(c, a) => d[a] = c[a]
                         /\ a \notin B => d[a] = c[a]

(* Every branch of the function goes to a block up to n.                   *)
Inside(c, n) == \A a \in DOMAIN c : c[a].term.to \subseteq 1 .. n

(* Emission in several steps.                                              *)
LEMMA GrowsTwice ==
  ASSUME NEW c \in Blocks, NEW d \in Blocks, NEW e \in Blocks, NEW B,
         Grows(c, d, B), Grows(d, e, B)
  PROVE  Grows(c, e, B)
<1>1. /\ Len(c) \in Nat /\ Len(d) \in Nat /\ Len(e) \in Nat
      /\ DOMAIN c = 1 .. Len(c) /\ DOMAIN d = 1 .. Len(d)
  BY LenProperties DEF Blocks
<1>2. DOMAIN c \subseteq DOMAIN d
  BY <1>1 DEF Grows
<1>3. Len(c) <= Len(e)
  BY <1>1 DEF Grows
<1>4. ASSUME NEW a \in DOMAIN c
      PROVE  /\ e[a].path = c[a].path
             /\ ~IsOpen(c, a) => e[a] = c[a]
             /\ a \notin B => e[a] = c[a]
  BY <1>2, Zenon DEF Grows, IsOpen
<1>5. QED
  BY <1>3, <1>4, Zenon DEF Grows

(* Doing nothing is an emission.                                           *)
LEMMA GrowsNothing ==
  ASSUME NEW c \in Blocks, NEW B
  PROVE  Grows(c, c, B)
BY LenProperties DEF Grows, Blocks

(* Instructions go to an open block only.                                  *)
LEMMA GrowsByEmit ==
  ASSUME NEW c \in Blocks, NEW b \in DOMAIN c, NEW is \in Seq(Instr),
         IsOpen(c, b), NEW B, b \in B
  PROVE  Grows(c, Emit(c, b, is), B)
<1>1. Len(c) <= Len(Emit(c, b, is))
  BY EmitFacts, LenProperties DEF Blocks
<1>2. QED
  BY <1>1, EmitFacts, Zenon DEF Grows, IsOpen

(* So do terminators.                                                      *)
LEMMA GrowsByClose ==
  ASSUME NEW c \in Blocks, NEW b \in DOMAIN c, NEW t \in Term,
         IsOpen(c, b), NEW B, b \in B
  PROVE  Grows(c, Close(c, b, t), B)
<1>1. Len(c) <= Len(Close(c, b, t))
  BY CloseFacts, LenProperties DEF Blocks
<1>2. QED
  BY <1>1, CloseFacts, Zenon DEF Grows, IsOpen

(* New blocks go to the end.                                               *)
LEMMA NewBlocks ==
  ASSUME NEW c \in Blocks, NEW bs \in Blocks, NEW B
  PROVE  /\ c \o bs \in Blocks
         /\ Len(c \o bs) = Len(c) + Len(bs)
         /\ \A a \in DOMAIN c : (c \o bs)[a] = c[a]
         /\ \A i \in DOMAIN bs : (c \o bs)[Len(c) + i] = bs[i]
         /\ Grows(c, c \o bs, B)
<1>1. /\ Len(c) \in Nat /\ Len(bs) \in Nat
      /\ DOMAIN c = 1 .. Len(c) /\ DOMAIN bs = 1 .. Len(bs)
  BY LenProperties DEF Blocks
<1>2. /\ c \o bs \in Blocks
      /\ Len(c \o bs) = Len(c) + Len(bs)
      /\ \A i \in 1 .. Len(c) + Len(bs) :
           (c \o bs)[i] = IF i <= Len(c) THEN c[i] ELSE bs[i - Len(c)]
  BY ConcatProperties DEF Blocks
<1>3. \A a \in DOMAIN c : (c \o bs)[a] = c[a]
  BY <1>1, <1>2
<1>4. ASSUME NEW i \in DOMAIN bs
      PROVE  (c \o bs)[Len(c) + i] = bs[i]
  <2>1. /\ Len(c) + i \in 1 .. Len(c) + Len(bs)
        /\ ~(Len(c) + i <= Len(c))
        /\ Len(c) + i - Len(c) = i
    BY <1>1
  <2>2. QED
    BY <2>1, <1>2
<1>5. Len(c) <= Len(c \o bs)
  BY <1>1, <1>2
<1>6. QED
  BY <1>2, <1>3, <1>4, <1>5 DEF Grows

(* The terminators and the blocks the builder makes have their types.      *)
LEMMA MadeTypes ==
  /\ NoTerm \in Term /\ Ret \in Term
  /\ \A b, d \in Nat \ {0} : Br(b) \in Term /\ CondBr(b, d) \in Term
  /\ \A b \in Nat \ {0} : Leave(b, "break") \in Term
                          /\ Leave(b, "continue") \in Term
  /\ \A b, d \in Nat : Br(b) # NoTerm /\ CondBr(b, d) # NoTerm
  /\ Ret # NoTerm
  /\ \A b \in Nat : Leave(b, "break") # NoTerm /\ Leave(b, "continue") # NoTerm
BY DEF NoTerm, Ret, Br, CondBr, Leave, Term

(* A made block is a block with the end and the path it was given.         *)
LEMMA MadeBlock ==
  ASSUME NEW is \in Seq(Instr), NEW t \in Term, NEW path \in Seq(Nat),
         NEW of \in {"entry", "try", "if", "while", "loop", "for", "unsafe"}
  PROVE  /\ Block(is, t, path, of) \in BasicBlock
         /\ Block(is, t, path, of).term = t
         /\ Block(is, t, path, of).path = path
BY DEF Block, BasicBlock, Loops

(* A block begun is an open block without instructions.                    *)
LEMMA MadeEmpty ==
  ASSUME NEW path \in Seq(Nat),
         NEW of \in {"entry", "try", "if", "while", "loop", "for", "unsafe"}
  PROVE  /\ Empty(path, of) \in BasicBlock
         /\ Empty(path, of).term = NoTerm
         /\ Empty(path, of).path = path
<1>1. <<>> \in Seq(Instr) /\ NoTerm \in Term
  BY EmptySeq, MadeTypes
<1>2. QED
  BY <1>1, MadeBlock DEF Empty

(* Emission leaves terminators alone; closing sets one.                    *)
LEMMA OpenAfter ==
  ASSUME NEW c \in Blocks, NEW b \in DOMAIN c, NEW is \in Seq(Instr),
         NEW t \in Term, t # NoTerm
  PROVE  /\ \A a \in DOMAIN c : IsOpen(Emit(c, b, is), a) <=> IsOpen(c, a)
         /\ ~IsOpen(Close(c, b, t), b)
         /\ \A a \in DOMAIN c \ {b} : IsOpen(Close(c, b, t), a) <=> IsOpen(c, a)
<1>1. \A a \in DOMAIN c : IsOpen(Emit(c, b, is), a) <=> IsOpen(c, a)
  BY EmitFacts, Zenon DEF IsOpen
<1>2. \A a \in DOMAIN c \ {b} : Close(c, b, t)[a] = c[a]
  BY CloseFacts
<1>3. Close(c, b, t)[b].term = t
  BY CloseFacts
<1>4. QED
  BY <1>1, <1>2, <1>3, Zenon DEF IsOpen

(* The branches of a function after each kind of change.                   *)
LEMMA InsideAfter ==
  ASSUME NEW c \in Blocks, NEW b \in DOMAIN c, NEW is \in Seq(Instr),
         NEW t \in Term, NEW n \in Nat, Inside(c, n)
  PROVE  /\ Inside(Emit(c, b, is), n)
         /\ t.to \subseteq 1 .. n => Inside(Close(c, b, t), n)
         /\ \A k \in Nat : n <= k => Inside(c, k)
<1>1. Inside(Emit(c, b, is), n)
  <2>1. DOMAIN Emit(c, b, is) = DOMAIN c
    BY EmitFacts
  <2>2. \A a \in DOMAIN c : Emit(c, b, is)[a].term = c[a].term
    BY EmitFacts
  <2>3. \A a \in DOMAIN c : c[a].term.to \subseteq 1 .. n
    BY DEF Inside
  <2>4. \A a \in DOMAIN c : Emit(c, b, is)[a].term.to \subseteq 1 .. n
    BY <2>2, <2>3
  <2>5. QED
    BY <2>1, <2>4 DEF Inside
<1>2. ASSUME t.to \subseteq 1 .. n
      PROVE  Inside(Close(c, b, t), n)
  <2>1. ASSUME NEW a \in DOMAIN c
        PROVE  Close(c, b, t)[a].term.to \subseteq 1 .. n
    <3>1. CASE a = b
      BY <1>2, <3>1, CloseFacts
    <3>2. CASE a # b
      BY <3>2, CloseFacts DEF Inside
    <3>3. QED
      BY <3>1, <3>2
  <2>2. DOMAIN Close(c, b, t) = DOMAIN c
    BY CloseFacts
  <2>3. QED
    BY <2>1, <2>2, Zenon DEF Inside
<1>3. ASSUME NEW k \in Nat, n <= k
      PROVE  Inside(c, k)
  <2>1. 1 .. n \subseteq 1 .. k
    BY <1>3
  <2>2. QED
    BY <2>1 DEF Inside
<1>4. QED
  BY <1>1, <1>2, <1>3

(* Appended blocks bring their own branches.                               *)
LEMMA InsideConcat ==
  ASSUME NEW c \in Blocks, NEW bs \in Blocks, NEW n \in Nat,
         Inside(c, n), Inside(bs, n)
  PROVE  Inside(c \o bs, n)
<1>1. /\ Len(c) \in Nat /\ Len(bs) \in Nat
      /\ DOMAIN c = 1 .. Len(c) /\ DOMAIN bs = 1 .. Len(bs)
      /\ DOMAIN (c \o bs) = 1 .. Len(c) + Len(bs)
  BY LenProperties, NewBlocks DEF Blocks
<1>2. ASSUME NEW a \in DOMAIN (c \o bs)
      PROVE  (c \o bs)[a].term.to \subseteq 1 .. n
  <2>1. CASE a \in DOMAIN c
    BY <2>1, NewBlocks DEF Inside
  <2>2. CASE a \notin DOMAIN c
    <3>1. a - Len(c) \in DOMAIN bs /\ Len(c) + (a - Len(c)) = a
      BY <1>1, <2>2
    <3>2. (c \o bs)[Len(c) + (a - Len(c))] = bs[a - Len(c)]
      BY <3>1, NewBlocks
    <3>3. QED
      BY <3>1, <3>2 DEF Inside
  <2>3. QED
    BY <2>1, <2>2
<1>3. QED
  BY <1>2 DEF Inside

(* What FallTo does: afterwards the block has a terminator.                *)
LEMMA FallToFacts ==
  ASSUME NEW c \in Blocks, NEW b \in DOMAIN c, NEW to \in Nat \ {0},
         NEW B, b \in B, NEW n \in Nat, to <= n, Inside(c, n)
  PROVE  /\ FallTo(c, b, to) \in Blocks
         /\ Len(FallTo(c, b, to)) = Len(c)
         /\ DOMAIN FallTo(c, b, to) = DOMAIN c
         /\ Grows(c, FallTo(c, b, to), B)
         /\ Inside(FallTo(c, b, to), n)
         /\ ~IsOpen(FallTo(c, b, to), b)
         /\ \A a \in DOMAIN c \ {b} :
              IsOpen(FallTo(c, b, to), a) <=> IsOpen(c, a)
<1>1. Br(to) \in Term /\ Br(to) # NoTerm
  BY MadeTypes
<1>2. Br(to).to \subseteq 1 .. n
  BY DEF Br
<1>3. CASE IsOpen(c, b)
  <2>1. FallTo(c, b, to) = Close(c, b, Br(to))
    BY <1>3 DEF FallTo
  <2>2. <<>> \in Seq(Instr)
    BY EmptySeq
  <2>3. Inside(Close(c, b, Br(to)), n)
    BY <1>1, <1>2, <2>2, InsideAfter
  <2>4. Grows(c, Close(c, b, Br(to)), B)
    BY <1>1, <1>3, GrowsByClose
  <2>5. /\ ~IsOpen(Close(c, b, Br(to)), b)
        /\ \A a \in DOMAIN c \ {b} :
             IsOpen(Close(c, b, Br(to)), a) <=> IsOpen(c, a)
    BY <1>1, <2>2, OpenAfter
  <2>6. QED
    BY <1>1, <2>1, <2>3, <2>4, <2>5, CloseFacts
<1>4. CASE ~IsOpen(c, b)
  <2>1. FallTo(c, b, to) = c
    BY <1>4 DEF FallTo
  <2>2. QED
    BY <1>4, <2>1, GrowsNothing
<1>5. QED
  BY <1>3, <1>4

-----------------------------------------------------------------------------
(* The marks m of LG fit n deferred expressions and k open scopes: they    *)
(* never point beyond the deferred ones, they do not decrease, there are   *)
(* no more of them than scopes, and the mark of a function's two outermost *)
(* scopes, wherever the full array left it, is 0.                          *)
MarksFit(m, n, k) ==
  /\ m \in Seq(Nat)
  /\ Len(m) <= MaxScopes
  /\ \A i \in DOMAIN m : m[i] <= n
  /\ \A i, j \in DOMAIN m : i < j => m[i] <= m[j]
  /\ Len(m) <= k
  /\ \A i \in DOMAIN m : k - Len(m) + i <= 2 => m[i] = 0

MarkOf(m) == IF m = <<>> THEN 0 ELSE Last(m)

(* lg_push_scope, with room for the mark or without.                       *)
LEMMA FitPush ==
  ASSUME NEW m, NEW n \in Nat, NEW k \in Nat, MarksFit(m, n, k),
         k >= 2 \/ n = 0
  PROVE  MarksFit(Marked(m, n), n, k + 1)
<1>1. /\ m \in Seq(Nat) /\ Len(m) \in Nat /\ DOMAIN m = 1 .. Len(m)
      /\ \A i \in DOMAIN m : m[i] \in Nat
  BY LenProperties, ElementOfSeq DEF MarksFit
<1>2. MaxScopes \in Nat
  BY ConstantsAssumption
<1>3. CASE Len(m) < MaxScopes
  <2> DEFINE a == Append(m, n)
  <2>1. Marked(m, n) = a
    BY <1>3 DEF Marked
  <2>2. /\ a \in Seq(Nat)
        /\ Len(a) = Len(m) + 1
        /\ DOMAIN a = 1 .. Len(m) + 1
        /\ \A i \in DOMAIN m : a[i] = m[i]
        /\ a[Len(m) + 1] = n
    BY <1>1, PushFacts
  <2> HIDE DEF a
  <2>3. \A i \in DOMAIN a : i \in DOMAIN m \/ i = Len(m) + 1
    BY <1>1, <2>2
  <2>4. \A i \in DOMAIN a : a[i] <= n
    BY <1>1, <2>2, <2>3 DEF MarksFit
  <2>5. \A i, j \in DOMAIN a : i < j => a[i] <= a[j]
    <3>1. TAKE i, j \in DOMAIN a
    <3>2. HAVE i < j
    <3>3. i \in DOMAIN m
      BY <1>1, <2>2, <3>2
    <3>4. CASE j \in DOMAIN m
      BY <2>2, <3>2, <3>3, <3>4 DEF MarksFit
    <3>5. CASE j = Len(m) + 1
      BY <2>2, <2>4, <3>5
    <3>6. QED
      BY <2>3, <3>4, <3>5
  <2>6. \A i \in DOMAIN a : k + 1 - Len(a) + i <= 2 => a[i] = 0
    <3>1. TAKE i \in DOMAIN a
    <3>2. HAVE k + 1 - Len(a) + i <= 2
    <3>3. CASE i \in DOMAIN m
      <4>1. k - Len(m) + i <= 2
        BY <1>1, <2>2, <3>2, <3>3
      <4>2. QED
        BY <4>1, <3>3, <2>2 DEF MarksFit
    <3>4. CASE i = Len(m) + 1
      <4>1. k < 2
        BY <1>1, <2>2, <3>2, <3>4
      <4>2. QED
        BY <4>1, <3>4, <2>2
    <3>5. QED
      BY <2>3, <3>3, <3>4
  <2>7. Len(a) <= MaxScopes /\ Len(a) <= k + 1
    BY <1>1, <1>2, <1>3, <2>2 DEF MarksFit
  <2>8. QED
    BY <2>1, <2>2, <2>4, <2>5, <2>6, <2>7 DEF MarksFit
<1>4. CASE ~(Len(m) < MaxScopes)
  <2>1. Marked(m, n) = m
    BY <1>4 DEF Marked
  <2>2. \A i \in DOMAIN m : k + 1 - Len(m) + i <= 2 => m[i] = 0
    <3>1. TAKE i \in DOMAIN m
    <3>2. i \in Nat
      BY <1>1
    <3>3. k + 1 - Len(m) + i <= 2 => k - Len(m) + i <= 2
      BY <3>2, <1>1
    <3>4. QED
      BY <3>3 DEF MarksFit
  <2>3. Len(m) <= k + 1
    BY <1>1 DEF MarksFit
  <2>4. QED
    BY <2>1, <2>2, <2>3 DEF MarksFit
<1>5. QED
  BY <1>3, <1>4

(* The mark on top is a count of deferred expressions.                     *)
LEMMA MarkInside ==
  ASSUME NEW m, NEW n \in Nat, NEW k \in Nat, MarksFit(m, n, k)
  PROVE  /\ MarkOf(m) \in 0 .. n
         /\ \A i \in DOMAIN m : m[i] <= MarkOf(m)
<1>1. CASE m = <<>>
  BY <1>1, EmptySeq DEF MarkOf
<1>2. CASE m # <<>>
  <2>1. /\ MarkOf(m) = m[Len(m)] /\ m[Len(m)] \in Nat
        /\ Len(m) \in Nat \ {0} /\ DOMAIN m = 1 .. Len(m)
        /\ Len(m) \in DOMAIN m
    BY <1>2, PopFacts DEF MarkOf, MarksFit
  <2>2. \A i \in DOMAIN m : i = Len(m) \/ i < Len(m)
    BY <2>1
  <2>3. QED
    BY <2>1, <2>2 DEF MarksFit
<1>3. QED
  BY <1>1, <1>2

(* The deferred expressions above the mark are dropped.                    *)
LEMMA FitCut ==
  ASSUME NEW m, NEW n \in Nat, NEW k \in Nat, MarksFit(m, n, k)
  PROVE  MarksFit(m, MarkOf(m), k)
BY MarkInside DEF MarksFit

(* More deferred expressions do no harm.                                   *)
LEMMA FitMore ==
  ASSUME NEW m, NEW n \in Nat, NEW p \in Nat, NEW k \in Nat,
         MarksFit(m, n, k), n <= p
  PROVE  MarksFit(m, p, k)
<1>1. \A i \in DOMAIN m : m[i] \in Nat
  BY LenProperties, ElementOfSeq DEF MarksFit
<1>2. \A i \in DOMAIN m : m[i] <= p
  BY <1>1 DEF MarksFit
<1>3. QED
  BY <1>2 DEF MarksFit

(* lg_pop_scope, with a mark to take away or without.                      *)
LEMMA FitPop ==
  ASSUME NEW m, NEW n \in Nat, NEW k \in Nat, k >= 1, MarksFit(m, n, k)
  PROVE  MarksFit(Unmarked(m), n, k - 1)
<1>1. CASE m = <<>>
  <2>1. Unmarked(m) = m /\ Len(m) = 0 /\ DOMAIN m = {}
    BY <1>1, EmptySeq DEF Unmarked
  <2>2. QED
    BY <2>1 DEF MarksFit
<1>2. CASE m # <<>>
  <2> DEFINE f == Front(m)
  <2>1. /\ Unmarked(m) = f
        /\ f \in Seq(Nat)
        /\ Len(m) \in Nat \ {0}
        /\ Len(f) = Len(m) - 1
        /\ DOMAIN m = 1 .. Len(m)
        /\ DOMAIN f = 1 .. Len(m) - 1
        /\ \A i \in DOMAIN f : f[i] = m[i]
    BY <1>2, PopFacts DEF Unmarked, MarksFit
  <2> HIDE DEF f
  <2>2. \A i \in DOMAIN f : i \in DOMAIN m /\ i \in Nat
    BY <2>1
  <2>3. Len(f) <= MaxScopes /\ Len(f) <= k - 1
    BY <2>1, ConstantsAssumption DEF MarksFit
  <2>4. \A i \in DOMAIN f : k - 1 - Len(f) + i = k - Len(m) + i
    BY <2>1, <2>2
  <2>5. QED
    BY <2>1, <2>2, <2>3, <2>4 DEF MarksFit
<1>3. QED
  BY <1>1, <1>2

(* When only a function's two scopes are open, the mark is 0 and the two   *)
(* pops at the end of llg_emit_fn empty the array.                         *)
LEMMA FitBottom ==
  ASSUME NEW m, NEW n \in Nat, MarksFit(m, n, 2)
  PROVE  /\ MarkOf(m) = 0
         /\ Unmarked(Unmarked(m)) = <<>>
<1>1. CASE m = <<>>
  BY <1>1 DEF Unmarked, MarkOf
<1>2. CASE m # <<>>
  <2> DEFINE f == Front(m)
  <2>1. /\ Unmarked(m) = f
        /\ MarkOf(m) = m[Len(m)]
        /\ f \in Seq(Nat)
        /\ Len(m) \in Nat \ {0}
        /\ DOMAIN m = 1 .. Len(m)
        /\ Len(f) = Len(m) - 1
        /\ Len(m) <= 2
    BY <1>2, PopFacts DEF Unmarked, MarkOf, MarksFit
  <2> HIDE DEF f
  <2>2. 2 - Len(m) + Len(m) <= 2 /\ Len(m) \in DOMAIN m
    BY <2>1
  <2>3. MarkOf(m) = 0
    BY <2>1, <2>2 DEF MarksFit
  <2>4. Unmarked(f) = <<>>
    <3>1. CASE f = <<>>
      BY <3>1 DEF Unmarked
    <3>2. CASE f # <<>>
      <4>1. /\ Unmarked(f) = Front(f) /\ Front(f) \in Seq(Nat)
            /\ Len(Front(f)) = Len(f) - 1 /\ Len(f) \in Nat \ {0}
        BY <2>1, <3>2, PopFacts DEF Unmarked
      <4>2. Len(Front(f)) = 0
        BY <4>1, <2>1
      <4>3. QED
        BY <4>1, <4>2, EmptySeq
    <3>3. QED
      BY <3>1, <3>2
  <2>5. QED
    BY <2>1, <2>3, <2>4
<1>3. QED
  BY <1>1, <1>2

-----------------------------------------------------------------------------
(* The constructs that push a loop: unsafe shares the case of loop.        *)
Pushing == Loops \cup {"unsafe"}

FrameType == [kind : FrameKinds, next : Nat, done : Nat,
              alt : {"none", "block", "if"}]
LoopType == [brk : Nat, cont : Nat]

(* The loops of LG belong, in order, to open constructs that push one: the *)
(* array may have run full, so not every such construct has its loop.      *)
LoopsFit(ls, fs) ==
  /\ ls \in Seq(LoopType)
  /\ Len(ls) <= MaxLoops
  /\ \E at \in [DOMAIN ls -> DOMAIN fs] :
       /\ \A k \in DOMAIN ls : fs[at[k]].kind \in Pushing
       /\ \A k, l \in DOMAIN ls : k < l => at[k] < at[l]

(* A construct is entered that pushes no loop, or finds the array full.    *)
LEMMA LoopsNext ==
  ASSUME NEW ls, NEW fs \in Seq(FrameType), NEW f \in FrameType,
         LoopsFit(ls, fs)
  PROVE  LoopsFit(ls, Append(fs, f))
<1>1. PICK at \in [DOMAIN ls -> DOMAIN fs] :
         /\ \A k \in DOMAIN ls : fs[at[k]].kind \in Pushing
         /\ \A k, l \in DOMAIN ls : k < l => at[k] < at[l]
  BY DEF LoopsFit
<1>2. /\ DOMAIN fs \subseteq DOMAIN Append(fs, f)
      /\ \A i \in DOMAIN fs : Append(fs, f)[i] = fs[i]
  BY PushFacts
<1>3. at \in [DOMAIN ls -> DOMAIN Append(fs, f)]
  BY <1>2
<1>4. \A k \in DOMAIN ls : Append(fs, f)[at[k]].kind \in Pushing
  BY <1>1, <1>2
<1>5. QED
  BY <1>1, <1>3, <1>4 DEF LoopsFit

(* A construct is entered that pushes its loop.                            *)
LEMMA LoopsPush ==
  ASSUME NEW ls, NEW fs \in Seq(FrameType), NEW f \in FrameType,
         NEW e \in LoopType, f.kind \in Pushing, Len(ls) < MaxLoops,
         LoopsFit(ls, fs)
  PROVE  LoopsFit(Append(ls, e), Append(fs, f))
<1>1. PICK at \in [DOMAIN ls -> DOMAIN fs] :
         /\ \A k \in DOMAIN ls : fs[at[k]].kind \in Pushing
         /\ \A k, l \in DOMAIN ls : k < l => at[k] < at[l]
  BY DEF LoopsFit
<1> DEFINE gs == Append(fs, f)
           ms == Append(ls, e)
           to == [k \in DOMAIN ms |->
                    IF k \in DOMAIN ls THEN at[k] ELSE Len(fs) + 1]
<1>2. /\ gs[Len(fs) + 1] = f
      /\ Len(fs) \in Nat
      /\ DOMAIN fs = 1 .. Len(fs)
      /\ DOMAIN gs = 1 .. Len(fs) + 1
      /\ \A i \in DOMAIN fs : gs[i] = fs[i]
  BY PushFacts
<1>3. /\ ms \in Seq(LoopType)
      /\ Len(ms) = Len(ls) + 1
      /\ Len(ls) \in Nat
      /\ DOMAIN ls = 1 .. Len(ls)
      /\ DOMAIN ms = 1 .. Len(ls) + 1
  BY PushFacts DEF LoopsFit
<1> HIDE DEF gs, ms
<1>4. \A k \in DOMAIN ls : at[k] \in 1 .. Len(fs)
  BY <1>2
<1>5. to \in [DOMAIN ms -> DOMAIN gs]
  BY <1>2, <1>4
<1>6. \A k \in DOMAIN ms : gs[to[k]].kind \in Pushing
  <2>1. TAKE k \in DOMAIN ms
  <2>2. CASE k \in DOMAIN ls
    BY <1>1, <1>2, <2>2
  <2>3. CASE k \notin DOMAIN ls
    BY <1>2, <2>3
  <2>4. QED
    BY <2>2, <2>3
<1>7. \A k, l \in DOMAIN ms : k < l => to[k] < to[l]
  <2>1. TAKE k, l \in DOMAIN ms
  <2>2. HAVE k < l
  <2>3. k \in DOMAIN ls /\ to[k] = at[k]
    BY <1>3, <2>2
  <2>4. CASE l \in DOMAIN ls
    BY <1>1, <2>2, <2>3, <2>4
  <2>5. CASE l \notin DOMAIN ls
    BY <1>2, <1>4, <2>3, <2>5
  <2>6. QED
    BY <2>4, <2>5
<1>8. Len(ms) <= MaxLoops
  BY <1>3, ConstantsAssumption
<1>9. LoopsFit(ms, gs)
  BY <1>3, <1>5, <1>6, <1>7, <1>8 DEF LoopsFit
<1>10. QED
  BY <1>9 DEF ms, gs

(* A construct that pushes no loop is left.                                *)
LEMMA LoopsKept ==
  ASSUME NEW ls, NEW fs \in Seq(FrameType), fs # <<>>, LoopsFit(ls, fs),
         Last(fs).kind \notin Pushing
  PROVE  LoopsFit(ls, Front(fs))
<1>1. PICK at \in [DOMAIN ls -> DOMAIN fs] :
         /\ \A k \in DOMAIN ls : fs[at[k]].kind \in Pushing
         /\ \A k, l \in DOMAIN ls : k < l => at[k] < at[l]
  BY DEF LoopsFit
<1> DEFINE gs == Front(fs)
<1>2. /\ Last(fs) = fs[Len(fs)]
      /\ Len(fs) \in Nat \ {0}
      /\ DOMAIN fs = 1 .. Len(fs)
      /\ DOMAIN gs = 1 .. Len(fs) - 1
      /\ \A i \in DOMAIN gs : gs[i] = fs[i]
  BY PopFacts
<1> HIDE DEF gs
<1>3. \A k \in DOMAIN ls : at[k] \in DOMAIN gs
  <2>1. TAKE k \in DOMAIN ls
  <2>2. at[k] # Len(fs)
    BY <1>1, <1>2
  <2>3. at[k] \in 1 .. Len(fs)
    BY <1>2
  <2>4. QED
    BY <1>2, <2>2, <2>3
<1>4. at \in [DOMAIN ls -> DOMAIN gs]
  BY <1>3
<1>5. \A k \in DOMAIN ls : gs[at[k]].kind \in Pushing
  BY <1>1, <1>2, <1>3
<1>6. LoopsFit(ls, gs)
  BY <1>1, <1>4, <1>5 DEF LoopsFit
<1>7. QED
  BY <1>6 DEF gs

(* A construct that pushes a loop is left: one loop goes, if there is one. *)
LEMMA LoopsPop ==
  ASSUME NEW ls, NEW fs \in Seq(FrameType), fs # <<>>, LoopsFit(ls, fs)
  PROVE  LoopsFit(IF ls = <<>> THEN ls ELSE Front(ls), Front(fs))
<1>1. PICK at \in [DOMAIN ls -> DOMAIN fs] :
         /\ \A k \in DOMAIN ls : fs[at[k]].kind \in Pushing
         /\ \A k, l \in DOMAIN ls : k < l => at[k] < at[l]
  BY DEF LoopsFit
<1> DEFINE gs == Front(fs)
           ms == Front(ls)
           to == [k \in DOMAIN ms |-> at[k]]
<1>2. /\ Len(fs) \in Nat \ {0}
      /\ DOMAIN fs = 1 .. Len(fs)
      /\ DOMAIN gs = 1 .. Len(fs) - 1
      /\ \A i \in DOMAIN gs : gs[i] = fs[i]
  BY PopFacts
<1>3. CASE ls = <<>>
  <2>1. DOMAIN ls = {}
    BY <1>3, EmptySeq, LenProperties DEF LoopsFit
  <2>2. at \in [DOMAIN ls -> DOMAIN gs]
    BY <2>1
  <2>3. LoopsFit(ls, gs)
    BY <2>1, <2>2 DEF LoopsFit
  <2>4. QED
    BY <1>3, <2>3
<1>4. CASE ls # <<>>
  <2>1. /\ ms \in Seq(LoopType)
        /\ Len(ms) = Len(ls) - 1
        /\ Len(ls) \in Nat \ {0}
        /\ DOMAIN ls = 1 .. Len(ls)
        /\ DOMAIN ms = 1 .. Len(ls) - 1
    BY <1>4, PopFacts DEF LoopsFit
  <2> HIDE DEF gs, ms
  <2>2. \A k \in DOMAIN ms : k \in DOMAIN ls /\ at[k] \in DOMAIN gs
    <3>1. TAKE k \in DOMAIN ms
    <3>2. k \in DOMAIN ls /\ Len(ls) \in DOMAIN ls /\ k < Len(ls)
      BY <2>1
    <3>3. at[k] < at[Len(ls)] /\ at[k] \in 1 .. Len(fs)
          /\ at[Len(ls)] \in 1 .. Len(fs)
      BY <1>1, <1>2, <3>2
    <3>4. at[k] \in 1 .. Len(fs) - 1
      BY <1>2, <3>3
    <3>5. QED
      BY <1>2, <3>2, <3>4
  <2>3. to \in [DOMAIN ms -> DOMAIN gs]
    BY <2>2
  <2>4. /\ \A k \in DOMAIN ms : gs[to[k]].kind \in Pushing
        /\ \A k, l \in DOMAIN ms : k < l => to[k] < to[l]
    BY <1>1, <1>2, <2>2
  <2>5. Len(ms) <= MaxLoops
    BY <2>1, ConstantsAssumption DEF LoopsFit
  <2>6. LoopsFit(ms, gs)
    BY <2>1, <2>3, <2>4, <2>5 DEF LoopsFit
  <2>7. QED
    BY <1>4, <2>6 DEF gs, ms
<1>5. QED
  BY <1>3, <1>4

(* With no construct open that pushes a loop there is no loop left.        *)
LEMMA LoopsNone ==
  ASSUME NEW ls, NEW fs, LoopsFit(ls, fs),
         \A i \in DOMAIN fs : fs[i].kind \notin Pushing
  PROVE  ls = <<>>
<1>1. PICK at \in [DOMAIN ls -> DOMAIN fs] :
         \A k \in DOMAIN ls : fs[at[k]].kind \in Pushing
  BY DEF LoopsFit
<1>2. DOMAIN ls = {}
  BY <1>1
<1>3. QED
  BY <1>2, EmptySeq, LenProperties DEF LoopsFit

-----------------------------------------------------------------------------
(* The active calls fs of a function with blocks c: the body at the bottom *)
(* and only there, every construct's blocks inside the function, those of  *)
(* an inner construct appended after those of the outer one.               *)
FramesFit(c, fs) ==
  /\ fs \in Seq(FrameType)
  /\ fs # <<>> => fs[1].kind = "body"
  /\ \A i \in DOMAIN fs : i > 1 =>
       /\ fs[i].kind # "body"
       /\ fs[i].next \in DOMAIN c
       /\ fs[i].done \in DOMAIN c
       /\ fs[i].next <= fs[i].done
       /\ fs[i].kind \in {"then", "elif"} => fs[i].next < fs[i].done
  /\ \A i, j \in DOMAIN fs : i > 1 /\ i < j => fs[i].done < fs[j].next

(* The blocks the open constructs will still position the builder at.      *)
Owed(fs, b) ==
  \E i \in DOMAIN fs : /\ i > 1
                       /\ \/ b = fs[i].done
                          \/ fs[i].kind = "then" /\ b = fs[i].next

(* What holds of the blocks c between any two steps, with the builder at   *)
(* block k: only the builder's block and the owed ones may be open, the    *)
(* else blocks to come are open and not yet in use, and so is the else     *)
(* block a nested if is about to be emitted into.                          *)
Built(c, k, fs) ==
  /\ c \in Blocks
  /\ k \in DOMAIN c
  /\ Inside(c, Len(c))
  /\ FramesFit(c, fs)
  /\ \A b \in DOMAIN c : IsOpen(c, b) => fs # <<>> /\ (b = k \/ Owed(fs, b))
  /\ \A i \in DOMAIN fs : i > 1 /\ fs[i].kind = "then" =>
       IsOpen(c, fs[i].next) /\ k # fs[i].next
  /\ fs # <<>> /\ Last(fs).kind = "elif" /\ k = Last(fs).next => IsOpen(c, k)

(* Growing keeps the constructs' blocks inside the function.               *)
LEMMA FramesKeep ==
  ASSUME NEW c \in Blocks, NEW d \in Blocks, NEW B, Grows(c, d, B),
         NEW fs, FramesFit(c, fs)
  PROVE  /\ FramesFit(d, fs)
         /\ DOMAIN c \subseteq DOMAIN d
<1>1. DOMAIN c \subseteq DOMAIN d
  BY LenProperties DEF Blocks, Grows
<1>2. QED
  BY <1>1 DEF FramesFit

(* A statement without a block of its own: the builder stays or goes on    *)
(* in a block it has just appended.                                        *)
LEMMA BuiltStraight ==
  ASSUME NEW c, NEW k, NEW fs, Built(c, k, fs),
         fs # <<>>, Last(fs).kind # "elif",
         NEW d \in Blocks, Grows(c, d, {k}), Inside(d, Len(d)),
         NEW n \in DOMAIN d, n = k \/ n > Len(c),
         \A b \in DOMAIN d : IsOpen(d, b) =>
            n = b \/ (b \in DOMAIN c /\ b # k /\ IsOpen(c, b))
  PROVE  Built(d, n, fs)
<1>1. c \in Blocks /\ FramesFit(c, fs)
  BY DEF Built
<1>2. FramesFit(d, fs) /\ DOMAIN c \subseteq DOMAIN d
  BY <1>1, FramesKeep
<1>3. DOMAIN c = 1 .. Len(c) /\ Len(c) \in Nat
  BY <1>1, LenProperties DEF Blocks
<1>4. \A b \in DOMAIN d : IsOpen(d, b) => fs # <<>> /\ (b = n \/ Owed(fs, b))
  BY Zenon DEF Built
<1>5. ASSUME NEW i \in DOMAIN fs, i > 1, fs[i].kind = "then"
      PROVE  IsOpen(d, fs[i].next) /\ n # fs[i].next
  <2>1. /\ fs[i].next \in DOMAIN c
        /\ IsOpen(c, fs[i].next)
        /\ k # fs[i].next
    BY <1>1, <1>5 DEF Built, FramesFit
  <2>2. d[fs[i].next] = c[fs[i].next]
    BY <2>1 DEF Grows
  <2>3. n # fs[i].next
    BY <2>1, <1>3
  <2>4. QED
    BY <2>1, <2>2, <2>3 DEF IsOpen
<1>6. QED
  BY <1>2, <1>4, <1>5 DEF Built

(* Leaving an inner construct keeps the shape of the calls.                *)
LEMMA FramesPop ==
  ASSUME NEW c, NEW fs, FramesFit(c, fs), fs # <<>>
  PROVE  FramesFit(c, Front(fs))
<1> DEFINE gs == Front(fs)
<1>1. /\ gs \in Seq(FrameType)
      /\ Len(fs) \in Nat \ {0}
      /\ Len(gs) = Len(fs) - 1
      /\ DOMAIN fs = 1 .. Len(fs)
      /\ DOMAIN gs = 1 .. Len(fs) - 1
      /\ \A i \in DOMAIN gs : gs[i] = fs[i]
  BY PopFacts DEF FramesFit
<1> HIDE DEF gs
<1>2. DOMAIN gs \subseteq DOMAIN fs
  BY <1>1
<1>3. gs # <<>> => 1 \in DOMAIN gs
  BY <1>1, EmptySeq, LenProperties
<1>4. FramesFit(c, gs)
  BY <1>1, <1>2, <1>3 DEF FramesFit
<1>5. QED
  BY <1>4 DEF gs

(* The end of an inner block: its construct's done block comes next, and   *)
(* the block the builder was at, the else block of an if too, is closed.   *)
LEMMA BuiltLeave ==
  ASSUME NEW c, NEW k, NEW fs, Built(c, k, fs),
         fs # <<>>, Last(fs).kind # "body",
         NEW d \in Blocks, Grows(c, d, {k, Last(fs).next}),
         Inside(d, Len(d)), DOMAIN d = DOMAIN c,
         \A b \in DOMAIN c : IsOpen(d, b) =>
            /\ IsOpen(c, b)
            /\ b # k
            /\ Last(fs).kind = "then" => b # Last(fs).next
  PROVE  Built(d, Last(fs).done, Front(fs))
<1> DEFINE n == Len(fs)
           gs == Front(fs)
           top == Last(fs)
<1>1. c \in Blocks /\ FramesFit(c, fs) /\ fs \in Seq(FrameType)
  BY DEF Built, FramesFit
<1>2. /\ gs \in Seq(FrameType)
      /\ n \in Nat \ {0}
      /\ Len(gs) = n - 1
      /\ DOMAIN fs = 1 .. n
      /\ DOMAIN gs = 1 .. n - 1
      /\ top = fs[n]
      /\ \A i \in DOMAIN gs : gs[i] = fs[i]
  BY <1>1, PopFacts
<1>3. n > 1
  BY <1>1, <1>2 DEF FramesFit
<1> HIDE DEF n, gs, top
<1>4. n \in DOMAIN fs /\ DOMAIN gs \subseteq DOMAIN fs
  BY <1>2, <1>3
<1>5. /\ top.next \in DOMAIN c
      /\ top.done \in DOMAIN c
      /\ top.next <= top.done
  BY <1>1, <1>2, <1>3, <1>4 DEF FramesFit
<1>6. /\ DOMAIN c \subseteq Nat
      /\ fs[1].kind = "body"
  BY <1>1, LenProperties DEF Blocks, FramesFit
<1>7. \A i \in DOMAIN gs : i > 1 =>
         /\ gs[i] = fs[i]
         /\ fs[i].next \in DOMAIN c
         /\ fs[i].next < top.next
         /\ fs[i].next < top.done
  <2>1. TAKE i \in DOMAIN gs
  <2>2. HAVE i > 1
  <2>3. /\ gs[i] = fs[i]
        /\ fs[i].next \in DOMAIN c /\ fs[i].done \in DOMAIN c
        /\ fs[i].next <= fs[i].done
    BY <1>1, <1>2, <1>4, <2>2 DEF FramesFit
  <2>4. i < n
    BY <1>2
  <2>5. fs[i].done < top.next
    BY <1>1, <1>2, <1>4, <2>2, <2>4 DEF FramesFit
  <2>6. QED
    BY <1>5, <1>6, <2>3, <2>5
<1>8. FramesFit(d, gs)
  <2>1. FramesFit(c, gs)
    BY <1>1, FramesPop DEF gs
  <2>2. QED
    BY <1>1, <2>1, FramesKeep
<1>9. ASSUME NEW b \in DOMAIN d, IsOpen(d, b)
      PROVE  gs # <<>> /\ (b = top.done \/ Owed(gs, b))
  <2>1. gs # <<>>
    BY <1>2, <1>3, EmptySeq
  <2>2. Owed(fs, b) /\ (top.kind = "then" => b # top.next)
    BY <1>9 DEF Built, top
  <2>3. PICK i \in DOMAIN fs : /\ i > 1
                               /\ \/ b = fs[i].done
                                  \/ fs[i].kind = "then" /\ b = fs[i].next
    BY <2>2 DEF Owed
  <2>4. CASE i = n
    BY <1>2, <2>1, <2>2, <2>3, <2>4
  <2>5. CASE i # n
    <3>1. i \in DOMAIN gs
      BY <1>2, <2>5
    <3>2. Owed(gs, b)
      BY <1>2, <2>3, <3>1 DEF Owed
    <3>3. QED
      BY <2>1, <3>2
  <2>6. QED
    BY <2>4, <2>5
<1>10. ASSUME NEW i \in DOMAIN gs, i > 1, gs[i].kind = "then"
       PROVE  IsOpen(d, gs[i].next) /\ top.done # gs[i].next
  <2>1. IsOpen(c, fs[i].next) /\ k # fs[i].next
    BY <1>2, <1>4, <1>10 DEF Built
  <2>2. fs[i].next # top.next /\ fs[i].next # top.done
    BY <1>5, <1>6, <1>7, <1>10
  <2>3. d[fs[i].next] = c[fs[i].next]
    BY <1>7, <1>10, <2>1, <2>2 DEF Grows, top
  <2>4. QED
    BY <1>7, <1>10, <2>1, <2>2, <2>3 DEF IsOpen
<1>11. ASSUME gs # <<>>, Last(gs).kind = "elif", top.done = Last(gs).next
       PROVE  FALSE
  <2>1. /\ Last(gs) = gs[Len(gs)] /\ Len(gs) \in Nat \ {0}
        /\ Len(gs) \in DOMAIN gs
    BY <1>2, <1>11, PopFacts
  <2>2. Len(gs) > 1
    BY <1>2, <1>6, <1>11, <2>1
  <2>3. Last(gs).next < top.done
    BY <1>7, <2>1, <2>2
  <2>4. QED
    BY <1>5, <1>6, <1>11, <2>3
<1>12. QED
  BY <1>5, <1>8, <1>9, <1>10, <1>11 DEF Built, gs, top

(* Function c has become d, with the builder going on in block n: the      *)
(* blocks of construct f are new, they and block n are the only new ones   *)
(* that are open, and the block k the builder was at is closed.            *)
Enters(c, k, d, n, f) ==
  /\ d \in Blocks
  /\ Grows(c, d, {k})
  /\ Inside(d, Len(d))
  /\ f \in FrameType
  /\ f.kind \notin {"body", "elif"}
  /\ f.next > Len(c)
  /\ f.next <= f.done
  /\ f.done \in DOMAIN d
  /\ n \in DOMAIN d
  /\ n > Len(c)
  /\ f.kind = "then" => /\ f.next < f.done
                        /\ IsOpen(d, f.next)
                        /\ n # f.next
  /\ \A b \in DOMAIN d : IsOpen(d, b) =>
       \/ b = n
       \/ b = f.done
       \/ f.kind = "then" /\ b = f.next
       \/ b \in DOMAIN c /\ b # k /\ IsOpen(c, b)

(* A construct is entered.                                                 *)
LEMMA BuiltEnter ==
  ASSUME NEW c, NEW k, NEW fs, Built(c, k, fs), fs # <<>>,
         NEW d, NEW n, NEW f, Enters(c, k, d, n, f)
  PROVE  Built(d, n, Append(fs, f))
<1> USE DEF Enters
<1> DEFINE m == Len(fs) + 1
           gs == Append(fs, f)
<1>1. c \in Blocks /\ FramesFit(c, fs) /\ fs \in Seq(FrameType)
  BY DEF Built, FramesFit
<1>2. /\ gs \in Seq(FrameType)
      /\ gs # <<>>
      /\ m \in Nat \ {0}
      /\ DOMAIN fs = 1 .. Len(fs)
      /\ Len(fs) \in Nat \ {0}
      /\ DOMAIN gs = 1 .. m
      /\ Len(gs) = m
      /\ gs[m] = f
      /\ \A i \in DOMAIN fs : gs[i] = fs[i]
  BY <1>1, PushFacts, PopFacts
<1>3. Last(gs) = f
  BY <1>2, PopFacts
<1>4. /\ DOMAIN fs \subseteq DOMAIN gs
      /\ m \in DOMAIN gs /\ m > 1
      /\ \A i \in DOMAIN gs : i \in DOMAIN fs \/ i = m
  BY <1>2
<1> HIDE DEF gs, m
<1>5. FramesFit(d, fs) /\ DOMAIN c \subseteq DOMAIN d
  BY <1>1, FramesKeep
<1>6. /\ DOMAIN c = 1 .. Len(c) /\ Len(c) \in Nat
      /\ DOMAIN d = 1 .. Len(d) /\ Len(d) \in Nat
      /\ f.next \in Nat /\ f.done \in Nat
  BY <1>1, LenProperties DEF Blocks, FrameType
<1>7. f.next \in DOMAIN d
  BY <1>6
<1>8. FramesFit(d, gs)
  <2>1. gs[1].kind = "body"
    <3>1. 1 \in DOMAIN fs
      BY <1>2
    <3>2. QED
      BY <3>1, <1>1, <1>2 DEF FramesFit
  <2>2. ASSUME NEW i \in DOMAIN gs, i > 1
        PROVE  /\ gs[i].kind # "body"
               /\ gs[i].next \in DOMAIN d
               /\ gs[i].done \in DOMAIN d
               /\ gs[i].next <= gs[i].done
               /\ gs[i].kind \in {"then", "elif"} => gs[i].next < gs[i].done
    <3>1. CASE i \in DOMAIN fs
      BY <1>2, <1>5, <2>2, <3>1 DEF FramesFit
    <3>2. CASE i = m
      BY <1>2, <1>7, <3>2
    <3>3. QED
      BY <1>4, <3>1, <3>2
  <2>3. ASSUME NEW i \in DOMAIN gs, NEW j \in DOMAIN gs, i > 1, i < j
        PROVE  gs[i].done < gs[j].next
    <3>1. i \in DOMAIN fs
      BY <1>2, <2>3 DEF m
    <3>2. CASE j \in DOMAIN fs
      BY <1>2, <1>5, <2>3, <3>1, <3>2 DEF FramesFit
    <3>3. CASE j = m
      <4>1. gs[i].done \in DOMAIN c
        BY <1>1, <1>2, <2>3, <3>1 DEF FramesFit
      <4>2. QED
        BY <1>2, <1>6, <3>3, <4>1
    <3>4. QED
      BY <1>4, <3>2, <3>3
  <2>4. QED
    BY <1>2, <2>1, <2>2, <2>3 DEF FramesFit
<1>9. ASSUME NEW b \in DOMAIN d, IsOpen(d, b)
      PROVE  b = n \/ Owed(gs, b)
  <2>1. CASE b = f.done \/ (f.kind = "then" /\ b = f.next)
    BY <1>2, <1>4, <2>1 DEF Owed
  <2>2. CASE b \in DOMAIN c /\ b # k /\ IsOpen(c, b)
    <3>1. PICK i \in DOMAIN fs : /\ i > 1
                                 /\ \/ b = fs[i].done
                                    \/ fs[i].kind = "then" /\ b = fs[i].next
      BY <2>2 DEF Built, Owed
    <3>2. QED
      BY <1>2, <1>4, <3>1 DEF Owed
  <2>3. QED
    BY <1>9, <2>1, <2>2
<1>10. ASSUME NEW i \in DOMAIN gs, i > 1, gs[i].kind = "then"
       PROVE  IsOpen(d, gs[i].next) /\ n # gs[i].next
  <2>1. CASE i = m
    BY <1>2, <1>10, <2>1
  <2>2. CASE i \in DOMAIN fs
    <3>1. /\ gs[i] = fs[i]
          /\ fs[i].next \in DOMAIN c
          /\ IsOpen(c, fs[i].next)
          /\ k # fs[i].next
      BY <1>1, <1>2, <1>10, <2>2 DEF Built, FramesFit
    <3>2. d[fs[i].next] = c[fs[i].next]
      BY <3>1 DEF Grows
    <3>3. n # fs[i].next
      BY <1>6, <3>1
    <3>4. QED
      BY <3>1, <3>2, <3>3 DEF IsOpen
  <2>3. QED
    BY <1>4, <2>1, <2>2
<1>11. QED
  BY <1>2, <1>3, <1>8, <1>9, <1>10 DEF Built, gs

(* From the then block to the else block: the construct stays, its next    *)
(* block is the builder's now.                                             *)
LEMMA BuiltSwap ==
  ASSUME NEW c, NEW k, NEW fs, Built(c, k, fs),
         fs # <<>>, Last(fs).kind = "then",
         NEW d \in Blocks, Grows(c, d, {k}),
         Inside(d, Len(d)), DOMAIN d = DOMAIN c,
         \A b \in DOMAIN c : IsOpen(d, b) => IsOpen(c, b) /\ b # k,
         NEW f \in FrameType, f.kind \in {"else", "elif"},
         f.done = Last(fs).done,
         \/ f.next = Last(fs).next
         \/ f.kind = "else" /\ f.next = Last(fs).done
  PROVE  Built(d, Last(fs).next, Append(Front(fs), f))
<1> DEFINE n == Len(fs)
           gs == Append(Front(fs), f)
           top == Last(fs)
<1>1. c \in Blocks /\ FramesFit(c, fs) /\ fs \in Seq(FrameType)
  BY DEF Built, FramesFit
<1>2. /\ Front(fs) \in Seq(FrameType)
      /\ n \in Nat \ {0}
      /\ Len(Front(fs)) = n - 1
      /\ DOMAIN fs = 1 .. n
      /\ n \in DOMAIN fs
      /\ DOMAIN Front(fs) = 1 .. n - 1
      /\ top = fs[n]
      /\ \A i \in DOMAIN Front(fs) : Front(fs)[i] = fs[i]
  BY <1>1, PopFacts
<1>3. /\ gs \in Seq(FrameType)
      /\ gs # <<>>
      /\ Len(gs) = n - 1 + 1
      /\ DOMAIN gs = 1 .. n - 1 + 1
      /\ gs[n - 1 + 1] = f
      /\ \A i \in DOMAIN Front(fs) : gs[i] = Front(fs)[i]
  BY <1>2, PushFacts
<1>4. /\ n - 1 + 1 = n
      /\ \A i \in 1 .. n : i = n \/ i \in 1 .. n - 1
  BY <1>2
<1>5. /\ Len(gs) = n
      /\ DOMAIN gs = DOMAIN fs
      /\ gs[n] = f
      /\ \A i \in DOMAIN fs : i # n => gs[i] = fs[i]
  BY <1>2, <1>3, <1>4
<1>6. Last(gs) = f
  BY <1>3, <1>5, PopFacts
<1> HIDE DEF n, gs
<1>7. n > 1
  BY <1>1, <1>2 DEF FramesFit
<1> HIDE DEF top
<1>8. /\ top.kind = "then" /\ f.done = top.done
      /\ f.next = top.next \/ (f.kind = "else" /\ f.next = top.done)
  BY DEF top
<1>9. /\ top.next \in DOMAIN c
      /\ top.done \in DOMAIN c
      /\ top.next < top.done
      /\ IsOpen(c, top.next)
      /\ k # top.next
  BY <1>1, <1>2, <1>7, <1>8 DEF Built, FramesFit
<1>10. DOMAIN c \subseteq Nat
  BY <1>1, LenProperties DEF Blocks
<1>11. /\ f.next \in DOMAIN d
       /\ f.done \in DOMAIN d
       /\ top.next <= f.next
       /\ f.next <= f.done
       /\ f.kind = "elif" => f.next < f.done
  BY <1>8, <1>9, <1>10
<1>12. FramesFit(d, gs)
  <2>1. 1 \in DOMAIN fs /\ gs[1] = fs[1]
    BY <1>2, <1>5, <1>7
  <2>2. gs[1].kind = "body"
    BY <1>1, <2>1 DEF FramesFit
  <2>3. ASSUME NEW i \in DOMAIN gs, i > 1
        PROVE  /\ gs[i].kind # "body"
               /\ gs[i].next \in DOMAIN d
               /\ gs[i].done \in DOMAIN d
               /\ gs[i].next <= gs[i].done
               /\ gs[i].kind \in {"then", "elif"} => gs[i].next < gs[i].done
    <3>1. CASE i = n
      BY <1>5, <1>11, <3>1
    <3>2. CASE i # n
      BY <1>1, <1>5, <2>3, <3>2 DEF FramesFit
    <3>3. QED
      BY <3>1, <3>2
  <2>4. ASSUME NEW i \in DOMAIN gs, NEW j \in DOMAIN gs, i > 1, i < j
        PROVE  gs[i].done < gs[j].next
    <3>1. i \in DOMAIN fs /\ j \in DOMAIN fs /\ i # n
      BY <1>2, <1>5, <2>4
    <3>2. fs[i].done < fs[j].next /\ fs[i].done \in Nat
      BY <1>1, <1>10, <2>4, <3>1 DEF FramesFit
    <3>3. CASE j # n
      BY <1>5, <3>1, <3>2, <3>3
    <3>4. CASE j = n
      BY <1>2, <1>5, <1>9, <1>10, <1>11, <3>1, <3>2, <3>4
    <3>5. QED
      BY <3>3, <3>4
  <2>5. QED
    BY <1>3, <2>2, <2>3, <2>4 DEF FramesFit
<1>13. ASSUME NEW b \in DOMAIN d, IsOpen(d, b)
       PROVE  b = top.next \/ Owed(gs, b)
  <2>1. PICK i \in DOMAIN fs : /\ i > 1
                               /\ \/ b = fs[i].done
                                  \/ fs[i].kind = "then" /\ b = fs[i].next
    BY <1>13 DEF Built, Owed
  <2>2. CASE i = n
    BY <1>2, <1>5, <1>8, <2>1, <2>2 DEF Owed
  <2>3. CASE i # n
    BY <1>5, <2>1, <2>3 DEF Owed
  <2>4. QED
    BY <2>2, <2>3
<1>14. IsOpen(d, top.next)
  <2>1. d[top.next] = c[top.next]
    BY <1>9 DEF Grows
  <2>2. QED
    BY <1>9, <2>1 DEF IsOpen
<1>15. ASSUME NEW i \in DOMAIN gs, i > 1, gs[i].kind = "then"
       PROVE  IsOpen(d, gs[i].next) /\ top.next # gs[i].next
  <2>1. i # n /\ gs[i] = fs[i] /\ i \in DOMAIN fs
    BY <1>5, <1>15
  <2>2. /\ fs[i].next \in DOMAIN c
        /\ fs[i].done \in DOMAIN c
        /\ fs[i].next < fs[i].done
        /\ IsOpen(c, fs[i].next)
        /\ k # fs[i].next
    BY <1>1, <1>15, <2>1 DEF Built, FramesFit
  <2>3. fs[i].done < top.next
    <3>1. i < n /\ n \in DOMAIN fs
      BY <1>2, <2>1
    <3>2. fs[i].done < fs[n].next
      BY ONLY <1>1, <1>15, <2>1, <3>1 DEF FramesFit
    <3>3. QED
      BY <1>2, <3>2
  <2>4. d[fs[i].next] = c[fs[i].next]
    BY <2>2 DEF Grows
  <2>5. fs[i].next # top.next
    BY <1>9, <1>10, <2>2, <2>3
  <2>6. QED
    BY <2>1, <2>2, <2>4, <2>5 DEF IsOpen
<1>16. QED
  BY <1>3, <1>6, <1>9, <1>12, <1>13, <1>14, <1>15 DEF Built, gs, top

(* The end of the body: nothing is owed any more.                          *)
LEMMA BuiltEnd ==
  ASSUME NEW c, NEW k, NEW fs, Built(c, k, fs),
         fs # <<>>, Last(fs).kind = "body",
         NEW d \in Blocks, Inside(d, Len(d)), DOMAIN d = DOMAIN c,
         \A b \in DOMAIN c : IsOpen(d, b) => IsOpen(c, b) /\ b # k
  PROVE  /\ Built(d, k, <<>>)
         /\ Len(fs) = 1
<1>1. c \in Blocks /\ FramesFit(c, fs) /\ fs \in Seq(FrameType)
  BY DEF Built, FramesFit
<1>2. /\ Len(fs) \in Nat \ {0}
      /\ DOMAIN fs = 1 .. Len(fs)
      /\ Len(fs) \in DOMAIN fs
      /\ Last(fs) = fs[Len(fs)]
  BY <1>1, PopFacts
<1>3. Len(fs) = 1
  BY <1>1, <1>2 DEF FramesFit
<1>4. \A b : ~Owed(fs, b)
  BY <1>2, <1>3 DEF Owed
<1>5. \A b \in DOMAIN d : ~IsOpen(d, b)
  BY <1>4 DEF Built
<1>6. <<>> \in Seq(FrameType) /\ DOMAIN <<>> = {}
  BY EmptySeq
<1>7. FramesFit(d, <<>>)
  BY <1>6 DEF FramesFit
<1>8. QED
  BY <1>3, <1>5, <1>6, <1>7 DEF Built

-----------------------------------------------------------------------------
(* Scopes a construct opens: a for has one more for its variable, and the  *)
(* nested if of an else branch is emitted without one around it.           *)
Opens(kind) == IF kind = "for" THEN 2 ELSE IF kind = "elif" THEN 0 ELSE 1

(* The number of scopes open inside call i when n are open inside the      *)
(* innermost one: the done block of the next call stands at that place.    *)
Depth(c, fs, n, i) ==
  IF i = Len(fs) THEN n ELSE Len(c[fs[i + 1].done].path)

(* A function's body has two scopes and every construct opens its own.     *)
ScopesFit(c, fs, n) ==
  /\ n \in Nat
  /\ fs = <<>> => n = 0
  /\ fs # <<>> => Depth(c, fs, n, 1) = 2
  /\ \A i \in DOMAIN fs :
       /\ Depth(c, fs, n, i) >= 2
       /\ i > 1 => Depth(c, fs, n, i)
                     = Depth(c, fs, n, i - 1) + Opens(fs[i].kind)

(* Blocks stay at their place, so the scopes around the calls stay.        *)
LEMMA ScopesKeep ==
  ASSUME NEW c \in Blocks, NEW d \in Blocks, NEW B, Grows(c, d, B),
         NEW fs, FramesFit(c, fs), NEW n, ScopesFit(c, fs, n)
  PROVE  /\ ScopesFit(d, fs, n)
         /\ \A i \in DOMAIN fs : /\ Depth(d, fs, n, i) = Depth(c, fs, n, i)
                                 /\ Depth(c, fs, n, i) \in Nat
<1>1. Len(fs) \in Nat /\ DOMAIN fs = 1 .. Len(fs)
  BY LenProperties DEF FramesFit
<1>2. ASSUME NEW i \in DOMAIN fs
      PROVE  /\ Depth(d, fs, n, i) = Depth(c, fs, n, i)
             /\ Depth(c, fs, n, i) \in Nat
  <2>1. CASE i = Len(fs)
    BY <2>1 DEF Depth, ScopesFit
  <2>2. CASE i # Len(fs)
    <3>1. i + 1 \in DOMAIN fs /\ i + 1 > 1
      BY <1>1, <2>2
    <3>2. fs[i + 1].done \in DOMAIN c
      BY <3>1 DEF FramesFit
    <3>3. d[fs[i + 1].done].path = c[fs[i + 1].done].path
      BY <3>2 DEF Grows
    <3>4. Len(c[fs[i + 1].done].path) \in Nat
      BY <3>2, BlockParts, LenProperties
    <3>5. QED
      BY <2>2, <3>3, <3>4 DEF Depth
  <2>3. QED
    BY <2>1, <2>2
<1>3. fs # <<>> => 1 \in DOMAIN fs
  BY <1>1, EmptySeq DEF FramesFit
<1>4. \A i \in DOMAIN fs : i > 1 => i - 1 \in DOMAIN fs
  BY <1>1
<1>5. fs # <<>> => Depth(d, fs, n, 1) = 2
  BY <1>2, <1>3 DEF ScopesFit
<1>6. ASSUME NEW i \in DOMAIN fs
      PROVE  /\ Depth(d, fs, n, i) >= 2
             /\ i > 1 => Depth(d, fs, n, i)
                           = Depth(d, fs, n, i - 1) + Opens(fs[i].kind)
  BY <1>2, <1>4 DEF ScopesFit
<1>7. QED
  BY <1>2, <1>5, <1>6 DEF ScopesFit

(* A construct is entered with n scopes open around it.                    *)
LEMMA ScopesEnter ==
  ASSUME NEW c \in Blocks, NEW d \in Blocks, NEW B, Grows(c, d, B),
         NEW fs, fs # <<>>, FramesFit(c, fs), NEW n, ScopesFit(c, fs, n),
         NEW f \in FrameType, f.kind # "body", Len(d[f.done].path) = n
  PROVE  /\ ScopesFit(d, Append(fs, f), n + Opens(f.kind))
         /\ n >= 2
<1> DEFINE m == Len(fs)
           gs == Append(fs, f)
           p == n + Opens(f.kind)
<1>1. /\ gs \in Seq(FrameType)
      /\ gs # <<>>
      /\ m \in Nat
      /\ Len(gs) = m + 1
      /\ DOMAIN fs = 1 .. m
      /\ DOMAIN gs = 1 .. m + 1
      /\ \A i \in DOMAIN fs : gs[i] = fs[i]
      /\ gs[m + 1] = f
  BY PushFacts DEF FramesFit
<1>2. m \in Nat \ {0}
  BY EmptySeq DEF FramesFit
<1>3. n \in Nat /\ Opens(f.kind) \in {0, 1, 2} /\ p \in Nat /\ p >= n
  BY DEF ScopesFit, Opens
<1> HIDE DEF m, gs, p
<1>4. \A i \in DOMAIN fs : /\ Depth(d, fs, n, i) = Depth(c, fs, n, i)
                           /\ Depth(c, fs, n, i) \in Nat
  BY ScopesKeep
<1>5. ScopesFit(d, fs, n)
  BY ScopesKeep
<1>6. Depth(d, gs, p, m + 1) = p
  BY <1>1 DEF Depth
<1>7. ASSUME NEW i \in DOMAIN fs
      PROVE  Depth(d, gs, p, i) = Depth(d, fs, n, i)
  <2>1. i # m + 1 /\ i \in DOMAIN gs
    BY <1>1
  <2>2. Depth(d, gs, p, i) = Len(d[gs[i + 1].done].path)
    BY <1>1, <2>1 DEF Depth
  <2>3. CASE i = m
    <3>1. Depth(d, fs, n, i) = n
      BY <2>3 DEF Depth, m
    <3>2. QED
      BY <1>1, <2>2, <2>3, <3>1
  <2>4. CASE i # m
    <3>1. i + 1 \in DOMAIN fs
      BY <1>1, <2>4
    <3>2. Depth(d, fs, n, i) = Len(d[fs[i + 1].done].path)
      BY <2>4 DEF Depth, m
    <3>3. QED
      BY <1>1, <2>2, <3>1, <3>2
  <2>5. QED
    BY <2>3, <2>4
<1>8. 1 \in DOMAIN fs /\ m \in DOMAIN fs
  BY <1>1, <1>2
<1>9. Depth(d, gs, p, 1) = 2
  BY <1>5, <1>7, <1>8 DEF ScopesFit
<1>10. Depth(d, fs, n, m) = n
  BY DEF Depth, m
<1>11. n >= 2
  BY <1>5, <1>8, <1>10 DEF ScopesFit
<1>12. ASSUME NEW i \in DOMAIN gs
       PROVE  /\ Depth(d, gs, p, i) >= 2
              /\ i > 1 => Depth(d, gs, p, i)
                            = Depth(d, gs, p, i - 1) + Opens(gs[i].kind)
  <2>1. CASE i \in DOMAIN fs
    <3>1. i > 1 => i - 1 \in DOMAIN fs
      BY <1>1, <2>1
    <3>2. QED
      BY <1>1, <1>5, <1>7, <2>1, <3>1 DEF ScopesFit
  <2>2. CASE i = m + 1
    <3>1. i - 1 = m /\ gs[i] = f
      BY <1>1, <2>2
    <3>2. Depth(d, gs, p, i) = p /\ Depth(d, gs, p, m) = n
      BY <1>6, <1>7, <1>8, <1>10, <2>2
    <3>3. QED
      BY <1>3, <1>11, <3>1, <3>2 DEF p
  <2>3. QED
    BY <1>1, <2>1, <2>2
<1>13. ScopesFit(d, gs, p)
  BY <1>1, <1>3, <1>9, <1>12 DEF ScopesFit
<1>14. QED
  BY <1>11, <1>13 DEF gs, p

(* A construct is left: its scopes are closed.                             *)
LEMMA ScopesLeave ==
  ASSUME NEW c \in Blocks, NEW d \in Blocks, NEW B, Grows(c, d, B),
         NEW fs, fs # <<>>, FramesFit(c, fs), NEW n, ScopesFit(c, fs, n),
         Last(fs).kind # "body"
  PROVE  /\ ScopesFit(d, Front(fs), n - Opens(Last(fs).kind))
         /\ n - Opens(Last(fs).kind) >= 2
         /\ Len(d[Last(fs).done].path) = n - Opens(Last(fs).kind)
<1> DEFINE m == Len(fs)
           gs == Front(fs)
           p == n - Opens(Last(fs).kind)
<1>1. /\ gs \in Seq(FrameType)
      /\ m \in Nat \ {0}
      /\ Len(gs) = m - 1
      /\ DOMAIN fs = 1 .. m
      /\ m \in DOMAIN fs
      /\ DOMAIN gs = 1 .. m - 1
      /\ Last(fs) = fs[m]
      /\ \A i \in DOMAIN gs : gs[i] = fs[i]
  BY PopFacts DEF FramesFit
<1>2. n \in Nat /\ Opens(Last(fs).kind) \in {0, 1, 2} /\ p \in Int
      /\ p + Opens(Last(fs).kind) = n
  BY DEF ScopesFit, Opens
<1>3. m > 1
  BY <1>1 DEF FramesFit
<1>4. \A i \in DOMAIN fs : /\ Depth(d, fs, n, i) = Depth(c, fs, n, i)
                           /\ Depth(c, fs, n, i) \in Nat
  BY ScopesKeep
<1>5. ScopesFit(d, fs, n)
  BY ScopesKeep
<1>6. Depth(d, fs, n, m) = n
  BY DEF Depth, m
<1> HIDE DEF m, gs, p
<1>7. m - 1 \in DOMAIN fs /\ 1 \in DOMAIN gs
  BY <1>1, <1>3
<1>8. n = Depth(d, fs, n, m - 1) + Opens(Last(fs).kind)
  BY <1>1, <1>3, <1>5, <1>6 DEF ScopesFit
<1>9. Depth(d, fs, n, m - 1) = p
  BY <1>2, <1>4, <1>7, <1>8 DEF p
<1>10. ASSUME NEW i \in DOMAIN gs
       PROVE  i \in DOMAIN fs /\ Depth(d, gs, p, i) = Depth(d, fs, n, i)
  <2>1. i \in DOMAIN fs /\ i # m
    BY <1>1
  <2>2. CASE i = m - 1
    <3>1. Depth(d, gs, p, i) = p
      BY <1>1, <2>2 DEF Depth
    <3>2. QED
      BY <1>9, <2>1, <2>2, <3>1
  <2>3. CASE i # m - 1
    <3>1. i + 1 \in DOMAIN gs
      BY <1>1, <2>1, <2>3
    <3>2. Depth(d, gs, p, i) = Len(d[gs[i + 1].done].path)
      BY <1>1, <2>3 DEF Depth
    <3>3. Depth(d, fs, n, i) = Len(d[fs[i + 1].done].path)
      BY <2>1 DEF Depth, m
    <3>4. QED
      BY <1>1, <2>1, <3>1, <3>2, <3>3
  <2>4. QED
    BY <2>2, <2>3
<1>11. Depth(d, gs, p, 1) = 2
  BY <1>5, <1>7, <1>10 DEF ScopesFit
<1>12. p >= 2 /\ p \in Nat
  BY <1>2, <1>5, <1>7, <1>9 DEF ScopesFit
<1>13. ASSUME NEW i \in DOMAIN gs
       PROVE  /\ Depth(d, gs, p, i) >= 2
              /\ i > 1 => Depth(d, gs, p, i)
                            = Depth(d, gs, p, i - 1) + Opens(gs[i].kind)
  <2>1. i > 1 => i - 1 \in DOMAIN gs
    BY <1>1
  <2>2. QED
    BY <1>1, <1>5, <1>10, <2>1 DEF ScopesFit
<1>14. gs # <<>>
  BY <1>1, <1>3, EmptySeq
<1>15. ScopesFit(d, gs, p)
  BY <1>11, <1>12, <1>13, <1>14 DEF ScopesFit
<1>16. Len(d[Last(fs).done].path) = p
  <2>1. m - 1 # m /\ m - 1 + 1 = m
    BY <1>1
  <2>2. Depth(d, fs, n, m - 1) = Len(d[fs[m].done].path)
    BY <2>1 DEF Depth, m
  <2>3. QED
    BY <1>1, <1>9, <2>2
<1>17. QED
  BY <1>12, <1>15, <1>16 DEF gs, p

(* The construct of the top call changes from then to else or elif.        *)
LEMMA ScopesSwap ==
  ASSUME NEW c \in Blocks, NEW d \in Blocks, NEW B, Grows(c, d, B),
         NEW fs, fs # <<>>, FramesFit(c, fs), NEW n, ScopesFit(c, fs, n),
         Last(fs).kind = "then",
         NEW f \in FrameType, f.kind # "body", f.done = Last(fs).done
  PROVE  /\ ScopesFit(d, Append(Front(fs), f), n - 1 + Opens(f.kind))
         /\ n - 1 >= 2
<1>1. Opens(Last(fs).kind) = 1
  BY DEF Opens
<1>2. /\ ScopesFit(d, Front(fs), n - 1)
      /\ n - 1 >= 2
      /\ Len(d[f.done].path) = n - 1
  BY <1>1, ScopesLeave
<1>3. FramesFit(d, Front(fs))
  BY FramesPop, FramesKeep
<1>4. Front(fs) # <<>>
  BY <1>2 DEF ScopesFit
<1>5. Grows(d, d, B)
  BY GrowsNothing
<1> DEFINE m == n - 1
<1> HIDE DEF m
<1>6. /\ ScopesFit(d, Front(fs), m)
      /\ Len(d[f.done].path) = m
  BY <1>2 DEF m
<1>7. ScopesFit(d, Append(Front(fs), f), m + Opens(f.kind))
  BY ONLY <1>3, <1>4, <1>5, <1>6, ScopesEnter, d \in Blocks,
          f \in FrameType, f.kind # "body"
<1>8. QED
  BY <1>2, <1>7 DEF m

=============================================================================
