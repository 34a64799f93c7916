-------------------------- MODULE DeferExecProofs ---------------------------
(***************************************************************************)
(* Proof that the code DeferCodegen emits runs deferred expressions as     *)
(* `defer' promises, for every budget of statements.  The argument is a    *)
(* typing of the emitted code: every basic block has one list of waiting   *)
(* expressions it starts with, whatever way control came there, and its    *)
(* instructions and branches agree with these lists.  The first part shows *)
(* that every statement extends the typing, the second that a run of typed *)
(* code does what the lists say.                                           *)
(***************************************************************************)
EXTENDS DeferExec, DeferCodegenSafety

(* A registered expression that waits, and what a run knows at one place:  *)
(* what waits and the scope that is being left.                            *)
Entry == [d : 1 .. Budget, scope : Nat]
Waiting == [pend : Seq(Entry), leav : Nat]

At(s, l) == [pend |-> s, leav |-> l]

IsIn(s, p) == \E j \in DOMAIN p : p[j] = s

(* w is what waits before each of the instructions `is' of a block with    *)
(* the given path, and after the last one.                                 *)
Steps(is, path, w) ==
  /\ w \in Seq(Waiting)
  /\ Len(w) = Len(is) + 1
  /\ \A k \in DOMAIN w : w[k].leav # 0 => IsIn(w[k].leav, path)
  /\ \A k \in DOMAIN is :
       \/ /\ is[k].op = "reg"
          /\ w[k].leav = 0
          /\ w[k + 1] = At(Append(w[k].pend, [d |-> is[k].d, scope |-> Last(path)]), 0)
       \/ /\ is[k].op = "run"
          /\ w[k].pend # <<>>
          /\ Last(w[k].pend).d = is[k].d
          /\ w[k + 1] = At(Front(w[k].pend), Last(w[k].pend).scope)

(* The instructions lead from the waiting list s to e.                     *)
Carries(is, path, s, e) ==
  \E w : Steps(is, path, w) /\ w[1] = At(s, 0) /\ w[Len(is) + 1] = e

(* r is what stays of s when the scopes outside p are closed.              *)
Cuts(s, p, r) ==
  \E n \in 0 .. Len(s) :
    /\ r = SubSeq(s, 1, n)
    /\ \A i \in 1 .. n : IsIn(s[i].scope, p)
    /\ \A i \in n + 1 .. Len(s) : ~IsIn(s[i].scope, p)

(* The scopes that stay open at the start of block b of the function c.    *)
Stays(c, b) ==
  IF Last(c[b].path) = b THEN Front(c[b].path) ELSE c[b].path

(* The typing: en[b] waits where block b starts, ex[b] where it ends.  A   *)
(* branch loses nothing of the scope it stands in, it does not stay in a   *)
(* scope whose expressions ran, and it loses nothing at all if break and   *)
(* continue stand directly in their loops.                                 *)
Edge(c, en, ex, b, t) ==
  /\ Cuts(ex[b].pend, Stays(c, t), en[t])
  /\ \A i \in Len(en[t]) + 1 .. Len(ex[b].pend) :
       ex[b].pend[i].scope # Last(c[b].path)
  /\ ex[b].leav # 0 => ~IsIn(ex[b].leav, Stays(c, t))
  /\ ~AnyDepth => en[t] = ex[b].pend

Typed(c, en, ex, b) ==
  /\ c[b].path # <<>>
  /\ Carries(c[b].ins, c[b].path, en[b], ex[b])
  /\ \A t \in c[b].term.to : Edge(c, en, ex, b, t)
  /\ c[b].term.op = "ret" => ex[b].pend = <<>>

Sound(c, en, ex) ==
  /\ en \in [DOMAIN c -> Seq(Entry)]
  /\ ex \in [DOMAIN c -> Waiting]
  /\ \A b \in DOMAIN c : Typed(c, en, ex, b)

-----------------------------------------------------------------------------
(* What waits at one place has the type of a place.                        *)
LEMMA AtType ==
  ASSUME NEW s \in Seq(Entry), NEW l \in Nat
  PROVE  At(s, l) \in Waiting /\ At(s, l).pend = s /\ At(s, l).leav = l
BY DEF At, Waiting

(* A block without instructions leads from a list to itself.               *)
LEMMA CarryNone ==
  ASSUME NEW path, NEW s \in Seq(Entry)
  PROVE  Carries(<<>>, path, s, At(s, 0))
<1> DEFINE e == At(s, 0)
           w == <<e>>
           is == <<>>
<1>1. e \in Waiting /\ e.leav = 0
  BY AtType
<1> HIDE DEF e
<1>2. w \in Seq(Waiting) /\ Len(w) = 1 /\ w[1] = e /\ DOMAIN w = {1}
  BY <1>1
<1>3. Len(is) = 0 /\ DOMAIN is = {} /\ Len(is) + 1 = 1
  OBVIOUS
<1> HIDE DEF w, is
<1>4. Steps(is, path, w)
  BY <1>1, <1>2, <1>3 DEF Steps
<1>5. Carries(is, path, s, e)
  BY <1>2, <1>3, <1>4 DEF Carries, e
<1>6. QED
  BY <1>5 DEF is, e

(* Two traces, the second of which starts where the first one ends, are    *)
(* one: traces are built as instructions are emitted.                      *)
LEMMA StepsJoin ==
  ASSUME NEW is \in Seq(Instr), NEW js \in Seq(Instr), NEW path,
         NEW w, Steps(is, path, w), NEW v, Steps(js, path, v),
         v[1] = w[Len(is) + 1]
  PROVE  \E u : /\ Steps(is \o js, path, u)
                /\ u[1] = w[1]
                /\ u[Len(is \o js) + 1] = v[Len(js) + 1]
<1> DEFINE ks == is \o js
           n == Len(is)
           m == Len(js)
           u == [k \in 1 .. n + m + 1 |-> IF k <= n + 1 THEN w[k] ELSE v[k - n]]
<1>1. n \in Nat /\ m \in Nat /\ DOMAIN is = 1 .. n /\ DOMAIN js = 1 .. m
  BY LenProperties
<1>2. /\ ks \in Seq(Instr) /\ Len(ks) = n + m
      /\ \A k \in 1 .. n + m : ks[k] = IF k <= n THEN is[k] ELSE js[k - n]
  BY ConcatProperties
<1>3. DOMAIN ks = 1 .. n + m
  BY <1>1, <1>2, LenProperties
<1>4. /\ w \in Seq(Waiting) /\ DOMAIN w = 1 .. n + 1
      /\ v \in Seq(Waiting) /\ DOMAIN v = 1 .. m + 1
  BY LenProperties DEF Steps
<1>5. v[1] = w[n + 1]
  OBVIOUS
<1> HIDE DEF ks, n, m
<1>6. ASSUME NEW k \in 1 .. n + m + 1
      PROVE  \/ k \in DOMAIN w /\ u[k] = w[k]
             \/ k - n \in DOMAIN v /\ u[k] = v[k - n]
  BY <1>1, <1>4
<1>7. \A k \in 1 .. n + m + 1 : u[k] \in Waiting
  <2>1. TAKE k \in 1 .. n + m + 1
  <2>2. \A j \in DOMAIN w : w[j] \in Waiting
    BY <1>1, <1>4, ElementOfSeq
  <2>3. \A j \in DOMAIN v : v[j] \in Waiting
    BY <1>1, <1>4, ElementOfSeq
  <2> HIDE DEF u
  <2>4. QED
    BY <1>6, <2>2, <2>3
<1>8. u \in [1 .. n + m + 1 -> Waiting]
  BY <1>7
<1>9. /\ u \in Seq(Waiting) /\ Len(u) = n + m + 1
      /\ DOMAIN u = 1 .. n + m + 1
  <2> HIDE DEF u
  <2>1. n + m + 1 \in Nat
    BY <1>1
  <2>2. u \in Seq(Waiting)
    BY <1>8, <2>1, SeqDef
  <2>3. QED
    BY <1>8, <2>1, <2>2, LenProperties
<1>10. \A k \in DOMAIN u : u[k].leav # 0 => IsIn(u[k].leav, path)
  <2>1. TAKE k \in DOMAIN u
  <2>2. QED
    BY <1>6, <1>9 DEF Steps
<1>11. ASSUME NEW k \in DOMAIN ks
       PROVE  \/ /\ ks[k].op = "reg"
                 /\ u[k].leav = 0
                 /\ u[k + 1] = At(Append(u[k].pend, [d |-> ks[k].d, scope |-> Last(path)]), 0)
              \/ /\ ks[k].op = "run"
                 /\ u[k].pend # <<>>
                 /\ Last(u[k].pend).d = ks[k].d
                 /\ u[k + 1] = At(Front(u[k].pend), Last(u[k].pend).scope)
  <2>1. CASE k <= n
    <3>1. k \in DOMAIN is /\ ks[k] = is[k] /\ u[k] = w[k] /\ u[k + 1] = w[k + 1]
      BY <1>1, <1>2, <1>3, <2>1
    <3> HIDE DEF u
    <3>2. QED
      BY <3>1 DEF Steps
  <2>2. CASE ~(k <= n)
    <3> DEFINE j == k - n
    <3>1. j \in DOMAIN js /\ ks[k] = js[j]
      BY <1>1, <1>2, <1>3, <2>2
    <3>2. u[k] = v[j]
      <4>1. CASE k = n + 1
        BY <1>1, <1>3, <1>5, <4>1
      <4>2. CASE k # n + 1
        BY <1>1, <1>3, <2>2, <4>2
      <4>3. QED
        BY <4>1, <4>2
    <3>3. u[k + 1] = v[j + 1]
      BY <1>1, <1>3, <2>2
    <3> HIDE DEF u, j
    <3>4. QED
      BY <3>1, <3>2, <3>3 DEF Steps
  <2>3. QED
    BY <2>1, <2>2
<1>12. /\ u[1] = w[1]
       /\ u[Len(ks) + 1] = v[m + 1]
  <2>1. u[1] = w[1]
    BY <1>1
  <2>2. u[n + m + 1] = v[m + 1]
    BY <1>1, <1>5
  <2>3. QED
    BY <1>2, <2>1, <2>2
<1> HIDE DEF u
<1>13. Steps(ks, path, u)
  BY <1>2, <1>9, <1>10, <1>11 DEF Steps
<1>14. QED
  BY <1>12, <1>13 DEF ks, m

(* So a block that leads from s to e leads on as its instructions do.      *)
LEMMA CarryOn ==
  ASSUME NEW is \in Seq(Instr), NEW js \in Seq(Instr), NEW path, NEW s, NEW e,
         Carries(is, path, s, e),
         NEW v, Steps(js, path, v), v[1] = e
  PROVE  Carries(is \o js, path, s, v[Len(js) + 1])
<1>1. PICK w : Steps(is, path, w) /\ w[1] = At(s, 0) /\ w[Len(is) + 1] = e
  BY DEF Carries
<1>2. PICK u : /\ Steps(is \o js, path, u)
               /\ u[1] = w[1]
               /\ u[Len(is \o js) + 1] = v[Len(js) + 1]
  BY <1>1, StepsJoin
<1>3. QED
  BY <1>1, <1>2 DEF Carries

(* A defer statement: its expression waits, last.                          *)
LEMMA CarryReg ==
  ASSUME NEW is \in Seq(Instr), NEW path, NEW s, NEW e \in Seq(Entry),
         Carries(is, path, s, At(e, 0)),
         NEW d \in 1 .. Budget, Last(path) \in Nat
  PROVE  Carries(is \o <<[op |-> "reg", d |-> d]>>, path, s,
                 At(Append(e, [d |-> d, scope |-> Last(path)]), 0))
<1> DEFINE x == [d |-> d, scope |-> Last(path)]
           a == At(e, 0)
           b == At(Append(e, x), 0)
           r == [op |-> "reg", d |-> d]
           js == <<r>>
           v == <<a, b>>
<1>1. x \in Entry /\ r \in Instr /\ r.op = "reg" /\ r.d = d
  BY DEF Entry, Instr
<1>2. /\ a \in Waiting /\ a.leav = 0 /\ a.pend = e
  BY AtType
<1>3. b \in Waiting /\ b.leav = 0
  BY <1>1, AtType, PushFacts
<1>4. b = At(Append(a.pend, [d |-> r.d, scope |-> Last(path)]), 0)
  BY <1>1, <1>2
<1> HIDE DEF a, b, r
<1>5. js \in Seq(Instr) /\ Len(js) = 1 /\ js[1] = r /\ DOMAIN js = {1}
  BY <1>1
<1>6. /\ v \in Seq(Waiting) /\ Len(v) = 2 /\ v[1] = a /\ v[2] = b
      /\ DOMAIN v = {1, 2}
  BY <1>2, <1>3
<1> HIDE DEF js, v
<1>7. Steps(js, path, v)
  BY <1>1, <1>2, <1>3, <1>4, <1>5, <1>6 DEF Steps
<1>8. Carries(is, path, s, a)
  BY DEF a
<1>9. Carries(is \o js, path, s, v[Len(js) + 1])
  BY <1>5, <1>6, <1>7, <1>8, CarryOn
<1>10. v[Len(js) + 1] = b
  BY <1>5, <1>6
<1>11. QED
  BY <1>9, <1>10 DEF js, b, r

(* What waits of e when the calls of its newest expressions are emitted    *)
(* down to count m, and the calls themselves.                              *)
Down(e, m) ==
  At(SubSeq(e, 1, m), IF m = Len(e) THEN 0 ELSE e[m + 1].scope)

Calls(rs, e, m) ==
  /\ rs \in Seq(Instr)
  /\ Len(rs) = Len(e) - m
  /\ \A i \in DOMAIN rs : rs[i].op = "run" /\ rs[i].d = e[Len(e) + 1 - i].d

(* An entry of a waiting list has its type.                                *)
LEMMA EntryType ==
  ASSUME NEW e \in Seq(Entry), NEW i \in 1 .. Len(e)
  PROVE  e[i] \in Entry /\ e[i].d \in 1 .. Budget /\ e[i].scope \in Nat
<1>1. e[i] \in Entry
  BY ElementOfSeq
<1>2. QED
  BY <1>1 DEF Entry

(* The parts of what is left.                                              *)
LEMMA DownFacts ==
  ASSUME NEW e \in Seq(Entry), NEW m \in 0 .. Len(e)
  PROVE  /\ Down(e, m) \in Waiting
         /\ Down(e, m).pend = SubSeq(e, 1, m)
         /\ m = Len(e) => Down(e, m) = At(e, 0)
         /\ m # Len(e) => Down(e, m).leav = e[m + 1].scope
<1>1. SubSeq(e, 1, m) \in Seq(Entry)
  BY PrefixFacts
<1>2. Len(e) \in Nat
  BY LenProperties
<1>3. CASE m = Len(e)
  <2>1. SubSeq(e, 1, m) = e
    BY <1>3, SubSeqFull
  <2>2. Down(e, m) = At(e, 0)
    BY <1>3, <2>1 DEF Down
  <2>3. QED
    BY <1>3, <2>1, <2>2, AtType
<1>4. CASE m # Len(e)
  <2>1. m + 1 \in 1 .. Len(e)
    BY <1>2, <1>4
  <2> DEFINE l == e[m + 1].scope
             p == SubSeq(e, 1, m)
  <2>2. l \in Nat
    BY <2>1, EntryType
  <2>3. Down(e, m) = At(p, l)
    BY <1>4 DEF Down
  <2> HIDE DEF l, p
  <2>4. /\ Down(e, m) \in Waiting
        /\ Down(e, m).pend = p
        /\ Down(e, m).leav = l
    <3>1. p \in Seq(Entry)
      BY <1>1 DEF p
    <3>2. QED
      BY <2>2, <2>3, <3>1, AtType
  <2>5. QED
    BY <1>4, <2>4 DEF l, p
<1>5. QED
  BY <1>3, <1>4

(* Calls emitted at the end of a block run its waiting expressions, newest *)
(* first.                                                                  *)
LEMMA CarryRuns ==
  ASSUME NEW is \in Seq(Instr), NEW path, NEW s, NEW e \in Seq(Entry),
         NEW m \in 0 .. Len(e), NEW rs, Calls(rs, e, m),
         Carries(is, path, s, At(e, 0)),
         \A i \in DOMAIN e : IsIn(e[i].scope, path)
  PROVE  Carries(is \o rs, path, s, Down(e, m))
<1> DEFINE n == Len(e) - m
           v == [k \in 1 .. n + 1 |-> Down(e, Len(e) + 1 - k)]
<1>1. /\ Len(e) \in Nat /\ DOMAIN e = 1 .. Len(e) /\ n \in Nat /\ m \in Nat
      /\ rs \in Seq(Instr) /\ Len(rs) = n /\ DOMAIN rs = 1 .. n
  <2>1. Len(e) \in Nat /\ DOMAIN e = 1 .. Len(e)
    BY LenProperties
  <2>2. rs \in Seq(Instr) /\ Len(rs) = n
    BY DEF Calls
  <2>3. DOMAIN rs = 1 .. n
    BY <2>2, LenProperties
  <2>4. QED
    BY <2>1, <2>2, <2>3
<1>2. \A k \in 1 .. n + 1 : Len(e) + 1 - k \in 0 .. Len(e)
  BY <1>1
<1>3. \A k \in 1 .. n + 1 : v[k] = Down(e, Len(e) + 1 - k) /\ v[k] \in Waiting
  BY <1>2, DownFacts
<1>4. v \in [1 .. n + 1 -> Waiting]
  BY <1>3
<1>5. v \in Seq(Waiting) /\ Len(v) = n + 1 /\ DOMAIN v = 1 .. n + 1
  <2> HIDE DEF v
  <2>1. n + 1 \in Nat
    BY <1>1
  <2>2. v \in Seq(Waiting)
    BY <1>4, <2>1, SeqDef
  <2>3. QED
    BY <1>4, <2>1, <2>2, LenProperties
<1> HIDE DEF v
<1>6. ASSUME NEW k \in DOMAIN v, v[k].leav # 0
      PROVE  IsIn(v[k].leav, path)
  <2>1. PICK j \in 0 .. Len(e) : v[k] = Down(e, j)
    BY <1>2, <1>3, <1>5
  <2>2. j # Len(e)
    <3>1. ASSUME j = Len(e) PROVE FALSE
      <4>1. v[k] = At(e, 0)
        BY <2>1, <3>1, DownFacts
      <4>2. QED
        BY <1>6, <4>1 DEF At
    <3>2. QED
      BY <3>1
  <2>3. j + 1 \in DOMAIN e
    <3>1. Len(e) \in Nat
      BY <1>1
    <3>2. j + 1 \in 1 .. Len(e)
      BY <2>2, <3>1
    <3>3. QED
      BY <1>1, <3>2
  <2>4. v[k].leav = e[j + 1].scope
    BY <2>1, <2>2, DownFacts
  <2>5. QED
    BY <2>3, <2>4
<1>7. ASSUME NEW k \in DOMAIN rs
      PROVE  /\ rs[k].op = "run"
             /\ v[k].pend # <<>>
             /\ Last(v[k].pend).d = rs[k].d
             /\ v[k + 1] = At(Front(v[k].pend), Last(v[k].pend).scope)
  <2> DEFINE j == Len(e) + 1 - k
  <2>1. /\ k \in 1 .. n + 1 /\ k + 1 \in 1 .. n + 1
        /\ j \in 1 .. Len(e) /\ j \in 0 .. Len(e)
        /\ j - 1 \in 0 .. Len(e) /\ j - 1 # Len(e) /\ j - 1 + 1 = j
        /\ Len(e) + 1 - (k + 1) = j - 1
    <3>1. ASSUME NEW l \in Nat, NEW p \in 0 .. l, NEW i \in 1 .. l - p
          PROVE  /\ i \in 1 .. l - p + 1 /\ i + 1 \in 1 .. l - p + 1
                 /\ l + 1 - i \in 1 .. l /\ l + 1 - i \in 0 .. l
                 /\ l + 1 - i - 1 \in 0 .. l /\ l + 1 - i - 1 # l
                 /\ l + 1 - i - 1 + 1 = l + 1 - i
                 /\ l + 1 - (i + 1) = l + 1 - i - 1
      OBVIOUS
    <3>2. Len(e) \in Nat /\ m \in 0 .. Len(e) /\ k \in 1 .. Len(e) - m
      BY <1>1
    <3>3. QED
      BY <3>1, <3>2
  <2>2. v[k] = Down(e, j) /\ v[k + 1] = Down(e, j - 1)
    BY <1>3, <2>1
  <2>3. rs[k].op = "run" /\ rs[k].d = e[j].d
    BY DEF Calls
  <2> HIDE DEF j
  <2>4. v[k].pend = SubSeq(e, 1, j)
    BY <2>1, <2>2, DownFacts
  <2>5. /\ SubSeq(e, 1, j) # <<>>
        /\ Last(SubSeq(e, 1, j)) = e[j]
        /\ Front(SubSeq(e, 1, j)) = SubSeq(e, 1, j - 1)
    BY <2>1, PrefixEnds
  <2>6. v[k + 1] = At(SubSeq(e, 1, j - 1), e[j].scope)
    BY <2>1, <2>2 DEF Down
  <2>7. QED
    BY <2>3, <2>4, <2>5, <2>6
<1>8. Steps(rs, path, v)
  BY <1>1, <1>5, <1>6, <1>7 DEF Steps
<1>9. v[1] = At(e, 0)
  <2>1. 1 \in 1 .. n + 1 /\ Len(e) + 1 - 1 = Len(e) /\ Len(e) \in 0 .. Len(e)
    BY <1>1
  <2>2. QED
    BY <1>3, <2>1, DownFacts
<1>10. v[Len(rs) + 1] = Down(e, m)
  <2>1. n + 1 \in 1 .. n + 1 /\ Len(e) + 1 - (n + 1) = m
    BY <1>1
  <2>2. QED
    BY <1>1, <1>3, <2>1
<1>11. Carries(is \o rs, path, s, v[Len(rs) + 1])
  BY <1>1, <1>8, <1>9, CarryOn
<1>12. QED
  BY <1>10, <1>11

-----------------------------------------------------------------------------
(* What stays when scopes are closed.                                      *)

(* The count that says what stays is the length of what stays.             *)
LEMMA CutsFacts ==
  ASSUME NEW s \in Seq(Entry), NEW p, NEW r, Cuts(s, p, r)
  PROVE  /\ r \in Seq(Entry)
         /\ Len(r) \in 0 .. Len(s)
         /\ r = SubSeq(s, 1, Len(r))
         /\ \A i \in 1 .. Len(r) : r[i] = s[i] /\ IsIn(r[i].scope, p)
         /\ \A i \in Len(r) + 1 .. Len(s) : ~IsIn(s[i].scope, p)
<1>1. PICK n \in 0 .. Len(s) :
        /\ r = SubSeq(s, 1, n)
        /\ \A i \in 1 .. n : IsIn(s[i].scope, p)
        /\ \A i \in n + 1 .. Len(s) : ~IsIn(s[i].scope, p)
  BY DEF Cuts
<1>2. r \in Seq(Entry) /\ Len(r) = n /\ \A i \in 1 .. n : r[i] = s[i]
  BY <1>1, PrefixFacts
<1>3. QED
  BY <1>1, <1>2

(* Nothing goes when all of it belongs to the scopes that stay.            *)
LEMMA CutsAll ==
  ASSUME NEW s \in Seq(Entry), NEW p,
         \A i \in DOMAIN s : IsIn(s[i].scope, p)
  PROVE  Cuts(s, p, s)
<1>1. Len(s) \in Nat /\ DOMAIN s = 1 .. Len(s) /\ Len(s) \in 0 .. Len(s)
  BY LenProperties
<1>2. SubSeq(s, 1, Len(s)) = s
  BY SubSeqFull
<1>3. Len(s) + 1 .. Len(s) = {}
  BY <1>1
<1>4. QED
  BY <1>1, <1>2, <1>3 DEF Cuts

(* A newer entry of a scope that is closed goes as well.                   *)
LEMMA CutsMore ==
  ASSUME NEW s \in Seq(Entry), NEW p, NEW r, Cuts(s, p, r),
         NEW x \in Entry, ~IsIn(x.scope, p)
  PROVE  Cuts(Append(s, x), p, r)
<1> DEFINE t == Append(s, x)
<1>1. /\ Len(r) \in 0 .. Len(s) /\ r = SubSeq(s, 1, Len(r))
      /\ r \in Seq(Entry)
      /\ \A i \in 1 .. Len(r) : r[i] = s[i] /\ IsIn(r[i].scope, p)
      /\ \A i \in Len(r) + 1 .. Len(s) : ~IsIn(s[i].scope, p)
  BY CutsFacts
<1>2. /\ t \in Seq(Entry) /\ Len(s) \in Nat /\ Len(t) = Len(s) + 1
      /\ DOMAIN s = 1 .. Len(s)
      /\ \A i \in DOMAIN s : t[i] = s[i]
      /\ t[Len(s) + 1] = x
  BY PushFacts
<1> HIDE DEF t
<1> DEFINE n == Len(r)
<1> HIDE DEF n
<1>3. n \in 0 .. Len(s) /\ n \in 0 .. Len(t)
  BY <1>1, <1>2 DEF n
<1>4. r = SubSeq(t, 1, n)
  <2>1. SubSeq(t, 1, n) \in Seq(Entry) /\ Len(SubSeq(t, 1, n)) = n
        /\ \A i \in 1 .. n : SubSeq(t, 1, n)[i] = t[i]
    BY <1>2, <1>3, PrefixFacts
  <2>2. \A i \in 1 .. n : r[i] = s[i] /\ t[i] = s[i]
    BY <1>1, <1>2, <1>3 DEF n
  <2>3. \A i \in 1 .. Len(r) : r[i] = SubSeq(t, 1, n)[i]
    BY <2>1, <2>2 DEF n
  <2>4. QED
    BY <1>1, <2>1, <2>3, SeqEqual DEF n
<1>5. \A i \in 1 .. n : IsIn(t[i].scope, p)
  BY <1>1, <1>2, <1>3 DEF n
<1>6. ASSUME NEW i \in n + 1 .. Len(t)
      PROVE  ~IsIn(t[i].scope, p)
  <2>1. i \in n + 1 .. Len(s) \/ i = Len(s) + 1
    BY <1>2, <1>3
  <2>2. n + 1 .. Len(s) \subseteq DOMAIN s
    BY <1>2, <1>3
  <2>3. QED
    BY <1>1, <1>2, <2>1, <2>2 DEF n
<1>7. Cuts(t, p, r)
  BY <1>3, <1>4, <1>5, <1>6 DEF Cuts
<1>8. QED
  BY <1>7 DEF t

-----------------------------------------------------------------------------
(* The scopes the builder has open, outermost first: level k is the path   *)
(* of the k outermost scopes and what waits in them.                       *)
LevelType == [path : Seq(Nat), wait : Seq(Entry)]

(* A level of k scopes in a function of n blocks.                          *)
LevelFit(e, k, n) ==
  /\ Len(e.path) = k
  /\ \A i \in DOMAIN e.path : e.path[i] <= n
  /\ \A i \in DOMAIN e.wait : e.wait[i].scope # 0 /\ IsIn(e.wait[i].scope, e.path)

(* Level a is inside level e: the scope that e adds is not one of a, and   *)
(* what waits in a is what stays of e when the scopes outside a close.     *)
Holds(a, e) ==
  /\ \A i \in DOMAIN a.path : IsIn(a.path[i], e.path)
  /\ Last(e.path) # 0 => ~IsIn(Last(e.path), a.path)
  /\ Cuts(e.wait, a.path, a.wait)

Levels(L, n) ==
  /\ L \in Seq(LevelType)
  /\ L # <<>>
  /\ L[1].wait = <<>>
  /\ \A k \in DOMAIN L : LevelFit(L[k], k, n)
  /\ \A k \in DOMAIN L : k > 1 => Front(L[k].path) = L[k - 1].path
  /\ \A j, k \in DOMAIN L : j < k => Holds(L[j], L[k])

(* The parts of a level have their types.                                  *)
LEMMA LevelParts ==
  ASSUME NEW n, NEW L, Levels(L, n)
  PROVE  /\ Len(L) \in Nat \ {0}
         /\ DOMAIN L = 1 .. Len(L)
         /\ Len(L) \in DOMAIN L
         /\ 1 \in DOMAIN L
         /\ Last(L) = L[Len(L)]
         /\ \A k \in DOMAIN L : /\ L[k] \in LevelType
                                /\ L[k].path \in Seq(Nat)
                                /\ L[k].wait \in Seq(Entry)
<1>1. L \in Seq(LevelType) /\ L # <<>>
  BY DEF Levels
<1>2. /\ Len(L) \in Nat \ {0} /\ DOMAIN L = 1 .. Len(L) /\ Len(L) \in DOMAIN L
      /\ Last(L) = L[Len(L)]
  BY <1>1, PopFacts
<1>3. 1 \in DOMAIN L
  BY <1>2
<1>4. ASSUME NEW k \in DOMAIN L
      PROVE  L[k] \in LevelType /\ L[k].path \in Seq(Nat) /\ L[k].wait \in Seq(Entry)
  <2>1. L[k] \in LevelType
    BY <1>1, <1>2, ElementOfSeq
  <2>2. QED
    BY <2>1 DEF LevelType
<1>5. QED
  BY <1>2, <1>3, <1>4

(* A scope is opened, or the innermost one changes: see the uses.          *)
LEMMA LevelsPush ==
  ASSUME NEW n, NEW L, Levels(L, n), NEW e \in LevelType,
         LevelFit(e, Len(L) + 1, n), Front(e.path) = Last(L).path,
         \A j \in DOMAIN L : Holds(L[j], e)
  PROVE  Levels(Append(L, e), n)
<1> DEFINE M == Append(L, e)
           m == Len(L)
<1>1. m \in Nat \ {0} /\ L \in Seq(LevelType) /\ Last(L) = L[m] /\ 1 \in DOMAIN L
  BY LevelParts DEF Levels
<1>2. /\ M \in Seq(LevelType) /\ M # <<>> /\ DOMAIN L = 1 .. m
      /\ DOMAIN M = 1 .. m + 1
      /\ \A i \in DOMAIN L : M[i] = L[i]
      /\ M[m + 1] = e
  BY <1>1, PushFacts
<1> HIDE DEF M, m
<1>3. M[1].wait = <<>>
  BY <1>1, <1>2 DEF Levels
<1>4. \A k \in DOMAIN M : k \in DOMAIN L \/ k = m + 1
  BY <1>1, <1>2
<1>5. ASSUME NEW k \in DOMAIN M
      PROVE  LevelFit(M[k], k, n)
  <2>1. CASE k \in DOMAIN L
    BY <1>2, <2>1 DEF Levels
  <2>2. CASE k = m + 1
    BY <1>2, <2>2 DEF m
  <2>3. QED
    BY <1>4, <2>1, <2>2
<1>6. ASSUME NEW k \in DOMAIN M, k > 1
      PROVE  Front(M[k].path) = M[k - 1].path
  <2>1. CASE k \in DOMAIN L
    <3>1. k \in 1 .. m
      BY <1>2, <2>1
    <3>2. k - 1 \in 1 .. m
      BY <1>1, <1>6, <3>1
    <3>3. k - 1 \in DOMAIN L
      BY <1>2, <3>2
    <3>4. QED
      BY <1>2, <1>6, <2>1, <3>3 DEF Levels
  <2>2. CASE k = m + 1
    <3>1. k - 1 = m /\ m \in DOMAIN L
      BY <1>1, <1>2, <2>2
    <3>2. QED
      BY <1>1, <1>2, <2>2, <3>1
  <2>3. QED
    BY <1>4, <2>1, <2>2
<1>7. ASSUME NEW j \in DOMAIN M, NEW k \in DOMAIN M, j < k
      PROVE  Holds(M[j], M[k])
  <2>1. j \in DOMAIN L
    BY <1>1, <1>2, <1>7
  <2>2. CASE k \in DOMAIN L
    BY <1>2, <1>7, <2>1, <2>2 DEF Levels
  <2>3. CASE k = m + 1
    BY <1>2, <2>1, <2>3
  <2>4. QED
    BY <1>4, <2>2, <2>3
<1>8. Levels(M, n)
  BY <1>2, <1>3, <1>5, <1>6, <1>7 DEF Levels
<1>9. QED
  BY <1>8 DEF M

(* The innermost scope is closed.                                          *)
LEMMA LevelsPop ==
  ASSUME NEW n, NEW L, Levels(L, n), Len(L) > 1
  PROVE  /\ Levels(Front(L), n)
         /\ Len(Front(L)) = Len(L) - 1
         /\ Last(Front(L)) = L[Len(L) - 1]
         /\ DOMAIN Front(L) = 1 .. Len(L) - 1
         /\ \A k \in DOMAIN Front(L) : Front(L)[k] = L[k]
<1> DEFINE M == Front(L)
           m == Len(L)
<1>1. m \in Nat \ {0} /\ L \in Seq(LevelType) /\ L # <<>> /\ m > 1
  BY LevelParts DEF Levels
<1>2. /\ M \in Seq(LevelType) /\ Len(M) = m - 1 /\ DOMAIN L = 1 .. m
      /\ DOMAIN M = 1 .. m - 1
      /\ \A i \in DOMAIN M : M[i] = L[i]
  BY <1>1, PopFacts
<1> HIDE DEF M, m
<1>3. M # <<>>
  BY <1>1, <1>2, EmptySeq
<1>4. Last(M) = M[m - 1]
  BY <1>2, <1>3, PopFacts
<1>5. 1 \in DOMAIN M /\ m - 1 \in DOMAIN M /\ \A k \in DOMAIN M : k \in DOMAIN L
  BY <1>1, <1>2
<1>6. M[1].wait = <<>>
  BY <1>2, <1>5 DEF Levels
<1>7. ASSUME NEW k \in DOMAIN M, k > 1
      PROVE  Front(M[k].path) = M[k - 1].path
  <2>1. k - 1 \in DOMAIN M
    BY <1>2, <1>7
  <2>2. QED
    BY <1>2, <1>5, <1>7, <2>1 DEF Levels
<1>8. /\ \A k \in DOMAIN M : LevelFit(M[k], k, n)
      /\ \A j, k \in DOMAIN M : j < k => Holds(M[j], M[k])
  BY <1>2, <1>5 DEF Levels
<1>9. Levels(M, n)
  BY <1>2, <1>3, <1>6, <1>7, <1>8 DEF Levels
<1>10. QED
  BY <1>2, <1>4, <1>5, <1>9 DEF M, m

(* Blocks are appended.                                                    *)
LEMMA LevelsMore ==
  ASSUME NEW n \in Nat, NEW k \in Nat, n <= k, NEW L, Levels(L, n)
  PROVE  Levels(L, k)
<1>1. ASSUME NEW j \in DOMAIN L
      PROVE  LevelFit(L[j], j, k)
  <2> DEFINE p == L[j].path
  <2>1. p \in Seq(Nat) /\ \A i \in DOMAIN p : p[i] <= n
    BY LevelParts DEF Levels, LevelFit
  <2> HIDE DEF p
  <2>2. \A i \in DOMAIN p : p[i] \in Nat
    BY <2>1, ElementOfSeq, LenProperties
  <2>3. \A i \in DOMAIN p : p[i] <= k
    BY <2>1, <2>2
  <2>4. QED
    BY <2>3 DEF Levels, LevelFit, p
<1>2. QED
  BY <1>1 DEF Levels

(* Every level is inside the innermost one, itself included.               *)
LEMMA LevelInside ==
  ASSUME NEW n, NEW L, Levels(L, n), NEW j \in DOMAIN L
  PROVE  /\ \A i \in DOMAIN L[j].path : IsIn(L[j].path[i], Last(L).path)
         /\ Cuts(Last(L).wait, L[j].path, L[j].wait)
<1>1. /\ Len(L) \in Nat \ {0} /\ DOMAIN L = 1 .. Len(L) /\ Len(L) \in DOMAIN L
      /\ Last(L) = L[Len(L)] /\ L[j].wait \in Seq(Entry)
  BY LevelParts
<1>2. CASE j = Len(L)
  <2>1. \A i \in DOMAIN L[j].wait : IsIn(L[j].wait[i].scope, L[j].path)
    BY DEF Levels, LevelFit
  <2>2. Cuts(L[j].wait, L[j].path, L[j].wait)
    BY <1>1, <2>1, CutsAll
  <2>3. QED
    BY <1>1, <1>2, <2>2 DEF IsIn
<1>3. CASE j # Len(L)
  <2>1. j < Len(L)
    BY <1>1, <1>3
  <2>2. Holds(L[j], L[Len(L)])
    BY <1>1, <2>1 DEF Levels
  <2>3. QED
    BY <1>1, <2>2 DEF Holds
<1>4. QED
  BY <1>2, <1>3

(* A scope b is opened: nothing waits in it yet.                           *)
Opened(L, b) == [path |-> Append(Last(L).path, b), wait |-> Last(L).wait]

(* Opening a scope adds a level to the ones that are open.                 *)
LEMMA LevelsOpen ==
  ASSUME NEW n \in Nat, NEW L, Levels(L, n), NEW b \in 0 .. n,
         b = 0 \/ \A i \in DOMAIN Last(L).path : Last(L).path[i] # b
  PROVE  /\ Levels(Append(L, Opened(L, b)), n)
         /\ Opened(L, b) \in LevelType
<1> DEFINE p == Last(L).path
           w == Last(L).wait
           q == Append(p, b)
           e == [path |-> q, wait |-> w]
<1>1. /\ Len(L) \in Nat \ {0} /\ Len(L) \in DOMAIN L /\ Last(L) = L[Len(L)]
      /\ p \in Seq(Nat) /\ w \in Seq(Entry)
  BY LevelParts
<1>2. /\ LevelFit(Last(L), Len(L), n)
      /\ \A i \in DOMAIN p : p[i] # b \/ b = 0
  BY <1>1 DEF Levels
<1>3. \A j \in DOMAIN L : /\ \A i \in DOMAIN L[j].path : IsIn(L[j].path[i], p)
                          /\ Cuts(w, L[j].path, L[j].wait)
  BY LevelInside
<1> HIDE DEF p, w
<1>4. Len(p) = Len(L) /\ \A i \in DOMAIN p : p[i] <= n
  BY <1>2 DEF LevelFit, p
<1>5. \A i \in DOMAIN w : w[i].scope # 0 /\ IsIn(w[i].scope, p)
  BY <1>2 DEF LevelFit, p, w
<1>6. /\ q \in Seq(Nat) /\ q # <<>> /\ Len(q) = Len(L) + 1
      /\ DOMAIN p = 1 .. Len(L)
      /\ DOMAIN q = 1 .. Len(L) + 1
      /\ \A i \in DOMAIN p : q[i] = p[i]
      /\ q[Len(L) + 1] = b
  BY <1>1, <1>4, PushFacts
<1> HIDE DEF q
<1>7. \A i \in DOMAIN p : i \in DOMAIN q
  BY <1>1, <1>6
<1>8. \A s : IsIn(s, p) => IsIn(s, q)
  BY <1>6, <1>7 DEF IsIn
<1>9. Last(q) = b /\ Front(q) = p
  BY <1>1, PopPush DEF q
<1>11. e \in LevelType /\ e.path = q /\ e.wait = w
  BY <1>1, <1>6 DEF LevelType
<1> HIDE DEF e
<1>12. LevelFit(e, Len(L) + 1, n)
  <2>1. \A i \in DOMAIN q : i \in DOMAIN p \/ i = Len(L) + 1
    BY <1>1, <1>6
  <2>2. \A i \in DOMAIN q : q[i] <= n
    BY <1>4, <1>6, <2>1
  <2>3. QED
    BY <1>5, <1>6, <1>8, <1>11, <2>2 DEF LevelFit
<1>13. ASSUME NEW j \in DOMAIN L
       PROVE  Holds(L[j], e)
  <2>1. b # 0 => ~IsIn(b, p)
    BY <1>2 DEF IsIn
  <2>2. IsIn(b, L[j].path) => IsIn(b, p)
    BY <1>3 DEF IsIn
  <2>3. \A i \in DOMAIN L[j].path : IsIn(L[j].path[i], q)
    BY <1>3, <1>8
  <2>4. QED
    BY <1>3, <1>9, <1>11, <2>1, <2>2, <2>3 DEF Holds
<1>14. Front(e.path) = Last(L).path
  BY <1>9, <1>11 DEF p
<1>15. Levels(Append(L, e), n)
  BY <1>11, <1>12, <1>13, <1>14, LevelsPush
<1>16. Opened(L, b) = e
  BY DEF Opened, e, q, p, w
<1>17. QED
  BY <1>11, <1>15, <1>16

-----------------------------------------------------------------------------
(* LG.defers and LG.scope_defer_marks stand for the innermost waiting list *)
(* and for the counts of the ones further out.                             *)
Synced(df, w) ==
  /\ df \in Seq(1 .. Budget)
  /\ Len(df) = Len(w)
  /\ \A i \in 1 .. Len(df) : w[i].d = df[i]

Counted(mk, L) ==
  /\ mk \in Seq(Nat)
  /\ Len(mk) = Len(L)
  /\ \A k \in 1 .. Len(mk) : k > 1 => mk[k] = Len(L[k - 1].wait)

Stack(L, sc, df, mk, n) ==
  /\ Levels(L, n)
  /\ Len(L) > 1
  /\ Last(L).path = sc
  /\ Synced(df, Last(L).wait)
  /\ Counted(mk, L)

(* The level around the innermost one.                                     *)
Outer(L) == L[Len(L) - 1]

(* The innermost mark counts what waits around the innermost scope.        *)
LEMMA StackFacts ==
  ASSUME NEW L, NEW sc, NEW df, NEW mk, NEW n, Stack(L, sc, df, mk, n)
  PROVE  /\ Levels(L, n) /\ Len(L) \in Nat /\ Len(L) > 1
         /\ Len(L) - 1 \in DOMAIN L /\ Len(L) \in DOMAIN L
         /\ Last(L) = L[Len(L)] /\ Last(L).path = sc
         /\ Last(L).wait \in Seq(Entry) /\ Outer(L).wait \in Seq(Entry)
         /\ sc \in Seq(Nat) /\ Len(sc) = Len(L) /\ Front(sc) = Outer(L).path
         /\ MarkOf(mk) = Len(Outer(L).wait)
         /\ Len(df) = Len(Last(L).wait)
         /\ MarkOf(mk) \in 0 .. Len(df)
         /\ Cuts(Last(L).wait, Outer(L).path, Outer(L).wait)
<1>1. Levels(L, n) /\ Len(L) > 1 /\ Last(L).path = sc
  BY DEF Stack
<1>2. /\ Len(L) \in Nat /\ Len(L) \in DOMAIN L /\ DOMAIN L = 1 .. Len(L)
      /\ Last(L) = L[Len(L)]
      /\ \A k \in DOMAIN L : L[k].path \in Seq(Nat) /\ L[k].wait \in Seq(Entry)
  BY <1>1, LevelParts
<1>3. Len(L) - 1 \in DOMAIN L
  <2>1. Len(L) - 1 \in 1 .. Len(L)
    BY <1>1, <1>2
  <2>2. QED
    BY <1>2, <2>1
<1>4. Len(sc) = Len(L) /\ Front(sc) = Outer(L).path
  BY <1>1, <1>2 DEF Levels, LevelFit, Outer
<1>5. /\ Last(L).wait \in Seq(Entry) /\ Outer(L).wait \in Seq(Entry)
      /\ sc \in Seq(Nat)
  BY <1>1, <1>2, <1>3 DEF Outer
<1>6. MarkOf(mk) = Len(Outer(L).wait)
  <2>1. mk \in Seq(Nat) /\ Len(mk) = Len(L)
        /\ \A k \in 1 .. Len(mk) : k > 1 => mk[k] = Len(L[k - 1].wait)
    BY DEF Stack, Counted
  <2>2. mk # <<>>
    BY <1>1, <1>2, <2>1, EmptySeq
  <2>3. Last(mk) = mk[Len(L)]
    BY <2>1, <2>2, PopFacts
  <2>4. Len(L) \in 1 .. Len(L)
    BY <1>1, <1>2
  <2>5. mk[Len(L)] = Len(L[Len(L) - 1].wait)
    BY <1>1, <2>1, <2>4
  <2>6. QED
    BY <2>2, <2>3, <2>5 DEF MarkOf, Outer
<1>7. Cuts(Last(L).wait, Outer(L).path, Outer(L).wait)
  BY <1>1, <1>3, LevelInside DEF Outer
<1>8. Len(df) = Len(Last(L).wait)
  BY DEF Stack, Synced
<1>9. MarkOf(mk) \in 0 .. Len(df)
  BY <1>5, <1>6, <1>7, <1>8, CutsFacts
<1>10. QED
  BY <1>1, <1>2, <1>3, <1>4, <1>5, <1>6, <1>7, <1>8, <1>9

(* Cutting LG.defers at the mark leaves what waits around the scope.       *)
LEMMA SyncedCut ==
  ASSUME NEW L, NEW sc, NEW df, NEW mk, NEW n, Stack(L, sc, df, mk, n)
  PROVE  /\ Synced(SubSeq(df, 1, MarkOf(mk)), Outer(L).wait)
         /\ Len(SubSeq(df, 1, MarkOf(mk))) = MarkOf(mk)
<1> DEFINE w == Last(L).wait
           r == Outer(L).wait
           m == MarkOf(mk)
<1>1. /\ w \in Seq(Entry) /\ r \in Seq(Entry) /\ m = Len(r) /\ Len(df) = Len(w)
      /\ m \in 0 .. Len(df)
      /\ Cuts(w, Outer(L).path, r)
  BY StackFacts
<1>2. df \in Seq(1 .. Budget) /\ \A i \in 1 .. Len(df) : w[i].d = df[i]
  BY DEF Stack, Synced
<1>3. /\ SubSeq(df, 1, m) \in Seq(1 .. Budget) /\ Len(SubSeq(df, 1, m)) = m
      /\ \A i \in 1 .. m : SubSeq(df, 1, m)[i] = df[i]
  BY <1>1, <1>2, PrefixFacts
<1>4. \A i \in 1 .. m : r[i] = w[i]
  BY <1>1, CutsFacts
<1>5. Len(df) \in Nat
  BY <1>2, LenProperties
<1> HIDE DEF w, r, m
<1>6. \A i \in 1 .. m : i \in 1 .. Len(df)
  BY <1>1, <1>5
<1>7. Synced(SubSeq(df, 1, m), r)
  BY <1>1, <1>2, <1>3, <1>4, <1>6 DEF Synced
<1>8. QED
  BY <1>3, <1>7 DEF r, m

(* lg_push_scope.                                                          *)
LEMMA StackOpen ==
  ASSUME NEW L, NEW sc, NEW df, NEW mk, NEW n \in Nat, Stack(L, sc, df, mk, n),
         Len(sc) < MaxScopes, NEW b \in 0 .. n,
         b = 0 \/ \A i \in DOMAIN sc : sc[i] # b
  PROVE  Stack(Append(L, Opened(L, b)), Append(sc, b), df, Marked(mk, Len(df)), n)
<1> DEFINE e == Opened(L, b)
           M == Append(L, e)
           c == Len(df)
           mm == Append(mk, c)
<1>1. /\ Levels(L, n) /\ Len(L) \in Nat /\ Len(L) > 1 /\ Last(L).path = sc
      /\ Len(sc) = Len(L) /\ c = Len(Last(L).wait) /\ Last(L) = L[Len(L)]
      /\ Last(L).wait \in Seq(Entry)
  BY StackFacts
<1>2. Levels(M, n) /\ e \in LevelType
  BY <1>1, LevelsOpen
<1>3. e.path = Append(sc, b) /\ e.wait = Last(L).wait
  BY <1>1 DEF Opened
<1>4. L \in Seq(LevelType) /\ Synced(df, Last(L).wait) /\ Counted(mk, L)
  BY DEF Stack, Levels
<1> HIDE DEF e
<1>5. /\ Last(M) = e /\ Len(M) = Len(L) + 1 /\ DOMAIN L = 1 .. Len(L)
      /\ \A i \in DOMAIN L : M[i] = L[i]
  BY <1>2, <1>4, PopPush, PushFacts
<1> HIDE DEF M
<1>6. /\ mk \in Seq(Nat) /\ Len(mk) = Len(L)
      /\ \A k \in 1 .. Len(mk) : k > 1 => mk[k] = Len(L[k - 1].wait)
  BY <1>4 DEF Counted
<1>7. c \in Nat
  BY <1>1, LenProperties
<1>8. Marked(mk, c) = mm
  BY <1>1, <1>6 DEF Marked
<1> HIDE DEF c
<1>9. /\ mm \in Seq(Nat) /\ Len(mm) = Len(L) + 1
      /\ \A i \in 1 .. Len(L) : mm[i] = mk[i]
      /\ mm[Len(L) + 1] = c
  BY <1>6, <1>7, PushFacts
<1> HIDE DEF mm
<1>10. ASSUME NEW k \in 1 .. Len(mm), k > 1
       PROVE  mm[k] = Len(M[k - 1].wait)
  <2>1. k - 1 \in 1 .. Len(L) /\ (k \in 1 .. Len(L) \/ k = Len(L) + 1)
    BY <1>1, <1>9, <1>10
  <2>2. M[k - 1] = L[k - 1]
    BY <1>5, <2>1
  <2>3. CASE k \in 1 .. Len(L)
    BY <1>6, <1>9, <1>10, <2>2, <2>3
  <2>4. CASE k = Len(L) + 1
    <3>1. k - 1 = Len(L)
      BY <1>1, <2>4
    <3>2. QED
      BY <1>1, <1>9, <2>2, <2>4, <3>1
  <2>5. QED
    BY <2>1, <2>3, <2>4
<1>11. Counted(mm, M)
  BY <1>5, <1>9, <1>10 DEF Counted
<1>12. Len(M) > 1
  BY <1>1, <1>5
<1>13. Stack(M, Append(sc, b), df, mm, n)
  BY <1>2, <1>3, <1>4, <1>5, <1>11, <1>12 DEF Stack
<1>14. QED
  BY <1>8, <1>13 DEF M, e, c

(* lg_pop_scope, after the deferred expressions of the scope are dropped.  *)
LEMMA StackClose ==
  ASSUME NEW L, NEW sc, NEW df, NEW mk, NEW n, Stack(L, sc, df, mk, n), Len(L) > 2
  PROVE  /\ Stack(Front(L), Front(sc), SubSeq(df, 1, MarkOf(mk)), Unmarked(mk), n)
         /\ Len(Front(L)) = Len(L) - 1
         /\ \A k \in 1 .. Len(L) - 1 : Front(L)[k] = L[k]
<1> DEFINE M == Front(L)
           mm == Unmarked(mk)
<1>1. /\ Levels(L, n) /\ Len(L) \in Nat /\ Len(L) > 1
      /\ Front(sc) = Outer(L).path
  BY StackFacts
<1>2. /\ Levels(M, n) /\ Len(M) = Len(L) - 1 /\ Last(M) = Outer(L)
      /\ \A k \in 1 .. Len(L) - 1 : M[k] = L[k]
  BY <1>1, LevelsPop DEF Outer
<1> HIDE DEF M
<1>3. /\ mk \in Seq(Nat) /\ Len(mk) = Len(L)
      /\ \A k \in 1 .. Len(mk) : k > 1 => mk[k] = Len(L[k - 1].wait)
  BY DEF Stack, Counted
<1>4. mk # <<>>
  BY <1>1, <1>3, EmptySeq
<1>5. mm = Front(mk)
  BY <1>4 DEF Unmarked
<1>6. /\ mm \in Seq(Nat) /\ Len(mm) = Len(L) - 1
      /\ \A k \in 1 .. Len(L) - 1 : mm[k] = mk[k]
  <2>1. /\ Front(mk) \in Seq(Nat) /\ Len(Front(mk)) = Len(mk) - 1
        /\ DOMAIN Front(mk) = 1 .. Len(mk) - 1
        /\ \A k \in DOMAIN Front(mk) : Front(mk)[k] = mk[k]
    BY <1>3, <1>4, PopFacts
  <2> HIDE DEF mm
  <2>2. QED
    BY <1>3, <1>5, <2>1
<1> HIDE DEF mm
<1>7. ASSUME NEW k \in 1 .. Len(mm), k > 1
      PROVE  mm[k] = Len(M[k - 1].wait)
  <2>1. k \in 1 .. Len(mk) /\ k \in 1 .. Len(L) - 1 /\ k - 1 \in 1 .. Len(L) - 1
    BY <1>1, <1>3, <1>6, <1>7
  <2>2. QED
    BY <1>2, <1>3, <1>6, <1>7, <2>1
<1>8. Counted(mm, M)
  BY <1>2, <1>6, <1>7 DEF Counted
<1>9. Synced(SubSeq(df, 1, MarkOf(mk)), Last(M).wait)
  BY <1>2, SyncedCut
<1>10. Len(M) > 1
  BY <1>1, <1>2
<1>11. Stack(M, Front(sc), SubSeq(df, 1, MarkOf(mk)), mm, n)
  BY <1>1, <1>2, <1>8, <1>9, <1>10 DEF Stack
<1>12. QED
  BY <1>2, <1>11 DEF M, mm

(* The innermost waiting list changes, and LG.defers with it.              *)
Retop(L, w) == Append(Front(L), [path |-> Last(L).path, wait |-> w])

(* The scopes stay what they are when the innermost list changes, as long  *)
(* as the ones further out still cut it where they did.                    *)
LEMMA StackRetop ==
  ASSUME NEW L, NEW sc, NEW df, NEW mk, NEW n, Stack(L, sc, df, mk, n),
         NEW w \in Seq(Entry), NEW ds, Synced(ds, w),
         \A i \in DOMAIN w : w[i].scope # 0 /\ IsIn(w[i].scope, sc),
         \A j \in DOMAIN L : j < Len(L) => Cuts(w, L[j].path, L[j].wait)
  PROVE  /\ Stack(Retop(L, w), sc, ds, mk, n)
         /\ Last(Retop(L, w)).wait = w
         /\ Len(Retop(L, w)) = Len(L)
         /\ \A k \in 1 .. Len(L) - 1 : Retop(L, w)[k] = L[k]
<1> DEFINE F == Front(L)
           e == [path |-> sc, wait |-> w]
           M == Append(F, e)
<1>1. /\ Levels(L, n) /\ Len(L) \in Nat /\ Len(L) > 1 /\ Last(L).path = sc
      /\ sc \in Seq(Nat) /\ Len(sc) = Len(L) /\ Front(sc) = Outer(L).path
      /\ Last(L) = L[Len(L)] /\ Len(L) \in DOMAIN L
  BY StackFacts
<1>2. /\ Levels(F, n) /\ Len(F) = Len(L) - 1 /\ Last(F) = Outer(L)
      /\ DOMAIN F = 1 .. Len(L) - 1
      /\ \A k \in DOMAIN F : F[k] = L[k]
  BY <1>1, LevelsPop DEF Outer
<1>3. DOMAIN L = 1 .. Len(L)
  BY <1>1, LevelParts
<1>4. e \in LevelType /\ e.path = sc /\ e.wait = w
  BY <1>1 DEF LevelType
<1> HIDE DEF e, F
<1>5. LevelFit(e, Len(F) + 1, n)
  <2>1. \A i \in DOMAIN sc : sc[i] <= n
    BY <1>1 DEF Levels, LevelFit
  <2>2. Len(F) + 1 = Len(L)
    BY <1>1, <1>2
  <2>3. QED
    BY <1>1, <1>4, <2>1, <2>2 DEF LevelFit
<1>6. ASSUME NEW j \in DOMAIN F
      PROVE  Holds(F[j], e)
  <2>1. j \in 1 .. Len(L) /\ j < Len(L)
    BY <1>1, <1>2
  <2>2. j \in DOMAIN L
    BY <1>3, <2>1
  <2>3. Holds(L[j], L[Len(L)])
    BY <1>1, <2>1, <2>2 DEF Levels
  <2>4. F[j] = L[j] /\ L[Len(L)].path = e.path
    BY <1>1, <1>2, <1>4
  <2>5. Cuts(e.wait, L[j].path, L[j].wait)
    BY <1>4, <2>1, <2>2
  <2>6. QED
    BY <2>3, <2>4, <2>5 DEF Holds
<1>7. Levels(M, n)
  BY <1>1, <1>2, <1>4, <1>5, <1>6, LevelsPush
<1>8. F \in Seq(LevelType)
  BY <1>2 DEF Levels
<1>9. /\ Last(M) = e /\ Len(M) = Len(L)
      /\ \A k \in 1 .. Len(L) - 1 : M[k] = L[k]
  <2>1. Last(M) = e /\ Len(M) = Len(F) + 1 /\ \A k \in DOMAIN F : M[k] = F[k]
    BY <1>4, <1>8, PopPush, PushFacts
  <2>2. QED
    BY <1>1, <1>2, <2>1
<1>10. M = Retop(L, w)
  BY <1>1 DEF Retop, F, e
<1> HIDE DEF M
<1>11. Counted(mk, M)
  <2>1. /\ mk \in Seq(Nat) /\ Len(mk) = Len(L)
        /\ \A k \in 1 .. Len(mk) : k > 1 => mk[k] = Len(L[k - 1].wait)
    BY DEF Stack, Counted
  <2>2. ASSUME NEW k \in 1 .. Len(mk), k > 1
        PROVE  mk[k] = Len(M[k - 1].wait)
    <3>1. k - 1 \in 1 .. Len(L) - 1
      BY <1>1, <2>1, <2>2
    <3>2. QED
      BY <1>9, <2>1, <2>2, <3>1
  <2>3. QED
    BY <1>9, <2>1, <2>2 DEF Counted
<1>12. Stack(M, sc, ds, mk, n)
  BY <1>1, <1>4, <1>7, <1>9, <1>11 DEF Stack
<1>13. QED
  BY <1>4, <1>9, <1>10, <1>12

(* The function has more blocks.                                           *)
LEMMA StackMore ==
  ASSUME NEW L, NEW sc, NEW df, NEW mk, NEW n \in Nat, NEW k \in Nat, n <= k,
         Stack(L, sc, df, mk, n)
  PROVE  Stack(L, sc, df, mk, k)
BY LevelsMore DEF Stack

(* A defer statement.                                                      *)
Waited(L, sc, d) == Append(Last(L).wait, [d |-> d, scope |-> Last(sc)])

(* Its expression waits in the innermost scope, and LG.defers has it last. *)
LEMMA StackDefer ==
  ASSUME NEW L, NEW sc, NEW df, NEW mk, NEW n, Stack(L, sc, df, mk, n),
         Last(sc) # 0, NEW d \in 1 .. Budget
  PROVE  /\ Stack(Retop(L, Waited(L, sc, d)), sc, Append(df, d), mk, n)
         /\ Last(Retop(L, Waited(L, sc, d))).wait = Waited(L, sc, d)
         /\ Len(Retop(L, Waited(L, sc, d))) = Len(L)
         /\ \A k \in 1 .. Len(L) - 1 : Retop(L, Waited(L, sc, d))[k] = L[k]
<1> DEFINE v == Last(L).wait
           b == Last(sc)
           x == [d |-> d, scope |-> Last(sc)]
           w == Waited(L, sc, d)
<1>1. /\ Levels(L, n) /\ Len(L) \in Nat /\ Len(L) > 1 /\ Last(L).path = sc
      /\ Len(L) \in DOMAIN L /\ Last(L) = L[Len(L)]
      /\ v \in Seq(Entry) /\ sc \in Seq(Nat) /\ Len(sc) = Len(L)
  BY StackFacts
<1>2. sc # <<>>
  BY <1>1, EmptySeq
<1>3. b \in Nat /\ b # 0 /\ IsIn(b, sc)
  BY <1>1, <1>2, PopFacts DEF IsIn
<1>4. \A j \in DOMAIN L : j < Len(L) => ~IsIn(b, L[j].path) /\ Cuts(v, L[j].path, L[j].wait)
  BY <1>1, <1>3 DEF Levels, Holds
<1>5. \A i \in DOMAIN v : v[i].scope # 0 /\ IsIn(v[i].scope, sc)
  BY <1>1 DEF Levels, LevelFit
<1>6. df \in Seq(1 .. Budget) /\ Len(df) = Len(v) /\ \A i \in 1 .. Len(df) : v[i].d = df[i]
  BY DEF Stack, Synced
<1> HIDE DEF v, b
<1>7. x \in Entry /\ x.d = d /\ x.scope = b
  BY <1>3 DEF Entry, b
<1>8. w = Append(v, x)
  BY DEF v, Waited
<1> HIDE DEF x, w
<1>9. /\ w \in Seq(Entry) /\ Len(v) \in Nat /\ Len(w) = Len(v) + 1
      /\ DOMAIN v = 1 .. Len(v) /\ DOMAIN w = 1 .. Len(v) + 1
      /\ \A i \in DOMAIN v : w[i] = v[i]
      /\ w[Len(v) + 1] = x
  <2>1. /\ Append(v, x) \in Seq(Entry) /\ Len(v) \in Nat
        /\ Len(Append(v, x)) = Len(v) + 1
        /\ DOMAIN v = 1 .. Len(v) /\ DOMAIN Append(v, x) = 1 .. Len(v) + 1
        /\ \A i \in DOMAIN v : Append(v, x)[i] = v[i]
        /\ Append(v, x)[Len(v) + 1] = x
    BY <1>1, <1>7, PushFacts
  <2>2. QED
    BY <1>8, <2>1, Zenon
<1>10. \A i \in DOMAIN w : i \in DOMAIN v \/ i = Len(v) + 1
  BY <1>9
<1>11. \A i \in DOMAIN w : w[i].scope # 0 /\ IsIn(w[i].scope, sc)
  BY <1>3, <1>5, <1>7, <1>9, <1>10
<1>12. \A j \in DOMAIN L : j < Len(L) => Cuts(w, L[j].path, L[j].wait)
  BY <1>1, <1>4, <1>7, <1>8, CutsMore
<1>13. Synced(Append(df, d), w)
  <2> DEFINE ds == Append(df, d)
  <2>1. /\ ds \in Seq(1 .. Budget) /\ Len(ds) = Len(v) + 1
        /\ \A i \in 1 .. Len(v) : ds[i] = df[i]
        /\ ds[Len(v) + 1] = d
    BY <1>6, PushFacts
  <2> HIDE DEF ds
  <2>2. \A i \in 1 .. Len(v) + 1 : i \in 1 .. Len(v) \/ i = Len(v) + 1
    BY <1>9
  <2>3. \A i \in 1 .. Len(v) + 1 : w[i].d = ds[i]
    BY <1>6, <1>7, <1>9, <2>1, <2>2
  <2>4. Synced(ds, w)
    BY <1>9, <2>1, <2>3 DEF Synced
  <2>5. QED
    BY <2>4 DEF ds
<1> DEFINE ds == Append(df, d)
<1> HIDE DEF ds
<1>14. Synced(ds, w) /\ w \in Seq(Entry)
  BY <1>9, <1>13 DEF ds
<1>15. /\ Stack(Retop(L, w), sc, ds, mk, n)
       /\ Last(Retop(L, w)).wait = w
       /\ Len(Retop(L, w)) = Len(L)
       /\ \A k \in 1 .. Len(L) - 1 : Retop(L, w)[k] = L[k]
  BY <1>11, <1>12, <1>14, StackRetop
<1>16. QED
  BY <1>15 DEF ds, w

(* A break or continue: its block's deferred expressions are dropped.      *)
LEMMA StackCut ==
  ASSUME NEW L, NEW sc, NEW df, NEW mk, NEW n, Stack(L, sc, df, mk, n)
  PROVE  /\ Stack(Retop(L, Outer(L).wait), sc, SubSeq(df, 1, MarkOf(mk)), mk, n)
         /\ Last(Retop(L, Outer(L).wait)).wait = Outer(L).wait
         /\ Len(Retop(L, Outer(L).wait)) = Len(L)
         /\ \A k \in 1 .. Len(L) - 1 : Retop(L, Outer(L).wait)[k] = L[k]
<1> DEFINE w == Outer(L).wait
           o == Len(L) - 1
<1>1. /\ Levels(L, n) /\ Len(L) \in Nat /\ Len(L) > 1 /\ Last(L).path = sc
      /\ w \in Seq(Entry) /\ o \in DOMAIN L /\ w = L[o].wait
      /\ Len(L) \in DOMAIN L /\ Last(L) = L[Len(L)]
  BY StackFacts DEF Outer
<1>2. \A i \in DOMAIN w : w[i].scope # 0 /\ IsIn(w[i].scope, L[o].path)
  BY <1>1 DEF Levels, LevelFit
<1>3. \A i \in DOMAIN L[o].path : IsIn(L[o].path[i], sc)
  BY <1>1, LevelInside
<1>4. \A i \in DOMAIN w : w[i].scope # 0 /\ IsIn(w[i].scope, sc)
  BY <1>2, <1>3 DEF IsIn
<1>5. ASSUME NEW j \in DOMAIN L, j < Len(L)
      PROVE  Cuts(w, L[j].path, L[j].wait)
  <2>1. j \in Nat /\ (j < o \/ j = o)
    <3>1. DOMAIN L = 1 .. Len(L)
      BY <1>1, LevelParts
    <3>2. j \in 1 .. Len(L)
      BY <3>1
    <3>3. QED
      BY <1>1, <1>5, <3>2
  <2>2. CASE j < o
    BY <1>1, <2>2 DEF Levels, Holds
  <2>3. CASE j = o
    BY <1>1, <1>2, <2>3, CutsAll
  <2>4. QED
    BY <2>1, <2>2, <2>3
<1>6. Synced(SubSeq(df, 1, MarkOf(mk)), w)
  BY SyncedCut
<1>7. QED
  BY <1>1, <1>4, <1>5, <1>6, StackRetop

-----------------------------------------------------------------------------
(* The instructions of a block after an emission, and the branches that    *)
(* agree with the waiting lists.                                           *)

(* The calls emitted for LG.defers run the innermost waiting list.         *)
LEMMA RunsCall ==
  ASSUME IInv, NEW w \in Seq(Entry), Synced(defers, w),
         NEW m \in 0 .. Len(defers)
  PROVE  Calls(Runs(m), w, m)
<1> DEFINE n == Len(defers)
<1>1. n \in Nat /\ n = Len(w) /\ \A i \in 1 .. n : w[i].d = defers[i]
  BY StateFacts DEF Synced
<1>2. Runs(m) \in Seq(Instr)
  BY RunsType
<1>3. Runs(m) = [i \in 1 .. n - m |-> [op |-> "run", d |-> defers[n + 1 - i]]]
  BY DEF Runs
<1> HIDE DEF n
<1>4. m \in 0 .. n /\ n - m \in Nat
  BY <1>1 DEF n
<1>5. DOMAIN Runs(m) = 1 .. n - m
  BY <1>3
<1>6. Len(Runs(m)) = n - m
  BY <1>2, <1>4, <1>5, LenProperties
<1>7. ASSUME NEW i \in DOMAIN Runs(m)
      PROVE  Runs(m)[i].op = "run" /\ Runs(m)[i].d = w[Len(w) + 1 - i].d
  <2>1. i \in 1 .. n - m
    BY <1>5
  <2>2. n + 1 - i \in 1 .. n
    BY <1>1, <1>4, <2>1
  <2>3. Runs(m)[i] = [op |-> "run", d |-> defers[n + 1 - i]]
    BY <1>3, <2>1
  <2>4. QED
    BY <1>1, <2>2, <2>3
<1>8. QED
  BY <1>1, <1>2, <1>6, <1>7 DEF Calls

(* What an emission changes of a function, and what a terminator.          *)
LEMMA EmitsOnly ==
  ASSUME NEW c \in Blocks, NEW b \in DOMAIN c, NEW is \in Seq(Instr)
  PROVE  /\ Emit(c, b, is) \in Blocks
         /\ DOMAIN Emit(c, b, is) = DOMAIN c
         /\ Emit(c, b, is)[b].ins = c[b].ins \o is
         /\ Emit(c, b, is)[b].term = c[b].term
         /\ Emit(c, b, is)[b].path = c[b].path
         /\ \A a \in DOMAIN c : a # b => Emit(c, b, is)[a] = c[a]
<1>1. c[b] \in BasicBlock
  BY BlockParts
<1>2. Emit(c, b, is)[b] = [c[b] EXCEPT !.ins = @ \o is]
  BY DEF Emit
<1>3. Emit(c, b, is)[b].ins = c[b].ins \o is
  BY <1>1, <1>2 DEF BasicBlock
<1>4. QED
  BY <1>3, EmitFacts

(* A terminator changes nothing else.                                      *)
LEMMA ClosesOnly ==
  ASSUME NEW c \in Blocks, NEW b \in DOMAIN c, NEW t \in Term
  PROVE  /\ Close(c, b, t) \in Blocks
         /\ DOMAIN Close(c, b, t) = DOMAIN c
         /\ Close(c, b, t)[b].ins = c[b].ins
         /\ Close(c, b, t)[b].term = t
         /\ Close(c, b, t)[b].path = c[b].path
         /\ \A a \in DOMAIN c : a # b => Close(c, b, t)[a] = c[a]
<1>1. c[b] \in BasicBlock
  BY BlockParts
<1>2. Close(c, b, t)[b] = [c[b] EXCEPT !.term = t]
  BY DEF Close
<1>3. Close(c, b, t)[b].ins = c[b].ins
  BY <1>1, <1>2 DEF BasicBlock
<1>4. QED
  BY <1>3, CloseFacts

(* d is c with the instructions `is' and the terminator t at block b.      *)
Ended(c, d, b, is, t) ==
  /\ DOMAIN d = DOMAIN c
  /\ d[b].ins = c[b].ins \o is
  /\ d[b].term = t
  /\ d[b].path = c[b].path
  /\ \A a \in DOMAIN c : a # b => d[a] = c[a]

(* So does a block that instructions are emitted into and that is closed.  *)
LEMMA EmitsCloses ==
  ASSUME NEW c \in Blocks, NEW b \in DOMAIN c, NEW is \in Seq(Instr), NEW t \in Term
  PROVE  /\ Ended(c, Emit(c, b, is), b, is, c[b].term)
         /\ Ended(c, Close(Emit(c, b, is), b, t), b, is, t)
<1> DEFINE e == Emit(c, b, is)
           d == Close(e, b, t)
<1>1. /\ e \in Blocks /\ DOMAIN e = DOMAIN c
      /\ e[b].ins = c[b].ins \o is /\ e[b].term = c[b].term
      /\ e[b].path = c[b].path
      /\ \A a \in DOMAIN c : a # b => e[a] = c[a]
  BY EmitsOnly
<1> HIDE DEF e
<1>2. /\ DOMAIN d = DOMAIN e
      /\ d[b].ins = e[b].ins /\ d[b].term = t /\ d[b].path = e[b].path
      /\ \A a \in DOMAIN e : a # b => d[a] = e[a]
  BY <1>1, ClosesOnly
<1> HIDE DEF d
<1>3. Ended(c, e, b, is, c[b].term) /\ Ended(c, d, b, is, t)
  BY <1>1, <1>2 DEF Ended
<1>4. QED
  BY <1>3 DEF d, e

(* Nothing changes on the way.                                             *)
LEMMA FlatEdge ==
  ASSUME NEW d, NEW en, NEW ex, NEW b, NEW t, NEW w \in Seq(Entry),
         ex[b] = At(w, 0), en[t] = w,
         \A i \in DOMAIN w : IsIn(w[i].scope, Stays(d, t))
  PROVE  Edge(d, en, ex, b, t)
<1>1. ex[b].pend = w /\ ex[b].leav = 0
  BY AtType
<1>2. Cuts(w, Stays(d, t), w)
  BY CutsAll
<1>3. Len(w) + 1 .. Len(w) = {}
  BY LenProperties
<1>4. QED
  BY <1>1, <1>2, <1>3 DEF Edge

(* The innermost scope is left, and further ones by break and continue:    *)
(* its expressions ran, what is lost belongs to the ones between.          *)
LEMMA ExitEdge ==
  ASSUME NEW L, NEW sc, NEW df, NEW mk, NEW n, Stack(L, sc, df, mk, n),
         Last(sc) # 0,
         NEW d, NEW en, NEW ex, NEW b, NEW t, NEW j \in 1 .. Len(L) - 1,
         Stays(d, t) = L[j].path, en[t] = L[j].wait, d[b].path = sc,
         ex[b] = Down(Last(L).wait, Len(Outer(L).wait)),
         ~AnyDepth => L[j].wait = Outer(L).wait
  PROVE  Edge(d, en, ex, b, t)
<1> DEFINE o == Len(L) - 1
           w == Last(L).wait
           r == Outer(L).wait
           m == Len(r)
           p == L[j].path
           v == L[j].wait
<1>1. /\ Levels(L, n) /\ Len(L) \in Nat /\ Len(L) > 1 /\ Last(L).path = sc
      /\ o \in DOMAIN L /\ Len(L) \in DOMAIN L /\ Last(L) = L[Len(L)]
      /\ w \in Seq(Entry) /\ r \in Seq(Entry) /\ Cuts(w, Outer(L).path, r)
      /\ DOMAIN L = 1 .. Len(L)
  BY StackFacts, LevelParts
<1>2. /\ m \in 0 .. Len(w) /\ r = SubSeq(w, 1, m)
      /\ \A i \in m + 1 .. Len(w) : ~IsIn(w[i].scope, Outer(L).path)
  BY <1>1, CutsFacts
<1>3. ex[b].pend = r /\ ex[b] = Down(w, m)
  BY <1>1, <1>2, DownFacts
<1>4. ex[b].leav # 0 => ~IsIn(ex[b].leav, Outer(L).path)
  <2>1. CASE m = Len(w)
    <3>1. ex[b] = At(w, 0)
      BY <1>1, <1>2, <1>3, <2>1, DownFacts
    <3>2. QED
      BY <1>1, <3>1, AtType
  <2>2. CASE m # Len(w)
    <3>1. ex[b].leav = w[m + 1].scope
      BY <1>1, <1>2, <1>3, <2>2, DownFacts
    <3>2. Len(w) \in Nat
      BY <1>1, LenProperties
    <3> HIDE DEF m, w
    <3>3. m + 1 \in m + 1 .. Len(w)
      BY <1>2, <2>2, <3>2
    <3>4. QED
      BY <1>2, <3>1, <3>3
  <2>3. QED
    BY <2>1, <2>2
<1>5. j \in DOMAIN L /\ (j = o \/ j < o)
  <2>1. Len(L) \in Nat
    BY <1>1
  <2>2. j \in 1 .. Len(L) /\ (j = o \/ j < o)
    BY <2>1
  <2>3. QED
    BY <1>1, <2>2
<1>6. \A i \in DOMAIN r : IsIn(r[i].scope, Outer(L).path)
  BY <1>1 DEF Levels, LevelFit, Outer
<1>7. /\ Cuts(r, p, v)
      /\ \A i \in DOMAIN p : IsIn(p[i], Outer(L).path)
  <2>1. CASE j = o
    <3>1. r = v /\ p = Outer(L).path
      BY <2>1 DEF Outer
    <3>2. Cuts(r, p, r)
      BY <1>1, <1>6, <3>1, CutsAll
    <3>3. QED
      BY <3>1, <3>2 DEF IsIn
  <2>2. CASE j < o
    <3>1. Holds(L[j], L[o])
      BY <1>1, <1>5, <2>2 DEF Levels
    <3>2. QED
      BY <3>1 DEF Holds, Outer
  <2>3. QED
    BY <1>5, <2>1, <2>2
<1>8. ~IsIn(Last(sc), Outer(L).path)
  <2>1. o < Len(L)
    BY <1>1
  <2>2. Holds(L[o], L[Len(L)])
    BY <1>1, <2>1 DEF Levels
  <2>3. QED
    BY <1>1, <2>2 DEF Holds, Outer
<1>9. ASSUME NEW i \in Len(v) + 1 .. Len(r)
      PROVE  r[i].scope # Last(sc)
  <2>1. Len(v) \in 0 .. Len(r) /\ Len(r) \in Nat /\ DOMAIN r = 1 .. Len(r)
    BY <1>1, <1>7, CutsFacts, LenProperties
  <2>2. i \in 1 .. Len(r)
    BY <2>1
  <2>3. QED
    BY <1>6, <1>8, <2>1, <2>2
<1>10. ex[b].leav # 0 => ~IsIn(ex[b].leav, p)
  BY <1>4, <1>7 DEF IsIn
<1> HIDE DEF p, v, r, m, w
<1>11. /\ Stays(d, t) = p /\ en[t] = v
       /\ ~AnyDepth => v = r
       /\ d[b].path = sc
  BY DEF p, v, r
<1> DEFINE u == ex[b].pend
           g == en[t]
           l == ex[b].leav
<1>12. u = r /\ g = v /\ Stays(d, t) = p
  BY <1>3, <1>11
<1> HIDE DEF u, g, l
<1>13. /\ Cuts(u, Stays(d, t), g)
       /\ \A i \in Len(g) + 1 .. Len(u) : u[i].scope # Last(d[b].path)
       /\ ~AnyDepth => g = u
  BY <1>7, <1>9, <1>11, <1>12
<1>14. l # 0 => ~IsIn(l, Stays(d, t))
  BY <1>10, <1>12 DEF l
<1>15. QED
  BY <1>13, <1>14 DEF Edge, u, g, l

-----------------------------------------------------------------------------
(* Typing what a statement emitted.                                        *)

(* A block that got the calls of its newest waiting expressions.           *)
LEMMA TypedCalls ==
  ASSUME NEW c \in Blocks, NEW k \in DOMAIN c, NEW en, NEW ex, Typed(c, en, ex, k),
         NEW w \in Seq(Entry), ex[k] = At(w, 0),
         \A i \in DOMAIN w : IsIn(w[i].scope, c[k].path),
         NEW m \in 0 .. Len(w), NEW rs, Calls(rs, w, m),
         NEW d, d[k].path = c[k].path, d[k].ins = c[k].ins \o rs,
         NEW en2, NEW ex2, en2[k] = en[k], ex2[k] = Down(w, m),
         \A t \in d[k].term.to : Edge(d, en2, ex2, k, t),
         d[k].term.op = "ret" => m = 0
  PROVE  Typed(d, en2, ex2, k)
<1>1. c[k].ins \in Seq(Instr)
  BY BlockParts
<1>2. Carries(c[k].ins \o rs, c[k].path, en[k], Down(w, m))
  <2>1. Carries(c[k].ins, c[k].path, en[k], At(w, 0))
    BY DEF Typed
  <2>2. QED
    BY <1>1, <2>1, CarryRuns
<1>3. m = 0 => ex2[k].pend = <<>>
  <2>1. ex2[k].pend = SubSeq(w, 1, m) /\ Len(SubSeq(w, 1, m)) = m
        /\ SubSeq(w, 1, m) \in Seq(Entry)
    BY DownFacts, PrefixFacts
  <2>2. QED
    BY <2>1, EmptySeq
<1>4. c[k].path # <<>>
  BY DEF Typed
<1>5. QED
  BY <1>2, <1>3, <1>4 DEF Typed

(* A block that only got its terminator.                                   *)
LEMMA TypedEnd ==
  ASSUME NEW c, NEW k, NEW en, NEW ex, Typed(c, en, ex, k),
         NEW d, d[k].path = c[k].path, d[k].ins = c[k].ins,
         NEW en2, NEW ex2, en2[k] = en[k], ex2[k] = ex[k],
         \A t \in d[k].term.to : Edge(d, en2, ex2, k, t),
         d[k].term.op # "ret"
  PROVE  Typed(d, en2, ex2, k)
BY DEF Typed

(* A new block without instructions.                                       *)
LEMMA TypedNew ==
  ASSUME NEW d, NEW b, d[b].ins = <<>>, d[b].path # <<>>,
         NEW en, NEW ex, NEW w \in Seq(Entry), en[b] = w, ex[b] = At(w, 0),
         \A t \in d[b].term.to : Edge(d, en, ex, b, t),
         d[b].term.op # "ret"
  PROVE  Typed(d, en, ex, b)
<1>1. Carries(<<>>, d[b].path, w, At(w, 0))
  BY CarryNone
<1>2. QED
  BY <1>1 DEF Typed

(* The error path of `?'.                                                  *)
LEMMA TypedError ==
  ASSUME NEW d, NEW b, NEW rs, d[b].ins = rs, d[b].path # <<>>,
         NEW en, NEW ex, NEW w \in Seq(Entry), Calls(rs, w, 0),
         en[b] = w, ex[b] = Down(w, 0),
         \A i \in DOMAIN w : IsIn(w[i].scope, d[b].path),
         d[b].term.to = {}
  PROVE  Typed(d, en, ex, b)
<1>1. Carries(<<>>, d[b].path, w, At(w, 0))
  BY CarryNone
<1> DEFINE none == <<>>
<1>2. none \in Seq(Instr) /\ Len(w) \in Nat
  BY LenProperties
<1>3. 0 \in 0 .. Len(w)
  BY <1>2
<1> HIDE DEF none
<1>4. Carries(none, d[b].path, w, At(w, 0))
  BY <1>1 DEF none
<1>5. Carries(none \o rs, d[b].path, w, Down(w, 0))
  BY <1>2, <1>3, <1>4, CarryRuns
<1>6. none \o rs = rs
  <2>1. rs \in Seq(Instr)
    BY DEF Calls
  <2>2. QED
    BY <2>1 DEF none
<1>7. Down(w, 0).pend = <<>>
  <2>1. Down(w, 0).pend = SubSeq(w, 1, 0)
    BY <1>3, DownFacts
  <2>2. SubSeq(w, 1, 0) \in Seq(Entry) /\ Len(SubSeq(w, 1, 0)) = 0
    BY <1>3, PrefixFacts
  <2>3. SubSeq(w, 1, 0) = <<>>
    BY <2>2, EmptySeq
  <2>4. QED
    BY <2>1, <2>3
<1>8. QED
  BY <1>5, <1>6, <1>7 DEF Typed

(* Function c has become d and its typing is extended; only the blocks of  *)
(* B have changed.                                                         *)
Widens(c, en, ex, d, en2, ex2, B) ==
  /\ c \in Blocks
  /\ Inside(c, Len(c))
  /\ Grows(c, d, B)
  /\ en2 \in [DOMAIN d -> Seq(Entry)]
  /\ ex2 \in [DOMAIN d -> Waiting]
  /\ \A b \in DOMAIN c : /\ en2[b] = en[b]
                         /\ b \notin B => ex2[b] = ex[b]

(* What an extension leaves alone.                                         *)
LEMMA WidensFacts ==
  ASSUME NEW c, NEW en, NEW ex, NEW d, NEW en2, NEW ex2, NEW B,
         Widens(c, en, ex, d, en2, ex2, B)
  PROVE  /\ DOMAIN c \subseteq DOMAIN d
         /\ DOMAIN c = 1 .. Len(c)
         /\ DOMAIN d = 1 .. Len(d)
         /\ Len(c) \in Nat /\ Len(d) \in Nat /\ Len(c) <= Len(d)
         /\ \A b \in DOMAIN c : /\ d[b].path = c[b].path
                                /\ Stays(d, b) = Stays(c, b)
                                /\ b \notin B => d[b] = c[b]
<1>1. /\ c \in Blocks /\ d \in Blocks /\ Len(c) <= Len(d)
      /\ \A b \in DOMAIN c : d[b].path = c[b].path /\ (b \notin B => d[b] = c[b])
  BY DEF Widens, Grows
<1>2. /\ DOMAIN c = 1 .. Len(c) /\ DOMAIN d = 1 .. Len(d)
      /\ Len(c) \in Nat /\ Len(d) \in Nat
  BY <1>1, LenProperties DEF Blocks
<1>3. DOMAIN c \subseteq DOMAIN d
  BY <1>1, <1>2
<1>4. QED
  BY <1>1, <1>2, <1>3 DEF Stays

(* What is typed stays typed when what has changed is.                     *)
LEMMA SoundStep ==
  ASSUME NEW c, NEW en, NEW ex, Sound(c, en, ex),
         NEW d, NEW en2, NEW ex2, NEW B, Widens(c, en, ex, d, en2, ex2, B),
         \A b \in DOMAIN d : b \notin DOMAIN c \/ b \in B => Typed(d, en2, ex2, b)
  PROVE  Sound(d, en2, ex2)
<1>1. ASSUME NEW b \in DOMAIN c, b \notin B
      PROVE  Typed(d, en2, ex2, b)
  <2>1. d[b] = c[b] /\ en2[b] = en[b] /\ ex2[b] = ex[b]
    BY <1>1, WidensFacts DEF Widens
  <2>2. Typed(c, en, ex, b)
    BY <1>1 DEF Sound
  <2>3. ASSUME NEW t \in d[b].term.to
        PROVE  Edge(d, en2, ex2, b, t)
    <3>1. t \in c[b].term.to
      BY <2>1
    <3>2. c[b].term.to \subseteq DOMAIN c
      BY <1>1, WidensFacts DEF Widens, Inside
    <3>3. /\ t \in DOMAIN c
          /\ Stays(d, t) = Stays(c, t) /\ en2[t] = en[t]
      <4>1. t \in DOMAIN c
        BY <3>1, <3>2
      <4>2. \A a \in DOMAIN c : Stays(d, a) = Stays(c, a)
        BY WidensFacts
      <4>3. \A a \in DOMAIN c : en2[a] = en[a]
        BY DEF Widens
      <4>4. QED
        BY <4>1, <4>2, <4>3
    <3>4. Edge(c, en, ex, b, t)
      BY <2>2, <3>1 DEF Typed
    <3>5. QED
      BY <2>1, <3>3, <3>4 DEF Edge
  <2>4. QED
    BY <2>1, <2>2, <2>3 DEF Typed
<1>2. \A b \in DOMAIN d : Typed(d, en2, ex2, b)
  BY <1>1
<1>3. QED
  BY <1>2 DEF Sound, Widens

-----------------------------------------------------------------------------
(* The open constructs.                                                    *)

(* Code that comes to block t finds the k outermost scopes open and what   *)
(* waits in them.                                                          *)
Target(c, en, L, t, k) ==
  /\ t \in DOMAIN c
  /\ k \in DOMAIN L
  /\ Stays(c, t) = L[k].path
  /\ en[t] = L[k].wait

(* Nothing was emitted into t yet, the builder being at block n.           *)
Waits(c, n, en, ex, L, t, k) ==
  /\ Target(c, en, L, t, k)
  /\ ex[t] = At(en[t], 0)
  /\ t # n

(* The number of scopes around construct f.                                *)
Around(c, f) == Len(c[f.done].path)

(* The block the construct goes on with.                                   *)
NextFit(c, n, en, ex, L, f, k) ==
  /\ f.kind = "then" =>
       /\ Waits(c, n, en, ex, L, f.next, k)
       /\ c[f.next].path = IF f.alt = "block" THEN Append(L[k].path, f.next)
                           ELSE L[k].path
  /\ f.kind = "while" => Target(c, en, L, f.next, k)
  /\ f.kind = "for" => /\ Target(c, en, L, f.next, k + 1)
                       /\ L[k + 1].wait = L[k].wait
  /\ f.kind \in {"loop", "unsafe", "else"} => f.next = f.done

(* The block a continue of the construct goes to.                          *)
LoopFit(c, ls, en, L, f, k) ==
  \A l \in DOMAIN ls : ls[l].brk = f.done =>
    \/ Target(c, en, L, ls[l].cont, k)
    \/ f.kind = "for" /\ Target(c, en, L, ls[l].cont, k + 1)

FrameFit(c, n, ls, en, ex, L, f) ==
  LET k == Around(c, f)
  IN /\ k + Opens(f.kind) <= Len(L)
     /\ Waits(c, n, en, ex, L, f.done, k)
     /\ c[f.done].path = L[k].path
     /\ Last(L[k].path) # 0
     /\ \A j \in DOMAIN L[k].path : L[k].path[j] < f.next
     /\ NextFit(c, n, en, ex, L, f, k)
     /\ LoopFit(c, ls, en, L, f, k)

(* Every open construct fits, and an inner one stands inside the scopes of *)
(* an outer one.                                                           *)
FramesGood(c, n, ls, en, ex, L, fs) ==
  /\ \A i \in DOMAIN fs : i > 1 => FrameFit(c, n, ls, en, ex, L, fs[i])
  /\ \A i, j \in DOMAIN fs : i > 1 /\ i < j =>
       Around(c, fs[i]) + Opens(fs[i].kind) <= Around(c, fs[j])

(* The levels up to K stay.                                                *)
Agree(L, M, K) == \A j \in DOMAIN L : j <= K => j \in DOMAIN M /\ M[j] = L[j]

(* The levels a construct refers to.                                       *)
Reach(f, k) == IF f.kind = "for" THEN k + 1 ELSE k

(* What a step must leave alone of construct f.                            *)
Clear(c, f, B, n, L, K) ==
  /\ Reach(f, Around(c, f)) <= K
  /\ Around(c, f) + Opens(f.kind) <= Len(L)
  /\ f.done \notin B
  /\ f.done # n
  /\ f.kind = "then" => f.next \notin B /\ f.next # n

(* What it leaves alone of the constructs gs of fs.                        *)
Spares(c, fs, gs, B, n, L, K) ==
  /\ K \in Nat
  /\ DOMAIN gs \subseteq DOMAIN fs
  /\ DOMAIN gs \subseteq Nat
  /\ \A i \in DOMAIN gs : /\ gs[i] = fs[i]
                          /\ i > 1 => Clear(c, fs[i], B, n, L, K)

(* Entries of ls that were not in it before belong to new constructs.      *)
LoopsFrom(c, ls, ms) ==
  \A l \in DOMAIN ms : (\E i \in DOMAIN ls : ls[i] = ms[l]) \/ ms[l].brk \notin DOMAIN c

(* A place that code comes to stays what it is.                            *)
LEMMA TargetKeeps ==
  ASSUME NEW c, NEW en, NEW ex, NEW d, NEW en2, NEW ex2, NEW B,
         Widens(c, en, ex, d, en2, ex2, B),
         NEW L, NEW M, NEW K, Agree(L, M, K), NEW k, k <= K, NEW t
  PROVE  /\ Target(c, en, L, t, k) => Target(d, en2, M, t, k)
         /\ \A n, p : Waits(c, n, en, ex, L, t, k) /\ t \notin B /\ t # p
                        => Waits(d, p, en2, ex2, M, t, k)
<1>1. ASSUME Target(c, en, L, t, k)
      PROVE  Target(d, en2, M, t, k)
  <2>1. /\ t \in DOMAIN c /\ k \in DOMAIN L
        /\ Stays(c, t) = L[k].path /\ en[t] = L[k].wait
    BY <1>1 DEF Target
  <2>2. k \in DOMAIN M /\ M[k] = L[k]
    BY <2>1 DEF Agree
  <2>3. t \in DOMAIN d /\ Stays(d, t) = Stays(c, t)
    BY <2>1, WidensFacts
  <2>4. en2[t] = en[t]
    BY <2>1 DEF Widens
  <2>5. QED
    BY <2>1, <2>2, <2>3, <2>4 DEF Target
<1>2. ASSUME NEW n, NEW p, Waits(c, n, en, ex, L, t, k), t \notin B, t # p
      PROVE  Waits(d, p, en2, ex2, M, t, k)
  <2>1. Target(c, en, L, t, k) /\ ex[t] = At(en[t], 0)
    BY <1>2 DEF Waits
  <2>2. t \in DOMAIN c
    BY <2>1 DEF Target
  <2>3. en2[t] = en[t] /\ ex2[t] = ex[t]
    BY <1>2, <2>2 DEF Widens
  <2>4. QED
    BY <1>1, <1>2, <2>1, <2>3 DEF Waits
<1>3. QED
  BY <1>1, <1>2

(* A construct that a step leaves alone still fits.                        *)
LEMMA FrameKeeps ==
  ASSUME NEW c, NEW en, NEW ex, NEW d, NEW en2, NEW ex2, NEW B,
         Widens(c, en, ex, d, en2, ex2, B),
         NEW L, NEW M, NEW K \in Nat, Agree(L, M, K), NEW n, NEW p,
         NEW ls, NEW ms, LoopsFrom(c, ls, ms),
         NEW f, FrameFit(c, n, ls, en, ex, L, f), Clear(c, f, B, p, M, K)
  PROVE  /\ FrameFit(d, p, ms, en2, ex2, M, f)
         /\ Around(d, f) = Around(c, f)
<1> DEFINE k == Around(c, f)
<1>1. /\ k + Opens(f.kind) <= Len(L)
      /\ Waits(c, n, en, ex, L, f.done, k)
      /\ c[f.done].path = L[k].path
      /\ Last(L[k].path) # 0
      /\ \A j \in DOMAIN L[k].path : L[k].path[j] < f.next
      /\ NextFit(c, n, en, ex, L, f, k)
      /\ LoopFit(c, ls, en, L, f, k)
  BY DEF FrameFit
<1>2. /\ f.done \in DOMAIN c /\ k \in DOMAIN L
  BY <1>1 DEF Waits, Target
<1>3. k \in Nat
  <2>1. c[f.done].path \in Seq(Nat)
    BY <1>2, BlockParts DEF Widens
  <2>2. QED
    BY <2>1, LenProperties DEF Around
<1>4. Around(d, f) = k /\ d[f.done].path = c[f.done].path
  <2>1. d[f.done].path = c[f.done].path
    BY <1>2, WidensFacts
  <2>2. QED
    BY <2>1 DEF Around
<1> HIDE DEF k
<1>5. k <= K /\ (f.kind = "for" => k + 1 <= K)
  BY <1>3 DEF Clear, Reach, k
<1>6. M[k] = L[k]
  BY <1>2, <1>5 DEF Agree
<1>7. Waits(d, p, en2, ex2, M, f.done, k)
  BY <1>1, <1>5, TargetKeeps DEF Clear
<1>8. NextFit(d, p, en2, ex2, M, f, k)
  <2>1. ASSUME f.kind = "then"
        PROVE  /\ Waits(d, p, en2, ex2, M, f.next, k)
               /\ d[f.next].path = IF f.alt = "block" THEN Append(M[k].path, f.next)
                                   ELSE M[k].path
    <3>1. /\ Waits(c, n, en, ex, L, f.next, k)
          /\ c[f.next].path = IF f.alt = "block" THEN Append(L[k].path, f.next)
                              ELSE L[k].path
      BY <1>1, <2>1 DEF NextFit
    <3>2. Waits(d, p, en2, ex2, M, f.next, k)
      BY <1>5, <2>1, <3>1, TargetKeeps DEF Clear
    <3>3. f.next \in DOMAIN c
      BY <3>1 DEF Waits, Target
    <3>4. d[f.next].path = c[f.next].path
      BY <3>3, WidensFacts
    <3>5. QED
      BY <1>6, <3>1, <3>2, <3>4
  <2>2. ASSUME f.kind = "while"
        PROVE  Target(d, en2, M, f.next, k)
    BY <1>1, <1>5, <2>2, TargetKeeps DEF NextFit
  <2>3. ASSUME f.kind = "for"
        PROVE  Target(d, en2, M, f.next, k + 1) /\ M[k + 1].wait = M[k].wait
    <3>1. Target(c, en, L, f.next, k + 1) /\ L[k + 1].wait = L[k].wait
      BY <1>1, <2>3 DEF NextFit
    <3>2. k + 1 \in DOMAIN L
      BY <3>1 DEF Target
    <3>3. M[k + 1] = L[k + 1]
      BY <1>5, <2>3, <3>2 DEF Agree
    <3>4. Target(d, en2, M, f.next, k + 1)
      BY <1>5, <2>3, <3>1, TargetKeeps
    <3>5. QED
      BY <1>6, <3>1, <3>3, <3>4
  <2>4. f.kind \in {"loop", "unsafe", "else"} => f.next = f.done
    BY <1>1 DEF NextFit
  <2>5. QED
    BY <2>1, <2>2, <2>3, <2>4 DEF NextFit
<1>9. LoopFit(d, ms, en2, M, f, k)
  <2>1. SUFFICES ASSUME NEW l \in DOMAIN ms, ms[l].brk = f.done
                 PROVE  \/ Target(d, en2, M, ms[l].cont, k)
                        \/ f.kind = "for" /\ Target(d, en2, M, ms[l].cont, k + 1)
    BY DEF LoopFit
  <2>2. PICK i \in DOMAIN ls : ls[i] = ms[l]
    BY <1>2, <2>1 DEF LoopsFrom
  <2>3. \/ Target(c, en, L, ms[l].cont, k)
        \/ f.kind = "for" /\ Target(c, en, L, ms[l].cont, k + 1)
    BY <1>1, <2>1, <2>2 DEF LoopFit
  <2>4. CASE Target(c, en, L, ms[l].cont, k)
    BY <1>5, <2>4, TargetKeeps
  <2>5. CASE f.kind = "for" /\ Target(c, en, L, ms[l].cont, k + 1)
    BY <1>5, <2>5, TargetKeeps
  <2>6. QED
    BY <2>3, <2>4, <2>5
<1>10. k + Opens(f.kind) <= Len(M)
  BY DEF Clear, k
<1>11. /\ d[f.done].path = M[k].path
       /\ Last(M[k].path) # 0
       /\ \A j \in DOMAIN M[k].path : M[k].path[j] < f.next
  BY <1>1, <1>4, <1>6
<1>12. FrameFit(d, p, ms, en2, ex2, M, f)
  BY <1>4, <1>7, <1>8, <1>9, <1>10, <1>11, Zenon DEF FrameFit
<1>13. QED
  BY <1>4, <1>12 DEF k

(* The constructs that stay open after a step.                             *)
LEMMA FramesKept ==
  ASSUME NEW c, NEW en, NEW ex, NEW d, NEW en2, NEW ex2, NEW B,
         Widens(c, en, ex, d, en2, ex2, B),
         NEW L, NEW M, NEW K, Agree(L, M, K), NEW n, NEW p,
         NEW ls, NEW ms, LoopsFrom(c, ls, ms),
         NEW fs, FramesGood(c, n, ls, en, ex, L, fs),
         NEW gs, Spares(c, fs, gs, B, p, M, K)
  PROVE  /\ FramesGood(d, p, ms, en2, ex2, M, gs)
         /\ \A i \in DOMAIN gs : i > 1 => Around(d, gs[i]) = Around(c, fs[i])
<1>1. ASSUME NEW i \in DOMAIN gs, i > 1
      PROVE  /\ FrameFit(d, p, ms, en2, ex2, M, gs[i])
             /\ Around(d, gs[i]) = Around(c, fs[i])
  <2> DEFINE f == fs[i]
  <2>1. gs[i] = f
    BY DEF Spares
  <2>2. FrameFit(c, n, ls, en, ex, L, f) /\ Clear(c, f, B, p, M, K) /\ K \in Nat
    BY <1>1 DEF FramesGood, Spares
  <2> HIDE DEF f
  <2>3. /\ FrameFit(d, p, ms, en2, ex2, M, f)
        /\ Around(d, f) = Around(c, f)
    BY <2>2, FrameKeeps
  <2>4. QED
    BY <2>1, <2>3 DEF f
<1>2. ASSUME NEW i \in DOMAIN gs, NEW j \in DOMAIN gs, i > 1, i < j
      PROVE  Around(d, gs[i]) + Opens(gs[i].kind) <= Around(d, gs[j])
  <2>0. i \in Nat /\ j \in Nat /\ j > 1
    BY <1>2 DEF Spares
  <2>1. Around(c, fs[i]) + Opens(fs[i].kind) <= Around(c, fs[j])
    BY <1>2 DEF FramesGood, Spares
  <2>2. /\ gs[i] = fs[i]
        /\ Around(d, gs[i]) = Around(c, fs[i])
        /\ Around(d, gs[j]) = Around(c, fs[j])
    BY <1>1, <1>2, <2>0 DEF Spares
  <2>3. QED
    BY <2>1, <2>2
<1>3. QED
  BY <1>1, <1>2 DEF FramesGood

(* A construct is entered.                                                 *)
LEMMA GoodPush ==
  ASSUME NEW c, NEW n, NEW ls, NEW en, NEW ex, NEW L,
         NEW fs \in Seq(FrameType), FramesGood(c, n, ls, en, ex, L, fs),
         NEW f \in FrameType, FrameFit(c, n, ls, en, ex, L, f),
         \A i \in DOMAIN fs : i > 1 =>
           Around(c, fs[i]) + Opens(fs[i].kind) <= Around(c, f)
  PROVE  FramesGood(c, n, ls, en, ex, L, Append(fs, f))
<1> DEFINE gs == Append(fs, f)
<1>1. /\ gs \in Seq(FrameType) /\ Len(fs) \in Nat
      /\ DOMAIN fs = 1 .. Len(fs) /\ DOMAIN gs = 1 .. Len(fs) + 1
      /\ \A i \in DOMAIN fs : gs[i] = fs[i]
      /\ gs[Len(fs) + 1] = f
  BY PushFacts
<1>2. \A i \in DOMAIN gs : i \in DOMAIN fs \/ i = Len(fs) + 1
  BY <1>1
<1>3. \A i, j \in DOMAIN gs : i < j => i \in DOMAIN fs
  BY <1>1
<1> HIDE DEF gs
<1>4. \A i \in DOMAIN gs : i > 1 => FrameFit(c, n, ls, en, ex, L, gs[i])
  BY <1>1, <1>2 DEF FramesGood
<1>5. ASSUME NEW i \in DOMAIN gs, NEW j \in DOMAIN gs, i > 1, i < j
      PROVE  Around(c, gs[i]) + Opens(gs[i].kind) <= Around(c, gs[j])
  <2>1. i \in DOMAIN fs
    BY <1>3, <1>5
  <2>2. CASE j \in DOMAIN fs
    BY <1>1, <1>5, <2>1, <2>2 DEF FramesGood
  <2>3. CASE j = Len(fs) + 1
    BY <1>1, <1>5, <2>1, <2>3
  <2>4. QED
    BY <1>2, <2>2, <2>3
<1>6. FramesGood(c, n, ls, en, ex, L, gs)
  BY <1>4, <1>5 DEF FramesGood
<1>7. QED
  BY <1>6 DEF gs

-----------------------------------------------------------------------------
(* The builder and the typing of what it has emitted.  The place at the    *)
(* end of an unfinished block has the innermost waiting list.              *)
CurFit(c, n, sc, ex, L) ==
  /\ c[n].path = sc
  /\ Last(sc) # 0
  /\ IsOpen(c, n) => ex[n] = At(Last(L).wait, 0)

Fit(c, n, sc, df, mk, ls, fs, en, ex, L) ==
  /\ Sound(c, en, ex)
  /\ Stack(L, sc, df, mk, Len(c))
  /\ CurFit(c, n, sc, ex, L)
  /\ FramesGood(c, n, ls, en, ex, L, fs)

(* What waits in the open scopes.                                          *)
LEMMA FitFacts ==
  ASSUME IInv, frames # <<>>,
         NEW en, NEW ex, NEW L,
         Fit(code, cur, scopes, defers, marks, loops, frames, en, ex, L)
  PROVE  /\ Sound(code, en, ex)
         /\ Typed(code, en, ex, cur)
         /\ Stack(L, scopes, defers, marks, Len(code))
         /\ Len(L) = Len(scopes) /\ Len(L) \in Nat /\ Len(L) > 1
         /\ scopes # <<>> /\ Last(scopes) # 0 /\ Last(scopes) \in Nat
         /\ code[cur].path = scopes
         /\ \A i \in DOMAIN scopes : scopes[i] <= Len(code)
         /\ Last(L).wait \in Seq(Entry)
         /\ \A i \in DOMAIN Last(L).wait : IsIn(Last(L).wait[i].scope, scopes)
         /\ Synced(defers, Last(L).wait)
         /\ Len(Last(L).wait) = Len(defers)
         /\ Mark = Len(Outer(L).wait)
         /\ IsOpen(code, cur) => ex[cur] = At(Last(L).wait, 0)
         /\ FramesGood(code, cur, loops, en, ex, L, frames)
<1>1. /\ Sound(code, en, ex)
      /\ Stack(L, scopes, defers, marks, Len(code))
      /\ code[cur].path = scopes /\ Last(scopes) # 0
      /\ IsOpen(code, cur) => ex[cur] = At(Last(L).wait, 0)
      /\ FramesGood(code, cur, loops, en, ex, L, frames)
  BY DEF Fit, CurFit
<1>2. /\ Levels(L, Len(code)) /\ Len(L) \in Nat /\ Len(L) > 1
      /\ Last(L).path = scopes
      /\ Last(L) = L[Len(L)] /\ Len(L) \in DOMAIN L
      /\ scopes \in Seq(Nat) /\ Len(scopes) = Len(L)
      /\ Last(L).wait \in Seq(Entry)
      /\ MarkOf(marks) = Len(Outer(L).wait)
      /\ Len(defers) = Len(Last(L).wait)
  BY <1>1, StackFacts
<1>3. LevelFit(Last(L), Len(L), Len(code))
  BY <1>2 DEF Levels
<1>4. /\ \A i \in DOMAIN scopes : scopes[i] <= Len(code)
      /\ \A i \in DOMAIN Last(L).wait : IsIn(Last(L).wait[i].scope, scopes)
  BY <1>2, <1>3 DEF LevelFit
<1>5. cur \in DOMAIN code /\ Mark = MarkOf(marks)
  BY StateFacts
<1>6. scopes # <<>>
  BY <1>2, EmptySeq
<1>7. Last(scopes) \in Nat
  BY <1>2, <1>6, PopFacts
<1>8. Typed(code, en, ex, cur)
  BY <1>1, <1>5 DEF Sound
<1>9. Synced(defers, Last(L).wait)
  BY <1>1 DEF Stack
<1>10. QED
  BY <1>1, <1>2, <1>4, <1>5, <1>6, <1>7, <1>8, <1>9

(* The scopes around the innermost construct.                              *)
LEMMA TopAround ==
  ASSUME IInv, frames # <<>>, Top.kind # "body"
  PROVE  /\ Around(code, Top) = Len(scopes) - Opens(Top.kind)
         /\ Around(code, Top) \in Nat
         /\ Around(code, Top) >= 2
         /\ Len(frames) \in DOMAIN frames /\ Len(frames) > 1
         /\ Top = frames[Len(frames)]
<1>1. /\ code \in Blocks /\ FramesFit(code, frames) /\ Len(scopes) \in Nat
      /\ frames \in Seq(FrameType)
  BY StateFacts
<1>2. Grows(code, code, {})
  BY <1>1, GrowsNothing
<1>3. ScopesFit(code, frames, Len(scopes))
  BY DEF IInv
<1>4. /\ Len(scopes) - Opens(Top.kind) >= 2
      /\ Len(code[Top.done].path) = Len(scopes) - Opens(Top.kind)
  BY <1>1, <1>2, <1>3, ScopesLeave DEF Top
<1>5. /\ Len(frames) \in Nat \ {0} /\ Len(frames) \in DOMAIN frames
      /\ Top = frames[Len(frames)]
  BY <1>1, PopFacts DEF Top
<1>6. Len(frames) > 1
  <2>1. Len(frames) # 1
    BY <1>1, <1>5 DEF FramesFit
  <2>2. Len(frames) \in Nat /\ Len(frames) # 0
    BY <1>5
  <2>3. QED
    BY <2>1, <2>2
<1>7. Opens(Top.kind) \in Nat
  BY DEF Opens
<1>8. QED
  BY <1>1, <1>4, <1>5, <1>6, <1>7 DEF Around

(* The frames of the open constructs and their blocks.                     *)
LEMMA FrameParts ==
  ASSUME IInv, NEW en, NEW ex, NEW L,
         FramesGood(code, cur, loops, en, ex, L, frames),
         NEW i \in DOMAIN frames, i > 1
  PROVE  /\ FrameFit(code, cur, loops, en, ex, L, frames[i])
         /\ Around(code, frames[i]) \in Nat
         /\ Opens(frames[i].kind) \in Nat
         /\ Around(code, frames[i]) + Opens(frames[i].kind) <= Len(L)
         /\ frames[i].done \in DOMAIN code /\ frames[i].done # cur
         /\ frames[i].kind = "then" => /\ frames[i].next \in DOMAIN code
                                       /\ frames[i].next # cur
         /\ Around(code, frames[i]) \in DOMAIN L
<1> DEFINE f == frames[i]
           k == Around(code, f)
<1>1. FrameFit(code, cur, loops, en, ex, L, f)
  BY DEF FramesGood
<1>2. /\ k + Opens(f.kind) <= Len(L)
      /\ Waits(code, cur, en, ex, L, f.done, k)
      /\ f.kind = "then" => Waits(code, cur, en, ex, L, f.next, k)
  BY <1>1 DEF FrameFit, NextFit
<1>3. /\ f.done \in DOMAIN code /\ f.done # cur /\ k \in DOMAIN L
      /\ f.kind = "then" => f.next \in DOMAIN code /\ f.next # cur
  BY <1>2 DEF Waits, Target
<1>4. k \in Nat
  <2>1. code[f.done].path \in Seq(Nat)
    BY <1>3, BlockParts, StateFacts
  <2>2. QED
    BY <2>1, LenProperties DEF Around
<1>5. Opens(f.kind) \in Nat
  BY DEF Opens
<1>6. QED
  BY <1>1, <1>2, <1>3, <1>4, <1>5

(* The levels a construct refers to are the ones around its own scopes.    *)
LEMMA ReachFacts ==
  ASSUME NEW f, NEW k \in Nat
  PROVE  /\ Reach(f, k) \in Nat
         /\ Reach(f, k) <= k + Opens(f.kind)
         /\ f.kind # "elif" => Reach(f, k) <= k + Opens(f.kind) - 1
BY DEF Reach, Opens

(* A statement without a construct of its own.                             *)
LEMMA StraightFit ==
  ASSUME IInv, frames # <<>>, Top.kind # "elif",
         NEW en, NEW ex, NEW L,
         Fit(code, cur, scopes, defers, marks, loops, frames, en, ex, L),
         NEW d, NEW en2, NEW ex2,
         Widens(code, en, ex, d, en2, ex2, {cur}), Sound(d, en2, ex2),
         NEW p, p = cur \/ p \notin DOMAIN code,
         NEW ds, NEW M, Stack(M, scopes, ds, marks, Len(d)),
         Len(M) = Len(L), \A k \in 1 .. Len(L) - 1 : M[k] = L[k],
         CurFit(d, p, scopes, ex2, M)
  PROVE  Fit(d, p, scopes, ds, marks, loops, frames, en2, ex2, M)
<1> DEFINE K == Len(L) - 1
<1>1. /\ Len(L) = Len(scopes) /\ Len(L) \in Nat /\ Len(L) > 1
      /\ FramesGood(code, cur, loops, en, ex, L, frames)
      /\ Stack(L, scopes, defers, marks, Len(code))
  BY FitFacts
<1>2. K \in Nat
  BY <1>1
<1>3. DOMAIN L = 1 .. Len(L) /\ DOMAIN M = 1 .. Len(M)
  BY <1>1, LevelParts DEF Stack
<1>4. Agree(L, M, K)
  <2>1. SUFFICES ASSUME NEW j \in DOMAIN L, j <= K
                 PROVE  j \in DOMAIN M /\ M[j] = L[j]
    BY DEF Agree
  <2>2. j \in 1 .. Len(L)
    BY <1>3
  <2>3. j \in 1 .. Len(L) - 1
    BY <1>1, <2>1, <2>2
  <2>4. QED
    BY <1>3, <2>2, <2>3
<1>5. LoopsFrom(code, loops, loops)
  BY DEF LoopsFrom
<1>6. /\ frames \in Seq(FrameType) /\ DOMAIN frames = 1 .. Len(frames)
      /\ Len(frames) \in Nat \ {0} /\ Top = frames[Len(frames)]
  BY StateFacts, PopFacts DEF Top
<1>7. DOMAIN frames \subseteq Nat
  BY <1>6
<1>8. ASSUME NEW i \in DOMAIN frames, i > 1
      PROVE  Clear(code, frames[i], {cur}, p, M, K)
  <2> DEFINE f == frames[i]
             k == Around(code, f)
  <2>1. /\ k \in Nat /\ Opens(f.kind) \in Nat /\ k + Opens(f.kind) <= Len(L)
        /\ f.done \in DOMAIN code /\ f.done # cur
        /\ f.kind = "then" => f.next \in DOMAIN code /\ f.next # cur
    BY <1>1, <1>8, FrameParts
  <2>2. Reach(f, k) <= K
    <3>1. CASE i = Len(frames)
      <4>1. f.kind # "elif"
        BY <1>6, <3>1
      <4>2. Reach(f, k) <= k + Opens(f.kind) - 1
        BY <2>1, <4>1, ReachFacts
      <4>3. Reach(f, k) \in Nat
        BY <2>1 DEF Reach
      <4> HIDE DEF f, k
      <4>4. QED
        BY <1>1, <2>1, <4>2, <4>3
    <3>2. CASE i # Len(frames)
      <4>1. i \in 1 .. Len(frames) /\ i < Len(frames) /\ Len(frames) > 1
        <5>1. i \in 1 .. Len(frames)
          BY <1>6
        <5>2. QED
          BY <1>6, <1>8, <3>2, <5>1
      <4>2. Len(frames) \in DOMAIN frames
        BY <1>6
      <4>3. k + Opens(f.kind) <= Around(code, Top)
        BY <1>1, <1>6, <1>8, <4>1, <4>2 DEF FramesGood
      <4>4. Around(code, Top) \in Nat /\ Around(code, Top) + Opens(Top.kind) <= Len(L)
        BY <1>1, <1>6, <4>1, <4>2, FrameParts
      <4>5. Opens(Top.kind) >= 1 /\ Opens(Top.kind) \in Nat
        BY DEF Opens
      <4>6. Reach(f, k) <= k + Opens(f.kind) /\ Reach(f, k) \in Nat
        BY <2>1, ReachFacts
      <4> HIDE DEF f, k
      <4>7. QED
        BY <1>1, <2>1, <4>3, <4>4, <4>5, <4>6
    <3>3. QED
      BY <3>1, <3>2
  <2>3. k + Opens(f.kind) <= Len(M)
    BY <2>1
  <2>4. f.done # p /\ (f.kind = "then" => f.next # p)
    BY <2>1
  <2>5. QED
    BY <2>1, <2>2, <2>3, <2>4 DEF Clear
<1>9. FramesGood(d, p, loops, en2, ex2, M, frames)
  <2>1. Spares(code, frames, frames, {cur}, p, M, K)
    BY <1>2, <1>7, <1>8 DEF Spares
  <2> HIDE DEF K
  <2>2. QED
    BY <1>1, <1>4, <1>5, <2>1, FramesKept
<1>10. QED
  BY <1>9 DEF Fit

(* A construct is entered: what holds of its blocks, scopes and loop.      *)
EnterTo(en, ex, L, d, en2, ex2, p, sc, mk, M, ls, f) ==
  /\ Widens(code, en, ex, d, en2, ex2, {cur}) /\ Sound(d, en2, ex2)
  /\ p \notin DOMAIN code
  /\ Stack(M, sc, defers, mk, Len(d))
  /\ Len(L) <= Len(M)
  /\ \A k \in 1 .. Len(L) : M[k] = L[k]
  /\ LoopsFrom(code, loops, ls)
  /\ f \in FrameType
  /\ FrameFit(d, p, ls, en2, ex2, M, f)
  /\ Around(d, f) = Len(L)
  /\ CurFit(d, p, sc, ex2, M)

(* Entering a construct keeps the builder in step with the typing.         *)
LEMMA EnterFit ==
  ASSUME IInv, frames # <<>>,
         NEW en, NEW ex, NEW L,
         Fit(code, cur, scopes, defers, marks, loops, frames, en, ex, L),
         NEW d, NEW en2, NEW ex2, NEW p, NEW sc, NEW mk, NEW M, NEW ls, NEW f,
         EnterTo(en, ex, L, d, en2, ex2, p, sc, mk, M, ls, f)
  PROVE  Fit(d, p, sc, defers, mk, ls, Append(frames, f), en2, ex2, M)
<1> USE DEF EnterTo
<1> DEFINE K == Len(L)
<1>1. /\ Len(L) \in Nat
      /\ FramesGood(code, cur, loops, en, ex, L, frames)
      /\ Stack(L, scopes, defers, marks, Len(code))
  BY FitFacts
<1>2. DOMAIN L = 1 .. Len(L) /\ DOMAIN M = 1 .. Len(M) /\ Len(M) \in Nat
  BY <1>1, LevelParts DEF Stack
<1>3. Agree(L, M, K)
  <2>1. SUFFICES ASSUME NEW j \in DOMAIN L, j <= K
                 PROVE  j \in DOMAIN M /\ M[j] = L[j]
    BY DEF Agree
  <2>2. j \in 1 .. Len(L)
    BY <1>2
  <2>3. Len(M) \in Nat
    BY <1>2
  <2>4. j \in 1 .. Len(M)
    BY <1>1, <2>2, <2>3
  <2>5. QED
    BY <1>2, <2>2, <2>4
<1>4. frames \in Seq(FrameType) /\ DOMAIN frames \subseteq Nat
  BY StateFacts, LenProperties
<1>5. ASSUME NEW i \in DOMAIN frames, i > 1
      PROVE  Clear(code, frames[i], {cur}, p, M, K)
  <2> DEFINE g == frames[i]
             k == Around(code, g)
  <2>1. /\ k \in Nat /\ Opens(g.kind) \in Nat /\ k + Opens(g.kind) <= Len(L)
        /\ g.done \in DOMAIN code /\ g.done # cur
        /\ g.kind = "then" => g.next \in DOMAIN code /\ g.next # cur
    BY <1>1, <1>5, FrameParts
  <2>2. Reach(g, k) <= k + Opens(g.kind) /\ Reach(g, k) \in Nat
    BY <2>1, ReachFacts
  <2> HIDE DEF g, k
  <2>3. Reach(g, k) <= K /\ k + Opens(g.kind) <= Len(M)
    BY <1>1, <1>2, <2>1, <2>2
  <2>4. g.done # p /\ (g.kind = "then" => g.next # p)
    BY <2>1
  <2>5. Clear(code, g, {cur}, p, M, K)
    BY <2>1, <2>3, <2>4 DEF Clear, k
  <2>6. QED
    BY <2>5 DEF g
<1> HIDE DEF K
<1>6. /\ FramesGood(d, p, ls, en2, ex2, M, frames)
      /\ \A i \in DOMAIN frames : i > 1 => Around(d, frames[i]) = Around(code, frames[i])
  <2>1. K \in Nat
    BY <1>1 DEF K
  <2>2. Spares(code, frames, frames, {cur}, p, M, K)
    BY <1>4, <1>5, <2>1 DEF Spares
  <2>3. QED
    BY <1>1, <1>3, <2>2, FramesKept
<1>7. \A i \in DOMAIN frames : i > 1 =>
        Around(d, frames[i]) + Opens(frames[i].kind) <= Around(d, f)
  BY <1>1, <1>6, FrameParts
<1>8. FramesGood(d, p, ls, en2, ex2, M, Append(frames, f))
  BY <1>4, <1>6, <1>7, GoodPush
<1>9. QED
  BY <1>8 DEF Fit

(* The constructs around the innermost one, whose end or other branch      *)
(* changes its own blocks only.                                            *)
LEMMA TopSpares ==
  ASSUME IInv, frames # <<>>, Top.kind # "body",
         NEW en, NEW ex, NEW L,
         FramesGood(code, cur, loops, en, ex, L, frames),
         NEW B, B \subseteq {cur, Top.next}, NEW p \in {Top.next, Top.done},
         NEW M, NEW K \in Nat, Around(code, Top) <= K, Around(code, Top) <= Len(M),
         Len(M) \in Nat
  PROVE  Spares(code, frames, Base, B, p, M, K)
<1>1. /\ frames \in Seq(FrameType) /\ DOMAIN frames = 1 .. Len(frames)
      /\ Len(frames) \in Nat \ {0} /\ FramesFit(code, frames)
      /\ Base \in Seq(FrameType) /\ DOMAIN Base = 1 .. Len(frames) - 1
      /\ \A i \in DOMAIN Base : Base[i] = frames[i]
  BY StateFacts, PopFacts DEF Base
<1>2. /\ Around(code, Top) \in Nat /\ Top = frames[Len(frames)]
      /\ Len(frames) \in DOMAIN frames /\ Len(frames) > 1
  BY TopAround
<1>3. DOMAIN Base \subseteq DOMAIN frames /\ DOMAIN Base \subseteq Nat
  BY <1>1
<1>4. ASSUME NEW i \in DOMAIN Base, i > 1
      PROVE  Clear(code, frames[i], B, p, M, K)
  <2> DEFINE f == frames[i]
             k == Around(code, f)
  <2>1. i \in DOMAIN frames /\ i < Len(frames)
    <3>1. i \in 1 .. Len(frames) - 1 /\ Len(frames) \in Nat
      BY <1>1
    <3>2. i < Len(frames)
      BY <3>1
    <3>3. QED
      BY <1>3, <3>2
  <2>2. /\ k \in Nat /\ Opens(f.kind) \in Nat
        /\ f.done \in DOMAIN code /\ f.done # cur
        /\ f.kind = "then" => f.next # cur
    BY <1>4, <2>1, FrameParts
  <2>3. k + Opens(f.kind) <= Around(code, Top)
    BY <1>2, <1>4, <2>1 DEF FramesGood
  <2>4. Reach(f, k) \in Nat /\ Reach(f, k) <= k + Opens(f.kind)
    BY <2>2, ReachFacts
  <2>5. /\ f.done < Top.next /\ f.next <= f.done /\ Top.next <= Top.done
        /\ f.next \in Nat /\ f.done \in Nat
        /\ Top.next \in Nat /\ Top.done \in Nat
    <3>1. f.done < Top.next
      BY <1>1, <1>2, <1>4, <2>1 DEF FramesFit
    <3>2. f.next <= f.done
      BY <1>1, <1>4, <2>1 DEF FramesFit
    <3>3. Top.next <= Top.done
      BY <1>1, <1>2 DEF FramesFit
    <3>4. f \in FrameType /\ Top \in FrameType
      BY <1>1, <1>2, <2>1, ElementOfSeq
    <3>5. QED
      BY <3>1, <3>2, <3>3, <3>4 DEF FrameType
  <2> HIDE DEF f, k
  <2>6. Reach(f, k) <= K /\ k + Opens(f.kind) <= Len(M)
    BY <1>2, <2>2, <2>3, <2>4
  <2>7. f.done # Top.next /\ f.done # Top.done /\ f.next # Top.next /\ f.next # Top.done
    BY <2>5
  <2>8. Clear(code, f, B, p, M, K)
    BY <2>2, <2>6, <2>7 DEF Clear, k
  <2>9. QED
    BY <2>8 DEF f
<1>5. QED
  BY <1>1, <1>3, <1>4 DEF Spares

(* The levels that stay when scopes are closed.                            *)
LEMMA AgreeBelow ==
  ASSUME NEW n, NEW L, Levels(L, n), NEW m, NEW M, Levels(M, m),
         NEW K \in Nat, K <= Len(M), \A k \in 1 .. K : M[k] = L[k]
  PROVE  Agree(L, M, K)
<1>1. SUFFICES ASSUME NEW j \in DOMAIN L, j <= K
               PROVE  j \in DOMAIN M /\ M[j] = L[j]
  BY DEF Agree
<1>2. j \in 1 .. Len(L)
  BY LevelParts
<1>3. Len(M) \in Nat /\ Len(L) \in Nat
  BY LevelParts
<1>4. j \in 1 .. K /\ j \in 1 .. Len(M)
  BY <1>1, <1>2, <1>3
<1>5. j \in DOMAIN M
  BY <1>4, LevelParts
<1>6. QED
  BY <1>4, <1>5

(* A construct ends.                                                       *)
LEMMA LeaveFit ==
  ASSUME IInv, frames # <<>>, Top.kind # "body",
         NEW en, NEW ex, NEW L,
         Fit(code, cur, scopes, defers, marks, loops, frames, en, ex, L),
         NEW d, NEW en2, NEW ex2, NEW B,
         B = {cur} \/ (Top.kind = "then" /\ B = {cur, Top.next}),
         Widens(code, en, ex, d, en2, ex2, B), Sound(d, en2, ex2),
         NEW sc, NEW ds, NEW mk, NEW M, Stack(M, sc, ds, mk, Len(d)),
         Len(M) = Around(code, Top),
         \A k \in 1 .. Len(M) : M[k] = L[k],
         NEW ls, LoopsFrom(code, loops, ls)
  PROVE  Fit(d, Top.done, sc, ds, mk, ls, Base, en2, ex2, M)
<1> DEFINE K == Len(M)
           f == Top
<1>1. /\ FramesGood(code, cur, loops, en, ex, L, frames)
      /\ Stack(L, scopes, defers, marks, Len(code))
  BY FitFacts
<1>2. /\ Around(code, f) = K /\ K \in Nat
      /\ Len(frames) \in DOMAIN frames /\ Len(frames) > 1
      /\ f = frames[Len(frames)]
  BY TopAround
<1>3. /\ Levels(M, Len(d)) /\ Last(M).path = sc /\ Last(M) = M[K]
      /\ Len(M) > 1
  BY StackFacts
<1>4. Agree(L, M, K)
  BY <1>1, <1>2, <1>3, AgreeBelow DEF Stack
<1>5. /\ f.next \in DOMAIN code /\ f.done \in DOMAIN code
      /\ f.kind = "then" => f.next # f.done
  <2>1. /\ f.next \in DOMAIN code /\ f.done \in DOMAIN code
        /\ f.kind = "then" => f.next < f.done
    BY TopBlocks
  <2>2. f.next \in Nat /\ f.done \in Nat
    BY <2>1, StateFacts
  <2>3. QED
    BY <2>1, <2>2
<1>6. FrameFit(code, cur, loops, en, ex, L, f)
  BY <1>1, <1>2 DEF FramesGood
<1>7. /\ Waits(code, cur, en, ex, L, f.done, K)
      /\ code[f.done].path = L[K].path
      /\ Last(L[K].path) # 0
  BY <1>2, <1>6 DEF FrameFit
<1>8. M[K] = L[K]
  BY <1>2, <1>3
<1>9. CurFit(d, f.done, sc, ex2, M)
  <2>1. d[f.done].path = sc
    BY <1>3, <1>5, <1>7, <1>8, WidensFacts
  <2>2. f.done \notin B
    BY <1>5, <1>7 DEF Waits
  <2>3. ex2[f.done] = ex[f.done]
    BY <1>5, <2>2 DEF Widens
  <2>4. ex[f.done] = At(L[K].wait, 0)
    BY <1>7 DEF Waits, Target
  <2>5. Last(sc) # 0
    BY <1>3, <1>7, <1>8
  <2>6. QED
    BY <1>3, <1>8, <2>1, <2>3, <2>4, <2>5 DEF CurFit
<1>10. Spares(code, frames, Base, B, f.done, M, K)
  <2>1. B \subseteq {cur, Top.next}
    OBVIOUS
  <2>2. f.done \in {Top.next, Top.done} /\ Around(code, Top) <= K /\ Around(code, Top) <= Len(M)
    BY <1>2
  <2>3. QED
    BY <1>1, <1>2, <2>1, <2>2, TopSpares
<1>11. FramesGood(d, f.done, ls, en2, ex2, M, Base)
  <2> HIDE DEF K, f
  <2>1. QED
    BY <1>1, <1>4, <1>10, FramesKept
<1>12. QED
  BY <1>9, <1>11 DEF Fit

(* From the first branch of an if to the second, as construct f.           *)
SwapTo(en, ex, L, d, en2, ex2, sc, ds, mk, M, f) ==
  /\ Widens(code, en, ex, d, en2, ex2, {cur}) /\ Sound(d, en2, ex2)
  /\ Stack(M, sc, ds, mk, Len(d))
  /\ f \in FrameType
  /\ f.done = Top.done
  /\ f.kind \in {"else", "elif"}
  /\ f.next \in {Top.next, Top.done}
  /\ f.kind = "else" => f.next = f.done
  /\ Len(M) = Around(code, Top) + Opens(f.kind)
  /\ \A k \in 1 .. Around(code, Top) : M[k] = L[k]
  /\ code[Top.next].path = sc
  /\ Last(sc) # 0
  /\ Last(M).wait = L[Around(code, Top)].wait

(* The end of a then block swaps its frame for that of the else block and  *)
(* keeps the builder in step.                                              *)
LEMMA SwapFit ==
  ASSUME IInv, frames # <<>>, Top.kind = "then",
         NEW en, NEW ex, NEW L,
         Fit(code, cur, scopes, defers, marks, loops, frames, en, ex, L),
         NEW d, NEW en2, NEW ex2, NEW sc, NEW ds, NEW mk, NEW M, NEW f,
         SwapTo(en, ex, L, d, en2, ex2, sc, ds, mk, M, f)
  PROVE  Fit(d, Top.next, sc, ds, mk, loops, Append(Base, f), en2, ex2, M)
<1> USE DEF SwapTo
<1> DEFINE K == Around(code, Top)
           g == Top
<1>1. /\ FramesGood(code, cur, loops, en, ex, L, frames)
      /\ Stack(L, scopes, defers, marks, Len(code))
  BY FitFacts
<1>2. /\ K \in Nat /\ K >= 2
      /\ Len(frames) \in DOMAIN frames /\ Len(frames) > 1
      /\ g = frames[Len(frames)]
  BY TopAround
<1>3. Levels(M, Len(d)) /\ Len(M) \in Nat
  BY StackFacts
<1>4. Opens(f.kind) \in Nat
  BY DEF Opens
<1>5. K <= Len(M)
  BY <1>2, <1>3, <1>4
<1>6. Agree(L, M, K)
  BY <1>1, <1>2, <1>3, <1>5, AgreeBelow DEF Stack
<1>7. /\ g.next \in DOMAIN code /\ g.done \in DOMAIN code
      /\ g.next < g.done /\ g.next # g.done
  <2>1. /\ g.next \in DOMAIN code /\ g.done \in DOMAIN code
        /\ g.next < g.done
    BY TopBlocks
  <2>2. g.next \in Nat /\ g.done \in Nat
    BY <2>1, StateFacts
  <2>3. QED
    BY <2>1, <2>2
<1>8. FrameFit(code, cur, loops, en, ex, L, g)
  BY <1>1, <1>2 DEF FramesGood
<1>9. /\ Waits(code, cur, en, ex, L, g.done, K)
      /\ Waits(code, cur, en, ex, L, g.next, K)
      /\ code[g.done].path = L[K].path
      /\ Last(L[K].path) # 0
      /\ \A j \in DOMAIN L[K].path : L[K].path[j] < g.next
      /\ LoopFit(code, loops, en, L, g, K)
  BY <1>8 DEF FrameFit, NextFit
<1>10. M[K] = L[K]
  BY <1>2
<1>11. CurFit(d, g.next, sc, ex2, M)
  <2>1. d[g.next].path = sc
    BY <1>7, WidensFacts
  <2>2. g.next \notin {cur}
    BY <1>9 DEF Waits
  <2>3. ex2[g.next] = ex[g.next]
    BY <1>7, <2>2 DEF Widens
  <2>4. ex[g.next] = At(L[K].wait, 0)
    BY <1>9 DEF Waits, Target
  <2>5. QED
    BY <2>1, <2>3, <2>4 DEF CurFit
<1>12. LoopsFrom(code, loops, loops)
  BY DEF LoopsFrom
<1>13. Spares(code, frames, Base, {cur}, g.next, M, K)
  <2>1. {cur} \subseteq {cur, Top.next} /\ Top.kind # "body"
    OBVIOUS
  <2>2. g.next \in {Top.next, Top.done} /\ Around(code, Top) <= K /\ Around(code, Top) <= Len(M)
    BY <1>2, <1>5
  <2>3. QED
    BY <1>1, <1>2, <1>3, <2>1, <2>2, TopSpares
<1>14. /\ FramesGood(d, g.next, loops, en2, ex2, M, Base)
       /\ \A i \in DOMAIN Base : i > 1 => Around(d, Base[i]) = Around(code, frames[i])
  <2> HIDE DEF K, g
  <2>1. QED
    BY <1>1, <1>6, <1>12, <1>13, FramesKept
<1>15. Around(d, f) = K
  BY <1>7, WidensFacts DEF Around
<1>16. FrameFit(d, g.next, loops, en2, ex2, M, f)
  <2> HIDE DEF K, g
  <2>0. f.done = g.done
    BY DEF g
  <2>1. Waits(d, g.next, en2, ex2, M, f.done, K)
    <3>1. g.done \notin {cur} /\ g.done # g.next
      BY <1>7, <1>9 DEF Waits
    <3>2. K <= K
      BY <1>2
    <3>3. QED
      BY <1>6, <1>9, <2>0, <3>1, <3>2, TargetKeeps
  <2>2. LoopFit(d, loops, en2, M, f, K)
    <3>1. SUFFICES ASSUME NEW l \in DOMAIN loops, loops[l].brk = f.done
                   PROVE  Target(d, en2, M, loops[l].cont, K)
      BY DEF LoopFit
    <3>2. Target(code, en, L, loops[l].cont, K)
      BY <1>9, <2>0, <3>1 DEF LoopFit, g
    <3>3. K <= K
      BY <1>2
    <3>4. QED
      BY <1>6, <3>2, <3>3, TargetKeeps
  <2>3. NextFit(d, g.next, en2, ex2, M, f, K)
    BY DEF NextFit
  <2>4. d[f.done].path = M[K].path /\ Last(M[K].path) # 0
    BY <1>7, <1>9, <1>10, <2>0, WidensFacts
  <2>5. \A j \in DOMAIN M[K].path : M[K].path[j] < f.next
    <3>1. f.next = g.next \/ f.next = g.done
      BY DEF g
    <3>2. K \in DOMAIN L
      BY <1>9 DEF Waits, Target
    <3>3. L[K].path \in Seq(Nat)
      BY <1>1, <3>2, StackFacts, LevelParts
    <3>4. \A j \in DOMAIN L[K].path : L[K].path[j] \in Nat
      BY <3>3, ElementOfSeq, LenProperties
    <3>5. g.next \in Nat /\ g.done \in Nat
      BY <1>7, StateFacts
    <3>6. QED
      BY <1>7, <1>9, <1>10, <3>1, <3>4, <3>5
  <2>6. K + Opens(f.kind) <= Len(M)
    BY <1>3 DEF K
  <2>7. QED
    BY <1>15, <2>1, <2>2, <2>3, <2>4, <2>5, <2>6, Zenon DEF FrameFit
<1>17. \A i \in DOMAIN Base : i > 1 =>
         Around(d, Base[i]) + Opens(Base[i].kind) <= Around(d, f)
  <2>1. /\ frames \in Seq(FrameType) /\ DOMAIN frames = 1 .. Len(frames)
        /\ Len(frames) \in Nat \ {0}
        /\ DOMAIN Base = 1 .. Len(frames) - 1
        /\ \A i \in DOMAIN Base : Base[i] = frames[i]
    BY StateFacts, PopFacts DEF Base
  <2>2. ASSUME NEW i \in DOMAIN Base, i > 1
        PROVE  Around(code, frames[i]) + Opens(frames[i].kind) <= K
    <3>1. i \in 1 .. Len(frames) - 1 /\ Len(frames) \in Nat
      BY <2>1
    <3>2. i \in 1 .. Len(frames) /\ i < Len(frames)
      BY <3>1
    <3>3. i \in DOMAIN frames
      BY <2>1, <3>2
    <3>4. QED
      BY <1>1, <1>2, <2>2, <3>2, <3>3 DEF FramesGood
  <2> HIDE DEF K
  <2>3. QED
    BY <1>14, <1>15, <2>1, <2>2
<1>18. FramesGood(d, g.next, loops, en2, ex2, M, Append(Base, f))
  <2>1. Base \in Seq(FrameType)
    BY StateFacts, PopFacts DEF Base
  <2> HIDE DEF g
  <2>2. QED
    BY <1>14, <1>16, <1>17, <2>1, GoodPush
<1>19. QED
  BY <1>11, <1>18 DEF Fit

-----------------------------------------------------------------------------
(* Every statement extends the typing.                                     *)

(* The typing of c extended to the blocks that d has more: w waits there.  *)
Starts(en, c, d, w) == [b \in DOMAIN d |-> IF b \in DOMAIN c THEN en[b] ELSE w]
Ends(ex, c, d, w) ==
  [b \in DOMAIN d |-> IF b \in DOMAIN c THEN ex[b] ELSE At(w, 0)]

(* What it says of the blocks.                                             *)
LEMMA Extended ==
  ASSUME NEW c \in Blocks, Inside(c, Len(c)), NEW en, NEW ex, Sound(c, en, ex),
         NEW d, NEW B, Grows(c, d, B), NEW w \in Seq(Entry)
  PROVE  /\ Widens(c, en, ex, d, Starts(en, c, d, w), Ends(ex, c, d, w), B)
         /\ \A b \in DOMAIN c : /\ b \in DOMAIN d
                                /\ Starts(en, c, d, w)[b] = en[b]
                                /\ Ends(ex, c, d, w)[b] = ex[b]
         /\ \A b \in DOMAIN d \ DOMAIN c : /\ Starts(en, c, d, w)[b] = w
                                           /\ Ends(ex, c, d, w)[b] = At(w, 0)
<1>1. DOMAIN c \subseteq DOMAIN d
  <2>1. d \in Blocks /\ Len(c) <= Len(d)
    BY DEF Grows
  <2>2. DOMAIN c = 1 .. Len(c) /\ DOMAIN d = 1 .. Len(d)
        /\ Len(c) \in Nat /\ Len(d) \in Nat
    BY <2>1, LenProperties DEF Blocks
  <2>3. QED
    BY <2>1, <2>2
<1>2. At(w, 0) \in Waiting
  BY AtType
<1>3. /\ \A b \in DOMAIN c : en[b] \in Seq(Entry) /\ ex[b] \in Waiting
  BY DEF Sound
<1>4. /\ Starts(en, c, d, w) \in [DOMAIN d -> Seq(Entry)]
      /\ \A b \in DOMAIN c : Starts(en, c, d, w)[b] = en[b]
      /\ \A b \in DOMAIN d \ DOMAIN c : Starts(en, c, d, w)[b] = w
  BY <1>1, <1>3 DEF Starts
<1>5. /\ Ends(ex, c, d, w) \in [DOMAIN d -> Waiting]
      /\ \A b \in DOMAIN c : Ends(ex, c, d, w)[b] = ex[b]
      /\ \A b \in DOMAIN d \ DOMAIN c : Ends(ex, c, d, w)[b] = At(w, 0)
  BY <1>1, <1>2, <1>3 DEF Ends
<1>6. QED
  BY <1>1, <1>4, <1>5 DEF Widens

(* The end of one block changes.                                           *)
LEMMA ExtendedAt ==
  ASSUME NEW c, NEW en, NEW ex, NEW d, NEW en2, NEW ex2, NEW B,
         Widens(c, en, ex, d, en2, ex2, B),
         NEW k, k \in B \/ k \notin DOMAIN c, k \in DOMAIN d, NEW e \in Waiting
  PROVE  /\ Widens(c, en, ex, d, en2, [ex2 EXCEPT ![k] = e], B)
         /\ [ex2 EXCEPT ![k] = e][k] = e
         /\ \A b \in DOMAIN d : b # k => [ex2 EXCEPT ![k] = e][b] = ex2[b]
<1> DEFINE x == [ex2 EXCEPT ![k] = e]
<1>1. ex2 \in [DOMAIN d -> Waiting]
  BY DEF Widens
<1>2. /\ x \in [DOMAIN d -> Waiting] /\ x[k] = e
      /\ \A b \in DOMAIN d : b # k => x[b] = ex2[b]
  BY <1>1
<1>3. DOMAIN c \subseteq DOMAIN d
  BY WidensFacts
<1> HIDE DEF x
<1>4. \A b \in DOMAIN c : en2[b] = en[b] /\ (b \notin B => ex2[b] = ex[b])
  BY DEF Widens
<1>5. \A b \in DOMAIN c : b \notin B => x[b] = ex[b]
  BY <1>2, <1>3, <1>4
<1>6. Widens(c, en, ex, d, en2, x, B)
  BY <1>2, <1>4, <1>5 DEF Widens
<1>7. QED
  BY <1>2, <1>6 DEF x

(* Between two statements the emitted code has a typing, and nothing waits *)
(* where the function starts.                                              *)
Fitting(c, n, sc, df, mk, ls, fs) ==
  \E en, ex, L : Fit(c, n, sc, df, mk, ls, fs, en, ex, L) /\ en[1] = <<>>

FitNow == Fitting(code, cur, scopes, defers, marks, loops, frames)

(* An extended typing is a typing.                                         *)
LEMMA FitNext ==
  ASSUME IInv, NEW en, NEW ex, en[1] = <<>>,
         NEW en2, NEW ex2, NEW B, Widens(code, en, ex, code', en2, ex2, B),
         NEW L, Fit(code', cur', scopes', defers', marks', loops', frames', en2, ex2, L)
  PROVE  FitNow'
<1>1. 1 \in DOMAIN code
  BY StateFacts
<1>2. en2[1] = <<>>
  BY <1>1 DEF Widens
<1>3. QED
  BY <1>2 DEF FitNow, Fitting

(* A statement that only adds to the builder's block.                      *)
LEMMA StraightSame ==
  ASSUME IInv, frames # <<>>, Top.kind # "elif",
         NEW en, NEW ex, NEW L, en[1] = <<>>,
         Fit(code, cur, scopes, defers, marks, loops, frames, en, ex, L),
         Grows(code, code', {cur}), DOMAIN code' = DOMAIN code,
         UNCHANGED <<cur, marks, scopes, loops, frames>>,
         NEW e \in Waiting, Typed(code', en, [ex EXCEPT ![cur] = e], cur),
         NEW M, Stack(M, scopes, defers', marks, Len(code)),
         Len(M) = Len(L), \A k \in 1 .. Len(L) - 1 : M[k] = L[k],
         IsOpen(code', cur) => e = At(Last(M).wait, 0)
  PROVE  FitNow'
<1> DEFINE ex2 == [ex EXCEPT ![cur] = e]
<1>1. /\ code \in Blocks /\ cur \in DOMAIN code /\ Inside(code, Len(code))
      /\ Len(code) \in Nat
  BY StateFacts
<1>2. Sound(code, en, ex) /\ code[cur].path = scopes /\ Last(scopes) # 0
  BY FitFacts
<1>3. Widens(code, en, ex, code', en, ex, {cur})
  BY <1>1, <1>2 DEF Widens, Sound
<1>4. Widens(code, en, ex, code', en, ex2, {cur}) /\ ex2[cur] = e
  BY <1>1, <1>3, ExtendedAt
<1> HIDE DEF ex2
<1>5. Sound(code', en, ex2)
  <2>1. Typed(code', en, ex2, cur)
    BY DEF ex2
  <2>2. \A b \in DOMAIN code' : b \notin DOMAIN code \/ b \in {cur}
                                  => Typed(code', en, ex2, b)
    BY <2>1
  <2>3. QED
    BY <1>2, <1>4, <2>2, SoundStep
<1>6. Len(code') = Len(code)
  <2>1. code' \in Blocks
    BY DEF Grows
  <2>2. QED
    BY <1>1, <2>1, LenProperties DEF Blocks
<1>7. code'[cur].path = scopes
  BY <1>1, <1>2 DEF Grows
<1>8. CurFit(code', cur, scopes, ex2, M)
  BY <1>2, <1>4, <1>7 DEF CurFit
<1>9. Stack(M, scopes, defers', marks, Len(code'))
  BY <1>6
<1>10. Fit(code', cur, scopes, defers', marks, loops, frames, en, ex2, M)
  BY <1>4, <1>5, <1>8, <1>9, StraightFit
<1>11. Fit(code', cur', scopes', defers', marks', loops', frames', en, ex2, M)
  BY <1>10
<1>12. QED
  BY <1>4, <1>11, FitNext

(* What a step made of the function, said of the builder's block alone.    *)
LEMMA GrowsNow ==
  ASSUME IInv, IInv', Final, Len(code) <= Len(code'), NEW B,
         \A a \in DOMAIN code : code'[a].path = code[a].path
                                /\ (a \notin B => code'[a] = code[a])
  PROVE  Grows(code, code', B)
<1>1. code' \in Blocks
  BY DEF IInv, Built
<1>2. QED
  BY <1>1 DEF Grows, Final

(* A step that ends the builder's block grows the function there.          *)
LEMMA EndedGrows ==
  ASSUME IInv, IInv', Final, NEW is, NEW t, Ended(code, code', cur, is, t)
  PROVE  Grows(code, code', {cur}) /\ DOMAIN code' = DOMAIN code
<1>1. code \in Blocks /\ code' \in Blocks /\ DOMAIN code' = DOMAIN code
  BY DEF IInv, Built, Ended
<1>2. Len(code') = Len(code)
  BY <1>1, LenProperties DEF Blocks
<1>3. Len(code) \in Nat
  BY StateFacts
<1>4. Len(code) <= Len(code')
  BY <1>2, <1>3
<1>5. \A a \in DOMAIN code : code'[a].path = code[a].path
                              /\ (a \notin {cur} => code'[a] = code[a])
  BY DEF Ended
<1>6. QED
  BY <1>1, <1>4, <1>5, GrowsNow

(* return: nothing waits any more.                                         *)
LEMMA ReturnFit ==
  ASSUME IInv, IInv', Final, FitNow, ReturnStmt
  PROVE  FitNow'
<1>1. PICK en, ex, L :
        Fit(code, cur, scopes, defers, marks, loops, frames, en, ex, L) /\ en[1] = <<>>
  BY DEF FitNow, Fitting
<1> DEFINE w == Last(L).wait
           x == Down(w, 0)
<1>2. AtStmt("return") /\ code' = Close(Emit(code, cur, Runs(0)), cur, Ret)
      /\ UNCHANGED <<cur, defers, marks, scopes, loops, frames>>
  BY DEF ReturnStmt
<1>3. frames # <<>> /\ Top.kind # "elif" /\ IsOpen(code, cur)
  BY <1>2, AtStmtFacts
<1>4. /\ code \in Blocks /\ cur \in DOMAIN code /\ Len(code) \in Nat
      /\ Runs(0) \in Seq(Instr) /\ Len(defers) \in Nat
  BY StateFacts, RunsType
<1>5. /\ Typed(code, en, ex, cur) /\ code[cur].path = scopes
      /\ w \in Seq(Entry) /\ Len(w) = Len(defers) /\ Synced(defers, w)
      /\ \A i \in DOMAIN w : IsIn(w[i].scope, scopes)
      /\ ex[cur] = At(w, 0)
      /\ Stack(L, scopes, defers, marks, Len(code))
      /\ Sound(code, en, ex)
  BY <1>1, <1>3, FitFacts
<1> HIDE DEF w
<1>6. Ret \in Term /\ Ret # NoTerm /\ Ret.to = {}
  BY MadeTypes DEF Ret
<1>7. Ended(code, code', cur, Runs(0), Ret)
  <2>1. Ended(code, Close(Emit(code, cur, Runs(0)), cur, Ret), cur, Runs(0), Ret)
    BY <1>4, <1>6, EmitsCloses
  <2>2. QED
    BY <1>2, <2>1
<1>8. Grows(code, code', {cur}) /\ DOMAIN code' = DOMAIN code
  BY <1>7, EndedGrows
<1>9. /\ code'[cur].ins = code[cur].ins \o Runs(0)
      /\ code'[cur].term = Ret
      /\ code'[cur].path = code[cur].path
  BY <1>7 DEF Ended
<1>12. Calls(Runs(0), w, 0) /\ 0 \in 0 .. Len(w)
  <2>1. 0 \in 0 .. Len(defers)
    BY <1>4
  <2>2. QED
    BY <1>5, <2>1, RunsCall
<1>13. x \in Waiting
  BY <1>5, <1>12, DownFacts
<1> HIDE DEF x
<1>14. [ex EXCEPT ![cur] = x][cur] = Down(w, 0)
  BY <1>4, <1>5 DEF Sound, x
<1>15. Typed(code', en, [ex EXCEPT ![cur] = x], cur)
  <2>1. \A t \in code'[cur].term.to : Edge(code', en, [ex EXCEPT ![cur] = x], cur, t)
    BY <1>6, <1>9
  <2>2. code'[cur].path = code[cur].path
    BY <1>9
  <2> DEFINE ex2 == [ex EXCEPT ![cur] = x]
  <2> HIDE DEF ex2
  <2>3. \A t \in code'[cur].term.to : Edge(code', en, ex2, cur, t)
    BY <2>1 DEF ex2
  <2>4. ex2[cur] = Down(w, 0)
    BY <1>14 DEF ex2
  <2>5. \A i \in DOMAIN w : IsIn(w[i].scope, code[cur].path)
    BY <1>5
  <2>6. Typed(code', en, ex2, cur)
    BY <1>4, <1>5, <1>9, <1>12, <2>2, <2>3, <2>4, <2>5, TypedCalls
  <2>7. QED
    BY <2>6 DEF ex2
<1>16. ~IsOpen(code', cur)
  BY <1>6, <1>9 DEF IsOpen
<1>17. Stack(L, scopes, defers', marks, Len(code))
  BY <1>2, <1>5
<1>18. QED
  BY <1>1, <1>2, <1>3, <1>8, <1>13, <1>15, <1>16, <1>17, StraightSame

(* The builder's block after the calls down to count m and terminator t.   *)
LEMMA CallsTyped ==
  ASSUME IInv, frames # <<>>, NEW en, NEW ex, NEW L,
         Fit(code, cur, scopes, defers, marks, loops, frames, en, ex, L),
         IsOpen(code, cur), NEW m \in 0 .. Len(defers),
         NEW d, NEW t, Ended(code, d, cur, Runs(m), t),
         NEW en2, NEW ex2, en2[cur] = en[cur], ex2[cur] = Down(Last(L).wait, m),
         \A b \in t.to : Edge(d, en2, ex2, cur, b),
         t.op = "ret" => m = 0
  PROVE  Typed(d, en2, ex2, cur)
<1> DEFINE w == Last(L).wait
<1>1. code \in Blocks /\ cur \in DOMAIN code
  BY StateFacts
<1>2. /\ Typed(code, en, ex, cur) /\ code[cur].path = scopes
      /\ w \in Seq(Entry) /\ Len(w) = Len(defers) /\ Synced(defers, w)
      /\ \A i \in DOMAIN w : IsIn(w[i].scope, scopes)
      /\ ex[cur] = At(w, 0)
  BY FitFacts
<1>3. ex2[cur] = Down(w, m)
  OBVIOUS
<1> HIDE DEF w
<1>4. /\ d[cur].ins = code[cur].ins \o Runs(m)
      /\ d[cur].term = t
      /\ d[cur].path = code[cur].path
  BY DEF Ended
<1>5. Calls(Runs(m), w, m)
  BY <1>2, RunsCall
<1>6. m \in 0 .. Len(w)
  BY <1>2
<1>7. /\ \A b \in d[cur].term.to : Edge(d, en2, ex2, cur, b)
      /\ d[cur].term.op = "ret" => m = 0
      /\ \A i \in DOMAIN w : IsIn(w[i].scope, code[cur].path)
  BY <1>2, <1>4
<1>8. QED
  BY <1>1, <1>2, <1>3, <1>4, <1>5, <1>6, <1>7, TypedCalls

(* defer: its expression waits last.                                       *)
LEMMA DeferFit ==
  ASSUME IInv, IInv', Final, FitNow, DeferStmt, Len(defers) < MaxDefers
  PROVE  FitNow'
<1>1. PICK en, ex, L :
        Fit(code, cur, scopes, defers, marks, loops, frames, en, ex, L) /\ en[1] = <<>>
  BY DEF FitNow, Fitting
<1> DEFINE is == <<[op |-> "reg", d |-> left]>>
           w == Last(L).wait
           v == Waited(L, scopes, left)
           M == Retop(L, v)
<1>2. AtStmt("defer") /\ code' = Emit(code, cur, is)
      /\ defers' = Append(defers, left)
      /\ UNCHANGED <<cur, marks, scopes, loops, frames>>
  BY DEF DeferStmt
<1>3. frames # <<>> /\ Top.kind # "elif" /\ IsOpen(code, cur) /\ left \in 1 .. Budget
  BY <1>2, AtStmtFacts
<1>4. code \in Blocks /\ cur \in DOMAIN code /\ code[cur].ins \in Seq(Instr)
  BY StateFacts, BlockParts
<1>5. /\ Typed(code, en, ex, cur) /\ code[cur].path = scopes /\ scopes # <<>>
      /\ w \in Seq(Entry) /\ Last(scopes) \in Nat /\ Last(scopes) # 0
      /\ ex[cur] = At(w, 0)
      /\ Stack(L, scopes, defers, marks, Len(code))
  BY <1>1, <1>3, FitFacts
<1>6. v = Append(w, [d |-> left, scope |-> Last(scopes)])
  BY DEF Waited
<1>7. /\ Stack(M, scopes, Append(defers, left), marks, Len(code))
      /\ Last(M).wait = v
      /\ Len(M) = Len(L)
      /\ \A k \in 1 .. Len(L) - 1 : M[k] = L[k]
  BY <1>3, <1>5, StackDefer
<1> HIDE DEF v, w, M
<1>8. [d |-> left, scope |-> Last(scopes)] \in Entry
  BY <1>3, <1>5 DEF Entry
<1>9. v \in Seq(Entry)
  BY <1>5, <1>6, <1>8, AppendProperties
<1>10. At(v, 0) \in Waiting
  BY <1>9, AtType
<1>11. Ended(code, code', cur, is, NoTerm)
  <2>1. is \in Seq(Instr)
    BY <1>3 DEF Instr
  <2> HIDE DEF is
  <2>2. Ended(code, Emit(code, cur, is), cur, is, code[cur].term)
    BY <1>4, <2>1, MadeTypes, EmitsCloses
  <2>3. QED
    BY <1>2, <1>3, <2>2 DEF IsOpen
<1>12. Carries(code[cur].ins \o is, scopes, en[cur], At(v, 0))
  <2>1. Carries(code[cur].ins, scopes, en[cur], At(w, 0))
    BY <1>5 DEF Typed
  <2>2. QED
    BY <1>3, <1>4, <1>5, <1>6, <2>1, CarryReg
<1> HIDE DEF is
<1>13. Grows(code, code', {cur}) /\ DOMAIN code' = DOMAIN code
  BY <1>11, EndedGrows
<1>14. [ex EXCEPT ![cur] = At(v, 0)][cur] = At(v, 0)
  BY <1>1, <1>4, FitFacts, <1>3 DEF Sound
<1>15. Typed(code', en, [ex EXCEPT ![cur] = At(v, 0)], cur)
  <2> DEFINE ex2 == [ex EXCEPT ![cur] = At(v, 0)]
  <2> HIDE DEF ex2
  <2>1. ex2[cur] = At(v, 0)
    BY <1>14 DEF ex2
  <2>2. /\ code'[cur].ins = code[cur].ins \o is
        /\ code'[cur].path = scopes
        /\ code'[cur].term.to = {} /\ code'[cur].term.op # "ret"
    BY <1>5, <1>11 DEF Ended, NoTerm
  <2>3. Typed(code', en, ex2, cur)
    BY <1>5, <1>12, <2>1, <2>2 DEF Typed
  <2>4. QED
    BY <2>3 DEF ex2
<1>16. Stack(M, scopes, defers', marks, Len(code))
  BY <1>2, <1>7
<1>17. QED
  BY <1>1, <1>2, <1>3, <1>7, <1>10, <1>13, <1>15, <1>16, StraightSame

(* break and continue go to a block of the innermost construct that pushed *)
(* a loop, and what stays open there is further out than the block they    *)
(* stand in.                                                               *)
LEMMA JumpTarget ==
  ASSUME IInv, frames # <<>>, Paired(loops, frames),
         NEW en, NEW ex, NEW L,
         Fit(code, cur, scopes, defers, marks, loops, frames, en, ex, L),
         \E i \in DOMAIN frames : frames[i].kind \in {"while", "loop", "for"},
         AnyDepth \/ Top.kind \in {"while", "loop", "for"},
         NEW target \in {Last(loops).brk, Last(loops).cont}
  PROVE  /\ loops # <<>>
         /\ \E q \in 1 .. Len(L) - 1 :
              /\ Target(code, en, L, target, q)
              /\ ~AnyDepth => L[q].wait = Outer(L).wait
<1>1. /\ frames \in Seq(FrameType) /\ DOMAIN frames = 1 .. Len(frames)
      /\ Len(frames) \in Nat \ {0} /\ Top = frames[Len(frames)]
      /\ FramesFit(code, frames)
  BY StateFacts, PopFacts DEF Top
<1>2. /\ Len(L) = Len(scopes) /\ Len(L) \in Nat /\ Len(L) > 1
      /\ FramesGood(code, cur, loops, en, ex, L, frames)
  BY FitFacts
<1>3. PICK i \in DOMAIN frames : frames[i].kind \in {"while", "loop", "for"}
  OBVIOUS
<1>4. i \in PushingAt(frames)
  BY <1>3 DEF PushingAt, Pushing, Loops
<1>5. loops # <<>> /\ {f.done : f \in Innermost(Pushing)} = {Last(loops).brk}
  BY <1>4, InnermostPushing
<1>6. PICK f \in Innermost(Pushing) : f.done = Last(loops).brk
  BY <1>5
<1>7. PICK j \in DOMAIN frames :
        /\ f = frames[j] /\ frames[j].kind \in Pushing
        /\ \A k \in j + 1 .. Len(frames) : frames[k].kind \notin Pushing
  BY <1>6 DEF Innermost
<1>8. j \in 1 .. Len(frames) /\ j > 1
  <2>1. j \in 1 .. Len(frames)
    BY <1>1
  <2>2. frames[1].kind = "body"
    BY <1>1 DEF FramesFit
  <2>3. j # 1
    BY <1>7, <2>2 DEF Pushing, Loops
  <2>4. QED
    BY <2>1, <2>3
<1>9. ~AnyDepth => j = Len(frames)
  <2>1. SUFFICES ASSUME ~AnyDepth, j # Len(frames)
                 PROVE  FALSE
    OBVIOUS
  <2>2. Len(frames) \in j + 1 .. Len(frames)
    <3> HIDE DEF Top
    <3>1. Len(frames) \in Nat
      BY <1>1
    <3>2. QED
      BY <1>8, <2>1, <3>1
  <2>3. Top.kind \in Pushing
    BY <2>1 DEF Pushing, Loops
  <2>4. QED
    BY <1>1, <1>7, <2>2, <2>3
<1> DEFINE k == Around(code, f)
<1>10. /\ FrameFit(code, cur, loops, en, ex, L, f)
       /\ k \in Nat /\ Opens(f.kind) \in Nat /\ k + Opens(f.kind) <= Len(L)
       /\ k \in DOMAIN L
  BY <1>2, <1>7, <1>8, FrameParts
<1>11. k \in 1 .. Len(L)
  BY <1>2, <1>10, LevelParts DEF Fit, Stack
<1>12. /\ Target(code, en, L, f.done, k)
       /\ LoopFit(code, loops, en, L, f, k)
       /\ f.kind = "for" => L[k + 1].wait = L[k].wait
  BY <1>10 DEF FrameFit, Waits, NextFit
<1>13. Opens(f.kind) >= 1 /\ (f.kind = "for" => Opens(f.kind) = 2)
  BY <1>7 DEF Opens, Pushing, Loops
<1>14. ~AnyDepth => k = Len(L) - Opens(f.kind)
                    /\ f.kind \in {"while", "loop", "for"}
  <2>1. SUFFICES ASSUME ~AnyDepth
                 PROVE  /\ k = Len(L) - Opens(f.kind)
                        /\ f.kind \in {"while", "loop", "for"}
    OBVIOUS
  <2>2. f = Top /\ Top.kind # "body"
    BY <1>1, <1>7, <1>9, <2>1
  <2>3. k = Len(scopes) - Opens(f.kind)
    BY <2>2, TopAround
  <2>4. QED
    BY <1>2, <2>1, <2>2, <2>3
<1>15. ~AnyDepth => L[k].wait = Outer(L).wait
                    /\ (f.kind = "for" => L[k + 1].wait = Outer(L).wait)
  <2>1. SUFFICES ASSUME ~AnyDepth
                 PROVE  L[k].wait = Outer(L).wait
                        /\ (f.kind = "for" => L[k + 1].wait = Outer(L).wait)
    OBVIOUS
  <2>2. CASE f.kind = "for"
    <3>1. k + 1 = Len(L) - 1
      <4> HIDE DEF k
      <4>1. QED
        BY <1>2, <1>13, <1>14, <2>1, <2>2
    <3>2. QED
      BY <1>12, <2>2, <3>1 DEF Outer
  <2>3. CASE f.kind # "for"
    <3>1. Opens(f.kind) = 1
      BY <1>14, <2>1, <2>3 DEF Opens
    <3>2. k = Len(L) - 1
      BY <1>14, <2>1, <3>1
    <3>3. QED
      BY <2>3, <3>2 DEF Outer
  <2>4. QED
    BY <2>2, <2>3
<1> HIDE DEF k
<1>16. /\ k \in 1 .. Len(L) - 1
       /\ f.kind = "for" => k + 1 \in 1 .. Len(L) - 1
  BY <1>2, <1>10, <1>11, <1>13
<1>17. CASE target = Last(loops).brk
  BY <1>5, <1>6, <1>12, <1>15, <1>16, <1>17
<1>18. CASE target = Last(loops).cont
  <2>1. loops \in Seq(LoopType)
    BY DEF IInv, LoopsFit
  <2>2. Len(loops) \in DOMAIN loops /\ Last(loops) = loops[Len(loops)]
    BY <1>5, <2>1, PopFacts
  <2>3. \/ Target(code, en, L, target, k)
        \/ f.kind = "for" /\ Target(code, en, L, target, k + 1)
    BY <1>6, <1>12, <1>18, <2>2 DEF LoopFit
  <2>4. QED
    BY <1>5, <1>15, <1>16, <2>3
<1>19. QED
  BY <1>17, <1>18

(* break and continue: the block's own expressions ran.                    *)
LEMMA JumpFit ==
  ASSUME IInv, IInv', Final, FitNow, Paired(loops, frames),
         NEW kind \in {"break", "continue"},
         NEW target \in {Last(loops).brk, Last(loops).cont},
         JumpStmt(kind, target)
  PROVE  FitNow'
<1>1. PICK en, ex, L :
        Fit(code, cur, scopes, defers, marks, loops, frames, en, ex, L) /\ en[1] = <<>>
  BY DEF FitNow, Fitting
<1> DEFINE w == Last(L).wait
           x == Down(w, Mark)
           t == Leave(target, kind)
           M == Retop(L, Outer(L).wait)
           ex2 == [ex EXCEPT ![cur] = x]
<1>2. /\ AtStmt(kind)
      /\ \E i \in DOMAIN frames : frames[i].kind \in {"while", "loop", "for"}
      /\ AnyDepth \/ Top.kind \in {"while", "loop", "for"}
      /\ code' = (IF loops = <<>> THEN Emit(code, cur, Runs(Mark))
                  ELSE Close(Emit(code, cur, Runs(Mark)), cur, t))
      /\ defers' = SubSeq(defers, 1, Mark)
      /\ UNCHANGED <<cur, marks, scopes, loops, frames>>
  BY DEF JumpStmt
<1>3. frames # <<>> /\ Top.kind # "elif" /\ IsOpen(code, cur)
  BY <1>2, AtStmtFacts
<1>4. /\ loops # <<>>
      /\ \E q \in 1 .. Len(L) - 1 :
           /\ Target(code, en, L, target, q)
           /\ ~AnyDepth => L[q].wait = Outer(L).wait
  BY <1>1, <1>2, <1>3, JumpTarget
<1>5. PICK q \in 1 .. Len(L) - 1 :
        /\ Target(code, en, L, target, q)
        /\ ~AnyDepth => L[q].wait = Outer(L).wait
  BY <1>4
<1>6. /\ code \in Blocks /\ cur \in DOMAIN code /\ DOMAIN code = 1 .. Len(code)
      /\ Runs(Mark) \in Seq(Instr) /\ Mark \in 0 .. Len(defers) /\ Mark = MarkOf(marks)
  BY StateFacts, RunsType
<1>7. /\ Sound(code, en, ex) /\ code[cur].path = scopes /\ Last(scopes) # 0
      /\ w \in Seq(Entry) /\ Len(w) = Len(defers)
      /\ Stack(L, scopes, defers, marks, Len(code))
      /\ Mark = Len(Outer(L).wait)
  BY <1>1, <1>3, FitFacts
<1>8. /\ Stack(M, scopes, defers', marks, Len(code))
      /\ Last(M).wait = Outer(L).wait
      /\ Len(M) = Len(L)
      /\ \A k \in 1 .. Len(L) - 1 : M[k] = L[k]
  <2>1. defers' = SubSeq(defers, 1, MarkOf(marks))
    BY <1>2, <1>6
  <2>2. Stack(M, scopes, SubSeq(defers, 1, MarkOf(marks)), marks, Len(code))
    BY <1>7, StackCut
  <2>3. /\ Last(M).wait = Outer(L).wait
        /\ Len(M) = Len(L)
        /\ \A k \in 1 .. Len(L) - 1 : M[k] = L[k]
    BY <1>7, StackCut
  <2> HIDE DEF M
  <2>4. QED
    BY <2>1, <2>2, <2>3
<1>9. t.to = {target} /\ t.op = "br" /\ t # NoTerm /\ target \in DOMAIN code
  BY <1>5 DEF Leave, NoTerm, Target
<1>10. t \in Term
  <2>1. target \in Nat \ {0}
    BY <1>6, <1>9
  <2>2. QED
    BY <2>1 DEF Leave, Term
<1> HIDE DEF t, M
<1>11. Ended(code, code', cur, Runs(Mark), t)
  <2>1. code' = Close(Emit(code, cur, Runs(Mark)), cur, t)
    BY <1>2, <1>4
  <2>2. Ended(code, Close(Emit(code, cur, Runs(Mark)), cur, t), cur, Runs(Mark), t)
    BY <1>6, <1>10, EmitsCloses
  <2>3. QED
    BY <2>1, <2>2
<1>12. Grows(code, code', {cur}) /\ DOMAIN code' = DOMAIN code
  BY <1>11, EndedGrows
<1>13. x \in Waiting
  <2> HIDE DEF w
  <2>1. QED
    BY <1>6, <1>7, DownFacts
<1>14. ex2[cur] = x
  BY <1>6, <1>7 DEF Sound
<1>15. Edge(code', en, ex2, cur, target)
  <2>1. code'[cur].path = scopes
    BY <1>7, <1>11 DEF Ended
  <2>2. Stays(code', target) = L[q].path /\ en[target] = L[q].wait
    <3>1. code'[target].path = code[target].path
      BY <1>9, <1>12 DEF Grows
    <3>2. QED
      BY <1>5, <3>1 DEF Target, Stays
  <2>3. ex2[cur] = Down(Last(L).wait, Len(Outer(L).wait))
    BY <1>7, <1>14
  <2> HIDE DEF ex2
  <2>4. QED
    BY <1>5, <1>7, <2>1, <2>2, <2>3, ExitEdge
<1>16. Typed(code', en, ex2, cur)
  <2>1. \A b \in t.to : Edge(code', en, ex2, cur, b)
    BY <1>9, <1>15
  <2>2. t.op # "ret"
    BY <1>9
  <2>3. ex2[cur] = Down(Last(L).wait, Mark)
    BY <1>14
  <2> HIDE DEF ex2
  <2>4. QED
    BY <1>1, <1>3, <1>6, <1>11, <2>1, <2>2, <2>3, CallsTyped
<1>17. ~IsOpen(code', cur)
  BY <1>9, <1>11 DEF IsOpen, Ended
<1> HIDE DEF x
<1>18. QED
  BY <1>1, <1>2, <1>3, <1>8, <1>12, <1>13, <1>16, <1>17, StraightSame

(* The places of m blocks after n others.                                  *)
LEMMA PlacesAfter ==
  ASSUME NEW n \in Nat, NEW m \in Nat
  PROVE  /\ \A i \in 1 .. m : /\ n + i \in 1 .. n + m /\ n + i \notin 1 .. n
                              /\ n + i - n = i /\ ~(n + i <= n)
         /\ \A b \in 1 .. n + m : b \notin 1 .. n => \E i \in 1 .. m : b = n + i
<1>1. ASSUME NEW b \in 1 .. n + m, b \notin 1 .. n
      PROVE  b - n \in 1 .. m /\ b = n + (b - n)
  BY <1>1
<1>2. \A i \in 1 .. m : /\ n + i \in 1 .. n + m /\ n + i \notin 1 .. n
                        /\ n + i - n = i /\ ~(n + i <= n)
  OBVIOUS
<1>3. QED
  BY <1>1, <1>2

(* The blocks that d has more than c are bs.                               *)
Laid(c, d, bs) ==
  /\ Len(d) = Len(c) + Len(bs)
  /\ \A i \in 1 .. Len(bs) : /\ Len(c) + i \in DOMAIN d \ DOMAIN c
                             /\ d[Len(c) + i] = bs[i]
  /\ \A b \in DOMAIN d \ DOMAIN c : \E i \in 1 .. Len(bs) : b = Len(c) + i

(* A statement ends the builder's block with t and appends the blocks bs.  *)
LEMMA AppendedBlocks ==
  ASSUME IInv, IInv', Final, NEW t \in Term, NEW S, NEW bs \in Seq(S),
         code' = Close(code, cur, t) \o bs
  PROVE  /\ Grows(code, code', {cur})
         /\ code'[cur].ins = code[cur].ins
         /\ code'[cur].path = code[cur].path
         /\ code'[cur].term = t
         /\ Laid(code, code', bs)
<1> DEFINE T == BasicBlock \cup S
           c == Close(code, cur, t)
           n == Len(code)
           m == Len(bs)
<1>1. /\ code \in Blocks /\ cur \in DOMAIN code
      /\ n \in Nat /\ DOMAIN code = 1 .. n
  BY StateFacts
<1>2. /\ c \in Blocks /\ DOMAIN c = DOMAIN code
      /\ c[cur].ins = code[cur].ins /\ c[cur].path = code[cur].path
      /\ c[cur].term = t
      /\ \A a \in DOMAIN code : a # cur => c[a] = code[a]
  BY <1>1, ClosesOnly
<1>3. Len(c) = n
  BY <1>1, <1>2, LenProperties DEF Blocks
<1>4. bs \in Seq(T) /\ c \in Seq(T)
  <2>1. S \subseteq T /\ BasicBlock \subseteq T
    OBVIOUS
  <2> HIDE DEF T, c
  <2>2. QED
    BY <1>2, <2>1, SeqMonotonic DEF Blocks
<1> HIDE DEF c
<1>5. code' = c \o bs
  BY DEF c
<1>6. /\ Len(c \o bs) = Len(c) + m
      /\ \A i \in 1 .. Len(c) + m : (c \o bs)[i] = IF i <= Len(c) THEN c[i]
                                                   ELSE bs[i - Len(c)]
      /\ m \in Nat
  BY <1>4, ConcatProperties, LenProperties
<1>7. /\ Len(code') = n + m
      /\ \A i \in 1 .. n + m : code'[i] = IF i <= n THEN c[i] ELSE bs[i - n]
  BY <1>3, <1>5, <1>6
<1>8. DOMAIN code' = 1 .. n + m
  <2>1. code' \in Blocks
    BY DEF IInv, Built
  <2>2. QED
    BY <1>7, <2>1, LenProperties DEF Blocks
<1> HIDE DEF n, m
<1>9. \A a \in 1 .. n : code'[a] = c[a]
  BY <1>1, <1>6, <1>7
<1>10. /\ \A i \in 1 .. m : n + i \in 1 .. n + m /\ n + i \notin 1 .. n
                            /\ code'[n + i] = bs[i]
       /\ \A b \in 1 .. n + m : b \notin 1 .. n => \E i \in 1 .. m : b = n + i
  <2>1. n \in Nat /\ m \in Nat
    BY <1>1, <1>6
  <2>2. \A i \in 1 .. n + m : code'[i] = IF i <= n THEN c[i] ELSE bs[i - n]
    BY <1>7
  <2>3. /\ \A i \in 1 .. m : /\ n + i \in 1 .. n + m /\ n + i \notin 1 .. n
                             /\ n + i - n = i /\ ~(n + i <= n)
        /\ \A b \in 1 .. n + m : b \notin 1 .. n => \E i \in 1 .. m : b = n + i
    BY <2>1, PlacesAfter
  <2>4. ASSUME NEW i \in 1 .. m
        PROVE  code'[n + i] = bs[i]
    <3>1. PICK x : x = n + i
      OBVIOUS
    <3>2. /\ x \in 1 .. n + m /\ x - n = i /\ ~(x <= n)
      BY <2>1, <3>1
    <3>3. code'[x] = IF x <= n THEN c[x] ELSE bs[x - n]
      BY <2>2, <3>2
    <3>4. code'[x] = bs[i]
      BY <3>2, <3>3
    <3>5. QED
      BY <3>1, <3>4
  <2>5. QED
    BY <2>3, <2>4
<1>11. \A a \in DOMAIN code : code'[a].path = code[a].path
                              /\ (a \notin {cur} => code'[a] = code[a])
  BY <1>1, <1>2, <1>9
<1>12. Len(code) <= Len(code')
  BY <1>1, <1>6, <1>7 DEF n
<1>13. Grows(code, code', {cur})
  BY <1>11, <1>12, GrowsNow
<1>14. code'[cur] = c[cur]
  BY <1>1, <1>9
<1>15. Laid(code, code', bs)
  BY <1>1, <1>7, <1>8, <1>10 DEF n, m, Laid
<1>16. QED
  BY <1>2, <1>13, <1>14, <1>15

(* What stays open at the start of a new block, by the path it is given.   *)
LEMMA NewStays ==
  ASSUME NEW n \in Nat, NEW sc \in Seq(Nat), sc # <<>>,
         \A i \in DOMAIN sc : sc[i] <= n, NEW b \in Nat, b > n, NEW d
  PROVE  /\ d[b].path = sc => Stays(d, b) = sc
         /\ d[b].path = Append(sc, b) => Stays(d, b) = sc
         /\ d[b].path = Append(sc, 0) => Stays(d, b) = Append(sc, 0)
         /\ d[b].path = Append(Append(sc, 0), b) => Stays(d, b) = Append(sc, 0)
<1>1. Last(sc) # b
  <2>1. Len(sc) \in DOMAIN sc /\ Last(sc) = sc[Len(sc)] /\ Last(sc) \in Nat
    BY PopFacts
  <2>2. QED
    BY <2>1
<1>2. Last(Append(sc, b)) = b /\ Front(Append(sc, b)) = sc
  BY PopPush
<1>3. Last(Append(sc, 0)) = 0 /\ Append(sc, 0) \in Seq(Nat)
  BY PopPush, PushFacts
<1>4. Last(Append(Append(sc, 0), b)) = b /\ Front(Append(Append(sc, 0), b)) = Append(sc, 0)
  BY <1>3, PopPush
<1>5. b # 0
  OBVIOUS
<1>6. QED
  BY <1>1, <1>2, <1>3, <1>4, <1>5 DEF Stays

(* Nothing is lost on the way to t from a place in the scopes sc where w   *)
(* waits: at most the scope of a for's variable was opened.                *)
Flat(d, en, w, sc, t) == en[t] = w /\ Stays(d, t) \in {sc, Append(sc, 0)}

(* A branch to such a place is as the typing wants it.                     *)
LEMMA FlatFlow ==
  ASSUME NEW sc \in Seq(Nat), NEW w \in Seq(Entry),
         \A i \in DOMAIN w : IsIn(w[i].scope, sc),
         NEW d, NEW en, NEW ex, NEW b, ex[b] = At(w, 0),
         NEW t, Flat(d, en, w, sc, t)
  PROVE  Edge(d, en, ex, b, t)
<1> DEFINE p == Append(sc, 0)
<1>1. \A i \in DOMAIN sc : i \in DOMAIN p /\ p[i] = sc[i]
  BY PushFacts
<1>2. en[t] = w /\ Stays(d, t) \in {sc, p}
  BY DEF Flat
<1> HIDE DEF p
<1>3. \A i \in DOMAIN w : IsIn(w[i].scope, Stays(d, t))
  BY <1>1, <1>2 DEF IsIn
<1>4. QED
  BY <1>2, <1>3, FlatEdge

(* The builder's block when it ends in branches to new blocks.             *)
LEMMA FlatCur ==
  ASSUME IInv, frames # <<>>, NEW en, NEW ex, NEW L,
         Fit(code, cur, scopes, defers, marks, loops, frames, en, ex, L),
         IsOpen(code, cur), NEW d,
         d[cur].ins = code[cur].ins, d[cur].path = code[cur].path,
         d[cur].term.op # "ret",
         NEW en2, NEW ex2, en2[cur] = en[cur], ex2[cur] = ex[cur],
         \A t \in d[cur].term.to : Flat(d, en2, Last(L).wait, scopes, t)
  PROVE  Typed(d, en2, ex2, cur)
<1> DEFINE w == Last(L).wait
<1>1. /\ Typed(code, en, ex, cur) /\ w \in Seq(Entry) /\ ex[cur] = At(w, 0)
      /\ \A i \in DOMAIN w : IsIn(w[i].scope, scopes)
  BY FitFacts
<1>2. \A t \in d[cur].term.to : Flat(d, en2, w, scopes, t)
  OBVIOUS
<1> HIDE DEF w
<1>3. scopes \in Seq(Nat)
  BY DEF IInv
<1>4. ex2[cur] = At(w, 0)
  BY <1>1
<1>5. \A t \in d[cur].term.to : Edge(d, en2, ex2, cur, t)
  BY <1>1, <1>2, <1>3, <1>4, FlatFlow
<1>6. QED
  BY <1>1, <1>5, TypedEnd

(* A new block without instructions, at most with branches to new blocks.  *)
LEMMA FlatNew ==
  ASSUME NEW sc \in Seq(Nat), NEW w \in Seq(Entry),
         \A i \in DOMAIN w : IsIn(w[i].scope, sc),
         NEW d, NEW b, d[b].ins = <<>>, d[b].path # <<>>, d[b].term.op # "ret",
         NEW en, NEW ex, en[b] = w, ex[b] = At(w, 0),
         \A t \in d[b].term.to : Flat(d, en, w, sc, t)
  PROVE  Typed(d, en, ex, b)
<1>1. \A t \in d[b].term.to : Edge(d, en, ex, b, t)
  BY FlatFlow
<1>2. QED
  BY <1>1, TypedNew

(* `?': the code goes on in the first new block; the second one runs all   *)
(* that waits.                                                             *)
LEMMA TryFit ==
  ASSUME IInv, IInv', Final, FitNow, TryStmt
  PROVE  FitNow'
<1>1. PICK en, ex, L :
        Fit(code, cur, scopes, defers, marks, loops, frames, en, ex, L) /\ en[1] = <<>>
  BY DEF FitNow, Fitting
<1> DEFINE n == Len(code)
           ok == n + 1
           err == n + 2
           t == CondBr(ok, err)
           bs == <<Empty(scopes, "try"), Block(Runs(0), Ret, scopes, "try")>>
           w == Last(L).wait
           en2 == Starts(en, code, code', w)
           exn == Ends(ex, code, code', w)
           ex2 == [exn EXCEPT ![err] = Down(w, 0)]
<1>2. AtStmt("try") /\ code' = Close(code, cur, t) \o bs /\ cur' = ok
      /\ UNCHANGED <<defers, marks, scopes, loops, frames>>
  BY DEF TryStmt, TryInto
<1>3. frames # <<>> /\ Top.kind # "elif" /\ IsOpen(code, cur)
  BY <1>2, AtStmtFacts
<1>4. /\ code \in Blocks /\ cur \in DOMAIN code /\ Inside(code, Len(code))
      /\ n \in Nat /\ Len(defers) \in Nat /\ scopes \in Seq(Nat)
  BY StateFacts DEF IInv
<1>5. /\ Sound(code, en, ex) /\ code[cur].path = scopes
      /\ scopes # <<>> /\ Last(scopes) # 0
      /\ \A i \in DOMAIN scopes : scopes[i] <= n
      /\ w \in Seq(Entry) /\ Len(w) = Len(defers) /\ Synced(defers, w)
      /\ \A i \in DOMAIN w : IsIn(w[i].scope, scopes)
      /\ ex[cur] = At(w, 0)
      /\ Stack(L, scopes, defers, marks, n)
      /\ Len(L) = Len(scopes)
  BY <1>1, <1>3, FitFacts
<1>6. t \in Term /\ t.to = {ok, err} /\ t.op # "ret"
  <2>1. ok \in Nat \ {0} /\ err \in Nat \ {0}
    BY <1>4
  <2>2. QED
    BY <2>1, MadeTypes DEF CondBr
<1>7. /\ bs \in Seq({bs[1], bs[2]}) /\ Len(bs) = 2
      /\ bs[1].ins = <<>> /\ bs[1].path = scopes /\ bs[1].term = NoTerm
      /\ bs[2].ins = Runs(0) /\ bs[2].path = scopes /\ bs[2].term = Ret
  BY DEF Empty, Block
<1> HIDE DEF t, bs
<1>8. /\ Grows(code, code', {cur})
      /\ code'[cur].ins = code[cur].ins
      /\ code'[cur].path = code[cur].path
      /\ code'[cur].term = t
      /\ Laid(code, code', bs)
  BY <1>2, <1>6, <1>7, AppendedBlocks
<1>9. /\ ok \in DOMAIN code' \ DOMAIN code /\ code'[ok] = bs[1]
      /\ err \in DOMAIN code' \ DOMAIN code /\ code'[err] = bs[2]
      /\ \A b \in DOMAIN code' \ DOMAIN code : b = ok \/ b = err
  <2>1. 1 \in 1 .. 2 /\ 2 \in 1 .. 2 /\ \A i \in 1 .. 2 : i = 1 \/ i = 2
    OBVIOUS
  <2>2. QED
    BY <1>7, <1>8, <2>1 DEF Laid
<1>10. ok # err /\ ok \in Nat /\ err \in Nat /\ ok > n /\ err > n
  BY <1>4
<1>11. /\ Widens(code, en, ex, code', en2, exn, {cur})
       /\ \A b \in DOMAIN code : /\ b \in DOMAIN code' /\ en2[b] = en[b]
                                 /\ exn[b] = ex[b]
       /\ \A b \in DOMAIN code' \ DOMAIN code : en2[b] = w /\ exn[b] = At(w, 0)
  BY <1>4, <1>5, <1>8, Extended
<1>12. /\ Calls(Runs(0), w, 0) /\ 0 \in 0 .. Len(w)
       /\ Down(w, 0) \in Waiting
  <2>1. 0 \in 0 .. Len(defers) /\ 0 \in 0 .. Len(w)
    BY <1>4, <1>5
  <2> HIDE DEF w
  <2>2. QED
    BY <1>5, <2>1, RunsCall, DownFacts
<1> HIDE DEF en2, exn, w, ok, err, n
<1>13. /\ Widens(code, en, ex, code', en2, ex2, {cur})
       /\ ex2[err] = Down(w, 0)
       /\ \A b \in DOMAIN code' : b # err => ex2[b] = exn[b]
  BY <1>9, <1>11, <1>12, ExtendedAt
<1> HIDE DEF ex2
<1>14. Flat(code', en2, w, scopes, ok) /\ Flat(code', en2, w, scopes, err)
  <2>1. code'[ok].path = scopes /\ code'[err].path = scopes
    BY <1>7, <1>9
  <2>2. \A i \in DOMAIN scopes : scopes[i] <= n
    BY <1>5
  <2>3. Stays(code', ok) = scopes /\ Stays(code', err) = scopes
    BY <1>4, <1>5, <1>10, <2>1, <2>2, NewStays
  <2>4. QED
    BY <1>9, <1>11, <2>3 DEF Flat
<1>15. Typed(code', en2, ex2, cur)
  <2>1. en2[cur] = en[cur] /\ ex2[cur] = ex[cur]
    BY <1>4, <1>9, <1>11, <1>13
  <2>2. \A b \in code'[cur].term.to : Flat(code', en2, w, scopes, b)
    BY <1>6, <1>8, <1>14
  <2>3. code'[cur].term.op # "ret"
    BY <1>6, <1>8
  <2>4. QED
    BY <1>1, <1>3, <1>8, <2>1, <2>2, <2>3, FlatCur DEF w
<1>16. Typed(code', en2, ex2, ok)
  <2>1. /\ code'[ok].ins = <<>> /\ code'[ok].path = scopes
        /\ code'[ok].term.op # "ret" /\ code'[ok].term.to = {}
    BY <1>7, <1>9 DEF NoTerm
  <2>2. en2[ok] = w /\ ex2[ok] = At(w, 0)
    BY <1>9, <1>10, <1>11, <1>13
  <2>3. QED
    BY <1>4, <1>5, <2>1, <2>2, FlatNew
<1>17. Typed(code', en2, ex2, err)
  <2>1. /\ code'[err].ins = Runs(0) /\ code'[err].path = scopes
        /\ code'[err].term.to = {}
    BY <1>7, <1>9 DEF Ret
  <2>2. en2[err] = w /\ ex2[err] = Down(w, 0)
    BY <1>9, <1>11, <1>13
  <2>3. QED
    BY <1>5, <1>12, <2>1, <2>2, TypedError
<1>18. Sound(code', en2, ex2)
  <2>1. \A b \in DOMAIN code' : b \notin DOMAIN code \/ b \in {cur}
                                  => Typed(code', en2, ex2, b)
    BY <1>9, <1>15, <1>16, <1>17
  <2>2. QED
    BY <1>5, <1>13, <2>1, SoundStep
<1>19. Stack(L, scopes, defers, marks, Len(code'))
  <2>1. Len(code) <= Len(code') /\ Len(code') \in Nat /\ Len(code) \in Nat
    BY <1>13, WidensFacts
  <2>2. QED
    BY <1>5, <2>1, StackMore DEF n
<1>20. CurFit(code', ok, scopes, ex2, L)
  BY <1>5, <1>7, <1>9, <1>10, <1>11, <1>13 DEF CurFit, w
<1>21. Fit(code', ok, scopes, defers, marks, loops, frames, en2, ex2, L)
  BY <1>1, <1>3, <1>9, <1>13, <1>18, <1>19, <1>20, StraightFit
<1>22. Fit(code', cur', scopes', defers', marks', loops', frames', en2, ex2, L)
  BY <1>2, <1>21
<1>23. QED
  BY <1>1, <1>13, <1>22, FitNext

(* The levels after lg_push_scope: the ones before stay, and what waits    *)
(* does not change.                                                        *)
LEMMA OpenFacts ==
  ASSUME NEW L, NEW sc, NEW df, NEW mk, NEW n \in Nat, Stack(L, sc, df, mk, n),
         Len(sc) < MaxScopes, NEW b \in 0 .. n,
         b = 0 \/ \A i \in DOMAIN sc : sc[i] # b
  PROVE  /\ Stack(Append(L, Opened(L, b)), Append(sc, b), df, Marked(mk, Len(df)), n)
         /\ Len(Append(L, Opened(L, b))) = Len(L) + 1
         /\ \A k \in 1 .. Len(L) : Append(L, Opened(L, b))[k] = L[k]
         /\ Last(Append(L, Opened(L, b))).wait = Last(L).wait
         /\ Len(L) \in Nat /\ Last(L) = L[Len(L)] /\ Last(L).path = sc
<1> DEFINE M == Append(L, Opened(L, b))
<1>1. Levels(L, n) /\ L \in Seq(LevelType) /\ Last(L).path = sc
  BY DEF Stack, Levels
<1>2. Opened(L, b) \in LevelType
  BY <1>1, LevelsOpen
<1>3. Opened(L, b).wait = Last(L).wait
  BY DEF Opened
<1>4. /\ Len(M) = Len(L) + 1 /\ Len(L) \in Nat
      /\ \A k \in DOMAIN L : M[k] = L[k]
      /\ DOMAIN L = 1 .. Len(L)
  BY <1>1, <1>2, PushFacts
<1>5. Last(M) = Opened(L, b)
  BY <1>1, <1>2, PopPush
<1>6. Last(L) = L[Len(L)]
  BY <1>1, LevelParts
<1>7. Stack(M, Append(sc, b), df, Marked(mk, Len(df)), n)
  BY StackOpen
<1> HIDE DEF M
<1>8. QED
  BY <1>1, <1>3, <1>4, <1>5, <1>6, <1>7 DEF M

-----------------------------------------------------------------------------
(* Entering a construct.                                                   *)

(* The new blocks of d are empty and go on among themselves, where the     *)
(* scopes sc stay open, at most with the one of a for's variable.          *)
Fresh(c, sc, d) ==
  \A b \in DOMAIN d \ DOMAIN c :
    /\ d[b].ins = <<>>
    /\ d[b].path # <<>>
    /\ d[b].term.op # "ret"
    /\ d[b].term.to \subseteq DOMAIN d \ DOMAIN c
    /\ Stays(d, b) \in {sc, Append(sc, 0)}

(* The builder's block goes on there, too.                                 *)
Onward(c, d, n) ==
  /\ d[n].ins = c[n].ins
  /\ d[n].path = c[n].path
  /\ d[n].term.op # "ret"
  /\ d[n].term.to \subseteq DOMAIN d \ DOMAIN c

(* What waits at the builder's place, w, waits in all of them.             *)
Flowed(c, en, ex, d, n, w) ==
  /\ Widens(c, en, ex, d, Starts(en, c, d, w), Ends(ex, c, d, w), {n})
  /\ Sound(d, Starts(en, c, d, w), Ends(ex, c, d, w))
  /\ \A b \in DOMAIN d \ DOMAIN c : /\ Starts(en, c, d, w)[b] = w
                                    /\ Ends(ex, c, d, w)[b] = At(w, 0)

(* The blocks a construct creates can be typed with what waits where it is *)
(* entered.                                                                *)
LEMMA EnterSound ==
  ASSUME IInv, frames # <<>>, NEW en, NEW ex, NEW L,
         Fit(code, cur, scopes, defers, marks, loops, frames, en, ex, L),
         IsOpen(code, cur), NEW d, Grows(code, d, {cur}),
         Onward(code, d, cur), Fresh(code, scopes, d)
  PROVE  Flowed(code, en, ex, d, cur, Last(L).wait)
<1> DEFINE w == Last(L).wait
           en2 == Starts(en, code, d, w)
           ex2 == Ends(ex, code, d, w)
<1>1. code \in Blocks /\ cur \in DOMAIN code /\ Inside(code, Len(code))
      /\ scopes \in Seq(Nat)
  BY StateFacts DEF IInv
<1>2. /\ Sound(code, en, ex) /\ w \in Seq(Entry)
      /\ \A i \in DOMAIN w : IsIn(w[i].scope, scopes)
  BY FitFacts
<1>3. /\ Widens(code, en, ex, d, en2, ex2, {cur})
      /\ en2[cur] = en[cur] /\ ex2[cur] = ex[cur]
      /\ \A b \in DOMAIN d \ DOMAIN code : en2[b] = w /\ ex2[b] = At(w, 0)
  BY <1>1, <1>2, Extended
<1>0. w = Last(L).wait
  OBVIOUS
<1> HIDE DEF en2, ex2, w
<1>4. \A b \in DOMAIN d \ DOMAIN code : Flat(d, en2, w, scopes, b)
  BY <1>3 DEF Flat, Fresh
<1>5. Typed(d, en2, ex2, cur)
  <2>1. \A b \in d[cur].term.to : Flat(d, en2, Last(L).wait, scopes, b)
    BY <1>0, <1>4 DEF Onward
  <2>2. d[cur].ins = code[cur].ins /\ d[cur].path = code[cur].path
        /\ d[cur].term.op # "ret"
    BY DEF Onward
  <2>3. QED
    BY <1>0, <1>3, <2>1, <2>2, FlatCur
<1>6. ASSUME NEW b \in DOMAIN d \ DOMAIN code
      PROVE  Typed(d, en2, ex2, b)
  <2>1. /\ d[b].ins = <<>> /\ d[b].path # <<>> /\ d[b].term.op # "ret"
        /\ d[b].term.to \subseteq DOMAIN d \ DOMAIN code
    BY DEF Fresh
  <2>2. en2[b] = w /\ ex2[b] = At(w, 0)
    BY <1>3
  <2>3. \A t \in d[b].term.to : Flat(d, en2, w, scopes, t)
    BY <1>4, <2>1
  <2>4. QED
    BY <1>1, <1>2, <2>1, <2>2, <2>3, FlatNew
<1>7. Sound(d, en2, ex2)
  <2>1. \A b \in DOMAIN d : b \notin DOMAIN code \/ b \in {cur} => Typed(d, en2, ex2, b)
    BY <1>5, <1>6
  <2>2. QED
    BY <1>2, <1>3, <2>1, SoundStep
<1>8. QED
  BY <1>3, <1>7 DEF en2, ex2, w, Flowed

(* Construct f is entered at block p of function d, with one scope.        *)
EntersOne(d, p, f, ls) ==
  /\ f \in FrameType
  /\ f.kind \in {"then", "while", "loop", "unsafe"}
  /\ f.kind \in {"loop", "unsafe"} => f.next = f.done
  /\ {p, f.next, f.done} \subseteq DOMAIN d \ DOMAIN code
  /\ p # f.done
  /\ f.kind = "then" => /\ p # f.next
                        /\ d[f.next].path = IF f.alt = "block"
                             THEN Append(scopes, f.next) ELSE scopes
  /\ d[p].path = Append(scopes, p)
  /\ d[f.done].path = scopes
  /\ \A b \in DOMAIN d \ DOMAIN code : Stays(d, b) = scopes
  /\ \A l \in DOMAIN ls :
       \/ \E i \in DOMAIN loops : loops[i] = ls[l]
       \/ ls[l].brk = f.done /\ ls[l].cont \in DOMAIN d \ DOMAIN code

(* An if, a while, a loop or an unsafe block is entered: one scope opens.  *)
LEMMA EnterOneFit ==
  ASSUME IInv, frames # <<>>, FitNow, IsOpen(code, cur), Len(scopes) < MaxScopes,
         Grows(code, code', {cur}), Onward(code, code', cur), Fresh(code, scopes, code'),
         NEW f, EntersOne(code', cur', f, loops'),
         scopes' = Append(scopes, cur'), marks' = Marked(marks, Len(defers)),
         frames' = Append(frames, f), defers' = defers
  PROVE  FitNow'
<1>1. PICK en, ex, L :
        Fit(code, cur, scopes, defers, marks, loops, frames, en, ex, L) /\ en[1] = <<>>
  BY DEF FitNow, Fitting
<1> DEFINE d == code'
           p == cur'
           ls == loops'
           w == Last(L).wait
           en2 == Starts(en, code, d, w)
           ex2 == Ends(ex, code, d, w)
           M == Append(L, Opened(L, p))
           new == DOMAIN d \ DOMAIN code
<1>2. /\ Widens(code, en, ex, d, en2, ex2, {cur})
      /\ Sound(d, en2, ex2)
      /\ \A b \in new : en2[b] = w /\ ex2[b] = At(w, 0)
  <2>1. Flowed(code, en, ex, code', cur, w)
    BY <1>1, EnterSound
  <2>2. QED
    BY <2>1 DEF Flowed
<1>3. /\ Stack(L, scopes, defers, marks, Len(code)) /\ Len(L) = Len(scopes)
      /\ Len(L) \in Nat /\ Len(L) > 1 /\ scopes # <<>> /\ Last(scopes) # 0
      /\ \A i \in DOMAIN scopes : scopes[i] <= Len(code)
      /\ scopes \in Seq(Nat)
  BY <1>1, FitFacts DEF IInv
<1>4. /\ DOMAIN d = 1 .. Len(d) /\ DOMAIN code = 1 .. Len(code)
      /\ Len(code) \in Nat /\ Len(d) \in Nat /\ Len(code) <= Len(d)
  BY <1>2, WidensFacts
<1> HIDE DEF w, en2, ex2
<1>5. \A b \in new : b \in Nat /\ b > Len(code) /\ b \in 0 .. Len(d)
  <2> HIDE DEF d
  <2>1. \A b \in 1 .. Len(d) : b \notin 1 .. Len(code) =>
          b \in Nat /\ b > Len(code) /\ b \in 0 .. Len(d)
    BY <1>4
  <2>2. QED
    BY <1>4, <2>1
<1>6. p \in new /\ f.next \in new /\ f.done \in new
  BY DEF EntersOne
<1>7. Stack(L, scopes, defers, marks, Len(d))
  BY <1>3, <1>4, StackMore
<1>8. /\ Stack(M, Append(scopes, p), defers, Marked(marks, Len(defers)), Len(d))
      /\ Len(M) = Len(L) + 1
      /\ \A k \in 1 .. Len(L) : M[k] = L[k]
      /\ Last(M).wait = w /\ L[Len(L)] = Last(L)
      /\ Last(L).path = scopes
  <2>1. \A i \in DOMAIN scopes : scopes[i] # p
    <3>1. \A i \in DOMAIN scopes : scopes[i] \in Nat
      BY <1>3, LenProperties, ElementOfSeq
    <3>2. p \in Nat /\ p > Len(code)
      BY <1>5, <1>6
    <3> HIDE DEF p
    <3>3. QED
      BY <1>3, <1>4, <3>1, <3>2
  <2>2. p \in 0 .. Len(d)
    BY <1>5, <1>6
  <2> HIDE DEF p, d
  <2>3. QED
    BY <1>4, <1>7, <2>1, <2>2, OpenFacts DEF w
<1> HIDE DEF M
<1>9. LoopsFrom(code, loops, ls)
  BY DEF EntersOne, LoopsFrom
<1>10. Around(d, f) = Len(L)
  BY <1>3 DEF Around, EntersOne
<1>11. /\ Len(L) \in DOMAIN M /\ M[Len(L)].path = scopes /\ M[Len(L)].wait = w
  <2>1. M \in Seq(LevelType)
    BY <1>8 DEF Stack, Levels
  <2>2. Len(L) \in 1 .. Len(M)
    BY <1>3, <1>8
  <2>3. Len(L) \in DOMAIN M
    BY <2>1, <2>2, LenProperties
  <2>4. QED
    BY <1>3, <1>8, <2>3 DEF w
<1>12. \A b \in new : Target(d, en2, M, b, Len(L))
  BY <1>2, <1>11 DEF Target, EntersOne
<1>13. \A b \in new : b # p => Waits(d, p, en2, ex2, M, b, Len(L))
  BY <1>2, <1>12 DEF Waits
<1>14. FrameFit(d, p, ls, en2, ex2, M, f)
  <2>1. Len(L) + Opens(f.kind) <= Len(M)
    <3>1. Opens(f.kind) = 1
      BY DEF EntersOne, Opens
    <3>2. QED
      BY <1>3, <1>8, <3>1
  <2>2. Waits(d, p, en2, ex2, M, f.done, Len(L)) /\ d[f.done].path = scopes
    BY <1>6, <1>13 DEF EntersOne
  <2>3. \A j \in DOMAIN scopes : scopes[j] < f.next
    <3>1. f.next \in Nat /\ f.next > Len(code)
      BY <1>5, <1>6
    <3>2. \A i \in DOMAIN scopes : scopes[i] \in Nat
      BY <1>3, LenProperties, ElementOfSeq
    <3>3. QED
      BY <1>3, <1>4, <3>1, <3>2
  <2>4. NextFit(d, p, en2, ex2, M, f, Len(L))
    <3>1. f.kind = "then" => Waits(d, p, en2, ex2, M, f.next, Len(L))
      BY <1>6, <1>13 DEF EntersOne
    <3>2. Target(d, en2, M, f.next, Len(L))
      BY <1>6, <1>12
    <3>3. f.kind \notin {"for", "else"}
      BY DEF EntersOne
    <3>4. QED
      BY <1>11, <3>1, <3>2, <3>3 DEF NextFit, EntersOne
  <2>5. LoopFit(d, ls, en2, M, f, Len(L))
    <3>1. SUFFICES ASSUME NEW l \in DOMAIN ls, ls[l].brk = f.done
                   PROVE  Target(d, en2, M, ls[l].cont, Len(L))
      BY DEF LoopFit
    <3>2. \A i \in DOMAIN loops : loops[i].brk \in DOMAIN code
      BY DEF IInv
    <3>3. ls[l].cont \in new
      BY <1>6, <3>1, <3>2 DEF EntersOne
    <3>4. QED
      BY <1>12, <3>3
  <2>6. QED
    BY <1>3, <1>10, <1>11, <2>1, <2>2, <2>3, <2>4, <2>5 DEF FrameFit
<1>15. CurFit(d, p, Append(scopes, p), ex2, M)
  <2>1. d[p].path = Append(scopes, p)
    BY DEF EntersOne
  <2>2. Last(Append(scopes, p)) = p /\ p # 0
    <3>1. p \in Nat /\ p > Len(code)
      BY <1>5, <1>6
    <3> HIDE DEF p
    <3>2. QED
      BY <1>3, <1>4, <3>1, PopPush
  <2>3. ex2[p] = At(Last(M).wait, 0)
    BY <1>2, <1>6, <1>8
  <2>4. QED
    BY <2>1, <2>2, <2>3 DEF CurFit
<1>16. Fit(d, p, Append(scopes, p), defers, Marked(marks, Len(defers)), ls,
           Append(frames, f), en2, ex2, M)
  <2>1. p \notin DOMAIN code /\ f \in FrameType
    BY <1>6 DEF EntersOne
  <2>2. Len(L) <= Len(M)
    BY <1>3, <1>8
  <2> DEFINE sc == Append(scopes, p)
             mk == Marked(marks, Len(defers))
  <2>3. Stack(M, sc, defers, mk, Len(d)) /\ CurFit(d, p, sc, ex2, M)
    BY <1>8, <1>15
  <2> HIDE DEF p, d, ls, sc, mk
  <2>4. \A k \in 1 .. Len(L) : M[k] = L[k]
    BY <1>8
  <2>5. EnterTo(en, ex, L, d, en2, ex2, p, sc, mk, M, ls, f)
    BY <1>2, <1>9, <1>10, <1>14, <2>1, <2>2, <2>3, <2>4 DEF EnterTo
  <2>6. Fit(d, p, sc, defers, mk, ls, Append(frames, f), en2, ex2, M)
    BY <1>1, <2>5, EnterFit
  <2>7. QED
    BY <2>6 DEF sc, mk
<1>17. Fit(code', cur', scopes', defers', marks', loops', frames', en2, ex2, M)
  BY <1>16
<1>18. QED
  BY <1>1, <1>2, <1>17, FitNext

(* What lg_push_scope needs to find room.                                  *)
LEMMA RoomForOne ==
  ASSUME IInv, NEW b \in Nat, scopes' = Append(scopes, b), Len(scopes') <= MaxScopes
  PROVE  Len(scopes) < MaxScopes
<1>1. scopes \in Seq(Nat)
  BY DEF IInv
<1>2. Len(scopes') = Len(scopes) + 1 /\ Len(scopes) \in Nat
  BY <1>1, PushFacts
<1>3. QED
  BY <1>2, ConstantsAssumption

(* The loops after lg_push_loop, with room or without.                     *)
LEMMA LoopPushedFrom ==
  ASSUME IInv, NEW brk \in Nat, NEW cont \in Nat, NEW l \in DOMAIN LoopPushed(brk, cont)
  PROVE  \/ \E i \in DOMAIN loops : loops[i] = LoopPushed(brk, cont)[l]
         \/ LoopPushed(brk, cont)[l].brk = brk /\ LoopPushed(brk, cont)[l].cont = cont
<1> DEFINE e == [brk |-> brk, cont |-> cont]
<1>1. loops \in Seq(LoopType) /\ e \in LoopType /\ e.brk = brk /\ e.cont = cont
  BY DEF IInv, LoopsFit, LoopType
<1> HIDE DEF e
<1>2. LoopPushed(brk, cont) = IF Len(loops) < MaxLoops THEN Append(loops, e) ELSE loops
  BY DEF LoopPushed, e
<1>3. CASE Len(loops) < MaxLoops
  <2>1. LoopPushed(brk, cont) = Append(loops, e)
    BY <1>2, <1>3
  <2>2. \/ l \in DOMAIN loops /\ Append(loops, e)[l] = loops[l]
        \/ Append(loops, e)[l] = e
    BY <1>1, <2>1, AppendAt
  <2>3. QED
    BY <1>1, <2>1, <2>2
<1>4. CASE ~(Len(loops) < MaxLoops)
  BY <1>2, <1>4
<1>5. QED
  BY <1>3, <1>4

(* if: the then block is entered; the else block waits, with a scope of    *)
(* its own if statements stand in it.                                      *)
LEMMA IfBlocksFit ==
  ASSUME IInv, IInv', Final, frames # <<>>, FitNow, IsOpen(code, cur),
         NEW alt \in {"none", "block", "if"}, IfBlocks(alt), Len(scopes') <= MaxScopes
  PROVE  FitNow'
<1> DEFINE n == Len(code)
           then == n + 1
           else == n + 2
           done == n + 3
           t == CondBr(then, else)
           f == Frame("then", else, done, alt)
           outer == IF alt = "block" THEN Append(scopes, else) ELSE scopes
           bs == <<Empty(Append(scopes, then), "if"), Empty(outer, "if"),
                   Empty(scopes, "if")>>
           new == DOMAIN code' \ DOMAIN code
<1>1. /\ code' = Close(code, cur, t) \o bs
      /\ cur' = then /\ scopes' = Append(scopes, then)
      /\ marks' = Marked(marks, Len(defers)) /\ frames' = Append(frames, f)
      /\ defers' = defers /\ loops' = loops
  BY DEF IfBlocks, EnterBlock
<1>2. n \in Nat /\ scopes \in Seq(Nat) /\ scopes # <<>>
      /\ \A i \in DOMAIN scopes : scopes[i] <= n
  BY StateFacts, FitFacts DEF IInv, FitNow, Fitting
<1>3. /\ then \in Nat /\ else \in Nat /\ done \in Nat
      /\ then > n /\ else > n /\ done > n
      /\ then # else /\ then # done /\ else # done
  BY <1>2
<1>4. t \in Term /\ t.to = {then, else} /\ t.op # "ret"
  <2>1. then \in Nat \ {0} /\ else \in Nat \ {0}
    BY <1>2
  <2>2. QED
    BY <2>1, MadeTypes DEF CondBr
<1>5. /\ bs \in Seq({bs[1], bs[2], bs[3]}) /\ Len(bs) = 3
      /\ bs[1].ins = <<>> /\ bs[1].path = Append(scopes, then) /\ bs[1].term = NoTerm
      /\ bs[2].ins = <<>> /\ bs[2].path = outer /\ bs[2].term = NoTerm
      /\ bs[3].ins = <<>> /\ bs[3].path = scopes /\ bs[3].term = NoTerm
  BY DEF Empty, Block
<1>6. f \in FrameType /\ f.kind = "then" /\ f.next = else /\ f.done = done /\ f.alt = alt
  BY <1>3 DEF Frame, FrameType, FrameKinds
<1>7. NoTerm.to = {} /\ NoTerm.op # "ret"
  BY DEF NoTerm
<1> HIDE DEF t, bs, f
<1>8. /\ Grows(code, code', {cur})
      /\ code'[cur].ins = code[cur].ins
      /\ code'[cur].path = code[cur].path
      /\ code'[cur].term = t
      /\ Laid(code, code', bs)
  BY <1>1, <1>4, <1>5, AppendedBlocks
<1>9. /\ then \in new /\ code'[then] = bs[1]
      /\ else \in new /\ code'[else] = bs[2]
      /\ done \in new /\ code'[done] = bs[3]
      /\ \A b \in new : b = then \/ b = else \/ b = done
  <2>1. 1 \in 1 .. 3 /\ 2 \in 1 .. 3 /\ 3 \in 1 .. 3
        /\ \A i \in 1 .. 3 : i = 1 \/ i = 2 \/ i = 3
    OBVIOUS
  <2>2. QED
    BY <1>5, <1>8, <2>1 DEF Laid
<1> HIDE DEF then, else, done, n
<1>10. Stays(code', then) = scopes /\ Stays(code', else) = scopes
       /\ Stays(code', done) = scopes
  <2>1. code'[then].path = Append(scopes, then) /\ code'[done].path = scopes
        /\ (code'[else].path = Append(scopes, else) \/ code'[else].path = scopes)
    BY <1>5, <1>9
  <2>2. QED
    BY <1>2, <1>3, <2>1, NewStays
<1>11. Fresh(code, scopes, code')
  <2>1. Append(scopes, then) # <<>> /\ outer # <<>>
    BY <1>2, <1>3, PushFacts
  <2>2. QED
    BY <1>2, <1>5, <1>7, <1>9, <1>10, <2>1 DEF Fresh
<1>12. Onward(code, code', cur)
  BY <1>4, <1>8, <1>9 DEF Onward
<1>13. EntersOne(code', cur', f, loops')
  <2>1. code'[then].path = Append(scopes, then) /\ code'[done].path = scopes
        /\ code'[else].path = IF alt = "block" THEN Append(scopes, else) ELSE scopes
    BY <1>5, <1>9
  <2>2. \A b \in new : Stays(code', b) = scopes
    BY <1>9, <1>10
  <2>3. \A l \in DOMAIN loops' : \E i \in DOMAIN loops : loops[i] = loops'[l]
    BY <1>1
  <2>4. QED
    BY <1>1, <1>3, <1>6, <1>9, <2>1, <2>2, <2>3 DEF EntersOne
<1>14. Len(scopes) < MaxScopes
  BY <1>1, <1>3, RoomForOne
<1>15. QED
  BY <1>1, <1>8, <1>11, <1>12, <1>13, <1>14, EnterOneFit

(* while: the condition's block goes on to the body and the done block.    *)
LEMMA WhileFit ==
  ASSUME IInv, IInv', Final, FitNow, WhileStmt, Len(scopes') <= MaxScopes
  PROVE  FitNow'
<1> DEFINE n == Len(code)
           cond == n + 1
           body == n + 2
           done == n + 3
           t == Br(cond)
           f == Frame("while", cond, done, "none")
           bs == <<Block(<<>>, CondBr(body, done), scopes, "while"),
                   Empty(Append(scopes, body), "while"),
                   Empty(scopes, "while")>>
           new == DOMAIN code' \ DOMAIN code
<1>1. /\ AtStmt("while") /\ code' = Close(code, cur, t) \o bs
      /\ cur' = body /\ scopes' = Append(scopes, body)
      /\ marks' = Marked(marks, Len(defers)) /\ frames' = Append(frames, f)
      /\ defers' = defers /\ loops' = LoopPushed(done, cond)
  BY DEF WhileStmt, EnterBlock
<1>2. /\ frames # <<>> /\ IsOpen(code, cur)
      /\ n \in Nat /\ scopes \in Seq(Nat) /\ scopes # <<>>
      /\ \A i \in DOMAIN scopes : scopes[i] <= n
  BY <1>1, AtStmtFacts, StateFacts, FitFacts DEF IInv, FitNow, Fitting
<1>3. /\ cond \in Nat /\ body \in Nat /\ done \in Nat
      /\ cond > n /\ body > n /\ done > n
      /\ cond # body /\ cond # done /\ body # done
  BY <1>2
<1>4. t \in Term /\ t.to = {cond} /\ t.op # "ret"
  <2>1. cond \in Nat \ {0}
    BY <1>2
  <2>2. QED
    BY <2>1, MadeTypes DEF Br
<1>5. /\ bs \in Seq({bs[1], bs[2], bs[3]}) /\ Len(bs) = 3
      /\ bs[1].ins = <<>> /\ bs[1].path = scopes /\ bs[1].term = CondBr(body, done)
      /\ bs[2].ins = <<>> /\ bs[2].path = Append(scopes, body) /\ bs[2].term = NoTerm
      /\ bs[3].ins = <<>> /\ bs[3].path = scopes /\ bs[3].term = NoTerm
  BY DEF Empty, Block
<1>6. f \in FrameType /\ f.kind = "while" /\ f.next = cond /\ f.done = done
  BY <1>3 DEF Frame, FrameType, FrameKinds, Loops
<1>7. /\ NoTerm.to = {} /\ NoTerm.op # "ret"
      /\ CondBr(body, done).to = {body, done} /\ CondBr(body, done).op # "ret"
  BY DEF NoTerm, CondBr
<1> HIDE DEF t, bs, f
<1>8. /\ Grows(code, code', {cur})
      /\ code'[cur].ins = code[cur].ins
      /\ code'[cur].path = code[cur].path
      /\ code'[cur].term = t
      /\ Laid(code, code', bs)
  BY <1>1, <1>4, <1>5, AppendedBlocks
<1>9. /\ cond \in new /\ code'[cond] = bs[1]
      /\ body \in new /\ code'[body] = bs[2]
      /\ done \in new /\ code'[done] = bs[3]
      /\ \A b \in new : b = cond \/ b = body \/ b = done
  <2>1. 1 \in 1 .. 3 /\ 2 \in 1 .. 3 /\ 3 \in 1 .. 3
        /\ \A i \in 1 .. 3 : i = 1 \/ i = 2 \/ i = 3
    OBVIOUS
  <2>2. QED
    BY <1>5, <1>8, <2>1 DEF Laid
<1> HIDE DEF cond, body, done, n
<1>10. /\ code'[cond].path = scopes /\ code'[done].path = scopes
       /\ code'[body].path = Append(scopes, body)
  BY <1>5, <1>9
<1>11. Stays(code', cond) = scopes /\ Stays(code', body) = scopes
       /\ Stays(code', done) = scopes
  BY <1>2, <1>3, <1>10, NewStays
<1>12. Fresh(code, scopes, code')
  <2>1. Append(scopes, body) # <<>>
    BY <1>2, <1>3, PushFacts
  <2>2. QED
    BY <1>2, <1>5, <1>7, <1>9, <1>11, <2>1 DEF Fresh
<1>13. Onward(code, code', cur)
  BY <1>4, <1>8, <1>9 DEF Onward
<1>14. EntersOne(code', cur', f, loops')
  <2>1. \A b \in new : Stays(code', b) = scopes
    BY <1>9, <1>11
  <2>2. \A l \in DOMAIN loops' :
          \/ \E i \in DOMAIN loops : loops[i] = loops'[l]
          \/ loops'[l].brk = f.done /\ loops'[l].cont \in new
    <3>1. done \in Nat /\ cond \in Nat /\ cond \in new /\ f.done = done
      BY <1>3, <1>6, <1>9
    <3>2. loops' = LoopPushed(done, cond)
      BY <1>1
    <3>3. QED
      BY <3>1, <3>2, LoopPushedFrom
  <2>3. QED
    BY <1>1, <1>3, <1>6, <1>9, <1>10, <2>1, <2>2 DEF EntersOne
<1>15. Len(scopes) < MaxScopes
  BY <1>1, <1>3, RoomForOne
<1>16. QED
  BY <1>1, <1>2, <1>8, <1>12, <1>13, <1>14, <1>15, EnterOneFit

(* loop and unsafe: the body's block is entered at once.                   *)
LEMMA LoopOrUnsafeFit ==
  ASSUME IInv, IInv', Final, FitNow,
         NEW kind \in {"loop", "unsafe"}, LoopOrUnsafe(kind), Len(scopes') <= MaxScopes
  PROVE  FitNow'
<1> DEFINE n == Len(code)
           body == n + 1
           done == n + 2
           t == Br(body)
           f == Frame(kind, done, done, "none")
           bs == <<Empty(Append(scopes, body), kind), Empty(scopes, kind)>>
           new == DOMAIN code' \ DOMAIN code
<1>1. /\ AtStmt(kind) /\ code' = Close(code, cur, t) \o bs
      /\ cur' = body /\ scopes' = Append(scopes, body)
      /\ marks' = Marked(marks, Len(defers)) /\ frames' = Append(frames, f)
      /\ defers' = defers /\ loops' = LoopPushed(done, body)
  BY DEF LoopOrUnsafe, EnterBlock
<1>2. /\ frames # <<>> /\ IsOpen(code, cur)
      /\ n \in Nat /\ scopes \in Seq(Nat) /\ scopes # <<>>
      /\ \A i \in DOMAIN scopes : scopes[i] <= n
  BY <1>1, AtStmtFacts, StateFacts, FitFacts DEF IInv, FitNow, Fitting
<1>3. /\ body \in Nat /\ done \in Nat
      /\ body > n /\ done > n
      /\ body # done
  BY <1>2
<1>4. t \in Term /\ t.to = {body} /\ t.op # "ret"
  <2>1. body \in Nat \ {0}
    BY <1>2
  <2>2. QED
    BY <2>1, MadeTypes DEF Br
<1>5. /\ bs \in Seq({bs[1], bs[2]}) /\ Len(bs) = 2
      /\ bs[1].ins = <<>> /\ bs[1].path = Append(scopes, body) /\ bs[1].term = NoTerm
      /\ bs[2].ins = <<>> /\ bs[2].path = scopes /\ bs[2].term = NoTerm
  BY DEF Empty, Block
<1>6. f \in FrameType /\ f.kind = kind /\ f.next = done /\ f.done = done
  BY <1>3 DEF Frame, FrameType, FrameKinds, Loops
<1>7. NoTerm.to = {} /\ NoTerm.op # "ret"
  BY DEF NoTerm
<1> HIDE DEF t, bs, f
<1>8. /\ Grows(code, code', {cur})
      /\ code'[cur].ins = code[cur].ins
      /\ code'[cur].path = code[cur].path
      /\ code'[cur].term = t
      /\ Laid(code, code', bs)
  BY <1>1, <1>4, <1>5, AppendedBlocks
<1>9. /\ body \in new /\ code'[body] = bs[1]
      /\ done \in new /\ code'[done] = bs[2]
      /\ \A b \in new : b = body \/ b = done
  <2>1. 1 \in 1 .. 2 /\ 2 \in 1 .. 2 /\ \A i \in 1 .. 2 : i = 1 \/ i = 2
    OBVIOUS
  <2>2. QED
    BY <1>5, <1>8, <2>1 DEF Laid
<1> HIDE DEF body, done, n
<1>10. code'[done].path = scopes /\ code'[body].path = Append(scopes, body)
  BY <1>5, <1>9
<1>11. Stays(code', body) = scopes /\ Stays(code', done) = scopes
  BY <1>2, <1>3, <1>10, NewStays
<1>12. Fresh(code, scopes, code')
  <2>1. Append(scopes, body) # <<>>
    BY <1>2, <1>3, PushFacts
  <2>2. QED
    BY <1>2, <1>5, <1>7, <1>9, <1>11, <2>1 DEF Fresh
<1>13. Onward(code, code', cur)
  BY <1>4, <1>8, <1>9 DEF Onward
<1>14. EntersOne(code', cur', f, loops')
  <2>1. \A b \in new : Stays(code', b) = scopes
    BY <1>9, <1>11
  <2>2. \A l \in DOMAIN loops' :
          \/ \E i \in DOMAIN loops : loops[i] = loops'[l]
          \/ loops'[l].brk = f.done /\ loops'[l].cont \in new
    BY <1>1, <1>3, <1>6, <1>9, LoopPushedFrom
  <2>3. QED
    BY <1>1, <1>3, <1>6, <1>9, <1>10, <2>1, <2>2 DEF EntersOne
<1>15. Len(scopes) < MaxScopes
  BY <1>1, <1>3, RoomForOne
<1>16. QED
  BY <1>1, <1>2, <1>8, <1>12, <1>13, <1>14, <1>15, EnterOneFit

(* for: a scope for the variable is opened, in which the condition and the *)
(* post block stand, and the body's own.                                   *)
LEMMA ForFit ==
  ASSUME IInv, IInv', Final, FitNow, ForStmt, Len(scopes') <= MaxScopes
  PROVE  FitNow'
<1>0. PICK en, ex, L :
        Fit(code, cur, scopes, defers, marks, loops, frames, en, ex, L) /\ en[1] = <<>>
  BY DEF FitNow, Fitting
<1> DEFINE n == Len(code)
           cond == n + 1
           body == n + 2
           post == n + 3
           done == n + 4
           inner == Append(scopes, 0)
           t == Br(cond)
           f == Frame("for", post, done, "none")
           mk1 == Marked(marks, Len(defers))
           mk == Marked(mk1, Len(defers))
           bs(test) == <<Block(<<>>, test, inner, "for"),
                         Empty(Append(inner, body), "for"),
                         Block(<<>>, Br(cond), inner, "for"),
                         Empty(scopes, "for")>>
           new == DOMAIN code' \ DOMAIN code
           w == Last(L).wait
           en2 == Starts(en, code, code', w)
           ex2 == Ends(ex, code, code', w)
           L1 == Append(L, Opened(L, 0))
           M == Append(L1, Opened(L1, body))
<1>1. /\ AtStmt("for")
      /\ cur' = body /\ scopes' = Append(inner, body) /\ marks' = mk
      /\ frames' = Append(frames, f)
      /\ defers' = defers /\ loops' = LoopPushed(done, post)
  BY DEF ForStmt
<1>2. PICK test \in {CondBr(body, done), Br(body)} : code' = Close(code, cur, t) \o bs(test)
  BY DEF ForStmt
<1> DEFINE bt == bs(test)
<1>3. /\ frames # <<>> /\ IsOpen(code, cur)
      /\ n \in Nat /\ scopes \in Seq(Nat) /\ scopes # <<>> /\ Last(scopes) # 0
      /\ \A i \in DOMAIN scopes : scopes[i] <= n
      /\ Stack(L, scopes, defers, marks, n) /\ Len(L) = Len(scopes) /\ Len(L) > 1
  BY <1>0, <1>1, AtStmtFacts, StateFacts, FitFacts DEF IInv
<1>4. /\ cond \in Nat /\ body \in Nat /\ post \in Nat /\ done \in Nat
      /\ cond > n /\ body > n /\ post > n /\ done > n
      /\ cond # body /\ cond # post /\ cond # done
      /\ body # post /\ body # done /\ post # done
  BY <1>3
<1>5. t \in Term /\ t.to = {cond} /\ t.op # "ret"
  <2>1. cond \in Nat \ {0}
    BY <1>3
  <2>2. QED
    BY <2>1, MadeTypes DEF Br
<1>6. /\ bt \in Seq({bt[1], bt[2], bt[3], bt[4]}) /\ Len(bt) = 4
      /\ bt[1].ins = <<>> /\ bt[1].path = inner /\ bt[1].term = test
      /\ bt[2].ins = <<>> /\ bt[2].path = Append(inner, body) /\ bt[2].term = NoTerm
      /\ bt[3].ins = <<>> /\ bt[3].path = inner /\ bt[3].term = t
      /\ bt[4].ins = <<>> /\ bt[4].path = scopes /\ bt[4].term = NoTerm
  BY DEF Empty, Block
<1>7. f \in FrameType /\ f.kind = "for" /\ f.next = post /\ f.done = done
  BY <1>4 DEF Frame, FrameType, FrameKinds, Loops
<1>8. /\ NoTerm.to = {} /\ NoTerm.op # "ret"
      /\ test.to \subseteq {body, done} /\ test.op # "ret"
  BY DEF NoTerm, CondBr, Br
<1>9. code' = Close(code, cur, t) \o bt
  BY <1>2
<1> HIDE DEF t, bt, f
<1>10. /\ Grows(code, code', {cur})
       /\ code'[cur].ins = code[cur].ins
       /\ code'[cur].path = code[cur].path
       /\ code'[cur].term = t
       /\ Laid(code, code', bt)
  BY <1>5, <1>6, <1>9, AppendedBlocks
<1>11. /\ cond \in new /\ code'[cond] = bt[1]
       /\ body \in new /\ code'[body] = bt[2]
       /\ post \in new /\ code'[post] = bt[3]
       /\ done \in new /\ code'[done] = bt[4]
       /\ \A b \in new : b = cond \/ b = body \/ b = post \/ b = done
  <2>1. 1 \in 1 .. 4 /\ 2 \in 1 .. 4 /\ 3 \in 1 .. 4 /\ 4 \in 1 .. 4
        /\ \A i \in 1 .. 4 : i = 1 \/ i = 2 \/ i = 3 \/ i = 4
    OBVIOUS
  <2>2. QED
    BY <1>6, <1>10, <2>1 DEF Laid
<1> HIDE DEF cond, body, post, done, n
<1>12. /\ code'[cond].path = inner /\ code'[post].path = inner
       /\ code'[done].path = scopes /\ code'[body].path = Append(inner, body)
  BY <1>6, <1>11
<1>13. /\ Stays(code', cond) = inner /\ Stays(code', post) = inner
       /\ Stays(code', done) = scopes /\ Stays(code', body) = inner
  <2>1. n \in Nat /\ scopes \in Seq(Nat) /\ scopes # <<>>
        /\ \A i \in DOMAIN scopes : scopes[i] <= n
    BY <1>3
  <2>2. Last(inner) = 0 /\ inner \in Seq(Nat)
    BY <1>3, PopPush, PushFacts
  <2> HIDE DEF inner
  <2>3. Last(Append(inner, body)) = body /\ Front(Append(inner, body)) = inner
    BY <1>4, <2>2, PopPush
  <2>4. cond # 0 /\ post # 0
    BY <1>3, <1>4
  <2>5. Stays(code', cond) = inner
    BY <1>12, <2>2, <2>4 DEF Stays
  <2>6. Stays(code', post) = inner
    BY <1>12, <2>2, <2>4 DEF Stays
  <2>7. Stays(code', body) = inner
    BY <1>12, <2>3 DEF Stays
  <2>8. Stays(code', done) = scopes
    BY <1>4, <1>12, <2>1, NewStays
  <2>9. QED
    BY <2>5, <2>6, <2>7, <2>8
<1>14. inner \in Seq(Nat) /\ inner # <<>> /\ Append(inner, body) # <<>>
       /\ Len(inner) = Len(scopes) + 1 /\ Len(Append(inner, body)) = Len(inner) + 1
       /\ DOMAIN inner = 1 .. Len(scopes) + 1 /\ Len(scopes) \in Nat
       /\ DOMAIN scopes = 1 .. Len(scopes)
       /\ \A i \in DOMAIN scopes : inner[i] = scopes[i]
       /\ inner[Len(scopes) + 1] = 0
  BY <1>3, <1>4, PushFacts
<1>15. Fresh(code, scopes, code')
  <2>1. /\ code'[cond].ins = <<>> /\ code'[body].ins = <<>>
        /\ code'[post].ins = <<>> /\ code'[done].ins = <<>>
    BY <1>6, <1>11
  <2>2. /\ code'[cond].term = test /\ code'[body].term = NoTerm
        /\ code'[post].term = t /\ code'[done].term = NoTerm
    BY <1>6, <1>11
  <2>3. /\ code'[cond].path # <<>> /\ code'[body].path # <<>>
        /\ code'[post].path # <<>> /\ code'[done].path # <<>>
    BY <1>3, <1>12, <1>14
  <2>4. t.to \subseteq new /\ t.op # "ret"
    BY <1>5, <1>11
  <2>5. test.to \subseteq new /\ test.op # "ret"
    BY <1>8, <1>11
  <2>6. ASSUME NEW b \in new
        PROVE  /\ code'[b].ins = <<>> /\ code'[b].path # <<>>
               /\ code'[b].term \in {test, NoTerm, t}
               /\ Stays(code', b) \in {scopes, inner}
    <3> HIDE DEF inner
    <3>1. QED
      BY <1>11, <1>13, <2>1, <2>2, <2>3
  <2>7. \A b \in new : code'[b].term.op # "ret" /\ code'[b].term.to \subseteq new
    BY <1>8, <2>4, <2>5, <2>6
  <2>8. QED
    BY <2>6, <2>7 DEF Fresh
<1>16. Onward(code, code', cur)
  BY <1>5, <1>10, <1>11 DEF Onward
<1>17. /\ Widens(code, en, ex, code', en2, ex2, {cur})
       /\ Sound(code', en2, ex2)
       /\ \A b \in new : en2[b] = w /\ ex2[b] = At(w, 0)
  <2>1. Flowed(code, en, ex, code', cur, w)
    BY <1>0, <1>3, <1>10, <1>15, <1>16, EnterSound
  <2>2. QED
    BY <2>1 DEF Flowed
<1>18. Len(code) \in Nat /\ Len(code') \in Nat /\ Len(code) <= Len(code')
       /\ DOMAIN code' = 1 .. Len(code')
  BY <1>17, WidensFacts
<1> HIDE DEF w, en2, ex2, inner
<1>19. Len(scopes) < MaxScopes /\ Len(inner) < MaxScopes
  <2>1. Len(scopes) + 2 <= MaxScopes
    BY <1>1, <1>14
  <2>2. QED
    BY <1>14, <2>1, ConstantsAssumption
<1>20. Stack(L, scopes, defers, marks, Len(code'))
  BY <1>3, <1>18, StackMore DEF n
<1>21. body \in 0 .. Len(code') /\ 0 \in 0 .. Len(code')
  <2>1. body \in 1 .. Len(code')
    BY <1>11, <1>18
  <2>2. Len(code') \in Nat
    BY <1>18
  <2>3. QED
    BY <1>4, <2>1, <2>2
<1>22. \A i \in DOMAIN inner : inner[i] # body
  <2>1. ASSUME NEW i \in 1 .. Len(scopes) + 1
        PROVE  inner[i] # body
    <3>1. CASE i = Len(scopes) + 1
      BY <1>3, <1>4, <1>14, <3>1
    <3>2. CASE i # Len(scopes) + 1
      <4>1. i \in 1 .. Len(scopes)
        <5>1. Len(scopes) \in Nat
          BY <1>14
        <5>2. QED
          BY <3>2, <5>1
      <4>2. i \in DOMAIN scopes
        BY <1>14, <4>1
      <4>3. inner[i] = scopes[i] /\ scopes[i] <= n /\ scopes[i] \in Nat
        BY <1>3, <1>14, <4>1, <4>2, ElementOfSeq
      <4>4. QED
        BY <1>3, <1>4, <4>3
    <3>3. QED
      BY <3>1, <3>2
  <2>2. QED
    BY <1>14, <2>1
<1>23. /\ Stack(L1, inner, defers, mk1, Len(code'))
       /\ Len(L1) = Len(L) + 1
       /\ \A k \in 1 .. Len(L) : L1[k] = L[k]
       /\ Last(L1).wait = w /\ Len(L) \in Nat
       /\ L[Len(L)].path = scopes /\ L[Len(L)].wait = w
  BY <1>18, <1>19, <1>20, <1>21, OpenFacts DEF inner, w
<1> HIDE DEF L1, mk1
<1>24. /\ Stack(M, Append(inner, body), defers, mk, Len(code'))
       /\ Len(M) = Len(L1) + 1
       /\ \A k \in 1 .. Len(L1) : M[k] = L1[k]
       /\ Last(M).wait = w
       /\ L1[Len(L1)].path = inner /\ L1[Len(L1)].wait = w
  BY <1>18, <1>19, <1>21, <1>22, <1>23, OpenFacts
<1> HIDE DEF M, mk
<1>25. /\ Len(M) = Len(L) + 2
       /\ \A k \in 1 .. Len(L) : M[k] = L[k]
       /\ M[Len(L)].path = scopes /\ M[Len(L)].wait = w
       /\ M[Len(L) + 1].path = inner /\ M[Len(L) + 1].wait = w
       /\ Len(L) \in 1 .. Len(M) /\ Len(L) + 1 \in 1 .. Len(M)
  <2>1. /\ Len(L) \in Nat /\ Len(L) > 1 /\ Len(L1) = Len(L) + 1 /\ Len(M) = Len(L1) + 1
    BY <1>3, <1>23, <1>24
  <2>2. \A k \in 1 .. Len(L) : k \in 1 .. Len(L1)
    BY <2>1
  <2>3. Len(L) \in 1 .. Len(L) /\ Len(L1) \in 1 .. Len(L1) /\ Len(M) = Len(L) + 2
        /\ Len(L) \in 1 .. Len(M) /\ Len(L) + 1 \in 1 .. Len(M)
    BY <2>1
  <2>4. \A k \in 1 .. Len(L) : M[k] = L[k]
    BY <1>23, <1>24, <2>2
  <2>5. M[Len(L) + 1] = L1[Len(L1)]
    BY <1>24, <2>1, <2>3
  <2>6. QED
    BY <1>23, <1>24, <2>3, <2>4, <2>5
<1>26. Len(L) \in DOMAIN M /\ Len(L) + 1 \in DOMAIN M
  <2>1. M \in Seq(LevelType)
    BY <1>24 DEF Stack, Levels
  <2>2. QED
    BY <1>25, <2>1, LenProperties
<1>27. /\ Target(code', en2, M, done, Len(L))
       /\ Target(code', en2, M, post, Len(L) + 1)
  BY <1>11, <1>13, <1>17, <1>25, <1>26 DEF Target
<1>28. Around(code', f) = Len(L)
  BY <1>3, <1>7, <1>12 DEF Around
<1>29. \A l \in DOMAIN loops' :
         \/ \E i \in DOMAIN loops : loops[i] = loops'[l]
         \/ loops'[l].brk = done /\ loops'[l].cont = post
  BY <1>1, <1>4, LoopPushedFrom
<1>30. FrameFit(code', body, loops', en2, ex2, M, f)
  <2>1. Len(L) + Opens(f.kind) <= Len(M)
    <3>1. Opens(f.kind) = 2
      BY <1>7 DEF Opens
    <3>2. QED
      BY <1>23, <1>25, <3>1
  <2>2. Waits(code', body, en2, ex2, M, done, Len(L))
    BY <1>4, <1>11, <1>17, <1>27 DEF Waits
  <2>3. \A j \in DOMAIN scopes : scopes[j] < post
    <3>1. \A i \in DOMAIN scopes : scopes[i] \in Nat
      BY <1>14, <1>3, ElementOfSeq
    <3>2. QED
      BY <1>3, <1>4, <3>1
  <2>4. NextFit(code', body, en2, ex2, M, f, Len(L))
    BY <1>7, <1>25, <1>27 DEF NextFit
  <2>5. LoopFit(code', loops', en2, M, f, Len(L))
    <3>1. SUFFICES ASSUME NEW l \in DOMAIN loops', loops'[l].brk = done
                   PROVE  Target(code', en2, M, loops'[l].cont, Len(L) + 1)
      BY <1>7 DEF LoopFit
    <3>2. \A i \in DOMAIN loops : loops[i].brk \in DOMAIN code
      BY DEF IInv
    <3>3. loops'[l].cont = post
      BY <1>11, <1>29, <3>1, <3>2
    <3>4. QED
      BY <1>27, <3>3
  <2>6. QED
    BY <1>3, <1>7, <1>12, <1>25, <1>28, <2>1, <2>2, <2>3, <2>4, <2>5 DEF FrameFit
<1>31. CurFit(code', body, Append(inner, body), ex2, M)
  <2>1. Last(Append(inner, body)) = body /\ body # 0
    BY <1>3, <1>4, <1>14, PopPush
  <2>2. ex2[body] = At(Last(M).wait, 0)
    BY <1>11, <1>17, <1>24
  <2>3. QED
    BY <1>12, <2>1, <2>2 DEF CurFit
<1>32. LoopsFrom(code, loops, loops')
  BY <1>11, <1>29 DEF LoopsFrom
<1>33. EnterTo(en, ex, L, code', en2, ex2, body, Append(inner, body), mk, M, loops', f)
  <2>1. body \notin DOMAIN code
    BY <1>11
  <2>2. Len(L) <= Len(M)
    BY <1>23, <1>25
  <2>3. QED
    BY <1>7, <1>17, <1>24, <1>25, <1>28, <1>30, <1>31, <1>32, <2>1, <2>2 DEF EnterTo
<1>34. Fit(code', body, Append(inner, body), defers, mk, loops', Append(frames, f),
           en2, ex2, M)
  BY <1>0, <1>3, <1>33, EnterFit
<1>35. Fit(code', cur', scopes', defers', marks', loops', frames', en2, ex2, M)
  BY <1>1, <1>34
<1>36. QED
  BY <1>0, <1>17, <1>35, FitNext

-----------------------------------------------------------------------------
(* Leaving a construct.                                                    *)

(* Where the blocks end after the calls of the innermost scope, in which w *)
(* waited.                                                                 *)
ExitEnds(ex, w) ==
  IF IsOpen(code, cur) THEN [ex EXCEPT ![cur] = Down(w, Mark)] ELSE ex

(* d is the function after the end of a block.                             *)
Exited(en, ex, d, w) ==
  /\ Widens(code, en, ex, d, en, ExitEnds(ex, w), {cur})
  /\ Sound(d, en, ExitEnds(ex, w))
  /\ DOMAIN d = DOMAIN code

(* The end of a block that goes on at a place further out.                 *)
LEMMA ExitSound ==
  ASSUME IInv, frames # <<>>, NEW en, NEW ex, NEW L,
         Fit(code, cur, scopes, defers, marks, loops, frames, en, ex, L),
         NEW to, NEW q \in 1 .. Len(L) - 1, Target(code, en, L, to, q),
         ~AnyDepth => L[q].wait = Outer(L).wait
  PROVE  Exited(en, ex, FallTo(BlockExit, cur, to), Last(L).wait)
<1> DEFINE d == FallTo(BlockExit, cur, to)
           w == Last(L).wait
           x == Down(w, Mark)
           t == Br(to)
           ex2 == [ex EXCEPT ![cur] = x]
<1>1. /\ code \in Blocks /\ cur \in DOMAIN code /\ DOMAIN code = 1 .. Len(code)
      /\ Len(code) \in Nat /\ Inside(code, Len(code))
      /\ Runs(Mark) \in Seq(Instr) /\ Mark \in 0 .. Len(defers)
  BY StateFacts, RunsType
<1>2. /\ Sound(code, en, ex) /\ code[cur].path = scopes /\ Last(scopes) # 0
      /\ w \in Seq(Entry) /\ Len(w) = Len(defers)
      /\ Stack(L, scopes, defers, marks, Len(code))
      /\ Mark = Len(Outer(L).wait)
  BY FitFacts
<1>3. to \in DOMAIN code
  BY DEF Target
<1>4. Closed(code, cur, d)
  BY <1>3, ExitThenFall
<1>5. Grows(code, d, {cur}) /\ DOMAIN d = DOMAIN code
  BY <1>4 DEF Closed
<1> HIDE DEF d
<1>6. Widens(code, en, ex, d, en, ex, {cur})
  BY <1>1, <1>2, <1>5 DEF Widens, Sound
<1>7. CASE ~IsOpen(code, cur)
  <2>1. d = code
    BY <1>7 DEF d, BlockExit, FallTo
  <2>2. ExitEnds(ex, w) = ex
    BY <1>7 DEF ExitEnds
  <2>3. QED
    BY <1>2, <1>5, <1>6, <2>1, <2>2 DEF Exited, d
<1>8. CASE IsOpen(code, cur)
  <2>1. t.to = {to} /\ t.op = "br"
    BY DEF Br
  <2>2. t \in Term
    <3>1. to \in Nat \ {0}
      BY <1>1, <1>3
    <3>2. QED
      BY <3>1, MadeTypes
  <2> HIDE DEF t
  <2>3. Ended(code, d, cur, Runs(Mark), t)
    <3>1. IsOpen(Emit(code, cur, Runs(Mark)), cur)
      BY <1>1, <1>8, EmitsOnly DEF IsOpen
    <3>2. d = Close(Emit(code, cur, Runs(Mark)), cur, t)
      BY <1>8, <3>1 DEF d, BlockExit, FallTo, t
    <3>3. QED
      BY <1>1, <2>2, <3>2, EmitsCloses
  <2>4. x \in Waiting
    <3> HIDE DEF w
    <3>1. QED
      BY <1>1, <1>2, DownFacts
  <2>5. Widens(code, en, ex, d, en, ex2, {cur}) /\ ex2[cur] = x
    <3> HIDE DEF x
    <3>1. cur \in {cur} /\ cur \in DOMAIN d
      BY <1>1, <1>5
    <3>2. QED
      BY <1>6, <2>4, <3>1, ExtendedAt
  <2>6. Edge(d, en, ex2, cur, to)
    <3>1. d[cur].path = scopes
      BY <1>2, <2>3 DEF Ended
    <3>2. Stays(d, to) = L[q].path /\ en[to] = L[q].wait
      <4>1. d[to].path = code[to].path
        BY <1>3, <1>5 DEF Grows
      <4>2. QED
        BY <4>1 DEF Target, Stays
    <3>3. ex2[cur] = Down(Last(L).wait, Len(Outer(L).wait))
      BY <1>2, <2>5
    <3> HIDE DEF ex2
    <3>4. QED
      BY <1>2, <3>1, <3>2, <3>3, ExitEdge
  <2>7. Typed(d, en, ex2, cur)
    <3>1. \A b \in t.to : Edge(d, en, ex2, cur, b)
      BY <2>1, <2>6
    <3>2. t.op # "ret"
      BY <2>1
    <3>3. ex2[cur] = Down(Last(L).wait, Mark)
      BY <2>5
    <3> HIDE DEF ex2
    <3>4. QED
      BY <1>1, <1>8, <2>3, <3>1, <3>2, <3>3, CallsTyped
  <2>8. ExitEnds(ex, w) = ex2
    BY <1>8 DEF ExitEnds
  <2> HIDE DEF ex2, w
  <2>9. Sound(d, en, ex2)
    <3>1. \A b \in DOMAIN d : b \notin DOMAIN code \/ b \in {cur} => Typed(d, en, ex2, b)
      BY <1>5, <2>7
    <3>2. QED
      BY <1>2, <2>5, <3>1, SoundStep
  <2>10. QED
    BY <1>5, <2>5, <2>8, <2>9 DEF Exited, d, w
<1>9. QED
  BY <1>7, <1>8

(* The loops of LG after a construct ends.                                 *)
LEMMA LoopsLess ==
  ASSUME IInv, NEW ls \in {loops, LoopPopped}
  PROVE  LoopsFrom(code, loops, ls)
<1>1. CASE ls = loops
  BY <1>1 DEF LoopsFrom
<1>2. CASE loops # <<>> /\ ls = Front(loops)
  <2>1. loops \in Seq(LoopType)
    BY DEF IInv, LoopsFit
  <2>2. /\ DOMAIN loops = 1 .. Len(loops) /\ Len(loops) \in Nat
        /\ DOMAIN ls = 1 .. Len(loops) - 1
        /\ \A l \in DOMAIN ls : ls[l] = loops[l]
    BY <1>2, <2>1, PopFacts
  <2>3. \A l \in 1 .. Len(loops) - 1 : l \in 1 .. Len(loops)
    BY <2>2
  <2>4. \A l \in DOMAIN ls : l \in DOMAIN loops /\ loops[l] = ls[l]
    BY <2>2, <2>3
  <2>5. QED
    BY <2>4 DEF LoopsFrom
<1>3. QED
  BY <1>1, <1>2 DEF LoopPopped

(* What holds of the innermost construct.                                  *)
LEMMA TopFits ==
  ASSUME IInv, frames # <<>>, Top.kind # "body", NEW en, NEW ex, NEW L,
         Fit(code, cur, scopes, defers, marks, loops, frames, en, ex, L)
  PROVE  /\ Around(code, Top) = Len(L) - Opens(Top.kind)
         /\ Around(code, Top) \in Nat /\ Around(code, Top) >= 2
         /\ Len(L) \in Nat /\ DOMAIN L = 1 .. Len(L)
         /\ Waits(code, cur, en, ex, L, Top.done, Around(code, Top))
         /\ code[Top.done].path = L[Around(code, Top)].path
         /\ Last(L[Around(code, Top)].path) # 0
         /\ \A j \in DOMAIN L[Around(code, Top)].path :
              L[Around(code, Top)].path[j] < Top.next
         /\ NextFit(code, cur, en, ex, L, Top, Around(code, Top))
<1>1. /\ Stack(L, scopes, defers, marks, Len(code)) /\ Len(L) = Len(scopes)
      /\ Len(L) \in Nat
      /\ FramesGood(code, cur, loops, en, ex, L, frames)
  BY FitFacts
<1>2. DOMAIN L = 1 .. Len(L)
  BY <1>1, LevelParts DEF Stack
<1>3. /\ Around(code, Top) = Len(scopes) - Opens(Top.kind)
      /\ Around(code, Top) \in Nat /\ Around(code, Top) >= 2
      /\ Len(frames) \in DOMAIN frames /\ Len(frames) > 1
      /\ Top = frames[Len(frames)]
  BY TopAround
<1>4. FrameFit(code, cur, loops, en, ex, L, Top)
  BY <1>1, <1>3, FrameParts
<1>5. /\ Waits(code, cur, en, ex, L, Top.done, Around(code, Top))
      /\ code[Top.done].path = L[Around(code, Top)].path
      /\ Last(L[Around(code, Top)].path) # 0
      /\ \A j \in DOMAIN L[Around(code, Top)].path :
           L[Around(code, Top)].path[j] < Top.next
      /\ NextFit(code, cur, en, ex, L, Top, Around(code, Top))
  BY <1>4 DEF FrameFit
<1>6. QED
  BY <1>1, <1>2, <1>3, <1>5

(* The typing after the end of the innermost construct.                    *)
LEMMA LeaveNow ==
  ASSUME IInv, frames # <<>>, Top.kind # "body", NEW en, NEW ex, NEW L,
         Fit(code, cur, scopes, defers, marks, loops, frames, en, ex, L),
         en[1] = <<>>, NEW ex2, NEW B,
         B = {cur} \/ (Top.kind = "then" /\ B = {cur, Top.next}),
         Widens(code, en, ex, code', en, ex2, B), Sound(code', en, ex2),
         DOMAIN code' = DOMAIN code,
         NEW M, Stack(M, scopes', defers', marks', Len(code)),
         Len(M) = Around(code, Top), \A k \in 1 .. Len(M) : M[k] = L[k],
         loops' \in {loops, LoopPopped}, cur' = Top.done, frames' = Base
  PROVE  FitNow'
<1>1. LoopsFrom(code, loops, loops')
  BY LoopsLess
<1>2. Len(code') = Len(code)
  <2>1. code \in Blocks /\ code' \in Blocks
    BY DEF Widens, Grows
  <2>2. QED
    BY <2>1, LenProperties DEF Blocks
<1>3. Stack(M, scopes', defers', marks', Len(code'))
  BY <1>2
<1>4. Fit(code', Top.done, scopes', defers', marks', loops', Base, en, ex2, M)
  BY <1>1, <1>3, LeaveFit
<1>5. Fit(code', cur', scopes', defers', marks', loops', frames', en, ex2, M)
  BY <1>4
<1>6. QED
  BY <1>5, FitNext

(* else, while, loop, unsafe: one scope is closed.                         *)
LEMMA LeaveOneFit ==
  ASSUME IInv, FitNow, NEW kind \in {"else", "while", "loop", "unsafe"},
         LeaveBlock(kind), NEW to, to = Top.done \/ (to = Top.next /\ kind # "else"),
         code' = FallTo(BlockExit, cur, to),
         cur' = Top.done, frames' = Base, loops' \in {loops, LoopPopped}
  PROVE  FitNow'
<1>1. PICK en, ex, L :
        Fit(code, cur, scopes, defers, marks, loops, frames, en, ex, L) /\ en[1] = <<>>
  BY DEF FitNow, Fitting
<1> DEFINE k == Around(code, Top)
           w == Last(L).wait
           ex2 == ExitEnds(ex, w)
           M == Front(L)
<1>2. /\ frames # <<>> /\ Top.kind = kind /\ Top.kind # "body"
      /\ defers' = SubSeq(defers, 1, Mark)
      /\ scopes' = Front(scopes) /\ marks' = Unmarked(marks)
  BY DEF LeaveBlock
<1>3. Opens(Top.kind) = 1
  BY <1>2 DEF Opens
<1>4. /\ k = Len(L) - 1 /\ k \in Nat /\ k >= 2 /\ Len(L) \in Nat
      /\ Waits(code, cur, en, ex, L, Top.done, k)
      /\ NextFit(code, cur, en, ex, L, Top, k)
  BY <1>1, <1>2, <1>3, TopFits
<1>5. Target(code, en, L, to, k)
  BY <1>2, <1>4 DEF NextFit, Waits
<1>6. k \in 1 .. Len(L) - 1 /\ Outer(L) = L[k] /\ Len(L) > 2
  BY <1>4 DEF Outer
<1>7. Exited(en, ex, code', w)
  <2> HIDE DEF k
  <2>1. Exited(en, ex, FallTo(BlockExit, cur, to), Last(L).wait)
    BY <1>1, <1>2, <1>5, <1>6, ExitSound
  <2>2. QED
    BY <2>1
<1>8. /\ Widens(code, en, ex, code', en, ex2, {cur})
      /\ Sound(code', en, ex2)
      /\ DOMAIN code' = DOMAIN code
  BY <1>7 DEF Exited
<1>9. Stack(L, scopes, defers, marks, Len(code)) /\ Mark = MarkOf(marks)
  BY <1>1, <1>2, FitFacts, StateFacts
<1>10. /\ Stack(M, scopes', defers', marks', Len(code))
       /\ Len(M) = k
       /\ \A j \in 1 .. Len(M) : M[j] = L[j]
  <2>1. /\ Stack(M, Front(scopes), SubSeq(defers, 1, MarkOf(marks)), Unmarked(marks), Len(code))
        /\ Len(M) = Len(L) - 1
        /\ \A j \in 1 .. Len(L) - 1 : M[j] = L[j]
    BY <1>6, <1>9, StackClose
  <2> HIDE DEF M, k
  <2>2. QED
    BY <1>2, <1>4, <1>9, <2>1
<1> HIDE DEF M, ex2
<1>11. QED
  BY <1>1, <1>2, <1>8, <1>10, LeaveNow

(* The ends of else, while, loop and unsafe blocks.                        *)
LEMMA EndPlainFit ==
  ASSUME IInv, FitNow, EndElse \/ EndWhile \/ EndLoop \/ EndUnsafe
  PROVE  FitNow'
<1>1. CASE EndElse
  BY <1>1, LeaveOneFit DEF EndElse
<1>2. CASE EndWhile
  BY <1>2, LeaveOneFit DEF EndWhile
<1>3. CASE EndLoop
  BY <1>3, LeaveOneFit DEF EndLoop, EndLoopOrUnsafe
<1>4. CASE EndUnsafe
  BY <1>4, LeaveOneFit DEF EndUnsafe, EndLoopOrUnsafe
<1>5. QED
  BY <1>1, <1>2, <1>3, <1>4

(* The end of a for: the body's scope is closed, then the variable's, in   *)
(* which nothing waits.                                                    *)
LEMMA EndForFit ==
  ASSUME IInv, FitNow, EndFor
  PROVE  FitNow'
<1>1. PICK en, ex, L :
        Fit(code, cur, scopes, defers, marks, loops, frames, en, ex, L) /\ en[1] = <<>>
  BY DEF FitNow, Fitting
<1> DEFINE k == Around(code, Top)
           w == Last(L).wait
           ex2 == ExitEnds(ex, w)
           F == Front(L)
           M == Front(F)
           cut == SubSeq(defers, 1, MarkOf(marks))
           mk == Unmarked(marks)
<1>2. /\ frames # <<>> /\ Top.kind = "for" /\ Top.kind # "body"
      /\ code' = FallTo(BlockExit, cur, Top.next)
      /\ cur' = Top.done
      /\ defers' = SubSeq(defers, 1, Mark)
      /\ scopes' = Front(Front(scopes))
      /\ marks' = Unmarked(mk)
      /\ loops' = LoopPopped /\ frames' = Base
  BY DEF EndFor
<1>3. Opens(Top.kind) = 2
  BY <1>2 DEF Opens
<1>4. /\ k = Len(L) - 2 /\ k \in Nat /\ k >= 2 /\ Len(L) \in Nat
      /\ NextFit(code, cur, en, ex, L, Top, k)
  BY <1>1, <1>2, <1>3, TopFits
<1>5. Target(code, en, L, Top.next, k + 1) /\ L[k + 1].wait = L[k].wait
  BY <1>2, <1>4 DEF NextFit
<1>6. k + 1 = Len(L) - 1 /\ k + 1 \in 1 .. Len(L) - 1 /\ Outer(L) = L[k + 1] /\ Len(L) > 2
  BY <1>4 DEF Outer
<1>7. Exited(en, ex, code', w)
  <2> DEFINE q == k + 1
  <2>1. Target(code, en, L, Top.next, q) /\ q \in 1 .. Len(L) - 1 /\ Outer(L) = L[q]
    BY <1>5, <1>6
  <2> HIDE DEF q
  <2>2. Exited(en, ex, FallTo(BlockExit, cur, Top.next), Last(L).wait)
    BY <1>1, <1>2, <2>1, ExitSound
  <2>3. QED
    BY <1>2, <2>2
<1>8. /\ Widens(code, en, ex, code', en, ex2, {cur})
      /\ Sound(code', en, ex2)
      /\ DOMAIN code' = DOMAIN code
  BY <1>7 DEF Exited
<1>9. Stack(L, scopes, defers, marks, Len(code)) /\ Mark = MarkOf(marks)
  BY <1>1, <1>2, FitFacts, StateFacts
<1>10. /\ Stack(F, Front(scopes), cut, mk, Len(code))
       /\ Len(F) = Len(L) - 1
       /\ \A j \in 1 .. Len(L) - 1 : F[j] = L[j]
  BY <1>6, <1>9, StackClose
<1>11. Len(cut) = MarkOf(marks) /\ cut \in Seq(1 .. Budget) /\ MarkOf(marks) = Len(L[k + 1].wait)
  <2>1. Len(cut) = MarkOf(marks)
    BY <1>9, SyncedCut
  <2>2. MarkOf(marks) = Len(Outer(L).wait)
    BY <1>9, StackFacts
  <2>3. cut \in Seq(1 .. Budget)
    BY <1>10 DEF Stack, Synced
  <2>4. QED
    BY <1>6, <2>1, <2>2, <2>3
<1> HIDE DEF F, mk, cut
<1>12. MarkOf(mk) = Len(cut)
  <2>1. MarkOf(mk) = Len(Outer(F).wait)
    BY <1>10, StackFacts
  <2>2. Outer(F) = F[k] /\ k \in 1 .. Len(L) - 1
    <3>1. Len(F) - 1 = k
      BY <1>4, <1>10
    <3>2. QED
      BY <1>4, <3>1 DEF Outer
  <2>3. F[k] = L[k]
    BY <1>10, <2>2
  <2>4. QED
    BY <1>5, <1>11, <2>1, <2>2, <2>3
<1>13. SubSeq(cut, 1, MarkOf(mk)) = cut
  BY <1>11, <1>12, SubSeqFull
<1>14. /\ Stack(M, Front(Front(scopes)), SubSeq(cut, 1, MarkOf(mk)), Unmarked(mk), Len(code))
       /\ Len(M) = Len(F) - 1
       /\ \A j \in 1 .. Len(F) - 1 : M[j] = F[j]
  <2>1. Len(F) > 2
    BY <1>4, <1>10
  <2>2. QED
    BY <1>10, <2>1, StackClose
<1>15. cut = defers'
  BY <1>2, <1>9 DEF cut
<1> HIDE DEF M
<1>16. Stack(M, scopes', defers', marks', Len(code))
  BY <1>2, <1>13, <1>14, <1>15
<1>17. Len(M) = k /\ \A j \in 1 .. Len(M) : M[j] = L[j]
  <2>1. Len(F) = Len(L) - 1 /\ Len(F) - 1 = k /\ Len(M) = k
    BY <1>4, <1>10, <1>14
  <2>2. \A j \in 1 .. k : j \in 1 .. Len(L) - 1
    BY <1>4
  <2>3. QED
    BY <1>10, <1>14, <2>1, <2>2
<1> HIDE DEF ex2, k
<1>18. Len(M) = Around(code, Top)
  BY <1>17 DEF k
<1>19. QED
  BY <1>1, <1>2, <1>8, <1>16, <1>17, <1>18, LeaveNow

(* The end of a nested if: no scope is closed, and nothing is run.         *)
LEMMA EndElseIfFit ==
  ASSUME IInv, FitNow, EndElseIf
  PROVE  FitNow'
<1>1. PICK en, ex, L :
        Fit(code, cur, scopes, defers, marks, loops, frames, en, ex, L) /\ en[1] = <<>>
  BY DEF FitNow, Fitting
<1> DEFINE k == Around(code, Top)
           w == Last(L).wait
           t == Br(Top.done)
<1>2. /\ frames # <<>> /\ Top.kind = "elif" /\ Top.kind # "body"
      /\ code' = FallTo(code, cur, Top.done)
      /\ cur' = Top.done /\ frames' = Base
      /\ UNCHANGED <<defers, marks, scopes, loops>>
  BY DEF EndElseIf
<1>3. Opens(Top.kind) = 0
  BY <1>2 DEF Opens
<1>4. /\ k = Len(L) /\ k \in Nat /\ k >= 2 /\ Len(L) \in Nat /\ DOMAIN L = 1 .. Len(L)
      /\ Waits(code, cur, en, ex, L, Top.done, k)
  BY <1>1, <1>2, <1>3, TopFits
<1>5. /\ code \in Blocks /\ cur \in DOMAIN code /\ Inside(code, Len(code))
      /\ Len(code) \in Nat /\ DOMAIN code = 1 .. Len(code)
  BY StateFacts
<1>6. /\ Sound(code, en, ex) /\ Typed(code, en, ex, cur)
      /\ Stack(L, scopes, defers, marks, Len(code))
      /\ w \in Seq(Entry)
      /\ IsOpen(code, cur) => ex[cur] = At(w, 0)
      /\ \A i \in DOMAIN w : IsIn(w[i].scope, scopes)
      /\ Last(L) = L[Len(L)] /\ Last(L).path = scopes
  BY <1>1, <1>2, FitFacts, StackFacts
<1>7. Top.done \in DOMAIN code /\ Stays(code, Top.done) = scopes /\ en[Top.done] = w
  BY <1>4, <1>6 DEF Waits, Target
<1>8. t.to = {Top.done} /\ t.op = "br" /\ t \in Term
  <2>1. Top.done \in Nat \ {0}
    BY <1>5, <1>7
  <2>2. QED
    BY <2>1, MadeTypes DEF Br
<1> HIDE DEF t, w
<1>9. Grows(code, code', {cur}) /\ DOMAIN code' = DOMAIN code
  <2>1. Top.done \in Nat \ {0} /\ Top.done <= Len(code)
    BY <1>5, <1>7
  <2>2. QED
    BY <1>2, <1>5, <2>1, FallToFacts
<1>10. Widens(code, en, ex, code', en, ex, {cur})
  BY <1>5, <1>6, <1>9 DEF Widens, Sound
<1>11. Sound(code', en, ex)
  <2>1. CASE ~IsOpen(code, cur)
    <3>1. code' = code
      BY <1>2, <2>1 DEF FallTo
    <3>2. QED
      BY <1>6, <3>1
  <2>2. CASE IsOpen(code, cur)
    <3>1. code' = Close(code, cur, t)
      BY <1>2, <2>2 DEF FallTo, t
    <3>2. /\ code'[cur].ins = code[cur].ins
          /\ code'[cur].path = code[cur].path
          /\ code'[cur].term = t
      <4>1. /\ Close(code, cur, t)[cur].ins = code[cur].ins
            /\ Close(code, cur, t)[cur].path = code[cur].path
            /\ Close(code, cur, t)[cur].term = t
        <5>1. code \in Blocks /\ cur \in DOMAIN code /\ t \in Term
          BY <1>5, <1>8
        <5>2. QED
          BY <5>1, ClosesOnly
      <4>2. QED
        BY <3>1, <4>1
    <3>3. Stays(code', Top.done) = scopes
      BY <1>7, <1>9 DEF Grows, Stays
    <3>4. Edge(code', en, ex, cur, Top.done)
      BY <1>6, <1>7, <2>2, <3>3, FlatEdge
    <3>5. Typed(code', en, ex, cur)
      BY <1>6, <1>8, <3>2, <3>4, TypedEnd
    <3>6. \A b \in DOMAIN code' : b \notin DOMAIN code \/ b \in {cur} => Typed(code', en, ex, b)
      BY <1>9, <3>5
    <3>7. QED
      BY <1>6, <1>10, <3>6, SoundStep
  <2>3. QED
    BY <2>1, <2>2
<1>12. Stack(L, scopes', defers', marks', Len(code))
  BY <1>2, <1>6
<1>13. Len(L) = Around(code, Top)
  BY <1>4
<1>14. QED
  BY <1>1, <1>2, <1>9, <1>10, <1>11, <1>12, <1>13, LeaveNow

(* The end of an if without else: the then block goes on at the done       *)
(* block, and so does the empty else block.                                *)
LEMMA EndThenFit ==
  ASSUME IInv, FitNow, EndThen
  PROVE  FitNow'
<1>1. PICK en, ex, L :
        Fit(code, cur, scopes, defers, marks, loops, frames, en, ex, L) /\ en[1] = <<>>
  BY DEF FitNow, Fitting
<1> DEFINE k == Around(code, Top)
           n == Top.next
           w == Last(L).wait
           v == L[k].wait
           ex2 == ExitEnds(ex, w)
           M == Front(L)
           d == FallTo(BlockExit, cur, Top.done)
           t == Br(Top.done)
<1>2. /\ frames # <<>> /\ Top.kind = "then" /\ Top.kind # "body"
      /\ code' = Close(d, n, t)
      /\ cur' = Top.done
      /\ defers' = SubSeq(defers, 1, Mark)
      /\ scopes' = Front(scopes) /\ marks' = Unmarked(marks)
      /\ loops' = loops /\ frames' = Base
  BY DEF EndThen, LeaveBlock
<1>3. Opens(Top.kind) = 1
  BY <1>2 DEF Opens
<1>4. /\ k = Len(L) - 1 /\ k \in Nat /\ k >= 2 /\ Len(L) \in Nat
      /\ DOMAIN L = 1 .. Len(L)
      /\ Waits(code, cur, en, ex, L, Top.done, k)
      /\ NextFit(code, cur, en, ex, L, Top, k)
  BY <1>1, <1>2, <1>3, TopFits
<1>5. /\ Target(code, en, L, Top.done, k)
      /\ Stays(code, Top.done) = L[k].path /\ en[Top.done] = v /\ Top.done \in DOMAIN code
      /\ n \in DOMAIN code /\ en[n] = v /\ ex[n] = At(v, 0) /\ n # cur
  BY <1>2, <1>4 DEF NextFit, Waits, Target
<1>6. k \in 1 .. Len(L) - 1 /\ Outer(L) = L[k] /\ Len(L) > 2 /\ k \in 1 .. Len(L)
  BY <1>4 DEF Outer
<1>7. Exited(en, ex, d, w)
  <2> HIDE DEF k
  <2>1. QED
    BY <1>1, <1>2, <1>5, <1>6, ExitSound
<1>8. Closed(code, cur, d)
  BY <1>5, ExitThenFall
<1> HIDE DEF d
<1>9. /\ code \in Blocks /\ cur \in DOMAIN code /\ Inside(code, Len(code))
      /\ Len(code) \in Nat /\ DOMAIN code = 1 .. Len(code)
  BY StateFacts
<1>10. /\ Widens(code, en, ex, d, en, ex2, {cur})
       /\ Sound(d, en, ex2)
       /\ d \in Blocks /\ Inside(d, Len(d)) /\ Grows(code, d, {cur})
       /\ DOMAIN d = DOMAIN code
  BY <1>7, <1>8 DEF Exited, Closed
<1>11. /\ Stack(L, scopes, defers, marks, Len(code)) /\ Mark = MarkOf(marks)
       /\ Sound(code, en, ex)
  BY <1>1, <1>2, FitFacts, StateFacts
<1>12. /\ v \in Seq(Entry)
       /\ \A i \in DOMAIN v : IsIn(v[i].scope, L[k].path)
  <2>1. k \in DOMAIN L
    BY <1>4, <1>6
  <2>2. Levels(L, Len(code))
    BY <1>11 DEF Stack
  <2>3. LevelFit(L[k], k, Len(code))
    BY <2>1, <2>2 DEF Levels
  <2>4. QED
    BY <2>1, <2>2, <2>3, LevelParts DEF LevelFit
<1>13. t.to = {Top.done} /\ t.op = "br" /\ t \in Term
  <2>1. Top.done \in Nat \ {0}
    BY <1>5, <1>9
  <2>2. QED
    BY <2>1, MadeTypes DEF Br
<1>14. ex2[n] = ex[n]
  BY <1>5 DEF ExitEnds
<1> HIDE DEF t, ex2, w, v, n, k
<1>15. d[n] = code[n]
  BY <1>5, <1>10 DEF Grows
<1>16. IsOpen(d, n)
  <2>1. IsOpen(code, n)
    BY <1>2, TopBlocks DEF n
  <2>2. QED
    BY <1>15, <2>1 DEF IsOpen
<1>17. /\ code'[n].ins = d[n].ins
       /\ code'[n].path = d[n].path
       /\ code'[n].term = t
       /\ \A a \in DOMAIN d : a # n => code'[a] = d[a]
       /\ DOMAIN code' = DOMAIN d
  <2>1. d \in Blocks /\ n \in DOMAIN d /\ t \in Term
    BY <1>5, <1>10, <1>13
  <2>2. /\ Close(d, n, t)[n].ins = d[n].ins
        /\ Close(d, n, t)[n].path = d[n].path
        /\ Close(d, n, t)[n].term = t
        /\ \A a \in DOMAIN d : a # n => Close(d, n, t)[a] = d[a]
        /\ DOMAIN Close(d, n, t) = DOMAIN d
    BY <2>1, ClosesOnly
  <2>3. QED
    BY <1>2, <2>2
<1>18. Grows(d, code', {n})
  <2>1. d \in Blocks /\ n \in DOMAIN d /\ t \in Term /\ n \in {n}
    BY <1>5, <1>10, <1>13
  <2>2. Grows(d, Close(d, n, t), {n})
    BY <1>16, <2>1, GrowsByClose
  <2>3. QED
    BY <1>2, <2>2
<1>19. /\ en \in [DOMAIN code -> Seq(Entry)]
       /\ ex2 \in [DOMAIN code -> Waiting]
  BY <1>10 DEF Sound
<1>20. Widens(d, en, ex2, code', en, ex2, {n})
  BY <1>10, <1>17, <1>18, <1>19 DEF Widens
<1>21. Edge(code', en, ex2, n, Top.done)
  <2>1. Stays(code', Top.done) = L[k].path
    <3>1. code'[Top.done].path = d[Top.done].path
      BY <1>5, <1>10, <1>17
    <3>2. d[Top.done].path = code[Top.done].path
      BY <1>5, <1>10 DEF Grows
    <3>3. QED
      BY <1>5, <3>1, <3>2 DEF Stays
  <2>2. ex2[n] = At(v, 0) /\ en[Top.done] = v
    BY <1>5, <1>14
  <2>3. \A i \in DOMAIN v : IsIn(v[i].scope, Stays(code', Top.done))
    BY <1>12, <2>1
  <2>4. QED
    BY <1>12, <2>2, <2>3, FlatEdge
<1>22. Typed(code', en, ex2, n)
  <2>1. Typed(d, en, ex2, n)
    BY <1>5, <1>10 DEF Sound
  <2>2. QED
    BY <1>13, <1>17, <1>21, <2>1, TypedEnd
<1>23. Sound(code', en, ex2)
  <2>1. \A b \in DOMAIN code' : b \notin DOMAIN d \/ b \in {n} => Typed(code', en, ex2, b)
    BY <1>17, <1>22
  <2>2. QED
    BY <1>10, <1>20, <2>1, SoundStep
<1> DEFINE both == {cur, n}
<1>24. Widens(code, en, ex, code', en, ex2, both)
  <2>1. Grows(code, code', both)
    <3>1. Grows(code, d, both) /\ Grows(d, code', both) /\ code' \in Blocks
      BY <1>10, <1>18 DEF Grows
    <3> HIDE DEF both
    <3>2. QED
      BY <1>9, <1>10, <3>1, GrowsTwice
  <2>2. \A b \in DOMAIN code : b \notin both => ex2[b] = ex[b]
    BY <1>10 DEF Widens
  <2> HIDE DEF both
  <2>3. QED
    BY <1>9, <1>10, <1>17, <1>19, <2>1, <2>2 DEF Widens
<1>25. /\ Stack(M, scopes', defers', marks', Len(code))
       /\ Len(M) = k
       /\ \A j \in 1 .. Len(M) : M[j] = L[j]
  <2>1. /\ Stack(M, Front(scopes), SubSeq(defers, 1, MarkOf(marks)), Unmarked(marks), Len(code))
        /\ Len(M) = Len(L) - 1
        /\ \A j \in 1 .. Len(L) - 1 : M[j] = L[j]
    BY <1>6, <1>11, StackClose
  <2> HIDE DEF M
  <2>2. QED
    BY <1>2, <1>4, <1>11, <2>1
<1> HIDE DEF M
<1>26. DOMAIN code' = DOMAIN code /\ Len(M) = Around(code, Top)
       /\ both = {cur, Top.next}
  BY <1>10, <1>17, <1>25 DEF k, n
<1> HIDE DEF both
<1>27. QED
  BY <1>1, <1>2, <1>23, <1>24, <1>25, <1>26, LeaveNow

(* The end of a then block that has something after it.                    *)
SwapsTo(en, ex, L, d, w, F, cut, mk) ==
  /\ Exited(en, ex, d, w)
  /\ Stack(F, Front(scopes), cut, mk, Len(d))
  /\ Len(F) = Around(code, Top)
  /\ \A j \in 1 .. Len(F) : F[j] = L[j]
  /\ Last(F).wait = L[Around(code, Top)].wait
  /\ Last(F).path = L[Around(code, Top)].path
  /\ Front(scopes) = L[Around(code, Top)].path
  /\ Len(cut) = Mark /\ Len(d) = Len(code) /\ Len(code) \in Nat
  /\ Front(scopes) \in Seq(Nat) /\ Len(Front(scopes)) = Len(scopes) - 1
  /\ Len(F) \in Nat /\ Len(F) >= 2

(* A then block is left: its defers run, and its scope is closed.          *)
LEMMA ThenExit ==
  ASSUME IInv, frames # <<>>, Top.kind = "then", NEW en, NEW ex, NEW L,
         Fit(code, cur, scopes, defers, marks, loops, frames, en, ex, L)
  PROVE  SwapsTo(en, ex, L, FallTo(BlockExit, cur, Top.done), Last(L).wait,
                 Front(L), SubSeq(defers, 1, Mark), Unmarked(marks))
<1> DEFINE k == Around(code, Top)
           d == FallTo(BlockExit, cur, Top.done)
           F == Front(L)
           cut == SubSeq(defers, 1, Mark)
           mk == Unmarked(marks)
<1>1. Opens(Top.kind) = 1
  BY DEF Opens
<1>2. /\ k = Len(L) - 1 /\ k \in Nat /\ k >= 2 /\ Len(L) \in Nat
      /\ DOMAIN L = 1 .. Len(L)
      /\ Waits(code, cur, en, ex, L, Top.done, k)
  BY <1>1, TopFits
<1>3. /\ Target(code, en, L, Top.done, k) /\ k \in 1 .. Len(L) - 1
      /\ Outer(L) = L[k] /\ Len(L) > 2
  BY <1>2 DEF Waits, Outer
<1>4. Exited(en, ex, d, Last(L).wait)
  <2> HIDE DEF k
  <2>1. QED
    BY <1>3, ExitSound
<1>5. /\ Stack(L, scopes, defers, marks, Len(code)) /\ Mark = MarkOf(marks)
      /\ Len(code) \in Nat /\ Len(L) = Len(scopes)
      /\ Front(scopes) = Outer(L).path
      /\ scopes \in Seq(Nat) /\ scopes # <<>>
  BY FitFacts, StateFacts, StackFacts DEF IInv
<1>6. Len(d) = Len(code)
  BY <1>3, ExitThenFall DEF Target, Closed
<1> HIDE DEF d
<1>7. /\ Stack(F, Front(scopes), cut, mk, Len(code))
      /\ Len(F) = Len(L) - 1
      /\ \A j \in 1 .. Len(L) - 1 : F[j] = L[j]
  BY <1>3, <1>5, StackClose
<1>8. Len(cut) = Mark
  BY <1>5, SyncedCut
<1>9. Front(scopes) \in Seq(Nat) /\ Len(Front(scopes)) = Len(scopes) - 1
  BY <1>5, FrontLast
<1> HIDE DEF F, cut, mk
<1>10. Last(F) = L[k]
  <2>1. Last(F) = F[Len(F)]
    BY <1>7, StackFacts
  <2>2. Len(F) = k
    BY <1>2, <1>7
  <2>3. QED
    BY <1>3, <1>7, <2>1, <2>2
<1>11. SwapsTo(en, ex, L, d, Last(L).wait, F, cut, mk)
  <2>1. Stack(F, Front(scopes), cut, mk, Len(d))
    BY <1>6, <1>7
  <2>2. Len(F) = Around(code, Top) /\ \A j \in 1 .. Len(F) : F[j] = L[j]
    BY <1>2, <1>7
  <2>3. /\ Last(F).wait = L[Around(code, Top)].wait
        /\ Last(F).path = L[Around(code, Top)].path
        /\ Front(scopes) = L[Around(code, Top)].path
    BY <1>3, <1>5, <1>10
  <2>4. Len(F) \in Nat /\ Len(F) >= 2
    BY <1>2, <2>2
  <2> HIDE DEF k
  <2>5. QED
    BY <1>4, <1>5, <1>6, <1>8, <1>9, <2>1, <2>2, <2>3, <2>4 DEF SwapsTo
<1>12. QED
  BY <1>11 DEF d, F, cut, mk

(* The typing after that, with the builder in the else block.              *)
SwapFrame(f, sc) ==
  /\ f \in FrameType
  /\ f.done = Top.done
  /\ f.kind \in {"else", "elif"}
  /\ f.next \in {Top.next, Top.done}
  /\ f.kind = "else" => f.next = f.done
  /\ code[Top.next].path = sc
  /\ Last(sc) # 0

(* The step that goes on in the else block keeps the builder in step.      *)
LEMMA SwapNow ==
  ASSUME IInv, frames # <<>>, Top.kind = "then", NEW en, NEW ex, NEW L,
         Fit(code, cur, scopes, defers, marks, loops, frames, en, ex, L),
         en[1] = <<>>, Exited(en, ex, code', Last(L).wait),
         NEW f, SwapFrame(f, scopes'),
         NEW M, Stack(M, scopes', defers', marks', Len(code')),
         Len(M) = Around(code, Top) + Opens(f.kind),
         \A j \in 1 .. Around(code, Top) : M[j] = L[j],
         Last(M).wait = L[Around(code, Top)].wait,
         cur' = Top.next, frames' = Append(Base, f), loops' = loops
  PROVE  FitNow'
<1> DEFINE ex2 == ExitEnds(ex, Last(L).wait)
<1>1. /\ Widens(code, en, ex, code', en, ex2, {cur})
      /\ Sound(code', en, ex2)
  BY DEF Exited
<1> HIDE DEF ex2
<1>2. SwapTo(en, ex, L, code', en, ex2, scopes', defers', marks', M, f)
  BY <1>1 DEF SwapTo, SwapFrame
<1>3. Fit(code', Top.next, scopes', defers', marks', loops, Append(Base, f), en, ex2, M)
  BY <1>2, SwapFit
<1>4. Fit(code', cur', scopes', defers', marks', loops', frames', en, ex2, M)
  BY <1>3
<1>5. QED
  BY <1>1, <1>4, FitNext

(* if with an else block: its scope is opened where the first one ended.   *)
LEMMA EndThenElseFit ==
  ASSUME IInv, IInv', FitNow, EndThenElse, Len(scopes') <= MaxScopes
  PROVE  FitNow'
<1>1. PICK en, ex, L :
        Fit(code, cur, scopes, defers, marks, loops, frames, en, ex, L) /\ en[1] = <<>>
  BY DEF FitNow, Fitting
<1> DEFINE k == Around(code, Top)
           n == Top.next
           F == Front(L)
           sc == Front(scopes)
           cut == SubSeq(defers, 1, Mark)
           mk == Unmarked(marks)
           f == Frame("else", Top.done, Top.done, "none")
           M == Append(F, Opened(F, n))
<1>2. /\ frames # <<>> /\ Top.kind = "then" /\ Top.kind # "body" /\ Top.alt = "block"
      /\ code' = FallTo(BlockExit, cur, Top.done)
      /\ defers' = cut
      /\ cur' = n
      /\ scopes' = Append(sc, n)
      /\ marks' = Marked(mk, Mark)
      /\ frames' = Append(Base, f)
      /\ loops' = loops
  BY DEF EndThenElse, Replace
<1>3. SwapsTo(en, ex, L, code', Last(L).wait, F, cut, mk)
  <2>1. SwapsTo(en, ex, L, FallTo(BlockExit, cur, Top.done), Last(L).wait, F, cut, mk)
    BY <1>1, <1>2, ThenExit
  <2> HIDE DEF F, cut, mk
  <2>2. QED
    BY <1>2, <2>1
<1>4. /\ Waits(code, cur, en, ex, L, n, k)
      /\ code[n].path = Append(L[k].path, n)
      /\ \A j \in DOMAIN L[k].path : L[k].path[j] < n
      /\ k \in Nat /\ k >= 2
  <2>1. NextFit(code, cur, en, ex, L, Top, k)
    BY <1>1, <1>2, TopFits
  <2>2. /\ \A j \in DOMAIN L[k].path : L[k].path[j] < n
        /\ k \in Nat /\ k >= 2
    BY <1>1, <1>2, TopFits
  <2>3. QED
    BY <1>2, <2>1, <2>2 DEF NextFit
<1> HIDE DEF F, cut, mk, sc
<1>5. /\ Exited(en, ex, code', Last(L).wait)
      /\ Stack(F, sc, cut, mk, Len(code'))
      /\ Len(F) = k
      /\ \A j \in 1 .. Len(F) : F[j] = L[j]
      /\ Last(F).wait = L[k].wait
      /\ sc = L[k].path
      /\ Len(cut) = Mark
      /\ sc \in Seq(Nat)
  BY <1>3 DEF SwapsTo, sc
<1>6. n \in DOMAIN code /\ Len(code') = Len(code) /\ DOMAIN code = 1 .. Len(code)
      /\ Len(code) \in Nat
  BY <1>3, <1>4, StateFacts DEF Waits, Target, SwapsTo
<1>7. n \in 0 .. Len(code') /\ n # 0 /\ n \in Nat
  BY <1>6
<1>8. \A i \in DOMAIN sc : sc[i] # n
  <2>1. \A i \in DOMAIN sc : sc[i] \in Nat /\ sc[i] < n
    BY <1>4, <1>5, ElementOfSeq, LenProperties
  <2>2. QED
    BY <1>7, <2>1
<1>9. Len(sc) < MaxScopes /\ Last(Append(sc, n)) = n
  <2>1. Len(Append(sc, n)) = Len(sc) + 1 /\ Len(sc) \in Nat
    BY <1>5, <1>7, PushFacts
  <2>2. Len(sc) + 1 <= MaxScopes
    BY <1>2, <2>1
  <2>3. Len(sc) < MaxScopes
    BY <2>1, <2>2, ConstantsAssumption
  <2>4. QED
    BY <1>5, <1>7, <2>3, PopPush
<1> HIDE DEF n
<1>10. /\ Stack(M, Append(sc, n), cut, Marked(mk, Len(cut)), Len(code'))
       /\ Len(M) = Len(F) + 1
       /\ \A j \in 1 .. Len(F) : M[j] = F[j]
       /\ Last(M).wait = Last(F).wait
  <2>1. Len(code') \in Nat
    BY <1>6
  <2>2. QED
    BY <1>5, <1>7, <1>8, <1>9, <2>1, OpenFacts
<1>11. Top.done \in Nat
  BY <1>2, TopBlocks, StateFacts
<1>12. /\ f \in FrameType /\ f.kind = "else" /\ f.done = Top.done
       /\ f.next = Top.done
  BY <1>11 DEF Frame, FrameType, FrameKinds, Loops
<1>13. Opens(f.kind) = 1
  BY <1>12 DEF Opens
<1> HIDE DEF f, M
<1>14. SwapFrame(f, scopes')
  <2>1. code[Top.next].path = scopes' /\ Last(scopes') # 0
    BY <1>2, <1>4, <1>5, <1>7, <1>9 DEF n
  <2>2. QED
    BY <1>12, <2>1 DEF SwapFrame
<1>15. Stack(M, scopes', defers', marks', Len(code'))
  BY <1>2, <1>5, <1>10
<1>16. /\ Len(M) = Around(code, Top) + Opens(f.kind)
       /\ \A j \in 1 .. Around(code, Top) : M[j] = L[j]
       /\ Last(M).wait = L[Around(code, Top)].wait
  BY <1>5, <1>10, <1>13
<1>17. QED
  <2>1. cur' = Top.next /\ frames' = Append(Base, f) /\ loops' = loops
    BY <1>2 DEF n
  <2>2. /\ frames # <<>> /\ Top.kind = "then"
        /\ Exited(en, ex, code', Last(L).wait)
    BY <1>2, <1>5
  <2> HIDE DEF k
  <2>3. QED
    BY <1>1, <1>14, <1>15, <1>16, <2>1, <2>2, SwapNow

(* if with a nested if: no scope is opened before it.                      *)
LEMMA EndThenElseIfFit ==
  ASSUME IInv, FitNow, EndThenElseIf
  PROVE  FitNow'
<1>1. PICK en, ex, L :
        Fit(code, cur, scopes, defers, marks, loops, frames, en, ex, L) /\ en[1] = <<>>
  BY DEF FitNow, Fitting
<1> DEFINE k == Around(code, Top)
           F == Front(L)
           sc == Front(scopes)
           cut == SubSeq(defers, 1, Mark)
           mk == Unmarked(marks)
           f == Frame("elif", Top.next, Top.done, "none")
<1>2. /\ frames # <<>> /\ Top.kind = "then" /\ Top.kind # "body" /\ Top.alt = "if"
      /\ code' = FallTo(BlockExit, cur, Top.done)
      /\ defers' = cut
      /\ cur' = Top.next
      /\ scopes' = sc
      /\ marks' = mk
      /\ frames' = Append(Base, f)
      /\ loops' = loops
  BY DEF EndThenElseIf, LeaveBlock, Replace
<1>3. SwapsTo(en, ex, L, code', Last(L).wait, F, cut, mk)
  <2>1. SwapsTo(en, ex, L, FallTo(BlockExit, cur, Top.done), Last(L).wait, F, cut, mk)
    BY <1>1, <1>2, ThenExit
  <2> HIDE DEF F, cut, mk
  <2>2. QED
    BY <1>2, <2>1
<1>4. /\ code[Top.next].path = L[k].path
      /\ Last(L[k].path) # 0
      /\ k \in Nat
  <2>1. NextFit(code, cur, en, ex, L, Top, k) /\ Last(L[k].path) # 0 /\ k \in Nat
    BY <1>1, <1>2, TopFits
  <2>2. QED
    BY <1>2, <2>1 DEF NextFit
<1> HIDE DEF F, cut, mk, sc
<1>5. /\ Exited(en, ex, code', Last(L).wait)
      /\ Stack(F, sc, cut, mk, Len(code'))
      /\ Len(F) = k
      /\ \A j \in 1 .. Len(F) : F[j] = L[j]
      /\ Last(F).wait = L[k].wait
      /\ sc = L[k].path
  BY <1>3 DEF SwapsTo, sc
<1>6. Top.done \in Nat /\ Top.next \in Nat
  BY <1>2, TopBlocks, StateFacts
<1>7. /\ f \in FrameType /\ f.kind = "elif" /\ f.done = Top.done
      /\ f.next = Top.next
  BY <1>6 DEF Frame, FrameType, FrameKinds, Loops
<1>8. Opens(f.kind) = 0
  BY <1>7 DEF Opens
<1> HIDE DEF f
<1>9. SwapFrame(f, scopes')
  BY <1>2, <1>4, <1>5, <1>7 DEF SwapFrame
<1>10. Stack(F, scopes', defers', marks', Len(code'))
  BY <1>2, <1>5
<1>11. /\ Len(F) = Around(code, Top) + Opens(f.kind)
       /\ \A j \in 1 .. Around(code, Top) : F[j] = L[j]
       /\ Last(F).wait = L[Around(code, Top)].wait
  BY <1>4, <1>5, <1>8
<1>12. QED
  BY <1>1, <1>2, <1>5, <1>9, <1>10, <1>11, SwapNow

-----------------------------------------------------------------------------
(* The whole emission.                                                     *)

(* The typing of a function, without a builder.                            *)
Whole(c) == \E en, ex : Sound(c, en, ex) /\ en[1] = <<>>

(* The end of the body: what still waits runs, and the function returns.   *)
LEMMA EndBodyFit ==
  ASSUME IInv, IInv', Final, FitNow, EndBody
  PROVE  Whole(code')
<1>1. PICK en, ex, L :
        Fit(code, cur, scopes, defers, marks, loops, frames, en, ex, L) /\ en[1] = <<>>
  BY DEF FitNow, Fitting
<1> DEFINE w == Last(L).wait
           x == Down(w, 0)
           e == Emit(code, cur, Runs(0))
           ex2 == [ex EXCEPT ![cur] = x]
<1>2. /\ frames # <<>> /\ Top.kind = "body"
      /\ code' = (IF IsOpen(BlockExit, cur) THEN Close(BlockExit, cur, Ret)
                  ELSE BlockExit)
  BY DEF EndBody
<1>3. /\ code \in Blocks /\ cur \in DOMAIN code /\ DOMAIN code = 1 .. Len(code)
      /\ Len(code) \in Nat \ {0} /\ Inside(code, Len(code))
      /\ Runs(0) \in Seq(Instr) /\ 0 \in 0 .. Len(defers) /\ Mark = MarkOf(marks)
      /\ Ret \in Term /\ Ret # NoTerm /\ Ret.to = {} /\ Ret.op = "ret"
  <2>1. 0 \in 0 .. Len(defers)
    BY StateFacts
  <2>2. QED
    BY <2>1, StateFacts, RunsType, MadeTypes DEF Ret
<1>4. Mark = 0
  <2>1. Built(code, cur, frames) /\ frames \in Seq(FrameType)
        /\ ScopesFit(code, frames, Len(scopes)) /\ MarksFit(marks, Len(defers), Len(scopes))
    BY StateFacts DEF IInv
  <2>2. Len(frames) = 1
    <3>1. FramesFit(code, frames) /\ Top = frames[Len(frames)]
          /\ Len(frames) \in Nat \ {0} /\ Len(frames) \in DOMAIN frames
      BY <1>2, <2>1, StateFacts, PopFacts DEF Top
    <3>2. ~(Len(frames) > 1)
      <4>1. \A i \in DOMAIN frames : i > 1 => frames[i].kind # "body"
        BY <3>1 DEF FramesFit
      <4>2. frames[Len(frames)].kind = "body"
        BY <1>2, <3>1
      <4>3. QED
        BY <3>1, <4>1, <4>2
    <3>3. Len(frames) \in Nat \ {0}
      BY <3>1
    <3>4. \A m \in Nat \ {0} : ~(m > 1) => m = 1
      OBVIOUS
    <3>5. QED
      BY <3>2, <3>3, <3>4
  <2>3. Len(scopes) = 2
    BY <1>2, <2>1, <2>2 DEF ScopesFit, Depth
  <2>4. Len(defers) \in Nat
    BY StateFacts
  <2>5. QED
    BY <1>3, <2>1, <2>3, <2>4, FitBottom
<1>5. /\ Sound(code, en, ex)
      /\ w \in Seq(Entry)
  BY <1>1, <1>2, FitFacts
<1>6. CASE ~IsOpen(code, cur)
  <2>1. code' = code
    BY <1>2, <1>6 DEF BlockExit
  <2>2. QED
    BY <1>1, <1>5, <2>1 DEF Whole
<1>7. CASE IsOpen(code, cur)
  <2>1. Ended(code, code', cur, Runs(0), Ret)
    <3>1. BlockExit = e
      BY <1>4, <1>7 DEF BlockExit
    <3>2. IsOpen(e, cur)
      BY <1>3, <1>7, EmitsOnly DEF IsOpen
    <3>3. code' = Close(e, cur, Ret)
      BY <1>2, <3>1, <3>2
    <3>4. code \in Blocks /\ cur \in DOMAIN code /\ Runs(0) \in Seq(Instr) /\ Ret \in Term
      BY <1>3
    <3>5. Ended(code, Close(e, cur, Ret), cur, Runs(0), Ret)
      BY <3>4, EmitsCloses
    <3>6. QED
      BY <3>3, <3>5
  <2>2. Grows(code, code', {cur}) /\ DOMAIN code' = DOMAIN code
    BY <2>1, EndedGrows
  <2>3. x \in Waiting
    <3> HIDE DEF w
    <3>1. 0 \in 0 .. Len(w)
      BY <1>5, LenProperties
    <3>2. QED
      BY <1>5, <3>1, DownFacts
  <2>4. Widens(code, en, ex, code', en, ex, {cur})
    BY <1>3, <1>5, <2>2 DEF Widens, Sound
  <2>5. Widens(code, en, ex, code', en, ex2, {cur}) /\ ex2[cur] = x
    <3> HIDE DEF x
    <3>1. cur \in {cur} /\ cur \in DOMAIN code'
      BY <1>3, <2>2
    <3>2. QED
      BY <2>3, <2>4, <3>1, ExtendedAt
  <2>6. Typed(code', en, ex2, cur)
    <3>1. /\ \A b \in Ret.to : Edge(code', en, ex2, cur, b)
          /\ Ret.op = "ret" => 0 = 0
          /\ ex2[cur] = Down(Last(L).wait, 0)
      BY <1>3, <2>5
    <3> HIDE DEF ex2
    <3>2. QED
      BY <1>1, <1>2, <1>3, <1>7, <2>1, <3>1, CallsTyped
  <2> HIDE DEF ex2
  <2>7. Sound(code', en, ex2)
    <3>1. \A b \in DOMAIN code' : b \notin DOMAIN code \/ b \in {cur}
                                    => Typed(code', en, ex2, b)
      BY <2>2, <2>6
    <3>2. QED
      BY <1>5, <2>5, <3>1, SoundStep
  <2>8. QED
    BY <1>1, <2>7 DEF Whole
<1>8. QED
  BY <1>6, <1>7

(* Nothing waits in the two scopes of an empty function.                   *)
LEMMA InitFit ==
  ASSUME Init, Len(scopes) <= MaxScopes
  PROVE  FitNow
<1> DEFINE a == [path |-> <<0>>, wait |-> <<>>]
           b == [path |-> <<0, 1>>, wait |-> <<>>]
           L == <<a, b>>
           en == [i \in DOMAIN code |-> <<>>]
           ex == [i \in DOMAIN code |-> At(<<>>, 0)]
           p1 == <<0>>
           p2 == <<0, 1>>
<1>1. /\ code = <<Empty(p2, "entry")>>
      /\ cur = 1 /\ defers = <<>> /\ scopes = p2
      /\ marks = Marked(Marked(<<>>, 0), 0)
      /\ loops = <<>>
      /\ frames = <<Frame("body", 0, 0, "none")>>
  BY DEF Init
<1>2. /\ DOMAIN code = {1} /\ Len(code) = 1
      /\ code[1].ins = <<>> /\ code[1].path = p2 /\ code[1].term = NoTerm
  BY <1>1 DEF Empty, Block
<1>3. /\ p1 \in Seq(Nat) /\ Len(p1) = 1 /\ DOMAIN p1 = {1} /\ p1[1] = 0 /\ p1 # <<>>
      /\ p2 \in Seq(Nat) /\ Len(p2) = 2 /\ DOMAIN p2 = {1, 2} /\ p2[1] = 0 /\ p2[2] = 1
      /\ p2 # <<>> /\ p2 = Append(p1, 1)
  OBVIOUS
<1>4. Last(p2) = 1 /\ Front(p2) = p1 /\ Last(p1) = 0
  <2> HIDE DEF p1, p2
  <2>1. Last(p2) = 1 /\ Front(p2) = p1
    <3>1. 1 \in Nat
      OBVIOUS
    <3>2. Last(Append(p1, 1)) = 1 /\ Front(Append(p1, 1)) = p1
      BY <1>3, <3>1, PopPush
    <3>3. QED
      BY <1>3, <3>2
  <2>2. Last(p1) = p1[Len(p1)]
    BY <1>3, PopFacts
  <2>3. QED
    BY <1>3, <2>1, <2>2
<1>5. /\ <<>> \in Seq(Entry) /\ <<>> \in Seq(Nat) /\ <<>> \in Seq(1 .. Budget)
      /\ Len(<<>>) = 0 /\ DOMAIN <<>> = {}
  BY EmptySeq
<1>6. /\ a.path = p1 /\ a.wait = <<>> /\ b.path = p2 /\ b.wait = <<>>
      /\ a \in LevelType /\ b \in LevelType
  BY <1>3, <1>5 DEF LevelType
<1> HIDE DEF a, b
<1>7. /\ L \in Seq(LevelType) /\ Len(L) = 2 /\ DOMAIN L = {1, 2} /\ L # <<>>
      /\ L[1] = a /\ L[2] = b
  BY <1>6
<1> HIDE DEF L, p1, p2
<1>8. Last(L) = b
  <2>1. Last(L) = L[Len(L)]
    BY <1>7, PopFacts
  <2>2. QED
    BY <1>7, <2>1
<1>9. Levels(L, 1)
  <2>1. LevelFit(a, 1, 1) /\ LevelFit(b, 2, 1)
    BY <1>3, <1>5, <1>6 DEF LevelFit
  <2>2. Holds(a, b)
    <3>1. Cuts(<<>>, p1, <<>>)
      BY <1>5, CutsAll
    <3>2. \A i \in DOMAIN p1 : IsIn(p1[i], p2)
      BY <1>3 DEF IsIn
    <3>3. ~IsIn(1, p1)
      BY <1>3 DEF IsIn
    <3>4. QED
      BY <1>4, <1>6, <3>1, <3>2, <3>3 DEF Holds
  <2>3. \A k \in DOMAIN L : LevelFit(L[k], k, 1)
    BY <1>7, <2>1
  <2>4. \A k \in DOMAIN L : k > 1 => Front(L[k].path) = L[k - 1].path
    BY <1>4, <1>6, <1>7
  <2>5. \A j, k \in DOMAIN L : j < k => Holds(L[j], L[k])
    BY <1>7, <2>2
  <2>6. QED
    BY <1>6, <1>7, <2>3, <2>4, <2>5 DEF Levels
<1>10. Synced(defers, <<>>)
  BY <1>1, <1>5 DEF Synced
<1>11. Counted(marks, L)
  <2>1. 2 <= MaxScopes
    BY <1>1, <1>3
  <2> DEFINE m1 == Append(<<>>, 0)
             m2 == Append(m1, 0)
  <2>2. 0 \in Nat
    OBVIOUS
  <2>3. m1 \in Seq(Nat) /\ Len(m1) = 1
    BY <1>5, <2>2, PushFacts
  <2> HIDE DEF m1
  <2>4. m2 \in Seq(Nat) /\ Len(m2) = Len(m1) + 1 /\ m2[Len(m1) + 1] = 0
    <3>1. m1 \in Seq(Nat)
      BY <2>3
    <3>2. QED
      BY <2>2, <3>1, PushFacts
  <2> HIDE DEF m2
  <2>5. marks = m2
    <3>1. Marked(<<>>, 0) = m1
      BY <1>5, <2>1, ConstantsAssumption DEF Marked, m1
    <3>2. Len(m1) = 1 /\ 1 < MaxScopes
      BY <1>5, <2>1, <2>3, ConstantsAssumption
    <3>3. Marked(m1, 0) = m2
      BY <3>2 DEF Marked, m2
    <3>4. QED
      BY <1>1, <3>1, <3>3
  <2>6. Len(m2) = 2 /\ m2[2] = 0 /\ 1 .. 2 = {1, 2}
    BY <1>5, <2>3, <2>4
  <2>7. \A k \in {1, 2} : k > 1 => m2[k] = Len(L[k - 1].wait)
    BY <1>5, <1>6, <1>7, <2>6
  <2>8. QED
    BY <1>7, <2>4, <2>5, <2>6, <2>7 DEF Counted
<1>12. Stack(L, scopes, defers, marks, Len(code))
  BY <1>1, <1>2, <1>6, <1>7, <1>8, <1>9, <1>10, <1>11 DEF Stack
<1>13. At(<<>>, 0) \in Waiting /\ 0 \in Nat
  BY <1>5, AtType
<1>14. /\ en \in [DOMAIN code -> Seq(Entry)] /\ ex \in [DOMAIN code -> Waiting]
       /\ en[1] = <<>> /\ ex[1] = At(<<>>, 0)
  BY <1>2, <1>5, <1>13
<1> HIDE DEF en, ex
<1>15. Typed(code, en, ex, 1)
  <2>1. code[1].term.to = {} /\ code[1].term.op # "ret"
    BY <1>2 DEF NoTerm
  <2>2. QED
    BY <1>2, <1>3, <1>5, <1>14, <2>1, TypedNew
<1>16. Sound(code, en, ex)
  BY <1>2, <1>14, <1>15 DEF Sound
<1>17. CurFit(code, cur, scopes, ex, L)
  BY <1>1, <1>2, <1>4, <1>6, <1>8, <1>14 DEF CurFit
<1>18. FramesGood(code, cur, loops, en, ex, L, frames)
  <2>1. DOMAIN frames = {1}
    BY <1>1
  <2>2. \A i \in DOMAIN frames : ~(i > 1)
    BY <2>1
  <2>3. QED
    BY <2>2 DEF FramesGood
<1>19. Fit(code, cur, scopes, defers, marks, loops, frames, en, ex, L)
  BY <1>12, <1>16, <1>17, <1>18 DEF Fit
<1>20. QED
  BY <1>14, <1>19 DEF FitNow, Fitting

(* What has been emitted has a typing, at every step of the emission and   *)
(* afterwards.                                                             *)
TypedNow == Whole(code) /\ (frames # <<>> => FitNow)

(* The limits of LG a function must keep to: beyond them a scope's mark, a *)
(* loop or a deferred expression is lost, and nothing below holds.         *)
RoomKept ==
  /\ Len(scopes) <= MaxScopes
  /\ LoopsHaveRoom

DefersKept == DeferStmt => Len(defers) < MaxDefers

(* A return whose value has a `?' runs what waits twice (exec_return_try). *)
NoReturnTry == "returnTry" \notin Kinds

(* The ifs.                                                                *)
LEMMA IfFits ==
  ASSUME IInv, IInv', Final, FitNow, frames # <<>>, Len(scopes') <= MaxScopes,
         IfStmt \/ IfElseIfStmt \/ ElseIf
  PROVE  FitNow'
<1>1. PICK alt \in {"none", "block", "if"} : IfBlocks(alt)
  BY DEF IfStmt, IfElseIfStmt, ElseIf
<1>2. IsOpen(code, cur)
  <2>1. CASE IfStmt \/ IfElseIfStmt
    BY <2>1 DEF IfStmt, IfElseIfStmt, AtStmt
  <2>2. CASE ElseIf
    <3>1. Top.kind = "elif" /\ cur = Top.next
      BY <2>2 DEF ElseIf
    <3>2. QED
      BY <3>1 DEF IInv, Built, Top
  <2>3. QED
    BY <2>1, <2>2
<1>3. QED
  BY <1>1, <1>2, IfBlocksFit

(* Every step of the emission keeps it.                                    *)
LEMMA NextTyped ==
  ASSUME IInv, IInv', Final, Paired(loops, frames), RoomKept, RoomKept',
         DefersKept, NoReturnTry, TypedNow, Next
  PROVE  TypedNow'
<1>1. frames # <<>>
  BY DEF Next, TryStmt, ReturnStmt, ReturnTryStmt, DeferStmt, BreakStmt, ContinueStmt,
         JumpStmt, IfStmt, IfElseIfStmt, ElseIf, WhileStmt, LoopStmt, UnsafeStmt,
         LoopOrUnsafe, ForStmt, EndThenElse, EndThenElseIf, EndThen, EndElse,
         EndElseIf, EndWhile, EndLoop, EndUnsafe, EndLoopOrUnsafe, EndFor, EndBody,
         LeaveBlock, AtStmt
<1>2. FitNow
  BY <1>1 DEF TypedNow
<1>3. Len(scopes') <= MaxScopes
  BY DEF RoomKept
<1>4. CASE EndBody
  <2>1. frames' = <<>>
    BY <1>4 DEF EndBody
  <2>2. Whole(code')
    BY <1>2, <1>4, EndBodyFit
  <2>3. QED
    BY <2>1, <2>2 DEF TypedNow, Whole
<1>5. ASSUME FitNow'
      PROVE  TypedNow'
  <2>1. Whole(code')
    BY <1>5 DEF FitNow, Fitting, Fit, Whole
  <2>2. QED
    BY <1>5, <2>1 DEF TypedNow, Whole
<1>6. CASE TryStmt \/ ReturnStmt \/ DeferStmt
  BY <1>2, <1>5, <1>6, TryFit, ReturnFit, DeferFit DEF DefersKept
<1>7. CASE ReturnTryStmt
  BY <1>7 DEF ReturnTryStmt, AtStmt, NoReturnTry
<1>8. CASE BreakStmt \/ ContinueStmt
  BY <1>2, <1>5, <1>8, JumpFit DEF BreakStmt, ContinueStmt
<1>9. CASE IfStmt \/ IfElseIfStmt \/ ElseIf
  BY <1>1, <1>2, <1>3, <1>5, <1>9, IfFits
<1>10. CASE WhileStmt \/ LoopStmt \/ UnsafeStmt \/ ForStmt
  BY <1>2, <1>3, <1>5, <1>10, WhileFit, LoopOrUnsafeFit, ForFit DEF LoopStmt, UnsafeStmt
<1>11. CASE EndThenElse \/ EndThenElseIf \/ EndThen
  BY <1>2, <1>3, <1>5, <1>11, EndThenElseFit, EndThenElseIfFit, EndThenFit
<1>12. CASE EndElse \/ EndElseIf \/ EndWhile \/ EndLoop \/ EndUnsafe \/ EndFor
  BY <1>2, <1>5, <1>12, EndPlainFit, EndElseIfFit, EndForFit
<1>13. QED
  BY <1>4, <1>6, <1>7, <1>8, <1>9, <1>10, <1>11, <1>12 DEF Next

-----------------------------------------------------------------------------
(* A run of typed code.                                                    *)

(* The run is outside a call, on its way to a block, or in one; what waits *)
(* is what the typing says.                                                *)
Idle == at = 0 /\ dest = 0 /\ pending = <<>> /\ leaving = 0

Branching(en) ==
  /\ dest # 0 /\ ~over
  /\ dest \in DOMAIN code
  /\ pending = en[dest]
  /\ leaving = 0
  /\ \A i \in DOMAIN pending : IsIn(pending[i].scope, Stays(code, dest))

(* Its place in a block has the waiting list w[ip].                        *)
Tracks(w, ex) ==
  /\ Steps(code[at].ins, code[at].path, w)
  /\ w[Len(code[at].ins) + 1] = ex[at]
  /\ pending = w[ip].pend
  /\ leaving = w[ip].leav

InBlock(ex) ==
  /\ dest = 0 /\ at # 0 /\ ~over
  /\ at \in DOMAIN code
  /\ ip \in 1 .. Len(code[at].ins) + 1
  /\ \E w : Tracks(w, ex)

Follows(en, ex) == ran.due /\ (Idle \/ Branching(en) \/ InBlock(ex))

(* The function a run executes: its blocks, their types and branches.      *)
LEMMA RunFacts ==
  ASSUME IInv, NEW en, NEW ex, Sound(code, en, ex), NEW b \in DOMAIN code
  PROVE  /\ code[b].ins \in Seq(Instr) /\ Len(code[b].ins) \in Nat
         /\ code[b].path \in Seq(Nat) /\ code[b].path # <<>>
         /\ en[b] \in Seq(Entry) /\ ex[b] \in Waiting
         /\ Typed(code, en, ex, b)
         /\ code[b].term.to \subseteq DOMAIN code
         /\ 0 \notin DOMAIN code
<1>1. /\ code \in Blocks /\ DOMAIN code = 1 .. Len(code) /\ Inside(code, Len(code))
  BY StateFacts
<1>2. 0 \notin 1 .. Len(code)
  BY <1>1, StateFacts
<1>3. code[b].term.to \subseteq DOMAIN code
  BY <1>1 DEF Inside
<1>4. code[b].ins \in Seq(Instr) /\ code[b].path \in Seq(Nat)
  BY <1>1, BlockParts
<1>5. en[b] \in Seq(Entry) /\ ex[b] \in Waiting /\ Typed(code, en, ex, b)
  BY DEF Sound
<1>6. Len(code[b].ins) \in Nat
  BY <1>4, LenProperties
<1>7. code[b].path # <<>>
  BY <1>5 DEF Typed
<1>8. QED
  BY <1>1, <1>2, <1>3, <1>4, <1>5, <1>6, <1>7

(* The place of a run in a block.                                          *)
LEMMA PlaceFacts ==
  ASSUME IInv, NEW en, NEW ex, Sound(code, en, ex), Follows(en, ex),
         at # 0, dest = 0
  PROVE  /\ InBlock(ex) /\ at \in DOMAIN code /\ ~over
         /\ ip \in 1 .. Len(code[at].ins) + 1 /\ ip \in Nat
         /\ pending \in Seq(Entry)
         /\ leaving # 0 => IsIn(leaving, code[at].path)
         /\ ~(ip <= Len(code[at].ins)) =>
              pending = ex[at].pend /\ leaving = ex[at].leav
<1>1. InBlock(ex)
  BY DEF Follows, Idle, Branching
<1>2. PICK w : Tracks(w, ex)
  BY <1>1 DEF InBlock
<1>3. /\ at \in DOMAIN code /\ ~over /\ ip \in 1 .. Len(code[at].ins) + 1
  BY <1>1 DEF InBlock
<1>4. Len(code[at].ins) \in Nat
  BY <1>3, RunFacts
<1>5. /\ w \in Seq(Waiting) /\ Len(w) = Len(code[at].ins) + 1
      /\ \A k \in DOMAIN w : w[k].leav # 0 => IsIn(w[k].leav, code[at].path)
      /\ w[Len(code[at].ins) + 1] = ex[at]
      /\ pending = w[ip].pend /\ leaving = w[ip].leav
  BY <1>2 DEF Tracks, Steps
<1>6. ip \in DOMAIN w
  BY <1>3, <1>5, LenProperties
<1>7. w[ip] \in Waiting
  BY <1>5, <1>6, ElementOfSeq, LenProperties
<1>8. pending \in Seq(Entry)
  BY <1>5, <1>7 DEF Waiting
<1>9. ip \in Nat
  BY <1>3, <1>4
<1>10. ~(ip <= Len(code[at].ins)) => ip = Len(code[at].ins) + 1
  BY <1>3, <1>4
<1>11. QED
  BY <1>1, <1>3, <1>5, <1>6, <1>8, <1>9, <1>10

(* A call starts with nothing waiting.                                     *)
LEMMA CallFollows ==
  ASSUME IInv, NEW en, NEW ex, Sound(code, en, ex), en[1] = <<>>,
         Follows(en, ex), Call
  PROVE  Follows(en, ex)'
<1>1. /\ at = 0 /\ dest = 0 /\ ~over /\ dest' = 1
      /\ code' = code /\ pending' = pending /\ leaving' = leaving /\ over' = over
      /\ ran' = ran
  BY DEF Call, vars
<1>2. Idle /\ ran.due
  BY <1>1 DEF Follows, Branching, InBlock
<1>3. 1 \in DOMAIN code
  BY StateFacts
<1>4. DOMAIN <<>> = {}
  BY EmptySeq
<1>5. Branching(en)'
  BY <1>1, <1>2, <1>3, <1>4 DEF Idle, Branching
<1>6. QED
  BY <1>1, <1>2, <1>5 DEF Follows

(* A branch arrives: what waits is what the block starts with.             *)
LEMMA ArriveFollows ==
  ASSUME IInv, NEW en, NEW ex, Sound(code, en, ex), Follows(en, ex), Arrive
  PROVE  Follows(en, ex)'
<1>1. /\ dest # 0 /\ at' = dest /\ ip' = 1 /\ dest' = 0
      /\ code' = code /\ pending' = pending /\ leaving' = leaving /\ over' = over
      /\ ran' = ran
  BY DEF Arrive, vars
<1>2. Branching(en) /\ ran.due
  BY <1>1 DEF Follows, Idle, InBlock
<1>3. dest \in DOMAIN code /\ ~over /\ pending = en[dest] /\ leaving = 0
  BY <1>2 DEF Branching
<1>4. /\ Carries(code[dest].ins, code[dest].path, en[dest], ex[dest])
      /\ Len(code[dest].ins) \in Nat /\ en[dest] \in Seq(Entry)
  BY <1>3, RunFacts DEF Typed
<1>5. PICK w : /\ Steps(code[dest].ins, code[dest].path, w)
               /\ w[1] = At(en[dest], 0)
               /\ w[Len(code[dest].ins) + 1] = ex[dest]
  BY <1>4 DEF Carries
<1>6. w[1].pend = en[dest] /\ w[1].leav = 0
  BY <1>5 DEF At
<1>7. Tracks(w, ex)'
  BY <1>1, <1>3, <1>5, <1>6 DEF Tracks
<1>8. 1 \in 1 .. Len(code[dest].ins) + 1
  BY <1>4
<1>9. InBlock(ex)'
  BY <1>1, <1>3, <1>7, <1>8 DEF InBlock
<1>10. QED
  BY <1>1, <1>2, <1>9 DEF Follows

(* The instruction a run stands at does what the typing says.              *)
LEMMA InstrFacts ==
  ASSUME IInv, NEW en, NEW ex, Sound(code, en, ex), Follows(en, ex),
         NEW op, AtInstr(op)
  PROVE  /\ code' = code /\ at' = at /\ dest' = dest /\ over' = over /\ ip' = ip + 1
         /\ at # 0 /\ dest = 0 /\ ~over /\ ran.due
         /\ at \in DOMAIN code /\ ip + 1 \in 1 .. Len(code[at].ins) + 1
         /\ pending \in Seq(Entry) /\ leaving \in Nat
         /\ code[at].ins[ip].op = op
         /\ \E w : /\ Steps(code[at].ins, code[at].path, w)
                   /\ w[Len(code[at].ins) + 1] = ex[at]
                   /\ \/ /\ op = "reg" /\ leaving = 0
                         /\ w[ip + 1] = At(Append(pending,
                              [d |-> code[at].ins[ip].d,
                               scope |-> Last(code[at].path)]), 0)
                      \/ /\ op = "run" /\ pending # <<>>
                         /\ Last(pending).d = code[at].ins[ip].d
                         /\ w[ip + 1] = At(Front(pending), Last(pending).scope)
<1>1. /\ code' = code /\ at' = at /\ dest' = dest /\ over' = over /\ ip' = ip + 1
      /\ at # 0 /\ dest = 0 /\ ip <= Len(code[at].ins) /\ code[at].ins[ip].op = op
  BY DEF AtInstr, vars
<1>2. /\ InBlock(ex) /\ at \in DOMAIN code /\ ~over
      /\ ip \in 1 .. Len(code[at].ins) + 1 /\ ip \in Nat /\ pending \in Seq(Entry)
  BY <1>1, PlaceFacts
<1>3. PICK w : Tracks(w, ex)
  BY <1>2 DEF InBlock
<1>4. /\ Steps(code[at].ins, code[at].path, w) /\ w[Len(code[at].ins) + 1] = ex[at]
      /\ pending = w[ip].pend /\ leaving = w[ip].leav
  BY <1>3 DEF Tracks
<1>5. code[at].ins \in Seq(Instr) /\ Len(code[at].ins) \in Nat
  BY <1>2, RunFacts
<1>6. ip \in 1 .. Len(code[at].ins) /\ ip + 1 \in 1 .. Len(code[at].ins) + 1
  BY <1>1, <1>2, <1>5
<1>7. ip \in DOMAIN code[at].ins
  BY <1>5, <1>6, LenProperties
<1>8. \/ /\ op = "reg" /\ leaving = 0
         /\ w[ip + 1] = At(Append(pending, [d |-> code[at].ins[ip].d,
                                            scope |-> Last(code[at].path)]), 0)
      \/ /\ op = "run" /\ pending # <<>>
         /\ Last(pending).d = code[at].ins[ip].d
         /\ w[ip + 1] = At(Front(pending), Last(pending).scope)
  BY <1>1, <1>4, <1>7 DEF Steps
<1>9. w \in Seq(Waiting) /\ Len(w) = Len(code[at].ins) + 1
  BY <1>4 DEF Steps
<1>10. w[ip] \in Waiting
  BY <1>2, <1>9, ElementOfSeq
<1>11. leaving \in Nat
  BY <1>4, <1>10 DEF Waiting
<1>12. ran.due
  BY DEF Follows
<1>13. QED
  BY <1>1, <1>2, <1>4, <1>6, <1>8, <1>11, <1>12

(* A run that goes on in its block follows the typing, if what waits is    *)
(* what the block's trace says.                                            *)
LEMMA StaysFollows ==
  ASSUME NEW ex, NEW w,
         code' = code, at' = at, dest' = dest, over' = over, ip' = ip + 1,
         at # 0, dest = 0, ~over, ran'.due,
         at \in DOMAIN code, ip + 1 \in 1 .. Len(code[at].ins) + 1,
         Steps(code[at].ins, code[at].path, w),
         w[Len(code[at].ins) + 1] = ex[at],
         w[ip + 1] = At(pending', leaving')
  PROVE  InBlock(ex)'
<1>1. w[ip + 1].pend = pending' /\ w[ip + 1].leav = leaving'
  BY DEF At
<1>2. Tracks(w, ex)'
  BY <1>1 DEF Tracks
<1>3. QED
  BY <1>2 DEF InBlock

(* A defer registers.                                                      *)
LEMMA RegisterFollows ==
  ASSUME IInv, NEW en, NEW ex, Sound(code, en, ex), Follows(en, ex), Register
  PROVE  /\ Follows(en, ex)'
         /\ leaving = 0 /\ code[at].ins[ip].d \in 1 .. Budget
<1>1. /\ AtInstr("reg") /\ ran' = ran /\ leaving' = leaving
      /\ pending' = Append(pending, [d |-> code[at].ins[ip].d,
                                     scope |-> Last(code[at].path)])
  BY DEF Register
<1>2. /\ code' = code /\ at' = at /\ dest' = dest /\ over' = over /\ ip' = ip + 1
      /\ at # 0 /\ dest = 0 /\ ~over /\ ran.due
      /\ at \in DOMAIN code /\ ip + 1 \in 1 .. Len(code[at].ins) + 1
      /\ pending \in Seq(Entry)
  BY <1>1, InstrFacts
<1>3. PICK w : /\ Steps(code[at].ins, code[at].path, w)
               /\ w[Len(code[at].ins) + 1] = ex[at]
               /\ leaving = 0
               /\ w[ip + 1] = At(Append(pending, [d |-> code[at].ins[ip].d,
                                                  scope |-> Last(code[at].path)]), 0)
  BY <1>1, InstrFacts
<1>4. w[ip + 1] = At(pending', leaving')
  BY <1>1, <1>3
<1>5. InBlock(ex)'
  BY <1>1, <1>2, <1>3, <1>4, StaysFollows
<1>6. code[at].ins \in Seq(Instr) /\ Len(code[at].ins) \in Nat
  BY <1>2, RunFacts
<1>7. ip \in 1 .. Len(code[at].ins) + 1 /\ ip <= Len(code[at].ins) /\ ip \in Nat
  BY <1>1, <1>2, PlaceFacts DEF AtInstr
<1>8. code[at].ins[ip] \in Instr
  BY <1>6, <1>7, ElementOfSeq
<1>9. code[at].ins[ip].d \in 1 .. Budget
  BY <1>8 DEF Instr
<1>10. QED
  BY <1>1, <1>2, <1>3, <1>5, <1>9 DEF Follows

(* Removing the newest of a list.                                          *)
LEMMA RemoveNewest ==
  ASSUME NEW S, NEW s \in Seq(S), s # <<>>
  PROVE  RemoveAt(s, Len(s)) = Front(s)
<1>1. Len(s) \in Nat /\ Front(s) \in Seq(S)
  BY PopFacts
<1>2. SubSeq(s, Len(s) + 1, Len(s)) = <<>>
  BY <1>1, SubSeqEmpty
<1>3. SubSeq(s, 1, Len(s) - 1) = Front(s)
  BY DEF Front
<1>4. Front(s) \o <<>> = Front(s)
  BY <1>1, ConcatEmptySeq
<1>5. QED
  BY <1>2, <1>3, <1>4 DEF RemoveAt

(* A deferred call runs the newest expression that waits.                  *)
LEMMA RunFollows ==
  ASSUME IInv, NEW en, NEW ex, Sound(code, en, ex), Follows(en, ex), RunDefer
  PROVE  /\ Follows(en, ex)'
         /\ pending # <<>>
         /\ ran' = [d |-> Last(pending).d, due |-> TRUE]
         /\ pending' = Front(pending)
         /\ leaving' = Last(pending).scope
<1> DEFINE n == Len(pending)
           g == code[at].ins[ip].d
           due == {i \in DOMAIN pending : pending[i].d = g}
<1>1. /\ AtInstr("run")
      /\ ran' = [d |-> g, due |-> due # {}]
      /\ due # {} =>
           LET i == CHOOSE i \in due : \A j \in due : j <= i
           IN pending' = RemoveAt(pending, i) /\ leaving' = pending[i].scope
  BY DEF RunDefer
<1>2. /\ code' = code /\ at' = at /\ dest' = dest /\ over' = over /\ ip' = ip + 1
      /\ at # 0 /\ dest = 0 /\ ~over
      /\ at \in DOMAIN code /\ ip + 1 \in 1 .. Len(code[at].ins) + 1
      /\ pending \in Seq(Entry)
  BY <1>1, InstrFacts
<1>3. PICK w : /\ Steps(code[at].ins, code[at].path, w)
               /\ w[Len(code[at].ins) + 1] = ex[at]
               /\ pending # <<>>
               /\ Last(pending).d = g
               /\ w[ip + 1] = At(Front(pending), Last(pending).scope)
  BY <1>1, InstrFacts
<1>4. /\ n \in Nat \ {0} /\ n \in DOMAIN pending /\ DOMAIN pending = 1 .. n
      /\ Last(pending) = pending[n]
  BY <1>2, <1>3, PopFacts
<1>5. n \in due /\ due # {} /\ due \subseteq 1 .. n
  BY <1>3, <1>4
<1> HIDE DEF due, n
<1>6. (CHOOSE i \in due : \A j \in due : j <= i) = n
  <2> DEFINE m == CHOOSE i \in due : \A j \in due : j <= i
  <2>1. \A j \in due : j <= n
    BY <1>4, <1>5
  <2>2. m \in due /\ \A j \in due : j <= m
    BY <1>5, <2>1
  <2> HIDE DEF m
  <2>3. n <= m /\ m <= n /\ m \in 1 .. n
    BY <1>5, <2>1, <2>2
  <2>4. \A a, b \in Nat : a <= b /\ b <= a => a = b
    OBVIOUS
  <2>5. \A k \in Nat : 1 .. k \subseteq Nat
    OBVIOUS
  <2>6. n \in Nat
    BY <1>4
  <2>7. m \in Nat
    BY <2>3, <2>5, <2>6
  <2>8. m = n
    BY <2>3, <2>4, <2>6, <2>7
  <2>9. QED
    BY <2>8 DEF m
<1>7. pending' = RemoveAt(pending, n) /\ leaving' = pending[n].scope
  BY <1>1, <1>5, <1>6
<1>8. pending' = Front(pending) /\ leaving' = Last(pending).scope
  BY <1>2, <1>3, <1>4, <1>7, RemoveNewest DEF n
<1>9. ran' = [d |-> Last(pending).d, due |-> TRUE]
  BY <1>1, <1>3, <1>5
<1>10. ran'.due
  BY <1>9
<1>11. InBlock(ex)'
  BY <1>2, <1>3, <1>8, <1>10, StaysFollows
<1>12. QED
  BY <1>3, <1>8, <1>9, <1>10, <1>11 DEF Follows

(* The scopes that stay open cut what waits where the typing says.         *)
LEMMA CutPending ==
  ASSUME NEW p, pending \in Seq(Entry), NEW r, Cuts(pending, p, r)
  PROVE  /\ NotIn(p) = Len(r) + 1 .. Len(pending)
         /\ r = IF NotIn(p) = {} THEN pending
                ELSE SubSeq(pending, 1, Min(NotIn(p)) - 1)
         /\ \A i \in DOMAIN r : IsIn(r[i].scope, p)
<1> DEFINE n == Len(pending)
           m == Len(r)
<1>1. /\ r \in Seq(Entry) /\ m \in 0 .. n /\ r = SubSeq(pending, 1, m)
      /\ \A i \in 1 .. m : r[i] = pending[i] /\ IsIn(r[i].scope, p)
      /\ \A i \in m + 1 .. n : ~IsIn(pending[i].scope, p)
  BY CutsFacts
<1>2. n \in Nat /\ DOMAIN pending = 1 .. n /\ DOMAIN r = 1 .. m
  BY <1>1, LenProperties
<1>3. NotIn(p) = {i \in 1 .. n : ~IsIn(pending[i].scope, p)}
  BY <1>2 DEF NotIn, InScope, IsIn
<1>4. r = pending \/ m # n
  <2>1. CASE m = n
    <3>1. SubSeq(pending, 1, Len(pending)) = pending
      OBVIOUS
    <3>2. QED
      BY <1>1, <2>1, <3>1
  <2>2. QED
    BY <2>1
<1> HIDE DEF n, m
<1>5. m \in Nat /\ m <= n
  BY <1>1, <1>2
<1>6. \A i \in 1 .. m : i \in 1 .. n /\ IsIn(pending[i].scope, p)
  <2>1. \A i \in 1 .. m : i \in 1 .. n
    BY <1>2, <1>5
  <2>2. \A i \in 1 .. m : IsIn(pending[i].scope, p)
    BY <1>1
  <2>3. QED
    BY <2>1, <2>2
<1>7. \A i \in m + 1 .. n : i \in 1 .. n
  BY <1>2, <1>5
<1>8. \A i \in 1 .. n : i \in 1 .. m \/ i \in m + 1 .. n
  BY <1>2, <1>5
<1>9. NotIn(p) = m + 1 .. n
  BY <1>1, <1>3, <1>6, <1>7, <1>8
<1>10. m + 1 .. n = {} => m = n
  BY <1>2, <1>5
<1>11. m = n => m + 1 .. n = {}
  BY <1>2
<1>12. m # n => Min(m + 1 .. n) - 1 = m
  <2> SUFFICES ASSUME m # n
               PROVE  Min(m + 1 .. n) - 1 = m
    OBVIOUS
  <2> DEFINE S == m + 1 .. n
             k == CHOOSE x \in S : \A y \in S : x <= y
  <2>1. m + 1 \in S /\ \A y \in S : m + 1 <= y
    BY <1>2, <1>5
  <2>2. k \in S /\ \A y \in S : k <= y
    BY <2>1
  <2>3. Min(S) = k
    BY DEF Min
  <2> HIDE DEF k
  <2>4. k \in Int /\ k >= m + 1 /\ k <= m + 1
    BY <1>2, <1>5, <2>1, <2>2
  <2>5. k - 1 = m
    BY <1>5, <2>4
  <2>6. QED
    BY <2>3, <2>5
<1>13. r = IF NotIn(p) = {} THEN pending
           ELSE SubSeq(pending, 1, Min(NotIn(p)) - 1)
  BY <1>1, <1>4, <1>9, <1>10, <1>11, <1>12
<1>14. QED
  BY <1>1, <1>2, <1>9, <1>13 DEF n, m

(* A branch leaves unrun what the typing says.                             *)
LEMMA BranchFollows ==
  ASSUME IInv, NEW en, NEW ex, Sound(code, en, ex), Follows(en, ex), Branch
  PROVE  /\ Follows(en, ex)'
         /\ Edge(code, en, ex, at, dest')
         /\ pending = ex[at].pend /\ leaving = ex[at].leav
         /\ pending' = en[dest'] /\ Kept(dest') = Stays(code, dest')
         /\ NotIn(Kept(dest')) = Len(en[dest']) + 1 .. Len(pending)
<1>1. PICK b \in code[at].term.to :
        /\ dest' = b
        /\ pending' = IF NotIn(Kept(b)) = {} THEN pending
                      ELSE SubSeq(pending, 1, Min(NotIn(Kept(b))) - 1)
  BY DEF Branch
<1>2. /\ at # 0 /\ dest = 0 /\ ~(ip <= Len(code[at].ins))
      /\ code' = code /\ over' = over /\ ran' = ran /\ leaving' = 0
  <2>1. /\ at # 0 /\ dest = 0 /\ ip > Len(code[at].ins)
        /\ code' = code /\ over' = over /\ ran' = ran /\ leaving' = 0
    BY DEF Branch, AtTerm, vars
  <2>2. at \in DOMAIN code /\ ip \in Nat
    BY <2>1, PlaceFacts
  <2>3. Len(code[at].ins) \in Nat
    BY <2>2, RunFacts
  <2>4. QED
    BY <2>1, <2>2, <2>3
<1>3. /\ at \in DOMAIN code /\ ~over /\ pending \in Seq(Entry)
      /\ pending = ex[at].pend /\ leaving = ex[at].leav
  BY <1>2, PlaceFacts
<1>4. Typed(code, en, ex, at) /\ code[at].term.to \subseteq DOMAIN code
      /\ 0 \notin DOMAIN code
  BY <1>3, RunFacts
<1>5. Edge(code, en, ex, at, b)
  BY <1>4 DEF Typed
<1>6. Cuts(pending, Stays(code, b), en[b])
  BY <1>3, <1>5 DEF Edge
<1>7. Kept(b) = Stays(code, b)
  BY DEF Kept, Stays
<1>8. /\ NotIn(Stays(code, b)) = Len(en[b]) + 1 .. Len(pending)
      /\ en[b] = IF NotIn(Stays(code, b)) = {} THEN pending
                 ELSE SubSeq(pending, 1, Min(NotIn(Stays(code, b))) - 1)
      /\ \A i \in DOMAIN en[b] : IsIn(en[b][i].scope, Stays(code, b))
  BY <1>3, <1>6, CutPending
<1>9. pending' = en[b]
  BY <1>1, <1>7, <1>8
<1>10. b \in DOMAIN code /\ b # 0
  BY <1>4
<1>11. Branching(en)'
  BY <1>1, <1>2, <1>3, <1>8, <1>9, <1>10 DEF Branching
<1>12. ran'.due
  BY <1>2 DEF Follows
<1>13. QED
  BY <1>1, <1>3, <1>5, <1>7, <1>8, <1>9, <1>11, <1>12 DEF Follows

(* Nothing waits where a function returns.                                 *)
LEMMA ReturnFollows ==
  ASSUME IInv, NEW en, NEW ex, Sound(code, en, ex), Follows(en, ex), Return
  PROVE  Follows(en, ex)' /\ pending = <<>>
<1>1. /\ at # 0 /\ dest = 0 /\ ip > Len(code[at].ins) /\ code[at].term.op = "ret"
      /\ code' = code /\ over' = TRUE /\ ran' = ran /\ leaving' = 0
      /\ at' = 0 /\ dest' = dest /\ pending' = <<>>
  BY DEF Return, AtTerm, vars
<1>2. at \in DOMAIN code /\ ip \in Nat
  BY <1>1, PlaceFacts
<1>3. Len(code[at].ins) \in Nat /\ Typed(code, en, ex, at)
  BY <1>2, RunFacts
<1>4. pending = ex[at].pend
  BY <1>1, <1>2, <1>3, PlaceFacts
<1>5. pending = <<>>
  BY <1>1, <1>3, <1>4 DEF Typed
<1>6. Idle'
  BY <1>1 DEF Idle
<1>7. ran'.due
  BY <1>1 DEF Follows
<1>8. QED
  BY <1>5, <1>6, <1>7 DEF Follows

(* The invariant of a run: what is emitted is typed, nothing runs before   *)
(* the emission is over, and the run follows a typing.                     *)
Following(en, ex) == Sound(code, en, ex) /\ en[1] = <<>> /\ Follows(en, ex)

RunInv ==
  /\ TypedNow
  /\ frames # <<>> => Idle /\ ~over
  /\ \E en, ex : Following(en, ex)

(* Before the call.                                                        *)
LEMMA ExecInitRuns ==
  ASSUME ExecInit, RoomKept
  PROVE  RunInv
<1>1. Init /\ at = 0 /\ dest = 0 /\ pending = <<>> /\ leaving = 0 /\ ran.due /\ ~over
  BY DEF ExecInit
<1>2. FitNow
  BY <1>1, InitFit DEF RoomKept
<1>3. Whole(code)
  BY <1>2 DEF FitNow, Fitting, Fit, Whole
<1>4. PICK en, ex : Sound(code, en, ex) /\ en[1] = <<>>
  BY <1>3 DEF Whole
<1>5. Following(en, ex)
  BY <1>1, <1>4 DEF Following, Follows, Idle
<1>6. QED
  BY <1>1, <1>2, <1>3, <1>5 DEF RunInv, TypedNow, Idle

(* While code is emitted, no run has begun.                                *)
LEMMA GenerateRuns ==
  ASSUME IInv, IInv', Final, Paired(loops, frames), RoomKept, RoomKept',
         DefersKept, NoReturnTry, RunInv, Generate
  PROVE  RunInv' /\ at = 0 /\ dest = 0 /\ dest' = 0 /\ over' = over
<1>1. /\ Next
      /\ at' = at /\ dest' = dest /\ pending' = pending /\ leaving' = leaving
      /\ ran' = ran /\ over' = over
  BY DEF Generate, run
<1>2. frames # <<>>
  BY <1>1 DEF Next, TryStmt, ReturnStmt, ReturnTryStmt, DeferStmt, BreakStmt, ContinueStmt,
         JumpStmt, IfStmt, IfElseIfStmt, ElseIf, WhileStmt, LoopStmt, UnsafeStmt,
         LoopOrUnsafe, ForStmt, EndThenElse, EndThenElseIf, EndThen, EndElse,
         EndElseIf, EndWhile, EndLoop, EndUnsafe, EndLoopOrUnsafe, EndFor, EndBody,
         LeaveBlock, AtStmt
<1>3. Idle /\ ~over /\ TypedNow
  BY <1>2 DEF RunInv
<1>4. TypedNow'
  BY <1>1, <1>3, NextTyped
<1>5. PICK en, ex : Sound(code', en, ex) /\ en[1] = <<>>
  BY <1>4 DEF TypedNow, Whole
<1>6. ran.due
  BY DEF RunInv, Following, Follows
<1>7. Idle' /\ ~over' /\ ran'.due
  BY <1>1, <1>3, <1>6 DEF Idle
<1>8. Following(en, ex)'
  BY <1>5, <1>7 DEF Following, Follows
<1>9. RunInv'
  BY <1>4, <1>7, <1>8 DEF RunInv
<1>10. QED
  BY <1>1, <1>3, <1>9 DEF Idle

(* A run leaves the emitted code alone.                                    *)
LEMMA RunKeepsCode ==
  ASSUME RunInv, UNCHANGED vars, frames = <<>> \/ UNCHANGED run,
         NEW en, NEW ex, Sound(code, en, ex), en[1] = <<>>, Follows(en, ex)'
  PROVE  RunInv'
<1>1. /\ code' = code /\ cur' = cur /\ defers' = defers /\ marks' = marks
      /\ scopes' = scopes /\ loops' = loops /\ frames' = frames
  BY DEF vars
<1>2. TypedNow'
  <2>1. TypedNow
    BY DEF RunInv
  <2>2. Whole(code') /\ (FitNow => FitNow')
    BY <1>1, <2>1 DEF TypedNow, FitNow
  <2>3. QED
    BY <1>1, <2>1, <2>2 DEF TypedNow
<1>3. Following(en, ex)'
  BY <1>1 DEF Following
<1>4. frames' # <<>> => Idle' /\ ~over'
  BY <1>1 DEF RunInv, Idle, run
<1>5. QED
  BY <1>2, <1>3, <1>4 DEF RunInv

(* Every step of a run follows the typing.                                 *)
LEMMA RunStepFollows ==
  ASSUME IInv, RunInv, Call \/ Register \/ RunDefer \/ Branch \/ Arrive \/ Return
  PROVE  RunInv'
<1>1. PICK en, ex : Following(en, ex)
  BY DEF RunInv
<1>2. Sound(code, en, ex) /\ en[1] = <<>> /\ Follows(en, ex)
  BY <1>1 DEF Following
<1>3. Follows(en, ex)'
  BY <1>2, CallFollows, RegisterFollows, RunFollows, BranchFollows, ArriveFollows,
     ReturnFollows
<1>4. UNCHANGED vars
  BY DEF Call, Register, RunDefer, Branch, Arrive, Return, AtInstr, AtTerm
<1>5. frames = <<>>
  <2>1. at # 0 \/ dest # 0 \/ frames = <<>>
    BY DEF Call, Register, RunDefer, Branch, Arrive, Return, AtInstr, AtTerm
  <2>2. QED
    BY <2>1 DEF RunInv, Idle
<1>6. QED
  BY <1>2, <1>3, <1>4, <1>5, RunKeepsCode

(* Nothing changes.                                                        *)
LEMMA IdleRuns ==
  ASSUME RunInv, UNCHANGED execVars
  PROVE  RunInv'
<1>1. UNCHANGED vars /\ UNCHANGED run
  BY DEF execVars, vars, run
<1>2. PICK en, ex : Following(en, ex)
  BY DEF RunInv
<1>3. /\ code' = code /\ at' = at /\ ip' = ip /\ dest' = dest /\ pending' = pending
      /\ ran' = ran /\ leaving' = leaving /\ over' = over
  BY <1>1 DEF vars, run
<1>4. Sound(code, en, ex) /\ en[1] = <<>> /\ Follows(en, ex)
  BY <1>2 DEF Following
<1>5. Idle => Idle'
  BY <1>3 DEF Idle
<1>6. Branching(en) => Branching(en)'
  BY <1>3 DEF Branching
<1>7. InBlock(ex) => InBlock(ex)'
  <2> SUFFICES ASSUME InBlock(ex)
               PROVE  InBlock(ex)'
    OBVIOUS
  <2>1. PICK w : Tracks(w, ex)
    BY DEF InBlock
  <2>2. Tracks(w, ex)'
    BY <1>3, <2>1 DEF Tracks
  <2>3. QED
    BY <1>3, <2>2 DEF InBlock
<1>8. Follows(en, ex)'
  BY <1>3, <1>4, <1>5, <1>6, <1>7 DEF Follows
<1>9. QED
  BY <1>1, <1>4, <1>8, RunKeepsCode

(* Every step of the whole keeps the invariant.                            *)
LEMMA ExecNextRuns ==
  ASSUME IInv, IInv', Final, Paired(loops, frames), RoomKept, RoomKept',
         [DefersKept]_vars, NoReturnTry, RunInv, [ExecNext]_execVars
  PROVE  RunInv'
<1>1. CASE Generate
  <2>1. CASE DefersKept
    BY <1>1, <2>1, GenerateRuns
  <2>2. CASE UNCHANGED vars
    <3>1. UNCHANGED execVars
      BY <1>1, <2>2 DEF Generate, vars, run, execVars
    <3>2. QED
      BY <3>1, IdleRuns
  <2>3. QED
    BY <2>1, <2>2
<1>2. CASE Call \/ Register \/ RunDefer \/ Branch \/ Arrive \/ Return
  BY <1>2, RunStepFollows
<1>3. CASE Done \/ UNCHANGED execVars
  BY <1>3, IdleRuns DEF Done
<1>4. QED
  BY <1>1, <1>2, <1>3 DEF ExecNext

-----------------------------------------------------------------------------
(* What a step of the run does to what waits.                              *)

(* A jump loses only what belongs to blocks further out.                   *)
LEMMA JumpLoses ==
  ASSUME IInv, RunInv, [ExecNext]_execVars
  PROVE  LosesOuterOnly
<1> SUFFICES ASSUME dest = 0, dest' # 0, at # 0
             PROVE  \A i \in NotIn(Kept(dest')) : pending[i].scope # Last(code[at].path)
  BY DEF LosesOuterOnly
<1>1. Branch
  BY DEF ExecNext, Generate, run, Call, Register, RunDefer, AtInstr, Arrive, Return, Done,
         execVars
<1>2. PICK en, ex : Following(en, ex)
  BY DEF RunInv
<1>3. /\ Edge(code, en, ex, at, dest')
      /\ pending = ex[at].pend
      /\ NotIn(Kept(dest')) = Len(en[dest']) + 1 .. Len(pending)
  BY <1>1, <1>2, BranchFollows DEF Following
<1>4. \A i \in Len(en[dest']) + 1 .. Len(ex[at].pend) :
        ex[at].pend[i].scope # Last(code[at].path)
  BY <1>3 DEF Edge
<1>5. QED
  BY <1>3, <1>4

(* Nothing waits when a call returns.                                      *)
LEMMA ReturnHasRun ==
  ASSUME IInv, RunInv, [ExecNext]_execVars, ~over, over'
  PROVE  pending = <<>>
<1>1. Return
  BY DEF ExecNext, Generate, run, Call, Register, RunDefer, AtInstr, AtTerm, Arrive, Branch,
         Done, execVars
<1>2. PICK en, ex : Following(en, ex)
  BY DEF RunInv
<1>3. QED
  BY <1>1, <1>2, ReturnFollows DEF Following

(* Where break and continue stand directly in their loops, a branch loses  *)
(* nothing.                                                                *)
LEMMA JumpLosesNothing ==
  ASSUME IInv, RunInv, ~AnyDepth, Branch
  PROVE  /\ NotIn(Kept(dest')) = {}
         /\ pending' = pending
         /\ leaving # 0 => ~IsIn(leaving, Kept(dest'))
         /\ \A i \in DOMAIN pending : IsIn(pending[i].scope, Kept(dest'))
<1>1. PICK en, ex : Following(en, ex)
  BY DEF RunInv
<1>2. Sound(code, en, ex) /\ Follows(en, ex)
  BY <1>1 DEF Following
<1>3. /\ Edge(code, en, ex, at, dest')
      /\ pending = ex[at].pend /\ leaving = ex[at].leav
      /\ pending' = en[dest'] /\ Kept(dest') = Stays(code, dest')
      /\ NotIn(Kept(dest')) = Len(en[dest']) + 1 .. Len(pending)
  BY <1>2, BranchFollows
<1>4. pending' = pending /\ (leaving # 0 => ~IsIn(leaving, Kept(dest')))
  BY <1>3 DEF Edge
<1>5. pending \in Seq(Entry)
  BY <1>2, PlaceFacts DEF Branch, AtTerm
<1>6. Len(en[dest']) = Len(pending) /\ Len(pending) \in Nat
  BY <1>3, <1>4, <1>5, LenProperties
<1>7. Len(en[dest']) + 1 .. Len(pending) = {}
  BY <1>6
<1>8. NotIn(Kept(dest')) = {}
  BY <1>3, <1>7
<1>9. \A i \in DOMAIN pending : IsIn(pending[i].scope, Kept(dest'))
  BY <1>8 DEF NotIn, InScope, IsIn
<1>10. QED
  BY <1>4, <1>8, <1>9

(* The scopes that stay open at a block are among those of its path.       *)
LEMMA StaysInside ==
  ASSUME NEW c, NEW b, c[b].path \in Seq(Nat), c[b].path # <<>>,
         NEW s, IsIn(s, Stays(c, b))
  PROVE  IsIn(s, c[b].path)
<1> DEFINE p == c[b].path
<1>1. /\ DOMAIN Front(p) = 1 .. Len(p) - 1 /\ DOMAIN p = 1 .. Len(p)
      /\ Len(p) \in Nat
      /\ \A i \in 1 .. Len(p) - 1 : Front(p)[i] = p[i]
  BY PopFacts, FrontLast
<1>2. CASE Stays(c, b) = p
  BY <1>2
<1>3. CASE Stays(c, b) = Front(p)
  <2>1. PICK j \in DOMAIN Front(p) : Front(p)[j] = s
    BY <1>3 DEF IsIn
  <2>2. j \in 1 .. Len(p) - 1
    BY <1>1, <2>1
  <2>3. Front(p)[j] = p[j]
    BY <1>1, <2>2
  <2>4. j \in DOMAIN p
    BY <1>1, <2>2
  <2>5. QED
    BY <2>1, <2>3, <2>4 DEF IsIn
<1>4. QED
  BY <1>2, <1>3 DEF Stays

-----------------------------------------------------------------------------
(* The run implements block scoped defers.                                 *)

(* A move between scopes, or none.                                         *)
LEMMA MoveOrStay ==
  ASSUME pending' = pending, ran' = ran, leaving' = 0,
         \A i \in DOMAIN pending : IsIn(pending[i].scope, CurrentPath'),
         leaving # 0 => ~IsIn(leaving, CurrentPath'),
         CurrentPath' = CurrentPath => leaving = 0
  PROVE  [Scopes!Next]_(Scopes!scopeVars)
<1>1. CASE CurrentPath' = CurrentPath
  BY <1>1 DEF Scopes!scopeVars
<1>2. CASE CurrentPath' # CurrentPath
  <2>1. \A i \in DOMAIN pending : Scopes!OpenIn(pending[i].scope, CurrentPath')
    BY DEF IsIn, Scopes!OpenIn
  <2>2. ~Scopes!OpenIn(leaving, CurrentPath') \/ leaving = 0
    BY DEF IsIn, Scopes!OpenIn
  <2>3. Scopes!Move
    BY <1>2, <2>1, <2>2 DEF Scopes!Move
  <2>4. QED
    BY <2>3 DEF Scopes!Next
<1>3. QED
  BY <1>1, <1>2

(* A call opens its outermost scopes.                                      *)
LEMMA CallMoves ==
  ASSUME IInv, RunInv, Call
  PROVE  [Scopes!Next]_(Scopes!scopeVars)
<1>1. at = 0 /\ dest = 0 /\ pending' = pending /\ leaving' = leaving /\ ran' = ran
  BY DEF Call
<1>2. PICK en, ex : Following(en, ex)
  BY DEF RunInv
<1>3. Idle
  BY <1>1, <1>2 DEF Following, Follows, Branching, InBlock
<1>4. pending = <<>> /\ leaving = 0
  BY <1>3 DEF Idle
<1>5. DOMAIN pending = {}
  BY <1>4, EmptySeq
<1>6. QED
  BY <1>1, <1>4, <1>5, MoveOrStay

(* A block begins: its scope is entered, if it opens one.                  *)
LEMMA ArriveMoves ==
  ASSUME IInv, RunInv, Arrive
  PROVE  [Scopes!Next]_(Scopes!scopeVars)
<1>1. /\ dest # 0 /\ at' = dest /\ dest' = 0 /\ code' = code
      /\ pending' = pending /\ leaving' = leaving /\ ran' = ran
  BY DEF Arrive, vars
<1>2. PICK en, ex : Following(en, ex)
  BY DEF RunInv
<1>3. Branching(en) /\ Sound(code, en, ex)
  BY <1>1, <1>2 DEF Following, Follows, Idle, InBlock
<1>4. /\ dest \in DOMAIN code /\ leaving = 0
      /\ \A i \in DOMAIN pending : IsIn(pending[i].scope, Stays(code, dest))
  BY <1>3 DEF Branching
<1>5. code[dest].path \in Seq(Nat) /\ code[dest].path # <<>>
  BY <1>3, <1>4, RunFacts
<1>6. \A i \in DOMAIN pending : IsIn(pending[i].scope, code[dest].path)
  BY <1>4, <1>5, StaysInside
<1>7. CurrentPath' = code[dest].path
  BY <1>1 DEF CurrentPath
<1>8. QED
  BY <1>1, <1>4, <1>6, <1>7, MoveOrStay

(* A branch leaves scopes, none of which has anything waiting.             *)
LEMMA BranchMoves ==
  ASSUME IInv, RunInv, ~AnyDepth, Branch
  PROVE  [Scopes!Next]_(Scopes!scopeVars)
<1>1. /\ at # 0 /\ dest = 0 /\ dest' \in code[at].term.to /\ code' = code /\ at' = at
      /\ leaving' = 0 /\ ran' = ran
  BY DEF Branch, AtTerm, vars
<1>2. PICK en, ex : Following(en, ex)
  BY DEF RunInv
<1>3. Sound(code, en, ex) /\ Follows(en, ex)
  BY <1>2 DEF Following
<1>4. at \in DOMAIN code /\ (leaving # 0 => IsIn(leaving, code[at].path))
  BY <1>1, <1>3, PlaceFacts
<1>5. dest' # 0
  BY <1>1, <1>3, <1>4, RunFacts
<1>6. CurrentPath = code[at].path
  BY <1>1 DEF CurrentPath
<1>7. CurrentPath' = Kept(dest')
  BY <1>1, <1>5 DEF CurrentPath, Kept
<1>8. /\ pending' = pending
      /\ leaving # 0 => ~IsIn(leaving, Kept(dest'))
      /\ \A i \in DOMAIN pending : IsIn(pending[i].scope, Kept(dest'))
  BY JumpLosesNothing
<1>9. QED
  BY <1>1, <1>4, <1>6, <1>7, <1>8, MoveOrStay

(* A return leaves all scopes.                                             *)
LEMMA ReturnMoves ==
  ASSUME IInv, RunInv, Return
  PROVE  [Scopes!Next]_(Scopes!scopeVars)
<1>1. /\ at # 0 /\ dest = 0 /\ at' = 0 /\ dest' = dest /\ pending' = <<>>
      /\ leaving' = 0 /\ ran' = ran
  BY DEF Return, AtTerm
<1>2. PICK en, ex : Following(en, ex)
  BY DEF RunInv
<1>3. Sound(code, en, ex) /\ Follows(en, ex)
  BY <1>2 DEF Following
<1>4. pending = <<>>
  BY <1>3, ReturnFollows
<1>5. at \in DOMAIN code
  BY <1>1, <1>3, PlaceFacts
<1>6. code[at].path # <<>>
  BY <1>3, <1>5, RunFacts
<1>7. CurrentPath = code[at].path /\ CurrentPath' = <<>>
  BY <1>1 DEF CurrentPath
<1>8. DOMAIN <<>> = {}
  BY EmptySeq
<1>9. ~IsIn(leaving, <<>>)
  BY <1>8 DEF IsIn
<1>10. QED
  BY <1>1, <1>4, <1>6, <1>7, <1>8, <1>9, MoveOrStay

(* A defer registers with the innermost open scope.                        *)
LEMMA RegisterRegisters ==
  ASSUME IInv, RunInv, Register
  PROVE  [Scopes!Next]_(Scopes!scopeVars)
<1> DEFINE d == code[at].ins[ip].d
           p == code[at].path
<1>1. /\ at # 0 /\ dest = 0 /\ at' = at /\ dest' = dest /\ code' = code
      /\ pending' = Append(pending, [d |-> d, scope |-> Last(p)])
      /\ leaving' = leaving /\ ran' = ran
  BY DEF Register, AtInstr, vars
<1>2. PICK en, ex : Following(en, ex)
  BY DEF RunInv
<1>3. Sound(code, en, ex) /\ Follows(en, ex)
  BY <1>2 DEF Following
<1>4. leaving = 0 /\ d \in 1 .. Budget
  BY <1>3, RegisterFollows
<1>5. at \in DOMAIN code
  BY <1>1, <1>3, PlaceFacts
<1>6. p \in Seq(Nat) /\ p # <<>>
  BY <1>3, <1>5, RunFacts
<1>7. Last(p) = p[Len(p)]
  BY <1>6, PopFacts
<1>8. CurrentPath = p /\ CurrentPath' = p
  BY <1>1 DEF CurrentPath
<1> HIDE DEF d, p
<1>9. Scopes!Register
  BY <1>1, <1>4, <1>6, <1>7, <1>8 DEF Scopes!Register
<1>10. QED
  BY <1>9 DEF Scopes!Next

(* A deferred call is the newest expression that waits.                    *)
LEMMA RunRuns ==
  ASSUME IInv, RunInv, RunDefer
  PROVE  [Scopes!Next]_(Scopes!scopeVars)
<1>1. at # 0 /\ dest = 0 /\ at' = at /\ dest' = dest /\ code' = code
  BY DEF RunDefer, AtInstr, vars
<1>2. PICK en, ex : Following(en, ex)
  BY DEF RunInv
<1>3. Sound(code, en, ex) /\ Follows(en, ex)
  BY <1>2 DEF Following
<1>4. /\ pending # <<>>
      /\ ran' = [d |-> Last(pending).d, due |-> TRUE]
      /\ pending' = Front(pending)
      /\ leaving' = Last(pending).scope
  BY <1>3, RunFollows
<1>5. Last(pending) = pending[Len(pending)]
      /\ Front(pending) = SubSeq(pending, 1, Len(pending) - 1)
  BY DEF Last, Front
<1>6. CurrentPath' = CurrentPath
  BY <1>1 DEF CurrentPath
<1>7. Scopes!Run
  BY <1>4, <1>5, <1>6 DEF Scopes!Run
<1>8. QED
  BY <1>7 DEF Scopes!Next

(* Every step.                                                             *)
LEMMA ExecNextScopes ==
  ASSUME IInv, RunInv, ~AnyDepth, [ExecNext]_execVars
  PROVE  [Scopes!Next]_(Scopes!scopeVars)
<1>1. CASE Generate
  <2>1. CASE frames # <<>>
    <3>1. at = 0 /\ dest = 0
      BY <2>1 DEF RunInv, Idle
    <3>2. CurrentPath = <<>> /\ CurrentPath' = <<>> /\ UNCHANGED run
      BY <1>1, <3>1 DEF Generate, run, CurrentPath
    <3>3. QED
      BY <3>2 DEF Scopes!scopeVars, run
  <2>2. Next => frames # <<>>
    BY DEF Next, TryStmt, ReturnStmt, ReturnTryStmt, DeferStmt, BreakStmt, ContinueStmt,
         JumpStmt, IfStmt, IfElseIfStmt, ElseIf, WhileStmt, LoopStmt, UnsafeStmt,
         LoopOrUnsafe, ForStmt, EndThenElse, EndThenElseIf, EndThen, EndElse,
         EndElseIf, EndWhile, EndLoop, EndUnsafe, EndLoopOrUnsafe, EndFor, EndBody,
         LeaveBlock, AtStmt
  <2>3. QED
    BY <1>1, <2>1, <2>2 DEF Generate
<1>2. CASE Done \/ UNCHANGED execVars
  BY <1>2 DEF Done, execVars, Scopes!scopeVars, CurrentPath, Kept
<1>3. QED
  BY <1>1, <1>2, CallMoves, RegisterRegisters, RunRuns, BranchMoves, ArriveMoves,
     ReturnMoves DEF ExecNext

-----------------------------------------------------------------------------
(* The results.                                                            *)

WithinLimits == []RoomKept /\ [][DefersKept]_vars

EInv == IInv /\ Paired(loops, frames) /\ RunInv

(* The emission goes on below a run.                                       *)
LEMMA ExecIsNext ==
  ASSUME [ExecNext]_execVars
  PROVE  [Next]_vars
BY DEF ExecNext, Generate, Call, Register, RunDefer, AtInstr, AtTerm, Arrive, Branch,
       Return, Done, execVars, vars

(* The invariant before anything is emitted.                               *)
LEMMA ExecInitEInv ==
  ASSUME ExecInit, RoomKept
  PROVE  EInv
<1>1. Init
  BY DEF ExecInit
<1>2. QED
  BY <1>1, InitIInv, InitPaired, ExecInitRuns DEF EInv

(* Every step keeps the invariant.                                         *)
LEMMA ExecNextEInv ==
  ASSUME EInv, RoomKept, RoomKept', [DefersKept]_vars, NoReturnTry, [ExecNext]_execVars
  PROVE  EInv'
<1>1. IInv /\ Paired(loops, frames) /\ RunInv /\ [Next]_vars
  BY ExecIsNext DEF EInv
<1>2. IInv' /\ Final
  BY <1>1, NextIInv
<1>3. LoopsHaveRoom'
  BY DEF RoomKept
<1>4. Paired(loops', frames')
  BY <1>1, <1>2, <1>3, NextPaired
<1>5. RunInv'
  BY <1>1, <1>2, ExecNextRuns
<1>6. QED
  BY <1>2, <1>4, <1>5 DEF EInv

(* In every function within LG's limits, what is emitted stays typed and   *)
(* its run follows the typing.                                             *)
THEOREM RunsAreTyped ==
  ASSUME NoReturnTry
  PROVE  ExecSpec /\ WithinLimits => []EInv
<1>1. ExecInit /\ RoomKept => EInv
  BY ExecInitEInv
<1>2. EInv /\ RoomKept /\ RoomKept' /\ [DefersKept]_vars /\ [ExecNext]_execVars => EInv'
  BY ExecNextEInv
<1>3. QED
  BY <1>1, <1>2, PTL DEF ExecSpec, WithinLimits

(* No emitted call runs a deferred expression that does not wait, in any   *)
(* function within LG's limits without `return f()?': breaks and continues *)
(* may stand at any depth.                                                 *)
THEOREM RunsDue ==
  ASSUME NoReturnTry
  PROVE  ExecSpec /\ WithinLimits => []RunsAreDue
<1>1. EInv => RunsAreDue
  BY DEF EInv, RunInv, Following, Follows, RunsAreDue
<1>2. QED
  BY <1>1, RunsAreTyped, PTL

(* Whatever a break or continue leaves unrun belongs to a block further    *)
(* out than the one it stands in (lg_emit_scope_defers).                   *)
THEOREM JumpsRunOwn ==
  ASSUME NoReturnTry
  PROVE  ExecSpec /\ WithinLimits => JumpsRunOwnBlock
<1>1. EInv /\ [ExecNext]_execVars => [LosesOuterOnly]_execVars
  BY JumpLoses DEF EInv
<1>2. QED
  BY <1>1, RunsAreTyped, PTL DEF ExecSpec, JumpsRunOwnBlock

(* A return, written or made by `?', has run all that was registered, also *)
(* after breaks and continues further up (lg_emit_defers_range from 0).    *)
THEOREM ReturnsRun ==
  ASSUME NoReturnTry
  PROVE  ExecSpec /\ WithinLimits => ReturnsRunAll
<1>1. EInv /\ [ExecNext]_execVars => [~over /\ over' => pending = <<>>]_execVars
  BY ReturnHasRun DEF EInv
<1>2. QED
  BY <1>1, RunsAreTyped, PTL DEF ExecSpec, ReturnsRunAll

(* Where break and continue stand directly in their loops, every branch    *)
(* out of blocks has run all their defers: what the comment "defers        *)
(* already emitted" in LLVMGen says of every function.                     *)
THEOREM StructuredJumpsRunAll ==
  ASSUME NoReturnTry, ~AnyDepth
  PROVE  ExecSpec /\ WithinLimits => LeftScopesAreDone
<1>1. EInv /\ [ExecNext]_execVars
        => [dest = 0 /\ dest' # 0 /\ at # 0 => NotIn(Kept(dest')) = {}]_execVars
  <2> SUFFICES ASSUME EInv, [ExecNext]_execVars, dest = 0, dest' # 0, at # 0
               PROVE  NotIn(Kept(dest')) = {}
    OBVIOUS
  <2>1. Branch
    BY DEF ExecNext, Generate, run, Call, Register, RunDefer, AtInstr, Arrive, Return,
           Done, execVars
  <2>2. QED
    BY <2>1, JumpLosesNothing DEF EInv
<1>2. QED
  BY <1>1, RunsAreTyped, PTL DEF ExecSpec, LeftScopesAreDone

(* And the emitted code implements block scoped defers: what is registered *)
(* runs exactly once, newest first, when its block is left.                *)
THEOREM CodeImplementsScopes ==
  ASSUME NoReturnTry, ~AnyDepth
  PROVE  ExecSpec /\ WithinLimits => ImplementsScopes
<1>1. ExecInit => Scopes!Init
  BY DEF ExecInit, Scopes!Init, CurrentPath
<1>2. EInv /\ [ExecNext]_execVars => [Scopes!Next]_(Scopes!scopeVars)
  BY ExecNextScopes DEF EInv
<1>3. QED
  BY <1>1, <1>2, RunsAreTyped, PTL DEF ExecSpec, ImplementsScopes, Scopes!Spec

=============================================================================
