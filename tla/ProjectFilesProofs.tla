------------------------- MODULE ProjectFilesProofs -------------------------
(***************************************************************************)
(* What holds of the commands of `night' for every directory, command line *)
(* and text: what exists stays in directories, `night run' executes what   *)
(* it has built, and each command keeps its promise.                       *)
(***************************************************************************)
EXTENDS ProjectFiles, SequenceLemmas

(***************************************************************************)
(* Paths: what At does to the parts of a path, from its first to its last. *)
(***************************************************************************)

(* The i-th part put on what g has made of those before it.                *)
AtPart(p, g, i) ==
  IF i = 0 THEN <<>>
  ELSE IF p[i] = Here THEN g[i - 1] ELSE Append(g[i - 1], p[i])

(* g is what At finds for the first n parts of p.                          *)
AtUpTo(p, n, g) == \A i \in 0 .. n : g[i] = AtPart(p, g, i)

(* There is such a g for the whole path: were there none, there would be a *)
(* shortest beginning without one.                                         *)
LEMMA AtExists ==
  ASSUME NEW p \in Paths
  PROVE  \E g \in [0 .. Len(p) -> Paths] : AtUpTo(p, Len(p), g)
<1> DEFINE bad == {n \in 0 .. Len(p) : ~\E g \in [0 .. n -> Paths] : AtUpTo(p, n, g)}
<1>1. Len(p) \in Nat /\ \A i \in 1 .. Len(p) : p[i] \in Names
  BY ElementOfSeq, LenProperties DEF Paths
<1>2. SUFFICES ASSUME bad # {}
               PROVE  FALSE
  BY <1>1
<1>3. PICK n \in bad : \A k \in bad : n <= k
  <2>1. bad \subseteq Nat
    BY <1>1
  <2>2. QED
    BY <1>2, <2>1, LeastIn
<1>4. n \in 0 .. Len(p) /\ ~\E g \in [0 .. n -> Paths] : AtUpTo(p, n, g)
  OBVIOUS
<1>5. n # 0
  <2>1. SUFFICES ASSUME n = 0
                 PROVE  FALSE
    OBVIOUS
  <2>2. <<>> \in Paths
    BY DEF Paths
  <2> DEFINE e == [i \in 0 .. 0 |-> <<>>]
  <2>3. e \in [0 .. 0 -> Paths] /\ AtUpTo(p, 0, e)
    BY <2>2 DEF AtUpTo, AtPart
  <2>4. QED
    BY <1>4, <2>1, <2>3
<1>6. PICK g \in [0 .. n - 1 -> Paths] : AtUpTo(p, n - 1, g)
  <2>1. n - 1 \in 0 .. Len(p) /\ ~(n <= n - 1)
    BY <1>1, <1>4, <1>5
  <2>2. n - 1 \notin bad
    BY <1>3, <2>1
  <2>3. QED
    BY <2>1, <2>2
<1> HIDE DEF bad
<1>7. n \in 1 .. Len(p) /\ n - 1 \in Nat /\ n \in Nat
  BY <1>1, <1>4, <1>5
<1> DEFINE h == [i \in 0 .. n |-> IF i = n THEN AtPart(p, g, n) ELSE g[i]]
<1>8. \A i \in 0 .. n - 1 : g[i] = AtPart(p, g, i)
  BY <1>6 DEF AtUpTo
<1>9. AtPart(p, g, n) \in Paths
  <2>1. g[n - 1] \in Paths /\ p[n] \in Names
    BY <1>1, <1>7
  <2>2. Append(g[n - 1], p[n]) \in Paths
    BY <2>1, AppendProperties DEF Paths
  <2>3. QED
    BY <1>7, <2>1, <2>2 DEF AtPart
<1>10. h \in [0 .. n -> Paths]
  BY <1>7, <1>8, <1>9
<1>11. ASSUME NEW i \in 0 .. n
       PROVE  h[i] = AtPart(p, h, i)
  <2>1. i # 0 => h[i - 1] = g[i - 1]
    BY <1>7
  <2> HIDE DEF h
  <2>2. AtPart(p, h, i) = AtPart(p, g, i)
    BY <2>1 DEF AtPart
  <2>3. h[i] = AtPart(p, g, i)
    <3>1. i # n => i \in 0 .. n - 1
      BY <1>7
    <3>2. QED
      BY <1>8, <3>1 DEF h
  <2>4. QED
    BY <2>2, <2>3
<1>12. AtUpTo(p, n, h)
  BY <1>11 DEF AtUpTo
<1>13. QED
  BY <1>4, <1>10, <1>12

(* And only one, whatever stands behind: two that differ would differ at a *)
(* first part.                                                             *)
LEMMA AtUnique ==
  ASSUME NEW p, NEW q, NEW m \in Nat, NEW n \in Nat, n <= m, NEW g, NEW h,
         AtUpTo(p, m, g), AtUpTo(q, n, h),
         \A i \in 1 .. n : p[i] = q[i]
  PROVE  \A i \in 0 .. n : g[i] = h[i]
<1> DEFINE bad == {i \in 0 .. n : g[i] # h[i]}
<1>1. SUFFICES ASSUME bad # {}
               PROVE  FALSE
  OBVIOUS
<1>2. PICK k \in bad : \A i \in bad : k <= i
  <2>1. bad \subseteq Nat
    OBVIOUS
  <2>2. QED
    BY <1>1, <2>1, LeastIn
<1>3. k \in 0 .. n /\ g[k] # h[k] /\ \A i \in 0 .. n : g[i] # h[i] => k <= i
  BY <1>2
<1>4. k # 0 => g[k - 1] = h[k - 1]
  BY <1>3
<1>5. g[k] = AtPart(p, g, k) /\ h[k] = AtPart(q, h, k)
  BY <1>3 DEF AtUpTo
<1>6. AtPart(p, g, k) = AtPart(q, h, k)
  BY <1>3, <1>4 DEF AtPart
<1>7. QED
  BY <1>3, <1>5, <1>6

(* At is the last value of that function.                                  *)
LEMMA AtIs ==
  ASSUME NEW p \in Paths
  PROVE  \E g \in [0 .. Len(p) -> Paths] : AtUpTo(p, Len(p), g) /\ At(p) = g[Len(p)]
<1> DEFINE F(g) == [i \in 0 .. Len(p) |->
                      IF i = 0 THEN <<>>
                      ELSE IF p[i] = Here THEN g[i - 1] ELSE Append(g[i - 1], p[i])]
           a == CHOOSE g : g = F(g)
<1>1. At(p) = a[Len(p)]
  BY DEF At
<1>2. PICK g \in [0 .. Len(p) -> Paths] : AtUpTo(p, Len(p), g)
  BY AtExists
<1>3. g = F(g)
  <2>1. \A i \in 0 .. Len(p) : g[i] = AtPart(p, g, i)
    BY <1>2 DEF AtUpTo
  <2>2. \A i \in 0 .. Len(p) : F(g)[i] = g[i]
    BY <2>1 DEF AtPart
  <2>3. QED
    BY <2>2
<1>4. a = F(a)
  BY <1>3
<1> HIDE DEF a
<1>5. AtUpTo(p, Len(p), a)
  BY <1>4 DEF AtUpTo, AtPart
<1>6. Len(p) \in Nat
  BY LenProperties DEF Paths
<1>7. a[Len(p)] = g[Len(p)]
  <2>1. \A i \in 0 .. Len(p) : a[i] = g[i]
    BY <1>2, <1>5, <1>6, AtUnique
  <2>2. QED
    BY <1>6, <2>1
<1>8. QED
  BY <1>1, <1>2, <1>7

(* What the models ask of At: a path for a path, and one more name unless  *)
(* it is a dot.                                                            *)
LEMMA AtFacts ==
  ASSUME NEW p \in Paths
  PROVE  /\ At(p) \in Paths
         /\ p = <<>> => At(p) = <<>>
<1>1. PICK g \in [0 .. Len(p) -> Paths] : AtUpTo(p, Len(p), g) /\ At(p) = g[Len(p)]
  BY AtIs
<1>2. Len(p) \in Nat
  BY LenProperties DEF Paths
<1>3. At(p) \in Paths
  BY <1>1, <1>2
<1>4. ASSUME p = <<>>
      PROVE  At(p) = <<>>
  <2>1. Len(p) = 0 /\ 0 \in 0 .. 0
    BY <1>4
  <2>2. QED
    BY <1>1, <2>1 DEF AtUpTo, AtPart
<1>5. QED
  BY <1>3, <1>4

(* One more name leads on, unless it is a dot.                             *)
LEMMA AtAppend ==
  ASSUME NEW p \in Paths, NEW n \in Names
  PROVE  At(Append(p, n)) = IF n = Here THEN At(p) ELSE Append(At(p), n)
<1> DEFINE q == Append(p, n)
<1>1. /\ q \in Paths /\ Len(p) \in Nat /\ Len(q) = Len(p) + 1
      /\ q[Len(p) + 1] = n /\ \A i \in 1 .. Len(p) : q[i] = p[i]
  BY PushFacts DEF Paths
<1> HIDE DEF q
<1>2. PICK g : AtUpTo(q, Len(q), g) /\ At(q) = g[Len(q)]
  BY <1>1, AtIs
<1>3. PICK h : AtUpTo(p, Len(p), h) /\ At(p) = h[Len(p)]
  BY AtIs
<1>4. g[Len(p)] = h[Len(p)]
  <2>1. Len(p) <= Len(q) /\ Len(q) \in Nat /\ Len(p) \in 0 .. Len(p)
    BY <1>1
  <2>2. AtUpTo(q, Len(q), g) /\ AtUpTo(p, Len(p), h)
    BY <1>2, <1>3
  <2>3. Len(p) \in Nat /\ \A i \in 1 .. Len(p) : q[i] = p[i]
    BY <1>1
  <2>4. \A i \in 0 .. Len(p) : g[i] = h[i]
    BY ONLY <2>1, <2>2, <2>3, AtUnique
  <2>5. QED
    BY <2>1, <2>4
<1>5. g[Len(q)] = AtPart(q, g, Len(q))
  BY <1>1, <1>2 DEF AtUpTo
<1>6. QED
  BY <1>1, <1>2, <1>3, <1>4, <1>5 DEF AtPart, q

(* The same for the path without its last name.                            *)
LEMMA AtFront ==
  ASSUME NEW p \in Paths, p # <<>>
  PROVE  /\ Front(p) \in Paths /\ Last(p) \in Names /\ p = Append(Front(p), Last(p))
         /\ At(p) = IF Last(p) = Here THEN At(Front(p)) ELSE Append(At(Front(p)), Last(p))
<1>1. /\ Front(p) \in Paths /\ Last(p) \in Names /\ Len(p) \in Nat \ {0}
      /\ Len(Front(p)) = Len(p) - 1 /\ Last(p) = p[Len(p)]
      /\ \A i \in 1 .. Len(p) - 1 : Front(p)[i] = p[i]
  BY FrontLast DEF Paths
<1>2. p = Append(Front(p), Last(p))
  <2> DEFINE q == Append(Front(p), Last(p))
  <2>1. /\ q \in Seq(Names) /\ Len(q) = Len(Front(p)) + 1
        /\ q[Len(Front(p)) + 1] = Last(p)
        /\ \A i \in 1 .. Len(Front(p)) : q[i] = Front(p)[i]
    BY <1>1, PushFacts DEF Paths
  <2> HIDE DEF q
  <2>2. Len(q) = Len(p) /\ q[Len(p)] = p[Len(p)] /\ \A i \in 1 .. Len(p) - 1 : q[i] = p[i]
    BY <1>1, <2>1
  <2>3. \A i \in 1 .. Len(p) : q[i] = p[i]
    BY <1>1, <2>2
  <2>4. p = q
    BY <2>1, <2>2, <2>3, SeqEqual DEF Paths
  <2>5. QED
    BY <2>4 DEF q
<1>3. QED
  BY <1>1, <1>2, AtAppend


(***************************************************************************)
(* Contents and trees.                                                     *)
(***************************************************************************)

(* A directory without some paths is as it was elsewhere.                  *)
LEMMA WithoutFacts ==
  ASSUME NEW d, NEW ps
  PROVE  /\ DOMAIN Without(d, ps) = DOMAIN d \ ps
         /\ \A q \in DOMAIN d \ ps : Without(d, ps)[q] = d[q]
         /\ Without(d, ps) = [q \in DOMAIN Without(d, ps) |-> Without(d, ps)[q]]
BY DEF Without

(* The parts of IsTree.                                                    *)
LEMMA TreeFacts ==
  ASSUME NEW d, IsTree(d)
  PROVE  /\ DOMAIN d \subseteq Paths
         /\ d = [p \in DOMAIN d |-> d[p]]
         /\ Nothing \in DOMAIN d /\ d[Nothing] = Dir
         /\ \A p \in DOMAIN d \ {Nothing} : Front(p) \in DOMAIN d /\ d[Front(p)] = Dir
         /\ \A p \in DOMAIN d : IsContent(d[p])
BY DEF IsTree

(* Something is put into a directory that is there, and not in the place   *)
(* of a directory.                                                         *)
LEMMA WithTree ==
  ASSUME NEW d, IsTree(d), NEW p \in Paths, NEW x, IsContent(x), p # Nothing,
         Front(p) \in DOMAIN d, d[Front(p)] = Dir,
         p \in DOMAIN d => d[p] # Dir
  PROVE  IsTree(With(d, p, x))
<1> DEFINE e == With(d, p, x)
<1>1. /\ DOMAIN e = DOMAIN d \cup {p} /\ e[p] = x
      /\ \A q \in DOMAIN d : q # p => e[q] = d[q]
      /\ e = [q \in DOMAIN e |-> e[q]]
  <2>1. DOMAIN e = DOMAIN d \cup {p} /\ e[p] = x /\ \A q \in DOMAIN d : q # p => e[q] = d[q]
    BY DEF With
  <2>2. e = [q \in DOMAIN e |-> e[q]]
    BY DEF With
  <2>3. QED
    BY <2>1, <2>2
<1> HIDE DEF e
<1>2. /\ DOMAIN d \subseteq Paths
      /\ Nothing \in DOMAIN d /\ d[Nothing] = Dir
      /\ \A q \in DOMAIN d \ {Nothing} : Front(q) \in DOMAIN d /\ d[Front(q)] = Dir
      /\ \A q \in DOMAIN d : IsContent(d[q])
  BY TreeFacts
<1>3. ASSUME NEW q \in DOMAIN d, d[q] = Dir
      PROVE  q \in DOMAIN e /\ e[q] = Dir
  BY <1>1, <1>3
<1>4. \A q \in DOMAIN e \ {Nothing} : Front(q) \in DOMAIN e /\ e[Front(q)] = Dir
  BY <1>1, <1>2, <1>3
<1>5. \A q \in DOMAIN e : IsContent(e[q])
  BY <1>1, <1>2
<1>6. Nothing \in DOMAIN e /\ e[Nothing] = Dir
  BY <1>2, <1>3
<1>7. QED
  BY <1>1, <1>2, <1>4, <1>5, <1>6 DEF IsTree, e

(* What has nothing in it may be taken out.                                *)
LEMMA WithoutTree ==
  ASSUME NEW d, IsTree(d), NEW p, p # Nothing,
         \A q \in DOMAIN d \ {Nothing} : Front(q) # p
  PROVE  IsTree(Without(d, {p}))
<1> DEFINE e == Without(d, {p})
<1>1. /\ DOMAIN e = DOMAIN d \ {p}
      /\ \A q \in DOMAIN d \ {p} : e[q] = d[q]
      /\ e = [q \in DOMAIN e |-> e[q]]
  BY WithoutFacts
<1> HIDE DEF e
<1>2. /\ DOMAIN d \subseteq Paths
      /\ Nothing \in DOMAIN d /\ d[Nothing] = Dir
      /\ \A q \in DOMAIN d \ {Nothing} : Front(q) \in DOMAIN d /\ d[Front(q)] = Dir
      /\ \A q \in DOMAIN d : IsContent(d[q])
  BY TreeFacts
<1>3. \A q \in DOMAIN e \ {Nothing} : Front(q) \in DOMAIN e /\ e[Front(q)] = Dir
  BY <1>1, <1>2
<1>4. \A q \in DOMAIN e : IsContent(e[q])
  BY <1>1, <1>2
<1>5. Nothing \in DOMAIN e /\ e[Nothing] = Dir
  BY <1>1, <1>2
<1>6. QED
  BY <1>1, <1>2, <1>3, <1>4, <1>5 DEF IsTree, e

(* A file has nothing in it.                                               *)
LEMMA FileTree ==
  ASSUME NEW d, IsTree(d), NEW p, p \in DOMAIN d => d[p] # Dir
  PROVE  IsTree(Without(d, {p}))
<1>1. /\ Nothing \in DOMAIN d /\ d[Nothing] = Dir
      /\ \A q \in DOMAIN d \ {Nothing} : Front(q) \in DOMAIN d /\ d[Front(q)] = Dir
  BY TreeFacts
<1>2. p # Nothing /\ \A q \in DOMAIN d \ {Nothing} : Front(q) # p
  BY <1>1
<1>3. QED
  BY <1>2, WithoutTree

(* The names the program itself writes.                                    *)
LEMMA OwnNames ==
  /\ Here \in Names /\ <<"src">> \in Names /\ <<"night", "toml">> \in Names
  /\ <<"main", "afns">> \in Names /\ <<"llvm", "o">> \in Names /\ <<"rt", "c">> \in Names
BY DirsAssumption DEF OwnParts, Here, Names

(* The directory a path is written into is the one it stands in.           *)
LEMMA DirnameAt ==
  ASSUME NEW p \in Paths, p # Nothing
  PROVE  At(Dirname(p)) = At(Front(p))
<1>1. /\ Len(p) \in Nat \ {0} /\ Front(p) \in Paths /\ Len(Front(p)) = Len(p) - 1
      /\ Last(p) \in Names
  BY FrontLast DEF Paths, Nothing
<1>2. CASE Len(p) = 1
  <2>1. Front(p) = <<>>
    BY <1>1, <1>2, EmptySeq DEF Paths
  <2>2. Here \in Names
    BY OwnNames
  <2>3. <<>> \in Paths
    BY EmptySeq DEF Paths
  <2>4. <<Here>> = Append(<<>>, Here)
    <3>1. /\ Append(<<>>, Here) \in Seq(Names) /\ Len(Append(<<>>, Here)) = 1
          /\ Append(<<>>, Here)[1] = Here
      BY <2>2, <2>3, AppendProperties, EmptySeq DEF Paths
    <3>2. <<Here>> \in Seq(Names) /\ Len(<<Here>>) = 1 /\ <<Here>>[1] = Here
      <4> HIDE DEF Here
      <4>1. QED
        BY <2>2
    <3>3. \A i \in 1 .. 1 : <<Here>>[i] = Append(<<>>, Here)[i]
      BY <3>1, <3>2
    <3>4. QED
      BY <3>1, <3>2, <3>3, SeqEqual
  <2>5. At(<<Here>>) = At(<<>>)
    BY <2>2, <2>3, <2>4, AtAppend
  <2>6. QED
    BY <1>2, <2>1, <2>5 DEF Dirname
<1>3. CASE Len(p) # 1
  BY <1>3 DEF Dirname
<1>4. QED
  BY <1>2, <1>3

(* A write into a directory that is there: the path is no dot, and stands  *)
(* in that directory.                                                      *)
LEMMA WritePlace ==
  ASSUME NEW d, IsTree(d), NEW p \in Paths, p # Nothing,
         IsDir(d, Dirname(p)), ~IsDir(d, p)
  PROVE  /\ At(p) \in Paths /\ At(p) # Nothing
         /\ Front(At(p)) \in DOMAIN d /\ d[Front(At(p))] = Dir
         /\ At(p) \in DOMAIN d => d[At(p)] # Dir
         /\ Last(p) # Here
<1>1. /\ Front(p) \in Paths /\ Last(p) \in Names
      /\ At(p) = IF Last(p) = Here THEN At(Front(p)) ELSE Append(At(Front(p)), Last(p))
  BY AtFront DEF Nothing
<1>2. At(Front(p)) \in DOMAIN d /\ d[At(Front(p))] = Dir
  BY DirnameAt DEF IsDir, Exists
<1>3. At(p) = Append(At(Front(p)), Last(p)) /\ Last(p) # Here
  BY <1>1, <1>2 DEF IsDir, Exists
<1>4. At(Front(p)) \in Paths
  BY <1>1, AtFacts
<1>5. Front(At(p)) = At(Front(p)) /\ At(p) \in Paths /\ At(p) # <<>>
  BY <1>1, <1>3, <1>4, PopPush, PushFacts DEF Paths
<1>6. QED
  BY <1>2, <1>3, <1>5 DEF IsDir, Exists, Nothing

(* What is not there, with no file in the way, is nowhere in the tree.     *)
LEMMA Absent ==
  ASSUME NEW d, IsTree(d), NEW p \in Paths, p # Nothing, ~Exists(d, p), ~Blocked(d, p)
  PROVE  At(p) \notin DOMAIN d
<1> SUFFICES ASSUME At(p) \in DOMAIN d
             PROVE  FALSE
  OBVIOUS
<1>1. Last(p) = Here /\ d[At(p)] # Dir
  BY DEF Exists
<1>2. /\ Front(p) \in Paths /\ At(p) = At(Front(p))
  BY <1>1, AtFront DEF Nothing
<1>3. /\ Len(p) \in Nat \ {0} /\ Front(p) \in Paths /\ Len(Front(p)) = Len(p) - 1
  BY FrontLast DEF Paths, Nothing
<1>4. Front(p) # Nothing
  <2>1. At(Nothing) = Nothing
    BY EmptySeq, AtFacts DEF Paths, Nothing
  <2>2. QED
    BY <1>1, <1>2, <2>1, TreeFacts
<1>5. Len(p) - 1 \in 1 .. (Len(p) - 1)
  <2>1. Len(Front(p)) # 0
    BY <1>3, <1>4, EmptySeq DEF Paths, Nothing
  <2>2. QED
    BY <1>3, <2>1
<1>6. At(SubSeq(p, 1, Len(p) - 1)) \in DOMAIN d /\ d[At(SubSeq(p, 1, Len(p) - 1))] # Dir
  BY <1>1, <1>2 DEF Front
<1>7. QED
  BY <1>5, <1>6 DEF Blocked

(* A file is written where a file may be.                                  *)
LEMMA PutTree ==
  ASSUME NEW d, IsTree(d), NEW p \in Paths, p # Nothing, NEW x, IsContent(x),
         IsDir(d, Dirname(p)), ~IsDir(d, p)
  PROVE  IsTree(With(d, At(p), x))
BY WritePlace, WithTree

(* A file that is there is written again.                                  *)
LEMMA RefillTree ==
  ASSUME NEW d, IsTree(d), NEW p \in Paths, NEW x, IsContent(x), IsFile(d, p)
  PROVE  IsTree(With(d, At(p), x))
<1>1. At(p) \in DOMAIN d /\ d[At(p)] # Dir /\ At(p) \in Paths
  BY AtFacts DEF IsFile, Exists
<1>2. /\ At(p) # Nothing /\ Front(At(p)) \in DOMAIN d /\ d[Front(At(p))] = Dir
  BY <1>1, TreeFacts
<1>3. QED
  BY <1>1, <1>2, WithTree

(* remove does not take a directory that holds something.                  *)
LEMMA RemovedTree ==
  ASSUME NEW d, IsTree(d), NEW p \in Paths, p # Nothing,
         IsDir(d, p) => Last(p) # Here /\ ~\E q \in DOMAIN d : q # At(p) /\ IsPrefix(At(p), q)
  PROVE  IsTree(Without(d, {At(p)}))
<1>1. CASE ~IsDir(d, p)
  BY <1>1, FileTree DEF IsDir, Exists
<1>2. CASE IsDir(d, p)
  <2>1. /\ Front(p) \in Paths /\ Last(p) \in Names
        /\ At(p) = Append(At(Front(p)), Last(p))
    BY <1>2, AtFront DEF Nothing
  <2>2. At(p) # Nothing /\ At(p) \in Paths
    BY <2>1, AtFacts, PushFacts DEF Paths, Nothing
  <2>3. ASSUME NEW q \in DOMAIN d \ {Nothing}, Front(q) = At(p)
        PROVE  FALSE
    <3>1. q \in Paths /\ q # <<>>
      BY TreeFacts DEF Nothing
    <3>2. /\ Front(q) \in Paths /\ Len(q) \in Nat \ {0} /\ Len(Front(q)) = Len(q) - 1
          /\ \A i \in 1 .. Len(q) - 1 : Front(q)[i] = q[i]
      BY <3>1, FrontLast DEF Paths
    <3>3. Front(q) = SubSeq(q, 1, Len(Front(q)))
      BY <3>2 DEF Front
    <3>4. SubSeq(Front(q), 1, Len(Front(q))) = Front(q)
      BY <3>2, SubSeqFull DEF Paths
    <3>5. IsPrefix(Front(q), q)
      BY <3>2, <3>3, <3>4 DEF IsPrefix
    <3>6. q # Front(q)
      BY <3>2
    <3>7. QED
      BY <1>2, <2>3, <3>5, <3>6
  <2>4. QED
    BY <2>2, <2>3, WithoutTree
<1>3. QED
  BY <1>1, <1>2

(* What is left of a write that fell short is a content still.             *)
LEMMA ShortContent ==
  ASSUME NEW new, IsContent(new), new[1] # "dir", NEW x \in CutShort(new)
  PROVE  IsContent(x) /\ x # Dir
<1>1. CASE x = new
  BY <1>1 DEF IsContent, Dir
<1>2. CASE x = <<new[1], <<>>>>
  BY <1>2, EmptySeq DEF IsContent, Dir
<1>3. ASSUME new[1] = "toml", NEW s \in Seq(TomlLines), x = <<new[1], s>>
      PROVE  IsContent(x) /\ x # Dir
  <2>1. x[1] = "toml" /\ x[2] = s
    BY <1>3
  <2>2. x[1] \in Kinds
    BY <2>1 DEF Kinds
  <2>3. x # Dir
    BY <2>1 DEF Dir
  <2>4. QED
    BY <2>1, <2>2, <2>3 DEF IsContent
<1>4. ASSUME NEW n \in 0 .. Len(new[2]), new[1] = "toml"
      PROVE  /\ SubSeq(new[2], 1, n) \in Seq(TomlLines)
             /\ Append(SubSeq(new[2], 1, n), <<"broken", "other">>) \in Seq(TomlLines)
  <2>1. new[2] \in Seq(TomlLines)
    BY <1>4 DEF IsContent
  <2>2. SubSeq(new[2], 1, n) \in Seq(TomlLines)
    BY <2>1, PrefixFacts
  <2>3. <<"broken", "other">> \in {"section", "broken"} \X Sections
    BY DEF Sections
  <2>4. <<"broken", "other">> \in TomlLines
    BY <2>3 DEF TomlLines
  <2>5. QED
    BY <2>2, <2>4, AppendProperties
<1>5. ASSUME NEW s, x = <<new[1], s>>, new[1] # "toml"
      PROVE  IsContent(x) /\ x # Dir
  <2>1. x[1] = new[1]
    BY <1>5
  <2>2. QED
    BY <1>5, <2>1 DEF IsContent, Dir
<1>6. CASE \E n \in 0 .. Len(new[2]) : x = <<new[1], SubSeq(new[2], 1, n)>>
  <2>1. PICK n \in 0 .. Len(new[2]) : x = <<new[1], SubSeq(new[2], 1, n)>>
    BY <1>6
  <2>2. QED
    BY <1>3, <1>4, <1>5, <2>1
<1>7. CASE \E n \in IF new[1] = "toml" THEN 0 .. (Len(new[2]) - 1) ELSE {} :
             x = <<new[1], Append(SubSeq(new[2], 1, n), <<"broken", "other">>)>>
  <2>1. new[1] = "toml"
    BY <1>7
  <2>2. PICK n \in 0 .. (Len(new[2]) - 1) :
               x = <<new[1], Append(SubSeq(new[2], 1, n), <<"broken", "other">>)>>
    BY <1>7, <2>1
  <2>3. Len(new[2]) \in Nat
    BY <2>1, LenProperties DEF IsContent
  <2>4. n \in 0 .. Len(new[2])
    BY <2>3
  <2>5. QED
    BY <1>3, <1>4, <2>1, <2>2, <2>4
<1>8. QED
  BY <1>1, <1>2, <1>6, <1>7 DEF CutShort

(* A file may be written whole or not at all.                              *)
LEMMA ShortEnds ==
  ASSUME NEW new
  PROVE  new \in CutShort(new) /\ <<new[1], <<>>>> \in CutShort(new)
BY DEF CutShort


(***************************************************************************)
(* What a command's source and output are.                                 *)
(***************************************************************************)

(* A set of places in a sequence has a last one.                           *)
LEMMA MaxIn ==
  ASSUME NEW n \in Nat, NEW S, S \subseteq 1 .. n, S # {}
  PROVE  Max(S) \in S
<1> DEFINE T == {n - i : i \in S}
<1>1. T \subseteq Nat /\ T # {}
  <2>1. \A i \in S : n - i \in Nat
    OBVIOUS
  <2>2. T \subseteq Nat
    BY <2>1
  <2>3. T # {}
    OBVIOUS
  <2>4. QED
    BY <2>2, <2>3
<1>2. PICK j \in T : \A k \in T : j <= k
  BY <1>1, LeastIn
<1>3. PICK m \in S : j = n - m
  OBVIOUS
<1>4. ASSUME NEW i \in S
      PROVE  m >= i
  <2>1. j <= n - i
    BY <1>2
  <2>2. i \in 1 .. n /\ m \in 1 .. n
    OBVIOUS
  <2>3. QED
    BY <1>3, <2>1, <2>2
<1>5. QED
  BY <1>4 DEF Max

(* A key's value is the default or what one of its lines gives.            *)
LEMMA ValueFrom ==
  ASSUME NEW L, NEW lines \in Seq(L), NEW section, NEW key, NEW default
  PROVE  \/ Value(lines, section, key, default) = default
         \/ \E i \in DOMAIN lines :
              lines[i][1] = key /\ Value(lines, section, key, default) = lines[i][2]
<1> DEFINE given == {i \in DOMAIN lines : lines[i][1] = key /\ InSection(lines, i, section)}
<1>1. Value(lines, section, key, default) = IF given = {} THEN default ELSE lines[Max(given)][2]
  BY DEF Value
<1>2. Len(lines) \in Nat /\ given \subseteq 1 .. Len(lines)
  BY LenProperties
<1>3. CASE given = {}
  BY <1>1, <1>3
<1>4. CASE given # {}
  <2>1. Max(given) \in given
    BY <1>2, <1>4, MaxIn
  <2>2. QED
    BY <1>1, <1>4, <2>1
<1>5. QED
  BY <1>3, <1>4

(* The values that lines of a night.toml give.                             *)
LEMMA LineTypes ==
  ASSUME NEW l \in TomlLines
  PROVE  /\ l[1] = "name" => l[2] \in Names
         /\ l[1] \in {"entry", "output"} => l[2] \in Paths \ {Nothing}
<1>1. CASE l \in {"section", "broken"} \X Sections
  BY <1>1
<1>2. CASE l \in {"name"} \X Names
  BY <1>2
<1>3. CASE l \in {"entry", "output"} \X (Paths \ {Nothing})
  BY <1>3
<1>4. QED
  BY <1>1, <1>2, <1>3 DEF TomlLines

(* A project's entry and output are paths.                                 *)
LEMMA ConfigTypes ==
  ASSUME NEW d, IsTree(d), NEW root \in Paths, root # Nothing, Config(d, root).ok
  PROVE  /\ Config(d, root).entry \in Paths
         /\ Config(d, root).output \in Paths
<1> DEFINE toml == At(TomlFile(root))
           lines == Lines(d[toml])
           name == Value(lines, "package", "name", Last(root))
           entry == Value(lines, "build", "entry", <<<<"src">>, <<"main", "afns">>>>)
           output == Value(lines, "build", "output", <<name>>)
<1>1. toml \in DOMAIN d
  BY DEF Config, IsFile, Exists
<1>2. Config(d, root).entry = entry /\ Config(d, root).output = output
  BY DEF Config, IsFile, Exists
<1>3. lines \in Seq(TomlLines)
  <2>1. IsContent(d[toml])
    BY <1>1, TreeFacts
  <2>2. QED
    BY <2>1, EmptySeq DEF Lines, IsContent
<1> HIDE DEF lines
<1>4. \A i \in DOMAIN lines : lines[i] \in TomlLines
  BY <1>3, ElementOfSeq, LenProperties
<1>5. name \in Names
  <2>1. Last(root) \in Names
    BY FrontLast DEF Paths, Nothing
  <2>2. \/ name = Last(root)
        \/ \E i \in DOMAIN lines : lines[i][1] = "name" /\ name = lines[i][2]
    BY <1>3, ValueFrom
  <2>3. QED
    BY <1>4, <2>1, <2>2, LineTypes
<1> HIDE DEF name
<1>6. entry \in Paths
  <2>1. <<<<"src">>, <<"main", "afns">>>> \in Paths
    <3> DEFINE a == <<"src">>
               b == <<"main", "afns">>
    <3>1. a \in Names /\ b \in Names
      BY OwnNames
    <3> HIDE DEF a, b
    <3>2. <<a, b>> \in Seq(Names)
      BY <3>1
    <3>3. QED
      BY <3>2 DEF Paths, a, b
  <2>2. \/ entry = <<<<"src">>, <<"main", "afns">>>>
        \/ \E i \in DOMAIN lines : lines[i][1] = "entry" /\ entry = lines[i][2]
    BY <1>3, ValueFrom
  <2>3. QED
    BY <1>4, <2>1, <2>2, LineTypes
<1>7. output \in Paths
  <2>1. <<name>> \in Paths
    BY <1>5 DEF Paths
  <2>2. \/ output = <<name>>
        \/ \E i \in DOMAIN lines : lines[i][1] = "output" /\ output = lines[i][2]
    BY <1>3, ValueFrom
  <2>3. QED
    BY <1>4, <2>1, <2>2, LineTypes
<1>8. QED
  BY <1>2, <1>6, <1>7

(* What is given on a command line.                                        *)
LEMMA RootFacts ==
  ASSUME NEW c \in Commands
  PROVE  c.path \in Paths /\ c.out \in Paths /\ Root(c) \in Paths /\ Root(c) # Nothing
<1>1. c.path \in Paths /\ c.out \in Paths
  BY DirsAssumption
<1>2. <<Here>> \in Paths /\ <<Here>> # Nothing
  <2>1. Here \in Names
    BY OwnNames
  <2> HIDE DEF Here
  <2>2. <<Here>> \in Seq(Names) /\ <<Here>> # <<>>
    BY <2>1
  <2>3. QED
    BY <2>2 DEF Paths, Nothing
<1>3. QED
  BY <1>1, <1>2 DEF Root

(* A path followed by another is a path.                                   *)
LEMMA LongerPath ==
  ASSUME NEW p \in Paths, NEW q \in Paths, p # Nothing
  PROVE  p \o q \in Paths /\ p \o q # Nothing
<1>1. Len(p) \in Nat \ {0} /\ Len(q) \in Nat
  BY EmptySeq, LenProperties DEF Paths, Nothing
<1>2. p \o q \in Paths /\ Len(p \o q) = Len(p) + Len(q)
  BY ConcatProperties DEF Paths
<1>3. Len(p \o q) # 0
  BY <1>1, <1>2
<1>4. QED
  BY <1>2, <1>3, EmptySeq DEF Nothing

(* The source of a command that finds its project is a path.               *)
LEMMA SourceTypes ==
  ASSUME NEW d, IsTree(d), NEW c \in Commands, Resolves(d, c)
  PROVE  Source(d, c) \in Paths /\ Source(d, c) # Nothing
<1>1. c.path \in Paths /\ Root(c) \in Paths /\ Root(c) # Nothing
  BY RootFacts
<1>2. CASE InProject(d, c)
  <2>1. Config(d, Root(c)).entry \in Paths
    BY <1>1, <1>2, ConfigTypes DEF Resolves
  <2>2. QED
    BY <1>1, <1>2, <2>1, LongerPath DEF Source
<1>3. CASE ~InProject(d, c)
  BY <1>1, <1>3 DEF Source, InProject
<1>4. QED
  BY <1>2, <1>3

(* A path without its extension is a path.                                 *)
LEMMA StemTypes ==
  ASSUME NEW p \in Paths, p # Nothing
  PROVE  Stem(p) \in Paths /\ Stem(p) # Nothing
<1>1. Front(p) \in Paths /\ Last(p) \in Names
  BY FrontLast DEF Paths, Nothing
<1>2. Front(Last(p)) \in Names
  <2>1. CASE Last(p) = <<>>
    <3>1. Len(Last(p)) = 0
      BY <2>1, EmptySeq
    <3>2. Front(Last(p)) = <<>>
      BY <3>1, SubSeqEmpty DEF Front
    <3>3. QED
      BY <3>2, EmptySeq DEF Names
  <2>2. CASE Last(p) # <<>>
    BY <1>1, <2>2, FrontLast DEF Names
  <2>3. QED
    BY <2>1, <2>2
<1>3. Append(Front(p), Front(Last(p))) \in Paths /\ Append(Front(p), Front(Last(p))) # <<>>
  BY <1>1, <1>2, PushFacts DEF Paths
<1>4. QED
  BY <1>3 DEF Stem, Nothing

(* The output of a command that finds its project is a path.               *)
LEMMA OutputTypes ==
  ASSUME NEW d, IsTree(d), NEW c \in Commands, Resolves(d, c)
  PROVE  Output(d, c) \in Paths /\ Output(d, c) # Nothing
<1>1. c.path \in Paths /\ c.out \in Paths /\ Root(c) \in Paths /\ Root(c) # Nothing
  BY RootFacts
<1>2. CASE c.out # Nothing
  BY <1>1, <1>2 DEF Output
<1>3. CASE c.out = Nothing /\ InProject(d, c)
  <2>1. Config(d, Root(c)).output \in Paths
    BY <1>1, <1>3, ConfigTypes DEF Resolves
  <2>2. QED
    BY <1>1, <1>3, <2>1, LongerPath DEF Output
<1>4. CASE c.out = Nothing /\ ~InProject(d, c)
  <2>1. c.path # Nothing
    BY <1>4 DEF InProject
  <2>2. QED
    BY <1>1, <1>4, <2>1, StemTypes DEF Output
<1>5. QED
  BY <1>2, <1>3, <1>4

(* A file beside another is another, in the same directory.                *)
LEMMA BesideFacts ==
  ASSUME NEW p \in Paths, p # Nothing, NEW s \in Names, Len(s) = 2
  PROVE  /\ Beside(p, s) \in Paths /\ Beside(p, s) # Nothing
         /\ At(Beside(p, s)) # At(p)
         /\ At(Beside(p, s)) # At(Dirname(p))
<1> DEFINE D == At(Front(p))
           n == Last(p) \o s
<1>1. /\ Front(p) \in Paths /\ Last(p) \in Names
      /\ At(p) = IF Last(p) = Here THEN D ELSE Append(D, Last(p))
  <2>1. p # <<>>
    BY DEF Nothing
  <2>2. QED
    BY <2>1, AtFront
<1>2. /\ n \in Names /\ Len(n) = Len(Last(p)) + 2 /\ Len(Last(p)) \in Nat
  <2>1. Last(p) \in Seq(Parts) /\ s \in Seq(Parts)
    BY <1>1 DEF Names
  <2>2. n \in Seq(Parts) /\ Len(n) = Len(Last(p)) + Len(s) /\ Len(Last(p)) \in Nat
    BY ONLY <2>1, ConcatProperties, LenProperties
  <2>3. QED
    BY <2>2 DEF Names
<1>3. n # Last(p) /\ n # Here
  <2>1. Len(Here) = 1
    BY DEF Here
  <2>2. Len(n) # Len(Last(p)) /\ Len(n) # 1
    BY <1>2
  <2> HIDE DEF n, Here
  <2>3. QED
    BY <2>1, <2>2
<1>4. D \in Paths
  BY <1>1, AtFacts
<1> HIDE DEF n, D
<1>5. At(Append(Front(p), n)) = Append(D, n)
  BY <1>1, <1>2, <1>3, AtAppend DEF D
<1>6. Append(Front(p), n) \in Paths /\ Append(Front(p), n) # Nothing
  BY <1>1, <1>2, PushFacts DEF Paths, Nothing
<1>7. Append(D, n) # D
  BY <1>2, <1>4, PushFacts DEF Paths
<1>8. Append(D, n) # Append(D, Last(p))
  BY <1>1, <1>2, <1>3, <1>4, AppendInjective DEF Paths
<1>9. At(Dirname(p)) = D
  BY DirnameAt DEF D
<1>10. QED
  BY <1>1, <1>5, <1>6, <1>7, <1>8, <1>9 DEF Beside, n

(* Object and runtime stand beside the output, and are not it.             *)
LEMMA LitterPlaces ==
  ASSUME NEW p \in Paths, p # Nothing, NEW q \in {Object(p), Runtime(p)}
  PROVE  /\ q \in Paths /\ q # Nothing
         /\ At(q) # At(p) /\ At(q) # At(Dirname(p))
<1>1. \A a, b : Len(<<a, b>>) = 2
  OBVIOUS
<1>2. <<"llvm", "o">> \in Names /\ <<"rt", "c">> \in Names
  BY OwnNames
<1>3. QED
  BY <1>1, <1>2, BesideFacts DEF Object, Runtime

(* The directory of a path is a path.                                      *)
LEMMA DirnameTypes ==
  ASSUME NEW p \in Paths, p # Nothing
  PROVE  Dirname(p) \in Paths /\ Dirname(p) # Nothing
<1>1. /\ Len(p) \in Nat \ {0} /\ Front(p) \in Paths /\ Len(Front(p)) = Len(p) - 1
  BY FrontLast DEF Paths, Nothing
<1>2. <<Here>> \in Paths /\ <<Here>> # Nothing
  <2>1. Here \in Names
    BY OwnNames
  <2> HIDE DEF Here
  <2>2. <<Here>> \in Seq(Names) /\ <<Here>> # <<>>
    BY <2>1
  <2>3. QED
    BY <2>2 DEF Paths, Nothing
<1>3. CASE Len(p) # 1
  <2>1. Len(Front(p)) # 0
    BY <1>1, <1>3
  <2>2. Front(p) # Nothing
    BY <2>1, EmptySeq DEF Nothing
  <2>3. QED
    BY <1>1, <1>3, <2>2 DEF Dirname
<1>4. QED
  BY <1>2, <1>3 DEF Dirname


(***************************************************************************)
(* The operations that are left of a command.                              *)
(***************************************************************************)

Writes == {"mkdir", "put", "write", "fill", "link"}
Removes == {"tidy", "remove"}
Touches(o, q) == o.do \in Writes \cup Removes /\ At(o.at) = q

OpOk(o) ==
  /\ o = Op(o.do, o.at, o.new)
  /\ o.do \in Writes \cup Removes \cup {"exec", "fail"}
  /\ o.do # "fail" => o.at \in Paths \ {Nothing}
  /\ o.do = "mkdir" => o.new = Dir
  /\ o.do \in {"put", "write", "fill", "link"} => IsContent(o.new) /\ o.new[1] # "dir"

(* The operations are such, and only the first may be half done.           *)
OpsOk(s) == \A i \in DOMAIN s : OpOk(s[i]) /\ (i > 1 => s[i].do # "fill")

(* A directory is not made where an object is removed, and the binary      *)
(* stands elsewhere too.                                                   *)
Apart(s, d, c) ==
  \A j \in DOMAIN s : s[j].do = "tidy" =>
    /\ \A i \in DOMAIN s : s[i].do = "mkdir" => At(s[i].at) # At(s[j].at)
    /\ At(s[j].at) # At(Output(d, c))

(* A command's binary is linked where its output is, from the source as it *)
(* was.  Object and runtime are removed after that; nothing else is done   *)
(* then, but to execute it.                                                *)
LinkOk(s, d, c) ==
  \A i \in DOMAIN s : s[i].do = "link" =>
    /\ s[i].at = Output(d, c) /\ s[i].new = Binary(d, c)
    /\ \A p \in {Object(Output(d, c)), Runtime(Output(d, c))} :
         \E j \in DOMAIN s : j > i /\ s[j] = Op("tidy", p, Nothing)
    /\ \A j \in DOMAIN s : j > i => s[j].do \in {"tidy", "exec"}

(* What is executed is the output of a run, at last.                       *)
ExecOk(s, d, c) ==
  \A i \in DOMAIN s : s[i].do = "exec" =>
    c.word = "run" /\ s[i].at = Output(d, c) /\ i = Len(s)

OrderOk(s, d, c) == OpsOk(s) /\ Apart(s, d, c) /\ LinkOk(s, d, c) /\ ExecOk(s, d, c)

(* The disk is as the operations at hand need it: the file that is being   *)
(* filled is there, no directory is removed as an object, and the binary   *)
(* that will be executed is linked before or there.                        *)
FillReady(s, now) == \A i \in DOMAIN s : s[i].do = "fill" => IsFile(now, s[i].at)
TidyReady(s, now) ==
  \A j \in DOMAIN s : s[j].do = "tidy" =>
    \/ ~IsDir(now, s[j].at)
    \/ \E i \in DOMAIN s : i < j /\ s[i].do = "write" /\ At(s[i].at) = At(s[j].at)
ExecReady(s, d, c, now) ==
  \A j \in DOMAIN s : s[j].do = "exec" =>
    \/ \E i \in DOMAIN s : i < j /\ s[i].do = "link"
    \/ /\ At(s[j].at) \in DOMAIN now
       /\ now[At(s[j].at)] = Binary(d, c)
       /\ \A i \in DOMAIN s : i < j => s[i].do = "tidy"
Settled(s, d, c, now) == FillReady(s, now) /\ TidyReady(s, now) /\ ExecReady(s, d, c, now)

(* Only targets are touched, with what the command writes there.           *)
TargetsOnly(s, d, c) ==
  \A i \in DOMAIN s :
    /\ s[i].do \in Writes \cup Removes => At(s[i].at) \in Targets(d, c)
    /\ s[i].do = "mkdir" => Dir \in Written(d, c, At(s[i].at))
    /\ s[i].do \in Writes \ {"mkdir"} =>
         CutShort(s[i].new) \subseteq Written(d, c, At(s[i].at))

(* What has been changed of the disk d is a target, and holds nothing that *)
(* the command does not write there.                                       *)
Bounded(d, c, now) ==
  \A p \in DOMAIN d \cup DOMAIN now :
    \/ p \in DOMAIN d \cap DOMAIN now /\ now[p] = d[p]
    \/ /\ p \in Targets(d, c)
       /\ p \in DOMAIN now => now[p] \in Written(d, c, p)

(* The operations left lead to done: where none of them will touch it, the *)
(* disk is as done says; elsewhere the last that does sees to it.          *)
Agrees(o, done) ==
  /\ o.do \in Writes => At(o.at) \in DOMAIN done /\ done[At(o.at)] = o.new
  /\ o.do \in Removes => At(o.at) \notin DOMAIN done
OnTrack(s, now, done) ==
  /\ \A q \in DOMAIN now \cup DOMAIN done :
       (\A i \in DOMAIN s : ~Touches(s[i], q)) =>
          q \in DOMAIN now \cap DOMAIN done /\ now[q] = done[q]
  /\ \A i \in DOMAIN s :
       (\A j \in DOMAIN s : j > i => ~Touches(s[j], At(s[i].at))) => Agrees(s[i], done)

(* A command c at work, started on the disk d, when s is left to do: once  *)
(* it has failed or a write was lost, nothing leads to its effect.         *)
Working(s, d, c, now, gone) ==
  /\ s \in Seq(Range(s))
  /\ OrderOk(s, d, c)
  /\ Settled(s, d, c, now)
  /\ TargetsOnly(s, d, c)
  /\ Bounded(d, c, now)
  /\ ~gone /\ (\A i \in DOMAIN s : s[i].do # "fail") => OnTrack(s, now, Effect(d, c))

(* The inductive invariant.                                                *)
IInv ==
  /\ TypeOK
  /\ IsTree(before)
  /\ status = "running" => args \in Commands /\ Working(todo, before, args, disk, lost)
  /\ ran # Nothing => args.word = "run" /\ (Len(Output(before, args)) > 1 => ran = Binary(before, args))

(***************************************************************************)
(* The list of operations, and one step on it.                             *)
(***************************************************************************)

LEMMA TodoFacts ==
  ASSUME NEW s, s \in Seq(Range(s)), s # <<>>
  PROVE  /\ Len(s) \in Nat \ {0} /\ DOMAIN s = 1 .. Len(s) /\ 1 \in DOMAIN s
         /\ Head(s) = s[1]
<1>1. Len(s) \in Nat \ {0} /\ DOMAIN s = 1 .. Len(s)
  BY EmptySeq, LenProperties
<1>2. Head(s) = s[1]
  OBVIOUS
<1>3. QED
  BY <1>1, <1>2

(* What is left of a list when its first element is done.                  *)
LEMMA TailFacts ==
  ASSUME NEW s, s \in Seq(Range(s)), s # <<>>
  PROVE  /\ Tail(s) \in Seq(Range(Tail(s)))
         /\ Len(Tail(s)) = Len(s) - 1
         /\ DOMAIN Tail(s) = 1 .. Len(s) - 1
         /\ \A i \in DOMAIN Tail(s) : i + 1 \in DOMAIN s /\ i + 1 > 1 /\ Tail(s)[i] = s[i + 1]
         /\ \A j \in DOMAIN s : j > 1 => j - 1 \in DOMAIN Tail(s) /\ Tail(s)[j - 1] = s[j]
<1>1. Len(s) \in Nat \ {0} /\ DOMAIN s = 1 .. Len(s)
  BY TodoFacts
<1>2. /\ Tail(s) \in Seq(Range(s)) /\ Len(Tail(s)) = Len(s) - 1
      /\ \A i \in 1 .. Len(Tail(s)) : Tail(s)[i] = s[i + 1]
  BY HeadTailProperties
<1> DEFINE t == Tail(s)
<1> HIDE DEF t
<1>3. t \in Seq(Range(t)) /\ DOMAIN t = 1 .. Len(t)
  BY <1>2, SeqOfRange, LenProperties DEF t
<1>4. Len(t) = Len(s) - 1 /\ \A i \in 1 .. Len(t) : t[i] = s[i + 1]
  BY <1>2 DEF t
<1>5. \A i \in DOMAIN t : i + 1 \in DOMAIN s /\ i + 1 > 1 /\ t[i] = s[i + 1]
  BY <1>1, <1>3, <1>4
<1>6. ASSUME NEW j \in DOMAIN s, j > 1
      PROVE  j - 1 \in DOMAIN t /\ t[j - 1] = s[j]
  <2>1. j - 1 \in 1 .. Len(t) /\ j - 1 + 1 = j
    BY <1>1, <1>4, <1>6
  <2>2. QED
    BY <1>3, <1>4, <2>1
<1>7. QED
  BY <1>3, <1>4, <1>5, <1>6 DEF t

(* The first operation goes on under another name.                         *)
LEMMA TurnFacts ==
  ASSUME NEW s, s \in Seq(Range(s)), s # <<>>, NEW do, OpOk(s[1])
  PROVE  LET t == [s EXCEPT ![1].do = do]
         IN  /\ t \in Seq(Range(t)) /\ Len(t) = Len(s) /\ DOMAIN t = DOMAIN s
             /\ t[1] = Op(do, s[1].at, s[1].new)
             /\ \A i \in DOMAIN s : i > 1 => t[i] = s[i]
<1> DEFINE o == [s[1] EXCEPT !.do = do]
           S == Range(s) \cup {o}
           t == [s EXCEPT ![1] = o]
<1>1. Len(s) \in Nat \ {0} /\ DOMAIN s = 1 .. Len(s) /\ 1 \in DOMAIN s
  BY TodoFacts
<1>2. o = Op(do, s[1].at, s[1].new)
  BY DEF OpOk, Op
<1>3. s \in Seq(S)
  BY SeqMonotonic
<1>4. t = [s EXCEPT ![1].do = do]
  OBVIOUS
<1> HIDE DEF o
<1>5. /\ t \in Seq(S) /\ Len(t) = Len(s)
      /\ \A j \in 1 .. Len(s) : t[j] = IF j = 1 THEN o ELSE s[j]
  BY <1>1, <1>3, ExceptSeq
<1> HIDE DEF t
<1>6. t \in Seq(Range(t)) /\ DOMAIN t = 1 .. Len(t)
  BY <1>5, SeqOfRange, LenProperties
<1>7. QED
  BY <1>1, <1>2, <1>4, <1>5, <1>6


(* The next operation has been done: the disk elsewhere is as it was, and  *)
(* there as the operation has it, or, of a write that was lost, cut short. *)
Done(o, now, next, lossy) ==
  /\ \A q \in DOMAIN now \cup DOMAIN next :
       q # At(o.at) => q \in DOMAIN now \cap DOMAIN next /\ next[q] = now[q]
  /\ o.do \in Writes =>
       /\ At(o.at) \in DOMAIN next
       /\ \/ next[At(o.at)] = o.new
          \/ lossy /\ o.do = "fill" /\ next[At(o.at)] \in CutShort(o.new)
  /\ o.do \in Removes => At(o.at) \notin DOMAIN next

(* What holds of all operations holds of those that are left.              *)
LEMMA OrderTail ==
  ASSUME NEW s, s \in Seq(Range(s)), s # <<>>, NEW d, NEW c, OrderOk(s, d, c)
  PROVE  OrderOk(Tail(s), d, c)
<1> DEFINE t == Tail(s)
<1>1. /\ Len(s) \in Nat \ {0} /\ DOMAIN s = 1 .. Len(s)
      /\ Len(t) = Len(s) - 1 /\ DOMAIN t = 1 .. Len(s) - 1
      /\ \A i \in DOMAIN t : i + 1 \in DOMAIN s /\ i + 1 > 1 /\ t[i] = s[i + 1]
      /\ \A j \in DOMAIN s : j > 1 => j - 1 \in DOMAIN t /\ t[j - 1] = s[j]
  BY TodoFacts, TailFacts
<1> HIDE DEF t
<1>2. OpsOk(s) /\ Apart(s, d, c) /\ LinkOk(s, d, c) /\ ExecOk(s, d, c)
  BY DEF OrderOk
<1>3. OpsOk(t)
  BY <1>1, <1>2 DEF OpsOk
<1>4. Apart(t, d, c)
  BY <1>1, <1>2 DEF Apart
<1>5. LinkOk(t, d, c)
  <2>1. ASSUME NEW i \in DOMAIN t, t[i].do = "link"
        PROVE  /\ t[i].at = Output(d, c) /\ t[i].new = Binary(d, c)
               /\ \A p \in {Object(Output(d, c)), Runtime(Output(d, c))} :
                    \E j \in DOMAIN t : j > i /\ t[j] = Op("tidy", p, Nothing)
               /\ \A j \in DOMAIN t : j > i => t[j].do \in {"tidy", "exec"}
    <3>1. i + 1 \in DOMAIN s /\ t[i] = s[i + 1] /\ i \in Nat
      BY <1>1
    <3>2. /\ s[i + 1].at = Output(d, c) /\ s[i + 1].new = Binary(d, c)
          /\ \A p \in {Object(Output(d, c)), Runtime(Output(d, c))} :
               \E j \in DOMAIN s : j > i + 1 /\ s[j] = Op("tidy", p, Nothing)
          /\ \A j \in DOMAIN s : j > i + 1 => s[j].do \in {"tidy", "exec"}
      BY <1>2, <2>1, <3>1 DEF LinkOk
    <3>3. ASSUME NEW p \in {Object(Output(d, c)), Runtime(Output(d, c))}
          PROVE  \E j \in DOMAIN t : j > i /\ t[j] = Op("tidy", p, Nothing)
      <4>1. PICK j \in DOMAIN s : j > i + 1 /\ s[j] = Op("tidy", p, Nothing)
        BY <3>2
      <4>2. j - 1 \in DOMAIN t /\ t[j - 1] = s[j] /\ j - 1 > i
        BY <1>1, <3>1, <4>1
      <4>3. QED
        BY <4>1, <4>2
    <3>4. ASSUME NEW j \in DOMAIN t, j > i
          PROVE  t[j].do \in {"tidy", "exec"}
      <4>1. j + 1 \in DOMAIN s /\ t[j] = s[j + 1] /\ j + 1 > i + 1
        BY <1>1, <3>1, <3>4
      <4>2. QED
        BY <3>2, <4>1
    <3>5. QED
      BY <3>1, <3>2, <3>3, <3>4
  <2>2. QED
    BY <2>1 DEF LinkOk
<1>6. ExecOk(t, d, c)
  BY <1>1, <1>2 DEF ExecOk
<1>7. QED
  BY <1>3, <1>4, <1>5, <1>6 DEF OrderOk, t

(* What is left touches targets only.                                      *)
LEMMA TargetsTail ==
  ASSUME NEW s, s \in Seq(Range(s)), s # <<>>, NEW d, NEW c, TargetsOnly(s, d, c)
  PROVE  TargetsOnly(Tail(s), d, c)
<1> DEFINE t == Tail(s)
<1>1. \A i \in DOMAIN t : i + 1 \in DOMAIN s /\ t[i] = s[i + 1]
  BY TailFacts
<1> HIDE DEF t
<1>2. TargetsOnly(t, d, c)
  BY <1>1 DEF TargetsOnly
<1>3. QED
  BY <1>2 DEF t

(* The disk is ready for the rest when the first operation is done, which  *)
(* is none that has yet to open its file.                                  *)
LEMMA SettledTail ==
  ASSUME NEW s, s \in Seq(Range(s)), s # <<>>, NEW d, NEW c, OrderOk(s, d, c),
         NEW now, NEW next, NEW lossy, Settled(s, d, c, now), Done(s[1], now, next, lossy),
         s[1].do \notin {"write", "exec", "fail"}
  PROVE  Settled(Tail(s), d, c, next)
<1> DEFINE t == Tail(s)
<1>1. /\ Len(s) \in Nat \ {0} /\ DOMAIN s = 1 .. Len(s) /\ 1 \in DOMAIN s
      /\ Len(t) = Len(s) - 1 /\ DOMAIN t = 1 .. Len(s) - 1
      /\ \A i \in DOMAIN t : i + 1 \in DOMAIN s /\ i + 1 > 1 /\ t[i] = s[i + 1]
      /\ \A j \in DOMAIN s : j > 1 => j - 1 \in DOMAIN t /\ t[j - 1] = s[j]
  BY TodoFacts, TailFacts
<1> HIDE DEF t
<1>2. OpsOk(s) /\ Apart(s, d, c) /\ LinkOk(s, d, c) /\ ExecOk(s, d, c)
  BY DEF OrderOk
<1>3. FillReady(s, now) /\ TidyReady(s, now) /\ ExecReady(s, d, c, now)
  BY DEF Settled
<1>4. FillReady(t, next)
  BY <1>1, <1>2 DEF FillReady, OpsOk
<1>5. ASSUME NEW j \in DOMAIN t, t[j].do = "tidy"
      PROVE  \/ ~IsDir(next, t[j].at)
             \/ \E i \in DOMAIN t : i < j /\ t[i].do = "write" /\ At(t[i].at) = At(t[j].at)
  <2>1. j + 1 \in DOMAIN s /\ j + 1 > 1 /\ t[j] = s[j + 1] /\ s[j + 1].do = "tidy"
    BY <1>1, <1>5
  <2>2. CASE \E i \in DOMAIN s : i < j + 1 /\ s[i].do = "write" /\ At(s[i].at) = At(s[j + 1].at)
    <3>1. PICK i \in DOMAIN s : i < j + 1 /\ s[i].do = "write" /\ At(s[i].at) = At(s[j + 1].at)
      BY <2>2
    <3>2. i # 1
      BY <3>1
    <3>3. i - 1 \in DOMAIN t /\ t[i - 1] = s[i] /\ i - 1 < j
      BY <1>1, <3>1, <3>2
    <3>4. QED
      BY <2>1, <3>1, <3>3
  <2>3. CASE ~IsDir(now, s[j + 1].at)
    <3> DEFINE q == At(s[j + 1].at)
    <3>1. SUFFICES ASSUME q \in DOMAIN next, next[q] = Dir
                   PROVE  FALSE
      BY <2>1 DEF IsDir, Exists
    <3>2. ~(q \in DOMAIN now /\ now[q] = Dir)
      BY <2>3 DEF IsDir, Exists
    <3>3. q = At(s[1].at)
      BY <3>1, <3>2 DEF Done
    <3>4. OpOk(s[1])
      BY <1>1, <1>2 DEF OpsOk
    <3>5. CASE s[1].do = "mkdir"
      BY <1>1, <1>2, <2>1, <3>3, <3>5 DEF Apart
    <3>6. CASE s[1].do \in Writes \ {"mkdir"}
      <4>1. IsContent(s[1].new) /\ s[1].new[1] # "dir"
        BY <3>4, <3>6 DEF OpOk, Writes
      <4>2. next[q] = s[1].new \/ next[q] \in CutShort(s[1].new)
        BY <3>3, <3>6 DEF Done
      <4>3. next[q] # Dir
        BY <4>1, <4>2, ShortContent, ShortEnds
      <4>4. QED
        BY <3>1, <4>3
    <3>7. CASE s[1].do \in Removes
      BY <3>1, <3>3, <3>7 DEF Done
    <3>8. QED
      BY <3>4, <3>5, <3>6, <3>7 DEF OpOk
  <2>4. QED
    BY <1>3, <2>1, <2>2, <2>3 DEF TidyReady
<1>6. ASSUME NEW j \in DOMAIN t, t[j].do = "exec"
      PROVE  \/ \E i \in DOMAIN t : i < j /\ t[i].do = "link"
             \/ /\ At(t[j].at) \in DOMAIN next
                /\ next[At(t[j].at)] = Binary(d, c)
                /\ \A i \in DOMAIN t : i < j => t[i].do = "tidy"
  <2>1. j + 1 \in DOMAIN s /\ j + 1 > 1 /\ t[j] = s[j + 1] /\ s[j + 1].do = "exec"
    BY <1>1, <1>6
  <2>2. s[j + 1].at = Output(d, c) /\ j + 1 = Len(s)
    BY <1>2, <2>1 DEF ExecOk
  <2>3. CASE \E i \in DOMAIN s : i < j + 1 /\ i # 1 /\ s[i].do = "link"
    <3>1. PICK i \in DOMAIN s : i < j + 1 /\ i # 1 /\ s[i].do = "link"
      BY <2>3
    <3>2. i - 1 \in DOMAIN t /\ t[i - 1] = s[i] /\ i - 1 < j
      BY <1>1, <3>1
    <3>3. QED
      BY <3>1, <3>2
  <2>4. CASE s[1].do = "link"
    <3>1. s[1].at = Output(d, c) /\ s[1].new = Binary(d, c)
          /\ \A i \in DOMAIN s : i > 1 => s[i].do \in {"tidy", "exec"}
      BY <1>1, <1>2, <2>4 DEF LinkOk
    <3>2. At(Output(d, c)) \in DOMAIN next /\ next[At(Output(d, c))] = Binary(d, c)
      BY <2>4, <3>1 DEF Done, Writes
    <3>3. ASSUME NEW i \in DOMAIN t, i < j
          PROVE  t[i].do = "tidy"
      <4>1. i + 1 \in DOMAIN s /\ i + 1 > 1 /\ t[i] = s[i + 1] /\ i + 1 # Len(s)
        BY <1>1, <2>2, <3>3
      <4>2. s[i + 1].do # "exec"
        BY <1>2, <4>1 DEF ExecOk
      <4>3. QED
        BY <3>1, <4>1, <4>2
    <3>4. QED
      BY <2>1, <2>2, <3>2, <3>3
  <2>5. CASE /\ At(s[j + 1].at) \in DOMAIN now
             /\ now[At(s[j + 1].at)] = Binary(d, c)
             /\ \A i \in DOMAIN s : i < j + 1 => s[i].do = "tidy"
    <3>1. s[1].do = "tidy"
      BY <1>1, <2>1, <2>5
    <3>2. At(s[1].at) # At(Output(d, c))
      BY <1>1, <1>2, <3>1 DEF Apart
    <3>3. At(t[j].at) \in DOMAIN next /\ next[At(t[j].at)] = Binary(d, c)
      BY <2>1, <2>2, <2>5, <3>2 DEF Done
    <3>4. \A i \in DOMAIN t : i < j => t[i].do = "tidy"
      BY <1>1, <2>5
    <3>5. QED
      BY <3>3, <3>4
  <2>6. QED
    BY <1>1, <1>3, <2>1, <2>3, <2>4, <2>5 DEF ExecReady
<1>7. TidyReady(t, next) /\ ExecReady(t, d, c, next)
  BY <1>5, <1>6 DEF TidyReady, ExecReady
<1>8. QED
  BY <1>4, <1>7 DEF Settled, t


(* What is on the way stays so.                                            *)
LEMMA OnTrackTail ==
  ASSUME NEW s, s \in Seq(Range(s)), s # <<>>, NEW done,
         NEW now, NEW next, Done(s[1], now, next, FALSE), OpsOk(s),
         s[1].do \in Writes \cup Removes, OnTrack(s, now, done)
  PROVE  OnTrack(Tail(s), next, done)
<1> DEFINE t == Tail(s)
           q1 == At(s[1].at)
<1>1. /\ 1 \in DOMAIN s
      /\ \A i \in DOMAIN t : i + 1 \in DOMAIN s /\ i + 1 > 1 /\ i \in Nat /\ t[i] = s[i + 1]
      /\ \A j \in DOMAIN s : j \in Nat /\ (j > 1 => j - 1 \in DOMAIN t /\ t[j - 1] = s[j])
      /\ \A j \in DOMAIN s : j = 1 \/ j > 1
  BY TodoFacts, TailFacts
<1> HIDE DEF t
<1>2. ASSUME NEW q, \A i \in DOMAIN t : ~Touches(t[i], q)
      PROVE  \A j \in DOMAIN s : j > 1 => ~Touches(s[j], q)
  BY <1>1, <1>2
<1>3. Touches(s[1], q1)
  BY DEF Touches
<1>4. ASSUME NEW q \in DOMAIN next \cup DOMAIN done, \A i \in DOMAIN t : ~Touches(t[i], q)
      PROVE  q \in DOMAIN next \cap DOMAIN done /\ next[q] = done[q]
  <2>1. \A j \in DOMAIN s : j > 1 => ~Touches(s[j], q)
    BY <1>2, <1>4
  <2>2. CASE q = q1
    <3>1. Agrees(s[1], done)
      BY <1>1, <2>1, <2>2 DEF OnTrack
    <3>2. s[1].do \in Writes => q \in DOMAIN next /\ next[q] = s[1].new
      BY <2>2 DEF Done
    <3>3. s[1].do \in Removes => q \notin DOMAIN next
      BY <2>2 DEF Done
    <3>4. QED
      BY <1>4, <2>2, <3>1, <3>2, <3>3 DEF Agrees
  <2>3. CASE q # q1
    <3>1. ~Touches(s[1], q)
      BY <2>3 DEF Touches
    <3>2. \A j \in DOMAIN s : ~Touches(s[j], q)
      BY <1>1, <2>1, <3>1
    <3>3. q \in DOMAIN now \cup DOMAIN done
      BY <1>4, <2>3 DEF Done
    <3>4. q \in DOMAIN now \cap DOMAIN done /\ now[q] = done[q]
      BY <3>2, <3>3 DEF OnTrack
    <3>5. QED
      BY <2>3, <3>4 DEF Done
  <2>4. QED
    BY <2>2, <2>3
<1>5. ASSUME NEW i \in DOMAIN t, \A j \in DOMAIN t : j > i => ~Touches(t[j], At(t[i].at))
      PROVE  Agrees(t[i], done)
  <2>1. i + 1 \in DOMAIN s /\ t[i] = s[i + 1] /\ i \in Nat
    BY <1>1
  <2>2. ASSUME NEW j \in DOMAIN s, j > i + 1
        PROVE  ~Touches(s[j], At(s[i + 1].at))
    <3>1. j - 1 \in DOMAIN t /\ t[j - 1] = s[j] /\ j - 1 > i
      <4>1. j \in Nat /\ i \in Nat /\ j > i + 1
        BY <1>1, <2>1, <2>2
      <4>2. j > 1 /\ j - 1 > i
        BY <4>1
      <4>3. QED
        BY <1>1, <4>2
    <3>2. QED
      BY <1>5, <2>1, <3>1
  <2>3. QED
    BY <2>1, <2>2 DEF OnTrack
<1>6. QED
  BY <1>4, <1>5 DEF OnTrack, t

(* An operation that goes on under another name is one that writes.        *)
Turns(from, to) ==
  \/ from = "put" /\ to = "write"
  \/ from = "write" /\ to = "fill"

(* The order of the operations, when the first goes on as another.         *)
LEMMA OrderTurn ==
  ASSUME NEW s, s \in Seq(Range(s)), s # <<>>, NEW d, NEW c, OrderOk(s, d, c),
         NEW do, Turns(s[1].do, do)
  PROVE  OrderOk([s EXCEPT ![1].do = do], d, c)
<1> DEFINE t == [s EXCEPT ![1].do = do]
<1>1. OpsOk(s) /\ Apart(s, d, c) /\ LinkOk(s, d, c) /\ ExecOk(s, d, c)
  BY DEF OrderOk
<1>2. /\ Len(s) \in Nat \ {0} /\ DOMAIN s = 1 .. Len(s) /\ 1 \in DOMAIN s
      /\ OpOk(s[1])
  BY <1>1, TodoFacts DEF OpsOk
<1>3. /\ Len(t) = Len(s) /\ DOMAIN t = DOMAIN s
      /\ t[1] = Op(do, s[1].at, s[1].new)
      /\ \A i \in DOMAIN s : i > 1 => t[i] = s[i]
  BY <1>2, TurnFacts
<1> HIDE DEF t
<1>4. t[1].do = do /\ t[1].at = s[1].at /\ t[1].new = s[1].new
  BY <1>3 DEF Op
<1>5. ASSUME NEW i \in DOMAIN s
      PROVE  \/ i = 1 /\ s[i].do \in {"put", "write"} /\ t[i].do \in {"write", "fill"}
             \/ i > 1 /\ t[i] = s[i]
  BY <1>2, <1>3, <1>4 DEF Turns
<1>6. OpOk(t[1])
  <2>1. t[1] = Op(t[1].do, t[1].at, t[1].new)
    BY <1>3, <1>4
  <2>2. /\ t[1].at \in Paths \ {Nothing} /\ IsContent(t[1].new) /\ t[1].new[1] # "dir"
        /\ t[1].do \in {"write", "fill"}
    BY <1>2, <1>4 DEF OpOk, Turns
  <2>3. QED
    BY <2>1, <2>2 DEF OpOk, Writes
<1>7. OpsOk(t)
  BY <1>1, <1>2, <1>3, <1>5, <1>6 DEF OpsOk
<1>8. Apart(t, d, c)
  BY <1>1, <1>3, <1>5 DEF Apart
<1>9. LinkOk(t, d, c)
  <2>1. ASSUME NEW i \in DOMAIN t, t[i].do = "link"
        PROVE  /\ t[i].at = Output(d, c) /\ t[i].new = Binary(d, c)
               /\ \A p \in {Object(Output(d, c)), Runtime(Output(d, c))} :
                    \E j \in DOMAIN t : j > i /\ t[j] = Op("tidy", p, Nothing)
               /\ \A j \in DOMAIN t : j > i => t[j].do \in {"tidy", "exec"}
    <3>1. i > 1 /\ t[i] = s[i] /\ i \in DOMAIN s
      BY <1>3, <1>5, <2>1
    <3>2. \A j \in DOMAIN s : j > i => t[j] = s[j]
      BY <1>2, <1>3, <3>1
    <3>3. QED
      BY <1>1, <1>3, <2>1, <3>1, <3>2 DEF LinkOk
  <2>2. QED
    BY <2>1 DEF LinkOk
<1>10. ExecOk(t, d, c)
  BY <1>1, <1>3, <1>5 DEF ExecOk
<1>11. QED
  BY <1>7, <1>8, <1>9, <1>10 DEF OrderOk, t

(* It touches what it was going to touch.                                  *)
LEMMA TargetsTurn ==
  ASSUME NEW s, s \in Seq(Range(s)), s # <<>>, NEW d, NEW c, TargetsOnly(s, d, c), OpsOk(s),
         NEW do, Turns(s[1].do, do)
  PROVE  TargetsOnly([s EXCEPT ![1].do = do], d, c)
<1> DEFINE t == [s EXCEPT ![1].do = do]
<1>1. OpOk(s[1]) /\ 1 \in DOMAIN s /\ DOMAIN s = 1 .. Len(s)
  BY TodoFacts DEF OpsOk
<1>2. /\ DOMAIN t = DOMAIN s
      /\ t[1] = Op(do, s[1].at, s[1].new)
      /\ \A i \in DOMAIN s : i > 1 => t[i] = s[i]
  BY <1>1, TurnFacts
<1> HIDE DEF t
<1>3. t[1].do = do /\ t[1].at = s[1].at /\ t[1].new = s[1].new
  BY <1>2 DEF Op
<1>4. s[1].do \in Writes \ {"mkdir"} /\ t[1].do \in Writes \ {"mkdir"}
  BY <1>3 DEF Turns, Writes
<1>5. ASSUME NEW i \in DOMAIN t
      PROVE  /\ t[i].do \in Writes \cup Removes => At(t[i].at) \in Targets(d, c)
             /\ t[i].do = "mkdir" => Dir \in Written(d, c, At(t[i].at))
             /\ t[i].do \in Writes \ {"mkdir"} =>
                  CutShort(t[i].new) \subseteq Written(d, c, At(t[i].at))
  <2>1. CASE i = 1
    BY <1>1, <1>3, <1>4, <2>1 DEF TargetsOnly
  <2>2. CASE i # 1
    <3>1. i \in DOMAIN s /\ t[i] = s[i]
      BY <1>1, <1>2, <2>2
    <3>2. QED
      BY <3>1 DEF TargetsOnly
  <2>3. QED
    BY <2>1, <2>2
<1>6. QED
  BY <1>5 DEF TargetsOnly, t

(* The file is open, or the disk is as it was.                             *)
Opened(o, do, now, next) ==
  /\ \A q \in DOMAIN now \cup DOMAIN next :
       q # At(o.at) => q \in DOMAIN now \cap DOMAIN next /\ next[q] = now[q]
  /\ do = "fill" =>
       /\ At(o.at) \in DOMAIN next /\ next[At(o.at)] = <<o.new[1], <<>>>>
       /\ IsFile(next, o.at)
  /\ do = "write" => next = now

(* The disk is as the operation needs it, once the file is open.           *)
LEMMA SettledTurn ==
  ASSUME NEW s, s \in Seq(Range(s)), s # <<>>, NEW d, NEW c, OrderOk(s, d, c),
         NEW now, NEW next, Settled(s, d, c, now),
         NEW do, Turns(s[1].do, do), Opened(s[1], do, now, next)
  PROVE  Settled([s EXCEPT ![1].do = do], d, c, next)
<1> DEFINE t == [s EXCEPT ![1].do = do]
<1>1. OpsOk(s) /\ Apart(s, d, c) /\ LinkOk(s, d, c) /\ ExecOk(s, d, c)
  BY DEF OrderOk
<1>2. /\ Len(s) \in Nat \ {0} /\ DOMAIN s = 1 .. Len(s) /\ 1 \in DOMAIN s
      /\ OpOk(s[1])
  BY <1>1, TodoFacts DEF OpsOk
<1>3. /\ Len(t) = Len(s) /\ DOMAIN t = DOMAIN s
      /\ t[1] = Op(do, s[1].at, s[1].new)
      /\ \A i \in DOMAIN s : i > 1 => t[i] = s[i]
  BY <1>2, TurnFacts
<1> HIDE DEF t
<1>4. t[1].do = do /\ t[1].at = s[1].at /\ t[1].new = s[1].new
  BY <1>3 DEF Op
<1>5. ASSUME NEW i \in DOMAIN s
      PROVE  \/ i = 1 /\ s[i].do \in {"put", "write"} /\ t[i].do \in {"write", "fill"}
             \/ i > 1 /\ t[i] = s[i]
  BY <1>2, <1>3, <1>4 DEF Turns
<1>6. FillReady(s, now) /\ TidyReady(s, now) /\ ExecReady(s, d, c, now)
  BY DEF Settled
<1>7. s[1].new[1] # "dir"
  BY <1>2 DEF OpOk, Turns
<1>8. FillReady(t, next)
  <2>1. ASSUME NEW i \in DOMAIN t, t[i].do = "fill"
        PROVE  IsFile(next, t[i].at)
    <3>1. i = 1
      BY <1>1, <1>3, <1>5, <2>1 DEF OpsOk
    <3>2. QED
      BY <1>4, <2>1, <3>1 DEF Opened
  <2>2. QED
    BY <2>1 DEF FillReady
<1>9. TidyReady(t, next)
  <2>1. ASSUME NEW j \in DOMAIN t, t[j].do = "tidy"
        PROVE  \/ ~IsDir(next, t[j].at)
               \/ \E i \in DOMAIN t : i < j /\ t[i].do = "write" /\ At(t[i].at) = At(t[j].at)
    <3>1. j \in DOMAIN s /\ j > 1 /\ t[j] = s[j]
      BY <1>3, <1>5, <2>1
    <3> DEFINE q == At(t[j].at)
    <3>2. CASE do = "write"
      <4>1. next = now
        BY <3>2 DEF Opened
      <4>2. CASE ~IsDir(now, t[j].at)
        BY <4>1, <4>2
      <4>3. CASE \E i \in DOMAIN s : i < j /\ s[i].do = "write" /\ At(s[i].at) = q
        <5>1. PICK i \in DOMAIN s : i < j /\ s[i].do = "write" /\ At(s[i].at) = q
          BY <4>3
        <5>2. i # 1
          BY <3>2, <5>1 DEF Turns
        <5>3. i \in DOMAIN t /\ t[i] = s[i]
          BY <1>3, <1>5, <5>2
        <5>4. QED
          BY <5>1, <5>3
      <4>4. QED
        BY <1>6, <2>1, <3>1, <4>2, <4>3 DEF TidyReady
    <3>3. CASE do = "fill"
      <4>1. At(s[1].at) \in DOMAIN next /\ next[At(s[1].at)] = <<s[1].new[1], <<>>>>
        BY <3>3 DEF Opened
      <4>2. next[At(s[1].at)] # Dir
        BY <1>7, <4>1 DEF Dir
      <4>3. CASE q = At(s[1].at)
        BY <4>2, <4>3 DEF IsDir, Exists
      <4>4. CASE q # At(s[1].at) /\ ~IsDir(now, t[j].at)
        BY <4>4 DEF IsDir, Exists, Opened
      <4>5. CASE q # At(s[1].at) /\ \E i \in DOMAIN s : i < j /\ s[i].do = "write" /\ At(s[i].at) = q
        <5>1. PICK i \in DOMAIN s : i < j /\ s[i].do = "write" /\ At(s[i].at) = q
          BY <4>5
        <5>2. i # 1
          BY <4>5, <5>1
        <5>3. i \in DOMAIN t /\ t[i] = s[i]
          BY <1>3, <1>5, <5>2
        <5>4. QED
          BY <5>1, <5>3
      <4>6. QED
        BY <1>6, <2>1, <3>1, <4>3, <4>4, <4>5 DEF TidyReady
    <3>4. QED
      BY <3>2, <3>3 DEF Turns
  <2>2. QED
    BY <2>1 DEF TidyReady
<1>10. ExecReady(t, d, c, next)
  <2>1. ASSUME NEW j \in DOMAIN t, t[j].do = "exec"
        PROVE  \E i \in DOMAIN t : i < j /\ t[i].do = "link"
    <3>1. j \in DOMAIN s /\ j > 1 /\ t[j] = s[j]
      BY <1>3, <1>5, <2>1
    <3>2. s[1].do # "tidy"
      BY DEF Turns
    <3>3. \E i \in DOMAIN s : i < j /\ s[i].do = "link"
      BY <1>2, <1>6, <2>1, <3>1, <3>2 DEF ExecReady
    <3>4. PICK i \in DOMAIN s : i < j /\ s[i].do = "link"
      BY <3>3
    <3>5. i \in DOMAIN t /\ t[i] = s[i]
      BY <1>3, <1>5, <3>4
    <3>6. QED
      BY <3>4, <3>5
  <2>2. QED
    BY <2>1 DEF ExecReady
<1>11. QED
  BY <1>8, <1>9, <1>10 DEF Settled, t

(* What is left still leads to the effect: the file will be filled.        *)
LEMMA OnTrackTurn ==
  ASSUME NEW s, s \in Seq(Range(s)), s # <<>>, NEW done, OpsOk(s),
         NEW now, NEW next, OnTrack(s, now, done),
         NEW do, Turns(s[1].do, do), Opened(s[1], do, now, next)
  PROVE  OnTrack([s EXCEPT ![1].do = do], next, done)
<1> DEFINE t == [s EXCEPT ![1].do = do]
           q1 == At(s[1].at)
<1>1. /\ Len(s) \in Nat \ {0} /\ DOMAIN s = 1 .. Len(s) /\ 1 \in DOMAIN s
      /\ OpOk(s[1])
  BY TodoFacts DEF OpsOk
<1>2. /\ DOMAIN t = DOMAIN s
      /\ t[1] = Op(do, s[1].at, s[1].new)
      /\ \A i \in DOMAIN s : i > 1 => t[i] = s[i]
  BY <1>1, TurnFacts
<1> HIDE DEF t
<1>3. t[1].do = do /\ t[1].at = s[1].at /\ t[1].new = s[1].new
  BY <1>2 DEF Op
<1>4. s[1].do \in Writes /\ t[1].do \in Writes
  BY <1>3 DEF Turns, Writes
<1>5. ASSUME NEW i \in DOMAIN s
      PROVE  /\ t[i].at = s[i].at
             /\ \A q : Touches(t[i], q) <=> Touches(s[i], q)
             /\ Agrees(t[i], done) <=> Agrees(s[i], done)
  <2>1. CASE i = 1
    <3>1. s[1].do \notin Removes /\ t[1].do \notin Removes
      BY <1>4 DEF Writes, Removes
    <3>2. QED
      BY <1>3, <1>4, <2>1, <3>1 DEF Touches, Agrees
  <2>2. CASE i # 1
    BY <1>1, <1>2, <2>2
  <2>3. QED
    BY <2>1, <2>2
<1>6. Touches(s[1], q1)
  BY <1>4 DEF Touches
<1>7. ASSUME NEW q \in DOMAIN next \cup DOMAIN done, \A i \in DOMAIN t : ~Touches(t[i], q)
      PROVE  q \in DOMAIN next \cap DOMAIN done /\ next[q] = done[q]
  <2>1. \A i \in DOMAIN s : ~Touches(s[i], q)
    BY <1>2, <1>5, <1>7
  <2>2. q # q1
    BY <1>1, <1>6, <2>1
  <2>3. q \in DOMAIN now \cup DOMAIN done
    BY <1>7, <2>2 DEF Opened
  <2>4. q \in DOMAIN now \cap DOMAIN done /\ now[q] = done[q]
    BY <2>1, <2>3 DEF OnTrack
  <2>5. QED
    BY <2>2, <2>4 DEF Opened
<1>8. ASSUME NEW i \in DOMAIN t, \A j \in DOMAIN t : j > i => ~Touches(t[j], At(t[i].at))
      PROVE  Agrees(t[i], done)
  <2>1. i \in DOMAIN s /\ \A j \in DOMAIN s : j > i => ~Touches(s[j], At(s[i].at))
    BY <1>2, <1>5, <1>8
  <2>2. Agrees(s[i], done)
    BY <2>1 DEF OnTrack
  <2>3. QED
    BY <1>5, <2>1, <2>2
<1>9. QED
  BY <1>7, <1>8 DEF OnTrack, t

(* What has been changed stays within bounds: one more operation on one of *)
(* the command's targets.                                                  *)
LEMMA BoundedStep ==
  ASSUME NEW d, NEW c, NEW now, NEW next, Bounded(d, c, now), NEW q1,
         \A q \in DOMAIN now \cup DOMAIN next :
           q # q1 => q \in DOMAIN now \cap DOMAIN next /\ next[q] = now[q],
         q1 \in Targets(d, c),
         q1 \in DOMAIN next => next[q1] \in Written(d, c, q1)
  PROVE  Bounded(d, c, next)
<1>1. ASSUME NEW p \in DOMAIN d \cup DOMAIN next
      PROVE  \/ p \in DOMAIN d \cap DOMAIN next /\ next[p] = d[p]
             \/ /\ p \in Targets(d, c)
                /\ p \in DOMAIN next => next[p] \in Written(d, c, p)
  <2>1. CASE p = q1
    BY <2>1
  <2>2. CASE p # q1
    <3>1. p \in DOMAIN d \cup DOMAIN now
      BY <2>2
    <3>2. \/ p \in DOMAIN d \cap DOMAIN now /\ now[p] = d[p]
          \/ /\ p \in Targets(d, c)
             /\ p \in DOMAIN now => now[p] \in Written(d, c, p)
      BY <3>1 DEF Bounded
    <3>3. QED
      BY <2>2, <3>2
  <2>3. QED
    BY <2>1, <2>2
<1>2. QED
  BY <1>1 DEF Bounded

(* Every operation that is finished leaves a command at work.              *)
LEMMA ContinueWorks ==
  ASSUME NEW s, NEW d, NEW c, NEW now, NEW gone, Working(s, d, c, now, gone), s # <<>>,
         NEW next, NEW lossy, Done(s[1], now, next, lossy), gone => lossy,
         s[1].do \in (Writes \cup Removes) \ {"write"}
  PROVE  Working(Tail(s), d, c, next, lossy)
<1>1. /\ s \in Seq(Range(s)) /\ OrderOk(s, d, c) /\ Settled(s, d, c, now)
      /\ TargetsOnly(s, d, c) /\ Bounded(d, c, now)
  BY DEF Working
<1>2. OpsOk(s) /\ 1 \in DOMAIN s /\ OpOk(s[1])
  BY <1>1, TodoFacts DEF OrderOk, OpsOk
<1>3. /\ Tail(s) \in Seq(Range(Tail(s))) /\ OrderOk(Tail(s), d, c) /\ TargetsOnly(Tail(s), d, c)
  BY <1>1, TailFacts, OrderTail, TargetsTail
<1>4. Settled(Tail(s), d, c, next)
  <2>1. s[1].do \notin {"write", "exec", "fail"}
    BY DEF Writes, Removes
  <2>2. QED
    BY <1>1, <2>1, SettledTail
<1>5. Bounded(d, c, next)
  <2>1. At(s[1].at) \in Targets(d, c)
    BY <1>1, <1>2 DEF TargetsOnly
  <2>2. \A q \in DOMAIN now \cup DOMAIN next :
          q # At(s[1].at) => q \in DOMAIN now \cap DOMAIN next /\ next[q] = now[q]
    BY DEF Done
  <2>3. ASSUME At(s[1].at) \in DOMAIN next
        PROVE  next[At(s[1].at)] \in Written(d, c, At(s[1].at))
    <3>1. s[1].do \in Writes
      BY <2>3 DEF Done
    <3>2. CASE s[1].do = "mkdir"
      <4>1. next[At(s[1].at)] = Dir
        BY <1>2, <3>1, <3>2 DEF Done, OpOk
      <4>2. QED
        BY <1>1, <1>2, <3>2, <4>1 DEF TargetsOnly
    <3>3. CASE s[1].do # "mkdir"
      <4>1. next[At(s[1].at)] \in CutShort(s[1].new)
        BY <3>1, ShortEnds DEF Done
      <4>2. QED
        BY <1>1, <1>2, <3>1, <3>3, <4>1 DEF TargetsOnly
    <3>4. QED
      BY <3>2, <3>3
  <2>4. QED
    BY <1>1, <2>1, <2>2, <2>3, BoundedStep
<1>6. ASSUME ~lossy, \A i \in DOMAIN Tail(s) : Tail(s)[i].do # "fail"
      PROVE  OnTrack(Tail(s), next, Effect(d, c))
  <2>1. Done(s[1], now, next, FALSE)
    BY <1>6 DEF Done
  <2>2. ASSUME NEW j \in DOMAIN s
        PROVE  s[j].do # "fail"
    <3>1. CASE j = 1
      BY <3>1 DEF Writes, Removes
    <3>2. CASE j # 1
      <4>1. j > 1
        BY <1>1, <3>2, TodoFacts
      <4>2. QED
        BY <1>1, <1>6, <4>1, TailFacts
    <3>3. QED
      BY <3>1, <3>2
  <2>3. OnTrack(s, now, Effect(d, c))
    BY <1>6, <2>2 DEF Working
  <2>4. s[1].do \in Writes \cup Removes
    OBVIOUS
  <2>5. QED
    BY <1>1, <1>2, <2>1, <2>3, <2>4, OnTrackTail
<1>7. QED
  BY <1>3, <1>4, <1>5, <1>6 DEF Working

(* One that goes on does too.                                              *)
LEMMA TurnWorks ==
  ASSUME NEW s, NEW d, NEW c, NEW now, NEW gone, Working(s, d, c, now, gone), s # <<>>,
         NEW next, NEW do, Turns(s[1].do, do), Opened(s[1], do, now, next)
  PROVE  Working([s EXCEPT ![1].do = do], d, c, next, gone)
<1> DEFINE t == [s EXCEPT ![1].do = do]
<1>1. /\ s \in Seq(Range(s)) /\ OrderOk(s, d, c) /\ Settled(s, d, c, now)
      /\ TargetsOnly(s, d, c) /\ Bounded(d, c, now)
  BY DEF Working
<1>2. OpsOk(s) /\ 1 \in DOMAIN s /\ OpOk(s[1])
  BY <1>1, TodoFacts DEF OrderOk, OpsOk
<1>3. OrderOk(t, d, c) /\ TargetsOnly(t, d, c) /\ Settled(t, d, c, next)
  BY <1>1, <1>2, OrderTurn, TargetsTurn, SettledTurn
<1>4. /\ t \in Seq(Range(t)) /\ DOMAIN t = DOMAIN s
      /\ t[1] = Op(do, s[1].at, s[1].new)
      /\ \A i \in DOMAIN s : i > 1 => t[i] = s[i]
  BY <1>1, <1>2, TurnFacts
<1>5. Bounded(d, c, next)
  <2>1. CASE do = "write"
    BY <1>1, <2>1 DEF Opened
  <2>2. CASE do = "fill"
    <3>1. s[1].do \in Writes \ {"mkdir"}
      BY <2>2 DEF Turns, Writes
    <3>2. At(s[1].at) \in Targets(d, c)
          /\ CutShort(s[1].new) \subseteq Written(d, c, At(s[1].at))
      BY <1>1, <1>2, <3>1 DEF TargetsOnly
    <3>3. /\ next[At(s[1].at)] \in CutShort(s[1].new)
          /\ \A q \in DOMAIN now \cup DOMAIN next :
               q # At(s[1].at) => q \in DOMAIN now \cap DOMAIN next /\ next[q] = now[q]
      BY <2>2, ShortEnds DEF Opened
    <3>4. next[At(s[1].at)] \in Written(d, c, At(s[1].at))
      BY <3>2, <3>3
    <3>5. QED
      BY <1>1, <3>2, <3>3, <3>4, BoundedStep
  <2>3. QED
    BY <2>1, <2>2 DEF Turns
<1> HIDE DEF t
<1>6. ASSUME ~gone, \A i \in DOMAIN t : t[i].do # "fail"
      PROVE  OnTrack(t, next, Effect(d, c))
  <2>1. ASSUME NEW j \in DOMAIN s
        PROVE  s[j].do # "fail"
    <3>1. CASE j = 1
      BY <3>1 DEF Turns
    <3>2. CASE j # 1
      <4>1. j > 1
        BY <1>1, <3>2, TodoFacts
      <4>2. QED
        BY <1>4, <1>6, <4>1
    <3>3. QED
      BY <3>1, <3>2
  <2>2. OnTrack(s, now, Effect(d, c))
    BY <1>6, <2>1 DEF Working
  <2>3. QED
    BY <1>1, <1>2, <2>2, OnTrackTurn DEF t
<1>7. Working(t, d, c, next, gone)
  BY <1>3, <1>4, <1>5, <1>6 DEF Working, t
<1>8. QED
  BY <1>7 DEF t

(* What is done when the linker has failed.                                *)
LEMMA LinkRest ==
  ASSUME NEW p
  PROVE  LET t == Tidy(p) \o GivingUp
         IN  /\ t \in Seq(Range(t)) /\ Len(t) = 3 /\ DOMAIN t = 1 .. 3
             /\ t[1] = Op("tidy", Object(p), Nothing)
             /\ t[2] = Op("tidy", Runtime(p), Nothing)
             /\ t[3] = Op("fail", Nothing, Nothing)
<1> DEFINE a == Op("tidy", Object(p), Nothing)
           b == Op("tidy", Runtime(p), Nothing)
           e == Op("fail", Nothing, Nothing)
           S == {a, b, e}
           t == Tidy(p) \o GivingUp
<1>1. Tidy(p) = <<a, b>> /\ GivingUp = <<e>>
  BY DEF Tidy, GivingUp
<1>2. a \in S /\ b \in S /\ e \in S
  OBVIOUS
<1> HIDE DEF a, b, e, S
<1>3. /\ Tidy(p) \in Seq(S) /\ Len(Tidy(p)) = 2 /\ Tidy(p)[1] = a /\ Tidy(p)[2] = b
      /\ GivingUp \in Seq(S) /\ Len(GivingUp) = 1 /\ GivingUp[1] = e
  BY <1>1, <1>2
<1>4. /\ t \in Seq(S) /\ Len(t) = 2 + 1
      /\ \A i \in 1 .. 2 + 1 : t[i] = IF i <= 2 THEN Tidy(p)[i] ELSE GivingUp[i - 2]
  <2>1. /\ t \in Seq(S) /\ Len(t) = Len(Tidy(p)) + Len(GivingUp)
        /\ \A i \in 1 .. Len(Tidy(p)) + Len(GivingUp) :
             t[i] = IF i <= Len(Tidy(p)) THEN Tidy(p)[i] ELSE GivingUp[i - Len(Tidy(p))]
    <3>1. Tidy(p) \in Seq(S) /\ GivingUp \in Seq(S)
      BY <1>3
    <3>2. QED
      BY ONLY <3>1, ConcatProperties
  <2>2. QED
    BY <1>3, <2>1
<1> HIDE DEF t
<1>5. t[1] = a /\ t[2] = b /\ t[3] = e
  BY <1>3, <1>4
<1>6. t \in Seq(Range(t)) /\ DOMAIN t = 1 .. Len(t)
  BY <1>4, SeqOfRange, LenProperties
<1>7. QED
  BY <1>4, <1>5, <1>6 DEF t, a, b, e

(* A command that could not link is at work still.                         *)
LEMMA LinkFailedWorks ==
  ASSUME NEW s, NEW d, NEW c, NEW now, NEW gone, Working(s, d, c, now, gone), s # <<>>,
         NEW next, s[1].do = "link",
         \A q \in DOMAIN now \cup DOMAIN next :
           q # At(s[1].at) => q \in DOMAIN now \cap DOMAIN next /\ next[q] = now[q],
         At(s[1].at) \in DOMAIN next =>
           \/ At(s[1].at) \in DOMAIN now /\ next[At(s[1].at)] = now[At(s[1].at)]
           \/ next[At(s[1].at)] = <<s[1].new[1], <<>>>>
  PROVE  Working(Tidy(s[1].at) \o GivingUp, d, c, next, gone)
<1> DEFINE out == s[1].at
           t == Tidy(out) \o GivingUp
<1>1. /\ s \in Seq(Range(s)) /\ OrderOk(s, d, c) /\ Settled(s, d, c, now)
      /\ TargetsOnly(s, d, c) /\ Bounded(d, c, now)
  BY DEF Working
<1>2. /\ OpsOk(s) /\ Apart(s, d, c) /\ LinkOk(s, d, c)
      /\ 1 \in DOMAIN s /\ OpOk(s[1]) /\ DOMAIN s = 1 .. Len(s) /\ Len(s) \in Nat
  BY <1>1, TodoFacts DEF OrderOk, OpsOk
<1>3. out = Output(d, c)
  BY <1>2 DEF LinkOk
<1>4. ASSUME NEW p \in {Object(out), Runtime(out)}
      PROVE  /\ p \in Paths \ {Nothing}
             /\ At(p) # At(out)
             /\ At(p) \in Targets(d, c)
             /\ ~IsDir(now, p)
  <2>1. PICK j \in DOMAIN s : j > 1 /\ s[j] = Op("tidy", p, Nothing)
    BY <1>2, <1>3 DEF LinkOk
  <2>2. s[j].do = "tidy" /\ s[j].at = p
    BY <2>1 DEF Op
  <2>3. OpOk(s[j])
    BY <1>2, <2>1 DEF OpsOk
  <2>4. p \in Paths \ {Nothing}
    BY <2>2, <2>3 DEF OpOk
  <2>5. At(p) # At(out)
    BY <1>2, <1>3, <2>1, <2>2 DEF Apart
  <2>6. At(p) \in Targets(d, c)
    BY <1>1, <2>1, <2>2 DEF TargetsOnly, Removes
  <2>7. ~\E i \in DOMAIN s : i < j /\ s[i].do = "write" /\ At(s[i].at) = At(s[j].at)
    <3>1. ASSUME NEW i \in DOMAIN s
          PROVE  s[i].do # "write"
      <4>1. CASE i = 1
        BY <4>1
      <4>2. CASE i # 1
        <5>1. i > 1
          BY <1>2, <4>2
        <5>2. s[i].do \in {"tidy", "exec"}
          BY <1>2, <5>1 DEF LinkOk
        <5>3. QED
          BY <5>2
      <4>3. QED
        BY <4>1, <4>2
    <3>2. QED
      BY <3>1
  <2>8. ~IsDir(now, p)
    BY <1>1, <2>1, <2>2, <2>7 DEF Settled, TidyReady
  <2>9. QED
    BY <2>4, <2>5, <2>6, <2>8
<1>5. /\ t \in Seq(Range(t)) /\ Len(t) = 3 /\ DOMAIN t = 1 .. 3
      /\ t[1] = Op("tidy", Object(out), Nothing)
      /\ t[2] = Op("tidy", Runtime(out), Nothing)
      /\ t[3] = Op("fail", Nothing, Nothing)
  BY LinkRest
<1> HIDE DEF t
<1>6. ASSUME NEW i \in DOMAIN t
      PROVE  \/ \E p \in {Object(out), Runtime(out)} : t[i] = Op("tidy", p, Nothing)
             \/ t[i] = Op("fail", Nothing, Nothing)
  <2>1. i = 1 \/ i = 2 \/ i = 3
    BY <1>5
  <2>2. QED
    BY <1>5, <2>1
<1>7. ASSUME NEW i \in DOMAIN t
      PROVE  /\ OpOk(t[i])
             /\ t[i].do \in {"tidy", "fail"}
             /\ t[i].do = "tidy" =>
                  /\ At(t[i].at) # At(out) /\ At(t[i].at) \in Targets(d, c)
                  /\ ~IsDir(now, t[i].at)
  <2>1. CASE t[i] = Op("fail", Nothing, Nothing)
    BY <2>1 DEF Op, OpOk
  <2>2. CASE \E p \in {Object(out), Runtime(out)} : t[i] = Op("tidy", p, Nothing)
    <3>1. PICK p \in {Object(out), Runtime(out)} : t[i] = Op("tidy", p, Nothing)
      BY <2>2
    <3>2. t[i].do = "tidy" /\ t[i].at = p /\ t[i] = Op(t[i].do, t[i].at, t[i].new)
      BY <3>1 DEF Op
    <3>3. OpOk(t[i])
      BY <1>4, <3>2 DEF OpOk, Removes
    <3>4. QED
      BY <1>4, <3>2, <3>3
  <2>3. QED
    BY <1>6, <2>1, <2>2
<1>8. OrderOk(t, d, c)
  <2>1. OpsOk(t) /\ LinkOk(t, d, c) /\ ExecOk(t, d, c)
    BY <1>7 DEF OpsOk, LinkOk, ExecOk
  <2>2. Apart(t, d, c)
    BY <1>3, <1>7 DEF Apart
  <2>3. QED
    BY <2>1, <2>2 DEF OrderOk
<1>9. Settled(t, d, c, next)
  <2>1. FillReady(t, next) /\ ExecReady(t, d, c, next)
    BY <1>7 DEF FillReady, ExecReady
  <2>2. TidyReady(t, next)
    BY <1>7 DEF TidyReady, IsDir, Exists
  <2>3. QED
    BY <2>1, <2>2 DEF Settled
<1>10. TargetsOnly(t, d, c)
  BY <1>7 DEF TargetsOnly, Writes, Removes
<1>11. Bounded(d, c, next)
  <2>1. s[1].do \in Writes \ {"mkdir"}
    BY DEF Writes
  <2>2. At(out) \in Targets(d, c) /\ CutShort(s[1].new) \subseteq Written(d, c, At(out))
    BY <1>1, <1>2, <2>1 DEF TargetsOnly
  <2>3. CASE At(out) \in DOMAIN next /\ At(out) \in DOMAIN now /\ next[At(out)] = now[At(out)]
    BY <1>1, <2>3 DEF Bounded
  <2>4. CASE At(out) \in DOMAIN next => next[At(out)] = <<s[1].new[1], <<>>>>
    <3>1. At(out) \in DOMAIN next => next[At(out)] \in Written(d, c, At(out))
      BY <2>2, <2>4, ShortEnds
    <3>2. QED
      BY <1>1, <2>2, <3>1, BoundedStep
  <2>5. QED
    BY <2>3, <2>4
<1>12. \E i \in DOMAIN t : t[i].do = "fail"
  <2>1. 3 \in DOMAIN t /\ t[3].do = "fail"
    BY <1>5 DEF Op
  <2>2. QED
    BY <2>1
<1>13. Working(t, d, c, next, gone)
  BY <1>5, <1>8, <1>9, <1>10, <1>11, <1>12 DEF Working
<1>14. QED
  BY <1>13 DEF t

(***************************************************************************)
(* The invariant, action by action.                                        *)
(***************************************************************************)

(* A command at its next operation.                                        *)
LEMMA AtWork ==
  ASSUME IInv, status = "running", todo # <<>>
  PROVE  /\ IsTree(disk) /\ IsTree(before) /\ args \in Commands
         /\ Working(todo, before, args, disk, lost)
         /\ todo \in Seq(Range(todo)) /\ 1 \in DOMAIN todo
         /\ OrderOk(todo, before, args) /\ OpOk(todo[1])
         /\ Path = todo[1].at /\ New = todo[1].new
         /\ \A do : Doing(do) <=> todo[1].do = do
<1>1. /\ IsTree(disk) /\ IsTree(before) /\ args \in Commands
      /\ Working(todo, before, args, disk, lost)
  BY DEF IInv, TypeOK
<1>2. todo \in Seq(Range(todo)) /\ OrderOk(todo, before, args)
  BY <1>1 DEF Working
<1>3. 1 \in DOMAIN todo /\ Head(todo) = todo[1]
  BY <1>2, TodoFacts
<1>4. OpOk(todo[1])
  BY <1>2, <1>3 DEF OrderOk, OpsOk
<1>5. /\ Path = todo[1].at /\ New = todo[1].new
      /\ \A do : Doing(do) <=> todo[1].do = do
  BY <1>3 DEF Path, New, Doing
<1>6. QED
  BY <1>1, <1>2, <1>3, <1>4, <1>5

(* A command goes on.                                                      *)
LEMMA GoesOn ==
  ASSUME IInv, status = "running", UNCHANGED <<status, ran, args, before>>,
         IsTree(disk'), Working(todo', before, args, disk', lost')
  PROVE  IInv'
<1>1. TypeOK'
  BY DEF TypeOK
<1>2. IsTree(before')
  BY DEF IInv
<1>3. status' = "running" => args' \in Commands /\ Working(todo', before', args', disk', lost')
  BY DEF IInv
<1>4. ran' # Nothing =>
        args'.word = "run" /\ (Len(Output(before', args')) > 1 => ran' = Binary(before', args'))
  BY DEF IInv
<1>5. QED
  BY <1>1, <1>2, <1>3, <1>4 DEF IInv

(* A command returns.                                                      *)
LEMMA Ends ==
  ASSUME IInv, todo' = <<>>, status' \in {"ok", "failed"}, UNCHANGED <<ran, args, before>>,
         IsTree(disk')
  PROVE  IInv'
<1>1. TypeOK' /\ status' # "running"
  BY DEF TypeOK
<1>2. IsTree(before')
  BY DEF IInv
<1>3. ran' # Nothing =>
        args'.word = "run" /\ (Len(Output(before', args')) > 1 => ran' = Binary(before', args'))
  BY DEF IInv
<1>4. QED
  BY <1>1, <1>2, <1>3 DEF IInv

(* What Put and Drop change.                                               *)
LEMMA PutDone ==
  ASSUME NEW o, OpOk(o), o.do \in Writes, NEW x,
         \/ x = o.new
         \/ lost' /\ o.do = "fill" /\ x \in CutShort(o.new),
         disk' = Put(o.at, x)
  PROVE  Done(o, disk, disk', lost')
<1>1. /\ DOMAIN disk' = DOMAIN disk \cup {At(o.at)} /\ disk'[At(o.at)] = x
      /\ \A q \in DOMAIN disk : q # At(o.at) => disk'[q] = disk[q]
  <2>1. disk' = With(disk, At(o.at), x)
    BY DEF Put
  <2>2. QED
    BY ONLY <2>1 DEF With
<1>2. o.do \notin Removes
  BY DEF Writes, Removes
<1>3. QED
  BY <1>1, <1>2 DEF Done

(* An operation that removes its path is done when it is gone.             *)
LEMMA DropDone ==
  ASSUME NEW o, OpOk(o), o.do \in Removes, disk' = Drop(o.at)
  PROVE  Done(o, disk, disk', lost')
<1>1. /\ DOMAIN disk' = DOMAIN disk \ {At(o.at)}
      /\ \A q \in DOMAIN disk \ {At(o.at)} : disk'[q] = disk[q]
  BY WithoutFacts DEF Drop
<1>2. o.do \notin Writes
  BY DEF Writes, Removes
<1>3. QED
  BY <1>1, <1>2 DEF Done

(* An operation is finished and the command goes on with the next.         *)
LEMMA Continues ==
  ASSUME IInv, status = "running", todo # <<>>, Continue,
         todo[1].do \in (Writes \cup Removes) \ {"write"},
         Done(todo[1], disk, disk', lost'), IsTree(disk')
  PROVE  IInv'
<1>1. Working(todo, before, args, disk, lost)
  BY AtWork
<1>2. lost => lost'
  BY DEF Continue
<1>3. Working(Tail(todo), before, args, disk', lost')
  BY <1>1, <1>2, ContinueWorks
<1>4. todo' = Tail(todo) /\ UNCHANGED <<status, ran, args, before>>
  BY DEF Continue, Rest
<1>5. QED
  BY <1>3, <1>4, GoesOn

(* The directory is there, is made in one that is, or the command ends.    *)
LEMMA MakeDirStep == IInv /\ MakeDir => IInv'
<1> SUFFICES ASSUME IInv, MakeDir
             PROVE  IInv'
  OBVIOUS
<1>1. status = "running" /\ todo # <<>>
  BY DEF MakeDir, Doing
<1>2. /\ IsTree(disk) /\ OpOk(todo[1]) /\ Path = todo[1].at /\ todo[1].do = "mkdir"
  BY <1>1, AtWork DEF MakeDir
<1>3. /\ todo[1].at \in Paths \ {Nothing} /\ todo[1].new = Dir
      /\ todo[1].do \in (Writes \cup Removes) \ {"write"}
      /\ todo[1].do \in Writes /\ todo[1].do \notin Removes
  BY <1>2 DEF OpOk, Writes, Removes
<1>4. CASE IsDir(disk, Path) /\ Continue /\ UNCHANGED disk
  <2>1. Done(todo[1], disk, disk', lost')
    BY <1>2, <1>3, <1>4 DEF Done, IsDir, Exists
  <2>2. QED
    BY <1>1, <1>2, <1>3, <1>4, <2>1, Continues
<1>5. CASE ~Exists(disk, Path) /\ IsDir(disk, Dirname(Path)) /\ Continue /\ disk' = Put(Path, Dir)
  <2>1. Done(todo[1], disk, disk', lost')
    BY <1>2, <1>3, <1>5, PutDone
  <2>2. IsContent(Dir) /\ ~IsDir(disk, Path)
    BY <1>5 DEF IsContent, Dir, Kinds, IsDir
  <2>3. IsTree(disk')
    BY <1>2, <1>3, <1>5, <2>2, PutTree DEF Put
  <2>4. QED
    BY <1>1, <1>3, <1>5, <2>1, <2>3, Continues
<1>6. CASE ~IsDir(disk, Path) /\ Fail /\ UNCHANGED disk
  BY <1>2, <1>6, Ends DEF Fail, Give, Rest
<1>7. QED
  BY <1>4, <1>5, <1>6 DEF MakeDir

(* The operation at hand goes on.                                          *)
LEMMA TurnsTo ==
  ASSUME IInv, status = "running", todo # <<>>, NEW do, Turn(do), Turns(todo[1].do, do),
         Opened(todo[1], do, disk, disk'), IsTree(disk')
  PROVE  IInv'
<1>1. Working(todo, before, args, disk, lost)
  BY AtWork
<1>2. Working([todo EXCEPT ![1].do = do], before, args, disk', lost)
  BY <1>1, TurnWorks
<1>3. /\ todo' = [todo EXCEPT ![1].do = do]
      /\ UNCHANGED <<status, ran, args, before, lost>>
  BY DEF Turn, Rest
<1>4. Working(todo', before, args, disk', lost')
  BY <1>2, <1>3
<1>5. QED
  BY <1>3, <1>4, GoesOn

(* The file is as it should be, or it will be written.                     *)
LEMMA PutFileStep == IInv /\ PutFile => IInv'
<1> SUFFICES ASSUME IInv, PutFile
             PROVE  IInv'
  OBVIOUS
<1>1. status = "running" /\ todo # <<>> /\ disk' = disk
  BY DEF PutFile, Doing
<1>2. /\ IsTree(disk) /\ OpOk(todo[1]) /\ Path = todo[1].at /\ New = todo[1].new
      /\ todo[1].do = "put"
  BY <1>1, AtWork DEF PutFile
<1>3. CASE Exists(disk, Path) /\ disk[At(Path)] = New /\ Continue
  <2>1. /\ todo[1].do \in (Writes \cup Removes) \ {"write"}
        /\ todo[1].do \in Writes /\ todo[1].do \notin Removes
    BY <1>2 DEF Writes, Removes
  <2>2. Done(todo[1], disk, disk', lost')
    BY <1>1, <1>2, <1>3, <2>1 DEF Done, Exists
  <2>3. QED
    BY <1>1, <1>2, <1>3, <2>1, <2>2, Continues
<1>4. CASE Turn("write")
  <2>1. Turns(todo[1].do, "write")
    BY <1>2 DEF Turns
  <2>2. Opened(todo[1], "write", disk, disk')
    BY <1>1 DEF Opened
  <2>3. QED
    BY <1>1, <1>2, <1>4, <2>1, <2>2, TurnsTo
<1>5. QED
  BY <1>3, <1>4 DEF PutFile

(* The file is cut to nothing, where a file may be.                        *)
LEMMA OpenStep == IInv /\ Open => IInv'
<1> SUFFICES ASSUME IInv, Open
             PROVE  IInv'
  OBVIOUS
<1>1. status = "running" /\ todo # <<>>
  BY DEF Open, Doing
<1>2. /\ IsTree(disk) /\ OpOk(todo[1]) /\ Path = todo[1].at /\ New = todo[1].new
      /\ todo[1].do = "write"
  BY <1>1, AtWork DEF Open
<1>3. CASE Writable(Path) /\ disk' = Put(Path, <<New[1], <<>>>>) /\ Turn("fill")
  <2> DEFINE x == <<New[1], <<>>>>
  <2>1. IsContent(x)
    <3>1. IsContent(New) /\ New[1] # "dir"
      BY <1>2 DEF OpOk
    <3>2. QED
      BY <3>1, ShortContent, ShortEnds
  <2>2. todo[1].at \in Paths \ {Nothing}
    BY <1>2 DEF OpOk
  <2>3. IsTree(disk')
    BY <1>2, <1>3, <2>1, <2>2, PutTree DEF Put, Writable
  <2>4. /\ DOMAIN disk' = DOMAIN disk \cup {At(Path)} /\ disk'[At(Path)] = x
        /\ \A q \in DOMAIN disk : q # At(Path) => disk'[q] = disk[q]
    <3>1. disk' = With(disk, At(Path), x)
      BY <1>3 DEF Put
    <3>2. QED
      BY ONLY <3>1 DEF With
  <2>5. x # Dir
    BY <1>2 DEF OpOk, Dir
  <2>6. IsFile(disk', Path)
    <3>1. Last(Path) # Here
      BY <1>2, <1>3, <2>2, WritePlace DEF Writable
    <3>2. QED
      BY <2>4, <2>5, <3>1 DEF IsFile, Exists
  <2>7. Opened(todo[1], "fill", disk, disk') /\ Turns(todo[1].do, "fill")
    BY <1>2, <2>4, <2>6 DEF Opened, Turns
  <2>8. QED
    BY <1>1, <1>3, <2>3, <2>7, TurnsTo
<1>4. CASE Fail /\ UNCHANGED disk
  BY <1>2, <1>4, Ends DEF Fail, Give, Rest
<1>5. QED
  BY <1>3, <1>4 DEF Open

(* The file at hand is open.                                               *)
LEMMA Filling ==
  ASSUME IInv, Doing("fill")
  PROVE  /\ status = "running" /\ todo # <<>> /\ IsTree(disk) /\ OpOk(todo[1])
         /\ Path = todo[1].at /\ New = todo[1].new /\ todo[1].do = "fill"
         /\ Path \in Paths \ {Nothing} /\ IsFile(disk, Path)
         /\ IsContent(New) /\ New[1] # "dir"
         /\ \A x : IsContent(x) => IsTree(Put(Path, x))
<1>1. status = "running" /\ todo # <<>>
  BY DEF Doing
<1>2. /\ IsTree(disk) /\ OpOk(todo[1]) /\ Path = todo[1].at /\ New = todo[1].new
      /\ todo[1].do = "fill" /\ 1 \in DOMAIN todo
      /\ Working(todo, before, args, disk, lost)
  BY <1>1, AtWork
<1>3. IsFile(disk, Path)
  BY <1>2 DEF Working, Settled, FillReady
<1>4. Path \in Paths \ {Nothing} /\ IsContent(New) /\ New[1] # "dir"
  BY <1>2 DEF OpOk
<1>5. ASSUME NEW x, IsContent(x)
      PROVE  IsTree(Put(Path, x))
  BY <1>2, <1>3, <1>4, <1>5, RefillTree DEF Put
<1>6. QED
  BY <1>1, <1>2, <1>3, <1>4, <1>5

(* The file holds what it should.                                          *)
LEMMA FillStep == IInv /\ Fill => IInv'
<1> SUFFICES ASSUME IInv, Fill
             PROVE  IInv'
  OBVIOUS
<1>1. disk' = Put(Path, New) /\ Continue /\ Doing("fill")
  BY DEF Fill
<1>2. /\ status = "running" /\ todo # <<>> /\ OpOk(todo[1])
      /\ Path = todo[1].at /\ New = todo[1].new /\ todo[1].do = "fill"
      /\ IsTree(disk')
  BY <1>1, Filling
<1>3. todo[1].do \in (Writes \cup Removes) \ {"write"} /\ todo[1].do \in Writes
  BY <1>2 DEF Writes
<1>4. Done(todo[1], disk, disk', lost')
  BY <1>1, <1>2, <1>3, PutDone
<1>5. QED
  BY <1>1, <1>2, <1>3, <1>4, Continues

(* The file is cut short, and the command ends with an error.              *)
LEMMA FillErrorStep == IInv /\ FillError => IInv'
<1> SUFFICES ASSUME IInv, FillError
             PROVE  IInv'
  OBVIOUS
<1>1. PICK short \in CutShort(New) \ {New} : disk' = Put(Path, short)
  BY DEF FillError
<1>2. Doing("fill") /\ Fail
  BY DEF FillError
<1>3. IsContent(New) /\ New[1] # "dir" /\ \A x : IsContent(x) => IsTree(Put(Path, x))
  BY <1>2, Filling
<1>4. IsContent(short)
  BY <1>1, <1>3, ShortContent
<1>5. IsTree(disk')
  BY <1>1, <1>3, <1>4
<1>6. QED
  BY <1>2, <1>5, Ends DEF Fail, Give, Rest

(* The file is cut short, and nobody notices: nothing is on track.         *)
LEMMA FillLostStep == IInv /\ FillLost => IInv'
<1> SUFFICES ASSUME IInv, FillLost
             PROVE  IInv'
  OBVIOUS
<1>1. PICK short \in CutShort(New) \ {New} : disk' = Put(Path, short)
  BY DEF FillLost
<1>2. /\ Doing("fill") /\ lost' /\ todo' = Tail(todo)
      /\ UNCHANGED <<status, ran, args, before>>
  BY DEF FillLost, Rest
<1>3. /\ status = "running" /\ todo # <<>> /\ OpOk(todo[1])
      /\ Path = todo[1].at /\ New = todo[1].new /\ todo[1].do = "fill"
      /\ IsContent(New) /\ New[1] # "dir" /\ \A x : IsContent(x) => IsTree(Put(Path, x))
  BY <1>2, Filling
<1>4. IsTree(disk')
  <2>1. IsContent(short)
    BY <1>1, <1>3, ShortContent
  <2>2. QED
    BY <1>1, <1>3, <2>1
<1>5. todo[1].do \in (Writes \cup Removes) \ {"write"} /\ todo[1].do \in Writes
  BY <1>3 DEF Writes
<1>6. Done(todo[1], disk, disk', lost')
  BY <1>1, <1>2, <1>3, <1>5, PutDone
<1>7. Working(todo, before, args, disk, lost)
  BY <1>3, AtWork
<1>8. Working(todo', before, args, disk', lost')
  BY <1>2, <1>3, <1>5, <1>6, <1>7, ContinueWorks
<1>9. QED
  BY <1>2, <1>3, <1>4, <1>8, GoesOn

(* The binary is there, or object, runtime and an error are left to do.    *)
LEMMA LinkStep == IInv /\ Link => IInv'
<1> SUFFICES ASSUME IInv, Link
             PROVE  IInv'
  OBVIOUS
<1>1. status = "running" /\ todo # <<>>
  BY DEF Link, Doing
<1>2. /\ IsTree(disk) /\ OpOk(todo[1]) /\ Path = todo[1].at /\ New = todo[1].new
      /\ todo[1].do = "link" /\ Working(todo, before, args, disk, lost)
  BY <1>1, AtWork DEF Link
<1>3. /\ Path \in Paths \ {Nothing} /\ IsContent(New) /\ New[1] # "dir"
      /\ todo[1].do \in (Writes \cup Removes) \ {"write"} /\ todo[1].do \in Writes
  BY <1>2 DEF OpOk, Writes
<1>4. ASSUME NEW x, IsContent(x), Writable(Path)
      PROVE  IsTree(Put(Path, x))
  BY <1>2, <1>3, <1>4, PutTree DEF Put, Writable
<1>5. CASE Linked
  <2>1. disk' = Put(Path, New) /\ Continue /\ Writable(Path)
    BY <1>5 DEF Linked
  <2>2. Done(todo[1], disk, disk', lost')
    BY <1>2, <1>3, <2>1, PutDone
  <2>3. QED
    BY <1>1, <1>3, <1>4, <2>1, <2>2, Continues
<1>6. CASE LinkFailed
  <2> DEFINE q1 == At(Path)
             x == <<New[1], <<>>>>
  <2>1. /\ todo' = Tidy(Path) \o GivingUp
        /\ UNCHANGED <<status, ran, args, before, lost>>
    BY <1>6 DEF LinkFailed, Rest
  <2>2. \/ UNCHANGED disk
        \/ Writable(Path) /\ disk' = Drop(Path)
        \/ Writable(Path) /\ disk' = Put(Path, x)
    BY <1>6 DEF LinkFailed
  <2>3. /\ \A q \in DOMAIN disk \cup DOMAIN disk' :
             q # q1 => q \in DOMAIN disk \cap DOMAIN disk' /\ disk'[q] = disk[q]
        /\ q1 \in DOMAIN disk' => \/ q1 \in DOMAIN disk /\ disk'[q1] = disk[q1]
                                  \/ disk'[q1] = x
        /\ IsTree(disk')
    <3>1. CASE UNCHANGED disk
      BY <1>2, <3>1
    <3>2. CASE Writable(Path) /\ disk' = Drop(Path)
      <4>1. DOMAIN disk' = DOMAIN disk \ {q1} /\ \A q \in DOMAIN disk \ {q1} : disk'[q] = disk[q]
        BY <3>2, WithoutFacts DEF Drop
      <4>2. q1 \in DOMAIN disk => disk[q1] # Dir
        BY <3>2 DEF Writable, IsDir, Exists
      <4>3. IsTree(disk')
        BY <1>2, <3>2, <4>2, FileTree DEF Drop
      <4>4. QED
        BY <4>1, <4>3
    <3>3. CASE Writable(Path) /\ disk' = Put(Path, x)
      <4>1. disk' = With(disk, q1, x)
        BY <3>3 DEF Put
      <4>2. /\ DOMAIN disk' = DOMAIN disk \cup {q1} /\ disk'[q1] = x
            /\ \A q \in DOMAIN disk : q # q1 => disk'[q] = disk[q]
        BY ONLY <4>1 DEF With
      <4>3. IsContent(x)
        BY <1>3, ShortContent, ShortEnds
      <4>4. IsTree(disk')
        BY <1>4, <3>3, <4>3
      <4>5. QED
        BY <4>2, <4>4
    <3>4. QED
      BY <2>2, <3>1, <3>2, <3>3
  <2> HIDE DEF q1, x
  <2>4. Working(Tidy(todo[1].at) \o GivingUp, before, args, disk', lost)
    BY <1>1, <1>2, <2>3, LinkFailedWorks DEF q1, x
  <2>5. Working(todo', before, args, disk', lost')
    BY <1>2, <2>1, <2>4
  <2>6. QED
    BY <1>1, <2>1, <2>3, <2>5, GoesOn
<1>7. QED
  BY <1>5, <1>6 DEF Link

(* Object or runtime is removed.                                           *)
LEMMA TidiesStep == IInv /\ Tidies => IInv'
<1> SUFFICES ASSUME IInv, Tidies
             PROVE  IInv'
  OBVIOUS
<1>1. status = "running" /\ todo # <<>> /\ disk' = Drop(Path) /\ Continue
  BY DEF Tidies, Doing
<1>2. /\ IsTree(disk) /\ OpOk(todo[1]) /\ Path = todo[1].at /\ 1 \in DOMAIN todo
      /\ todo[1].do = "tidy" /\ Working(todo, before, args, disk, lost)
  BY <1>1, AtWork DEF Tidies
<1>3. todo[1].do \in (Writes \cup Removes) \ {"write"} /\ todo[1].do \in Removes
  BY <1>2 DEF Removes
<1>4. ~IsDir(disk, Path)
  <2>1. TidyReady(todo, disk)
    BY <1>2 DEF Working, Settled
  <2>2. ~\E i \in DOMAIN todo : i < 1 /\ todo[i].do = "write"
    <3>1. todo \in Seq(Range(todo))
      BY <1>1, AtWork
    <3>2. DOMAIN todo = 1 .. Len(todo) /\ Len(todo) \in Nat
      BY <1>1, <3>1, TodoFacts
    <3>3. QED
      BY <3>2
  <2>3. QED
    BY <1>2, <2>1, <2>2 DEF TidyReady
<1>5. IsTree(disk')
  BY <1>1, <1>2, <1>4, FileTree DEF Drop, IsDir, Exists
<1>6. Done(todo[1], disk, disk', lost')
  BY <1>1, <1>2, <1>3, DropDone
<1>7. QED
  BY <1>1, <1>3, <1>5, <1>6, Continues

(* What is removed is a file or an empty directory, or the command ends.   *)
LEMMA RemoveFileStep == IInv /\ RemoveFile => IInv'
<1> SUFFICES ASSUME IInv, RemoveFile
             PROVE  IInv'
  OBVIOUS
<1>1. status = "running" /\ todo # <<>>
  BY DEF RemoveFile, Doing
<1>2. /\ IsTree(disk) /\ OpOk(todo[1]) /\ Path = todo[1].at /\ todo[1].do = "remove"
  BY <1>1, AtWork DEF RemoveFile
<1>3. /\ Path \in Paths \ {Nothing} /\ todo[1].do \in (Writes \cup Removes) \ {"write"}
      /\ todo[1].do \in Removes /\ todo[1].do \notin Writes
  BY <1>2 DEF OpOk, Writes, Removes
<1>4. CASE ~Exists(disk, Path) /\ ~Blocked(disk, Path) /\ Continue /\ UNCHANGED disk
  <2>1. Done(todo[1], disk, disk', lost')
    BY <1>2, <1>3, <1>4, Absent DEF Done
  <2>2. QED
    BY <1>1, <1>2, <1>3, <1>4, <2>1, Continues
<1>5. CASE Removable(Path) /\ Continue /\ disk' = Drop(Path)
  <2>1. Done(todo[1], disk, disk', lost')
    BY <1>2, <1>3, <1>5, DropDone
  <2>2. IsTree(disk')
    BY <1>2, <1>3, <1>5, RemovedTree DEF Drop, Removable
  <2>3. QED
    BY <1>1, <1>3, <1>5, <2>1, <2>2, Continues
<1>6. CASE (Exists(disk, Path) \/ Blocked(disk, Path)) /\ Fail /\ UNCHANGED disk
  BY <1>2, <1>6, Ends DEF Fail, Give, Rest
<1>7. QED
  BY <1>4, <1>5, <1>6 DEF RemoveFile

(* The binary is executed when it stands there.                            *)
LEMMA ExecStep == IInv /\ Exec => IInv'
<1> SUFFICES ASSUME IInv, Exec
             PROVE  IInv'
  OBVIOUS
<1>1. /\ status = "running" /\ todo # <<>> /\ todo' = <<>> /\ status' \in {"ok", "failed"}
      /\ ran' \in Found(Path) /\ UNCHANGED <<disk, args, before>>
  BY DEF Exec, Doing, Rest
<1>2. /\ IsTree(disk) /\ IsTree(before) /\ Path = todo[1].at /\ 1 \in DOMAIN todo
      /\ todo[1].do = "exec" /\ Working(todo, before, args, disk, lost)
  BY <1>1, AtWork DEF Exec
<1>3. args.word = "run" /\ Path = Output(before, args)
  BY <1>2 DEF Working, OrderOk, ExecOk
<1>4. disk[At(Path)] = Binary(before, args)
  <2>1. todo \in Seq(Range(todo))
    BY <1>1, AtWork
  <2>2. DOMAIN todo = 1 .. Len(todo) /\ Len(todo) \in Nat
    BY <1>1, <2>1, TodoFacts
  <2>3. ~\E i \in DOMAIN todo : i < 1
    BY <2>2
  <2>4. ExecReady(todo, before, args, disk)
    BY <1>2 DEF Working, Settled
  <2>5. QED
    BY <1>2, <2>3, <2>4 DEF ExecReady
<1>5. ASSUME ran' # Nothing, Len(Output(before, args)) > 1
      PROVE  ran' = Binary(before, args)
  <2>1. Len(Path) # 1
    <3>1. Path \in Seq(Names)
      BY <1>1, <1>2, AtWork DEF OpOk, Paths
    <3>2. Len(Path) \in Nat
      BY <3>1, LenProperties
    <3>3. Len(Path) > 1
      BY <1>3, <1>5
    <3>4. \A n \in Nat : n > 1 => n # 1
      OBVIOUS
    <3>5. QED
      BY <3>2, <3>3, <3>4
  <2>2. QED
    BY <1>1, <1>4, <1>5, <2>1 DEF Found
<1>6. TypeOK' /\ status' # "running"
  BY <1>1, <1>2 DEF TypeOK
<1>7. IsTree(before')
  BY <1>1, <1>2
<1>8. ran' # Nothing =>
        args'.word = "run" /\ (Len(Output(before', args')) > 1 => ran' = Binary(before', args'))
  BY <1>1, <1>3, <1>5
<1>9. QED
  BY <1>6, <1>7, <1>8 DEF IInv

(* A command that has returned has nothing left to do.                     *)
LEMMA ReturnStep == IInv /\ (Finish \/ GiveUp \/ Killed) => IInv'
<1> SUFFICES ASSUME IInv, Finish \/ GiveUp \/ Killed
             PROVE  IInv'
  OBVIOUS
<1>1. /\ todo' = <<>> /\ status' \in {"ok", "failed"} /\ UNCHANGED <<ran, args, before, disk>>
  BY DEF Finish, GiveUp, Killed, Fail, Give, Rest
<1>2. IsTree(disk')
  BY <1>1 DEF IInv, TypeOK
<1>3. QED
  BY <1>1, <1>2, Ends

(* What the user writes is a text where one was.                           *)
LEMMA EditTree ==
  ASSUME NEW d, IsTree(d), NEW p \in DOMAIN d, d[p][1] = "text", NEW cs
  PROVE  IsTree([d EXCEPT ![p] = <<"text", cs>>])
<1> DEFINE x == <<"text", cs>>
<1>1. /\ DOMAIN d \subseteq Paths /\ d[Nothing] = Dir
      /\ \A q \in DOMAIN d \ {Nothing} : Front(q) \in DOMAIN d /\ d[Front(q)] = Dir
  BY TreeFacts
<1>2. Dir[1] = "dir"
  BY DEF Dir
<1>3. p # Nothing /\ d[p] # Dir
  BY <1>1, <1>2
<1>4. IsContent(x)
  BY DEF IsContent, Kinds
<1>5. [d EXCEPT ![p] = x] = With(d, p, x)
  <2>1. DOMAIN d \cup {p} = DOMAIN d
    OBVIOUS
  <2>2. With(d, p, x) = [q \in DOMAIN d |-> IF q = p THEN x ELSE d[q]]
    BY <2>1 DEF With
  <2>3. QED
    BY <2>2
<1>6. IsTree(With(d, p, x))
  BY <1>1, <1>3, <1>4, WithTree
<1>7. QED
  BY <1>5, <1>6

(* The user writes between two commands.                                   *)
LEMMA EditStep == IInv /\ Edit => IInv'
<1> SUFFICES ASSUME IInv, Edit
             PROVE  IInv'
  OBVIOUS
<1>1. /\ status # "running" /\ before' = disk' /\ status' = "none" /\ ran' = Nothing
      /\ todo' = todo
  BY DEF Edit
<1>2. IsTree(disk) /\ todo = <<>>
  BY <1>1 DEF IInv, TypeOK
<1>3. IsTree(disk')
  <2>1. PICK p \in DOMAIN disk, cs \in Texts :
               disk[p][1] = "text" /\ disk' = [disk EXCEPT ![p] = <<"text", cs>>]
    BY DEF Edit
  <2>2. QED
    BY <1>2, <2>1, EditTree
<1>4. TypeOK'
  BY <1>1, <1>2, <1>3 DEF TypeOK
<1>5. QED
  BY <1>1, <1>3, <1>4 DEF IInv

(***************************************************************************)
(* What a command sets out to do.                                          *)
(***************************************************************************)

(* What Written allows.                                                    *)
LEMMA WrittenPlain ==
  ASSUME NEW d, NEW c, NEW p, p \in DOMAIN Effect(d, c),
         c.word \in Building /\ Resolves(d, c) => p \notin Litter(d, c)
  PROVE  CutShort(Effect(d, c)[p]) \subseteq Written(d, c, p)
BY DEF Written

(* What a build may leave in the places of its object and runtime.         *)
LEMMA WrittenBuilt ==
  ASSUME NEW d, NEW c, c.word \in Building, Resolves(d, c)
  PROVE  /\ Dir \in Written(d, c, At(Dirname(Output(d, c))))
         /\ \A p \in Litter(d, c) :
              /\ CutShort(<<"object", <<"object">>>>) \subseteq Written(d, c, p)
              /\ CutShort(<<"runtime", <<"runtime">>>>) \subseteq Written(d, c, p)
<1>1. Dir \in Written(d, c, At(Dirname(Output(d, c))))
  BY DEF Written
<1>2. ASSUME NEW p \in Litter(d, c), NEW kind \in {"object", "runtime"}
      PROVE  CutShort(<<kind, <<kind>>>>) \subseteq Written(d, c, p)
  BY DEF Written
<1>3. QED
  BY <1>1, <1>2

(* Nothing has been changed at first.                                      *)
LEMMA BoundedFirst ==
  ASSUME NEW d, NEW c
  PROVE  Bounded(d, c, d)
BY DEF Bounded

(* A command that makes directories, writes or removes files, and nothing  *)
(* else.                                                                   *)
LEMMA PlainPlan ==
  ASSUME NEW d, NEW c, NEW s, s \in Seq(Range(s)),
         \A i \in DOMAIN s :
           /\ OpOk(s[i]) /\ s[i].do \in {"mkdir", "put", "remove"}
           /\ At(s[i].at) \in Targets(d, c)
           /\ s[i].do = "mkdir" => Dir \in Written(d, c, At(s[i].at))
           /\ s[i].do = "put" => CutShort(s[i].new) \subseteq Written(d, c, At(s[i].at)),
         OnTrack(s, d, Effect(d, c))
  PROVE  Working(s, d, c, d, FALSE)
<1>1. OrderOk(s, d, c)
  <2>1. OpsOk(s)
    BY DEF OpsOk
  <2>2. Apart(s, d, c) /\ LinkOk(s, d, c) /\ ExecOk(s, d, c)
    BY DEF Apart, LinkOk, ExecOk
  <2>3. QED
    BY <2>1, <2>2 DEF OrderOk
<1>2. Settled(s, d, c, d)
  BY DEF Settled, FillReady, TidyReady, ExecReady
<1>3. TargetsOnly(s, d, c)
  BY DEF TargetsOnly, Writes
<1>4. QED
  BY <1>1, <1>2, <1>3, BoundedFirst DEF Working

(* A command with one operation.                                           *)
LEMMA SinglePlan ==
  ASSUME NEW d, NEW c, NEW o, OpOk(o), o.do \in {"put", "remove"},
         At(o.at) \in Targets(d, c),
         o.do = "put" => CutShort(o.new) \subseteq Written(d, c, At(o.at)),
         Agrees(o, Effect(d, c)),
         \A q \in DOMAIN d \cup DOMAIN Effect(d, c) :
           q # At(o.at) => q \in DOMAIN d \cap DOMAIN Effect(d, c) /\ d[q] = Effect(d, c)[q]
  PROVE  Working(<<o>>, d, c, d, FALSE)
<1> DEFINE s == <<o>>
<1>1. s \in Seq({o}) /\ Len(s) = 1 /\ s[1] = o
  OBVIOUS
<1> HIDE DEF s
<1>2. s \in Seq(Range(s)) /\ DOMAIN s = 1 .. 1
  BY <1>1, SeqOfRange, LenProperties
<1>3. 1 \in DOMAIN s /\ \A i \in DOMAIN s : i = 1 /\ s[i] = o
  BY <1>1, <1>2
<1>4. Touches(o, At(o.at))
  BY DEF Touches, Writes, Removes
<1>5. OnTrack(s, d, Effect(d, c))
  BY <1>3, <1>4 DEF OnTrack
<1>6. Working(s, d, c, d, FALSE)
  BY <1>2, <1>3, <1>5, PlainPlan
<1>7. QED
  BY <1>6 DEF s

(* What fmt sets out to do leads to its effect.                            *)
LEMMA FmtPlan ==
  ASSUME NEW d, IsTree(d), NEW c \in Commands, c.word = "fmt", Ready(d, c)
  PROVE  Working(Ops(d, c), d, c, d, FALSE)
<1> DEFINE src == Source(d, c)
           new == <<"text", Formatted(CString(SourceFile(d, c)))>>
           o == Op("put", src, new)
<1>1. Ops(d, c) = <<o>>
  BY DEF Ops, FmtOps
<1>2. Resolves(d, c)
  BY DEF Ready
<1>3. src \in Paths \ {Nothing}
  BY <1>2, SourceTypes
<1>4. IsContent(new) /\ new[1] = "text"
  BY DEF IsContent, Kinds
<1>5. Effect(d, c) = With(d, At(src), new)
  BY DEF Effect, Building
<1>6. Targets(d, c) = {At(src)}
  BY <1>2 DEF Targets, Building
<1> HIDE DEF src, new
<1>7. o.do = "put" /\ o.at = src /\ o.new = new /\ o = Op(o.do, o.at, o.new)
  BY DEF Op
<1> HIDE DEF o
<1>8. OpOk(o)
  BY <1>3, <1>4, <1>7 DEF OpOk, Writes
<1>9. /\ At(src) \in DOMAIN Effect(d, c) /\ Effect(d, c)[At(src)] = new
      /\ \A q \in DOMAIN d \cup DOMAIN Effect(d, c) :
           q # At(src) => q \in DOMAIN d \cap DOMAIN Effect(d, c) /\ d[q] = Effect(d, c)[q]
  BY <1>5 DEF With
<1>10. CutShort(new) \subseteq Written(d, c, At(src))
  <2>1. c.word \notin Building
    BY DEF Building
  <2>2. QED
    BY <1>9, <2>1, WrittenPlain
<1>11. Agrees(o, Effect(d, c))
  BY <1>7, <1>9 DEF Agrees, Removes
<1>12. Working(<<o>>, d, c, d, FALSE)
  BY <1>6, <1>7, <1>8, <1>9, <1>10, <1>11, SinglePlan
<1>13. QED
  BY <1>1, <1>12

(* What clean sets out to do leads to its effect.                          *)
LEMMA CleanPlan ==
  ASSUME NEW d, IsTree(d), NEW c \in Commands, c.word = "clean", Ready(d, c)
  PROVE  Working(Ops(d, c), d, c, d, FALSE)
<1> DEFINE out == Output(d, c)
           o == Op("remove", out, Nothing)
<1>1. Ops(d, c) = <<o>>
  BY DEF Ops, CleanOps
<1>2. Resolves(d, c)
  BY DEF Ready
<1>3. out \in Paths \ {Nothing}
  BY <1>2, OutputTypes
<1>4. Effect(d, c) = Without(d, {At(out)})
  BY DEF Effect, Building
<1>5. Targets(d, c) = {At(out)}
  BY <1>2 DEF Targets, Building
<1> HIDE DEF out
<1>6. o.do = "remove" /\ o.at = out /\ o.new = Nothing /\ o = Op(o.do, o.at, o.new)
  BY DEF Op
<1> HIDE DEF o
<1>7. OpOk(o)
  BY <1>3, <1>6 DEF OpOk, Removes
<1>8. /\ At(out) \notin DOMAIN Effect(d, c)
      /\ \A q \in DOMAIN d \cup DOMAIN Effect(d, c) :
           q # At(out) => q \in DOMAIN d \cap DOMAIN Effect(d, c) /\ d[q] = Effect(d, c)[q]
  BY <1>4 DEF Without
<1>9. Agrees(o, Effect(d, c))
  BY <1>6, <1>8 DEF Agrees, Writes
<1>10. Working(<<o>>, d, c, d, FALSE)
  BY <1>5, <1>6, <1>7, <1>8, <1>9, SinglePlan
<1>11. QED
  BY <1>1, <1>10

(* A command that gives up at once, and one that touches no file.          *)
LEMMA NoPlan ==
  ASSUME NEW d, NEW c, ~Ready(d, c)
  PROVE  Working(Ops(d, c), d, c, d, FALSE)
<1> DEFINE o == Op("fail", Nothing, Nothing)
           s == <<o>>
<1>1. Ops(d, c) = s
  BY DEF Ops, GivingUp
<1>2. o.do = "fail" /\ o = Op(o.do, o.at, o.new)
  BY DEF Op
<1> HIDE DEF o
<1>3. s \in Seq({o}) /\ Len(s) = 1 /\ s[1] = o
  OBVIOUS
<1> HIDE DEF s
<1>4. s \in Seq(Range(s)) /\ DOMAIN s = 1 .. 1
  BY <1>3, SeqOfRange, LenProperties
<1>5. 1 \in DOMAIN s /\ \A i \in DOMAIN s : i = 1 /\ s[i] = o
  BY <1>3, <1>4
<1>6. OrderOk(s, d, c)
  <2>1. OpsOk(s)
    BY <1>2, <1>5 DEF OpsOk, OpOk
  <2>2. Apart(s, d, c) /\ LinkOk(s, d, c) /\ ExecOk(s, d, c)
    BY <1>2, <1>5 DEF Apart, LinkOk, ExecOk
  <2>3. QED
    BY <2>1, <2>2 DEF OrderOk
<1>7. Settled(s, d, c, d)
  BY <1>2, <1>5 DEF Settled, FillReady, TidyReady, ExecReady
<1>8. TargetsOnly(s, d, c)
  BY <1>2, <1>5 DEF TargetsOnly, Writes, Removes
<1>9. \E i \in DOMAIN s : s[i].do = "fail"
  BY <1>2, <1>5
<1>10. Working(s, d, c, d, FALSE)
  BY <1>4, <1>6, <1>7, <1>8, <1>9, BoundedFirst DEF Working
<1>11. QED
  BY <1>1, <1>10

(* A command that changes nothing sets out to do nothing.                  *)
LEMMA OtherPlan ==
  ASSUME NEW d, NEW c, Ready(d, c), c.word \notin {"init", "fmt", "clean", "build", "run"}
  PROVE  Working(Ops(d, c), d, c, d, FALSE)
<1>1. Ops(d, c) = <<>>
  BY DEF Ops
<1>2. Effect(d, c) = d
  BY DEF Effect, Building
<1> DEFINE s == <<>>
<1>3. s \in Seq(Range(s)) /\ DOMAIN s = {}
  BY EmptySeq
<1> HIDE DEF s
<1>4. OnTrack(s, d, Effect(d, c))
  BY <1>2, <1>3 DEF OnTrack
<1>5. Working(s, d, c, d, FALSE)
  BY <1>3, <1>4, PlainPlan
<1>6. QED
  BY <1>1, <1>5 DEF s

(* The night.toml of a name.                                               *)
LEMMA TomlContent ==
  ASSUME NEW name \in Names
  PROVE  IsContent(TomlOf(name)) /\ TomlOf(name)[1] = "toml"
<1> DEFINE a == <<"section", "package">>
           b == <<"name", name>>
           e == <<"section", "build">>
           f == <<"entry", <<<<"src">>, <<"main", "afns">>>>>>
           g == <<"output", <<name>>>>
<1>1. a \in TomlLines /\ e \in TomlLines
  <2>1. a \in {"section", "broken"} \X Sections /\ e \in {"section", "broken"} \X Sections
    BY DEF Sections
  <2>2. QED
    BY <2>1 DEF TomlLines
<1>2. b \in TomlLines
  <2>1. b \in {"name"} \X Names
    OBVIOUS
  <2>2. QED
    BY <2>1 DEF TomlLines
<1>3. f \in TomlLines
  <2> DEFINE src == <<"src">>
             main == <<"main", "afns">>
             entry == <<src, main>>
  <2>1. src \in Names /\ main \in Names
    BY OwnNames
  <2> HIDE DEF src, main
  <2>2. entry \in Seq(Names) /\ entry # <<>>
    BY <2>1
  <2> HIDE DEF entry
  <2>3. <<"entry", entry>> \in {"entry", "output"} \X (Paths \ {Nothing})
    BY <2>2 DEF Paths, Nothing
  <2>4. <<"entry", entry>> \in TomlLines
    BY <2>3 DEF TomlLines
  <2>5. f = <<"entry", entry>>
    BY DEF entry, src, main
  <2>6. QED
    BY <2>4, <2>5
<1>4. g \in TomlLines
  <2> DEFINE output == <<name>>
  <2>1. output \in Seq(Names) /\ output # <<>>
    OBVIOUS
  <2> HIDE DEF output
  <2>2. <<"output", output>> \in {"entry", "output"} \X (Paths \ {Nothing})
    BY <2>1 DEF Paths, Nothing
  <2>3. <<"output", output>> \in TomlLines
    BY <2>2 DEF TomlLines
  <2>4. QED
    BY <2>3 DEF output
<1> HIDE DEF a, b, e, f, g
<1> DEFINE lines == <<a, b, e, f, g>>
<1>5. lines \in Seq(TomlLines)
  BY <1>1, <1>2, <1>3, <1>4
<1> HIDE DEF lines
<1>6. TomlOf(name) = <<"toml", lines>>
  BY DEF TomlOf, lines, a, b, e, f, g
<1>7. QED
  BY <1>5, <1>6 DEF IsContent, Kinds

(* The places of a new project are four.                                   *)
LEMMA InitPlaces ==
  ASSUME NEW root \in Paths, root # Nothing
  PROVE  LET r == At(root)
             s == At(SrcDir(root))
             t == At(TomlFile(root))
             m == At(MainFile(root))
         IN  /\ r # s /\ r # t /\ r # m /\ s # t /\ s # m /\ t # m
             /\ SrcDir(root) \in Paths \ {Nothing}
             /\ TomlFile(root) \in Paths \ {Nothing}
             /\ MainFile(root) \in Paths \ {Nothing}
<1> DEFINE src == <<"src">>
           toml == <<"night", "toml">>
           main == <<"main", "afns">>
           r == At(root)
<1>1. src \in Names /\ toml \in Names /\ main \in Names
  BY OwnNames
<1>2. Len(src) = 1 /\ Len(toml) = 2 /\ Len(main) = 2 /\ main[1] = "main"
  OBVIOUS
<1>3. src # Here /\ toml # Here /\ main # Here /\ src # toml
  BY DEF Here
<1>4. /\ SrcDir(root) = Append(root, src) /\ TomlFile(root) = Append(root, toml)
      /\ MainFile(root) = Append(SrcDir(root), main)
  BY DEF SrcDir, TomlFile, MainFile
<1> HIDE DEF src, toml, main
<1>5. r \in Paths /\ Len(r) \in Nat
  BY AtFacts, LenProperties DEF Paths
<1> HIDE DEF r
<1>6. SrcDir(root) \in Paths \ {Nothing} /\ TomlFile(root) \in Paths \ {Nothing}
  BY <1>1, <1>4, PushFacts DEF Paths, Nothing
<1>7. MainFile(root) \in Paths \ {Nothing}
  BY <1>1, <1>4, <1>6, PushFacts DEF Paths, Nothing
<1>8. At(SrcDir(root)) = Append(r, src) /\ At(TomlFile(root)) = Append(r, toml)
  BY <1>1, <1>3, <1>4, AtAppend DEF r
<1>9. At(MainFile(root)) = Append(Append(r, src), main)
  BY <1>1, <1>3, <1>4, <1>6, <1>8, AtAppend
<1> DEFINE s == Append(r, src)
           t == Append(r, toml)
           m == Append(s, main)
<1>10. s \in Paths /\ t \in Paths /\ Len(s) = Len(r) + 1 /\ Len(t) = Len(r) + 1
  BY <1>1, <1>5, PushFacts DEF Paths
<1>11. s # t
  BY <1>1, <1>3, <1>5, AppendInjective DEF Paths
<1> HIDE DEF s, t
<1>12. m \in Paths /\ Len(m) = Len(r) + 2
  <2>1. m \in Seq(Names) /\ Len(m) = Len(s) + 1
    BY <1>1, <1>10, PushFacts DEF Paths
  <2>2. QED
    BY <1>5, <1>10, <2>1 DEF Paths
<1> HIDE DEF m
<1>13. r # s /\ r # t /\ r # m /\ s # m /\ t # m
  <2>1. Len(r) # Len(s) /\ Len(r) # Len(t) /\ Len(r) # Len(m) /\ Len(s) # Len(m) /\ Len(t) # Len(m)
    BY <1>5, <1>10, <1>12
  <2>2. QED
    BY <2>1
<1>14. QED
  BY <1>6, <1>7, <1>8, <1>9, <1>11, <1>13 DEF r, s, t, m

(* What init sets out to do leads to its effect.                           *)
LEMMA InitPlan ==
  ASSUME NEW d, IsTree(d), NEW c \in Commands, c.word = "init", Ready(d, c)
  PROVE  Working(Ops(d, c), d, c, d, FALSE)
<1> DEFINE root == Root(c)
           done == Effect(d, c)
           toml == TomlOf(Last(root))
           o1 == Op("mkdir", root, Dir)
           o2 == Op("mkdir", SrcDir(root), Dir)
           o3 == Op("put", TomlFile(root), toml)
           o4 == Op("put", MainFile(root), Template)
           S == {o1, o2, o3, o4}
           s == <<o1, o2, o3, o4>>
<1>1. Ops(d, c) = s
  BY DEF Ops, InitOps
<1>2. root \in Paths \ {Nothing}
  BY RootFacts
<1>3. IsContent(toml) /\ toml[1] = "toml"
  <2>1. Last(root) \in Names
    BY <1>2, FrontLast DEF Paths, Nothing
  <2>2. QED
    BY <2>1, TomlContent
<1>4. IsContent(Template) /\ Template[1] = "text"
  BY DirsAssumption DEF IsContent, Kinds
<1>5. Targets(d, c) = {At(p) : p \in {root, SrcDir(root), TomlFile(root), MainFile(root)}}
  BY DEF Targets, Building
<1>6. done = With(With(With(With(d, At(root), Dir), At(SrcDir(root)), Dir),
                       At(TomlFile(root)), toml), At(MainFile(root)), Template)
  BY DEF Effect, InitEffect, Building
<1> HIDE DEF root, done, toml
<1> DEFINE a1 == At(root)
           a2 == At(SrcDir(root))
           a3 == At(TomlFile(root))
           a4 == At(MainFile(root))
<1>7. /\ a1 # a2 /\ a1 # a3 /\ a1 # a4 /\ a2 # a3 /\ a2 # a4 /\ a3 # a4
      /\ SrcDir(root) \in Paths \ {Nothing}
      /\ TomlFile(root) \in Paths \ {Nothing}
      /\ MainFile(root) \in Paths \ {Nothing}
  BY <1>2, InitPlaces
<1>8. Targets(d, c) = {a1, a2, a3, a4}
  BY <1>5
<1>9. /\ o1.do = "mkdir" /\ o1.at = root /\ o1.new = Dir /\ o1 = Op(o1.do, o1.at, o1.new)
      /\ o2.do = "mkdir" /\ o2.at = SrcDir(root) /\ o2.new = Dir /\ o2 = Op(o2.do, o2.at, o2.new)
      /\ o3.do = "put" /\ o3.at = TomlFile(root) /\ o3.new = toml /\ o3 = Op(o3.do, o3.at, o3.new)
      /\ o4.do = "put" /\ o4.at = MainFile(root) /\ o4.new = Template
      /\ o4 = Op(o4.do, o4.at, o4.new)
  BY DEF Op
<1>10. /\ \A i \in {1, 2, 3, 4} : i \in DOMAIN s /\ s[i] \in S
       /\ \A o \in S : \E i \in DOMAIN s : s[i] = o
       /\ \A i \in DOMAIN s : s[i] \in S
       /\ s \in Seq(Range(s))
  <2> HIDE DEF o1, o2, o3, o4
  <2>1. s \in Seq(S) /\ Len(s) = 4 /\ s[1] = o1 /\ s[2] = o2 /\ s[3] = o3 /\ s[4] = o4
    OBVIOUS
  <2> HIDE DEF s
  <2>2. s \in Seq(Range(s)) /\ DOMAIN s = 1 .. 4
    BY <2>1, SeqOfRange, LenProperties
  <2>3. 1 \in DOMAIN s /\ 2 \in DOMAIN s /\ 3 \in DOMAIN s /\ 4 \in DOMAIN s
        /\ \A i \in DOMAIN s : i = 1 \/ i = 2 \/ i = 3 \/ i = 4
    BY <2>2
  <2>4. QED
    BY <2>1, <2>2, <2>3
<1> HIDE DEF s, o1, o2, o3, o4
<1>11. /\ a1 \in DOMAIN done /\ done[a1] = Dir /\ a2 \in DOMAIN done /\ done[a2] = Dir
       /\ a3 \in DOMAIN done /\ done[a3] = toml /\ a4 \in DOMAIN done /\ done[a4] = Template
       /\ \A q \in DOMAIN d \cup DOMAIN done : q \notin {a1, a2, a3, a4} =>
            q \in DOMAIN d \cap DOMAIN done /\ d[q] = done[q]
  <2> HIDE DEF a1, a2, a3, a4
  <2>1. done = With(With(With(With(d, a1, Dir), a2, Dir), a3, toml), a4, Template)
    BY <1>6 DEF a1, a2, a3, a4
  <2>2. DOMAIN done = DOMAIN d \cup {a1, a2, a3, a4}
    BY <2>1 DEF With
  <2>3. \A q \in DOMAIN done :
          done[q] = IF q = a4 THEN Template ELSE IF q = a3 THEN toml
                    ELSE IF q \in {a1, a2} THEN Dir ELSE d[q]
    BY <2>1 DEF With
  <2>4. QED
    BY <1>7, <2>2, <2>3
<1>12. ASSUME NEW o \in S
       PROVE  /\ OpOk(o) /\ o.do \in {"mkdir", "put"}
              /\ At(o.at) \in {a1, a2, a3, a4}
              /\ At(o.at) \in DOMAIN done /\ done[At(o.at)] = o.new
              /\ o.do = "mkdir" => o.new = Dir
  <2>1. CASE o = o1 \/ o = o2
    BY <1>2, <1>7, <1>9, <1>11, <2>1 DEF OpOk, Writes
  <2>2. CASE o = o3 \/ o = o4
    BY <1>3, <1>4, <1>7, <1>9, <1>11, <2>2 DEF OpOk, Writes
  <2>3. QED
    BY <2>1, <2>2
<1>13. ASSUME NEW i \in DOMAIN s
       PROVE  /\ OpOk(s[i]) /\ s[i].do \in {"mkdir", "put", "remove"}
              /\ At(s[i].at) \in Targets(d, c)
              /\ s[i].do = "mkdir" => Dir \in Written(d, c, At(s[i].at))
              /\ s[i].do = "put" => CutShort(s[i].new) \subseteq Written(d, c, At(s[i].at))
  <2>1. s[i] \in S
    BY <1>10
  <2>2. CutShort(s[i].new) \subseteq Written(d, c, At(s[i].at))
    <3>1. c.word \notin Building
      BY DEF Building
    <3>2. At(s[i].at) \in DOMAIN Effect(d, c) /\ Effect(d, c)[At(s[i].at)] = s[i].new
      BY <1>12, <2>1 DEF done
    <3>3. QED
      BY <3>1, <3>2, WrittenPlain
  <2>3. s[i].new \in CutShort(s[i].new)
    BY ShortEnds
  <2>4. QED
    BY <1>8, <1>12, <2>1, <2>2, <2>3
<1>14. OnTrack(s, d, done)
  <2>1. ASSUME NEW i \in DOMAIN s
        PROVE  Agrees(s[i], done)
    <3>1. s[i] \in S
      BY <1>10
    <3>2. s[i].do \notin Removes
      BY <1>12, <3>1 DEF Removes
    <3>3. QED
      BY <1>12, <3>1, <3>2 DEF Agrees
  <2>2. ASSUME NEW q \in {a1, a2, a3, a4}
        PROVE  \E i \in DOMAIN s : Touches(s[i], q)
    <3>1. PICK o \in S : At(o.at) = q
      BY <1>9, <2>2
    <3>2. Touches(o, q)
      BY <1>12, <3>1 DEF Touches, Writes
    <3>3. QED
      BY <1>10, <3>1, <3>2
  <2>3. QED
    BY <1>11, <2>1, <2>2 DEF OnTrack
<1>15. Working(s, d, c, d, FALSE)
  BY <1>10, <1>13, <1>14, PlainPlan DEF done
<1>16. QED
  BY <1>1, <1>15 DEF s, o1, o2, o3, o4, root, toml

(* The operations of a build, after the k that make its directory.         *)
BuildSteps(s, d, c, k) ==
  LET out == Output(d, c)
  IN  /\ k \in {0, 1} /\ (k = 0 <=> Dirname(out) = <<Here>>)
      /\ s \in Seq(Range(s)) /\ DOMAIN s = 1 .. Len(s)
      /\ Len(s) = k + (IF c.word = "run" THEN 6 ELSE 5)
      /\ k = 1 => s[1] = Op("mkdir", Dirname(out), Dir)
      /\ s[k + 1] = Op("write", Object(out), <<"object", <<"object">>>>)
      /\ s[k + 2] = Op("write", Runtime(out), <<"runtime", <<"runtime">>>>)
      /\ s[k + 3] = Op("link", out, Binary(d, c))
      /\ s[k + 4] = Op("tidy", Object(out), Nothing)
      /\ s[k + 5] = Op("tidy", Runtime(out), Nothing)
      /\ c.word = "run" => s[k + 6] = Op("exec", out, Nothing)

(* Three parts behind one another.                                         *)
LEMMA ConcatThree ==
  ASSUME NEW S, NEW p \in Seq(S), NEW q \in Seq(S), NEW r \in Seq(S)
  PROVE  LET s == p \o q \o r
         IN  /\ s \in Seq(S) /\ Len(s) = Len(p) + Len(q) + Len(r)
             /\ \A i \in 1 .. Len(p) : s[i] = p[i]
             /\ \A i \in 1 .. Len(q) : s[Len(p) + i] = q[i]
             /\ \A i \in 1 .. Len(r) : s[Len(p) + Len(q) + i] = r[i]
<1> DEFINE t == p \o q
           s == t \o r
<1>1. Len(p) \in Nat /\ Len(q) \in Nat /\ Len(r) \in Nat
  BY LenProperties
<1>2. /\ t \in Seq(S) /\ Len(t) = Len(p) + Len(q)
      /\ \A i \in 1 .. Len(p) + Len(q) : t[i] = IF i <= Len(p) THEN p[i] ELSE q[i - Len(p)]
  BY ConcatProperties
<1> HIDE DEF t
<1>3. /\ s \in Seq(S) /\ Len(s) = Len(t) + Len(r)
      /\ \A i \in 1 .. Len(t) + Len(r) : s[i] = IF i <= Len(t) THEN t[i] ELSE r[i - Len(t)]
  <2>1. t \in Seq(S)
    BY <1>2
  <2>2. QED
    BY ONLY <2>1, r \in Seq(S), ConcatProperties
<1> HIDE DEF s
<1>4. \A i \in 1 .. Len(p) : s[i] = p[i]
  BY <1>1, <1>2, <1>3
<1>5. ASSUME NEW i \in 1 .. Len(q)
      PROVE  s[Len(p) + i] = q[i]
  <2>1. /\ Len(p) + i \in 1 .. Len(p) + Len(q) /\ ~(Len(p) + i <= Len(p))
        /\ Len(p) + i - Len(p) = i /\ Len(p) + i <= Len(p) + Len(q)
        /\ Len(p) + i \in 1 .. Len(p) + Len(q) + Len(r)
    BY <1>1
  <2>2. s[Len(p) + i] = t[Len(p) + i]
    BY <1>2, <1>3, <2>1
  <2>3. t[Len(p) + i] = q[i]
    BY <1>2, <2>1
  <2>4. QED
    BY <2>2, <2>3
<1>6. ASSUME NEW i \in 1 .. Len(r)
      PROVE  s[Len(p) + Len(q) + i] = r[i]
  <2> DEFINE j == Len(t) + i
  <2>1. j \in 1 .. Len(t) + Len(r) /\ ~(j <= Len(t)) /\ j - Len(t) = i
    BY <1>1, <1>2
  <2> HIDE DEF j
  <2>2. s[j] = r[i]
    BY <1>3, <2>1
  <2>3. QED
    BY <1>2, <2>2 DEF j
<1>7. QED
  BY <1>1, <1>2, <1>3, <1>4, <1>5, <1>6 DEF s, t

(* The operations of a build, by their place in the list.                  *)
LEMMA BuildShape ==
  ASSUME NEW d, NEW c, c.word \in Building, Ready(d, c)
  PROVE  \E k : BuildSteps(Ops(d, c), d, c, k)
<1> DEFINE out == Output(d, c)
           m == Op("mkdir", Dirname(out), Dir)
           w == Op("write", Object(out), <<"object", <<"object">>>>)
           v == Op("write", Runtime(out), <<"runtime", <<"runtime">>>>)
           l == Op("link", out, Binary(d, c))
           t == Op("tidy", Object(out), Nothing)
           u == Op("tidy", Runtime(out), Nothing)
           e == Op("exec", out, Nothing)
           S == {m, w, v, l, t, u, e}
           p == ParentOps(out)
           q == <<w, v, l>>
           r == <<t, u>>
           b == BuildOps(d, c)
           k == Len(p)
<1>1. b = p \o q \o r
  BY DEF BuildOps, Tidy
<1>2. /\ c.word = "build" => Ops(d, c) = b
      /\ c.word = "run" => Ops(d, c) = Append(b, e)
  BY DEF Ops
<1>3. p = IF Dirname(out) = <<Here>> THEN <<>> ELSE <<m>>
  BY DEF ParentOps
<1> HIDE DEF b, p
<1> HIDE DEF out, m, w, v, l, t, u, e
<1>4. /\ p \in Seq(S) /\ k \in {0, 1} /\ (k = 0 <=> Dirname(out) = <<Here>>)
      /\ k = 1 => p[1] = m
  <2>1. CASE Dirname(out) = <<Here>>
    <3>1. p = <<>>
      BY <1>3, <2>1
    <3>2. p \in Seq(S) /\ k = 0
      BY <3>1, EmptySeq
    <3>3. QED
      BY <2>1, <3>2
  <2>2. CASE Dirname(out) # <<Here>>
    <3>1. p = <<m>>
      BY <1>3, <2>2
    <3>2. m \in S /\ <<m>> \in Seq({m}) /\ Len(<<m>>) = 1 /\ <<m>>[1] = m
      OBVIOUS
    <3>3. p \in Seq(S) /\ k = 1 /\ p[1] = m
      BY <3>1, <3>2
    <3>4. QED
      BY <2>2, <3>3
  <2>3. QED
    BY <2>1, <2>2
<1>5. /\ q \in Seq(S) /\ Len(q) = 3 /\ q[1] = w /\ q[2] = v /\ q[3] = l
      /\ r \in Seq(S) /\ Len(r) = 2 /\ r[1] = t /\ r[2] = u
      /\ e \in S
  OBVIOUS
<1> HIDE DEF q, r, S
<1>6. /\ b \in Seq(S) /\ Len(b) = Len(p) + Len(q) + Len(r)
      /\ \A i \in 1 .. Len(p) : b[i] = p[i]
      /\ \A i \in 1 .. Len(q) : b[Len(p) + i] = q[i]
      /\ \A i \in 1 .. Len(r) : b[Len(p) + Len(q) + i] = r[i]
  <2> DEFINE g == p \o q \o r
  <2>1. p \in Seq(S) /\ q \in Seq(S) /\ r \in Seq(S)
    BY <1>4, <1>5
  <2>2. /\ g \in Seq(S) /\ Len(g) = Len(p) + Len(q) + Len(r)
        /\ \A i \in 1 .. Len(p) : g[i] = p[i]
        /\ \A i \in 1 .. Len(q) : g[Len(p) + i] = q[i]
        /\ \A i \in 1 .. Len(r) : g[Len(p) + Len(q) + i] = r[i]
    BY ONLY <2>1, ConcatThree
  <2>3. b = g
    BY <1>1
  <2> HIDE DEF g
  <2>4. QED
    BY <2>2, <2>3
<1>7. /\ b \in Seq(S) /\ Len(b) = k + 5
      /\ k = 1 => b[1] = m
      /\ b[k + 1] = w /\ b[k + 2] = v /\ b[k + 3] = l /\ b[k + 4] = t /\ b[k + 5] = u
  <2>1. 1 \in 1 .. 3 /\ 2 \in 1 .. 3 /\ 3 \in 1 .. 3 /\ 1 \in 1 .. 2 /\ 2 \in 1 .. 2
    OBVIOUS
  <2>2. k + 3 + 1 = k + 4 /\ k + 3 + 2 = k + 5 /\ (k = 1 => 1 \in 1 .. k)
    BY <1>4
  <2>3. /\ b[k + 1] = q[1] /\ b[k + 2] = q[2] /\ b[k + 3] = q[3]
        /\ b[k + 3 + 1] = r[1] /\ b[k + 3 + 2] = r[2]
    BY <1>5, <1>6, <2>1
  <2>4. k = 1 => b[1] = m
    BY <1>4, <1>6, <2>2
  <2>5. Len(b) = k + 5
    BY <1>4, <1>5, <1>6
  <2>6. QED
    BY <1>5, <1>6, <2>2, <2>3, <2>4, <2>5
<1> HIDE DEF k
<1>8. CASE c.word = "build"
  <2> DEFINE s == Ops(d, c)
  <2>1. s \in Seq(Range(s)) /\ DOMAIN s = 1 .. Len(s)
    BY <1>2, <1>7, <1>8, SeqOfRange, LenProperties
  <2>2. s = b /\ Len(s) = k + 5
    BY <1>2, <1>7, <1>8
  <2> HIDE DEF s
  <2>3. BuildSteps(s, d, c, k)
    BY <1>4, <1>7, <1>8, <2>1, <2>2 DEF BuildSteps, out, m, w, v, l, t, u, e
  <2>4. QED
    BY <2>3 DEF s
<1>9. CASE c.word = "run"
  <2> DEFINE s == Append(b, e)
  <2>1. /\ s \in Seq(S) /\ Len(s) = Len(b) + 1 /\ s[Len(b) + 1] = e
        /\ DOMAIN b = 1 .. Len(b) /\ \A i \in DOMAIN b : s[i] = b[i]
    BY <1>5, <1>7, PushFacts
  <2>2. s = Ops(d, c)
    BY <1>2, <1>9
  <2> HIDE DEF s
  <2>3. s \in Seq(Range(s)) /\ DOMAIN s = 1 .. Len(s)
    BY <2>1, SeqOfRange, LenProperties
  <2>4. /\ Len(s) = k + 6 /\ s[k + 6] = e /\ DOMAIN b = 1 .. k + 5
    <3>1. k + 5 + 1 = k + 6
      BY <1>4
    <3>2. QED
      BY <1>7, <2>1, <3>1
  <2>5. /\ k = 1 => s[1] = m
        /\ s[k + 1] = w /\ s[k + 2] = v /\ s[k + 3] = l /\ s[k + 4] = t /\ s[k + 5] = u
    <3>1. /\ 1 \in 1 .. k + 5 /\ k + 1 \in 1 .. k + 5 /\ k + 2 \in 1 .. k + 5
          /\ k + 3 \in 1 .. k + 5 /\ k + 4 \in 1 .. k + 5 /\ k + 5 \in 1 .. k + 5
      BY <1>4
    <3>2. QED
      BY <1>7, <2>1, <2>4, <3>1
  <2>6. BuildSteps(s, d, c, k)
    BY <1>4, <1>9, <2>3, <2>4, <2>5 DEF BuildSteps, out, m, w, v, l, t, u, e
  <2>7. QED
    BY <2>2, <2>6
<1>10. QED
  BY <1>8, <1>9 DEF Building

(* "." is the directory itself.                                            *)
LEMMA AtHere == At(<<Here>>) = Nothing
<1>1. Here \in Names
  BY OwnNames
<1> DEFINE p == <<Here>>
<1>2. p \in Seq(Names) /\ Len(p) = 1 /\ p[1] = Here
  <2> HIDE DEF Here
  <2>1. QED
    BY <1>1
<1> HIDE DEF p
<1>3. p \in Paths /\ p # Nothing
  BY <1>2, EmptySeq DEF Paths, Nothing
<1>4. At(Dirname(p)) = At(Front(p))
  BY <1>3, DirnameAt
<1>5. Dirname(p) = p
  BY <1>2 DEF Dirname, p
<1>6. Front(p) = <<>>
  <2>1. Front(p) \in Seq(Names) /\ Len(Front(p)) = 0
    BY <1>2, <1>3, FrontLast DEF Paths, Nothing
  <2>2. QED
    BY <2>1, EmptySeq
<1>7. At(<<>>) = <<>>
  BY EmptySeq, AtFacts DEF Paths
<1>8. QED
  BY <1>4, <1>5, <1>6, <1>7 DEF Nothing, p

(* A build's directory, output, object and runtime, and what is there when *)
(* it has succeeded.                                                       *)
LEMMA BuildPlaces ==
  ASSUME NEW d, IsTree(d), NEW c \in Commands, c.word \in Building, Ready(d, c)
  PROVE  LET out == Output(d, c)
             D == At(Dirname(out))
             B == At(out)
             O == At(Object(out))
             R == At(Runtime(out))
             done == Effect(d, c)
         IN  /\ out \in Paths \ {Nothing} /\ Dirname(out) \in Paths \ {Nothing}
             /\ Object(out) \in Paths \ {Nothing} /\ Runtime(out) \in Paths \ {Nothing}
             /\ O \notin {B, D} /\ R \notin {B, D}
             /\ Targets(d, c) = {B, D, O, R} /\ Litter(d, c) = {O, R}
             /\ O \notin DOMAIN done /\ R \notin DOMAIN done
             /\ B \in DOMAIN done /\ done[B] = Binary(d, c)
             /\ D \in DOMAIN done /\ (D # B => done[D] = Dir)
             /\ \A q \in DOMAIN d \cup DOMAIN done : q \notin {B, D, O, R} =>
                  q \in DOMAIN d \cap DOMAIN done /\ d[q] = done[q]
             /\ Dirname(out) = <<Here>> => D \in DOMAIN d /\ d[D] = Dir
<1> DEFINE out == Output(d, c)
           D == At(Dirname(out))
           B == At(out)
           O == At(Object(out))
           R == At(Runtime(out))
           done == Effect(d, c)
           new == Binary(d, c)
<1>1. Resolves(d, c)
  BY DEF Ready, Building
<1>2. out \in Paths \ {Nothing}
  BY <1>1, OutputTypes
<1>3. Litter(d, c) = {O, R}
  BY DEF Litter
<1>4. Targets(d, c) = {B, D, O, R}
  BY <1>1, <1>3 DEF Targets, Building
<1>5. done = Without(With(With(d, D, Dir), B, new), {O, R})
  BY <1>3 DEF Effect, BuildEffect, Building
<1> HIDE DEF out, done, new
<1>6. Dirname(out) \in Paths \ {Nothing}
  BY <1>2, DirnameTypes
<1>7. Object(out) \in Paths \ {Nothing} /\ O \notin {B, D}
  BY <1>2, LitterPlaces
<1>8. Runtime(out) \in Paths \ {Nothing} /\ R \notin {B, D}
  BY <1>2, LitterPlaces
<1>9. Dirname(out) = <<Here>> => D \in DOMAIN d /\ d[D] = Dir
  BY AtHere, TreeFacts
<1> HIDE DEF D, B, O, R
<1>10. DOMAIN done = (DOMAIN d \cup {B, D}) \ {O, R}
  BY <1>5 DEF With, Without
<1>11. \A q \in DOMAIN done :
         done[q] = IF q = B THEN new ELSE IF q = D THEN Dir ELSE d[q]
  BY <1>5 DEF With, Without
<1>12. QED
  BY <1>2, <1>3, <1>4, <1>6, <1>7, <1>8, <1>9, <1>10, <1>11 DEF D, B, O, R, out, done, new

(* What build and run set out to do leads to their effect.                 *)
LEMMA BuildPlan ==
  ASSUME NEW d, IsTree(d), NEW c \in Commands, c.word \in Building, Ready(d, c)
  PROVE  Working(Ops(d, c), d, c, d, FALSE)
<1> DEFINE out == Output(d, c)
           D == At(Dirname(out))
           B == At(out)
           O == At(Object(out))
           R == At(Runtime(out))
           done == Effect(d, c)
           obj == <<"object", <<"object">>>>
           rt == <<"runtime", <<"runtime">>>>
           s == Ops(d, c)
           m == Op("mkdir", Dirname(out), Dir)
           w == Op("write", Object(out), obj)
           v == Op("write", Runtime(out), rt)
           l == Op("link", out, Binary(d, c))
           t == Op("tidy", Object(out), Nothing)
           u == Op("tidy", Runtime(out), Nothing)
           e == Op("exec", out, Nothing)
<1>1. PICK k : BuildSteps(s, d, c, k)
  BY BuildShape
<1>2. /\ k \in {0, 1} /\ (k = 0 <=> Dirname(out) = <<Here>>)
      /\ s \in Seq(Range(s)) /\ DOMAIN s = 1 .. Len(s)
      /\ Len(s) = k + (IF c.word = "run" THEN 6 ELSE 5)
      /\ k = 1 => s[1] = m
      /\ s[k + 1] = w /\ s[k + 2] = v /\ s[k + 3] = l /\ s[k + 4] = t /\ s[k + 5] = u
      /\ c.word = "run" => s[k + 6] = e
  BY <1>1 DEF BuildSteps
<1>3. /\ out \in Paths \ {Nothing} /\ Dirname(out) \in Paths \ {Nothing}
      /\ Object(out) \in Paths \ {Nothing} /\ Runtime(out) \in Paths \ {Nothing}
      /\ O \notin {B, D} /\ R \notin {B, D}
      /\ Targets(d, c) = {B, D, O, R} /\ Litter(d, c) = {O, R}
      /\ O \notin DOMAIN done /\ R \notin DOMAIN done
      /\ B \in DOMAIN done /\ done[B] = Binary(d, c)
      /\ D \in DOMAIN done /\ (D # B => done[D] = Dir)
      /\ \A q \in DOMAIN d \cup DOMAIN done : q \notin {B, D, O, R} =>
           q \in DOMAIN d \cap DOMAIN done /\ d[q] = done[q]
      /\ Dirname(out) = <<Here>> => D \in DOMAIN d /\ d[D] = Dir
  BY BuildPlaces
<1>4. /\ IsContent(obj) /\ obj[1] # "dir" /\ IsContent(rt) /\ rt[1] # "dir"
      /\ IsContent(Binary(d, c)) /\ Binary(d, c)[1] # "dir"
  BY DEF IsContent, Kinds, Binary
<1>5. /\ Dir \in Written(d, c, D)
      /\ CutShort(obj) \subseteq Written(d, c, O)
      /\ CutShort(rt) \subseteq Written(d, c, R)
      /\ CutShort(Binary(d, c)) \subseteq Written(d, c, B)
  <2>1. Resolves(d, c)
    BY DEF Ready, Building
  <2>2. Dir \in Written(d, c, D) /\ \A p \in Litter(d, c) :
          /\ CutShort(obj) \subseteq Written(d, c, p) /\ CutShort(rt) \subseteq Written(d, c, p)
    BY <2>1, WrittenBuilt
  <2>3. CutShort(done[B]) \subseteq Written(d, c, B)
    BY <1>3, WrittenPlain
  <2>4. QED
    BY <1>3, <2>2, <2>3
<1>6. /\ m.do = "mkdir" /\ m.at = Dirname(out) /\ m.new = Dir /\ m = Op(m.do, m.at, m.new)
      /\ w.do = "write" /\ w.at = Object(out) /\ w.new = obj /\ w = Op(w.do, w.at, w.new)
      /\ v.do = "write" /\ v.at = Runtime(out) /\ v.new = rt /\ v = Op(v.do, v.at, v.new)
      /\ l.do = "link" /\ l.at = out /\ l.new = Binary(d, c) /\ l = Op(l.do, l.at, l.new)
      /\ t.do = "tidy" /\ t.at = Object(out) /\ t = Op("tidy", Object(out), Nothing)
      /\ u.do = "tidy" /\ u.at = Runtime(out) /\ u = Op("tidy", Runtime(out), Nothing)
      /\ e.do = "exec" /\ e.at = out /\ e = Op(e.do, e.at, e.new)
      /\ t = Op(t.do, t.at, t.new) /\ u = Op(u.do, u.at, u.new)
  BY DEF Op
<1> HIDE DEF out, done, obj, rt, s, m, w, v, l, t, u, e
<1>7. /\ OpOk(m) /\ OpOk(w) /\ OpOk(v) /\ OpOk(l) /\ OpOk(t) /\ OpOk(u) /\ OpOk(e)
  BY <1>3, <1>4, <1>6 DEF OpOk, Writes, Removes
<1>8. ASSUME NEW i \in DOMAIN s
      PROVE  \/ k = 1 /\ i = 1 /\ s[i] = m
             \/ i = k + 1 /\ s[i] = w
             \/ i = k + 2 /\ s[i] = v
             \/ i = k + 3 /\ s[i] = l
             \/ i = k + 4 /\ s[i] = t
             \/ i = k + 5 /\ s[i] = u
             \/ i = k + 6 /\ s[i] = e /\ c.word = "run" /\ i = Len(s)
  <2>1. \/ k = 1 /\ i = 1
        \/ i \in {k + 1, k + 2, k + 3, k + 4, k + 5}
        \/ i = k + 6 /\ c.word = "run" /\ i = Len(s)
    BY <1>2
  <2>2. QED
    BY <1>2, <2>1
<1>9. /\ k + 1 \in DOMAIN s /\ k + 2 \in DOMAIN s /\ k + 3 \in DOMAIN s
      /\ k + 4 \in DOMAIN s /\ k + 5 \in DOMAIN s /\ (k = 1 => 1 \in DOMAIN s)
  BY <1>2
<1>10. /\ \A i \in DOMAIN s : s[i].do = "mkdir" => k = 1 /\ i = 1 /\ s[i] = m
       /\ \A i \in DOMAIN s : s[i].do = "link" => i = k + 3 /\ s[i] = l
       /\ \A i \in DOMAIN s : s[i].do = "tidy" => (i = k + 4 /\ s[i] = t) \/ (i = k + 5 /\ s[i] = u)
       /\ \A i \in DOMAIN s : s[i].do = "exec" => i = k + 6 /\ s[i] = e /\ c.word = "run" /\ i = Len(s)
       /\ \A i \in DOMAIN s : s[i].do \notin {"fill", "put", "remove", "fail"}
  BY <1>6, <1>8
<1>11. OrderOk(s, d, c)
  <2>1. OpsOk(s)
    BY <1>7, <1>8, <1>10 DEF OpsOk
  <2>2. Apart(s, d, c)
    BY <1>3, <1>6, <1>10 DEF Apart, out
  <2>3. LinkOk(s, d, c)
    <3>1. ASSUME NEW i \in DOMAIN s, s[i].do = "link"
          PROVE  /\ s[i].at = Output(d, c) /\ s[i].new = Binary(d, c)
                 /\ \A p \in {Object(Output(d, c)), Runtime(Output(d, c))} :
                      \E j \in DOMAIN s : j > i /\ s[j] = Op("tidy", p, Nothing)
                 /\ \A j \in DOMAIN s : j > i => s[j].do \in {"tidy", "exec"}
      <4>1. i = k + 3 /\ s[i] = l
        BY <1>10, <3>1
      <4>2. k + 4 > i /\ k + 5 > i
        BY <1>2, <4>1
      <4>3. \A p \in {Object(out), Runtime(out)} :
              \E j \in DOMAIN s : j > i /\ s[j] = Op("tidy", p, Nothing)
        BY <1>2, <1>6, <1>9, <4>2
      <4>4. ASSUME NEW j \in DOMAIN s, j > i
            PROVE  s[j].do \in {"tidy", "exec"}
        <5>1. j # 1 /\ j # k + 1 /\ j # k + 2 /\ j # k + 3
          BY <1>2, <4>1, <4>4
        <5>2. s[j] \in {t, u, e}
          BY <1>8, <5>1
        <5>3. QED
          BY <1>6, <5>2
      <4>5. QED
        BY <1>6, <4>1, <4>3, <4>4 DEF out
    <3>2. QED
      BY <3>1 DEF LinkOk
  <2>4. ExecOk(s, d, c)
    BY <1>6, <1>10 DEF ExecOk, out
  <2>5. QED
    BY <2>1, <2>2, <2>3, <2>4 DEF OrderOk
<1>12. Settled(s, d, c, d)
  <2>1. FillReady(s, d)
    BY <1>10 DEF FillReady
  <2>2. TidyReady(s, d)
    <3>1. ASSUME NEW j \in DOMAIN s, s[j].do = "tidy"
          PROVE  \E i \in DOMAIN s : i < j /\ s[i].do = "write" /\ At(s[i].at) = At(s[j].at)
      <4>1. CASE j = k + 4 /\ s[j] = t
        <5>1. k + 1 < j
          BY <1>2, <4>1
        <5>2. s[k + 1].do = "write" /\ s[k + 1].at = s[j].at
          BY <1>2, <1>6, <4>1
        <5>3. QED
          BY <1>9, <5>1, <5>2
      <4>2. CASE j = k + 5 /\ s[j] = u
        <5>1. k + 2 < j
          BY <1>2, <4>2
        <5>2. s[k + 2].do = "write" /\ s[k + 2].at = s[j].at
          BY <1>2, <1>6, <4>2
        <5>3. QED
          BY <1>9, <5>1, <5>2
      <4>3. QED
        BY <1>10, <3>1, <4>1, <4>2
    <3>2. QED
      BY <3>1 DEF TidyReady
  <2>3. ExecReady(s, d, c, d)
    <3>1. ASSUME NEW j \in DOMAIN s, s[j].do = "exec"
          PROVE  \E i \in DOMAIN s : i < j /\ s[i].do = "link"
      <4>1. k + 3 < j
        BY <1>2, <1>10, <3>1
      <4>2. s[k + 3].do = "link"
        BY <1>2, <1>6
      <4>3. QED
        BY <1>9, <4>1, <4>2
    <3>2. QED
      BY <3>1 DEF ExecReady
  <2>4. QED
    BY <2>1, <2>2, <2>3 DEF Settled
<1>13. TargetsOnly(s, d, c)
  <2>1. ASSUME NEW i \in DOMAIN s
        PROVE  /\ s[i].do \in Writes \cup Removes => At(s[i].at) \in Targets(d, c)
               /\ s[i].do = "mkdir" => Dir \in Written(d, c, At(s[i].at))
               /\ s[i].do \in Writes \ {"mkdir"} =>
                    CutShort(s[i].new) \subseteq Written(d, c, At(s[i].at))
    <3>1. CASE s[i] = m
      BY <1>3, <1>5, <1>6, <3>1
    <3>2. CASE s[i] = w \/ s[i] = v
      BY <1>3, <1>5, <1>6, <3>2
    <3>3. CASE s[i] = l
      BY <1>3, <1>5, <1>6, <3>3
    <3>4. CASE s[i] = t \/ s[i] = u
      BY <1>3, <1>6, <3>4 DEF Writes
    <3>5. CASE s[i] = e
      BY <1>6, <3>5 DEF Writes, Removes
    <3>6. QED
      BY <1>8, <3>1, <3>2, <3>3, <3>4, <3>5
  <2>2. QED
    BY <2>1 DEF TargetsOnly
<1>14. OnTrack(s, d, done)
  <2>1. /\ Touches(l, B) /\ Touches(t, O) /\ Touches(u, R) /\ Touches(m, D)
    BY <1>6 DEF Touches, Writes, Removes
  <2>2. ASSUME NEW q \in DOMAIN d \cup DOMAIN done, \A i \in DOMAIN s : ~Touches(s[i], q)
        PROVE  q \in DOMAIN d \cap DOMAIN done /\ d[q] = done[q]
    <3>1. q \notin {B, O, R}
      BY <1>2, <1>9, <2>1, <2>2
    <3>2. CASE q = D
      <4>1. k = 0
        BY <1>2, <1>9, <2>1, <2>2, <3>2
      <4>2. D \in DOMAIN d /\ d[D] = Dir
        BY <1>2, <1>3, <4>1
      <4>3. QED
        BY <1>3, <3>1, <3>2, <4>2
    <3>3. CASE q # D
      BY <1>3, <3>1, <3>3
    <3>4. QED
      BY <3>2, <3>3
  <2>3. ASSUME NEW i \in DOMAIN s, \A j \in DOMAIN s : j > i => ~Touches(s[j], At(s[i].at))
        PROVE  Agrees(s[i], done)
    <3>1. CASE k = 1 /\ i = 1 /\ s[i] = m
      <4>1. k + 3 > i
        BY <3>1
      <4>2. D # B
        BY <1>2, <1>6, <1>9, <2>1, <2>3, <3>1, <4>1
      <4>3. QED
        BY <1>3, <1>6, <3>1, <4>2 DEF Agrees, Removes
    <3>2. CASE i = k + 1 /\ s[i] = w
      <4>1. k + 4 > i
        BY <1>2, <3>2
      <4>2. Touches(s[k + 4], At(s[i].at))
        BY <1>2, <1>6, <2>1, <3>2
      <4>3. QED
        BY <1>9, <2>3, <4>1, <4>2
    <3>3. CASE i = k + 2 /\ s[i] = v
      <4>1. k + 5 > i
        BY <1>2, <3>3
      <4>2. Touches(s[k + 5], At(s[i].at))
        BY <1>2, <1>6, <2>1, <3>3
      <4>3. QED
        BY <1>9, <2>3, <4>1, <4>2
    <3>4. CASE s[i] = l
      BY <1>3, <1>6, <3>4 DEF Agrees, Removes
    <3>5. CASE s[i] = t \/ s[i] = u
      BY <1>3, <1>6, <3>5 DEF Agrees, Writes
    <3>6. CASE s[i] = e
      BY <1>6, <3>6 DEF Agrees, Writes, Removes
    <3>7. QED
      BY <1>8, <3>1, <3>2, <3>3, <3>4, <3>5, <3>6
  <2>4. QED
    BY <2>2, <2>3 DEF OnTrack
<1>15. Working(s, d, c, d, FALSE)
  BY <1>2, <1>11, <1>12, <1>13, <1>14, BoundedFirst DEF Working, done
<1>16. QED
  BY <1>15 DEF s

(* Every command sets out with what leads to its effect.                   *)
LEMMA Plan ==
  ASSUME NEW d, IsTree(d), NEW c \in Commands
  PROVE  Working(Ops(d, c), d, c, d, FALSE)
<1>1. CASE ~Ready(d, c)
  BY <1>1, NoPlan
<1>2. CASE Ready(d, c) /\ c.word \in {"init", "fmt", "clean"}
  BY <1>2, InitPlan, FmtPlan, CleanPlan
<1>3. CASE Ready(d, c) /\ c.word \in Building
  BY <1>3, BuildPlan
<1>4. CASE Ready(d, c) /\ c.word \notin {"init", "fmt", "clean"} \cup Building
  BY <1>4, OtherPlan DEF Building
<1>5. QED
  BY <1>1, <1>2, <1>3, <1>4

(* A command is started.                                                   *)
LEMMA BeginStep == IInv /\ Begin => IInv'
<1> SUFFICES ASSUME IInv, Begin
             PROVE  IInv'
  OBVIOUS
<1>1. /\ args' \in Commands /\ todo' = Ops(disk, args') /\ status' = "running"
      /\ before' = disk /\ lost' = FALSE /\ ran' = Nothing /\ disk' = disk
  BY DEF Begin
<1>2. IsTree(disk)
  BY DEF IInv, TypeOK
<1>3. Working(todo', before', args', disk', lost')
  <2>1. Working(Ops(disk, args'), disk, args', disk, FALSE)
    BY <1>1, <1>2, Plan
  <2>2. QED
    BY <1>1, <2>1
<1>4. TypeOK'
  BY <1>1, <1>2 DEF TypeOK
<1>5. QED
  BY <1>1, <1>2, <1>3, <1>4 DEF IInv

(***************************************************************************)
(* The theorems.                                                           *)
(***************************************************************************)

LEMMA InitHolds == Init => IInv
<1> SUFFICES ASSUME Init
             PROVE  IInv
  OBVIOUS
<1>1. IsTree(disk) /\ before = disk /\ status = "none" /\ todo = <<>> /\ ran = Nothing
  BY DirsAssumption DEF Init
<1>2. TypeOK
  BY <1>1 DEF TypeOK
<1>3. QED
  BY <1>1, <1>2 DEF IInv

(* Nothing changes.                                                        *)
LEMMA StutterHolds == IInv /\ UNCHANGED vars => IInv'
<1> SUFFICES ASSUME IInv, UNCHANGED vars
             PROVE  IInv'
  OBVIOUS
<1>1. /\ disk' = disk /\ args' = args /\ todo' = todo /\ status' = status
      /\ before' = before /\ lost' = lost /\ ran' = ran
  BY DEF vars
<1>2. TypeOK'
  BY <1>1 DEF IInv, TypeOK
<1>3. QED
  BY <1>1, <1>2 DEF IInv

(* Every step keeps the invariant.                                         *)
LEMMA NextHolds == IInv /\ [Next]_vars => IInv'
<1> SUFFICES ASSUME IInv, [Next]_vars
             PROVE  IInv'
  OBVIOUS
<1>1. CASE UNCHANGED vars
  BY <1>1, StutterHolds
<1>2. CASE Begin \/ Edit
  BY <1>2, BeginStep, EditStep
<1>3. CASE Finish \/ GiveUp \/ Killed
  BY <1>3, ReturnStep
<1>4. CASE MakeDir \/ PutFile \/ Open
  BY <1>4, MakeDirStep, PutFileStep, OpenStep
<1>5. CASE Fill \/ FillError \/ FillLost
  BY <1>5, FillStep, FillErrorStep, FillLostStep
<1>6. CASE Link \/ Tidies \/ RemoveFile \/ Exec
  BY <1>6, LinkStep, TidiesStep, RemoveFileStep, ExecStep
<1>7. QED
  BY <1>1, <1>2, <1>3, <1>4, <1>5, <1>6 DEF Next

(* What a command has yet to do fits the disk it was started on and the    *)
(* disk as it is, at every moment.                                         *)
THEOREM CommandsWork == Spec => []IInv
BY InitHolds, NextHolds, PTL DEF Spec

(* Whatever is made, written or removed, and wherever a command stops,     *)
(* what exists is in a directory that exists, and a command that has       *)
(* returned has nothing left to do.                                        *)
THEOREM DisksAreTrees == Spec => []TypeOK
<1>1. IInv => TypeOK
  BY DEF IInv
<1>2. QED
  BY <1>1, CommandsWork, PTL

(* `night run' executes what it has built, from the source as it stood,    *)
(* and nothing when building failed.                                       *)
THEOREM RunsTheBuilt == Spec => []RunsWhatItBuilt
<1>1. IInv => RunsWhatItBuilt
  BY DEF IInv, RunsWhatItBuilt
<1>2. QED
  BY <1>1, CommandsWork, PTL

(***************************************************************************)
(* Each command keeps its promise.                                         *)
(***************************************************************************)

(* A command that is done, without a failure, has had its effect.          *)
LEMMA EffectFunction ==
  ASSUME NEW d, IsTree(d), NEW c
  PROVE  Effect(d, c) = [q \in DOMAIN Effect(d, c) |-> Effect(d, c)[q]]
<1> DEFINE e == Effect(d, c)
<1>1. CASE c.word = "init"
  <2>1. \E f, p, x : e = With(f, p, x)
    BY <1>1 DEF Effect, InitEffect, Building
  <2> HIDE DEF e
  <2>2. e = [q \in DOMAIN e |-> e[q]]
    BY <2>1 DEF With
  <2>3. QED
    BY <2>2 DEF e
<1>2. CASE c.word = "fmt"
  <2>1. \E f, p, x : e = With(f, p, x)
    BY <1>2 DEF Effect, Building
  <2> HIDE DEF e
  <2>2. e = [q \in DOMAIN e |-> e[q]]
    BY <2>1 DEF With
  <2>3. QED
    BY <2>2 DEF e
<1>3. CASE c.word = "clean" \/ c.word \in Building
  <2>1. \E f, ps : e = Without(f, ps)
    BY <1>3 DEF Effect, BuildEffect, Building
  <2> HIDE DEF e
  <2>2. e = [q \in DOMAIN e |-> e[q]]
    BY <2>1 DEF Without
  <2>3. QED
    BY <2>2 DEF e
<1>4. CASE c.word \notin {"init", "fmt", "clean"} \cup Building
  <2>1. e = d
    BY <1>4 DEF Effect, Building
  <2>2. QED
    BY <2>1, TreeFacts
<1>5. QED
  BY <1>1, <1>2, <1>3, <1>4

(* When nothing is left to write or remove, the effect is there.           *)
LEMMA EffectReached ==
  ASSUME NEW d, IsTree(d), NEW c, NEW now, IsTree(now), NEW s,
         OnTrack(s, now, Effect(d, c)),
         \A i \in DOMAIN s : s[i].do \notin Writes \cup Removes
  PROVE  now = Effect(d, c)
<1> DEFINE e == Effect(d, c)
<1>1. e = [q \in DOMAIN e |-> e[q]]
  BY EffectFunction
<1>2. now = [q \in DOMAIN now |-> now[q]]
  BY TreeFacts
<1> HIDE DEF e
<1>3. \A q \in DOMAIN now \cup DOMAIN e : q \in DOMAIN now \cap DOMAIN e /\ now[q] = e[q]
  BY DEF OnTrack, Touches, e
<1>4. DOMAIN now = DOMAIN e /\ \A q \in DOMAIN now : now[q] = e[q]
  BY <1>3
<1>5. now = e
  BY <1>1, <1>2, <1>4
<1>6. QED
  BY <1>5 DEF e

(* A command at work goes on, fails within its bounds, or returns when it  *)
(* has nothing left that changes a file.                                   *)
LEMMA AtWorkStep ==
  ASSUME IInv, status = "running", Next
  PROVE  /\ UNCHANGED <<args, before>>
         /\ \/ status' = "running"
            \/ status' = "failed" /\ Bounded(before, args, disk')
            \/ /\ status' = "ok" /\ UNCHANGED <<lost, disk>>
               /\ todo = <<>> \/ Doing("exec")
<1>1. /\ IsTree(disk) /\ IsTree(before) /\ args \in Commands
      /\ Working(todo, before, args, disk, lost)
  BY DEF IInv, TypeOK
<1>2. Bounded(before, args, disk)
  BY <1>1 DEF Working
<1>3. ASSUME UNCHANGED <<args, before>>, status' = "failed", UNCHANGED disk
      PROVE  Bounded(before, args, disk')
  BY <1>2, <1>3
<1>4. CASE Begin \/ Edit
  BY <1>4 DEF Begin, Edit
<1>5. CASE Finish
  BY <1>5 DEF Finish, Give, Rest
<1>6. CASE GiveUp \/ Killed
  BY <1>2, <1>6 DEF GiveUp, Killed, Fail, Give, Rest
<1>7. CASE MakeDir
  BY <1>2, <1>7 DEF MakeDir, Continue, Fail, Give, Rest
<1>8. CASE PutFile
  BY <1>8 DEF PutFile, Continue, Turn, Rest
<1>9. CASE Open
  BY <1>2, <1>9 DEF Open, Turn, Fail, Give, Rest
<1>10. CASE Fill \/ FillLost \/ Tidies
  BY <1>10 DEF Fill, FillLost, Tidies, Continue, Rest
<1>11. CASE FillError
  <2>1. PICK short \in CutShort(New) \ {New} : disk' = Put(Path, short)
    BY <1>11 DEF FillError
  <2>2. status' = "failed" /\ UNCHANGED <<args, before>> /\ Doing("fill")
    BY <1>11 DEF FillError, Fail, Give, Rest
  <2>3. /\ todo # <<>> /\ Path = todo[1].at /\ New = todo[1].new /\ todo[1].do = "fill"
    BY <2>2, Filling
  <2>4. 1 \in DOMAIN todo
    BY <2>3, AtWork
  <2>5. todo[1].do \in Writes \ {"mkdir"}
    BY <2>3 DEF Writes
  <2>6. At(Path) \in Targets(before, args) /\ short \in Written(before, args, At(Path))
    BY <1>1, <2>1, <2>3, <2>4, <2>5 DEF Working, TargetsOnly
  <2>7. disk' = With(disk, At(Path), short)
    BY <2>1 DEF Put
  <2>8. /\ DOMAIN disk' = DOMAIN disk \cup {At(Path)} /\ disk'[At(Path)] = short
        /\ \A q \in DOMAIN disk : q # At(Path) => disk'[q] = disk[q]
    BY ONLY <2>7 DEF With
  <2>9. Bounded(before, args, disk')
    BY <1>2, <2>6, <2>8, BoundedStep
  <2>10. QED
    BY <2>2, <2>9
<1>12. CASE Link
  BY <1>12 DEF Link, Linked, LinkFailed, Continue, Rest
<1>13. CASE RemoveFile
  BY <1>2, <1>13 DEF RemoveFile, Continue, Fail, Give, Rest
<1>14. CASE Exec
  <2>1. status' \in {"ok", "failed"} /\ UNCHANGED <<disk, lost, args, before>> /\ Doing("exec")
    BY <1>14 DEF Exec, Rest
  <2>2. QED
    BY <1>2, <2>1
<1>15. QED
  BY <1>4, <1>5, <1>6, <1>7, <1>8, <1>9, <1>10, <1>11, <1>12, <1>13, <1>14 DEF Next

(* A command that returns without an error and a lost write has done its   *)
(* work.                                                                   *)
LEMMA DoneWell ==
  ASSUME IInv, status = "running", todo = <<>> \/ Doing("exec"), ~lost
  PROVE  disk = Effect(before, args)
<1>1. /\ IsTree(disk) /\ IsTree(before) /\ Working(todo, before, args, disk, lost)
  BY DEF IInv, TypeOK
<1>2. \A i \in DOMAIN todo : todo[i].do = "exec"
  <2>1. CASE todo = <<>>
    BY <2>1, EmptySeq
  <2>2. CASE todo # <<>> /\ Doing("exec")
    <3>1. /\ 1 \in DOMAIN todo /\ todo[1].do = "exec"
          /\ todo \in Seq(Range(todo)) /\ OrderOk(todo, before, args)
      BY <2>2, AtWork
    <3>2. 1 = Len(todo) /\ DOMAIN todo = 1 .. Len(todo)
      BY <2>2, <3>1, TodoFacts DEF OrderOk, ExecOk
    <3>3. QED
      BY <3>1, <3>2
  <2>3. QED
    BY <2>1, <2>2
<1>3. OnTrack(todo, disk, Effect(before, args))
  BY <1>1, <1>2 DEF Working
<1>4. \A i \in DOMAIN todo : todo[i].do \notin Writes \cup Removes
  BY <1>2 DEF Writes, Removes
<1>5. QED
  BY <1>1, <1>3, <1>4, EffectReached

(* Where the promise sees a step of the code.                              *)
LEMMA KeepsPromise == IInv /\ Next => Promise!Next \/ UNCHANGED Promise!commandVars
<1> DEFINE seen == IF status = "running" THEN before ELSE disk
           result == IF status = "ok" /\ lost THEN "lost" ELSE status
<1> SUFFICES ASSUME IInv, Next
             PROVE  Promise!Next \/ UNCHANGED Promise!commandVars
  OBVIOUS
<1>1. CASE status # "running"
  <2>1. seen = disk /\ result # "running"
    BY <1>1
  <2>2. CASE Begin
    <3>1. status' = "running" /\ args' \in Commands /\ before' = disk
      BY <2>2 DEF Begin
    <3>2. seen' = seen /\ result' = "running"
      BY <2>1, <3>1
    <3>3. Promise!Start
      BY <2>1, <3>1, <3>2 DEF Promise!Start
    <3>4. QED
      BY <3>3 DEF Promise!Next
  <2>3. CASE Edit
    <3>1. /\ status' = "none" /\ args' = NoArgs
          /\ \E p \in DOMAIN disk, cs \in Texts :
               disk[p][1] = "text" /\ disk' = [disk EXCEPT ![p] = <<"text", cs>>]
      BY <2>3 DEF Edit
    <3>2. seen' = disk' /\ result' = "none"
      BY <3>1
    <3>3. Promise!Edit
      BY <2>1, <3>1, <3>2 DEF Promise!Edit
    <3>4. QED
      BY <3>3 DEF Promise!Next
  <2>4. CASE ~(Begin \/ Edit)
    BY <1>1, <2>4 DEF Next, Finish, GiveUp, MakeDir, PutFile, Open, Fill, FillError, FillLost,
                      Link, Tidies, RemoveFile, Exec, Killed, Doing
  <2>5. QED
    BY <2>2, <2>3, <2>4
<1>2. CASE status = "running"
  <2>1. seen = before /\ result = "running"
    BY <1>2
  <2>2. /\ UNCHANGED <<args, before>>
        /\ \/ status' = "running"
           \/ status' = "failed" /\ Bounded(before, args, disk')
           \/ /\ status' = "ok" /\ UNCHANGED <<lost, disk>>
              /\ todo = <<>> \/ Doing("exec")
    BY <1>2, AtWorkStep
  <2>3. /\ IsTree(disk) /\ IsTree(before) /\ Working(todo, before, args, disk, lost)
    BY <1>2 DEF IInv, TypeOK
  <2>4. CASE status' = "running"
    <3>1. seen' = seen /\ result' = result
      BY <2>1, <2>2, <2>4
    <3>2. QED
      BY <2>2, <3>1 DEF Promise!commandVars
  <2>5. ASSUME status' # "running", result' \in {"lost", "failed"}, Bounded(before, args, disk')
        PROVE  Promise!FallShort
    <3>1. seen' = disk'
      BY <2>5
    <3>2. QED
      BY <2>1, <2>2, <2>5, <3>1 DEF Promise!FallShort, Bounded
  <2>6. CASE status' = "failed" /\ Bounded(before, args, disk')
    BY <2>5, <2>6 DEF Promise!Next
  <2>7. CASE /\ status' = "ok" /\ UNCHANGED <<lost, disk>>
             /\ todo = <<>> \/ Doing("exec")
    <3>1. Bounded(before, args, disk')
      BY <2>3, <2>7 DEF Working
    <3>2. CASE lost
      BY <2>5, <2>7, <3>1, <3>2 DEF Promise!Next
    <3>3. CASE ~lost
      <4>1. disk = Effect(before, args)
        BY <1>2, <2>7, <3>3, DoneWell
      <4>2. seen' = Effect(before, args) /\ result' = "ok"
        BY <2>7, <3>3, <4>1
      <4>3. Promise!Do
        BY <2>1, <2>2, <4>2 DEF Promise!Do
      <4>4. QED
        BY <4>3 DEF Promise!Next
    <3>4. QED
      BY <3>2, <3>3
  <2>8. QED
    BY <2>2, <2>4, <2>6, <2>7
<1>3. QED
  BY <1>1, <1>2

(* The commands implement their promise: one that reports success has had  *)
(* its effect and no other; one that fails, is killed or loses a write     *)
(* leaves every path that is not its target as it was, and at a target     *)
(* what was there, nothing, or what it writes, perhaps cut short.          *)
THEOREM CodeImplementsCommands == Spec => ImplementsCommands
<1>1. Init => Promise!Init
  <2>1. SUFFICES ASSUME Init
                 PROVE  Promise!Init
    OBVIOUS
  <2>2. disk \in Disks /\ status = "none"
    BY <2>1 DEF Init
  <2>3. args = NoArgs
    BY <2>1 DEF Init
  <2>4. QED
    BY <2>2, <2>3 DEF Promise!Init
<1>2. IInv /\ [Next]_vars => [Promise!Next]_(Promise!commandVars)
  <2>1. CASE Next
    BY <2>1, KeepsPromise
  <2>2. CASE UNCHANGED vars
    BY <2>2 DEF vars, Promise!commandVars
  <2>3. QED
    BY <2>1, <2>2
<1>3. QED
  BY <1>1, <1>2, CommandsWork, PTL DEF Spec, ImplementsCommands, Promise!Spec

(***************************************************************************)
(* Sources survive.                                                        *)
(***************************************************************************)

(* A source that the command c, which is not fmt, leaves as it was on the  *)
(* disk d; and the disk on which all of them are.                          *)
Spares(d, c, p) ==
  p \in DOMAIN d /\ IsSource(d, p) /\ ~Replaces(d, c, p) /\ c.word # "fmt"
Spared(d, c, now) == \A p \in DOMAIN d : Spares(d, c, p) => p \in DOMAIN now /\ now[p] = d[p]

(* An operation left that is about such a source will find it in its way.  *)
Harmless(s, d, c) ==
  \A i \in DOMAIN s :
    s[i].do \in Writes \cup Removes /\ Spares(d, c, At(s[i].at)) =>
      \/ s[i].do = "mkdir"
      \/ s[i].do \in {"put", "write", "link", "remove"} /\ Last(s[i].at) = Here

(* What a command leaves of the disk it was started on, while it runs and  *)
(* when it has returned.                                                   *)
SInv ==
  /\ status # "none" => Spared(before, args, disk)
  /\ status = "running" => Harmless(todo, before, args)
  /\ status \in {"ok", "failed"} => Bounded(before, args, disk)
  /\ status = "ok" /\ ~lost => disk = Effect(before, args)

(* The name of a path that does not end in a dot.                          *)
LEMMA NameAt ==
  ASSUME NEW p \in Paths, NEW n \in Names, n # Here
  PROVE  Last(At(Append(p, n))) = n
<1>1. At(Append(p, n)) = Append(At(p), n) /\ At(p) \in Seq(Names)
  BY AtAppend, AtFacts DEF Paths
<1>2. QED
  BY <1>1, PopPush

(* The last part of a name of several.                                     *)
LEMMA PartLast ==
  ASSUME NEW m \in Names, NEW a \in Parts, NEW b \in Parts
  PROVE  m \o <<a, b>> \in Names /\ Last(m \o <<a, b>>) = b
         /\ m \o <<a, b>> # Here
<1> DEFINE s == <<a, b>>
           n == m \o s
<1>1. s \in Seq(Parts) /\ Len(s) = 2 /\ s[2] = b
  OBVIOUS
<1> HIDE DEF s
<1>2. m \in Seq(Parts) /\ Len(m) \in Nat
  BY LenProperties DEF Names
<1>3. /\ n \in Seq(Parts) /\ Len(n) = Len(m) + Len(s)
      /\ \A i \in 1 .. Len(m) + Len(s) : n[i] = IF i <= Len(m) THEN m[i] ELSE s[i - Len(m)]
  BY ONLY <1>1, <1>2, ConcatProperties
<1> HIDE DEF n
<1>4. Len(n) = Len(m) + 2 /\ Len(n) # 1
  BY <1>1, <1>2, <1>3
<1>5. /\ Len(m) + 2 \in 1 .. Len(m) + Len(s) /\ ~(Len(m) + 2 <= Len(m))
      /\ Len(m) + 2 - Len(m) = 2
  BY <1>1, <1>2
<1>6. n[Len(m) + 2] = s[2]
  BY <1>3, <1>5
<1>7. Last(n) = b
  BY <1>1, <1>4, <1>6 DEF Last
<1>8. n # Here
  <2>1. Len(Here) = 1
    BY DEF Here
  <2> HIDE DEF Here
  <2>2. QED
    BY <1>4, <2>1
<1>9. QED
  BY <1>3, <1>7, <1>8 DEF n, s, Names

(* Object and runtime are no sources.                                      *)
LEMMA LitterNoSource ==
  ASSUME NEW d, NEW c, NEW p \in Paths, p # Nothing, NEW q \in {Object(p), Runtime(p)}
  PROVE  ~Spares(d, c, At(q))
<1>1. Front(p) \in Paths /\ Last(p) \in Names
  BY FrontLast DEF Paths, Nothing
<1>2. {"llvm", "o", "rt", "c"} \subseteq Parts
  BY DirsAssumption DEF OwnParts
<1>3. PICK a \in {"llvm", "rt"}, b \in {"o", "c"} : q = Append(Front(p), Last(p) \o <<a, b>>)
  <2>1. CASE q = Object(p)
    <3>1. q = Append(Front(p), Last(p) \o <<"llvm", "o">>)
      BY <2>1 DEF Object, Beside
    <3>2. QED
      BY <3>1
  <2>2. CASE q = Runtime(p)
    <3>1. q = Append(Front(p), Last(p) \o <<"rt", "c">>)
      BY <2>2 DEF Runtime, Beside
    <3>2. QED
      BY <3>1
  <2>3. QED
    BY <2>1, <2>2
<1> DEFINE n == Last(p) \o <<a, b>>
<1>4. n \in Names /\ n # Here /\ Last(n) = b
  <2>1. a \in Parts /\ b \in Parts
    BY <1>2
  <2>2. QED
    BY <1>1, <2>1, PartLast
<1> HIDE DEF n
<1>5. Last(At(q)) = n
  BY <1>1, <1>3, <1>4, NameAt DEF n
<1>6. Last(n) # "afns"
  BY <1>3, <1>4
<1>7. QED
  BY <1>5, <1>6 DEF Spares, IsSource

(* A source is where its own name without the extension leads only when    *)
(* that name is followed by a dot.                                         *)
LEMMA StemElsewhere ==
  ASSUME NEW p \in Paths, p # Nothing, At(Stem(p)) = At(p), Len(Last(At(p))) > 1
  PROVE  Last(Stem(p)) = Here
<1> DEFINE n == Last(p)
           f == Front(p)
<1>1. /\ f \in Paths /\ n \in Names
      /\ At(p) = IF n = Here THEN At(f) ELSE Append(At(f), n)
  BY AtFront DEF Nothing
<1>2. At(f) \in Seq(Names)
  BY <1>1, AtFacts DEF Paths
<1>3. n # Here => Last(At(p)) = n
  BY <1>1, <1>2, PopPush
<1>4. Stem(p) = IF Len(n) = 1 THEN p ELSE Append(f, Front(n))
  BY DEF Stem
<1> HIDE DEF f
<1>5. CASE Len(n) = 1
  <2>1. Stem(p) = p
    BY <1>4, <1>5
  <2>2. n = Here
    <3> HIDE DEF n
    <3>1. QED
      BY <1>3, <1>5
  <2>3. QED
    BY <2>1, <2>2
<1>6. CASE Len(n) # 1
  <2>1. n # Here
    <3>1. Len(Here) = 1
      BY DEF Here
    <3> HIDE DEF n, Here
    <3>2. QED
      BY <1>6, <3>1
  <2>2. Len(n) > 1 /\ Last(At(p)) = n
    BY <1>3, <2>1
  <2>3. n \in Seq(Parts) /\ n # <<>>
    <3> HIDE DEF n
    <3>1. QED
      BY <1>1, <2>2, EmptySeq DEF Names
  <2>4. Front(n) \in Names /\ Len(Front(n)) = Len(n) - 1 /\ Len(n) \in Nat
    <3> HIDE DEF n
    <3>1. QED
      BY <2>3, FrontLast DEF Names
  <2>5. Front(n) # n
    <3> HIDE DEF n
    <3>1. QED
      BY <2>4
  <2>6. Stem(p) = Append(f, Front(n))
    BY <1>4, <1>6
  <2>7. Last(Stem(p)) = Front(n)
    BY <1>1, <2>4, <2>6, PopPush DEF Paths
  <2>8. ASSUME Front(n) # Here
        PROVE  FALSE
    <3>1. Last(At(Append(f, Front(n)))) = Front(n)
      BY <1>1, <2>4, <2>8, NameAt
    <3>2. QED
      BY <2>2, <2>5, <2>6, <3>1
  <2>9. QED
    BY <2>7, <2>8
<1>7. QED
  BY <1>5, <1>6

(* The output of a build is no source that is spared, or a path into one.  *)
LEMMA OutputElsewhere ==
  ASSUME NEW d, NEW c \in Commands, c.word \in {"build", "run", "clean"},
         Spares(d, c, At(Output(d, c)))
  PROVE  Last(Output(d, c)) = Here
<1>1. IsSource(d, At(Output(d, c))) /\ ~Replaces(d, c, At(Output(d, c)))
  BY DEF Spares
<1>2. c.out = Nothing /\ ~InProject(d, c) /\ At(Output(d, c)) = At(Source(d, c))
  BY <1>1 DEF Replaces
<1>3. Source(d, c) = c.path /\ Output(d, c) = Stem(c.path)
  BY <1>2 DEF Source, Output
<1>4. c.path \in Paths /\ c.path # Nothing
  BY <1>2, DirsAssumption DEF InProject
<1>5. At(Stem(c.path)) = At(c.path) /\ Len(Last(At(c.path))) > 1
  BY <1>1, <1>2, <1>3 DEF IsSource
<1>6. QED
  BY <1>3, <1>4, <1>5, StemElsewhere

(* What init makes is no source but main.afns, which it replaces.          *)
LEMMA InitHarmless ==
  ASSUME NEW d, NEW c \in Commands, c.word = "init"
  PROVE  /\ ~Spares(d, c, At(TomlFile(Root(c))))
         /\ ~Spares(d, c, At(MainFile(Root(c))))
<1> DEFINE n == <<"night", "toml">>
<1>1. Root(c) \in Paths /\ n \in Names
  BY RootFacts, OwnNames
<1>2. n # Here /\ Last(n) = "toml"
  BY DEF Here, Last
<1>3. TomlFile(Root(c)) = Append(Root(c), n)
  BY DEF TomlFile
<1> HIDE DEF n
<1>4. Last(Last(At(TomlFile(Root(c))))) = "toml"
  BY <1>1, <1>2, <1>3, NameAt
<1>5. ~Spares(d, c, At(TomlFile(Root(c))))
  BY <1>4 DEF Spares, IsSource
<1>6. Replaces(d, c, At(MainFile(Root(c))))
  BY DEF Replaces
<1>7. QED
  BY <1>5, <1>6 DEF Spares

(* What a command sets out to do harms no source that it spares.           *)
LEMMA PlanHarmless ==
  ASSUME NEW d, IsTree(d), NEW c \in Commands
  PROVE  Harmless(Ops(d, c), d, c)
<1> DEFINE s == Ops(d, c)
<1>1. CASE ~Ready(d, c)
  <2>1. s = <<Op("fail", Nothing, Nothing)>>
    BY <1>1 DEF Ops, GivingUp
  <2>2. \A i \in DOMAIN s : s[i].do = "fail"
    BY <2>1 DEF Op
  <2>3. QED
    BY <2>2 DEF Harmless, Writes, Removes
<1>2. CASE c.word = "fmt"
  BY <1>2 DEF Harmless, Spares
<1>3. CASE Ready(d, c) /\ c.word = "clean"
  <2>1. s = <<Op("remove", Output(d, c), Nothing)>>
    BY <1>3 DEF Ops, CleanOps
  <2>2. \A i \in DOMAIN s : s[i].do = "remove" /\ s[i].at = Output(d, c)
    BY <2>1 DEF Op
  <2> HIDE DEF s
  <2>3. Harmless(s, d, c)
    BY <1>3, <2>2, OutputElsewhere DEF Harmless
  <2>4. QED
    BY <2>3 DEF s
<1>4. CASE Ready(d, c) /\ c.word = "init"
  <2> DEFINE root == Root(c)
  <2>1. s = << Op("mkdir", root, Dir), Op("mkdir", SrcDir(root), Dir),
               Op("put", TomlFile(root), TomlOf(Last(root))), Op("put", MainFile(root), Template) >>
    BY <1>4 DEF Ops, InitOps
  <2>2. \A i \in DOMAIN s :
          s[i].do = "mkdir" \/ s[i].at \in {TomlFile(root), MainFile(root)}
    BY <2>1 DEF Op
  <2> HIDE DEF s
  <2>3. Harmless(s, d, c)
    BY <1>4, <2>2, InitHarmless DEF Harmless
  <2>4. QED
    BY <2>3 DEF s
<1>5. CASE Ready(d, c) /\ c.word \in Building
  <2> DEFINE out == Output(d, c)
  <2>1. PICK k : BuildSteps(s, d, c, k)
    BY <1>5, BuildShape
  <2>2. out \in Paths /\ out # Nothing
    BY <1>5, OutputTypes DEF Ready, Building
  <2> HIDE DEF s, out
  <2>3. k \in {0, 1} /\ DOMAIN s = 1 .. Len(s) /\ Len(s) = k + (IF c.word = "run" THEN 6 ELSE 5)
    BY <2>1 DEF BuildSteps
  <2>4. /\ k = 1 => s[1].do = "mkdir"
        /\ s[k + 1].at = Object(out) /\ s[k + 2].at = Runtime(out)
        /\ s[k + 3].do = "link" /\ s[k + 3].at = out
        /\ s[k + 4].at = Object(out) /\ s[k + 5].at = Runtime(out)
        /\ c.word = "run" => s[k + 6].do = "exec"
    BY <2>1 DEF BuildSteps, Op, out
  <2>5. ASSUME NEW i \in DOMAIN s
        PROVE  \/ s[i].do = "mkdir" \/ s[i].do = "exec"
               \/ s[i].at \in {Object(out), Runtime(out)}
               \/ s[i].do = "link" /\ s[i].at = out
    <3>1. \/ k = 1 /\ i = 1
          \/ i \in {k + 1, k + 2, k + 3, k + 4, k + 5}
          \/ c.word = "run" /\ i = k + 6
      BY <2>3
    <3>2. QED
      BY <2>4, <3>1
  <2>6. \A q \in {Object(out), Runtime(out)} : ~Spares(d, c, At(q))
    BY <2>2, LitterNoSource
  <2>7. Spares(d, c, At(out)) => Last(out) = Here
    BY <1>5, OutputElsewhere DEF Building, out
  <2>8. Harmless(s, d, c)
    BY <2>5, <2>6, <2>7 DEF Harmless, Writes, Removes
  <2>9. QED
    BY <2>8 DEF s
<1>6. CASE Ready(d, c) /\ c.word \notin {"init", "fmt", "clean"} \cup Building
  <2>1. s = <<>>
    BY <1>6 DEF Ops, Building
  <2>2. DOMAIN s = {}
    BY <2>1
  <2>3. QED
    BY <2>2 DEF Harmless
<1>7. QED
  BY <1>1, <1>2, <1>3, <1>4, <1>5, <1>6

(* A command at work, the operation at hand, and the sources it spares.    *)
LEMMA AtSource ==
  ASSUME IInv, SInv, status = "running", todo # <<>>
  PROVE  /\ IsTree(disk) /\ IsTree(before) /\ args \in Commands
         /\ todo \in Seq(Range(todo)) /\ 1 \in DOMAIN todo /\ OpOk(todo[1])
         /\ Path = todo[1].at /\ New = todo[1].new
         /\ \A do : Doing(do) <=> todo[1].do = do
         /\ Spared(before, args, disk) /\ Harmless(todo, before, args)
         /\ todo[1].do \in Writes \cup Removes /\ Spares(before, args, At(Path)) =>
              \/ todo[1].do = "mkdir"
              \/ todo[1].do \in {"put", "write", "link", "remove"} /\ Last(Path) = Here
<1>1. /\ IsTree(disk) /\ IsTree(before) /\ args \in Commands
      /\ todo \in Seq(Range(todo)) /\ 1 \in DOMAIN todo /\ OpOk(todo[1])
      /\ Path = todo[1].at /\ New = todo[1].new
      /\ \A do : Doing(do) <=> todo[1].do = do
  BY AtWork
<1>2. Spared(before, args, disk) /\ Harmless(todo, before, args)
  BY DEF SInv
<1>3. QED
  BY <1>1, <1>2 DEF Harmless

(* A spared source is on the disk, and is no directory.                    *)
LEMMA SparedThere ==
  ASSUME NEW d, NEW c, NEW now, Spared(d, c, now), NEW p, Spares(d, c, p)
  PROVE  p \in DOMAIN now /\ now[p] # Dir
<1>1. p \in DOMAIN now /\ now[p] = d[p] /\ d[p][1] = "text"
  BY DEF Spared, Spares, IsSource
<1>2. Dir[1] = "dir"
  BY DEF Dir
<1>3. QED
  BY <1>1, <1>2

(* Sources are spared when only another path is touched.                   *)
LEMMA PutSpares ==
  ASSUME NEW d, NEW c, NEW now, Spared(d, c, now), NEW p, ~Spares(d, c, p), NEW x
  PROVE  Spared(d, c, With(now, p, x)) /\ Spared(d, c, Without(now, {p}))
BY DEF Spared, With, Without

(* What is left is harmless when the first operation is done, or goes on   *)
(* as another that is.                                                     *)
LEMMA HarmlessTail ==
  ASSUME NEW s, s \in Seq(Range(s)), s # <<>>, NEW d, NEW c, Harmless(s, d, c)
  PROVE  Harmless(Tail(s), d, c)
<1> DEFINE t == Tail(s)
<1>1. \A i \in DOMAIN t : i + 1 \in DOMAIN s /\ t[i] = s[i + 1]
  BY TailFacts
<1> HIDE DEF t
<1>2. Harmless(t, d, c)
  BY <1>1 DEF Harmless
<1>3. QED
  BY <1>2 DEF t

(* The same for the operation at hand under another name.                  *)
LEMMA HarmlessTurn ==
  ASSUME NEW s, s \in Seq(Range(s)), s # <<>>, OpOk(s[1]), NEW d, NEW c, Harmless(s, d, c),
         NEW do, (do = "write" /\ s[1].do = "put") \/ ~Spares(d, c, At(s[1].at))
  PROVE  Harmless([s EXCEPT ![1].do = do], d, c)
<1> DEFINE t == [s EXCEPT ![1].do = do]
<1>1. /\ DOMAIN t = DOMAIN s /\ t[1] = Op(do, s[1].at, s[1].new)
      /\ \A i \in DOMAIN s : i > 1 => t[i] = s[i]
  BY TurnFacts
<1>2. DOMAIN s = 1 .. Len(s) /\ 1 \in DOMAIN s
  BY TodoFacts
<1> HIDE DEF t
<1>3. t[1].do = do /\ t[1].at = s[1].at
  BY <1>1 DEF Op
<1>4. ASSUME NEW i \in DOMAIN t, t[i].do \in Writes \cup Removes, Spares(d, c, At(t[i].at))
      PROVE  \/ t[i].do = "mkdir"
             \/ t[i].do \in {"put", "write", "link", "remove"} /\ Last(t[i].at) = Here
  <2>1. CASE i = 1
    <3>1. do = "write" /\ s[1].do = "put"
      BY <1>3, <1>4, <2>1
    <3>2. s[1].do \in Writes /\ Spares(d, c, At(s[1].at))
      BY <1>3, <1>4, <2>1, <3>1 DEF Writes
    <3>3. Last(s[1].at) = Here
      BY <1>2, <3>1, <3>2 DEF Harmless
    <3>4. QED
      BY <1>3, <2>1, <3>1, <3>3
  <2>2. CASE i # 1
    <3>1. i \in DOMAIN s /\ t[i] = s[i]
      BY <1>1, <1>2, <2>2
    <3>2. QED
      BY <1>4, <3>1 DEF Harmless
  <2>3. QED
    BY <2>1, <2>2
<1>5. Harmless(t, d, c)
  BY <1>4 DEF Harmless
<1>6. QED
  BY <1>5 DEF t

(* A file that can be written is no spared source, unless a directory is   *)
(* to be made there.                                                       *)
LEMMA WritableElsewhere ==
  ASSUME IInv, SInv, status = "running", todo # <<>>, Writable(Path),
         todo[1].do \in Writes \ {"mkdir"}
  PROVE  ~Spares(before, args, At(Path))
<1>1. /\ IsTree(disk) /\ OpOk(todo[1]) /\ Path = todo[1].at
      /\ Spares(before, args, At(Path)) =>
           \/ todo[1].do = "mkdir"
           \/ todo[1].do \in {"put", "write", "link", "remove"} /\ Last(Path) = Here
  BY AtSource
<1>2. Path \in Paths /\ Path # Nothing
  BY <1>1 DEF OpOk, Writes
<1>3. Last(Path) # Here
  BY <1>1, <1>2, WritePlace DEF Writable
<1>4. QED
  BY <1>1, <1>3

(* The sources are spared by what is done, and by what is left to do.      *)
Sparing == Spared(before, args, disk') /\ Harmless(todo', before, args)

(* A directory is made where nothing is.                                   *)
LEMMA MakeDirSpares ==
  ASSUME IInv, SInv, MakeDir, status' = "running"
  PROVE  Sparing
<1>1. status = "running" /\ todo # <<>> /\ todo' = Tail(todo)
  BY DEF MakeDir, Doing, Continue, Fail, Give
<1>2. /\ IsTree(disk) /\ OpOk(todo[1]) /\ Path = todo[1].at /\ todo[1].do = "mkdir"
      /\ todo \in Seq(Range(todo))
      /\ Spared(before, args, disk) /\ Harmless(todo, before, args)
  BY <1>1, AtSource DEF MakeDir
<1>3. Harmless(todo', before, args)
  BY <1>1, <1>2, HarmlessTail
<1>4. CASE disk' = disk
  BY <1>2, <1>3, <1>4 DEF Sparing
<1>5. CASE ~Exists(disk, Path) /\ IsDir(disk, Dirname(Path)) /\ disk' = Put(Path, Dir)
  <2>1. Path \in Paths /\ Path # Nothing /\ ~IsDir(disk, Path)
    BY <1>2, <1>5 DEF OpOk, IsDir
  <2>2. Last(Path) # Here
    BY <1>2, <1>5, <2>1, WritePlace
  <2>3. At(Path) \notin DOMAIN disk
    BY <1>5, <2>2 DEF Exists
  <2>4. ~Spares(before, args, At(Path))
    BY <1>2, <2>3, SparedThere
  <2>5. Spared(before, args, disk')
    BY <1>2, <1>5, <2>4, PutSpares DEF Put
  <2>6. QED
    BY <1>3, <2>5 DEF Sparing
<1>6. QED
  BY <1>4, <1>5 DEF MakeDir, Fail, Give

(* A file is compared, cut to nothing where a file may be, and filled.     *)
LEMMA WriteSpares ==
  ASSUME IInv, SInv, PutFile \/ Open \/ Fill \/ FillLost, status' = "running"
  PROVE  Sparing
<1>1. status = "running" /\ todo # <<>> /\ todo[1].do \in {"put", "write", "fill"}
  <2>1. status = "running" /\ todo # <<>>
    BY DEF PutFile, Open, Fill, FillLost, Doing
  <2>2. QED
    BY <2>1, AtSource DEF PutFile, Open, Fill, FillLost
<1>2. /\ IsTree(disk) /\ OpOk(todo[1]) /\ Path = todo[1].at
      /\ todo \in Seq(Range(todo))
      /\ Spared(before, args, disk) /\ Harmless(todo, before, args)
      /\ \A do : Doing(do) <=> todo[1].do = do
      /\ todo[1].do \in Writes \cup Removes /\ Spares(before, args, At(Path)) =>
           \/ todo[1].do = "mkdir"
           \/ todo[1].do \in {"put", "write", "link", "remove"} /\ Last(Path) = Here
  BY <1>1, AtSource
<1>3. Harmless(Tail(todo), before, args)
  BY <1>1, <1>2, HarmlessTail
<1>4. CASE PutFile
  <2>1. todo[1].do = "put" /\ disk' = disk
    BY <1>2, <1>4 DEF PutFile
  <2>2. todo' = Tail(todo) \/ todo' = [todo EXCEPT ![1].do = "write"]
    BY <1>4 DEF PutFile, Continue, Turn
  <2>3. Harmless([todo EXCEPT ![1].do = "write"], before, args)
    BY <1>1, <1>2, <2>1, HarmlessTurn
  <2>4. QED
    BY <1>2, <1>3, <2>1, <2>2, <2>3 DEF Sparing
<1>5. CASE Open
  <2>1. /\ todo[1].do = "write" /\ Writable(Path) /\ disk' = Put(Path, <<New[1], <<>>>>)
        /\ todo' = [todo EXCEPT ![1].do = "fill"]
    BY <1>2, <1>5 DEF Open, Turn, Fail, Give
  <2>2. ~Spares(before, args, At(Path))
    BY <1>1, <2>1, WritableElsewhere DEF Writes
  <2>3. Spared(before, args, disk')
    BY <1>2, <2>1, <2>2, PutSpares DEF Put
  <2>4. Harmless([todo EXCEPT ![1].do = "fill"], before, args)
    BY <1>1, <1>2, <2>2, HarmlessTurn
  <2>5. QED
    BY <2>1, <2>3, <2>4 DEF Sparing
<1>6. CASE Fill \/ FillLost
  <2>1. todo[1].do = "fill" /\ todo' = Tail(todo)
    BY <1>2, <1>6 DEF Fill, FillLost, Continue
  <2>2. PICK x : disk' = Put(Path, x)
    BY <1>6 DEF Fill, FillLost
  <2>3. ~Spares(before, args, At(Path))
    BY <1>2, <2>1 DEF Writes
  <2>4. Spared(before, args, disk')
    BY <1>2, <2>2, <2>3, PutSpares DEF Put
  <2>5. QED
    BY <1>3, <2>1, <2>4 DEF Sparing
<1>7. QED
  BY <1>4, <1>5, <1>6

(* A text that is as it was has kept what matters.                         *)
LEMMA KeptAsIs == \A x : x[1] = "text" => Kept(x, x)
BY Zenon DEF Kept

(* The linker writes where a file may be, and what is removed is beside.   *)
LEMMA LinkSpares ==
  ASSUME IInv, SInv, Link, status' = "running"
  PROVE  Sparing
<1>1. status = "running" /\ todo # <<>>
  BY DEF Link, Doing
<1>2. /\ IsTree(disk) /\ OpOk(todo[1]) /\ Path = todo[1].at /\ todo[1].do = "link"
      /\ todo \in Seq(Range(todo))
      /\ Spared(before, args, disk) /\ Harmless(todo, before, args)
  BY <1>1, AtSource DEF Link
<1>3. Path \in Paths /\ Path # Nothing
  BY <1>2 DEF OpOk
<1>4. Spared(before, args, disk')
  <2>1. CASE disk' = disk
    BY <1>2, <2>1
  <2>2. CASE Writable(Path) /\ (disk' = Drop(Path) \/ \E x : disk' = Put(Path, x))
    <3>1. ~Spares(before, args, At(Path))
      BY <1>1, <1>2, <2>2, WritableElsewhere DEF Writes
    <3>2. QED
      BY <1>2, <2>2, <3>1, PutSpares DEF Put, Drop
  <2>3. QED
    BY <2>1, <2>2 DEF Link, Linked, LinkFailed
<1>5. CASE todo' = Tail(todo)
  BY <1>1, <1>2, <1>4, <1>5, HarmlessTail DEF Sparing
<1>6. CASE todo' = Tidy(Path) \o GivingUp
  <2> DEFINE t == Tidy(Path) \o GivingUp
  <2>1. /\ DOMAIN t = 1 .. 3
        /\ t[1] = Op("tidy", Object(Path), Nothing)
        /\ t[2] = Op("tidy", Runtime(Path), Nothing)
        /\ t[3] = Op("fail", Nothing, Nothing)
    BY LinkRest
  <2> HIDE DEF t
  <2>2. t[1].at = Object(Path) /\ t[2].at = Runtime(Path) /\ t[3].do = "fail"
    BY <2>1 DEF Op
  <2>3. ~Spares(before, args, At(Object(Path))) /\ ~Spares(before, args, At(Runtime(Path)))
    BY <1>3, LitterNoSource
  <2>4. ASSUME NEW i \in DOMAIN t
        PROVE  t[i].do = "fail" \/ ~Spares(before, args, At(t[i].at))
    <3>1. i = 1 \/ i = 2 \/ i = 3
      BY <2>1
    <3>2. QED
      BY <2>2, <2>3, <3>1
  <2>5. Harmless(t, before, args)
    BY <2>4 DEF Harmless, Writes, Removes
  <2>6. QED
    BY <1>4, <1>6, <2>5 DEF Sparing, t
<1>7. QED
  BY <1>5, <1>6 DEF Link, Linked, LinkFailed, Continue

(* What is removed is there, and no file followed by a dot is.             *)
LEMMA RemoveSpares ==
  ASSUME IInv, SInv, Tidies \/ RemoveFile, status' = "running"
  PROVE  Sparing
<1>1. status = "running" /\ todo # <<>> /\ todo' = Tail(todo)
  BY DEF Tidies, RemoveFile, Doing, Continue, Fail, Give
<1>2. /\ Path = todo[1].at /\ todo \in Seq(Range(todo))
      /\ Spared(before, args, disk) /\ Harmless(todo, before, args)
      /\ todo[1].do \in Writes \cup Removes /\ Spares(before, args, At(Path)) =>
           \/ todo[1].do = "mkdir"
           \/ todo[1].do \in {"put", "write", "link", "remove"} /\ Last(Path) = Here
      /\ \A do : Doing(do) <=> todo[1].do = do
      /\ OpOk(todo[1])
  BY <1>1, AtSource
<1>3. Harmless(todo', before, args)
  BY <1>1, <1>2, HarmlessTail
<1>4. CASE disk' = disk
  BY <1>2, <1>3, <1>4 DEF Sparing
<1>5. ASSUME ~Spares(before, args, At(Path)), disk' = Drop(Path)
      PROVE  Sparing
  BY <1>2, <1>3, <1>5, PutSpares DEF Drop, Sparing
<1>6. CASE Tidies
  <2>1. todo[1].do = "tidy" /\ disk' = Drop(Path)
    BY <1>2, <1>6 DEF Tidies
  <2>2. ~Spares(before, args, At(Path))
    BY <1>2, <2>1 DEF Removes
  <2>3. QED
    BY <1>5, <2>1, <2>2
<1>7. CASE RemoveFile /\ Removable(Path) /\ disk' = Drop(Path)
  <2>1. todo[1].do = "remove" /\ Path # Nothing
    BY <1>2, <1>7 DEF RemoveFile, OpOk, Removes
  <2>2. ASSUME Spares(before, args, At(Path))
        PROVE  FALSE
    <3>1. Last(Path) = Here
      BY <1>2, <2>1, <2>2 DEF Removes
    <3>2. disk[At(Path)] # Dir
      BY <1>2, <2>2, SparedThere
    <3>3. QED
      BY <1>7, <2>1, <3>1, <3>2 DEF Removable, Exists
  <2>3. QED
    BY <1>5, <1>7, <2>2
<1>8. QED
  BY <1>4, <1>6, <1>7 DEF RemoveFile, Fail, Give

(* A command that returns has spared them too.                             *)
LEMMA EndSpares ==
  ASSUME IInv, SInv, Next, status = "running", status' # "running"
  PROVE  /\ Spared(before, args, disk')
         /\ UNCHANGED <<args, before>>
         /\ Bounded(before, args, disk')
         /\ status' = "ok" /\ ~lost' => disk' = Effect(before, args)
<1>1. /\ IsTree(disk) /\ IsTree(before) /\ Working(todo, before, args, disk, lost)
      /\ Spared(before, args, disk)
  BY DEF IInv, TypeOK, SInv
<1>2. /\ UNCHANGED <<args, before>>
      /\ \/ status' = "failed" /\ Bounded(before, args, disk')
         \/ /\ status' = "ok" /\ UNCHANGED <<lost, disk>>
            /\ todo = <<>> \/ Doing("exec")
  BY AtWorkStep
<1>3. Bounded(before, args, disk')
  BY <1>1, <1>2 DEF Working
<1>4. status' = "ok" /\ ~lost' => disk' = Effect(before, args)
  BY <1>2, DoneWell
<1>5. CASE disk' = disk
  BY <1>1, <1>2, <1>3, <1>4, <1>5
<1>6. CASE FillError
  <2>1. Doing("fill") /\ \E x : disk' = Put(Path, x)
    BY <1>6 DEF FillError
  <2>2. todo # <<>>
    BY <2>1 DEF Doing
  <2>3. ~Spares(before, args, At(Path))
    BY <2>1, <2>2, AtSource DEF Writes
  <2>4. Spared(before, args, disk')
    BY <1>1, <2>1, <2>3, PutSpares DEF Put
  <2>5. QED
    BY <1>2, <1>3, <1>4, <2>4
<1>7. CASE ~FillError /\ disk' # disk
  BY <1>7 DEF Next, Begin, Edit, Finish, GiveUp, MakeDir, PutFile, Open, Fill, FillLost, Link,
              Linked, LinkFailed, Tidies, RemoveFile, Exec, Killed, Continue, Turn, Fail, Give
<1>8. QED
  BY <1>5, <1>6, <1>7

(* The sources, step by step.                                              *)
LEMMA NextSpares == IInv /\ SInv /\ [Next]_vars => SInv'
<1> SUFFICES ASSUME IInv, SInv, [Next]_vars
             PROVE  SInv'
  OBVIOUS
<1>1. CASE UNCHANGED vars
  BY <1>1 DEF vars, SInv
<1>2. CASE Begin
  <2>1. /\ args' \in Commands /\ todo' = Ops(disk, args') /\ status' = "running"
        /\ before' = disk /\ disk' = disk
    BY <1>2 DEF Begin
  <2>2. Harmless(todo', before', args')
    <3>1. IsTree(disk)
      BY DEF IInv, TypeOK
    <3>2. Harmless(Ops(disk, args'), disk, args')
      BY <2>1, <3>1, PlanHarmless
    <3>3. QED
      BY <2>1, <3>2
  <2>3. Spared(before', args', disk')
    BY <2>1 DEF Spared
  <2>4. QED
    BY <2>1, <2>2, <2>3 DEF SInv
<1>3. CASE Edit
  BY <1>3 DEF Edit, SInv
<1>4. CASE Next /\ status = "running" /\ status' # "running"
  BY <1>4, EndSpares DEF SInv
<1>5. CASE Next /\ status = "running" /\ status' = "running"
  <2>1. UNCHANGED <<args, before>>
    BY <1>5, AtWorkStep
  <2>2. Sparing
    <3>1. ~(Begin \/ Edit \/ Finish \/ GiveUp \/ FillError \/ Exec \/ Killed)
      BY <1>5 DEF Begin, Edit, Finish, GiveUp, FillError, Exec, Killed, Fail, Give
    <3>2. QED
      BY <1>5, <3>1, MakeDirSpares, WriteSpares, LinkSpares, RemoveSpares DEF Next
  <2>3. QED
    BY <1>5, <2>1, <2>2 DEF SInv, Sparing
<1>6. CASE Next /\ status # "running" /\ ~(Begin \/ Edit)
  BY <1>6 DEF Next, Finish, GiveUp, MakeDir, PutFile, Open, Fill, FillError, FillLost,
              Link, Tidies, RemoveFile, Exec, Killed, Doing
<1>7. QED
  BY <1>1, <1>2, <1>3, <1>4, <1>5, <1>6

(* What fmt leaves of a source, if the formatter keeps what matters.       *)
LEMMA FmtSurvives ==
  ASSUME SInv, FormatterKeeps, status \in {"ok", "failed"}, args.word = "fmt",
         NEW p \in DOMAIN before, IsSource(before, p),
         ~(p = At(Source(before, args)) /\ (lost \/ status = "failed"))
  PROVE  p \in DOMAIN disk /\ Kept(before[p], disk[p])
<1>1. before[p][1] = "text"
  BY DEF IsSource
<1>2. CASE p = At(Source(before, args))
  <2>1. disk = Effect(before, args)
    BY <1>2 DEF SInv
  <2>2. disk = With(before, p, <<"text", Formatted(CString(before[p]))>>)
    BY <1>2, <2>1 DEF Effect, SourceFile, Building
  <2>3. p \in DOMAIN disk /\ disk[p] = <<"text", Formatted(CString(before[p]))>>
    BY <2>2 DEF With
  <2>4. Kept(before[p], <<"text", Formatted(CString(before[p]))>>)
    BY <1>1 DEF FormatterKeeps
  <2>5. QED
    BY <2>3, <2>4
<1>3. CASE p # At(Source(before, args))
  <2>1. p \notin Targets(before, args)
    BY <1>3 DEF Targets, Building
  <2>2. p \in DOMAIN disk /\ disk[p] = before[p]
    BY <2>1 DEF SInv, Bounded
  <2>3. QED
    BY <1>1, <2>2, KeptAsIs
<1>4. QED
  BY <1>2, <1>3

(* What the invariant says of the sources, once a command has returned.    *)
LEMMA SourcesKept == SInv /\ FormatterKeeps => SourcesSurvive
<1> SUFFICES ASSUME SInv, FormatterKeeps, status \in {"ok", "failed"},
                    NEW p \in DOMAIN before, IsSource(before, p),
                    ~Replaces(before, args, p),
                    ~(args.word = "fmt" /\ p = At(Source(before, args))
                        /\ (lost \/ status = "failed"))
             PROVE  p \in DOMAIN disk /\ Kept(before[p], disk[p])
  BY DEF SourcesSurvive
<1>1. CASE args.word = "fmt"
  BY <1>1, FmtSurvives
<1>2. CASE args.word # "fmt"
  <2>1. Spares(before, args, p)
    BY <1>2 DEF Spares
  <2>2. p \in DOMAIN disk /\ disk[p] = before[p]
    BY <2>1 DEF SInv, Spared
  <2>3. before[p][1] = "text"
    BY DEF IsSource
  <2>4. QED
    BY <2>2, <2>3, KeptAsIs
<1>3. QED
  BY <1>1, <1>2

(* Whatever fails, and wherever a command is killed, every source survives *)
(* that the command line does not replace and fmt was not writing, if the  *)
(* formatter keeps what matters of the texts on the disk.                  *)
THEOREM SourcesStay == Spec /\ []FormatterKeeps => []SourcesSurvive
<1>1. Init => SInv
  BY DEF Init, SInv
<1>2. Spec => []SInv
  BY <1>1, NextSpares, CommandsWork, PTL DEF Spec
<1>3. QED
  BY <1>2, SourcesKept, PTL

=============================================================================
