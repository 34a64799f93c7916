--------------------------- MODULE SequenceLemmas ---------------------------
(***************************************************************************)
(* Facts about the ends of sequences that the proofs of several components *)
(* need: Front and Last are the stack operations of the models, and the    *)
(* library of proof facts does not speak of them.                          *)
(***************************************************************************)
EXTENDS Integers, Sequences, SequencesExt, SequenceTheorems, WellFoundedInduction, TLAPS

(* The two ends of a non-empty sequence.                                   *)
LEMMA FrontLast ==
  ASSUME NEW S, NEW s \in Seq(S), s # <<>>
  PROVE  /\ Last(s) \in S
         /\ Front(s) \in Seq(S)
         /\ Len(Front(s)) = Len(s) - 1
         /\ Len(s) \in Nat \ {0}
         /\ Last(s) = s[Len(s)]
         /\ \A i \in 1 .. Len(s) - 1 : Front(s)[i] = s[i]
<1>1. Len(s) \in Nat \ {0}
  BY EmptySeq
<1>2. /\ Last(s) = s[Len(s)]
      /\ s[Len(s)] \in S
  BY <1>1, ElementOfSeq DEF Last
<1>3. \A i \in 1 .. Len(s) - 1 : s[i] \in S
  BY <1>1, ElementOfSeq
<1>4. /\ SubSeq(s, 1, Len(s) - 1) \in Seq(S)
      /\ Len(SubSeq(s, 1, Len(s) - 1)) =
           IF 1 <= Len(s) - 1 THEN Len(s) - 1 - 1 + 1 ELSE 0
      /\ \A i \in 1 .. Len(s) - 1 - 1 + 1 :
           SubSeq(s, 1, Len(s) - 1)[i] = s[1 + i - 1]
  <2>1. 1 \in Int /\ Len(s) - 1 \in Int
    BY <1>1
  <2>2. QED
    BY ONLY <1>3, <2>1, SubSeqProperties
<1>5. Front(s) = SubSeq(s, 1, Len(s) - 1)
  BY DEF Front
<1>6. /\ Front(s) \in Seq(S)
      /\ Len(Front(s)) = Len(s) - 1
  <2> DEFINE m == Len(s)
  <2>1. m \in Nat \ {0}
    BY <1>1
  <2> HIDE DEF m
  <2>2. (IF 1 <= m - 1 THEN m - 1 - 1 + 1 ELSE 0) = m - 1
    BY <2>1
  <2>3. QED
    BY <2>2, <1>4, <1>5, Zenon DEF m
<1>7. ASSUME NEW i \in 1 .. Len(s) - 1
      PROVE  Front(s)[i] = s[i]
  <2>1. /\ i \in 1 .. Len(s) - 1 - 1 + 1
        /\ 1 + i - 1 = i
    BY <1>1
  <2>2. QED
    BY <2>1, <1>4, <1>5, Zenon
<1>8. QED
  BY <1>1, <1>2, <1>6, <1>7

(* The stack after a push and its top.                                     *)
LEMMA PushFacts ==
  ASSUME NEW S, NEW s \in Seq(S), NEW e \in S
  PROVE  /\ Append(s, e) \in Seq(S)
         /\ Append(s, e) # <<>>
         /\ Len(s) \in Nat
         /\ Len(Append(s, e)) = Len(s) + 1
         /\ DOMAIN s = 1 .. Len(s)
         /\ DOMAIN Append(s, e) = 1 .. Len(s) + 1
         /\ \A i \in DOMAIN s : Append(s, e)[i] = s[i]
         /\ Append(s, e)[Len(s) + 1] = e
BY AppendProperties, LenProperties

(* A push keeps every entry and adds one at the new last index.            *)
LEMMA AppendAt ==
  ASSUME NEW S, NEW s \in Seq(S), NEW e \in S, NEW i \in DOMAIN Append(s, e)
  PROVE  \/ i \in DOMAIN s /\ Append(s, e)[i] = s[i]
         \/ i = Len(s) + 1 /\ Append(s, e)[i] = e
BY PushFacts

(* The domain of the rest of a stack, and its entries.                     *)
LEMMA PopFacts ==
  ASSUME NEW S, NEW s \in Seq(S), s # <<>>
  PROVE  /\ Front(s) \in Seq(S)
         /\ Len(s) \in Nat \ {0}
         /\ Len(Front(s)) = Len(s) - 1
         /\ DOMAIN s = 1 .. Len(s)
         /\ Len(s) \in DOMAIN s
         /\ DOMAIN Front(s) = 1 .. Len(s) - 1
         /\ Last(s) = s[Len(s)]
         /\ Last(s) \in S
         /\ \A i \in DOMAIN Front(s) : Front(s)[i] = s[i]
<1>1. Len(s) \in Nat \ {0} /\ DOMAIN s = 1 .. Len(s)
  BY FrontLast, LenProperties
<1>2. Len(s) \in DOMAIN s
  BY <1>1
<1>3. DOMAIN Front(s) = 1 .. Len(s) - 1 /\ Front(s) \in Seq(S)
  BY FrontLast, LenProperties
<1>4. /\ Len(Front(s)) = Len(s) - 1
      /\ Last(s) = s[Len(s)]
      /\ Last(s) \in S
      /\ \A i \in 1 .. Len(s) - 1 : Front(s)[i] = s[i]
  BY FrontLast
<1>5. QED
  BY ONLY <1>1, <1>2, <1>3, <1>4

(* A prefix taken at a count the sequence has.                             *)
LEMMA PrefixFacts ==
  ASSUME NEW S, NEW s \in Seq(S), NEW n \in 0 .. Len(s)
  PROVE  /\ SubSeq(s, 1, n) \in Seq(S)
         /\ Len(SubSeq(s, 1, n)) = n
         /\ \A i \in 1 .. n : SubSeq(s, 1, n)[i] = s[i]
<1>1. Len(s) \in Nat
  BY LenProperties
<1>2. 1 \in Int /\ n \in Int /\ \A i \in 1 .. n : s[i] \in S
  BY <1>1, ElementOfSeq
<1>3. /\ SubSeq(s, 1, n) \in Seq(S)
      /\ Len(SubSeq(s, 1, n)) = IF 1 <= n THEN n - 1 + 1 ELSE 0
      /\ \A i \in 1 .. n - 1 + 1 : SubSeq(s, 1, n)[i] = s[1 + i - 1]
  BY ONLY <1>2, SubSeqProperties
<1>4. QED
  BY <1>1, <1>2, <1>3

(* The ends of a prefix: a stack that is popped entry by entry goes        *)
(* through its prefixes.                                                   *)
LEMMA PrefixEnds ==
  ASSUME NEW S, NEW s \in Seq(S), NEW n \in 1 .. Len(s)
  PROVE  /\ SubSeq(s, 1, n) # <<>>
         /\ Last(SubSeq(s, 1, n)) = s[n]
         /\ Front(SubSeq(s, 1, n)) = SubSeq(s, 1, n - 1)
<1> DEFINE p == SubSeq(s, 1, n)
           q == SubSeq(s, 1, n - 1)
<1>1. Len(s) \in Nat /\ n \in Nat \ {0} /\ n \in 0 .. Len(s) /\ n - 1 \in 0 .. Len(s)
  BY LenProperties
<1>2. p \in Seq(S) /\ Len(p) = n /\ \A i \in 1 .. n : p[i] = s[i]
  BY <1>1, PrefixFacts
<1>3. q \in Seq(S) /\ Len(q) = n - 1 /\ \A i \in 1 .. n - 1 : q[i] = s[i]
  BY <1>1, PrefixFacts
<1> HIDE DEF p, q
<1>4. p # <<>>
  BY <1>1, <1>2, EmptySeq
<1>5. Last(p) = s[n]
  <2>1. Last(p) = p[Len(p)]
    BY <1>2, <1>4, FrontLast
  <2>2. n \in 1 .. n
    BY <1>1
  <2>3. QED
    BY <1>2, <2>1, <2>2
<1>6. /\ Front(p) \in Seq(S) /\ Len(Front(p)) = n - 1
      /\ \A i \in 1 .. n - 1 : Front(p)[i] = p[i]
  BY <1>1, <1>2, <1>4, FrontLast
<1>7. Front(p) = q
  <2>1. \A i \in 1 .. n - 1 : i \in 1 .. n
    BY <1>1
  <2>2. \A i \in 1 .. Len(Front(p)) : Front(p)[i] = q[i]
    BY <1>2, <1>3, <1>6, <2>1
  <2>3. QED
    BY <1>3, <1>6, <2>2, SeqEqual
<1>8. QED
  BY <1>4, <1>5, <1>7 DEF p, q


(* A pop undoes a push.                                                    *)
LEMMA PopPush ==
  ASSUME NEW S, NEW s \in Seq(S), NEW e \in S
  PROVE  Front(Append(s, e)) = s /\ Last(Append(s, e)) = e
<1> DEFINE t == Append(s, e)
           n == Len(s)
<1>1. /\ t \in Seq(S) /\ t # <<>> /\ n \in Nat /\ Len(t) = n + 1
      /\ DOMAIN s = 1 .. n /\ t[n + 1] = e
      /\ \A i \in DOMAIN s : t[i] = s[i]
  BY PushFacts
<1> HIDE DEF t
<1>2. /\ Last(t) = t[Len(t)] /\ Front(t) \in Seq(S)
      /\ Len(Front(t)) = Len(t) - 1
      /\ \A i \in 1 .. Len(t) - 1 : Front(t)[i] = t[i]
  BY <1>1, FrontLast
<1> HIDE DEF n
<1>3. Len(t) - 1 = n
  BY <1>1
<1>4. Front(t) = s
  <2>1. \A i \in 1 .. n : Front(t)[i] = s[i]
    BY <1>1, <1>2, <1>3
  <2>2. Len(Front(t)) = n
    BY <1>2, <1>3
  <2>3. QED
    BY <1>2, <2>1, <2>2, SeqEqual DEF n
<1>5. QED
  BY <1>1, <1>2, <1>4 DEF t

(* A set of numbers has a least one: the first hit of a bounded search, or *)
(* the first place at which a claim about places fails.                    *)
LEMMA LeastIn ==
  ASSUME NEW T, T \subseteq Nat, T # {}
  PROVE  \E j \in T : \A k \in T : j <= k
<1>1. PICK j \in T : \A k \in T : <<k, j>> \notin OpToRel(<, Nat)
  BY NatLessThanWellFounded, WFMin
<1>2. ASSUME NEW k \in T, k < j
      PROVE  FALSE
  <2>1. k \in Nat /\ j \in Nat
    OBVIOUS
  <2>2. <<k, j>> \in OpToRel(<, Nat)
    BY <1>2, <2>1 DEF OpToRel
  <2>3. QED
    BY <1>1, <2>2
<1>3. \A k \in T : k \in Nat /\ j \in Nat
  OBVIOUS
<1>4. \A k \in T : j <= k
  BY <1>2, <1>3
<1>5. QED
  BY <1>4
=============================================================================
