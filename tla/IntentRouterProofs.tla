------------------------- MODULE IntentRouterProofs -------------------------
(***************************************************************************)
(* Proofs about IntentRouter, for any callers, nodes, vectorizers, cosines *)
(* and words: one call of Match answers by one measure.                    *)
(***************************************************************************)
EXTENDS IntentRouter, LeastNumber, SequenceTheorems, TLAPS
LOCAL INSTANCE SequencesExt

-----------------------------------------------------------------------------
(* Fractions are ordered.                                                  *)

LEMMA Ordered ==
  ASSUME NEW a \in Score, NEW b \in Score
  PROVE  Above(a, b) => ~Above(b, a)
<1>1. a[1] \in Int /\ a[2] \in Int /\ b[1] \in Int /\ b[2] \in Int
  BY DEF Score
<1> QED
  BY <1>1 DEF Above

(* What is above a score is above what that is not below.                  *)
LEMMA AboveAll ==
  ASSUME NEW a \in Score, NEW b \in Score, NEW m \in Score, Above(a, m), ~Above(b, m)
  PROVE  Above(a, b)
<1> PICK a1 \in Int, a2 \in Nat \ {0}, b1 \in Int, b2 \in Nat \ {0},
         m1 \in Int, m2 \in Nat \ {0} :
      a = <<a1, a2>> /\ b = <<b1, b2>> /\ m = <<m1, m2>>
  BY DEF Score
<1>1. a1 * m2 > m1 * a2 /\ b1 * m2 <= m1 * b2
  BY DEF Above
<1>2. (a1 * m2) * b2 > (m1 * a2) * b2
  BY <1>1
<1>3. (b1 * m2) * a2 <= (m1 * b2) * a2
  BY <1>1
<1>4. (a1 * b2) * m2 > (b1 * a2) * m2
  BY <1>2, <1>3
<1>5. a1 * b2 > b1 * a2
  BY <1>4
<1> QED
  BY <1>5 DEF Above

-----------------------------------------------------------------------------
(* The best of the first examples.                                         *)

Pair == [node : Nodes, example : Texts]

Foremost(i, ps, n, score) ==
  /\ Above(score[ps[i].example], NoScore)
  /\ \A j \in 1 .. n : ~Above(score[ps[j].example], score[ps[i].example])
  /\ \A j \in 1 .. i - 1 : Above(score[ps[i].example], score[ps[j].example])

Leads(ps, n, score, best) ==
  \/ best = NoBest /\ \A i \in 1 .. n : ~Above(score[ps[i].example], NoScore)
  \/ \E i \in 1 .. n : /\ best = [node |-> ps[i].node, score |-> score[ps[i].example]]
                       /\ Foremost(i, ps, n, score)

LEMMA NoneLeads ==
  ASSUME NEW ps, NEW score
  PROVE  Leads(ps, 0, score, NoBest)
  BY DEF Leads

LEMMA BetterLeads ==
  ASSUME NEW ps \in Seq(Pair), NEW score \in [Texts -> Score], NEW n \in Nat,
         n + 1 \in 1 .. Len(ps), NEW best, Leads(ps, n, score, best)
  PROVE  Leads(ps, n + 1, score,
               Better(best, ps[n + 1].node, score[ps[n + 1].example]))
<1> DEFINE sc(i) == score[ps[i].example]
<1> PICK next : next = Better(best, ps[n + 1].node, sc(n + 1))
  OBVIOUS
<1> SUFFICES Leads(ps, n + 1, score, next)
  OBVIOUS
<1>1. \A i \in 1 .. n + 1 : sc(i) \in Score
  <2> SUFFICES ASSUME NEW i \in 1 .. n + 1 PROVE sc(i) \in Score
    OBVIOUS
  <2>1. ps[i] \in Pair
    OBVIOUS
  <2> QED
    BY <2>1 DEF Pair
<1>2. NoScore \in Score
  BY DEF NoScore, Score
<1>3. CASE best = NoBest /\ \A i \in 1 .. n : ~Above(sc(i), NoScore)
  <2>1. CASE Above(sc(n + 1), NoScore)
    <3>1. next = [node |-> ps[n + 1].node, score |-> sc(n + 1)]
      BY <1>3, <2>1 DEF Better, NoBest
    <3>2. \A j \in 1 .. n : Above(sc(n + 1), sc(j))
      BY <1>1, <1>2, <1>3, <2>1, AboveAll
    <3>3. \A j \in 1 .. n + 1 : ~Above(sc(j), sc(n + 1))
      BY <1>1, <3>2, Ordered
    <3>4. Foremost(n + 1, ps, n + 1, score)
      BY <2>1, <3>2, <3>3 DEF Foremost
    <3> QED
      BY <3>1, <3>4 DEF Leads
  <2>2. CASE ~Above(sc(n + 1), NoScore)
    <3>1. next = NoBest
      BY <1>3, <2>2 DEF Better, NoBest
    <3> QED
      BY <1>3, <2>2, <3>1 DEF Leads
  <2> QED
    BY <2>1, <2>2
<1>4. ASSUME NEW i \in 1 .. n, Foremost(i, ps, n, score),
             best = [node |-> ps[i].node, score |-> sc(i)]
      PROVE  Leads(ps, n + 1, score, next)
  <2>1. CASE Above(sc(n + 1), sc(i))
    <3>1. next = [node |-> ps[n + 1].node, score |-> sc(n + 1)]
      BY <1>4, <2>1 DEF Better
    <3>2. \A j \in 1 .. n : Above(sc(n + 1), sc(j))
      BY <1>1, <1>4, <2>1, AboveAll DEF Foremost
    <3>3. \A j \in 1 .. n + 1 : ~Above(sc(j), sc(n + 1))
      BY <1>1, <3>2, Ordered
    <3>4. ~Above(NoScore, sc(i))
      BY <1>1, <1>2, <1>4, Ordered DEF Foremost
    <3>5. Above(sc(n + 1), NoScore)
      BY <1>1, <1>2, <2>1, <3>4, AboveAll
    <3>6. Foremost(n + 1, ps, n + 1, score)
      BY <3>2, <3>3, <3>5 DEF Foremost
    <3> QED
      BY <3>1, <3>6 DEF Leads
  <2>2. CASE ~Above(sc(n + 1), sc(i))
    <3>1. next = best
      BY <1>4, <2>2 DEF Better
    <3>2. Foremost(i, ps, n + 1, score)
      BY <1>4, <2>2 DEF Foremost
    <3> QED
      BY <1>4, <3>1, <3>2 DEF Leads
  <2> QED
    BY <2>1, <2>2
<1> QED
  BY <1>3, <1>4 DEF Leads

(* The best of all is the match.                                           *)
LEMMA LeaderIsBest ==
  ASSUME NEW ps \in Seq(Pair), NEW score, NEW best, Leads(ps, Len(ps), score, best)
  PROVE  best = Best(ps, score)
<1>1. \A i \in DOMAIN ps : IsFirst(i, ps, score) <=> Foremost(i, ps, Len(ps), score)
  BY DEF IsFirst, Foremost
<1>2. CASE best = NoBest /\ \A i \in 1 .. Len(ps) : ~Above(score[ps[i].example], NoScore)
  <2>1. DOMAIN ps = 1 .. Len(ps)
    OBVIOUS
  <2>2. \A i \in DOMAIN ps : ~IsFirst(i, ps, score)
    BY <1>2, <2>1, Zenon DEF IsFirst
  <2> QED
    BY <1>2, <2>2, Zenon DEF Best
<1>3. ASSUME NEW i \in 1 .. Len(ps), Foremost(i, ps, Len(ps), score),
             best = [node |-> ps[i].node, score |-> score[ps[i].example]]
      PROVE  best = Best(ps, score)
  <2>1. i \in DOMAIN ps /\ IsFirst(i, ps, score)
    BY <1>1, <1>3
  <2>2. \A k \in DOMAIN ps : IsFirst(k, ps, score) => k = i
    BY <2>1 DEF IsFirst
  <2>3. (CHOOSE k \in DOMAIN ps : IsFirst(k, ps, score)) = i
    BY <2>1, <2>2
  <2> QED
    BY <1>3, <2>1, <2>3 DEF Best
<1> QED
  BY <1>2, <1>3 DEF Leads

-----------------------------------------------------------------------------
(* The recursive functions.                                                *)

Flattens(f, seqs, n) ==
  f = [i \in 1 .. n |-> IF i = 1 THEN seqs[i] ELSE f[i - 1] \o seqs[i]]

(* There is such a function.                                               *)
LEMMA FlattenExists ==
  ASSUME NEW seqs, NEW l \in Nat, l # 0
  PROVE  \E f : Flattens(f, seqs, l)
<1> DEFINE ends == {n \in 1 .. l : ~\E f : Flattens(f, seqs, n)}
<1> SUFFICES ASSUME ends # {} PROVE FALSE
  OBVIOUS
<1>1. PICK n \in ends : \A m \in ends : n <= m
  <2>1. ends \subseteq Nat
    OBVIOUS
  <2> HIDE DEF ends
  <2> QED
    BY <2>1, Least
<1>2. n \in 1 .. l /\ ~\E f : Flattens(f, seqs, n)
  OBVIOUS
<1>3. CASE n = 1
  <2> PICK f : f = [i \in 1 .. 1 |-> seqs[i]]
    OBVIOUS
  <2>1. Flattens(f, seqs, 1)
    BY DEF Flattens
  <2> QED
    BY <1>2, <1>3, <2>1
<1>4. CASE n # 1
  <2>1. n - 1 \in 1 .. l /\ n - 1 \in 1 .. n
    BY <1>2, <1>4
  <2>2. n - 1 \notin ends
    BY <1>1, <1>2, <2>1
  <2>3. PICK g : Flattens(g, seqs, n - 1)
    BY <2>1, <2>2
  <2> PICK f : f = [i \in 1 .. n |-> IF i = n THEN g[n - 1] \o seqs[n] ELSE g[i]]
    OBVIOUS
  <2>4. f[n] = g[n - 1] \o seqs[n] /\ \A i \in 1 .. n - 1 : f[i] = g[i]
    <3>1. n \in Nat /\ n \in 1 .. n /\ \A i \in 1 .. n - 1 : i \in 1 .. n /\ i # n
      BY <1>2
    <3> HIDE DEF ends
    <3> QED
      BY <3>1
  <2>5. \A i \in 1 .. n - 1 : g[i] = IF i = 1 THEN seqs[i] ELSE g[i - 1] \o seqs[i]
    BY <2>3 DEF Flattens
  <2>6. \A i \in 1 .. n : f[i] = IF i = 1 THEN seqs[i] ELSE f[i - 1] \o seqs[i]
    <3> TAKE i \in 1 .. n
    <3>1. CASE i = n
      <4>1. n - 1 \in 1 .. n - 1
        BY <2>1
      <4> QED
        BY <1>4, <2>4, <3>1, <4>1
    <3>2. CASE i # n
      BY <2>1, <2>4, <2>5, <3>2
    <3> QED
      BY <3>1, <3>2
  <2>7. Flattens(f, seqs, n)
    BY <2>6 DEF Flattens
  <2> QED
    BY <1>2, <2>7
<1> QED
  BY <1>3, <1>4

(* A list of lists, flattened, is a list.                                  *)
LEMMA Flattened ==
  ASSUME NEW S, NEW seqs \in Seq(Seq(S))
  PROVE  FlattenSeq(seqs) \in Seq(S)
<1> PICK l : l = Len(seqs)
  OBVIOUS
<1>1. CASE l = 0
  <2>1. FlattenSeq(seqs) = seqs
    BY <1>1, Zenon DEF FlattenSeq
  <2>2. seqs = <<>>
    BY <1>1, EmptySeq
  <2> QED
    BY <2>1, <2>2
<1>2. CASE l # 0
  <2>1. l \in Nat /\ \A i \in 1 .. l : seqs[i] \in Seq(S)
    OBVIOUS
  <2>2. \E f : Flattens(f, seqs, l)
    BY <1>2, <2>1, FlattenExists
  <2>3. PICK f : Flattens(f, seqs, l) /\ FlattenSeq(seqs) = f[l]
    BY <1>2, <2>2, Zenon DEF FlattenSeq, Flattens
  <2> DEFINE ends == {n \in 1 .. l : f[n] \notin Seq(S)}
  <2>4. ASSUME ends # {} PROVE FALSE
    <3>1. ends \subseteq Nat
      BY <2>1
    <3>2. PICK n \in ends : \A m \in ends : n <= m
      <4> HIDE DEF ends
      <4> QED
        BY <2>4, <3>1, Least
    <3>3. n \in 1 .. l /\ f[n] = IF n = 1 THEN seqs[n] ELSE f[n - 1] \o seqs[n]
      BY <2>3 DEF Flattens
    <3>4. CASE n = 1
      BY <2>1, <3>2, <3>3, <3>4
    <3>5. CASE n # 1
      <4>1. n - 1 \in 1 .. l /\ ~(n <= n - 1)
        BY <2>1, <3>3, <3>5
      <4>2. f[n - 1] \in Seq(S)
        BY <3>2, <4>1
      <4> QED
        <5>1. f[n] = f[n - 1] \o seqs[n] /\ seqs[n] \in Seq(S)
          BY <2>1, <3>3, <3>5
        <5>2. f[n] \in Seq(S)
          BY <4>2, <5>1
        <5> QED
          BY <3>2, <5>2
    <3> QED
      BY <3>4, <3>5
  <2> QED
    BY <1>2, <2>1, <2>3, <2>4
<1> QED
  BY <1>1, <1>2

BestFrom(f, text, ps, n) ==
  f = [i \in 0 .. n |-> IF i = 0 THEN NoBest
                        ELSE Better(f[i - 1], ps[i].node, Jaccard(text, ps[i].example))]

LEMMA BestExists ==
  ASSUME NEW text, NEW ps, NEW l \in Nat
  PROVE  \E f : BestFrom(f, text, ps, l)
<1> DEFINE ends == {n \in 0 .. l : ~\E f : BestFrom(f, text, ps, n)}
<1> SUFFICES ASSUME ends # {} PROVE FALSE
  OBVIOUS
<1>1. PICK n \in ends : \A m \in ends : n <= m
  <2>1. ends \subseteq Nat
    OBVIOUS
  <2> HIDE DEF ends
  <2> QED
    BY <2>1, Least
<1>2. n \in 0 .. l /\ ~\E f : BestFrom(f, text, ps, n)
  OBVIOUS
<1>3. CASE n = 0
  <2> PICK f : f = [i \in 0 .. 0 |-> NoBest]
    OBVIOUS
  <2>1. BestFrom(f, text, ps, 0)
    BY DEF BestFrom
  <2> QED
    BY <1>2, <1>3, <2>1
<1>4. CASE n # 0
  <2>1. n - 1 \in 0 .. l /\ n - 1 \in 0 .. n
    BY <1>2, <1>4
  <2>2. n - 1 \notin ends
    BY <1>1, <1>2, <2>1
  <2>3. PICK g : BestFrom(g, text, ps, n - 1)
    BY <2>1, <2>2
  <2> PICK last : last = Better(g[n - 1], ps[n].node, Jaccard(text, ps[n].example))
    OBVIOUS
  <2> PICK f : f = [i \in 0 .. n |-> IF i = n THEN last ELSE g[i]]
    OBVIOUS
  <2>4. f[n] = last /\ \A i \in 0 .. n - 1 : f[i] = g[i]
    <3>1. n \in Nat /\ n \in 0 .. n /\ \A i \in 0 .. n - 1 : i \in 0 .. n /\ i # n
      BY <1>2
    <3> HIDE DEF ends
    <3> QED
      BY <3>1
  <2>5. \A i \in 0 .. n - 1 :
          g[i] = IF i = 0 THEN NoBest
                 ELSE Better(g[i - 1], ps[i].node, Jaccard(text, ps[i].example))
    BY <2>3 DEF BestFrom
  <2>6. \A i \in 0 .. n :
          f[i] = IF i = 0 THEN NoBest
                 ELSE Better(f[i - 1], ps[i].node, Jaccard(text, ps[i].example))
    <3> TAKE i \in 0 .. n
    <3>1. CASE i = n
      <4>1. n - 1 \in 0 .. n - 1
        BY <2>1
      <4> QED
        BY <1>4, <2>4, <3>1, <4>1
    <3>2. CASE i # n
      BY <2>1, <2>4, <2>5, <3>2
    <3> QED
      BY <3>1, <3>2
  <2>7. BestFrom(f, text, ps, n)
    BY <2>6 DEF BestFrom
  <2> QED
    BY <1>2, <2>7
<1> QED
  BY <1>3, <1>4

(* By words, the loop leads to the best.                                   *)
LEMMA WordsLead ==
  ASSUME NEW text \in Texts, NEW ps \in Seq(Pair),
         NEW score \in [Texts -> Score], \A e \in Texts : score[e] = Jaccard(text, e)
  PROVE  Leads(ps, Len(ps), score, BestByWords(text, ps))
<1> PICK l : l = Len(ps)
  OBVIOUS
<1>1. l \in Nat /\ \A i \in 1 .. l : ps[i].example \in Texts
  <2>1. \A i \in 1 .. l : ps[i] \in Pair
    OBVIOUS
  <2> QED
    BY <2>1 DEF Pair
<1>2. PICK f : BestFrom(f, text, ps, l) /\ BestByWords(text, ps) = f[l]
  <2>1. \E f : BestFrom(f, text, ps, l)
    BY <1>1, BestExists
  <2> QED
    BY <2>1, Zenon DEF BestByWords, BestFrom
<1> DEFINE ends == {n \in 0 .. l : ~Leads(ps, n, score, f[n])}
<1>3. ASSUME ends # {} PROVE FALSE
  <2>1. ends \subseteq Nat
    BY <1>1
  <2>2. PICK n \in ends : \A m \in ends : n <= m
    <3> HIDE DEF ends
    <3> QED
      BY <1>3, <2>1, Least
  <2>3. n \in 0 .. l /\ ~Leads(ps, n, score, f[n])
    OBVIOUS
  <2>4. CASE n = 0
    <3>1. f[0] = NoBest
      BY <1>1, <1>2 DEF BestFrom
    <3> QED
      BY <2>3, <2>4, <3>1, NoneLeads
  <2>5. CASE n # 0
    <3>1. n - 1 \in 0 .. l /\ ~(n <= n - 1) /\ n \in 1 .. l
      BY <1>1, <2>3, <2>5
    <3>2. Leads(ps, n - 1, score, f[n - 1])
      BY <2>2, <3>1
    <3>3. f[n] = Better(f[n - 1], ps[n].node, Jaccard(text, ps[n].example))
      BY <1>2, <2>3, <2>5 DEF BestFrom
    <3>4. f[n] = Better(f[n - 1], ps[n].node, score[ps[n].example])
      BY <1>1, <3>1, <3>3
    <3> PICK m : m = n - 1
      OBVIOUS
    <3>5. m \in Nat /\ m + 1 = n /\ m + 1 \in 1 .. Len(ps)
      BY <1>1, <3>1
    <3> HIDE DEF ends
    <3> QED
      BY <2>3, <3>2, <3>4, <3>5, BetterLeads
  <2> QED
    BY <2>4, <2>5
<1> QED
  BY <1>1, <1>2, <1>3

-----------------------------------------------------------------------------
(* Examples and measures.                                                  *)

LEMMA PairsAre ==
  ASSUME NEW ns \in Seq(Nodes)
  PROVE  Pairs(ns) \in Seq(Pair)
<1> DEFINE of(i) == [j \in DOMAIN ns[i].examples |->
                       [node |-> ns[i], example |-> ns[i].examples[j]]]
           all == [i \in DOMAIN ns |-> of(i)]
<1>1. ASSUME NEW i \in 1 .. Len(ns) PROVE of(i) \in Seq(Pair)
  <2>1. ns[i] \in Nodes /\ ns[i].examples \in Seq(Texts)
    BY RouterAssumption
  <2>2. \A j \in 1 .. Len(ns[i].examples) : of(i)[j] \in Pair
    BY <2>1 DEF Pair
  <2> PICK l : l = Len(ns[i].examples)
    OBVIOUS
  <2>3. DOMAIN ns[i].examples = 1 .. l /\ l \in Nat
    BY <2>1
  <2>4. of(i) \in [1 .. l -> Pair]
    BY <2>2, <2>3
  <2> HIDE DEF of
  <2> QED
    BY <2>3, <2>4
<1>2. all \in [1 .. Len(ns) -> Seq(Pair)] /\ Len(ns) \in Nat
  <2> HIDE DEF of
  <2> QED
    BY <1>1
<1>3. all \in Seq(Seq(Pair))
  <2> HIDE DEF all
  <2> QED
    BY <1>2
<1>4. Pairs(ns) = FlattenSeq(all)
  BY DEF Pairs
<1> HIDE DEF all
<1> QED
  BY <1>3, <1>4, Flattened

LEMMA JaccardIs ==
  ASSUME NEW a \in Texts, NEW b \in Texts
  PROVE  Jaccard(a, b) \in Score
<1>1. CASE Words[a] = {} \/ Words[b] = {}
  BY <1>1 DEF Jaccard, NoScore, Score
<1>2. CASE Words[a] # {} /\ Words[b] # {}
  <2> PICK A, B : A = Words[a] /\ B = Words[b]
    OBVIOUS
  <2>1. IsFiniteSet(A) /\ IsFiniteSet(B)
    BY RouterAssumption
  <2>2. IsFiniteSet(A \cap B) /\ IsFiniteSet(A \cup B) /\ A \cup B # {}
    BY <1>2, <2>1, FS_Intersection, FS_Union
  <2>3. Cardinality(A \cap B) \in Nat /\ Cardinality(A \cup B) \in Nat \ {0}
    BY <2>2, FS_CardinalityType, FS_EmptySet
  <2>4. Jaccard(a, b) = <<Cardinality(A \cap B), Cardinality(A \cup B)>>
    BY <1>2 DEF Jaccard
  <2> QED
    BY <2>3, <2>4 DEF Score
<1> QED
  BY <1>1, <1>2

LEMMA MeasureIs ==
  ASSUME NEW fr, fr.text \in Texts, fr.semantic => vectorizer \in Vectorizers
  PROVE  Measure(fr) \in [Texts -> Score]
<1> SUFFICES ASSUME NEW e \in Texts
             PROVE  /\ fr.semantic => Cosine[<<<<vectorizer, fr.text>>, <<vectorizer, e>>>>] \in Score
                    /\ Jaccard(fr.text, e) \in Score
  BY DEF Measure
<1>1. fr.semantic => <<<<vectorizer, fr.text>>, <<vectorizer, e>>>> \in Vector \X Vector
  BY DEF Vector
<1> QED
  BY <1>1, JaccardIs, RouterAssumption

-----------------------------------------------------------------------------
(* The invariant.                                                          *)

Frame == {"domain", "text", "pc", "want", "vector", "query", "todo", "best", "result",
          "semantic", "known"}

(* What a call knew when, of the nodes its domain has now.                 *)
Known(fr, known) == Pairs(SubSeq(nodes[fr.domain], 1, known))

(* So far the examples a call has compared lead to its best.               *)
Comparing(fr) ==
  \E known \in fr.known .. Len(nodes[fr.domain]) :
    \E i \in 0 .. Len(Known(fr, known)) :
      /\ fr.todo = SubSeq(Known(fr, known), i + 1, Len(Known(fr, known)))
      /\ Leads(Known(fr, known), i, Measure(fr), fr.best)

Answered(fr) ==
  \E known \in fr.known .. Len(nodes[fr.domain]) :
    fr.result = Result(Best(Known(fr, known), Measure(fr)))

(* The text that is wanted is the query, or the next example.              *)
Seeking(fr) ==
  /\ fr.query = None => fr.want = fr.text /\ fr.best = NoBest
  /\ fr.query # None => /\ fr.query = <<vectorizer, fr.text>>
                        /\ fr.todo # <<>> /\ fr.want = Head(fr.todo).example
                        /\ Comparing(fr)

(* The query has its vector, and no node is read yet.                      *)
Embedded(fr) == fr.query = <<vectorizer, fr.text>> /\ fr.best = NoBest

Asks(fr) ==
  /\ DOMAIN fr = Frame /\ fr.domain \in Domains /\ fr.text \in Texts
  /\ fr.known \in 0 .. Len(nodes[fr.domain])
  /\ fr.semantic => vectorizer \in Vectorizers

FrameInv(fr) ==
  /\ Asks(fr)
  /\ fr.pc \in {"look", "embed", "fill", "nodes", "lexical", "matched", "returned", "panicked"}
  /\ fr.pc \in {"look", "embed", "fill"} => fr.semantic /\ Seeking(fr)
  /\ fr.pc = "nodes" => fr.semantic /\ Embedded(fr)
  /\ fr.pc = "fill" => fr.vector = <<vectorizer, fr.want>>
  /\ fr.pc = "lexical" => ~fr.semantic
  /\ fr.pc \in {"matched", "returned"} => Answered(fr)

(* What is cached is a vector of the vectorizer.                           *)
CacheInv ==
  \A text \in Texts :
    cache[text] # None => vectorizer \in Vectorizers /\ cache[text] = <<vectorizer, text>>

IInv ==
  /\ nodes \in [Domains -> Seq(Nodes)] /\ DOMAIN cache = Texts /\ DOMAIN matching = Callers
  /\ vectorizer \in Vectorizers \cup {None} /\ replaced \in BOOLEAN
  /\ ~replaced => /\ CacheInv
                  /\ \A c \in Callers : matching[c] # None => FrameInv(matching[c])

LEMMA InitIInv == Init => IInv
<1> SUFFICES ASSUME Init PROVE IInv
  OBVIOUS
<1>1. nodes \in [Domains -> Seq(Nodes)]
  BY RouterAssumption DEF Init
<1>2. CacheInv /\ \A c \in Callers : matching[c] = None
  BY DEF Init, CacheInv
<1> QED
  BY <1>1, <1>2 DEF Init, IInv

(* Examples of the nodes a call may have read.                             *)
LEMMA KnownPairs ==
  ASSUME nodes \in [Domains -> Seq(Nodes)], NEW fr, Asks(fr),
         NEW known \in fr.known .. Len(nodes[fr.domain])
  PROVE  Known(fr, known) \in Seq(Pair)
<1>1. nodes[fr.domain] \in Seq(Nodes) /\ fr.known \in Nat
  BY DEF Asks
<1>2. SubSeq(nodes[fr.domain], 1, known) \in Seq(Nodes)
  BY <1>1
<1> QED
  BY <1>2, PairsAre DEF Known

(* A call whose comparison goes on or ends.                                *)
LEMMA OnwardInv ==
  ASSUME nodes \in [Domains -> Seq(Nodes)], NEW fr, Asks(fr), fr.semantic,
         fr.query = <<vectorizer, fr.text>>, fr.query # None, Comparing(fr)
  PROVE  FrameInv(Onward(fr))
<1> PICK next : next = Onward(fr)
  OBVIOUS
<1>1. PICK known \in fr.known .. Len(nodes[fr.domain]) :
        \E i \in 0 .. Len(Known(fr, known)) :
          /\ fr.todo = SubSeq(Known(fr, known), i + 1, Len(Known(fr, known)))
          /\ Leads(Known(fr, known), i, Measure(fr), fr.best)
  BY DEF Comparing
<1> PICK ps : ps = Known(fr, known)
  OBVIOUS
<1>2. PICK i \in 0 .. Len(ps) : fr.todo = SubSeq(ps, i + 1, Len(ps)) /\ Leads(ps, i, Measure(fr), fr.best)
  BY <1>1
<1>3. ps \in Seq(Pair)
  BY KnownPairs
<1>4. CASE fr.todo = <<>>
  <2>1. next = [fr EXCEPT !.pc = "matched", !.result = Result(fr.best)]
    BY <1>4 DEF Onward
  <2>2. /\ DOMAIN next = Frame /\ next.domain = fr.domain /\ next.text = fr.text
        /\ next.known = fr.known /\ next.semantic = fr.semantic /\ next.pc = "matched"
        /\ next.result = Result(fr.best)
    BY <2>1 DEF Asks, Frame
  <2>3. i = Len(ps)
    BY <1>2, <1>3, <1>4
  <2>4. fr.best = Best(ps, Measure(fr))
    BY <1>2, <1>3, <2>3, LeaderIsBest
  <2>5. Known(next, known) = ps /\ Measure(next) = Measure(fr)
    BY <2>2 DEF Known, Measure
  <2>6. Answered(next)
    BY <2>2, <2>4, <2>5 DEF Answered
  <2> QED
    BY <2>2, <2>6 DEF FrameInv, Asks
<1>5. CASE fr.todo # <<>>
  <2>1. next = [fr EXCEPT !.pc = "look", !.want = Head(fr.todo).example]
    BY <1>5 DEF Onward
  <2>2. /\ DOMAIN next = Frame /\ next.domain = fr.domain /\ next.text = fr.text
        /\ next.known = fr.known /\ next.semantic = fr.semantic /\ next.pc = "look"
        /\ next.query = fr.query /\ next.todo = fr.todo /\ next.best = fr.best
        /\ next.want = Head(next.todo).example
    BY <2>1 DEF Asks, Frame
  <2>3. Measure(next) = Measure(fr) /\ \A k : Known(next, k) = Known(fr, k)
    BY <2>2 DEF Known, Measure
  <2>4. Comparing(next)
    BY <2>2, <2>3 DEF Comparing
  <2> QED
    BY <1>5, <2>2, <2>4 DEF FrameInv, Asks, Seeking
<1> QED
  BY <1>4, <1>5

(* The next of what is left of a list.                                     *)
LEMMA NextLeft ==
  ASSUME NEW S, NEW s \in Seq(S), NEW i \in 0 .. Len(s), NEW left,
         left = SubSeq(s, i + 1, Len(s)), left # <<>>
  PROVE  /\ i + 1 \in 1 .. Len(s) /\ Head(left) = s[i + 1]
         /\ Tail(left) = SubSeq(s, (i + 1) + 1, Len(s))
<1> PICK l : l = Len(s)
  OBVIOUS
<1>1. l \in Nat /\ i \in Nat /\ i <= l
  OBVIOUS
<1>2. i # l
  BY <1>1
<1>3. left \in Seq(S) /\ Len(left) = l - i /\ \A j \in 1 .. l - i : left[j] = s[i + j]
  BY <1>1, <1>2
<1>4. Head(left) = s[i + 1]
  BY <1>1, <1>2, <1>3
<1> PICK t : t = SubSeq(s, (i + 1) + 1, l)
  OBVIOUS
<1>5. t \in Seq(S) /\ Len(t) = l - i - 1 /\ \A j \in 1 .. l - i - 1 : t[j] = s[i + 1 + j]
  BY <1>1, <1>2
<1>6. /\ Tail(left) \in Seq(S) /\ Len(Tail(left)) = l - i - 1
      /\ \A j \in 1 .. l - i - 1 : Tail(left)[j] = left[j + 1]
  BY <1>1, <1>2, <1>3
<1>7. \A j \in 1 .. l - i - 1 : Tail(left)[j] = t[j]
  <2> TAKE j \in 1 .. l - i - 1
  <2>1. j + 1 \in 1 .. l - i /\ i + (j + 1) = i + 1 + j
    BY <1>1
  <2>2. Tail(left)[j] = left[j + 1]
    BY <1>6
  <2>3. left[j + 1] = s[i + (j + 1)]
    BY <1>3, <2>1, Zenon
  <2>4. t[j] = s[i + 1 + j]
    BY <1>5
  <2> QED
    BY <2>1, <2>2, <2>3, <2>4, Zenon
<1>8. Tail(left) = t
  BY <1>5, <1>6, <1>7, SeqEqual
<1> QED
  BY <1>1, <1>2, <1>4, <1>8

(* A call that has read the nodes.                                         *)
LEMMA ReadInv ==
  ASSUME nodes \in [Domains -> Seq(Nodes)], NEW fr, Asks(fr), fr.semantic, Embedded(fr)
  PROVE  FrameInv(Onward([fr EXCEPT !.todo = Pairs(nodes[fr.domain])]))
<1> PICK ps : ps = Pairs(nodes[fr.domain])
  OBVIOUS
<1> PICK read : read = [fr EXCEPT !.todo = ps]
  OBVIOUS
<1>1. /\ DOMAIN read = Frame /\ read.domain = fr.domain /\ read.text = fr.text
      /\ read.known = fr.known /\ read.semantic = fr.semantic /\ read.best = fr.best
      /\ read.query = fr.query /\ read.todo = ps
  BY DEF Asks, Frame
<1>2. read.query = <<vectorizer, read.text>> /\ read.best = NoBest
  BY <1>1 DEF Embedded
<1>3. read.query # None
  <2>1. <<vectorizer, read.text>> \in Vector
    BY <1>1 DEF Asks, Vector
  <2> QED
    BY <1>2, <2>1, RouterAssumption
<1> PICK l : l = Len(nodes[fr.domain])
  OBVIOUS
<1>4. nodes[fr.domain] \in Seq(Nodes) /\ l \in Nat /\ l \in fr.known .. l
  BY DEF Asks
<1>5. SubSeq(nodes[fr.domain], 1, l) = nodes[fr.domain]
  BY <1>4
<1>6. Known(read, l) = ps
  BY <1>1, <1>5 DEF Known
<1>7. ps \in Seq(Pair)
  BY <1>4, PairsAre
<1>8. ps = SubSeq(ps, 0 + 1, Len(ps)) /\ 0 \in 0 .. Len(ps)
  BY <1>7
<1>9. Leads(ps, 0, Measure(read), read.best)
  BY <1>2, NoneLeads
<1>10. Comparing(read)
  <2>1. /\ read.todo = SubSeq(Known(read, l), 0 + 1, Len(Known(read, l)))
        /\ Leads(Known(read, l), 0, Measure(read), read.best)
        /\ 0 \in 0 .. Len(Known(read, l))
    BY <1>1, <1>6, <1>8, <1>9
  <2>2. l \in read.known .. Len(nodes[read.domain])
    BY <1>1, <1>4
  <2> QED
    BY <2>1, <2>2, Zenon DEF Comparing
<1>11. Asks(read)
  BY <1>1 DEF Asks
<1> QED
  BY <1>1, <1>2, <1>3, <1>10, <1>11, OnwardInv

(* A call that got the vector it wanted.                                   *)
LEMMA GotInv ==
  ASSUME nodes \in [Domains -> Seq(Nodes)], NEW fr, Asks(fr), fr.semantic, Seeking(fr)
  PROVE  FrameInv(Got(fr, <<vectorizer, fr.want>>))
<1> PICK vector : vector = <<vectorizer, fr.want>>
  OBVIOUS
<1>1. CASE fr.query = None
  <2> PICK next : next = [fr EXCEPT !.pc = "nodes", !.query = vector]
    OBVIOUS
  <2>1. /\ DOMAIN next = Frame /\ next.domain = fr.domain /\ next.text = fr.text
        /\ next.known = fr.known /\ next.semantic = fr.semantic /\ next.best = fr.best
        /\ next.query = vector /\ next.pc = "nodes"
    BY DEF Asks, Frame
  <2>2. Embedded(next)
    BY <1>1, <2>1 DEF Seeking, Embedded
  <2>3. Got(fr, vector) = next
    BY <1>1 DEF Got
  <2> QED
    BY <2>1, <2>2, <2>3 DEF FrameInv, Asks
<1>2. CASE fr.query # None
  <2> PICK better : better = Better(fr.best, Head(fr.todo).node, Cosine[<<fr.query, vector>>])
    OBVIOUS
  <2> PICK read : read = [fr EXCEPT !.todo = Tail(@), !.best = better]
    OBVIOUS
  <2>1. /\ DOMAIN read = Frame /\ read.domain = fr.domain /\ read.text = fr.text
        /\ read.known = fr.known /\ read.semantic = fr.semantic /\ read.query = fr.query
        /\ read.todo = Tail(fr.todo) /\ read.best = better
    BY DEF Asks, Frame
  <2>2. /\ fr.query = <<vectorizer, fr.text>> /\ fr.todo # <<>>
        /\ fr.want = Head(fr.todo).example /\ Comparing(fr)
    BY <1>2 DEF Seeking
  <2>3. PICK known \in fr.known .. Len(nodes[fr.domain]) :
          \E i \in 0 .. Len(Known(fr, known)) :
            /\ fr.todo = SubSeq(Known(fr, known), i + 1, Len(Known(fr, known)))
            /\ Leads(Known(fr, known), i, Measure(fr), fr.best)
    BY <2>2 DEF Comparing
  <2> PICK ps : ps = Known(fr, known)
    OBVIOUS
  <2> PICK score : score = Measure(fr)
    OBVIOUS
  <2>4. PICK i \in 0 .. Len(ps) : fr.todo = SubSeq(ps, i + 1, Len(ps)) /\ Leads(ps, i, score, fr.best)
    BY <2>3
  <2>5. ps \in Seq(Pair) /\ score \in [Texts -> Score]
    BY KnownPairs, MeasureIs DEF Asks
  <2>6. /\ i \in Nat /\ i + 1 \in 1 .. Len(ps) /\ Head(fr.todo) = ps[i + 1]
        /\ Tail(fr.todo) = SubSeq(ps, (i + 1) + 1, Len(ps))
    <3>1. /\ i + 1 \in 1 .. Len(ps) /\ Head(fr.todo) = ps[i + 1]
          /\ Tail(fr.todo) = SubSeq(ps, (i + 1) + 1, Len(ps))
      BY <2>2, <2>4, <2>5, NextLeft
    <3>2. i \in Nat
      BY <2>4
    <3> QED
      BY <3>1, <3>2
  <2>7. ps[i + 1] \in Pair
    BY <2>5, <2>6
  <2>8. Cosine[<<fr.query, vector>>] = score[ps[i + 1].example]
    BY <2>2, <2>6, <2>7 DEF Measure, Pair
  <2>9. Leads(ps, i + 1, score, better)
    BY <2>4, <2>5, <2>6, <2>8, BetterLeads
  <2>10. Measure(read) = score /\ Known(read, known) = ps
    BY <2>1 DEF Measure, Known
  <2> PICK m : m = i + 1
    OBVIOUS
  <2>11. /\ m \in 0 .. Len(ps) /\ read.todo = SubSeq(ps, m + 1, Len(ps))
         /\ Leads(ps, m, Measure(read), read.best)
    <3>1. m \in 0 .. Len(ps)
      BY <2>5, <2>6
    <3> QED
      BY <2>1, <2>6, <2>9, <2>10, <3>1
  <2>12. Comparing(read)
    BY <2>1, <2>10, <2>11 DEF Comparing
  <2>13. Asks(read)
    BY <2>1 DEF Asks
  <2>14. Got(fr, vector) = Onward(read)
    BY <1>2 DEF Got
  <2> QED
    BY <1>2, <2>1, <2>2, <2>12, <2>13, <2>14, OnwardInv
<1> QED
  BY <1>1, <1>2

(* A list with an element more.                                            *)
Longer(was, is) ==
  /\ Len(was) \in Nat /\ Len(is) \in Nat /\ Len(is) >= Len(was)
  /\ \A k \in 0 .. Len(was) : SubSeq(is, 1, k) = SubSeq(was, 1, k)

LEMMA AppendLonger ==
  ASSUME NEW S, NEW was \in Seq(S), NEW n \in S, NEW is, is = Append(was, n)
  PROVE  Longer(was, is)
<1>1. is \in Seq(S) /\ Len(is) = Len(was) + 1 /\ \A i \in 1 .. Len(was) : is[i] = was[i]
  OBVIOUS
<1>2. ASSUME NEW k \in 0 .. Len(was) PROVE SubSeq(is, 1, k) = SubSeq(was, 1, k)
  <2> PICK a, b : a = SubSeq(is, 1, k) /\ b = SubSeq(was, 1, k)
    OBVIOUS
  <2>1. a \in Seq(S) /\ Len(a) = k /\ \A i \in 1 .. k : a[i] = is[i]
    BY <1>1
  <2>2. b \in Seq(S) /\ Len(b) = k /\ \A i \in 1 .. k : b[i] = was[i]
    OBVIOUS
  <2> QED
    BY <1>1, <2>1, <2>2, SeqEqual
<1> QED
  BY <1>1, <1>2 DEF Longer

(* A call that goes on looking for the same text.                          *)
LEMMA OtherStage ==
  ASSUME NEW fr, Asks(fr), fr.semantic, Seeking(fr), NEW next, DOMAIN next = Frame,
         \A part \in Frame \ {"pc", "vector"} : next[part] = fr[part],
         \/ next.pc = "embed"
         \/ next.pc = "fill" /\ next.vector = <<vectorizer, fr.want>>
  PROVE  FrameInv(next)
<1>1. /\ next.domain = fr.domain /\ next.text = fr.text /\ next.known = fr.known
      /\ next.semantic = fr.semantic /\ next.query = fr.query /\ next.want = fr.want
      /\ next.todo = fr.todo /\ next.best = fr.best
  BY DEF Frame
<1>2. Measure(next) = Measure(fr) /\ \A k : Known(next, k) = Known(fr, k)
  BY <1>1 DEF Measure, Known
<1>3. Comparing(fr) => Comparing(next)
  BY <1>1, <1>2 DEF Comparing
<1>4. Seeking(next)
  BY <1>1, <1>3 DEF Seeking
<1> QED
  BY <1>1, <1>4 DEF FrameInv, Asks

(* A step of one call.                                                     *)
LEMMA OneCall ==
  ASSUME IInv, NEW c \in Callers, NEW fr, ~replaced => FrameInv(fr), Becomes(c, fr),
         UNCHANGED <<nodes, vectorizer, replaced>>, DOMAIN cache' = Texts,
         ~replaced => CacheInv'
  PROVE  IInv'
<1>1. matching' = [matching EXCEPT ![c] = fr]
  BY DEF Becomes
<1>2. ASSUME ~replaced, NEW d \in Callers, matching'[d] # None PROVE FrameInv(matching[d])'
  <2> PICK x : x = matching'[d]
    OBVIOUS
  <2>1. FrameInv(x)
    BY <1>1, <1>2 DEF IInv
  <2>2. Measure(x)' = Measure(x) /\ \A k : Known(x, k)' = Known(x, k)
    BY DEF Measure, Known
  <2>3. Comparing(x) => Comparing(x)'
    BY <2>2 DEF Comparing
  <2>4. Answered(x) => Answered(x)'
    BY <2>2 DEF Answered
  <2>5. Seeking(x) => Seeking(x)'
    BY <2>3 DEF Seeking
  <2>6. FrameInv(x)'
    BY <2>1, <2>4, <2>5 DEF FrameInv, Asks, Embedded
  <2> QED
    BY <2>6
<1> QED
  BY <1>1, <1>2 DEF IInv

-----------------------------------------------------------------------------
(* The actions.                                                            *)

LEMMA MatchIInv ==
  ASSUME IInv, NEW c \in Callers, Match(c)
  PROVE  IInv'
<1>1. PICK q \in Queries :
        Becomes(c, [domain |-> q[1], text |-> q[2],
                    pc |-> IF vectorizer = None THEN "lexical" ELSE "look", want |-> q[2],
                    vector |-> None, query |-> None, todo |-> <<>>, best |-> NoBest,
                    result |-> None, semantic |-> vectorizer # None,
                    known |-> Len(nodes[q[1]])])
  BY DEF Match, Becomes
<1> PICK fr : fr = [domain |-> q[1], text |-> q[2],
                    pc |-> IF vectorizer = None THEN "lexical" ELSE "look", want |-> q[2],
                    vector |-> None, query |-> None, todo |-> <<>>, best |-> NoBest,
                    result |-> None, semantic |-> vectorizer # None,
                    known |-> Len(nodes[q[1]])]
  OBVIOUS
<1>2. /\ DOMAIN fr = Frame /\ fr.domain = q[1] /\ fr.text = q[2] /\ fr.want = q[2]
      /\ fr.query = None /\ fr.best = NoBest /\ fr.known = Len(nodes[q[1]])
      /\ fr.semantic <=> vectorizer # None
      /\ fr.pc = IF vectorizer = None THEN "lexical" ELSE "look"
  BY DEF Frame
<1>3. q[1] \in Domains /\ q[2] \in Texts
  BY RouterAssumption
<1>4. Asks(fr)
  <2>1. nodes[q[1]] \in Seq(Nodes)
    BY <1>3 DEF IInv
  <2>2. fr.known \in 0 .. Len(nodes[q[1]])
    BY <1>2, <2>1
  <2> QED
    BY <1>2, <1>3, <2>2 DEF Asks, IInv
<1>5. FrameInv(fr)
  BY <1>2, <1>4 DEF FrameInv, Seeking
<1> QED
  BY <1>1, <1>5, OneCall DEF Match, IInv, CacheInv

LEMMA RouteIInv ==
  ASSUME IInv, NEW c \in Callers, Route(c)
  PROVE  IInv'
<1> PICK fr : fr = matching[c]
  OBVIOUS
<1>1. UNCHANGED <<nodes, vectorizer, replaced>>
  BY DEF Route, VectorHit, VectorMiss, Vectorize, FillCache, ReadNodes, matchLexical, ObserveMatch
<1>2. /\ ~replaced => CacheInv /\ FrameInv(fr) /\ Asks(fr)
      /\ nodes \in [Domains -> Seq(Nodes)] /\ DOMAIN cache = Texts
  <2>1. matching[c] # None
    BY DEF Route, VectorHit, VectorMiss, Vectorize, FillCache, ReadNodes, matchLexical, ObserveMatch,
           At
  <2> QED
    BY <2>1 DEF IInv, FrameInv
<1>3. ASSUME UNCHANGED cache, NEW next, Becomes(c, next), ~replaced => FrameInv(next)
      PROVE  IInv'
  BY <1>1, <1>2, <1>3, OneCall DEF CacheInv
<1>4. ASSUME FrameInv(fr), fr.pc \in {"look", "embed", "fill"}
      PROVE  Asks(fr) /\ fr.semantic /\ Seeking(fr) /\ fr.want \in Texts
  <2>1. Asks(fr) /\ fr.semantic /\ Seeking(fr)
    BY <1>4 DEF FrameInv
  <2>2. CASE fr.query = None
    BY <2>1, <2>2 DEF Seeking, Asks
  <2>3. CASE fr.query # None
    <3>1. PICK known \in fr.known .. Len(nodes[fr.domain]) :
            \E i \in 0 .. Len(Known(fr, known)) :
              fr.todo = SubSeq(Known(fr, known), i + 1, Len(Known(fr, known)))
      BY <2>1, <2>3 DEF Seeking, Comparing
    <3> PICK ps : ps = Known(fr, known)
      OBVIOUS
    <3>2. PICK i \in 0 .. Len(ps) : fr.todo = SubSeq(ps, i + 1, Len(ps))
      BY <3>1
    <3>3. ps \in Seq(Pair)
      BY <1>2, <2>1, KnownPairs
    <3>4. i + 1 \in 1 .. Len(ps) /\ Head(fr.todo) = ps[i + 1]
      BY <2>1, <2>3, <3>2, <3>3, NextLeft DEF Seeking
    <3>5. Head(fr.todo) \in Pair
      BY <3>3, <3>4
    <3> QED
      BY <2>1, <2>3, <3>5 DEF Seeking, Pair
  <2> QED
    BY <2>1, <2>2, <2>3
<1>5. CASE VectorHit(c)
  <2> PICK next : next = Got(fr, cache[fr.want])
    OBVIOUS
  <2>1. /\ fr.pc = "look" /\ cache[fr.want] # None /\ UNCHANGED cache
        /\ Becomes(c, next)
    BY <1>5 DEF VectorHit, At
  <2>2. ASSUME ~replaced PROVE FrameInv(next)
    <3>1. Asks(fr) /\ fr.semantic /\ Seeking(fr) /\ fr.want \in Texts
      BY <1>2, <1>4, <2>1, <2>2
    <3>2. cache[fr.want] = <<vectorizer, fr.want>>
      BY <1>2, <2>1, <2>2, <3>1 DEF CacheInv
    <3> QED
      BY <1>2, <3>1, <3>2, GotInv
  <2> QED
    BY <1>3, <2>1, <2>2
<1>6. CASE VectorMiss(c)
  <2> PICK next : next = [fr EXCEPT !.pc = "embed"]
    OBVIOUS
  <2>1. fr.pc = "look" /\ UNCHANGED cache /\ Becomes(c, next)
    BY <1>6 DEF VectorMiss, At
  <2>2. ASSUME ~replaced PROVE FrameInv(next)
    <3>1. Asks(fr) /\ fr.semantic /\ Seeking(fr)
      BY <1>2, <1>4, <2>1, <2>2
    <3>2. /\ DOMAIN next = Frame /\ next.pc = "embed"
          /\ \A part \in Frame \ {"pc"} : next[part] = fr[part]
      BY <3>1 DEF Asks, Frame
    <3> QED
      BY <3>1, <3>2, OtherStage
  <2> QED
    BY <1>3, <2>1, <2>2
<1>7. CASE Vectorize(c)
  <2>1. fr.pc = "embed" /\ UNCHANGED cache
    BY <1>7 DEF Vectorize, At
  <2>2. PICK next :
          /\ Becomes(c, next)
          /\ \/ next = [fr EXCEPT !.pc = "panicked"]
             \/ next = Degrade(fr)
             \/ next = [fr EXCEPT !.pc = "fill", !.vector = <<vectorizer, fr.want>>]
    BY <1>7 DEF Vectorize
  <2>3. ASSUME ~replaced PROVE FrameInv(next)
    <3>1. Asks(fr) /\ fr.semantic /\ Seeking(fr)
      BY <1>2, <1>4, <2>1, <2>3
    <3>2. CASE next = [fr EXCEPT !.pc = "panicked"]
      BY <3>1, <3>2 DEF FrameInv, Asks, Frame
    <3>3. CASE next = Degrade(fr)
      BY <3>1, <3>3 DEF Degrade, FrameInv, Asks, Frame
    <3>4. CASE next = [fr EXCEPT !.pc = "fill", !.vector = <<vectorizer, fr.want>>]
      <4>1. /\ DOMAIN next = Frame /\ next.pc = "fill"
            /\ next.vector = <<vectorizer, fr.want>>
            /\ \A part \in Frame \ {"pc", "vector"} : next[part] = fr[part]
        BY <3>1, <3>4 DEF Asks, Frame
      <4> QED
        BY <3>1, <4>1, OtherStage
    <3> QED
      BY <2>2, <3>2, <3>3, <3>4
  <2> QED
    BY <1>3, <2>1, <2>2, <2>3
<1>8. CASE FillCache(c)
  <2> PICK next : next = Got(fr, fr.vector)
    OBVIOUS
  <2>1. fr.pc = "fill" /\ cache' = [cache EXCEPT ![fr.want] = fr.vector] /\ Becomes(c, next)
    BY <1>8 DEF FillCache, At
  <2>2. ASSUME ~replaced PROVE FrameInv(next) /\ CacheInv'
    <3>1. Asks(fr) /\ fr.semantic /\ Seeking(fr) /\ fr.want \in Texts
      BY <1>2, <1>4, <2>1, <2>2
    <3>2. fr.vector = <<vectorizer, fr.want>> /\ vectorizer \in Vectorizers
      BY <1>2, <2>1, <2>2, <3>1 DEF FrameInv, Asks
    <3>3. CacheInv'
      BY <1>1, <1>2, <2>1, <2>2, <3>1, <3>2 DEF CacheInv
    <3> QED
      BY <1>2, <3>1, <3>2, <3>3, GotInv
  <2> QED
    BY <1>1, <1>2, <2>1, <2>2, OneCall
<1>9. CASE ReadNodes(c)
  <2> PICK next : next = Onward([fr EXCEPT !.todo = Pairs(nodes[fr.domain])])
    OBVIOUS
  <2>1. fr.pc = "nodes" /\ UNCHANGED cache /\ Becomes(c, next)
    BY <1>9 DEF ReadNodes, At
  <2>2. ASSUME ~replaced PROVE FrameInv(next)
    <3>1. Asks(fr) /\ fr.semantic /\ Embedded(fr)
      BY <1>2, <2>1, <2>2 DEF FrameInv
    <3> QED
      BY <1>2, <3>1, ReadInv
  <2> QED
    BY <1>3, <2>1, <2>2
<1>10. CASE matchLexical(c)
  <2> PICK best : best = BestByWords(fr.text, Pairs(nodes[fr.domain]))
    OBVIOUS
  <2> PICK next : next = [fr EXCEPT !.pc = "matched", !.result = Result(best)]
    OBVIOUS
  <2>1. fr.pc = "lexical" /\ UNCHANGED cache /\ Becomes(c, next)
    BY <1>10 DEF matchLexical, At
  <2>2. ASSUME ~replaced PROVE FrameInv(next)
    <3>1. Asks(fr) /\ ~fr.semantic
      BY <1>2, <2>1, <2>2 DEF FrameInv
    <3> PICK l, ps : l = Len(nodes[fr.domain]) /\ ps = Pairs(nodes[fr.domain])
      OBVIOUS
    <3>2. nodes[fr.domain] \in Seq(Nodes) /\ l \in Nat /\ l \in fr.known .. l
      BY <1>2, <3>1 DEF Asks
    <3>3. ps \in Seq(Pair) /\ SubSeq(nodes[fr.domain], 1, l) = nodes[fr.domain]
      BY <3>2, PairsAre
    <3>4. Measure(fr) \in [Texts -> Score]
      BY <3>1, MeasureIs DEF Asks
    <3>5. \A e \in Texts : Measure(fr)[e] = Jaccard(fr.text, e)
      BY <3>1 DEF Measure
    <3>6. best = Best(ps, Measure(fr))
      BY <3>1, <3>3, <3>4, <3>5, WordsLead, LeaderIsBest DEF Asks
    <3>7. /\ DOMAIN next = Frame /\ next.pc = "matched" /\ next.result = Result(best)
          /\ \A part \in Frame \ {"pc", "result"} : next[part] = fr[part]
      BY <3>1 DEF Asks, Frame
    <3>8. /\ next.domain = fr.domain /\ next.text = fr.text /\ next.known = fr.known
          /\ next.semantic = fr.semantic
      BY <3>7 DEF Frame
    <3>9. Measure(next) = Measure(fr) /\ Known(next, l) = ps
      <4>1. Measure(next) = Measure(fr)
        BY <3>8 DEF Measure
      <4>2. Known(next, l) = Pairs(SubSeq(nodes[fr.domain], 1, l))
        BY <3>8 DEF Known
      <4> QED
        BY <3>3, <4>1, <4>2
    <3>10. Answered(next)
      BY <3>2, <3>6, <3>7, <3>8, <3>9 DEF Answered
    <3> QED
      BY <3>1, <3>7, <3>8, <3>10 DEF FrameInv, Asks
  <2> QED
    BY <1>3, <2>1, <2>2
<1>11. CASE ObserveMatch(c)
  <2> PICK next : next = [fr EXCEPT !.pc = "returned"]
    OBVIOUS
  <2>1. fr.pc = "matched" /\ UNCHANGED cache /\ Becomes(c, next)
    BY <1>11 DEF ObserveMatch, At
  <2>2. ASSUME ~replaced PROVE FrameInv(next)
    <3>1. Asks(fr) /\ Answered(fr)
      BY <1>2, <2>1, <2>2 DEF FrameInv
    <3>2. /\ DOMAIN next = Frame /\ next.pc = "returned" /\ next.result = fr.result
          /\ next.domain = fr.domain /\ next.text = fr.text /\ next.known = fr.known
          /\ next.semantic = fr.semantic
      BY <3>1 DEF Asks, Frame
    <3>3. Measure(next) = Measure(fr) /\ \A k : Known(next, k) = Known(fr, k)
      BY <3>2 DEF Measure, Known
    <3>4. Answered(next)
      BY <3>1, <3>2, <3>3 DEF Answered
    <3> QED
      BY <3>1, <3>2, <3>4 DEF FrameInv, Asks
  <2> QED
    BY <1>3, <2>1, <2>2
<1> QED
  BY <1>5, <1>6, <1>7, <1>8, <1>9, <1>10, <1>11 DEF Route

(* One node more: what was known stays known.                              *)
LEMMA RegisterIInv == IInv /\ RegisterNode => IInv'
<1> SUFFICES ASSUME IInv, RegisterNode PROVE IInv'
  OBVIOUS
<1>1. /\ UNCHANGED <<cache, vectorizer, matching, replaced>>
      /\ \E n \in Nodes : nodes' = [nodes EXCEPT ![n.domain] = Append(@, n)]
  BY DEF RegisterNode
<1>2. PICK n \in Nodes : nodes' = [nodes EXCEPT ![n.domain] = Append(@, n)]
  BY <1>1
<1>3. nodes \in [Domains -> Seq(Nodes)] /\ n.domain \in Domains
  BY RouterAssumption DEF IInv
<1>4. nodes' \in [Domains -> Seq(Nodes)]
  BY <1>2, <1>3
<1>5. ASSUME NEW d \in Domains
      PROVE  /\ Len(nodes[d]) \in Nat /\ Len(nodes'[d]) \in Nat /\ Len(nodes'[d]) >= Len(nodes[d])
             /\ \A k \in 0 .. Len(nodes[d]) : SubSeq(nodes'[d], 1, k) = SubSeq(nodes[d], 1, k)
  <2>1. nodes[d] \in Seq(Nodes)
    BY <1>3
  <2>2. CASE d # n.domain
    BY <1>2, <1>3, <2>1, <2>2
  <2>3. CASE d = n.domain
    <3> PICK was, is : was = nodes[d] /\ is = nodes'[d]
      OBVIOUS
    <3>1. is = Append(was, n) /\ was \in Seq(Nodes) /\ is \in Seq(Nodes)
      BY <1>2, <1>3, <1>4, <2>1, <2>3
    <3>2. Longer(was, is)
      BY <3>1, AppendLonger
    <3> QED
      BY <3>2 DEF Longer
  <2> QED
    BY <2>2, <2>3
<1>6. ASSUME NEW fr, FrameInv(fr) PROVE FrameInv(fr)'
  <2>1. fr.domain \in Domains /\ fr.known \in 0 .. Len(nodes[fr.domain]) /\ Asks(fr)
    BY <1>6 DEF FrameInv, Asks
  <2>2. fr.known .. Len(nodes[fr.domain]) \subseteq fr.known .. Len(nodes'[fr.domain])
    BY <1>5, <2>1
  <2>3. Measure(fr)' = Measure(fr)
    BY <1>1 DEF Measure
  <2>4. \A k \in fr.known .. Len(nodes[fr.domain]) : Known(fr, k)' = Known(fr, k)
    <3> TAKE k \in fr.known .. Len(nodes[fr.domain])
    <3>1. k \in 0 .. Len(nodes[fr.domain])
      BY <1>5, <2>1
    <3>2. SubSeq(nodes'[fr.domain], 1, k) = SubSeq(nodes[fr.domain], 1, k)
      BY <1>5, <2>1, <3>1
    <3> QED
      BY <3>2 DEF Known
  <2>5. Comparing(fr) => Comparing(fr)'
    BY <2>2, <2>3, <2>4 DEF Comparing
  <2>6. Answered(fr) => Answered(fr)'
    BY <2>2, <2>3, <2>4 DEF Answered
  <2>7. Seeking(fr) => Seeking(fr)'
    BY <1>1, <2>5 DEF Seeking
  <2>8. Asks(fr)'
    BY <1>1, <1>5, <2>1 DEF Asks
  <2> QED
    BY <1>1, <1>6, <2>6, <2>7, <2>8 DEF FrameInv, Embedded
<1>7. ~replaced => CacheInv'
  BY <1>1 DEF IInv, CacheInv
<1>8. ~replaced => \A c \in Callers : matching[c] # None => FrameInv(matching[c])'
  <2> SUFFICES ASSUME ~replaced, NEW c \in Callers, matching[c] # None
               PROVE  FrameInv(matching[c])'
    OBVIOUS
  <2> PICK fr : fr = matching[c]
    OBVIOUS
  <2>1. FrameInv(fr)'
    BY <1>6 DEF IInv
  <2>2. fr = matching'[c]
    BY <1>1
  <2> QED
    BY <2>1, <2>2
<1> QED
  BY <1>1, <1>4, <1>7, <1>8 DEF IInv

(* The first vectorizer: so far no call used any.                          *)
LEMMA SetVectorizerIInv == IInv /\ SetVectorizer => IInv'
<1> SUFFICES ASSUME IInv, SetVectorizer PROVE IInv'
  OBVIOUS
<1>1. /\ UNCHANGED <<nodes, cache, matching>> /\ vectorizer' \in Vectorizers \cup {None}
      /\ replaced' = (replaced \/ vectorizer # None)
  BY DEF SetVectorizer
<1>2. CASE replaced \/ vectorizer # None
  BY <1>1, <1>2 DEF IInv
<1>3. CASE ~replaced /\ vectorizer = None
  <2>1. vectorizer \notin Vectorizers
    BY <1>3, RouterAssumption
  <2>2. CacheInv'
    BY <1>1, <1>3, <2>1 DEF IInv, CacheInv
  <2>3. ASSUME NEW fr, FrameInv(fr) PROVE FrameInv(fr)'
    <3>1. Asks(fr) /\ ~fr.semantic /\ fr.pc \notin {"look", "embed", "fill", "nodes"}
      BY <2>1, <2>3 DEF FrameInv, Asks
    <3>2. Measure(fr)' = Measure(fr) /\ \A k : Known(fr, k)' = Known(fr, k)
      BY <1>1, <3>1 DEF Measure, Known
    <3>3. Answered(fr) => Answered(fr)'
      BY <1>1, <3>2 DEF Answered
    <3> QED
      BY <1>1, <2>3, <3>1, <3>3 DEF FrameInv, Asks
  <2>4. ASSUME NEW c \in Callers, matching[c] # None PROVE FrameInv(matching[c])'
    <3> PICK fr : fr = matching[c]
      OBVIOUS
    <3>1. FrameInv(fr)'
      BY <1>3, <2>3, <2>4 DEF IInv
    <3>2. fr = matching'[c]
      BY <1>1
    <3> QED
      BY <3>1, <3>2
  <2> QED
    BY <1>1, <1>3, <2>2, <2>4 DEF IInv
<1> QED
  BY <1>2, <1>3

LEMMA NextIInv == IInv /\ [Next]_vars => IInv'
<1> SUFFICES ASSUME IInv, [Next]_vars PROVE IInv'
  OBVIOUS
<1>1. ASSUME NEW c \in Callers, Match(c) \/ Route(c) PROVE IInv'
  BY <1>1, MatchIInv, RouteIInv
<1>2. CASE RegisterNode \/ SetVectorizer
  BY <1>2, RegisterIInv, SetVectorizerIInv
<1>3. CASE UNCHANGED vars
  <2>1. UNCHANGED <<nodes, cache, vectorizer, matching, replaced>>
    BY <1>3 DEF vars
  <2>2. CacheInv => CacheInv'
    BY <2>1 DEF CacheInv
  <2>3. ASSUME NEW fr, FrameInv(fr) PROVE FrameInv(fr)'
    BY <2>1, <2>3 DEF FrameInv, Asks, Seeking, Embedded, Comparing, Answered, Known, Measure
  <2>4. ASSUME NEW c \in Callers, FrameInv(matching[c]) PROVE FrameInv(matching[c])'
    <3> PICK fr : fr = matching[c]
      OBVIOUS
    <3>1. FrameInv(fr)' /\ fr = matching'[c]
      BY <2>1, <2>3, <2>4
    <3> QED
      BY <3>1
  <2> QED
    BY <2>1, <2>2, <2>4 DEF IInv
<1> QED
  BY <1>1, <1>2, <1>3 DEF Next, Done

-----------------------------------------------------------------------------
(* As long as no vectorizer was replaced, what Match answers is the match  *)
(* by vectors alone or by words alone over the nodes of one moment of the  *)
(* call, although every access to the cache and to the nodes is a critical *)
(* section of its own (Router.Match, matchSemantic, vectorFor).            *)
THEOREM MeasuresDoNotMix == Spec => []OneMeasure
<1>1. IInv => OneMeasure
  <2> SUFFICES ASSUME IInv, ~replaced, NEW c \in Callers, At(c, "returned")
               PROVE  Answered(matching[c])
    BY DEF OneMeasure, Answered, Known
  <2> QED
    BY DEF IInv, At, FrameInv
<1> QED
  BY <1>1, InitIInv, NextIInv, PTL DEF Spec
=============================================================================
