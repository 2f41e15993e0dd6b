---------------------------- MODULE IntentRouter ----------------------------
(***************************************************************************)
(* intentrouter.Router: which of a domain's intents a text means.  Any     *)
(* number of goroutines call Match while intents are registered and the    *)
(* vectorizer is set; each access to the router's maps is a step, under    *)
(* the router's lock, and the requests to the embedding endpoint are made  *)
(* between two of them.                                                    *)
(*                                                                         *)
(* A node is [id, domain, examples, workflow], examples a sequence of      *)
(* texts.  Scores are fractions <<numerator, denominator>>.  The vector a  *)
(* vectorizer makes of a text is <<vectorizer, text>>.                     *)
(***************************************************************************)
EXTENDS Endpoints, Integers, FiniteSets
LOCAL INSTANCE SequencesExt

CONSTANTS
  Callers,      \* goroutines that call Match
  Domains,
  Texts,        \* examples and queries
  Words,        \* [text -> set of words]
  Queries,      \* <<domain, text>> that callers ask for
  Vectorizers,
  Exchanges,    \* with the embedding endpoint
  Cosine,       \* [{<<vector, vector>>} -> score]
  Registered,   \* the nodes registered at the start: [domain -> sequence]
  Nodes,        \* nodes that may be registered
  Threshold,
  MaxChanges    \* bound: changes of the configuration while calls are made

Vector == Vectorizers \X Texts
Score == Int \X (Nat \ {0})

(* What is registered and asked for is made of texts, and a text of words; *)
(* a cosine is a fraction, and a vector not the absence of one.            *)
ASSUME RouterAssumption ==
  /\ Registered \in [Domains -> Seq(Nodes)]
  /\ \A n \in Nodes : n.domain \in Domains /\ n.examples \in Seq(Texts)
  /\ Queries \subseteq Domains \X Texts
  /\ \A text \in Texts : IsFiniteSet(Words[text])
  /\ Cosine \in [Vector \X Vector -> Score]
  /\ None \notin Vectorizers \cup Vector

VARIABLES
  nodes,        \* [domain -> sequence of nodes]
  cache,        \* [text -> vector or None]
  vectorizer,
  matching,     \* [caller -> its call of Match, or None]
  observed,     \* what the observer was told: [matches, misses]
  replaced,     \* history: a vectorizer was replaced or removed
  changes       \* configuration changes so far

vars == <<nodes, cache, vectorizer, matching, observed, replaced, changes>>

-----------------------------------------------------------------------------
Above(a, b)   == a[1] * b[2] > b[1] * a[2]
NoScore       == <<0, 1>>

Jaccard(a, b) ==
  IF Words[a] = {} \/ Words[b] = {} THEN NoScore
  ELSE <<Cardinality(Words[a] \cap Words[b]), Cardinality(Words[a] \cup Words[b])>>

(* The examples in the order in which they are compared.                   *)
Pairs(ns) ==
  FlattenSeq([i \in DOMAIN ns |->
    [j \in DOMAIN ns[i].examples |-> [node |-> ns[i], example |-> ns[i].examples[j]]]])

NoBest == [node |-> None, score |-> NoScore]

(* One example more: the first of equal scores wins.                       *)
Better(best, node, score) ==
  IF Above(score, best.score) THEN [node |-> node, score |-> score] ELSE best

(* result: a best below the threshold is no match.                         *)
Result(best) ==
  IF best.node # None /\ ~Above(Threshold, best.score)
    THEN [matched |-> TRUE, node |-> best.node.id, score |-> best.score,
          workflow |-> best.node.workflow]
    ELSE [matched |-> FALSE, node |-> None, score |-> best.score, workflow |-> None]

-----------------------------------------------------------------------------
Init ==
  /\ nodes = Registered
  /\ cache = [t \in Texts |-> None]
  /\ vectorizer \in Vectorizers \cup {None}
  /\ matching = [c \in Callers |-> None]
  /\ observed = [matches |-> 0, misses |-> 0]
  /\ replaced = FALSE /\ changes = 0

Change == changes < MaxChanges /\ changes' = changes + 1

RegisterNode ==
  /\ Change
  /\ \E n \in Nodes :
       /\ \A i \in DOMAIN nodes[n.domain] : nodes[n.domain][i] # n
       /\ nodes' = [nodes EXCEPT ![n.domain] = Append(@, n)]
  /\ UNCHANGED <<cache, vectorizer, matching, observed, replaced>>

(* What is cached stays cached.                                            *)
SetVectorizer ==
  /\ Change
  /\ vectorizer' \in (Vectorizers \cup {None}) \ {vectorizer}
  /\ replaced' = (replaced \/ vectorizer # None)
  /\ UNCHANGED <<nodes, cache, matching, observed>>

(* Match begins: with a vectorizer the query is embedded first.  Callers   *)
(* are numbered in the order they come.                                    *)
Match(c) ==
  /\ matching[c] = None /\ \A d \in Callers : d < c => matching[d] # None
  /\ \E q \in Queries :
       matching' = [matching EXCEPT ![c] =
         [domain |-> q[1], text |-> q[2], pc |-> IF vectorizer = None THEN "lexical" ELSE "look",
          want |-> q[2], vector |-> None, query |-> None, todo |-> <<>>, best |-> NoBest,
          result |-> None, semantic |-> vectorizer # None, known |-> Len(nodes[q[1]])]]
  /\ UNCHANGED <<nodes, cache, vectorizer, observed, replaced, changes>>

At(c, pc) == matching[c] # None /\ matching[c].pc = pc

(* The comparison goes on to the next example, or ends.                    *)
Onward(fr) ==
  IF fr.todo = <<>> THEN [fr EXCEPT !.pc = "matched", !.result = Result(fr.best)]
  ELSE [fr EXCEPT !.pc = "look", !.want = Head(fr.todo).example]

(* vectorFor has returned: the query's vector is kept, or an example's is  *)
(* compared.                                                               *)
Got(fr, vector) ==
  IF fr.query = None
    THEN [fr EXCEPT !.pc = "nodes", !.query = vector]
    ELSE Onward([fr EXCEPT !.todo = Tail(@),
                   !.best = Better(@, Head(fr.todo).node, Cosine[<<fr.query, vector>>])])

(* Wrong: an example that could not be embedded is passed over.            *)
DegradeOne(fr) ==
  IF fr.query = None THEN [fr EXCEPT !.pc = "lexical", !.semantic = FALSE]
  ELSE Onward([fr EXCEPT !.todo = Tail(@)])

(* An embedding failed: the whole call degrades to words.                  *)
Degrade(fr) == [fr EXCEPT !.pc = "lexical", !.semantic = FALSE]

Becomes(c, fr) == matching' = [matching EXCEPT ![c] = fr]

VectorHit(c) ==
  /\ At(c, "look") /\ cache[matching[c].want] # None
  /\ Becomes(c, Got(matching[c], cache[matching[c].want]))
  /\ UNCHANGED <<nodes, cache, vectorizer, observed, replaced, changes>>

VectorMiss(c) ==
  /\ At(c, "look") /\ cache[matching[c].want] = None
  /\ Becomes(c, [matching[c] EXCEPT !.pc = "embed"])
  /\ UNCHANGED <<nodes, cache, vectorizer, observed, replaced, changes>>

(* The vectorizer is read again: a call on none panics.                    *)
Vectorize(c) ==
  /\ At(c, "embed")
  /\ \/ /\ vectorizer = None
        /\ Becomes(c, [matching[c] EXCEPT !.pc = "panicked"])
     \/ /\ vectorizer # None
        /\ \E x \in Exchanges :
             Becomes(c, IF Embedding(x) = None THEN Degrade(matching[c])
                        ELSE [matching[c] EXCEPT !.pc = "fill",
                                !.vector = <<vectorizer, matching[c].want>>])
  /\ UNCHANGED <<nodes, cache, vectorizer, observed, replaced, changes>>

FillCache(c) ==
  /\ At(c, "fill")
  /\ cache' = [cache EXCEPT ![matching[c].want] = matching[c].vector]
  /\ Becomes(c, Got(matching[c], matching[c].vector))
  /\ UNCHANGED <<nodes, vectorizer, observed, replaced, changes>>

(* nodesFor: what is registered when the query has its vector.             *)
ReadNodes(c) ==
  /\ At(c, "nodes")
  /\ Becomes(c, Onward([matching[c] EXCEPT !.todo = Pairs(nodes[matching[c].domain])]))
  /\ UNCHANGED <<nodes, cache, vectorizer, observed, replaced, changes>>

(* The best so far of all examples, by words.                              *)
BestByWords(text, ps) ==
  LET best[i \in 0 .. Len(ps)] ==
        IF i = 0 THEN NoBest
        ELSE Better(best[i - 1], ps[i].node, Jaccard(text, ps[i].example))
  IN best[Len(ps)]

(* Words are compared in one go: nothing shared is read between them.      *)
matchLexical(c) ==
  /\ At(c, "lexical")
  /\ LET fr == matching[c]
     IN Becomes(c, [fr EXCEPT !.pc = "matched",
                              !.result = Result(BestByWords(fr.text, Pairs(nodes[fr.domain])))])
  /\ UNCHANGED <<nodes, cache, vectorizer, observed, replaced, changes>>

(* The observer is told, and Match returns.                                *)
ObserveMatch(c) ==
  /\ At(c, "matched")
  /\ observed' = IF matching[c].result.matched
                   THEN [observed EXCEPT !.matches = @ + 1]
                   ELSE [observed EXCEPT !.misses = @ + 1]
  /\ Becomes(c, [matching[c] EXCEPT !.pc = "returned"])
  /\ UNCHANGED <<nodes, cache, vectorizer, replaced, changes>>

Route(c) == VectorHit(c) \/ VectorMiss(c) \/ Vectorize(c) \/ FillCache(c) \/ ReadNodes(c)
              \/ matchLexical(c) \/ ObserveMatch(c)

(* Nothing is left to do: every call has returned or panicked.             *)
Done ==
  /\ \A c \in Callers : At(c, "returned") \/ At(c, "panicked")
  /\ UNCHANGED vars

Next == (\E c \in Callers : Match(c) \/ Route(c)) \/ RegisterNode \/ SetVectorizer \/ Done

Spec == Init /\ [][Next]_vars

-----------------------------------------------------------------------------
(* Of all examples: the first with the highest score above zero.           *)
IsFirst(i, ps, score) ==
  /\ Above(score[ps[i].example], NoScore)
  /\ \A j \in DOMAIN ps : ~Above(score[ps[j].example], score[ps[i].example])
  /\ \A j \in 1 .. i - 1 : Above(score[ps[i].example], score[ps[j].example])
Best(ps, score) ==
  IF \A i \in DOMAIN ps : ~IsFirst(i, ps, score) THEN NoBest
  ELSE LET i == CHOOSE i \in DOMAIN ps : IsFirst(i, ps, score)
       IN [node |-> ps[i].node, score |-> score[ps[i].example]]

(* By vectors if there was a vectorizer and no embedding failed, by words  *)
(* otherwise.                                                              *)
Measure(fr) ==
  [example \in Texts |->
     IF fr.semantic THEN Cosine[<<<<vectorizer, fr.text>>, <<vectorizer, example>>>>]
                    ELSE Jaccard(fr.text, example)]

(* As long as no vectorizer was replaced, the answer of a call is the      *)
(* match by one measure over the nodes the domain had at one moment of     *)
(* the call, never by a mixture of measures, whatever was cached by whom   *)
(* and registered meanwhile (Router.Match, vectorFor).                     *)
OneMeasure ==
  ~replaced => \A c \in Callers : At(c, "returned") =>
    LET fr == matching[c]
    IN \E known \in fr.known .. Len(nodes[fr.domain]) :
         fr.result = Result(Best(Pairs(SubSeq(nodes[fr.domain], 1, known)), Measure(fr)))
=============================================================================
