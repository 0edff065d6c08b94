-------------------------- MODULE CatalogMergeProofs --------------------------
(* Theorems about CatalogMerge for libraries, groups and reports of any size: *)
(* type correctness, and what repairs of the catalog promise about entries,   *)
(* plays, completions, confirmed matches, files and editions.                 *)
(*                                                                            *)
(* A loop over a set is a fold.  What it computes is described by a function of*)
(* the set of what was taken so far (FoldExists), and what it preserves follows*)
(* by induction over that set (OrderedInduction).                             *)
EXTENDS CatalogMerge, FiniteSetTheorems, NaturalsInduction, WellFoundedInduction, TLAPS

-------------------------------------------------------------------------------
(* Folds over finite sets.                                                    *)

\* A set that has 0, and the next number of each of its own, has every natural number.
LEMMA NatSetInduction ==
  ASSUME NEW S, 0 \in S, \A n \in Nat : n \in S => n + 1 \in S
  PROVE  Nat \subseteq S
<1> DEFINE T == Nat \ S
           R == OpToRel(<, Nat)
<1>1. IsWellFoundedOn(R, Nat)
  BY NatLessThanWellFounded
<1>2. SUFFICES ASSUME T # {} PROVE FALSE
  OBVIOUS
<1>3. PICK x \in T : \A y \in T : ~(<<y, x>> \in R)
  <2> HIDE DEF R
  <2>1. T \subseteq Nat
    OBVIOUS
  <2> HIDE DEF T
  <2> QED BY <1>1, <1>2, <2>1, WFMin
<1>4. x # 0
  OBVIOUS
<1>5. x - 1 \in Nat /\ x - 1 < x /\ x = (x - 1) + 1
  BY <1>4
<1>6. <<x - 1, x>> \in R
  BY <1>5 DEF OpToRel
<1>7. x - 1 \notin T
  BY <1>3, <1>6
<1> QED
  BY <1>5, <1>7

\* A property of sets that holds of the empty set, and of a set if it holds without the
\* set's last element, holds of every finite set.
LEMMA OrderedInduction ==
  ASSUME NEW S, IsFiniteSet(S), NEW last,
         \A s \in SUBSET S : s # {} => last[s] \in s,
         NEW Q, {} \in Q,
         \A s \in SUBSET S : s # {} /\ s \ {last[s]} \in Q => s \in Q
  PROVE  S \in Q
<1> DEFINE Bad == {s \in SUBSET S : s \notin Q}
           Size(n) == \E s \in Bad : Cardinality(s) = n
           Sizes == {n \in Nat : Size(n)}
<1>1. SUFFICES ASSUME S \in Bad PROVE FALSE
  OBVIOUS
<1>2. \A s \in SUBSET S : IsFiniteSet(s) /\ Cardinality(s) \in Nat
  BY FS_Subset, FS_CardinalityType
<1>3. Cardinality(S) \in Sizes
  BY <1>1, <1>2
<1>4. PICK n \in Sizes : \A m \in Sizes : ~(<<m, n>> \in OpToRel(<, Nat))
  <2> HIDE DEF Sizes
  <2>1. Sizes \subseteq Nat
    BY DEF Sizes
  <2> QED
    BY <1>3, <2>1, WFMin, NatLessThanWellFounded, Zenon
<1>5. n \in Nat /\ \A m \in Sizes : ~(m < n)
  BY <1>4 DEF OpToRel
<1>6. PICK s \in Bad : Cardinality(s) = n
  BY <1>4
<1>7. s # {} /\ s \ {last[s]} \in Bad /\ last[s] \in s
  BY <1>6
<1>8. Cardinality(s \ {last[s]}) = n - 1 /\ n # 0
  BY <1>2, <1>6, <1>7, FS_RemoveElement, FS_EmptySet
<1>9. n - 1 \in Sizes
  BY <1>2, <1>5, <1>7, <1>8
<1> QED
  BY <1>5, <1>8, <1>9

\* A function over the subsets of a set that applies F to one element after the other.
Unfolds(f, S, last, c, F) ==
  \A s \in SUBSET S : f[s] = IF s = {} THEN c ELSE F[<<f[s \ {last[s]}], last[s]>>]

\* It exists for a finite set.
LEMMA FoldExists ==
  ASSUME NEW S, IsFiniteSet(S), NEW last,
         \A s \in SUBSET S : s # {} => last[s] \in s,
         NEW C, NEW c \in C, NEW F \in [C \X S -> C]
  PROVE  \E f \in [SUBSET S -> C] : Unfolds(f, S, last, c, F)
<1> DEFINE D(n) == {s \in SUBSET S : Cardinality(s) <= n}
           Step(f, s) == IF s = {} THEN c ELSE F[<<f[s \ {last[s]}], last[s]>>]
           Good(n) == \E f \in [D(n) -> C] : \A s \in D(n) : f[s] = Step(f, s)
           Q == {n \in Nat : Good(n)}
<1>1. \A s \in SUBSET S : IsFiniteSet(s) /\ Cardinality(s) \in Nat
  BY FS_Subset, FS_CardinalityType
<1>2. \A s \in SUBSET S : Cardinality(s) = 0 <=> s = {}
  BY <1>1, FS_EmptySet
<1>3. \A s \in SUBSET S : s # {} => /\ s \ {last[s]} \in SUBSET S
                                    /\ last[s] \in S
                                    /\ Cardinality(s \ {last[s]}) = Cardinality(s) - 1
  BY <1>1, FS_RemoveElement
<1>4. 0 \in Q
  <2>1. D(0) = {{}}
    BY <1>1, <1>2
  <2> QED
    <3>1. [s \in D(0) |-> c] \in [D(0) -> C]
      OBVIOUS
    <3>2. \A s \in D(0) : [t \in D(0) |-> c][s] = Step([t \in D(0) |-> c], s)
      BY <2>1
    <3> QED
      BY <3>1, <3>2
<1>5. ASSUME NEW n \in Nat, n \in Q PROVE n + 1 \in Q
  <2>1. PICK f \in [D(n) -> C] : \A s \in D(n) : f[s] = Step(f, s)
    BY <1>5
  <2> DEFINE g == [s \in D(n + 1) |-> Step(f, s)]
  <2>2. \A s \in D(n + 1) : s # {} => s \ {last[s]} \in D(n) /\ last[s] \in S
    BY <1>1, <1>3
  <2>3. \A s \in D(n) : s \in D(n + 1) /\ g[s] = f[s]
    BY <1>1, <2>1
  <2>4. g \in [D(n + 1) -> C]
    <3>1. \A s \in D(n + 1) : Step(f, s) \in C
      BY <2>2
    <3> QED
      BY <3>1
  <2>5. \A s \in D(n + 1) : g[s] = Step(g, s)
    BY <2>2, <2>3
  <2>6. Good(n + 1)
    <3> HIDE DEF g, D, Step
    <3> QED
      BY <2>4, <2>5
  <2> HIDE DEF Good
  <2> QED
    BY <2>6
<1>6. Cardinality(S) \in Q
  <2> HIDE DEF Q
  <2>1. Nat \subseteq Q
    BY <1>4, <1>5, NatSetInduction
  <2> QED
    BY <1>1, <2>1
<1>7. D(Cardinality(S)) = SUBSET S
  BY <1>1, FS_Subset
<1> QED
  BY <1>6, <1>7 DEF Unfolds

-------------------------------------------------------------------------------
(* Least and greatest elements, and the order of the groups.                  *)

\* A set of natural numbers has a least element.
LEMMA MinIn ==
  ASSUME NEW S \in SUBSET Nat, S # {}
  PROVE  Min(S) \in S /\ \A y \in S : Min(S) <= y
<1>1. PICK x \in S : \A y \in S : ~(<<y, x>> \in OpToRel(<, Nat))
  BY WFMin, NatLessThanWellFounded, Zenon
<1>2. \A y \in S : x <= y
  <2>1. \A y \in S : ~(y < x)
    BY <1>1, Zenon DEF OpToRel
  <2> QED
    BY <2>1
<1> QED
  BY <1>2 DEF Min

\* A finite one has a greatest element.
LEMMA MaxIn ==
  ASSUME NEW S \in SUBSET Nat, IsFiniteSet(S), S # {}
  PROVE  Max(S) \in S /\ \A y \in S : y <= Max(S)
<1> DEFINE Has(s) == \E x \in s : \A y \in s : y <= x
           Q == {s \in SUBSET S : s = {} \/ Has(s)}
           last == [s \in SUBSET S |-> CHOOSE x \in s : TRUE]
<1>1. \A s \in SUBSET S : s # {} => last[s] \in s
  OBVIOUS
<1>2. ASSUME NEW s \in SUBSET S, s # {}, s \ {last[s]} \in Q PROVE s \in Q
  <2>1. last[s] \in s
    BY <1>1, <1>2
  <2> HIDE DEF last
  <2>2. CASE s \ {last[s]} = {}
    <3>1. \A y \in s : y <= last[s]
      BY <2>1, <2>2
    <3> QED
      BY <2>1, <3>1
  <2>3. CASE Has(s \ {last[s]})
    <3>1. PICK x \in s \ {last[s]} : \A y \in s \ {last[s]} : y <= x
      BY <2>3
    <3>2. x \in Nat /\ last[s] \in Nat /\ \A y \in s : y \in Nat
      BY <2>1
    <3>3. CASE x <= last[s]
      <4>1. ASSUME NEW y \in s PROVE y <= last[s]
        <5>1. CASE y = last[s]
          BY <3>2, <5>1
        <5>2. CASE y # last[s]
          BY <3>1, <3>2, <3>3, <5>2
        <5> QED
          BY <5>1, <5>2
      <4>2. Has(s)
        BY <2>1, <4>1
      <4> HIDE DEF Has
      <4> QED
        BY <4>2
    <3>4. CASE last[s] <= x
      <4>1. \A y \in s : y <= x
        BY <2>1, <3>1, <3>4
      <4>2. Has(s)
        BY <4>1
      <4> HIDE DEF Has
      <4> QED
        BY <4>2
    <3> QED
      BY <3>2, <3>3, <3>4
  <2> QED
    BY <1>2, <2>2, <2>3
<1>3. S \in Q
  <2> HIDE DEF Q, last
  <2>1. {} \in Q
    BY DEF Q
  <2> QED
    BY <1>1, <1>2, <2>1, OrderedInduction
<1>4. PICK x \in S : \A y \in S : y <= x
  BY <1>3
<1> QED
  BY <1>4 DEF Max

\* The first number that one of two sets has and the other has not.
First(G, H, n) ==
  /\ n \in Nat /\ (n \in G <=> n \notin H)
  /\ \A k \in Nat : k < n => (k \in G <=> k \in H)

\* Two finite sets that differ have one.
LEMMA FirstExists ==
  ASSUME NEW G \in SUBSET Nat, NEW H \in SUBSET Nat, G # H
  PROVE  First(G, H, Min(SymDiff(G, H)))
<1>1. SymDiff(G, H) \in SUBSET Nat /\ SymDiff(G, H) # {}
  BY DEF SymDiff
<1>2. /\ Min(SymDiff(G, H)) \in SymDiff(G, H)
      /\ \A y \in SymDiff(G, H) : Min(SymDiff(G, H)) <= y
  BY <1>1, MinIn
<1> DEFINE m == Min(SymDiff(G, H))
<1>3. m \in Nat /\ (m \in G <=> m \notin H)
  BY <1>1, <1>2 DEF SymDiff
<1>4. ASSUME NEW k \in Nat, k < m PROVE k \in G <=> k \in H
  <2>1. k \notin SymDiff(G, H)
    BY <1>2, <1>3, <1>4
  <2> QED
    BY <2>1 DEF SymDiff
<1> QED
  BY <1>3, <1>4 DEF First

\* There is only one, so Before looks at it.
LEMMA BeforeFirst ==
  ASSUME NEW G \in SUBSET Nat, NEW H \in SUBSET Nat, NEW n \in Nat, First(G, H, n)
  PROVE  Before(G, H) <=> IF n \in G THEN \E i \in H : i > n ELSE \A i \in G : i < n
<1>1. First(G, H, Min(SymDiff(G, H)))
  <2>1. G # H
    BY DEF First
  <2> QED
    BY <2>1, FirstExists
<1>2. Min(SymDiff(G, H)) = n
  <2> DEFINE m == Min(SymDiff(G, H))
  <2>1. m \in Nat /\ ~(m < n) /\ ~(n < m)
    BY <1>1 DEF First
  <2> QED
    BY <2>1
<1> QED
  BY <1>2 DEF Before

\* The order of the groups is total and transitive.
LEMMA BeforeTotal ==
  ASSUME NEW G \in SUBSET Nat, NEW H \in SUBSET Nat, G # H
  PROVE  Before(G, H) \/ Before(H, G)
<1>1. PICK n \in Nat : First(G, H, n)
  BY FirstExists DEF First
<1>2. First(H, G, n)
  BY <1>1 DEF First
<1>3. /\ Before(G, H) <=> IF n \in G THEN \E i \in H : i > n ELSE \A i \in G : i < n
      /\ Before(H, G) <=> IF n \in H THEN \E i \in G : i > n ELSE \A i \in H : i < n
  BY <1>1, <1>2, BeforeFirst
<1>4. CASE n \in G
  <2>1. \A i \in H : i # n /\ i \in Nat
    BY <1>1, <1>4 DEF First
  <2> QED
    BY <1>1, <1>3, <1>4, <2>1 DEF First
<1>5. CASE n \notin G
  <2>1. \A i \in G : i # n /\ i \in Nat
    BY <1>5
  <2> QED
    BY <1>1, <1>3, <1>5, <2>1 DEF First
<1> QED
  BY <1>4, <1>5

\* Before is transitive: where the later of the two pairs parts decides.
LEMMA BeforeTransitive ==
  ASSUME NEW G \in SUBSET Nat, NEW H \in SUBSET Nat, NEW K \in SUBSET Nat,
         G # H, H # K, Before(G, H), Before(H, K)
  PROVE  Before(G, K)
<1>1. PICK m \in Nat : First(G, H, m)
  BY FirstExists DEF First
<1>2. PICK n \in Nat : First(H, K, n)
  BY FirstExists DEF First
<1>3. IF m \in G THEN \E i \in H : i > m ELSE \A i \in G : i < m
  BY <1>1, BeforeFirst
<1>4. IF n \in H THEN \E i \in K : i > n ELSE \A i \in H : i < n
  BY <1>2, BeforeFirst
<1>5. CASE m < n
  <2>1. First(G, K, m)
    BY <1>1, <1>2, <1>5 DEF First
  <2>2. Before(G, K) <=> IF m \in G THEN \E i \in K : i > m ELSE \A i \in G : i < m
    BY <2>1, BeforeFirst
  <2>3. ASSUME m \in G PROVE \E i \in K : i > m
    <3>1. PICK i \in H : i > m
      BY <1>3, <2>3
    <3>2. CASE n \in H
      <4>1. PICK k \in K : k > n
        BY <1>4, <3>2
      <4> QED
        BY <1>5, <4>1
    <3>3. CASE n \notin H
      <4>1. i < n /\ i \in K
        BY <1>2, <1>4, <3>1, <3>3 DEF First
      <4> QED
        BY <3>1, <4>1
    <3> QED
      BY <3>2, <3>3
  <2> QED
    BY <1>3, <2>2, <2>3
<1>6. CASE n < m
  <2>1. First(G, K, n)
    BY <1>1, <1>2, <1>6 DEF First
  <2>2. Before(G, K) <=> IF n \in G THEN \E i \in K : i > n ELSE \A i \in G : i < n
    BY <2>1, BeforeFirst
  <2>3. n \in G <=> n \in H
    BY <1>1, <1>6 DEF First
  <2>4. ASSUME n \notin H, NEW i \in G PROVE i < n
    <3>1. \A j \in H : j < n
      BY <1>4, <2>4
    <3>2. m \in G
      <4>1. m \notin H
        BY <1>6, <3>1
      <4> QED
        BY <1>1, <4>1 DEF First
    <3>3. PICK j \in H : j > m
      BY <1>3, <3>2
    <3> QED
      BY <1>6, <3>1, <3>3
  <2> QED
    BY <1>4, <2>2, <2>3, <2>4
<1>7. CASE m = n
  <2>1. CASE m \in H
    <3>1. m \notin G /\ m \notin K /\ \A i \in G : i < m
      BY <1>1, <1>2, <1>3, <1>7, <2>1 DEF First
    <3>2. PICK k \in K : k > m
      BY <1>4, <1>7, <2>1
    <3>3. G # K /\ \A i \in Nat : i < m => (i \in G <=> i \in K)
      BY <1>1, <1>2, <1>7, <3>1, <3>2 DEF First
    <3>4. PICK f \in Nat : First(G, K, f)
      BY <3>3, FirstExists DEF First
    <3>5. ~(f < m)
      BY <3>3, <3>4 DEF First
    <3>6. f \notin G
      BY <3>1, <3>5
    <3>7. \A i \in G : i < f
      BY <3>1, <3>5
    <3> QED
      BY <3>4, <3>6, <3>7, BeforeFirst
  <2>2. CASE m \notin H
    <3>1. m \in G /\ \A i \in H : i < m
      BY <1>1, <1>4, <1>7, <2>2 DEF First
    <3>2. PICK i \in H : i > m
      BY <1>3, <3>1
    <3> QED
      BY <3>1, <3>2
  <2> QED
    BY <2>1, <2>2
<1> QED
  BY <1>5, <1>6, <1>7

\* So a finite set of groups has a last one.
LEMMA LastGroupIn ==
  ASSUME NEW S \in SUBSET SUBSET Nat, IsFiniteSet(S), S # {}
  PROVE  LastGroup(S) \in S
<1> DEFINE Has(s) == \E G \in s : \A H \in s \ {G} : Before(H, G)
           Q == {s \in SUBSET S : s = {} \/ Has(s)}
           last == [s \in SUBSET S |-> CHOOSE x \in s : TRUE]
<1>1. \A s \in SUBSET S : s # {} => last[s] \in s
  OBVIOUS
<1>2. ASSUME NEW s \in SUBSET S, s # {}, s \ {last[s]} \in Q PROVE s \in Q
  <2>1. last[s] \in s
    BY <1>1, <1>2
  <2> HIDE DEF last
  <2>2. CASE s \ {last[s]} = {}
    <3>1. \A H \in s \ {last[s]} : Before(H, last[s])
      BY <2>2
    <3> QED
      BY <2>1, <3>1
  <2>3. CASE Has(s \ {last[s]})
    <3>1. PICK G \in s \ {last[s]} : \A H \in (s \ {last[s]}) \ {G} : Before(H, G)
      BY <2>3
    <3>2. CASE Before(G, last[s])
      <4>1. ASSUME NEW H \in s \ {last[s]} PROVE Before(H, last[s])
        <5>1. CASE H = G
          BY <3>2, <5>1
        <5>2. CASE H # G
          <6>1. Before(H, G)
            BY <3>1, <5>2
          <6> QED
            BY <2>1, <3>1, <3>2, <4>1, <5>2, <6>1, BeforeTransitive
        <5> QED
          BY <5>1, <5>2
      <4> QED
        BY <2>1, <4>1
    <3>3. CASE Before(last[s], G)
      <4>1. \A H \in s \ {G} : Before(H, G)
        BY <3>1, <3>3
      <4> QED
        BY <4>1
    <3>4. Before(G, last[s]) \/ Before(last[s], G)
      BY <2>1, <3>1, BeforeTotal
    <3> QED
      BY <3>2, <3>3, <3>4
  <2> QED
    BY <1>2, <2>2, <2>3
<1>3. S \in Q
  <2> HIDE DEF Q, last
  <2>1. {} \in Q
    BY DEF Q
  <2> QED
    BY <1>1, <1>2, <2>1, OrderedInduction
<1>4. \E G \in S : \A H \in S \ {G} : Before(H, G)
  BY <1>3
<1> QED
  BY <1>4, Zenon DEF LastGroup

-------------------------------------------------------------------------------
(* Catalogs.                                                                  *)

\* The greater of two numbers, which the merge of two states takes.
LEMMA LargerType ==
  ASSUME NEW a \in Nat, NEW b \in Nat
  PROVE  Max({a, b}) \in Nat /\ a <= Max({a, b}) /\ b <= Max({a, b})
<1>1. \E x \in {a, b} : \A y \in {a, b} : x >= y
  OBVIOUS
<1>2. Max({a, b}) \in {a, b} /\ \A y \in {a, b} : Max({a, b}) >= y
  BY <1>1, Zenon DEF Max
<1> QED
  BY <1>2

\* A completion as often and as late as another one.
Reaches(v, u) == v.done /\ v.views >= u.views /\ v.last >= u.last

\* A merged state is a state, finished if one of the two was, and no less than either.
LEMMA MergedStateType ==
  ASSUME NEW v \in State, NEW u \in State, v.done => v.row, u.done => u.row
  PROVE  /\ MergedState(v, u) \in State
         /\ MergedState(v, u).done <=> v.done \/ u.done
         /\ MergedState(v, u).done => MergedState(v, u).row
         /\ v.done => Reaches(MergedState(v, u), v)
         /\ u.done => Reaches(MergedState(v, u), u)
<1>1. /\ Max({v.views, u.views}) \in Nat /\ Max({v.last, u.last}) \in Nat
      /\ v.views <= Max({v.views, u.views}) /\ u.views <= Max({v.views, u.views})
      /\ v.last <= Max({v.last, u.last}) /\ u.last <= Max({v.last, u.last})
  BY LargerType DEF State
<1>2. CASE ~u.row
  BY <1>2 DEF MergedState, State, Reaches
<1>3. CASE u.row /\ ~v.row
  BY <1>3 DEF MergedState, State, Reaches
<1>4. CASE u.row /\ v.row
  <2> DEFINE m == [v EXCEPT !.done = v.done \/ u.done, !.views = Max({v.views, u.views}),
                            !.last = Max({v.last, u.last})]
  <2>1. MergedState(v, u) = m
    BY <1>4 DEF MergedState
  <2>2. m \in State /\ m.row = v.row /\ (m.done <=> v.done \/ u.done)
        /\ m.views = Max({v.views, u.views}) /\ m.last = Max({v.last, u.last})
    BY <1>1 DEF State
  <2> HIDE DEF m
  <2>3. /\ m.views >= v.views /\ m.last >= v.last /\ m.views >= u.views /\ m.last >= u.last
    BY <1>1, <2>2 DEF State
  <2> QED
    BY <1>4, <2>1, <2>2, <2>3 DEF Reaches
<1> QED
  BY <1>2, <1>3, <1>4 DEF State

\* MergedState joins two states into a state.
LEMMA MergedStateIsState ==
  ASSUME NEW v \in State, NEW u \in State
  PROVE  MergedState(v, u) \in State
<1>1. Max({v.views, u.views}) \in Nat /\ Max({v.last, u.last}) \in Nat
  BY LargerType DEF State
<1> QED
  BY <1>1 DEF MergedState, State

\* What merging asks of a set of catalogs, whatever else they hold: the types of the tables
\* it moves, and that it stays within the set.
ItemMerged(T, c, w, l, d) ==
  /\ d \in T
  /\ d.live = c.live \ {l}
  /\ d.parent = [i \in Rows |-> IF i = l THEN 0 ELSE IF c.parent[i] = l THEN w ELSE c.parent[i]]
  /\ d.ids = [c.ids EXCEPT ![w] = MergedIds(c, w, l), ![l] = {}]
  /\ d.manual = [c.manual EXCEPT ![l] = Unmatched]
  /\ d.at = [r \in Refs |-> IF c.at[r] = l THEN w ELSE c.at[r]]
  /\ d.files = c.files /\ d.avail = c.avail
  /\ d.plays = MovedPlays(c, w, l)
  /\ d.heir = [i \in Rows |-> IF c.heir[i] = l THEN w ELSE c.heir[i]]
  /\ d.state = [c.state EXCEPT ![w] = [s \in Sources |-> MergedState(c.state[w][s], c.state[l][s])],
                               ![l] = [s \in Sources |-> NoState]]
Reparented(T, c, i, p, d) ==
  /\ d \in T
  /\ d.live = c.live /\ d.ids = c.ids /\ d.manual = c.manual /\ d.at = c.at /\ d.plays = c.plays
  /\ d.files = c.files /\ d.avail = c.avail /\ d.heir = c.heir /\ d.state = c.state
  /\ d.parent = [c.parent EXCEPT ![i] = p]
MovedTo(p, i) == [p EXCEPT !.row = i]
Movable(p) ==
  /\ p.row \in Rows /\ MovedTo(p, p.row) = p
  /\ \A i \in Rows : MovedTo(p, i).row = i /\ \A j \in Rows : MovedTo(MovedTo(p, i), j) = MovedTo(p, j)
Typed(c) ==
  /\ c.live \in SUBSET Rows /\ c.avail \in SUBSET Refs /\ c.parent \in [Rows -> Rows \cup {0}]
  /\ c.manual \in [Rows -> Matches \cup {Unmatched}] /\ c.at \in [Refs -> Rows \cup {0}]
  /\ c.heir \in [Rows -> Rows] /\ c.state \in [Rows -> [Sources -> State]]
  /\ c.ids = [i \in Rows |-> c.ids[i]] /\ \A p \in c.plays : Movable(p)
Tables(T) ==
  \A c \in T :
     /\ Typed(c)
     /\ \A w, l \in Rows : ItemMerged(T, c, w, l, MergeItem(c, w, l))
     /\ \A i, p \in Rows : Reparented(T, c, i, p, [c EXCEPT !.parent[i] = p])

\* A live row is its own heir and hangs from a live row of the level above it.
Topmost == {"movie", "show"}
Rooted(c, i) ==
  /\ c.heir[i] = i
  /\ Kind[i] = "season" => c.parent[i] \in c.live /\ Kind[c.parent[i]] = "show"
  /\ Kind[i] = "episode" => c.parent[i] \in c.live /\ Kind[c.parent[i]] = "season"
  /\ Kind[i] \in Topmost => c.parent[i] = 0

\* Entries, plays and heirs point to live rows, only titles are matched, and only a state
\* that exists is finished.
Whole(T, c) ==
  /\ c \in T
  /\ \A r \in Refs : c.at[r] \in c.live \cup {0}
  /\ \A r \in c.avail : c.at[r] # 0
  /\ IsFiniteSet(c.plays) /\ \A p \in c.plays : p.row \in c.live
  /\ \A i \in c.live : Rooted(c, i) /\ (c.manual[i] # Unmatched => Kind[i] \in Topmost)
  /\ \A i \in Rows : c.heir[i] \in c.live \cup {i} /\ Kind[c.heir[i]] = Kind[i]
  /\ \A i \in Rows, s \in Sources : c.state[i][s].done => c.state[i][s].row

\* What merging does: every row has an heir, which has its entries, its plays, its
\* completions and a match if the row had one; rows only go, and no play is made up.
Joins(T, c, d) ==
  /\ Whole(T, d)
  /\ d.live \subseteq c.live /\ \A i \in c.live : d.heir[i] \in d.live
  /\ \A i \in Rows : d.heir[i] = d.heir[c.heir[i]]
  /\ \A r \in Refs : d.at[r] = IF c.at[r] = 0 THEN 0 ELSE d.heir[c.at[r]]
  /\ \A p \in c.plays : MovedTo(p, d.heir[p.row]) \in d.plays
  /\ \A q \in d.plays : \E p \in c.plays : q = MovedTo(p, d.heir[p.row])
  /\ \A i \in c.live, s \in Sources :
        c.state[i][s].done => Reaches(d.state[d.heir[i]][s], c.state[i][s])
  /\ \A i \in c.live : c.manual[i] # Unmatched => d.manual[d.heir[i]] # Unmatched
  /\ \A i \in d.live : /\ d.manual[i] = c.manual[i]
                       /\ c.manual[i] # Unmatched => d.ids[i] = c.ids[i]
  /\ d.files = c.files /\ d.avail = c.avail

\* The heirs of titles, when only rows below them are merged.
SameHeirs(c, d) == \A i \in Rows : Kind[i] \in Topmost => d.heir[i] = c.heir[i]

\* Children follow their parents to the heirs of both; while a row a takes over from b, those
\* of b may be below a already.
FollowsBut(c, d, a, b) ==
  \A i \in c.live : c.parent[i] # 0 =>
     \/ d.parent[d.heir[i]] = d.heir[c.parent[i]]
     \/ d.heir[c.parent[i]] = b /\ d.parent[d.heir[i]] = a
Follows(c, d) ==
  \A i \in c.live : c.parent[i] # 0 => d.parent[d.heir[i]] = d.heir[c.parent[i]]

\* Below titles: two episodes that become one are not shown by one source, and a season
\* becomes one of its own number.
Parted(c, d) ==
  /\ \A i, j \in c.live : Kind[i] = "episode" /\ Kind[j] = "episode" /\ i # j /\ d.heir[i] = d.heir[j] =>
        LiveSources(c, i) \cap LiveSources(c, j) = {}
  /\ \A i \in c.live : Kind[i] = "season" => Number[d.heir[i]] = Number[i]

\* What is known of the rows of a whole catalog.
LEMMA WholeTypes ==
  ASSUME NEW T, Tables(T), NEW c, Whole(T, c)
  PROVE  /\ c \in T /\ c.live \subseteq Rows /\ 0 \notin Rows /\ c.avail \subseteq Refs
         /\ c.parent \in [Rows -> Rows \cup {0}] /\ c.heir \in [Rows -> Rows]
         /\ c.at \in [Refs -> Rows \cup {0}] /\ c.state \in [Rows -> [Sources -> State]]
         /\ c.manual \in [Rows -> Matches \cup {Unmatched}] /\ c.ids = [i \in Rows |-> c.ids[i]]
         /\ \A p \in c.plays : Movable(p) /\ p.row \in Rows
         /\ \A i \in c.live : c.heir[i] = i
         /\ \A i \in c.live : c.parent[i] # 0 => c.parent[i] \in c.live
         /\ \A i \in Rows : c.heir[c.heir[i]] = c.heir[i]
<1>1. c \in T /\ Typed(c)
  BY DEF Whole, Tables
<1>2. c.live \subseteq Rows /\ Kind \in [Rows -> Levels] /\ 0 \notin Rows
  BY <1>1, RowsAssumption DEF Typed
<1>3. ASSUME NEW i \in c.live PROVE c.heir[i] = i /\ (c.parent[i] # 0 => c.parent[i] \in c.live)
  <2>1. Rooted(c, i) /\ Kind[i] \in Levels
    BY <1>2 DEF Whole
  <2> QED
    BY <2>1 DEF Rooted, Levels, Topmost
<1>4. \A i \in Rows : c.heir[c.heir[i]] = c.heir[i]
  BY <1>3 DEF Whole
<1>5. \A p \in c.plays : Movable(p) /\ p.row \in Rows
  BY <1>1 DEF Typed, Movable
<1> QED
  BY <1>1, <1>2, <1>3, <1>4, <1>5 DEF Typed

\* Merging nothing is a merge.
LEMMA JoinsItself ==
  ASSUME NEW T, Tables(T), NEW c, Whole(T, c)
  PROVE  Joins(T, c, c) /\ Follows(c, c)
<1>1. /\ \A p \in c.plays : Movable(p) /\ p.row \in Rows /\ p.row \in c.live
      /\ c.live \subseteq Rows /\ \A i \in c.live : c.heir[i] = i
      /\ \A i \in c.live : c.parent[i] # 0 => c.parent[i] \in c.live
      /\ \A i \in Rows : c.heir[c.heir[i]] = c.heir[i] /\ c.state \in [Rows -> [Sources -> State]]
  <2>1. \A p \in c.plays : p.row \in c.live
    BY DEF Whole
  <2> QED
    BY <2>1, WholeTypes
<1>2. \A p \in c.plays : MovedTo(p, c.heir[p.row]) = p
  BY <1>1 DEF Movable
<1>3. \A r \in Refs : c.at[r] = IF c.at[r] = 0 THEN 0 ELSE c.heir[c.at[r]]
  BY <1>1 DEF Whole
<1>4. \A i \in c.live, s \in Sources : c.state[i][s].done => Reaches(c.state[c.heir[i]][s], c.state[i][s])
  BY <1>1 DEF Reaches, State
<1> QED
  BY <1>1, <1>2, <1>3, <1>4 DEF Joins, Follows

\* Two merges, one after the other, are a merge.
LEMMA JoinsTransitive ==
  ASSUME NEW T, Tables(T), NEW c, NEW d, NEW e, Whole(T, c), Joins(T, c, d), Joins(T, d, e)
  PROVE  Joins(T, c, e)
<1>0. Whole(T, d) /\ Whole(T, e)
  BY DEF Joins
<1>1. /\ c.live \subseteq Rows /\ d.live \subseteq Rows /\ \A i \in Rows : c.heir[i] \in Rows /\ d.heir[i] \in Rows
      /\ \A p \in c.plays : Movable(p) /\ p.row \in Rows /\ p.row \in c.live
      /\ 0 \notin Rows /\ \A r \in Refs : c.at[r] # 0 => c.at[r] \in c.live
      /\ c.state \in [Rows -> [Sources -> State]] /\ d.state \in [Rows -> [Sources -> State]]
      /\ e.state \in [Rows -> [Sources -> State]] /\ \A i \in Rows : e.heir[i] \in Rows
  <2>1. /\ \A p \in c.plays : p.row \in c.live
        /\ \A r \in Refs : c.at[r] # 0 => c.at[r] \in c.live
    BY DEF Whole
  <2>2. /\ c.live \subseteq Rows /\ 0 \notin Rows /\ c.heir \in [Rows -> Rows]
        /\ c.state \in [Rows -> [Sources -> State]] /\ \A p \in c.plays : Movable(p) /\ p.row \in Rows
    BY WholeTypes
  <2>3. d.live \subseteq Rows /\ d.heir \in [Rows -> Rows] /\ d.state \in [Rows -> [Sources -> State]]
    BY <1>0, WholeTypes
  <2>4. e.heir \in [Rows -> Rows] /\ e.state \in [Rows -> [Sources -> State]]
    BY <1>0, WholeTypes
  <2> QED
    BY <2>1, <2>2, <2>3, <2>4
<1>2. \A i \in Rows : e.heir[i] = e.heir[d.heir[i]] /\ d.heir[i] = d.heir[c.heir[i]]
  BY DEF Joins
<1>3. \A i \in Rows : e.heir[i] = e.heir[c.heir[i]]
  BY <1>1, <1>2
<1>4. \A p \in c.plays : MovedTo(MovedTo(p, d.heir[p.row]), e.heir[p.row]) = MovedTo(p, e.heir[p.row])
                         /\ MovedTo(p, d.heir[p.row]).row = d.heir[p.row]
  BY <1>1 DEF Movable
<1>5. ASSUME NEW p \in c.plays PROVE MovedTo(p, e.heir[p.row]) \in e.plays
  <2> DEFINE q == MovedTo(p, d.heir[p.row])
  <2>1. q \in d.plays /\ q.row = d.heir[p.row]
    BY <1>4 DEF Joins
  <2>2. MovedTo(q, e.heir[q.row]) \in e.plays
    BY <2>1 DEF Joins
  <2>3. e.heir[q.row] = e.heir[p.row]
    BY <1>1, <1>2, <2>1
  <2> QED
    BY <1>4, <2>2, <2>3
<1>6. ASSUME NEW r \in e.plays PROVE \E p \in c.plays : r = MovedTo(p, e.heir[p.row])
  <2>1. PICK q \in d.plays : r = MovedTo(q, e.heir[q.row])
    BY DEF Joins
  <2>2. PICK p \in c.plays : q = MovedTo(p, d.heir[p.row])
    BY DEF Joins
  <2>3. q.row = d.heir[p.row] /\ e.heir[q.row] = e.heir[p.row]
    BY <1>1, <1>2, <1>4, <2>2
  <2> QED
    BY <1>4, <2>1, <2>2, <2>3
<1>7. ASSUME NEW i \in c.live, NEW s \in Sources, c.state[i][s].done
      PROVE  Reaches(e.state[e.heir[i]][s], c.state[i][s])
  <2>1. i \in Rows /\ d.heir[i] \in d.live /\ e.heir[d.heir[i]] = e.heir[i]
    BY <1>1, <1>2 DEF Joins
  <2>2. Reaches(d.state[d.heir[i]][s], c.state[i][s])
    BY <1>7 DEF Joins
  <2>3. Reaches(e.state[e.heir[i]][s], d.state[d.heir[i]][s])
    <3>1. \A j \in d.live, x \in Sources : d.state[j][x].done => Reaches(e.state[e.heir[j]][x], d.state[j][x])
      BY DEF Joins
    <3>2. d.state[d.heir[i]][s].done
      BY <2>2 DEF Reaches
    <3>3. Reaches(e.state[e.heir[d.heir[i]]][s], d.state[d.heir[i]][s])
      BY <2>1, <3>1, <3>2
    <3> QED
      BY <2>1, <3>3
  <2>4. c.state[i][s] \in State /\ d.state[d.heir[i]][s] \in State /\ e.state[e.heir[i]][s] \in State
    BY <1>1, <2>1
  <2> QED
    BY <2>2, <2>3, <2>4 DEF Reaches, State
<1>8. ASSUME NEW i \in c.live, c.manual[i] # Unmatched PROVE e.manual[e.heir[i]] # Unmatched
  <2>1. i \in Rows /\ d.heir[i] \in d.live /\ d.manual[d.heir[i]] # Unmatched
    BY <1>1, <1>8 DEF Joins
  <2>2. e.manual[e.heir[d.heir[i]]] # Unmatched
    BY <2>1 DEF Joins
  <2> QED
    BY <1>2, <2>1, <2>2
<1>9. ASSUME NEW r \in Refs PROVE e.at[r] = IF c.at[r] = 0 THEN 0 ELSE e.heir[c.at[r]]
  <2>1. d.at[r] = IF c.at[r] = 0 THEN 0 ELSE d.heir[c.at[r]]
    BY DEF Joins
  <2>2. e.at[r] = IF d.at[r] = 0 THEN 0 ELSE e.heir[d.at[r]]
    BY DEF Joins
  <2>3. c.at[r] # 0 => c.at[r] \in Rows /\ d.heir[c.at[r]] \in Rows /\ e.heir[d.heir[c.at[r]]] = e.heir[c.at[r]]
    BY <1>1, <1>2
  <2> QED
    BY <1>1, <2>1, <2>2, <2>3
<1>10. e.live \subseteq c.live /\ \A i \in c.live : e.heir[i] \in e.live
  <2>1. /\ d.live \subseteq c.live /\ \A i \in c.live : d.heir[i] \in d.live
        /\ e.live \subseteq d.live /\ \A i \in d.live : e.heir[i] \in e.live
    BY DEF Joins
  <2>2. \A i \in c.live : e.heir[i] = e.heir[d.heir[i]]
    BY <1>1, <1>2
  <2> QED
    BY <2>1, <2>2
<1>11. \A i \in e.live : e.manual[i] = c.manual[i] /\ (c.manual[i] # Unmatched => e.ids[i] = c.ids[i])
  BY DEF Joins
<1>12. e.files = c.files /\ e.avail = c.avail
  BY DEF Joins
<1> QED
  BY <1>0, <1>3, <1>5, <1>6, <1>7, <1>8, <1>9, <1>10, <1>11, <1>12 DEF Joins

\* The sources that show a row show its heir.
LEMMA SourcesFollow ==
  ASSUME NEW T, Tables(T), NEW c, NEW d, Whole(T, c), Joins(T, c, d), NEW i \in c.live
  PROVE  LiveSources(c, i) \subseteq LiveSources(d, d.heir[i])
<1>1. i # 0
  <2>1. c.live \subseteq Rows /\ 0 \notin Rows
    BY WholeTypes
  <2> QED
    BY <2>1
<1>2. \A r \in Refs : c.at[r] = i => d.at[r] = d.heir[i]
  BY <1>1 DEF Joins
<1>3. d.avail = c.avail
  BY DEF Joins
<1> QED
  BY <1>2, <1>3 DEF LiveSources, RefsOf

\* Where only titles and seasons are merged, and those into one of their number.
LEMMA PartedAbove ==
  ASSUME NEW T, Tables(T), NEW c, Whole(T, c), NEW d,
         \A i \in c.live : Kind[i] = "episode" => d.heir[i] = i,
         \A i \in c.live : Kind[i] = "season" => d.heir[i] = i \/ Number[d.heir[i]] = Number[i]
  PROVE  Parted(c, d)
<1>1. c.live \subseteq Rows /\ \A i \in c.live : c.heir[i] = i
  BY WholeTypes
<1> QED
  BY <1>1 DEF Parted

\* Merging nothing parts.
LEMMA PartedItself ==
  ASSUME NEW T, Tables(T), NEW c, Whole(T, c)
  PROVE  Parted(c, c)
<1>1. \A i \in c.live : c.heir[i] = i
  BY WholeTypes
<1> QED
  BY <1>1, PartedAbove

\* Two merges, one after the other.
LEMMA PartedTransitive ==
  ASSUME NEW T, Tables(T), NEW c, NEW d, NEW e, Whole(T, c), Joins(T, c, d), Joins(T, d, e),
         Parted(c, d), Parted(d, e)
  PROVE  Parted(c, e)
<1>1. /\ c.live \subseteq Rows /\ \A i \in c.live : d.heir[i] \in d.live
      /\ \A i \in c.live : e.heir[i] = e.heir[d.heir[i]] /\ Kind[d.heir[i]] = Kind[i]
  <2>1. c.live \subseteq Rows
    BY WholeTypes
  <2> QED
    BY <2>1 DEF Joins, Whole
<1>2. ASSUME NEW i \in c.live, NEW j \in c.live, Kind[i] = "episode", Kind[j] = "episode", i # j,
             e.heir[i] = e.heir[j]
      PROVE  LiveSources(c, i) \cap LiveSources(c, j) = {}
  <2>1. CASE d.heir[i] = d.heir[j]
    BY <1>2, <2>1 DEF Parted
  <2>2. CASE d.heir[i] # d.heir[j]
    <3>1. LiveSources(d, d.heir[i]) \cap LiveSources(d, d.heir[j]) = {}
      BY <1>1, <1>2, <2>2 DEF Parted
    <3>2. LiveSources(c, i) \subseteq LiveSources(d, d.heir[i])
      BY SourcesFollow
    <3>3. LiveSources(c, j) \subseteq LiveSources(d, d.heir[j])
      BY SourcesFollow
    <3> QED
      BY <3>1, <3>2, <3>3
  <2> QED
    BY <2>1, <2>2
<1>3. \A i \in c.live : Kind[i] = "season" => Number[e.heir[i]] = Number[i]
  BY <1>1 DEF Parted
<1> QED
  BY <1>2, <1>3 DEF Parted

\* Children follow through two merges.
LEMMA FollowsTransitive ==
  ASSUME NEW T, Tables(T), NEW c, NEW d, NEW e, Whole(T, c), Joins(T, c, d), Joins(T, d, e),
         Follows(c, d), Follows(d, e)
  PROVE  Follows(c, e)
<1>1. SUFFICES ASSUME NEW i \in c.live, c.parent[i] # 0
               PROVE  e.parent[e.heir[i]] = e.heir[c.parent[i]]
  BY DEF Follows
<1>2. c.live \subseteq Rows /\ c.parent[i] \in c.live /\ Whole(T, d)
  <2>1. c.live \subseteq Rows /\ \A j \in c.live : c.parent[j] # 0 => c.parent[j] \in c.live
    BY WholeTypes
  <2> QED
    BY <1>1, <2>1 DEF Joins
<1>3. d.heir[i] \in d.live /\ d.heir[c.parent[i]] \in d.live /\ d.parent[d.heir[i]] = d.heir[c.parent[i]]
  BY <1>1, <1>2 DEF Joins, Follows
<1>4. d.parent[d.heir[i]] # 0
  <2>1. d.live \subseteq Rows /\ 0 \notin Rows
    BY <1>2, WholeTypes
  <2> QED
    BY <1>3, <2>1
<1>5. e.parent[e.heir[d.heir[i]]] = e.heir[d.heir[c.parent[i]]]
  BY <1>3, <1>4 DEF Follows
<1> QED
  BY <1>2, <1>5 DEF Joins

\* The image of a finite set is finite: the plays of a catalog stay finitely many.
LEMMA ImageFinite ==
  ASSUME NEW S, IsFiniteSet(S), NEW f
  PROVE  IsFiniteSet({f[x] : x \in S})
<1> DEFINE T == {f[x] : x \in S}
           g == [x \in S |-> f[x]]
<1>1. g \in Surjection(S, T)
  BY DEF Surjection
<1> HIDE DEF T, g
<1>2. IsFiniteSet(T)
  BY <1>1, FS_Surjection
<1> QED
  BY <1>2 DEF T

\* _merge_item takes everything of a row of the same level over.
LEMMA MergeItemJoins ==
  ASSUME NEW T, Tables(T), NEW c, Whole(T, c), NEW w \in c.live, NEW l \in c.live, w # l, Kind[w] = Kind[l],
         c.manual[l] # Unmatched => c.manual[w] # Unmatched,
         NEW d, d = MergeItem(c, w, l)
  PROVE  /\ Joins(T, c, d) /\ d.live = c.live \ {l}
         /\ \A i \in Rows : d.heir[i] = IF c.heir[i] = l THEN w ELSE c.heir[i]
         /\ \A i \in Rows : d.parent[i] = IF i = l THEN 0 ELSE IF c.parent[i] = l THEN w ELSE c.parent[i]
<1>1. /\ c \in T /\ w \in Rows /\ l \in Rows /\ c.live \subseteq Rows /\ 0 \notin Rows
      /\ c.parent \in [Rows -> Rows \cup {0}]
      /\ c.manual \in [Rows -> Matches \cup {Unmatched}] /\ c.ids = [i \in Rows |-> c.ids[i]]
      /\ c.at \in [Refs -> Rows \cup {0}] /\ c.heir \in [Rows -> Rows] /\ c.state \in [Rows -> [Sources -> State]]
      /\ \A p \in c.plays : Movable(p) /\ p.row \in Rows
      /\ \A i \in c.live : c.heir[i] = i
      /\ \A i \in Rows : c.heir[c.heir[i]] = c.heir[i]
  BY WholeTypes
<1>2. ItemMerged(T, c, w, l, d)
  BY <1>1 DEF Tables
<1>3. /\ d \in T /\ d.live = c.live \ {l} /\ d.files = c.files /\ d.avail = c.avail
      /\ d.plays = MovedPlays(c, w, l)
      /\ \A r \in Refs : d.at[r] = IF c.at[r] = l THEN w ELSE c.at[r]
      /\ \A i \in Rows : d.heir[i] = IF c.heir[i] = l THEN w ELSE c.heir[i]
      /\ \A i \in Rows : d.parent[i] = IF i = l THEN 0 ELSE IF c.parent[i] = l THEN w ELSE c.parent[i]
      /\ \A i \in Rows \ {l} : d.manual[i] = c.manual[i]
  BY <1>1, <1>2 DEF ItemMerged
<1>4. \A r \in Refs : c.at[r] \in c.live \cup {0}
  BY DEF Whole
<1>5. \A r \in Refs : d.at[r] \in d.live \cup {0}
  BY <1>1, <1>3, <1>4
<1>5a. \A r \in d.avail : d.at[r] # 0
  <2>1. \A r \in c.avail : r \in Refs /\ c.at[r] # 0
    BY <1>1, WholeTypes DEF Whole
  <2> QED
    BY <1>1, <1>3, <2>1
<1>6. ASSUME NEW p \in d.plays PROVE p.row \in d.live
  <2>1. PICK q \in c.plays : p = IF q.row = l THEN MovedTo(q, w) ELSE q
    BY <1>3 DEF MovedPlays, MovedTo
  <2>2. Movable(q) /\ q.row \in c.live
    BY <1>1 DEF Whole
  <2>3. MovedTo(q, w).row = w
    BY <1>1, <2>2 DEF Movable
  <2> QED
    BY <1>3, <2>1, <2>2, <2>3
<1>7. ASSUME NEW i \in d.live PROVE Rooted(d, i)
  <2>1. i \in c.live /\ i # l /\ Rooted(c, i) /\ i \in Rows
    BY <1>1, <1>3 DEF Whole
  <2>2. d.heir[i] = i
    BY <1>1, <1>3, <2>1
  <2>3. d.parent[i] = IF c.parent[i] = l THEN w ELSE c.parent[i]
    BY <1>3, <2>1
  <2> QED
    BY <1>1, <1>3, <2>1, <2>2, <2>3 DEF Rooted
<1>8. \A i \in d.live : d.manual[i] = c.manual[i] /\ (d.manual[i] # Unmatched => Kind[i] \in Topmost)
  BY <1>1, <1>3 DEF Whole
<1>9. ASSUME NEW i \in d.live, c.manual[i] # Unmatched PROVE d.ids[i] = c.ids[i]
  <2>1. i \in c.live /\ i # l /\ i \in Rows
    BY <1>1, <1>3
  <2>2. d.ids = [c.ids EXCEPT ![w] = MergedIds(c, w, l), ![l] = {}]
    BY <1>2 DEF ItemMerged
  <2>3. i # w => d.ids[i] = c.ids[i]
    BY <1>1, <2>1, <2>2
  <2>4. d.ids[w] = MergedIds(c, w, l)
    BY <1>1, <2>2
  <2> QED
    BY <1>9, <2>3, <2>4 DEF MergedIds
<1>10. ASSUME NEW i \in Rows PROVE d.heir[i] \in d.live \cup {i} /\ Kind[d.heir[i]] = Kind[i]
  <2>1. c.heir[i] \in c.live \cup {i} /\ Kind[c.heir[i]] = Kind[i]
    BY DEF Whole
  <2> QED
    BY <1>1, <1>3, <2>1
<1>11. /\ \A i \in Rows \ {w, l} : d.state[i] = c.state[i]
       /\ \A s \in Sources : d.state[l][s] = NoState
       /\ \A s \in Sources : d.state[w][s] = MergedState(c.state[w][s], c.state[l][s])
  BY <1>1, <1>2 DEF ItemMerged
<1>12. ASSUME NEW s \in Sources
       PROVE  /\ d.state[w][s].done <=> c.state[w][s].done \/ c.state[l][s].done
              /\ d.state[w][s].done => d.state[w][s].row
              /\ c.state[w][s].done => Reaches(d.state[w][s], c.state[w][s])
              /\ c.state[l][s].done => Reaches(d.state[w][s], c.state[l][s])
  <2>1. /\ c.state[w][s] \in State /\ c.state[l][s] \in State
        /\ c.state[w][s].done => c.state[w][s].row
        /\ c.state[l][s].done => c.state[l][s].row
    BY <1>1 DEF Whole
  <2> QED
    BY <1>11, <2>1, MergedStateType
<1>13. ASSUME NEW i \in Rows, NEW s \in Sources, d.state[i][s].done PROVE d.state[i][s].row
  BY <1>11, <1>12, <1>13 DEF Whole, NoState
<1>14. IsFiniteSet(d.plays)
  <2> DEFINE moved == [p \in c.plays |-> IF p.row = l THEN [p EXCEPT !.row = w] ELSE p]
  <2>1. d.plays = {IF p.row = l THEN [p EXCEPT !.row = w] ELSE p : p \in c.plays}
    BY <1>3, Zenon DEF MovedPlays
  <2>3. d.plays = {moved[p] : p \in c.plays}
    BY <2>1
  <2>2. IsFiniteSet(c.plays)
    BY DEF Whole
  <2> HIDE DEF moved
  <2>4. IsFiniteSet({moved[p] : p \in c.plays})
    BY <2>2, ImageFinite
  <2> QED
    BY <2>3, <2>4
<1>15. Whole(T, d)
  BY <1>3, <1>5, <1>5a, <1>6, <1>7, <1>8, <1>10, <1>13, <1>14 DEF Whole
<1>16. \A i \in Rows : d.heir[i] = d.heir[c.heir[i]]
  BY <1>1, <1>3
<1>17. \A i \in c.live : d.heir[i] = IF i = l THEN w ELSE i
  BY <1>1, <1>3
<1>18. ASSUME NEW p \in c.plays
       PROVE  MovedTo(p, d.heir[p.row]) = IF p.row = l THEN MovedTo(p, w) ELSE p
  <2>1. Movable(p) /\ p.row \in c.live
    BY <1>1 DEF Whole
  <2> QED
    BY <1>17, <2>1 DEF Movable
<1>19. \A p \in c.plays : MovedTo(p, d.heir[p.row]) \in d.plays
  BY <1>3, <1>18 DEF MovedPlays, MovedTo
<1>20. \A q \in d.plays : \E p \in c.plays : q = MovedTo(p, d.heir[p.row])
  <2>1. \A q \in d.plays : \E p \in c.plays : q = IF p.row = l THEN MovedTo(p, w) ELSE p
    BY <1>3 DEF MovedPlays, MovedTo
  <2> QED
    BY <1>18, <2>1
<1>21. ASSUME NEW i \in c.live, NEW s \in Sources, c.state[i][s].done
       PROVE  Reaches(d.state[d.heir[i]][s], c.state[i][s])
  <2>1. c.state[i][s] \in State /\ i \in Rows
    BY <1>1
  <2>2. CASE i \in {w, l}
    BY <1>12, <1>17, <1>21, <2>2
  <2>3. CASE i \notin {w, l}
    BY <1>11, <1>17, <1>21, <2>1, <2>3 DEF Reaches, State
  <2> QED
    BY <2>2, <2>3
<1>22. \A i \in c.live : c.manual[i] # Unmatched => d.manual[d.heir[i]] # Unmatched
  BY <1>1, <1>3, <1>17
<1>23. ASSUME NEW r \in Refs PROVE d.at[r] = IF c.at[r] = 0 THEN 0 ELSE d.heir[c.at[r]]
  BY <1>1, <1>3, <1>4, <1>17
<1>24. d.live \subseteq c.live /\ \A i \in c.live : d.heir[i] \in d.live
  BY <1>3, <1>17
<1>25. Joins(T, c, d)
  BY <1>3, <1>8, <1>9, <1>15, <1>16, <1>19, <1>20, <1>21, <1>22, <1>23, <1>24 DEF Joins
<1> QED
  BY <1>3, <1>25

-------------------------------------------------------------------------------
(* Episodes and seasons.                                                      *)

\* Merging a row, and hanging it from another, stay within the set.
LEMMA StepTypes ==
  ASSUME NEW T, Tables(T), NEW c \in T, NEW i \in Rows, NEW p \in Rows
  PROVE  /\ MergeItem(c, i, p) \in T
         /\ Reparented(T, c, i, p, [c EXCEPT !.parent[i] = p]) /\ [c EXCEPT !.parent[i] = p] \in T
<1>1. ItemMerged(T, c, i, p, MergeItem(c, i, p)) /\ Reparented(T, c, i, p, [c EXCEPT !.parent[i] = p])
  BY DEF Tables
<1> DEFINE d == MergeItem(c, i, p)
           e == [c EXCEPT !.parent[i] = p]
<1> HIDE DEF d, e
<1>2. ItemMerged(T, c, i, p, d) /\ Reparented(T, c, i, p, e)
  BY <1>1 DEF d, e
<1>3. d \in T /\ e \in T
  BY <1>2 DEF ItemMerged, Reparented
<1> QED
  BY <1>1, <1>3 DEF d, e

\* The counterparts of an episode are children of the season it is adopted by.
LEMMA CounterpartsThere ==
  ASSUME NEW T, Tables(T), NEW c \in T, NEW w \in Rows, NEW e \in Rows
  PROVE  /\ Counterparts(c, w, e) \subseteq Children(c, w) /\ Children(c, w) \subseteq Rows
         /\ Cardinality(Counterparts(c, w, e)) = 1 =>
              Min(Counterparts(c, w, e)) \in Children(c, w) /\ Min(Counterparts(c, w, e)) \in Rows
<1>1. Children(c, w) \subseteq Rows
  BY DEF Children, Tables, Typed
<1>2. Counterparts(c, w, e) \subseteq Children(c, w)
  BY DEF Counterparts
<1>3. Rows \subseteq Nat
  BY RowsAssumption
<1>4. Cardinality(Counterparts(c, w, e)) = 1 => Min(Counterparts(c, w, e)) \in Counterparts(c, w, e)
  <2>1. Counterparts(c, w, e) \in SUBSET Nat
    BY <1>1, <1>2, <1>3
  <2>2. Cardinality(Counterparts(c, w, e)) = 1 => Counterparts(c, w, e) # {}
    BY FS_EmptySet
  <2> QED
    BY <2>1, <2>2, MinIn
<1> QED
  BY <1>1, <1>2, <1>4

\* Adopting an episode leaves a catalog.
LEMMA AdoptEpisodeType ==
  ASSUME NEW T, Tables(T), NEW c \in T, NEW w \in Rows, NEW e \in Rows
  PROVE  AdoptEpisode(c, w, e) \in T
<1> DEFINE match == Counterparts(c, w, e)
<1>1. [c EXCEPT !.parent[e] = w] \in T
  BY StepTypes
<1>2. Cardinality(match) = 1 => MergeItem(c, Min(match), e) \in T
  <2> SUFFICES ASSUME Cardinality(match) = 1 PROVE MergeItem(c, Min(match), e) \in T
    OBVIOUS
  <2>1. Min(match) \in Rows
    BY CounterpartsThere
  <2> HIDE DEF match
  <2> QED
    BY <2>1, StepTypes
<1> QED
  BY <1>1, <1>2 DEF AdoptEpisode

\* Only seasons hang from a row of a show, and only episodes from one of a season.
LEMMA LevelBelow ==
  ASSUME NEW T, Tables(T), NEW c, Whole(T, c), NEW i \in c.live, NEW p \in Rows, c.parent[i] = p
  PROVE  \/ Kind[i] = "season" /\ Kind[p] = "show"
         \/ Kind[i] = "episode" /\ Kind[p] = "season"
<1>1. i \in Rows /\ Rooted(c, i)
  BY DEF Whole, Tables, Typed
<1>2. Kind[i] \in Levels /\ p # 0
  BY <1>1, RowsAssumption
<1> QED
  BY <1>1, <1>2 DEF Rooted, Levels, Topmost

\* An adopted row keeps everything but its parent.
LEMMA ReparentJoins ==
  ASSUME NEW T, Tables(T), NEW c, Whole(T, c), NEW i \in c.live, NEW p \in c.live,
         \/ Kind[i] = "season" /\ Kind[p] = "show"
         \/ Kind[i] = "episode" /\ Kind[p] = "season",
         NEW d, Reparented(T, c, i, p, d)
  PROVE  /\ Joins(T, c, d) /\ d.live = c.live /\ d.heir = c.heir /\ d.parent[i] = p
         /\ \A j \in c.live \ {i} : d.parent[j] = c.parent[j]
<1>1. c \in T /\ i \in Rows /\ p \in Rows /\ c.live \subseteq Rows /\ c.parent \in [Rows -> Rows \cup {0}]
  BY DEF Whole, Tables, Typed
<1>3. /\ d \in T /\ d.live = c.live /\ d.ids = c.ids /\ d.manual = c.manual /\ d.at = c.at /\ d.plays = c.plays
      /\ d.files = c.files /\ d.avail = c.avail /\ d.heir = c.heir /\ d.state = c.state
      /\ d.parent[i] = p /\ \A j \in Rows \ {i} : d.parent[j] = c.parent[j]
  BY <1>1 DEF Reparented
<1>4. ASSUME NEW j \in d.live PROVE Rooted(d, j)
  <2>1. j \in Rows /\ Rooted(c, j)
    BY <1>1, <1>3 DEF Whole
  <2> QED
    BY <1>3, <2>1 DEF Rooted, Topmost
<1>5. Whole(T, d)
  BY <1>3, <1>4 DEF Whole
<1>6. Joins(T, c, d)
  <2>1. Joins(T, c, c)
    BY JoinsItself
  <2> QED
    BY <1>3, <1>5, <2>1 DEF Joins
<1> QED
  BY <1>1, <1>3, <1>6

\* Two rows of a safe group are not shown by one source, unless they are shows, and split as
\* the files tell.
LEMMA SafeApart ==
  ASSUME NEW T, Tables(T), NEW c \in T, NEW G, NEW physical, SafeSources(c, G, physical),
         NEW i \in G, NEW j \in G, i # j, G \in SUBSET Rows
  PROVE  \A s \in LiveSources(c, i) \cap LiveSources(c, j) :
            physical /\ (\A x \in G : Kind[x] = "show") /\ Anchored(c, G, s) /\ s \in Sources
<1> SUFFICES ASSUME NEW s \in LiveSources(c, i) \cap LiveSources(c, j)
             PROVE  physical /\ (\A x \in G : Kind[x] = "show") /\ Anchored(c, G, s) /\ s \in Sources
  OBVIOUS
<1> DEFINE shown == {x \in G : s \in LiveSources(c, x)}
<1>1. s \in Sources
  BY DEF LiveSources, RefsOf, Sources
<1>2. IsFiniteSet(shown) /\ {i, j} \subseteq shown
  BY RowsAssumption, FS_Subset
<1>3. Cardinality({i, j}) = 2 /\ IsFiniteSet({i, j})
  <2>1. IsFiniteSet({i}) /\ Cardinality({i}) = 1 /\ j \notin {i}
    BY FS_Singleton
  <2>2. IsFiniteSet({i} \cup {j}) /\ Cardinality({i} \cup {j}) = 1 + 1
    BY <2>1, FS_AddElement
  <2>3. {i, j} = {i} \cup {j}
    OBVIOUS
  <2> QED
    BY <2>2, <2>3
<1> HIDE DEF shown
<1>4. Cardinality({i, j}) <= Cardinality(shown) /\ Cardinality(shown) \in Nat
  BY <1>2, FS_Subset, FS_CardinalityType
<1>5. ~(Cardinality(shown) <= 1)
  BY <1>3, <1>4
<1> QED
  BY <1>1, <1>5 DEF SafeSources, shown

\* _merge_season, one episode: it is merged into its counterpart or moves to the season.
LEMMA AdoptEpisodeJoins ==
  ASSUME NEW T, Tables(T), NEW c, Whole(T, c), NEW w \in c.live, NEW e \in c.live, Kind[w] = "season", Kind[e] = "episode",
         c.parent[e] # w, NEW d, d = AdoptEpisode(c, w, e)
  PROVE  /\ Joins(T, c, d) /\ c.live \ {e} \subseteq d.live /\ SameHeirs(c, d)
         /\ \A j \in c.live \ {e} : d.parent[j] = c.parent[j] /\ d.heir[j] = j
         /\ d.parent[d.heir[e]] = w /\ Parted(c, d)
<1> DEFINE match == Counterparts(c, w, e)
<1>1. c \in T /\ w \in Rows /\ e \in Rows /\ c.live \subseteq Rows /\ \A j \in c.live : c.heir[j] = j
  BY WholeTypes
<1>2. CASE Cardinality(match) = 1 /\ SafeSources(c, match \cup {e}, FALSE)
  <2>1. d = MergeItem(c, Min(match), e)
    BY <1>2 DEF AdoptEpisode
  <2>2. Min(match) \in c.live /\ c.parent[Min(match)] = w /\ Min(match) \in Rows
    BY <1>1, <1>2, CounterpartsThere DEF Children
  <2> DEFINE m == Min(match)
  <2>11. /\ m \in match \cup {e} /\ match \cup {e} \in SUBSET Rows
         /\ SafeSources(c, match \cup {e}, FALSE)
    <3>3. match \subseteq Rows
      BY <1>1, CounterpartsThere
    <3>1. match \in SUBSET Nat
      BY <1>1, CounterpartsThere, RowsAssumption
    <3>2. match # {}
      BY <1>2, FS_EmptySet
    <3> HIDE DEF match
    <3> QED
      BY <1>1, <1>2, <3>1, <3>2, <3>3, MinIn
  <2> HIDE DEF m, match
  <2>3. m \in c.live /\ c.parent[m] = w /\ m \in Rows /\ d = MergeItem(c, m, e)
    BY <2>1, <2>2 DEF m
  <2>4. m # e
    BY <2>3
  <2>5. Kind[m] = "episode"
    BY <1>1, <2>3, LevelBelow
  <2>6. c.manual[e] = Unmatched
    BY DEF Whole, Topmost
  <2>7. \A j \in c.live : c.parent[j] # e
    BY <1>1, LevelBelow
  <2>8. /\ Joins(T, c, d) /\ d.live = c.live \ {e}
        /\ \A i \in Rows : d.heir[i] = IF c.heir[i] = e THEN m ELSE c.heir[i]
        /\ \A i \in Rows : d.parent[i] = IF i = e THEN 0 ELSE IF c.parent[i] = e THEN m ELSE c.parent[i]
    BY <2>3, <2>4, <2>5, <2>6, MergeItemJoins
  <2>9. SameHeirs(c, d)
    BY <2>8 DEF Whole, SameHeirs, Topmost
  <2>10. d.heir[e] = m /\ d.parent[m] = w
    BY <1>1, <2>3, <2>4, <2>7, <2>8
  <2>12. LiveSources(c, m) \cap LiveSources(c, e) = {}
    <3>1. \A s \in LiveSources(c, m) \cap LiveSources(c, e) : FALSE
      BY <1>1, <2>4, <2>11, SafeApart
    <3> QED
      BY <3>1
  <2>13. Parted(c, d)
    BY <1>1, <2>5, <2>8, <2>12 DEF Parted
  <2> QED
    BY <1>1, <2>7, <2>8, <2>9, <2>10, <2>13
<1>3. CASE ~(Cardinality(match) = 1 /\ SafeSources(c, match \cup {e}, FALSE))
  <2>1. Reparented(T, c, e, w, d)
    <3>1. d = [c EXCEPT !.parent[e] = w]
      BY <1>3 DEF AdoptEpisode
    <3> QED
      BY <1>1, <3>1, StepTypes
  <2>2. /\ Joins(T, c, d) /\ d.live = c.live /\ d.heir = c.heir /\ d.parent[e] = w
        /\ \A j \in c.live \ {e} : d.parent[j] = c.parent[j]
    BY <2>1, ReparentJoins
  <2>3. Parted(c, d)
    BY <1>1, <2>2, PartedAbove
  <2> QED
    BY <1>1, <2>2, <2>3 DEF SameHeirs
<1> QED
  BY <1>2, <1>3

-------------------------------------------------------------------------------
(* The loops: each is a function of the set of what was already taken.        *)

\* Every set of rows has a last one to take.
LEMMA RowsInOrder ==
  ASSUME NEW S \in SUBSET Rows
  PROVE  /\ IsFiniteSet(S) /\ \A s \in SUBSET S : s # {} => Max(s) \in s
         /\ \A s \in SUBSET S : s # {} => [t \in SUBSET S |-> Max(t)][s] \in s
<1>1. IsFiniteSet(S)
  BY RowsAssumption, FS_Subset
<1> QED
  BY <1>1, MaxIn, FS_Subset, RowsAssumption

\* _merge_season takes the episodes one by one.
EpisodesOf(c, l) == {e \in Children(c, l) : Kind[e] = "episode"}
SeasonLoop(f, c, w, l) ==
  /\ f[{}] = c
  /\ \A s \in SUBSET EpisodesOf(c, l) : s # {} => f[s] = AdoptEpisode(f[s \ {Max(s)}], w, Max(s))
  /\ MergeSeason(c, w, l) = f[EpisodesOf(c, l)]

\* The loop of _merge_season computes such a function.
LEMMA MergeSeasonFold ==
  ASSUME NEW T, Tables(T), NEW c \in T, NEW w \in Rows, NEW l \in Rows
  PROVE  \E f : SeasonLoop(f, c, w, l)
<1> DEFINE S == EpisodesOf(c, l)
           last == [s \in SUBSET S |-> Max(s)]
           F == [x \in T \X S |-> AdoptEpisode(x[1], w, x[2])]
           Step(f, s) == IF s = {} THEN c ELSE AdoptEpisode(f[s \ {Max(s)}], w, Max(s))
           Is(f) == f = [s \in SUBSET S |-> Step(f, s)]
           iter == CHOOSE f : Is(f)
<1>1. S \in SUBSET Rows /\ IsFiniteSet(S) /\ \A s \in SUBSET S : s # {} => Max(s) \in s
  <2>1. S \in SUBSET Rows
    BY DEF EpisodesOf, Children, Tables, Typed
  <2> HIDE DEF S
  <2> QED
    BY <2>1, RowsInOrder
<1>2. \A s \in SUBSET S : s # {} => last[s] \in s
  BY <1>1
<1>3. F \in [T \X S -> T]
  BY <1>1, AdoptEpisodeType
<1>4. PICK f \in [SUBSET S -> T] : Unfolds(f, S, last, c, F)
  <2> HIDE DEF F, last
  <2> QED
    BY <1>1, <1>2, <1>3, FoldExists
<1>5. \A s \in SUBSET S : f[s] = Step(f, s)
  BY <1>2, <1>4 DEF Unfolds
<1>6. Is(f)
  BY <1>5
<1>7. Is(iter)
  <2> HIDE DEF Is
  <2> QED
    BY <1>6, Zenon
<1>8. MergeSeason(c, w, l) = iter[S]
  BY DEF MergeSeason, InOrder, MapThenFoldSet, EpisodesOf
<1>9. \A s \in SUBSET S : iter[s] = Step(iter, s)
  <2> HIDE DEF Step, iter
  <2> QED
    BY <1>7
<1>10. iter[{}] = c /\ \A s \in SUBSET S : s # {} => iter[s] = AdoptEpisode(iter[s \ {Max(s)}], w, Max(s))
  <2> HIDE DEF iter
  <2> QED
    BY <1>9
<1>11. SeasonLoop(iter, c, w, l)
  <2> HIDE DEF iter
  <2> QED
    BY <1>8, <1>10 DEF SeasonLoop
<1> HIDE DEF iter
<1> QED
  BY <1>11

\* _merge_season leaves a catalog.
LEMMA MergeSeasonType ==
  ASSUME NEW T, Tables(T), NEW c \in T, NEW w \in Rows, NEW l \in Rows
  PROVE  MergeSeason(c, w, l) \in T
<1> DEFINE S == EpisodesOf(c, l)
           last == [s \in SUBSET S |-> Max(s)]
<1>0. S \in SUBSET Rows
  BY DEF EpisodesOf, Children, Tables, Typed
<1>1. IsFiniteSet(S) /\ \A s \in SUBSET S : s # {} => Max(s) \in s /\ last[s] \in s
  <2> HIDE DEF S
  <2> QED
    BY <1>0, RowsInOrder
<1>2. PICK f : SeasonLoop(f, c, w, l)
  BY MergeSeasonFold
<1> USE DEF SeasonLoop
<1> DEFINE Q == {s \in SUBSET S : f[s] \in T}
<1>3. {} \in Q
  BY <1>2
<1>4. ASSUME NEW s \in SUBSET S, s # {}, s \ {last[s]} \in Q PROVE s \in Q
  <2> DEFINE e == Max(s)
             b == f[s \ {e}]
  <2>1. e \in s /\ last[s] = e /\ e \in Rows
    BY <1>0, <1>1, <1>4
  <2>2. f[s] = AdoptEpisode(b, w, e)
    BY <1>2, <1>4
  <2>3. b \in T
    BY <1>4, <2>1
  <2> HIDE DEF e, b
  <2>4. f[s] \in T
    BY <2>1, <2>2, <2>3, AdoptEpisodeType
  <2> QED
    BY <2>4
<1>5. \A s \in SUBSET S : s # {} => last[s] \in s
  BY <1>1
<1>6. S \in Q
  <2> HIDE DEF Q, last, S
  <2> QED
    BY <1>1, <1>3, <1>4, <1>5, OrderedInduction
<1> QED
  BY <1>2, <1>6

\* _merge_season: the episodes of a season leave it, and nothing else does.
SeasonEmptied(T, c, w, l, d) ==
  /\ Joins(T, c, d) /\ SameHeirs(c, d) /\ FollowsBut(c, d, w, l) /\ Parted(c, d)
  /\ \A i \in c.live : ~(Kind[i] = "episode" /\ c.parent[i] = l) => i \in d.live /\ d.parent[i] = c.parent[i]

\* What hangs from a row that is kept hangs from its heir, while its season is emptied.
LEMMA EpisodeFollows ==
  ASSUME NEW T, Tables(T), NEW c, Whole(T, c), NEW b, Joins(T, c, b), NEW d, Joins(T, b, d),
         NEW w, NEW l, NEW e \in b.live, Kind[e] = "episode", b.parent[e] = l, FollowsBut(c, b, w, l),
         \A j \in b.live \ {e} : d.parent[j] = b.parent[j] /\ d.heir[j] = j,
         d.parent[d.heir[e]] = w
  PROVE  FollowsBut(c, d, w, l)
<1>1. SUFFICES ASSUME NEW i \in c.live, c.parent[i] # 0
               PROVE  \/ d.parent[d.heir[i]] = d.heir[c.parent[i]]
                      \/ d.heir[c.parent[i]] = l /\ d.parent[d.heir[i]] = w
  BY DEF FollowsBut
<1> DEFINE u == b.heir[i]
           y == b.heir[c.parent[i]]
<1>2. i \in Rows /\ c.parent[i] \in c.live /\ c.parent[i] \in Rows
  <2>1. c.live \subseteq Rows /\ \A j \in c.live : c.parent[j] # 0 => c.parent[j] \in c.live
    BY WholeTypes
  <2> QED
    BY <1>1, <2>1
<1>3. u \in b.live /\ y \in b.live /\ Kind[y] = Kind[c.parent[i]]
  BY <1>2 DEF Joins, Whole
<1>4. Kind[c.parent[i]] # "episode"
  BY <1>1, <1>2, LevelBelow
<1>5. d.heir[i] = d.heir[u] /\ d.heir[c.parent[i]] = y
  <2>1. d.heir[i] = d.heir[u] /\ d.heir[c.parent[i]] = d.heir[y]
    BY <1>2 DEF Joins
  <2>2. d.heir[y] = y
    BY <1>3, <1>4
  <2> QED
    BY <2>1, <2>2
<1>6. b.parent[u] = y \/ (y = l /\ b.parent[u] = w)
  BY <1>1 DEF FollowsBut
<1> HIDE DEF u, y
<1>7. CASE u = e
  BY <1>3, <1>5, <1>6, <1>7
<1>8. CASE u # e
  BY <1>3, <1>5, <1>6, <1>8
<1> QED
  BY <1>7, <1>8

\* _merge_season merges: every episode of the season that goes finds its place.
LEMMA MergeSeasonJoins ==
  ASSUME NEW T, Tables(T), NEW c, Whole(T, c), NEW w \in c.live, NEW l \in c.live, w # l,
         Kind[w] = "season", Kind[l] = "season"
  PROVE  SeasonEmptied(T, c, w, l, MergeSeason(c, w, l))
<1> DEFINE S == EpisodesOf(c, l)
           last == [s \in SUBSET S |-> Max(s)]
<1>0. c \in T /\ w \in Rows /\ l \in Rows /\ S \subseteq c.live /\ S \in SUBSET Rows
      /\ \A i \in c.live : i \in S <=> Kind[i] = "episode" /\ c.parent[i] = l
  BY DEF Whole, Tables, Typed, Children, EpisodesOf
<1>1. IsFiniteSet(S) /\ \A s \in SUBSET S : s # {} => Max(s) \in s /\ last[s] \in s
  <2> HIDE DEF S
  <2> QED
    BY <1>0, RowsInOrder
<1>2. PICK f : SeasonLoop(f, c, w, l)
  BY <1>0, MergeSeasonFold
<1> USE DEF SeasonLoop
<1> DEFINE Good(s) == /\ Joins(T, c, f[s]) /\ SameHeirs(c, f[s]) /\ FollowsBut(c, f[s], w, l)
                      /\ Parted(c, f[s])
                      /\ \A i \in c.live \ s : i \in f[s].live /\ f[s].parent[i] = c.parent[i]
           Q == {s \in SUBSET S : Good(s)}
<1>3. {} \in Q
  <2>1. Joins(T, c, c) /\ Parted(c, c) /\ SameHeirs(c, c) /\ FollowsBut(c, c, w, l)
    BY PartedItself, JoinsItself DEF SameHeirs, Follows, FollowsBut
  <2> QED
    BY <1>2, <2>1
<1>4. ASSUME NEW s \in SUBSET S, s # {}, s \ {last[s]} \in Q PROVE s \in Q
  <2> DEFINE e == Max(s)
             b == f[s \ {e}]
             d == f[s]
  <2>1. e \in s /\ last[s] = e /\ e \in c.live /\ Kind[e] = "episode" /\ c.parent[e] = l
    BY <1>0, <1>1, <1>4
  <2>2. d = AdoptEpisode(b, w, e)
    BY <1>2, <1>4
  <2>3. Good(s \ {e})
    BY <1>4, <2>1
  <2> HIDE DEF e, b, d, last, Q, S
  <2>4. /\ Joins(T, c, b) /\ SameHeirs(c, b) /\ FollowsBut(c, b, w, l) /\ Parted(c, b)
        /\ \A i \in c.live \ (s \ {e}) : i \in b.live /\ b.parent[i] = c.parent[i]
    BY <2>3 DEF b
  <2>5. Whole(T, b) /\ w \in b.live /\ e \in b.live /\ b.parent[e] = l
    BY <1>0, <1>4, <2>1, <2>4 DEF Joins
  <2>6. /\ Joins(T, b, d) /\ b.live \ {e} \subseteq d.live /\ SameHeirs(b, d)
        /\ \A j \in b.live \ {e} : d.parent[j] = b.parent[j] /\ d.heir[j] = j
        /\ d.parent[d.heir[e]] = w /\ Parted(b, d)
    BY <2>1, <2>2, <2>5, AdoptEpisodeJoins
  <2>7. Joins(T, c, d)
    BY <2>4, <2>6, JoinsTransitive
  <2>8. \A i \in c.live \ s : i \in d.live /\ d.parent[i] = c.parent[i]
    BY <2>1, <2>4, <2>6
  <2>9. SameHeirs(c, d)
    BY <2>4, <2>6 DEF SameHeirs
  <2>11. FollowsBut(c, d, w, l)
    BY <2>1, <2>4, <2>5, <2>6, EpisodeFollows
  <2>12. Parted(c, d)
    BY <2>4, <2>6, PartedTransitive
  <2>10. Good(s)
    BY <2>7, <2>8, <2>9, <2>11, <2>12 DEF d
  <2> QED
    BY <2>10 DEF Q
<1>5. \A s \in SUBSET S : s # {} => last[s] \in s
  BY <1>1
<1>6. S \in Q
  <2> HIDE DEF Q, last, S
  <2> QED
    BY <1>1, <1>3, <1>4, <1>5, OrderedInduction
<1> QED
  BY <1>0, <1>2, <1>6 DEF SeasonEmptied

-------------------------------------------------------------------------------
(* Seasons and titles.                                                        *)

\* The seasons of a show that have the number of season x.
Same(c, w, x) == {i \in Children(c, w) : Kind[i] = "season" /\ Number[i] = Number[x]}

\* The season that adopts is a row.
LEMMA SameSeason ==
  ASSUME NEW T, Tables(T), NEW c \in T, NEW w \in Rows, NEW x \in Rows, Same(c, w, x) # {}
  PROVE  Min(Same(c, w, x)) \in Same(c, w, x) /\ Min(Same(c, w, x)) \in Rows
<1>1. Same(c, w, x) \subseteq Rows
  BY DEF Same, Children, Tables, Typed
<1>2. Same(c, w, x) \in SUBSET Nat
  BY <1>1, RowsAssumption
<1> QED
  BY <1>1, <1>2, MinIn

\* Adopting a season leaves a catalog.
LEMMA AdoptSeasonType ==
  ASSUME NEW T, Tables(T), NEW c \in T, NEW w \in Rows, NEW x \in Rows
  PROVE  AdoptSeason(c, w, x) \in T
<1> DEFINE m == Min(Same(c, w, x))
<1>1. CASE Same(c, w, x) = {}
  <2>1. AdoptSeason(c, w, x) = [c EXCEPT !.parent[x] = w]
    BY <1>1 DEF AdoptSeason, Same
  <2> QED
    BY <2>1, StepTypes
<1>2. CASE Cardinality(Same(c, w, x)) > 1 /\ Same(c, w, x) # {}
  BY <1>2 DEF AdoptSeason, Same
<1>3. CASE ~(Cardinality(Same(c, w, x)) > 1) /\ Same(c, w, x) # {}
  <2>1. AdoptSeason(c, w, x) = MergeItem(MergeSeason(c, m, x), m, x)
    BY <1>3 DEF AdoptSeason, Same
  <2>2. m \in Rows
    BY <1>3, SameSeason
  <2> HIDE DEF m
  <2>3. MergeSeason(c, m, x) \in T
    BY <2>2, MergeSeasonType
  <2> QED
    BY <2>1, <2>2, <2>3, StepTypes
<1> QED
  BY <1>1, <1>2, <1>3

\* A season that is adopted leaves its show, or is merged; titles and other seasons stay.
Upper == {"movie", "show", "season"}
SeasonAdopted(T, c, w, x, d) ==
  /\ Joins(T, c, d) /\ SameHeirs(c, d) /\ FollowsBut(c, d, w, c.parent[x]) /\ Parted(c, d)
  /\ \A i \in c.live \ {x} : Kind[i] \in Upper => i \in d.live /\ d.parent[i] = c.parent[i]

\* What is merged into a row hangs from the heir of its parent, and so do its children.
LEMMA MergeItemFollows ==
  ASSUME NEW T, Tables(T), NEW c, Whole(T, c), NEW b, Joins(T, c, b), NEW m \in b.live, NEW x \in b.live,
         m # x, Kind[m] = Kind[x], FollowsBut(c, b, m, x), NEW d,
         \A i \in Rows : d.heir[i] = IF b.heir[i] = x THEN m ELSE b.heir[i],
         \A i \in Rows : d.parent[i] = IF i = x THEN 0 ELSE IF b.parent[i] = x THEN m ELSE b.parent[i]
  PROVE  FollowsBut(c, d, b.parent[m], b.parent[x])
<1>1. SUFFICES ASSUME NEW i \in c.live, c.parent[i] # 0
               PROVE  \/ d.parent[d.heir[i]] = d.heir[c.parent[i]]
                      \/ d.heir[c.parent[i]] = b.parent[x] /\ d.parent[d.heir[i]] = b.parent[m]
  BY DEF FollowsBut
<1> DEFINE u == b.heir[i]
           y == b.heir[c.parent[i]]
<1>2. i \in Rows /\ c.parent[i] \in c.live /\ c.parent[i] \in Rows
  <2>1. c.live \subseteq Rows /\ \A j \in c.live : c.parent[j] # 0 => c.parent[j] \in c.live
    BY WholeTypes
  <2> QED
    BY <1>1, <2>1
<1>3. Whole(T, b) /\ u \in b.live /\ y \in b.live /\ Kind[y] = Kind[c.parent[i]] /\ Kind[u] = Kind[i]
  BY <1>2 DEF Joins, Whole
<1>4. Kind[c.parent[i]] # Kind[i]
  BY <1>1, <1>2, LevelBelow
<1>5. b.live \subseteq Rows /\ 0 \notin Rows /\ m \in Rows /\ x \in Rows /\ u \in Rows /\ y \in Rows
  <2>1. b.live \subseteq Rows /\ 0 \notin Rows
    BY <1>3, WholeTypes
  <2> QED
    BY <1>3, <2>1
<1>6. b.parent[u] = y \/ (y = x /\ b.parent[u] = m)
  BY <1>1 DEF FollowsBut
<1>7. b.parent[m] # x
  BY <1>3, <1>5, LevelBelow
<1>8. d.heir[i] = (IF u = x THEN m ELSE u) /\ d.heir[c.parent[i]] = IF y = x THEN m ELSE y
  BY <1>2
<1> HIDE DEF u, y
<1>9. CASE u = x
  <2>1. y # x
    BY <1>3, <1>4, <1>9
  <2>2. b.parent[x] = y
    BY <1>6, <1>9, <2>1
  <2>3. d.parent[m] = b.parent[m]
    BY <1>5, <1>7
  <2> QED
    BY <1>8, <1>9, <2>1, <2>2, <2>3
<1>10. CASE u # x
  <2>1. d.parent[u] = IF b.parent[u] = x THEN m ELSE b.parent[u]
    BY <1>5, <1>10
  <2> QED
    BY <1>6, <1>8, <1>10, <2>1
<1> QED
  BY <1>9, <1>10

\* _merge_hierarchy, one season: it is merged into its equal or moves to the show.
LEMMA AdoptSeasonJoins ==
  ASSUME NEW T, Tables(T), NEW c, Whole(T, c), NEW w \in c.live, NEW x \in c.live,
         Kind[w] = "show", Kind[x] = "season", c.parent[x] # w
  PROVE  SeasonAdopted(T, c, w, x, AdoptSeason(c, w, x))
<1> DEFINE m == Min(Same(c, w, x))
           d == AdoptSeason(c, w, x)
<1>1. /\ c \in T /\ w \in Rows /\ x \in Rows
      /\ \A j \in c.live : c.heir[j] = j /\ (c.parent[j] # 0 => c.parent[j] \in c.live)
  BY WholeTypes
<1>2. CASE Same(c, w, x) = {}
  <2>1. Reparented(T, c, x, w, d)
    <3>1. d = [c EXCEPT !.parent[x] = w]
      BY <1>2 DEF AdoptSeason, Same
    <3> QED
      BY <1>1, <3>1, StepTypes
  <2> HIDE DEF d
  <2>2. /\ Joins(T, c, d) /\ d.live = c.live /\ d.heir = c.heir /\ d.parent[x] = w
        /\ \A j \in c.live \ {x} : d.parent[j] = c.parent[j]
    BY <2>1, ReparentJoins
  <2>3. FollowsBut(c, d, w, c.parent[x])
    BY <1>1, <2>2 DEF FollowsBut
  <2>4. Parted(c, d)
    BY <1>1, <2>2, PartedAbove
  <2> QED
    BY <2>2, <2>3, <2>4 DEF SeasonAdopted, SameHeirs, d
<1>3. CASE Cardinality(Same(c, w, x)) > 1 /\ Same(c, w, x) # {}
  <2>1. d = c
    BY <1>3 DEF AdoptSeason, Same
  <2> QED
    BY <2>1, JoinsItself, PartedItself DEF SeasonAdopted, SameHeirs, Follows, FollowsBut
<1>4. CASE ~(Cardinality(Same(c, w, x)) > 1) /\ Same(c, w, x) # {}
  <2> DEFINE b == MergeSeason(c, m, x)
  <2>1. d = MergeItem(b, m, x)
    BY <1>4 DEF AdoptSeason, Same
  <2>2. m \in Same(c, w, x)
    BY <1>1, <1>4, SameSeason
  <2> HIDE DEF m, d
  <2>3. m \in c.live /\ c.parent[m] = w /\ Kind[m] = "season" /\ m # x /\ Number[m] = Number[x]
    BY <2>2 DEF Same, Children
  <2>4. SeasonEmptied(T, c, m, x, b)
    BY <2>3, MergeSeasonJoins
  <2> HIDE DEF b
  <2>5. /\ Joins(T, c, b) /\ Whole(T, b) /\ m \in b.live /\ x \in b.live /\ SameHeirs(c, b)
        /\ FollowsBut(c, b, m, x) /\ Parted(c, b)
        /\ \A i \in c.live : Kind[i] \in Upper => i \in b.live /\ b.parent[i] = c.parent[i]
    BY <2>3, <2>4 DEF SeasonEmptied, Joins, Upper
  <2>6. b.manual[x] = Unmatched
    BY <2>5 DEF Whole, Topmost
  <2>7. /\ Joins(T, b, d) /\ d.live = b.live \ {x}
        /\ \A i \in Rows : d.heir[i] = IF b.heir[i] = x THEN m ELSE b.heir[i]
        /\ \A i \in Rows : d.parent[i] = IF i = x THEN 0 ELSE IF b.parent[i] = x THEN m ELSE b.parent[i]
    BY <2>1, <2>3, <2>5, <2>6, MergeItemJoins
  <2>8. \A i \in b.live : Kind[i] \in Upper => b.parent[i] # x
    BY <1>1, <2>5, LevelBelow DEF Upper
  <2>9. Joins(T, c, d)
    BY <2>5, <2>7, JoinsTransitive
  <2>10. \A i \in c.live \ {x} : Kind[i] \in Upper => i \in d.live /\ d.parent[i] = c.parent[i]
    <3>1. b.live \subseteq Rows
      BY <2>5, WholeTypes
    <3> QED
      BY <2>5, <2>7, <2>8, <3>1
  <2>12. FollowsBut(c, d, w, c.parent[x])
    <3>1. FollowsBut(c, d, b.parent[m], b.parent[x])
      BY <2>3, <2>5, <2>7, MergeItemFollows
    <3> QED
      BY <2>3, <2>5, <3>1 DEF Upper
  <2>11. SameHeirs(c, d)
    BY <2>5, <2>7 DEF Whole, SameHeirs, Topmost
  <2>13. Parted(b, d)
    <3>1. \A i \in b.live : i \in Rows /\ b.heir[i] = i
      BY <2>5, WholeTypes
    <3> QED
      BY <2>3, <2>5, <2>7, <3>1, PartedAbove
  <2>14. Parted(c, d)
    BY <2>5, <2>7, <2>13, PartedTransitive
  <2> QED
    BY <2>9, <2>10, <2>11, <2>12, <2>14 DEF SeasonAdopted, d
<1> QED
  BY <1>2, <1>3, <1>4

\* _merge_hierarchy takes the seasons of a show one by one.
Seasons(c, w, l) == IF Kind[w] # "show" THEN {} ELSE {i \in Children(c, l) : Kind[i] = "season"}
TitleLoop(f, c, w, l) ==
  /\ f[{}] = c
  /\ \A s \in SUBSET Seasons(c, w, l) : s # {} => f[s] = AdoptSeason(f[s \ {Max(s)}], w, Max(s))
  /\ MergeTitle(c, w, l) = MergeItem(f[Seasons(c, w, l)], w, l)

\* The loop of _merge_hierarchy computes such a function.
LEMMA MergeTitleFold ==
  ASSUME NEW T, Tables(T), NEW c \in T, NEW w \in Rows, NEW l \in Rows
  PROVE  \E f : TitleLoop(f, c, w, l)
<1> DEFINE S == Seasons(c, w, l)
           last == [s \in SUBSET S |-> Max(s)]
           F == [x \in T \X S |-> AdoptSeason(x[1], w, x[2])]
           Step(f, s) == IF s = {} THEN c ELSE AdoptSeason(f[s \ {Max(s)}], w, Max(s))
           Is(f) == f = [s \in SUBSET S |-> Step(f, s)]
           iter == CHOOSE f : Is(f)
<1>1. S \in SUBSET Rows /\ IsFiniteSet(S) /\ \A s \in SUBSET S : s # {} => Max(s) \in s
  <2>1. S \in SUBSET Rows
    BY DEF Seasons, Children, Tables, Typed
  <2> HIDE DEF S
  <2> QED
    BY <2>1, RowsInOrder
<1>2. \A s \in SUBSET S : s # {} => last[s] \in s
  BY <1>1
<1>3. F \in [T \X S -> T]
  BY <1>1, AdoptSeasonType
<1>4. PICK f \in [SUBSET S -> T] : Unfolds(f, S, last, c, F)
  <2> HIDE DEF F, last
  <2> QED
    BY <1>1, <1>2, <1>3, FoldExists
<1>5. \A s \in SUBSET S : f[s] = Step(f, s)
  BY <1>2, <1>4 DEF Unfolds
<1>6. Is(f)
  BY <1>5
<1>7. Is(iter)
  <2> HIDE DEF Is
  <2> QED
    BY <1>6, Zenon
<1>8. MergeTitle(c, w, l) = MergeItem(iter[S], w, l)
  BY DEF MergeTitle, InOrder, MapThenFoldSet, Seasons
<1>9. \A s \in SUBSET S : iter[s] = Step(iter, s)
  <2> HIDE DEF Step, iter
  <2> QED
    BY <1>7
<1>10. iter[{}] = c /\ \A s \in SUBSET S : s # {} => iter[s] = AdoptSeason(iter[s \ {Max(s)}], w, Max(s))
  <2> HIDE DEF iter
  <2> QED
    BY <1>9
<1>11. TitleLoop(iter, c, w, l)
  <2> HIDE DEF iter
  <2> QED
    BY <1>8, <1>10 DEF TitleLoop
<1> HIDE DEF iter
<1> QED
  BY <1>11

\* Merging two titles leaves a catalog.
LEMMA MergeTitleType ==
  ASSUME NEW T, Tables(T), NEW c \in T, NEW w \in Rows, NEW l \in Rows
  PROVE  MergeTitle(c, w, l) \in T
<1> DEFINE S == Seasons(c, w, l)
           last == [s \in SUBSET S |-> Max(s)]
<1>0. S \in SUBSET Rows
  BY DEF Seasons, Children, Tables, Typed
<1>1. IsFiniteSet(S) /\ \A s \in SUBSET S : s # {} => Max(s) \in s /\ last[s] \in s
  <2> HIDE DEF S
  <2> QED
    BY <1>0, RowsInOrder
<1>2. PICK f : TitleLoop(f, c, w, l)
  BY MergeTitleFold
<1> USE DEF TitleLoop
<1> DEFINE Q == {s \in SUBSET S : f[s] \in T}
<1>3. {} \in Q
  BY <1>2
<1>4. ASSUME NEW s \in SUBSET S, s # {}, s \ {last[s]} \in Q PROVE s \in Q
  <2> DEFINE e == Max(s)
             b == f[s \ {e}]
  <2>1. e \in s /\ last[s] = e /\ e \in Rows
    BY <1>0, <1>1, <1>4
  <2>2. f[s] = AdoptSeason(b, w, e)
    BY <1>2, <1>4
  <2>3. b \in T
    BY <1>4, <2>1
  <2> HIDE DEF e, b
  <2>4. f[s] \in T
    BY <2>1, <2>2, <2>3, AdoptSeasonType
  <2> QED
    BY <2>4
<1>5. \A s \in SUBSET S : s # {} => last[s] \in s
  BY <1>1
<1>6. S \in Q
  <2> HIDE DEF Q, last, S
  <2> QED
    BY <1>1, <1>3, <1>4, <1>5, OrderedInduction
<1>7. f[S] \in T /\ MergeTitle(c, w, l) = MergeItem(f[S], w, l)
  BY <1>2, <1>6
<1> HIDE DEF S
<1> QED
  BY <1>7, StepTypes

\* No other row was merged into row i.
Single(c, i) == \A j \in Rows : c.heir[j] = i => j = i

\* A season hangs from the heir of its show, and an episode from the heir of its season
\* unless it was merged as a duplicate of an episode of another show.
Hangs(c, d) ==
  \A i \in c.live : c.parent[i] # 0 /\ (Kind[i] = "season" \/ Single(d, d.heir[i])) =>
     d.parent[d.heir[i]] = d.heir[c.parent[i]]

\* Two merges, one after the other.
LEMMA HangsTransitive ==
  ASSUME NEW T, Tables(T), NEW c, NEW d, NEW e, Whole(T, c), Joins(T, c, d), Joins(T, d, e),
         Hangs(c, d), Hangs(d, e)
  PROVE  Hangs(c, e)
<1>1. SUFFICES ASSUME NEW i \in c.live, c.parent[i] # 0, Kind[i] = "season" \/ Single(e, e.heir[i])
               PROVE  e.parent[e.heir[i]] = e.heir[c.parent[i]]
  BY DEF Hangs
<1>2. c.live \subseteq Rows /\ c.parent[i] \in c.live /\ i \in Rows /\ c.parent[i] \in Rows
  <2>1. c.live \subseteq Rows /\ \A j \in c.live : c.parent[j] # 0 => c.parent[j] \in c.live
    BY WholeTypes
  <2> QED
    BY <1>1, <2>1
<1> DEFINE u == d.heir[i]
           y == d.heir[c.parent[i]]
<1>3. u \in d.live /\ y \in d.live /\ Kind[u] = Kind[i]
  BY <1>2 DEF Joins, Whole
<1>4. e.heir[i] = e.heir[u] /\ e.heir[c.parent[i]] = e.heir[y] /\ \A j \in Rows : e.heir[j] = e.heir[d.heir[j]]
  BY <1>2 DEF Joins
<1>5. Whole(T, d) /\ d.live \subseteq Rows /\ 0 \notin Rows
  <2>1. Whole(T, d)
    BY DEF Joins
  <2> QED
    BY <2>1, WholeTypes
<1>6. Kind[i] = "season" \/ Single(d, u)
  <2> SUFFICES ASSUME Single(e, e.heir[i]), NEW j \in Rows, d.heir[j] = u PROVE j = u
    BY <1>1 DEF Single
  <2>1. e.heir[j] = e.heir[i]
    BY <1>4
  <2> QED
    BY <1>3, <1>4, <1>5, <2>1 DEF Single
<1>7. d.parent[u] = y
  BY <1>1, <1>6 DEF Hangs
<1> HIDE DEF u, y
<1>8. y # 0
  BY <1>3, <1>5
<1>9. Kind[u] = "season" \/ Single(e, e.heir[u])
  BY <1>1, <1>3, <1>4
<1>10. e.parent[e.heir[u]] = e.heir[y]
  BY <1>3, <1>7, <1>8, <1>9 DEF Hangs
<1> QED
  BY <1>4, <1>10

\* A title or episode that is merged goes, every other title stays.
TitlesMerged(T, c, w, G, d) ==
  /\ Joins(T, c, d) /\ Hangs(c, d) /\ (Kind[w] \in Topmost => Follows(c, d) /\ Parted(c, d))
  /\ \A i \in c.live \ G : Kind[i] \in Topmost \/ Kind[w] = "episode" => i \in d.live
  /\ \A i \in Rows : Kind[i] \in Topmost \/ Kind[w] = "episode" =>
        d.heir[i] = IF c.heir[i] \in G THEN w ELSE c.heir[i]

\* What hangs from a row that is kept hangs from its heir, while its show is emptied.
LEMMA SeasonFollows ==
  ASSUME NEW T, Tables(T), NEW c, Whole(T, c), NEW b, Joins(T, c, b), NEW d, Joins(T, b, d), SameHeirs(b, d),
         NEW w \in b.live, Kind[w] = "show", NEW l, FollowsBut(c, b, w, l), FollowsBut(b, d, w, l)
  PROVE  FollowsBut(c, d, w, l)
<1>1. SUFFICES ASSUME NEW i \in c.live, c.parent[i] # 0
               PROVE  \/ d.parent[d.heir[i]] = d.heir[c.parent[i]]
                      \/ d.heir[c.parent[i]] = l /\ d.parent[d.heir[i]] = w
  BY DEF FollowsBut
<1> DEFINE u == b.heir[i]
           y == b.heir[c.parent[i]]
<1>2. i \in Rows /\ c.parent[i] \in c.live /\ c.parent[i] \in Rows
  <2>1. c.live \subseteq Rows /\ \A j \in c.live : c.parent[j] # 0 => c.parent[j] \in c.live
    BY WholeTypes
  <2> QED
    BY <1>1, <2>1
<1>3. Whole(T, b) /\ u \in b.live /\ y \in b.live /\ Kind[u] = Kind[i] /\ Kind[y] = Kind[c.parent[i]]
  BY <1>2 DEF Joins, Whole
<1>4. b.live \subseteq Rows /\ 0 \notin Rows /\ \A j \in b.live : b.heir[j] = j
  BY <1>3, WholeTypes
<1>5. d.heir[i] = d.heir[u] /\ d.heir[c.parent[i]] = d.heir[y] /\ d.heir[w] = w
  BY <1>2, <1>4 DEF Joins, SameHeirs, Topmost
<1>6. b.parent[u] = y \/ (y = l /\ b.parent[u] = w)
  BY <1>1 DEF FollowsBut
<1> HIDE DEF u, y
<1>7. b.parent[u] # 0
  BY <1>3, <1>4, <1>6
<1>8. \/ d.parent[d.heir[u]] = d.heir[b.parent[u]]
      \/ d.heir[b.parent[u]] = l /\ d.parent[d.heir[u]] = w
  BY <1>3, <1>7 DEF FollowsBut
<1>9. CASE b.parent[u] = y
  BY <1>5, <1>8, <1>9
<1>10. CASE y = l /\ b.parent[u] = w
  <2>1. d.parent[d.heir[u]] = w
    BY <1>5, <1>8, <1>10
  <2>2. d.heir[l] = l \/ d.parent[d.heir[u]] = d.heir[y]
    <3>1. Kind[y] = "show"
      <4>1. w \in Rows /\ Kind[u] = "season"
        BY <1>3, <1>4, <1>10, LevelBelow
      <4>2. Kind[c.parent[i]] = "show"
        BY <1>1, <1>2, <1>3, <4>1, LevelBelow
      <4> QED
        BY <1>3, <4>2
    <3> QED
      BY <1>3, <1>4, <1>10, <3>1 DEF SameHeirs, Topmost
  <2> QED
    BY <1>5, <1>10, <2>1, <2>2
<1> QED
  BY <1>6, <1>9, <1>10

\* _merge_hierarchy and _merge_item: one title takes over another of its kind.
LEMMA MergeTitleJoins ==
  ASSUME NEW T, Tables(T), NEW c, Whole(T, c), NEW w \in c.live, NEW l \in c.live, w # l, Kind[w] = Kind[l],
         Kind[w] \in Topmost \cup {"episode"}, c.manual[l] # Unmatched => c.manual[w] # Unmatched
  PROVE  TitlesMerged(T, c, w, {l}, MergeTitle(c, w, l))
<1> DEFINE S == Seasons(c, w, l)
           last == [s \in SUBSET S |-> Max(s)]
<1>0. c \in T /\ w \in Rows /\ l \in Rows /\ S \subseteq c.live /\ S \in SUBSET Rows
      /\ \A i \in S : Kind[i] = "season" /\ c.parent[i] = l /\ Kind[w] = "show"
  BY DEF Whole, Tables, Typed, Children, Seasons
<1>1. IsFiniteSet(S) /\ \A s \in SUBSET S : s # {} => Max(s) \in s /\ last[s] \in s
  <2> HIDE DEF S
  <2> QED
    BY <1>0, RowsInOrder
<1>2. PICK f : TitleLoop(f, c, w, l)
  BY <1>0, MergeTitleFold
<1> USE DEF TitleLoop
<1> DEFINE Good(s) == /\ Joins(T, c, f[s]) /\ SameHeirs(c, f[s]) /\ FollowsBut(c, f[s], w, l)
                      /\ Parted(c, f[s])
                      /\ \A i \in c.live \ s : Kind[i] \in Upper => i \in f[s].live /\ f[s].parent[i] = c.parent[i]
           Q == {s \in SUBSET S : Good(s)}
<1>3. {} \in Q
  <2>1. Joins(T, c, c) /\ Parted(c, c) /\ SameHeirs(c, c) /\ FollowsBut(c, c, w, l)
    BY PartedItself, JoinsItself DEF SameHeirs, Follows, FollowsBut
  <2> QED
    BY <1>2, <2>1
<1>4. ASSUME NEW s \in SUBSET S, s # {}, s \ {last[s]} \in Q PROVE s \in Q
  <2> DEFINE e == Max(s)
             b == f[s \ {e}]
             d == f[s]
  <2>1. e \in s /\ last[s] = e /\ e \in c.live /\ Kind[e] = "season" /\ c.parent[e] = l /\ Kind[w] = "show"
    BY <1>0, <1>1, <1>4
  <2>2. d = AdoptSeason(b, w, e)
    BY <1>2, <1>4
  <2>3. Good(s \ {e})
    BY <1>4, <2>1
  <2>0. w \notin s
    BY <1>0, <2>1
  <2> HIDE DEF e, b, d, last, Q, S
  <2>4. /\ Joins(T, c, b) /\ SameHeirs(c, b) /\ FollowsBut(c, b, w, l) /\ Parted(c, b)
        /\ \A i \in c.live \ (s \ {e}) : Kind[i] \in Upper => i \in b.live /\ b.parent[i] = c.parent[i]
    BY <2>3 DEF b
  <2>5. Whole(T, b) /\ w \in b.live /\ e \in b.live /\ b.parent[e] # w /\ b.parent[e] = l
    BY <1>0, <1>4, <2>0, <2>1, <2>4 DEF Joins, Upper
  <2>6. SeasonAdopted(T, b, w, e, d)
    BY <2>1, <2>2, <2>5, AdoptSeasonJoins
  <2>7. Joins(T, c, d)
    BY <2>4, <2>6, JoinsTransitive DEF SeasonAdopted
  <2>8. \A i \in c.live \ s : Kind[i] \in Upper => i \in d.live /\ d.parent[i] = c.parent[i]
    BY <2>1, <2>4, <2>6 DEF SeasonAdopted
  <2>9. SameHeirs(c, d)
    BY <2>4, <2>6 DEF SameHeirs, SeasonAdopted
  <2>11. FollowsBut(c, d, w, l)
    BY <1>0, <2>1, <2>4, <2>5, <2>6, SeasonFollows DEF SeasonAdopted
  <2>12. Parted(c, d)
    BY <2>4, <2>6, PartedTransitive DEF SeasonAdopted
  <2>10. Good(s)
    BY <2>7, <2>8, <2>9, <2>11, <2>12 DEF d
  <2> QED
    BY <2>10 DEF Q
<1>5. \A s \in SUBSET S : s # {} => last[s] \in s
  BY <1>1
<1>6. S \in Q
  <2> HIDE DEF Q, last, S
  <2> QED
    BY <1>1, <1>3, <1>4, <1>5, OrderedInduction
<1> DEFINE b == f[S]
           d == MergeTitle(c, w, l)
<1>7. /\ Joins(T, c, b) /\ SameHeirs(c, b) /\ FollowsBut(c, b, w, l) /\ Parted(c, b)
      /\ \A i \in c.live : Kind[i] \in Topmost => i \in b.live /\ b.parent[i] = c.parent[i]
      /\ Kind[w] = "episode" => b = c
  <2>1. Kind[w] = "episode" => S = {}
    BY <1>0
  <2> HIDE DEF S
  <2> QED
    BY <1>0, <1>2, <1>6, <2>1 DEF Upper, Topmost
<1>8. d = MergeItem(b, w, l)
  BY <1>2
<1> HIDE DEF b, d, Good, Q, S
<1>9. Whole(T, b) /\ w \in b.live /\ l \in b.live /\ b.manual[w] = c.manual[w] /\ b.manual[l] = c.manual[l]
  BY <1>7 DEF Joins
<1>10. /\ Joins(T, b, d) /\ d.live = b.live \ {l}
       /\ \A i \in Rows : d.heir[i] = IF b.heir[i] = l THEN w ELSE b.heir[i]
       /\ \A i \in Rows : d.parent[i] = IF i = l THEN 0 ELSE IF b.parent[i] = l THEN w ELSE b.parent[i]
  BY <1>8, <1>9, MergeItemJoins
<1>11. Joins(T, c, d)
  BY <1>7, <1>10, JoinsTransitive
<1>12. \A i \in c.live \ {l} : Kind[i] \in Topmost \/ Kind[w] = "episode" => i \in d.live
  BY <1>7, <1>10
<1>13. \A i \in Rows : Kind[i] \in Topmost \/ Kind[w] = "episode" =>
          d.heir[i] = IF c.heir[i] \in {l} THEN w ELSE c.heir[i]
  BY <1>7, <1>10 DEF SameHeirs
<1>14. CASE Kind[w] \in Topmost
  <2>1. b.parent[w] = 0 /\ b.parent[l] = 0
    BY <1>9, <1>14 DEF Whole, Rooted
  <2>2. FollowsBut(c, d, 0, 0)
    BY <1>7, <1>9, <1>10, <2>1, MergeItemFollows
  <2>3. ASSUME NEW i \in c.live, c.parent[i] # 0 PROVE d.heir[c.parent[i]] # 0
    <3>1. c.parent[i] \in c.live /\ 0 \notin Rows
      BY <2>3, WholeTypes
    <3>2. d.heir[c.parent[i]] \in c.live
      BY <1>11, <3>1 DEF Joins
    <3>3. c.live \subseteq Rows
      BY WholeTypes
    <3> QED
      BY <3>1, <3>2, <3>3
  <2>4. Parted(b, d)
    <3>1. \A i \in b.live : i \in Rows /\ b.heir[i] = i
      BY <1>9, WholeTypes
    <3>2. Kind[l] \notin {"season", "episode"}
      BY <1>14 DEF Topmost
    <3> QED
      BY <1>9, <1>10, <3>1, <3>2, PartedAbove
  <2>5. Parted(c, d)
    BY <1>7, <1>10, <2>4, PartedTransitive
  <2>6. Follows(c, d) /\ Hangs(c, d)
    BY <2>2, <2>3 DEF FollowsBut, Follows, Hangs
  <2> QED
    BY <1>11, <1>12, <1>13, <2>5, <2>6 DEF TitlesMerged, d
<1>15. CASE Kind[w] = "episode"
  <2>1. c.live \subseteq Rows /\ (\A i \in c.live : c.heir[i] = i) /\ (\A i \in c.live : c.parent[i] # 0 => c.parent[i] \in c.live)
        /\ 0 \notin Rows
    BY WholeTypes
  <2>2. ASSUME NEW i \in c.live, c.parent[i] # 0, Kind[i] = "season" \/ Single(d, d.heir[i])
        PROVE  d.parent[d.heir[i]] = d.heir[c.parent[i]]
    <3>1. c.parent[i] # l
      BY <1>0, <1>15, <2>2, LevelBelow
    <3>2. i # l
      <4> SUFFICES ASSUME i = l PROVE FALSE
        OBVIOUS
      <4>1. d.heir[l] = w /\ Kind[l] # "season"
        BY <1>0, <1>7, <1>10, <1>15, <2>1
      <4> QED
        BY <1>0, <2>2, <4>1 DEF Single
    <3> QED
      BY <1>7, <1>10, <1>15, <2>1, <2>2, <3>1, <3>2
  <2> QED
    BY <1>11, <1>12, <1>13, <1>15, <2>2 DEF TitlesMerged, d, Hangs, Topmost
<1> QED
  BY <1>14, <1>15

-------------------------------------------------------------------------------
(* Groups of titles.                                                          *)

IntoLoop(f, c, w, G) ==
  /\ f[{}] = c
  /\ \A s \in SUBSET (G \ {w}) : s # {} => f[s] = MergeTitle(f[s \ {Max(s)}], w, Max(s))
  /\ MergeInto(c, w, G) = f[G \ {w}]

\* The loop over the titles of a group computes such a function.
LEMMA MergeIntoFold ==
  ASSUME NEW T, Tables(T), NEW c \in T, NEW w \in Rows, NEW G \in SUBSET Rows
  PROVE  \E f : IntoLoop(f, c, w, G)
<1> DEFINE S == G \ {w}
           last == [s \in SUBSET S |-> Max(s)]
           F == [x \in T \X S |-> MergeTitle(x[1], w, x[2])]
           Step(f, s) == IF s = {} THEN c ELSE MergeTitle(f[s \ {Max(s)}], w, Max(s))
           Is(f) == f = [s \in SUBSET S |-> Step(f, s)]
           iter == CHOOSE f : Is(f)
<1>1. S \in SUBSET Rows /\ IsFiniteSet(S) /\ \A s \in SUBSET S : s # {} => Max(s) \in s
  <2>1. S \in SUBSET Rows
    OBVIOUS
  <2> HIDE DEF S
  <2> QED
    BY <2>1, RowsInOrder
<1>2. \A s \in SUBSET S : s # {} => last[s] \in s
  BY <1>1
<1>3. F \in [T \X S -> T]
  BY <1>1, MergeTitleType
<1>4. PICK f \in [SUBSET S -> T] : Unfolds(f, S, last, c, F)
  <2> HIDE DEF F, last
  <2> QED
    BY <1>1, <1>2, <1>3, FoldExists
<1>5. \A s \in SUBSET S : f[s] = Step(f, s)
  BY <1>2, <1>4 DEF Unfolds
<1>6. Is(f)
  BY <1>5
<1>7. Is(iter)
  <2> HIDE DEF Is
  <2> QED
    BY <1>6, Zenon
<1>8. MergeInto(c, w, G) = iter[S]
  BY DEF MergeInto, InOrder, MapThenFoldSet
<1>9. \A s \in SUBSET S : iter[s] = Step(iter, s)
  <2> HIDE DEF Step, iter
  <2> QED
    BY <1>7
<1>10. iter[{}] = c /\ \A s \in SUBSET S : s # {} => iter[s] = MergeTitle(iter[s \ {Max(s)}], w, Max(s))
  <2> HIDE DEF iter
  <2> QED
    BY <1>9
<1>11. IntoLoop(iter, c, w, G)
  <2> HIDE DEF iter
  <2> QED
    BY <1>8, <1>10 DEF IntoLoop
<1> HIDE DEF iter
<1> QED
  BY <1>11

\* Merging a group into a title leaves a catalog.
LEMMA MergeIntoType ==
  ASSUME NEW T, Tables(T), NEW c \in T, NEW w \in Rows, NEW G \in SUBSET Rows
  PROVE  MergeInto(c, w, G) \in T
<1> DEFINE S == G \ {w}
           last == [s \in SUBSET S |-> Max(s)]
<1>0. S \in SUBSET Rows
  OBVIOUS
<1>1. IsFiniteSet(S) /\ \A s \in SUBSET S : s # {} => Max(s) \in s /\ last[s] \in s
  <2> HIDE DEF S
  <2> QED
    BY <1>0, RowsInOrder
<1>2. PICK f : IntoLoop(f, c, w, G)
  BY MergeIntoFold
<1> USE DEF IntoLoop
<1> DEFINE Q == {s \in SUBSET S : f[s] \in T}
<1>3. {} \in Q
  BY <1>2
<1>4. ASSUME NEW s \in SUBSET S, s # {}, s \ {last[s]} \in Q PROVE s \in Q
  <2> DEFINE e == Max(s)
             b == f[s \ {e}]
  <2>1. e \in s /\ last[s] = e /\ e \in Rows
    BY <1>0, <1>1, <1>4
  <2>2. f[s] = MergeTitle(b, w, e)
    BY <1>2, <1>4
  <2>3. b \in T
    BY <1>4, <2>1
  <2> HIDE DEF e, b
  <2>4. f[s] \in T
    BY <2>1, <2>2, <2>3, MergeTitleType
  <2> QED
    BY <2>4
<1>5. \A s \in SUBSET S : s # {} => last[s] \in s
  BY <1>1
<1>6. S \in Q
  <2> HIDE DEF Q, last, S
  <2> QED
    BY <1>1, <1>3, <1>4, <1>5, OrderedInduction
<1> QED
  BY <1>2, <1>6

\* The titles of a group go, but for the one they are merged into.
LEMMA MergeIntoJoins ==
  ASSUME NEW T, Tables(T), NEW c, Whole(T, c), NEW G \in SUBSET c.live, NEW w \in G,
         \A i \in G : Kind[i] = Kind[w] /\ (c.manual[i] # Unmatched => c.manual[w] # Unmatched),
         Kind[w] \in Topmost \cup {"episode"}
  PROVE  TitlesMerged(T, c, w, G \ {w}, MergeInto(c, w, G))
<1> DEFINE S == G \ {w}
           last == [s \in SUBSET S |-> Max(s)]
<1>0. /\ c \in T /\ w \in Rows /\ w \in c.live /\ G \in SUBSET Rows
      /\ S \subseteq c.live /\ S \in SUBSET Rows
  BY DEF Whole, Tables, Typed
<1>1. IsFiniteSet(S) /\ \A s \in SUBSET S : s # {} => Max(s) \in s /\ last[s] \in s
  <2> HIDE DEF S
  <2> QED
    BY <1>0, RowsInOrder
<1>2. PICK f : IntoLoop(f, c, w, G)
  BY <1>0, MergeIntoFold
<1> USE DEF IntoLoop
<1> DEFINE Q == {s \in SUBSET S : TitlesMerged(T, c, w, s, f[s])}
<1>3. {} \in Q
  <2>1. Joins(T, c, c) /\ Hangs(c, c) /\ Follows(c, c) /\ Parted(c, c)
    BY JoinsItself, PartedItself DEF Follows, Hangs
  <2> QED
    BY <1>2, <2>1 DEF TitlesMerged
<1>4. ASSUME NEW s \in SUBSET S, s # {}, s \ {last[s]} \in Q PROVE s \in Q
  <2> DEFINE e == Max(s)
             b == f[s \ {e}]
             d == f[s]
  <2>1. e \in s /\ last[s] = e /\ e \in c.live /\ Kind[e] = Kind[w] /\ e # w
        /\ (c.manual[e] # Unmatched => c.manual[w] # Unmatched)
    BY <1>0, <1>1, <1>4
  <2>2. d = MergeTitle(b, w, e)
    BY <1>2, <1>4
  <2>3. TitlesMerged(T, c, w, s \ {e}, b)
    BY <1>4, <2>1
  <2>0. w \notin s
    OBVIOUS
  <2> HIDE DEF e, b, d, last, Q, S
  <2>4. /\ Joins(T, c, b) /\ Hangs(c, b) /\ (Kind[w] \in Topmost => Follows(c, b) /\ Parted(c, b))
        /\ \A i \in c.live \ (s \ {e}) : Kind[i] \in Topmost \/ Kind[w] = "episode" => i \in b.live
        /\ \A i \in Rows : Kind[i] \in Topmost \/ Kind[w] = "episode" =>
              b.heir[i] = IF c.heir[i] \in s \ {e} THEN w ELSE c.heir[i]
    BY <2>3 DEF TitlesMerged
  <2>5. Whole(T, b) /\ w \in b.live /\ e \in b.live /\ b.manual[e] = c.manual[e] /\ b.manual[w] = c.manual[w]
    BY <1>0, <2>0, <2>1, <2>4 DEF Joins
  <2>6. TitlesMerged(T, b, w, {e}, d)
    BY <2>1, <2>2, <2>5, MergeTitleJoins
  <2>7. Joins(T, c, d) /\ Hangs(c, d)
    <3>1. Joins(T, b, d) /\ Hangs(b, d)
      BY <2>6 DEF TitlesMerged
    <3> QED
      BY <2>4, <3>1, JoinsTransitive, HangsTransitive
  <2>8. \A i \in c.live \ s : Kind[i] \in Topmost \/ Kind[w] = "episode" => i \in d.live
    BY <2>1, <2>4, <2>6 DEF TitlesMerged
  <2>9. \A i \in Rows : Kind[i] \in Topmost \/ Kind[w] = "episode" =>
           d.heir[i] = IF c.heir[i] \in s THEN w ELSE c.heir[i]
    <3>1. \A i \in Rows : Kind[i] \in Topmost \/ Kind[w] = "episode" =>
             d.heir[i] = IF b.heir[i] \in {e} THEN w ELSE b.heir[i]
      BY <2>6 DEF TitlesMerged
    <3> QED
      BY <2>1, <2>4, <3>1
  <2>11. Kind[w] \in Topmost => Follows(c, d) /\ Parted(c, d)
    <3>1. Joins(T, b, d) /\ (Kind[w] \in Topmost => Follows(b, d) /\ Parted(b, d))
      BY <2>6 DEF TitlesMerged
    <3> QED
      BY <2>4, <3>1, FollowsTransitive, PartedTransitive
  <2>10. TitlesMerged(T, c, w, s, f[s])
    BY <2>7, <2>8, <2>9, <2>11 DEF TitlesMerged, d
  <2> QED
    BY <2>10 DEF Q
<1>5. \A s \in SUBSET S : s # {} => last[s] \in s
  BY <1>1
<1>6. S \in Q
  <2> HIDE DEF Q, last, S
  <2> QED
    BY <1>1, <1>3, <1>4, <1>5, OrderedInduction
<1> QED
  BY <1>2, <1>6

\* A preference chooses among what there is.
LEMMA PreferIn ==
  ASSUME NEW S, NEW U, S # {}
  PROVE  Prefer(S, U) # {} /\ Prefer(S, U) \subseteq S /\ (S \cap U # {} => Prefer(S, U) \subseteq U)
BY DEF Prefer

\* The canonical row is one of the group, a matched one if there is one.
LEMMA CanonicalIn ==
  ASSUME NEW T, Tables(T), NEW c \in T, NEW G \in SUBSET Rows, G # {}
  PROVE  /\ Canonical(c, G) \in G
         /\ \A i \in G : c.manual[i] # Unmatched => c.manual[Canonical(c, G)] # Unmatched
<1> DEFINE matched == {i \in G : c.manual[i] # Unmatched}
           shown == {i \in G : LiveSources(c, i) \cap PlexSources # {}}
           had == {i \in G : \E r \in RefsOf(c, i) : Source[r] \in PlexSources}
           P == Prefer(G, matched)
           R == Prefer(P, shown)
           U == Prefer(R, had)
<1>1. Canonical(c, G) = Min(U)
  BY DEF Canonical
<1>2. P # {} /\ P \subseteq G /\ (G \cap matched # {} => P \subseteq matched)
  BY PreferIn
<1>3. R # {} /\ R \subseteq P
  <2> HIDE DEF P, shown
  <2> QED
    BY <1>2, PreferIn
<1>4. U # {} /\ U \subseteq R
  <2> HIDE DEF R, had
  <2> QED
    BY <1>3, PreferIn
<1> HIDE DEF P, R, U
<1>5. Min(U) \in U
  <2>1. U \in SUBSET Nat
    BY <1>2, <1>3, <1>4, RowsAssumption
  <2> QED
    BY <1>4, <2>1, MinIn
<1>6. Min(U) \in G /\ (G \cap matched # {} => Min(U) \in matched)
  BY <1>2, <1>3, <1>4, <1>5
<1> QED
  BY <1>1, <1>6

\* Taking a group leaves a catalog.
LEMMA MergeGroupType ==
  ASSUME NEW T, Tables(T), NEW c \in T, NEW G \in SUBSET Rows, NEW physical
  PROVE  MergeGroup(c, G, physical) \in T
<1> DEFINE here == G \cap c.live
<1>1. CASE Cardinality(here) < 2 \/ ~SafeSources(c, here, physical)
  BY <1>1 DEF MergeGroup
<1>2. CASE ~(Cardinality(here) < 2 \/ ~SafeSources(c, here, physical))
  <2>1. MergeGroup(c, G, physical) = MergeInto(c, Canonical(c, here), here)
    BY <1>2 DEF MergeGroup
  <2>2. here \in SUBSET Rows /\ here # {}
    BY <1>2, FS_EmptySet
  <2> HIDE DEF here
  <2>3. Canonical(c, here) \in Rows
    BY <2>2, CanonicalIn
  <2> QED
    BY <2>1, <2>2, <2>3, MergeIntoType
<1> QED
  BY <1>1, <1>2

\* Rows merged since b are linked by files: one whose files are known, if another's are,
\* shares one with a third or with the other.
Linked(b, d) ==
  \A i, j \in b.live :
     /\ Kind[i] = "movie" /\ i # j /\ d.heir[i] = d.heir[j]
     /\ KnownFiles(b, i) # {} /\ KnownFiles(b, j) # {}
     => \E k \in b.live \ {i} : d.heir[k] = d.heir[i] /\ KnownFiles(b, k) \cap KnownFiles(b, i) # {}

\* A row has the files of the rows whose heir it is.
LEMMA FilesFollow ==
  ASSUME NEW T, Tables(T), NEW b, NEW d, Whole(T, b), Joins(T, b, d), NEW w \in Rows
  PROVE  KnownFiles(d, w) = UNION {KnownFiles(b, i) : i \in {x \in b.live : d.heir[x] = w}}
<1>0. 0 \notin Rows
  BY RowsAssumption
<1>1. \A r \in Refs : /\ b.at[r] # 0 => b.at[r] \in b.live /\ d.at[r] = d.heir[b.at[r]]
                      /\ d.at[r] # 0 => b.at[r] # 0
  BY DEF Whole, Joins
<1>2. b.files = d.files /\ b.avail = d.avail
  BY DEF Joins
<1>5. \A i \in b.live : i # 0
  <2>1. b.live \subseteq Rows
    BY WholeTypes
  <2> QED
    BY <1>0, <2>1
<1>3. ASSUME NEW x, x \in KnownFiles(d, w)
      PROVE  x \in UNION {KnownFiles(b, i) : i \in {y \in b.live : d.heir[y] = w}}
  <2>1. PICK r \in Refs : r \in d.avail /\ d.at[r] = w /\ x \in d.files[r]
    BY <1>3 DEF KnownFiles, RefsOf
  <2>2. x \in KnownFiles(b, b.at[r])
    BY <1>2, <2>1 DEF KnownFiles, RefsOf
  <2>3. w # 0
    BY <1>0
  <2> QED
    BY <1>1, <2>1, <2>2, <2>3
<1>4. ASSUME NEW x, x \in UNION {KnownFiles(b, i) : i \in {y \in b.live : d.heir[y] = w}}
      PROVE  x \in KnownFiles(d, w)
  <2>1. PICK i \in b.live : d.heir[i] = w /\ x \in KnownFiles(b, i)
    BY <1>4
  <2>2. PICK r \in Refs : r \in b.avail /\ b.at[r] = i /\ x \in b.files[r]
    BY <2>1 DEF KnownFiles, RefsOf
  <2>3. d.at[r] = w
    BY <1>1, <1>5, <2>1, <2>2
  <2> QED
    BY <1>2, <2>2, <2>3 DEF KnownFiles, RefsOf
<1> QED
  BY <1>3, <1>4

\* A merge of rows whose files do not contradict each other keeps the links.
LEMMA LinkedKept ==
  ASSUME NEW T, Tables(T), NEW b, NEW d, NEW e, Whole(T, b), Joins(T, b, d), Linked(b, d), Whole(T, e),
         NEW G \in SUBSET d.live, NEW w,
         \A x, y \in G : Kind[x] = "movie" => ~Contradict(d, x, y),
         \A i \in Rows : Kind[i] \in Topmost => e.heir[i] = IF d.heir[i] \in G THEN w ELSE d.heir[i],
         w \in G
  PROVE  Linked(b, e)
<1> SUFFICES ASSUME NEW i \in b.live, NEW j \in b.live, Kind[i] = "movie", i # j, e.heir[i] = e.heir[j],
                    KnownFiles(b, i) # {}, KnownFiles(b, j) # {}
             PROVE  \E k \in b.live \ {i} :
                       e.heir[k] = e.heir[i] /\ KnownFiles(b, k) \cap KnownFiles(b, i) # {}
  BY DEF Linked
<1>1. /\ b.live \subseteq Rows /\ Whole(T, d)
      /\ \A k \in b.live : d.heir[k] \in Rows /\ d.heir[k] \in d.live /\ Kind[d.heir[k]] = Kind[k]
      /\ \A k \in Rows : Kind[d.heir[k]] = Kind[k]
  <2>1. Whole(T, d) /\ \A k \in b.live : d.heir[k] \in d.live
    BY DEF Joins
  <2>2. b.live \subseteq Rows
    BY WholeTypes
  <2>3. d.live \subseteq Rows
    BY <2>1, WholeTypes
  <2>4. \A k \in Rows : Kind[d.heir[k]] = Kind[k]
    BY <2>1 DEF Whole
  <2> QED
    BY <2>1, <2>2, <2>3, <2>4
<1>0. Kind[j] = "movie" /\ i \in Rows /\ j \in Rows
  <2>1. Kind[e.heir[i]] = Kind[i] /\ Kind[e.heir[j]] = Kind[j]
    BY <1>1 DEF Whole
  <2> QED
    BY <1>1, <2>1
<1>5. \A k \in b.live : Kind[d.heir[k]] = "movie" => e.heir[k] = IF d.heir[k] \in G THEN w ELSE d.heir[k]
  <2>1. \A k \in b.live : Kind[d.heir[k]] = "movie" => k \in Rows /\ Kind[k] \in Topmost
    BY <1>1 DEF Topmost
  <2> QED
    BY <2>1
<1>2. \A k \in b.live : d.heir[k] = d.heir[i] => e.heir[k] = e.heir[i]
  <2>1. Kind[d.heir[i]] = "movie"
    BY <1>0, <1>1
  <2> QED
    BY <1>5, <2>1
<1>3. CASE \E k \in b.live \ {i} : d.heir[k] = d.heir[i] /\ KnownFiles(b, k) # {}
  <2>1. PICK k \in b.live \ {i} : d.heir[k] = d.heir[i] /\ KnownFiles(b, k) \cap KnownFiles(b, i) # {}
    BY <1>3 DEF Linked
  <2> QED
    BY <1>2, <2>1
<1>4. CASE ~\E k \in b.live \ {i} : d.heir[k] = d.heir[i] /\ KnownFiles(b, k) # {}
  <2> DEFINE x == d.heir[i]
             y == d.heir[j]
  <2>1. x # y
    BY <1>4
  <2>2. Kind[x] = "movie" /\ x \in Rows /\ y \in Rows
    BY <1>1
  <2>3. x \in G /\ y \in G /\ Kind[y] = "movie"
    <3>1. Kind[y] = "movie"
      BY <1>0, <1>1
    <3>2. e.heir[i] = IF x \in G THEN w ELSE x
      BY <1>5, <2>2
    <3>3. e.heir[j] = IF y \in G THEN w ELSE y
      BY <1>5, <3>1
    <3> QED
      BY <2>1, <3>1, <3>2, <3>3
  <2>4. KnownFiles(d, x) = KnownFiles(b, i)
    <3>1. \A k \in {z \in b.live : d.heir[z] = x} : k = i \/ KnownFiles(b, k) = {}
      BY <1>4
    <3>2. KnownFiles(d, x) = UNION {KnownFiles(b, k) : k \in {z \in b.live : d.heir[z] = x}}
      BY <2>2, FilesFollow
    <3> QED
      BY <3>1, <3>2
  <2>5. KnownFiles(d, y) = UNION {KnownFiles(b, k) : k \in {z \in b.live : d.heir[z] = y}}
    BY <2>2, FilesFollow
  <2>6. KnownFiles(d, y) # {}
    BY <2>5
  <2>7. KnownFiles(d, x) \cap KnownFiles(d, y) # {}
    BY <2>2, <2>3, <2>4, <2>6 DEF Contradict
  <2>8. PICK k \in b.live : d.heir[k] = y /\ KnownFiles(b, k) \cap KnownFiles(b, i) # {}
    BY <2>4, <2>5, <2>7
  <2>9. e.heir[k] = e.heir[i]
    <3>1. e.heir[k] = w
      BY <1>5, <2>3, <2>8
    <3>2. e.heir[i] = w
      BY <1>5, <2>2, <2>3
    <3> QED
      BY <3>1, <3>2
  <2> QED
    BY <2>1, <2>8, <2>9
<1> QED
  BY <1>3, <1>4

\* A group of rows of one kind that may be merged.
OfOneKind(G) == G \in SUBSET Rows /\ \A i, j \in G : Kind[i] \in Topmost \cup {"episode"} /\ Kind[i] = Kind[j]

\* What a repair does: it merges, movies only as their files allow, and nothing else.
Mended(T, b, d) == Joins(T, b, d) /\ Hangs(b, d) /\ Linked(b, d) /\ (d.live = b.live => d = b)

\* To repair nothing is a repair.
LEMMA MendedItself ==
  ASSUME NEW T, Tables(T), NEW b, Whole(T, b)
  PROVE  Mended(T, b, b)
<1>1. \A i \in b.live : b.heir[i] = i
  BY DEF Whole, Rooted
<1>2. Linked(b, b)
  BY <1>1 DEF Linked
<1>3. Joins(T, b, b) /\ Hangs(b, b)
  BY JoinsItself DEF Follows, Hangs
<1> QED
  BY <1>2, <1>3 DEF Mended

\* What is left of a repair is whole.
LEMMA MendedWhole ==
  ASSUME NEW T, NEW b, NEW d, Mended(T, b, d)
  PROVE  Whole(T, d) /\ d \in T
BY DEF Mended, Joins, Whole

\* A set that has two elements or more has another than a given one.
LEMMA AnotherOne ==
  ASSUME NEW G, ~(Cardinality(G) < 2), NEW w \in G
  PROVE  \E i \in G : i # w
<1>1. SUFFICES ASSUME G = {w} PROVE FALSE
  OBVIOUS
<1>2. Cardinality(G) = 1
  BY <1>1, FS_Singleton
<1> QED
  BY <1>2

\* A repair goes on with a group of titles that do not contradict each other.
LEMMA MendedByTitles ==
  ASSUME NEW T, Tables(T), NEW b, NEW c, NEW d, Whole(T, b), Mended(T, b, c), NEW G \in SUBSET c.live, NEW w \in G,
         NEW x \in G, x # w, OfOneKind(G),
         TitlesMerged(T, c, w, G \ {w}, d),
         \A i, j \in G : Kind[i] = "movie" => ~Contradict(c, i, j)
  PROVE  Mended(T, b, d)
<1>0. Joins(T, b, c) /\ Hangs(b, c) /\ Joins(T, c, d) /\ Hangs(c, d) /\ Whole(T, c) /\ Whole(T, d)
  BY DEF Mended, TitlesMerged, Joins
<1>1. Joins(T, b, d) /\ Hangs(b, d)
  BY <1>0, JoinsTransitive, HangsTransitive
<1>2. \A i \in Rows : Kind[i] \in Topmost \/ Kind[w] = "episode" => d.heir[i] = IF c.heir[i] \in G THEN w ELSE c.heir[i]
  BY DEF TitlesMerged
<1>3. Linked(b, d)
  BY <1>0, <1>2, LinkedKept DEF Mended
<1>5. c.live \subseteq Rows /\ \A i \in c.live : c.heir[i] = i
  BY <1>0, WholeTypes
<1>6. \A i \in d.live : d.heir[i] = i
  BY <1>0, WholeTypes
<1>4. d.live # b.live
  <2>1. SUFFICES ASSUME x \in d.live PROVE FALSE
    BY <1>0 DEF Joins
  <2>2. c.heir[x] = x /\ x \in Rows
    BY <1>5
  <2>3. d.heir[x] = w
    BY <1>2, <2>2 DEF OfOneKind
  <2>4. d.heir[x] = x
    BY <1>6, <2>1
  <2> QED
    BY <2>3, <2>4
<1> QED
  BY <1>1, <1>3, <1>4 DEF Mended

\* The movies of a group that is safe do not contradict each other.
LEMMA SafeFiles ==
  ASSUME NEW c, NEW G, \A i, j \in G : Kind[i] = Kind[j], NEW physical, SafeSources(c, G, physical)
  PROVE  \A x, y \in G : Kind[x] = "movie" => ~Contradict(c, x, y)
BY DEF SafeSources

\* Merging a safe group of rows of one kind is a repair.
LEMMA MergeIntoMends ==
  ASSUME NEW T, Tables(T), NEW b, Whole(T, b), NEW c, Mended(T, b, c), NEW G \in SUBSET c.live, OfOneKind(G),
         NEW physical, SafeSources(c, G, physical), ~(Cardinality(G) < 2),
         NEW w \in G, \A i \in G : c.manual[i] # Unmatched => c.manual[w] # Unmatched
  PROVE  Mended(T, b, MergeInto(c, w, G))
<1>1. Whole(T, c)
  BY MendedWhole
<1>2. Kind[w] \in Topmost \cup {"episode"} /\ \A i \in G : Kind[i] = Kind[w]
  BY DEF OfOneKind
<1>3. TitlesMerged(T, c, w, G \ {w}, MergeInto(c, w, G))
  BY <1>1, <1>2, MergeIntoJoins
<1>4. \A x, y \in G : Kind[x] = "movie" => ~Contradict(c, x, y)
  BY <1>2, SafeFiles
<1>5. PICK x \in G : x # w
  BY AnotherOne
<1> QED
  BY <1>3, <1>4, <1>5, MendedByTitles

\* Taking a group is a repair, whether or not the group is safe.
LEMMA MergeGroupMends ==
  ASSUME NEW T, Tables(T), NEW b, Whole(T, b), NEW c, Mended(T, b, c), NEW G, OfOneKind(G), NEW physical
  PROVE  Mended(T, b, MergeGroup(c, G, physical))
<1> DEFINE here == G \cap c.live
<1>0. c \in T
  BY MendedWhole
<1>1. CASE Cardinality(here) < 2 \/ ~SafeSources(c, here, physical)
  <2>1. MergeGroup(c, G, physical) = c
    BY <1>1 DEF MergeGroup
  <2> QED
    BY <2>1
<1>2. CASE ~(Cardinality(here) < 2 \/ ~SafeSources(c, here, physical))
  <2>1. MergeGroup(c, G, physical) = MergeInto(c, Canonical(c, here), here)
    BY <1>2 DEF MergeGroup
  <2>2. here \in SUBSET Rows /\ here \in SUBSET c.live /\ here # {} /\ OfOneKind(here)
    BY <1>2, FS_EmptySet DEF OfOneKind
  <2>3. SafeSources(c, here, physical) /\ ~(Cardinality(here) < 2)
    BY <1>2
  <2> HIDE DEF here
  <2> DEFINE w == Canonical(c, here)
  <2>4. w \in here /\ \A i \in here : c.manual[i] # Unmatched => c.manual[w] # Unmatched
    BY <1>0, <2>2, CanonicalIn
  <2> HIDE DEF w
  <2>5. Mended(T, b, MergeInto(c, w, here))
    BY <2>2, <2>3, <2>4, MergeIntoMends
  <2> QED
    BY <2>1, <2>5 DEF w
<1> QED
  BY <1>1, <1>2

\* Every set of groups has a last one to take.
LEMMA GroupsInOrder ==
  ASSUME NEW S \in SUBSET SUBSET Rows
  PROVE  /\ IsFiniteSet(S) /\ \A s \in SUBSET S : s # {} => LastGroup(s) \in s
         /\ \A s \in SUBSET S : s # {} => [t \in SUBSET S |-> LastGroup(t)][s] \in s
<1>1. IsFiniteSet(SUBSET Rows) /\ SUBSET Rows \in SUBSET SUBSET Nat
  BY RowsAssumption, FS_SUBSET
<1>2. \A s \in SUBSET S : IsFiniteSet(s) /\ s \in SUBSET SUBSET Nat
  BY <1>1, FS_Subset
<1>3. \A s \in SUBSET S : s # {} => LastGroup(s) \in s
  BY <1>2, LastGroupIn
<1> QED
  BY <1>2, <1>3

GroupsLoop(f, c, groups, physical) ==
  /\ f[{}] = c
  /\ \A s \in SUBSET groups : s # {} => f[s] = MergeGroup(f[s \ {LastGroup(s)}], LastGroup(s), physical)
  /\ MergeGroups(c, groups, physical) = f[groups]

\* The loop over the groups computes such a function.
LEMMA MergeGroupsFold ==
  ASSUME NEW T, Tables(T), NEW c \in T, NEW groups \in SUBSET SUBSET Rows, NEW physical
  PROVE  \E f : GroupsLoop(f, c, groups, physical)
<1> DEFINE S == groups
           last == [s \in SUBSET S |-> LastGroup(s)]
           F == [x \in T \X S |-> MergeGroup(x[1], x[2], physical)]
           Step(f, s) == IF s = {} THEN c ELSE MergeGroup(f[s \ {LastGroup(s)}], LastGroup(s), physical)
           Is(f) == f = [s \in SUBSET S |-> Step(f, s)]
           iter == CHOOSE f : Is(f)
<1>1. S \in SUBSET SUBSET Rows /\ IsFiniteSet(S) /\ \A s \in SUBSET S : s # {} => LastGroup(s) \in s
  <2>1. S \in SUBSET SUBSET Rows
    OBVIOUS
  <2> HIDE DEF S
  <2> QED
    BY <2>1, GroupsInOrder
<1>2. \A s \in SUBSET S : s # {} => last[s] \in s
  BY <1>1
<1>3. F \in [T \X S -> T]
  BY <1>1, MergeGroupType
<1>4. PICK f \in [SUBSET S -> T] : Unfolds(f, S, last, c, F)
  <2> HIDE DEF F, last
  <2> QED
    BY <1>1, <1>2, <1>3, FoldExists
<1>5. \A s \in SUBSET S : f[s] = Step(f, s)
  BY <1>2, <1>4 DEF Unfolds
<1>6. Is(f)
  BY <1>5
<1>7. Is(iter)
  <2> HIDE DEF Is
  <2> QED
    BY <1>6, Zenon
<1>8. MergeGroups(c, groups, physical) = iter[S]
  BY DEF MergeGroups, InOrder, MapThenFoldSet
<1>9. \A s \in SUBSET S : iter[s] = Step(iter, s)
  <2> HIDE DEF Step, iter
  <2> QED
    BY <1>7
<1>10. /\ iter[{}] = c
       /\ \A s \in SUBSET S : s # {} => iter[s] = MergeGroup(iter[s \ {LastGroup(s)}], LastGroup(s), physical)
  <2> HIDE DEF iter
  <2> QED
    BY <1>9
<1>11. GroupsLoop(iter, c, groups, physical)
  <2> HIDE DEF iter
  <2> QED
    BY <1>8, <1>10 DEF GroupsLoop
<1> HIDE DEF iter
<1> QED
  BY <1>11

\* So taking one group after the other is a repair.
LEMMA MergeGroupsMends ==
  ASSUME NEW T, Tables(T), NEW a, Whole(T, a), NEW c, Mended(T, a, c), NEW groups, \A G \in groups : OfOneKind(G),
         NEW physical
  PROVE  Mended(T, a, MergeGroups(c, groups, physical))
<1> DEFINE last == [s \in SUBSET groups |-> LastGroup(s)]
<1>0. c \in T /\ groups \in SUBSET SUBSET Rows
  BY MendedWhole DEF OfOneKind
<1>1. IsFiniteSet(groups) /\ \A s \in SUBSET groups : s # {} => LastGroup(s) \in s /\ last[s] \in s
  BY <1>0, GroupsInOrder
<1>2. PICK f : GroupsLoop(f, c, groups, physical)
  BY <1>0, MergeGroupsFold
<1> USE DEF GroupsLoop
<1> DEFINE Q == {s \in SUBSET groups : Mended(T, a, f[s])}
<1>3. {} \in Q
  BY <1>2
<1>4. ASSUME NEW s \in SUBSET groups, s # {}, s \ {last[s]} \in Q PROVE s \in Q
  <2> DEFINE G == LastGroup(s)
             b == f[s \ {G}]
             d == f[s]
  <2>1. G \in groups /\ last[s] = G /\ OfOneKind(G)
    BY <1>1, <1>4
  <2>2. d = MergeGroup(b, G, physical)
    BY <1>2, <1>4
  <2>3. Mended(T, a, b)
    BY <1>4, <2>1
  <2> HIDE DEF G, b, d, last, Q
  <2>4. Mended(T, a, d)
    BY <2>1, <2>2, <2>3, MergeGroupMends
  <2>5. Mended(T, a, f[s])
    BY <2>4 DEF d
  <2> QED
    BY <2>5 DEF Q
<1>5. \A s \in SUBSET groups : s # {} => last[s] \in s
  BY <1>1
<1>6. groups \in Q
  <2> HIDE DEF Q, last
  <2> QED
    BY <1>1, <1>3, <1>4, <1>5, OrderedInduction
<1> QED
  BY <1>2, <1>6

-------------------------------------------------------------------------------
(* The repairs.                                                               *)

\* The title of an entry that has a row is a live movie or show.
LEMMA TitleAbove ==
  ASSUME NEW T, Tables(T), NEW c, Whole(T, c), NEW r \in Refs, c.at[r] # 0
  PROVE  /\ Kind[c.at[r]] = "movie" => TitleOf(c, c.at[r]) = c.at[r]
         /\ Kind[c.at[r]] = "episode" => TitleOf(c, c.at[r]) \in c.live /\ Kind[TitleOf(c, c.at[r])] = "show"
         /\ c.at[r] \in c.live /\ c.at[r] \in Rows /\ c.live \subseteq Rows
<1>1. c.live \subseteq Rows /\ 0 \notin Rows
  BY WholeTypes
<1>2. c.at[r] \in c.live /\ \A i \in c.live : Rooted(c, i) /\ i # 0
  BY <1>1 DEF Whole
<1> QED
  BY <1>1, <1>2 DEF Rooted, TitleOf

\* _physical_groups finds groups of titles of one kind.
LEMMA PhysicalGroupsKind ==
  ASSUME NEW T, Tables(T), NEW c, Whole(T, c), NEW files, NEW G \in PhysicalGroups(c, files)
  PROVE  OfOneKind(G) /\ \A i \in G : Kind[i] \in Topmost
<1>3. Playable(c) \subseteq Refs /\ \A r \in Playable(c) : Kind[c.at[r]] \in {"movie", "episode"} /\ c.at[r] # 0
  <2>1. c.avail \subseteq Refs
    BY WholeTypes
  <2>2. \A r \in c.avail : c.at[r] # 0
    BY DEF Whole
  <2> QED
    BY <2>1, <2>2 DEF Playable
<1> DEFINE having(f, k, place) == {r \in Playable(c) : /\ f \in c.files[r]
                                                       /\ Kind[c.at[r]] = k
                                                       /\ Place(c, c.at[r]) = place}
           groups == {having(f, Kind[c.at[r]], Place(c, c.at[r])) : f \in files, r \in Playable(c)}
           shared == {S \in groups : Cardinality({Source[r] : r \in S}) > 1}
           Tops(S) == {TitleOf(c, c.at[r]) : r \in S} \ {0}
<1>1. PICK S \in groups : G = Tops(S)
  <2>1. PhysicalGroups(c, files) = {H \in {Tops(S) : S \in shared} : Cardinality(H) > 1}
    BY DEF PhysicalGroups
  <2>2. shared \subseteq groups
    OBVIOUS
  <2> HIDE DEF groups, shared, Tops
  <2> QED
    BY <2>1, <2>2
<1>2. PICK f \in files, q \in Playable(c) : S = having(f, Kind[c.at[q]], Place(c, c.at[q]))
  BY <1>1
<1>4. \A r \in S : /\ r \in Refs /\ Kind[c.at[r]] = Kind[c.at[q]] /\ Kind[c.at[r]] \in {"movie", "episode"}
                   /\ c.at[r] # 0
  BY <1>2, <1>3
<1> HIDE DEF having, groups
<1>5. ASSUME NEW i \in G
      PROVE  /\ i \in Rows
             /\ Kind[c.at[q]] = "movie" => Kind[i] = "movie"
             /\ Kind[c.at[q]] = "episode" => Kind[i] = "show"
  <2>1. PICK r \in S : i = TitleOf(c, c.at[r])
    BY <1>1
  <2> QED
    BY <1>4, <2>1, TitleAbove
<1>6. Kind[c.at[q]] \in {"movie", "episode"}
  BY <1>2, <1>3
<1> QED
  BY <1>5, <1>6 DEF OfOneKind, Topmost

\* reconcile_physical_item is a repair.
LEMMA RepairedByFileMends ==
  ASSUME NEW T, Tables(T), NEW a, Whole(T, a), NEW c, Mended(T, a, c), NEW i
  PROVE  Mended(T, a, RepairedByFile(c, i))
<1> DEFINE groups == PhysicalGroups(c, UNION {c.files[r] : r \in RefsOf(c, i)})
<1>0. Whole(T, c)
  BY MendedWhole
<1>1. \A G \in groups : OfOneKind(G)
  BY <1>0, PhysicalGroupsKind
<1>2. RepairedByFile(c, i) = MergeGroups(c, groups, TRUE)
  BY DEF RepairedByFile
<1> HIDE DEF groups
<1>3. Mended(T, a, MergeGroups(c, groups, TRUE))
  BY <1>1, MergeGroupsMends
<1> QED
  BY <1>2, <1>3

\* reconcile_matching_items is a repair, also when the row to keep is given by a match.
LEMMA RepairedByIdMends ==
  ASSUME NEW T, Tables(T), NEW a, Whole(T, a), NEW c, Mended(T, a, c), NEW k \in Topmost \cup {"episode"},
         NEW ids, NEW chosen, chosen \in c.live => c.manual[chosen] # Unmatched
  PROVE  Mended(T, a, RepairedById(c, k, ids, chosen))
<1> DEFINE G == {i \in c.live : Kind[i] = k /\ StableIds(c, i) \cap ids # {}}
           d == RepairedById(c, k, ids, chosen)
           w == IF chosen \in G THEN chosen ELSE Canonical(c, G)
<1>0. Whole(T, c) /\ c \in T
  BY MendedWhole
<1>3. c.live \subseteq Rows
  BY <1>0, WholeTypes
<1>1. CASE Cardinality(G) < 2 \/ ~SafeSources(c, G, FALSE)
  <2>1. d = c
    BY <1>1 DEF RepairedById
  <2> QED
    BY <2>1
<1>2. CASE ~(Cardinality(G) < 2 \/ ~SafeSources(c, G, FALSE))
  <2>1. d = MergeInto(c, w, G)
    BY <1>2 DEF RepairedById
  <2>2. G \in SUBSET c.live /\ G \in SUBSET Rows /\ G # {} /\ \A i \in G : Kind[i] = k
    <3>1. G \subseteq c.live /\ \A i \in G : Kind[i] = k
      OBVIOUS
    <3> HIDE DEF G
    <3>2. ~(Cardinality(G) < 2)
      BY <1>2
    <3>3. G # {}
      BY <3>2, FS_EmptySet
    <3> QED
      BY <1>3, <3>1, <3>3
  <2>6. SafeSources(c, G, FALSE) /\ ~(Cardinality(G) < 2)
    BY <1>2
  <2> HIDE DEF G
  <2>3. w \in G /\ \A i \in G : c.manual[i] # Unmatched => c.manual[w] # Unmatched
    BY <1>0, <2>2, CanonicalIn
  <2> HIDE DEF w, d
  <2>4. OfOneKind(G)
    BY <2>2 DEF OfOneKind
  <2>5. Mended(T, a, d)
    BY <2>1, <2>2, <2>3, <2>4, <2>6, MergeIntoMends
  <2> QED
    BY <2>5 DEF d
<1> QED
  BY <1>1, <1>2

-------------------------------------------------------------------------------
(* What a server shows apart.                                                 *)

\* A server shows the show of an episode it shows.
ShowOver(c, r) == c.parent[c.parent[c.at[r]]]
Listed(c) == \A r \in c.avail : Kind[c.at[r]] = "episode" => Source[r] \in LiveSources(c, ShowOver(c, r))

\* Rows since merged into one are shown by different servers, but for seasons, and for shows
\* that are held together.
Divided(b, d) ==
  \A i, j \in b.live : Kind[i] # "season" /\ i # j /\ d.heir[i] = d.heir[j] =>
     \A s \in LiveSources(b, i) \cap LiveSources(b, j) : Kind[i] = "show" /\ HeldTogether(d, d.heir[i], s)

\* What a repair of titles does: it merges, children follow their parents, seasons keep their
\* number, and what a server shows apart stays apart.
Tidy(T, b, d) ==
  /\ Joins(T, b, d) /\ Follows(b, d)
  /\ \A i \in b.live : Kind[i] = "season" => Number[d.heir[i]] = Number[i]
  /\ Listed(b) => Divided(b, d)

\* The show of an episode follows it.
LEMMA ShowFollows ==
  ASSUME NEW T, Tables(T), NEW c, NEW d, Whole(T, c), Joins(T, c, d), Follows(c, d),
         NEW r \in c.avail, Kind[c.at[r]] = "episode" \/ Kind[d.at[r]] = "episode"
  PROVE  /\ Kind[c.at[r]] = "episode" /\ Kind[d.at[r]] = "episode"
         /\ c.parent[c.at[r]] # 0 /\ d.parent[d.at[r]] # 0
         /\ ShowOver(c, r) \in c.live /\ Kind[ShowOver(c, r)] = "show"
         /\ ShowOver(d, r) = d.heir[ShowOver(c, r)]
<1> DEFINE e == c.at[r]
           p == c.parent[e]
           q == c.parent[p]
<1>0. c.live \subseteq Rows /\ d.live \subseteq Rows /\ 0 \notin Rows /\ r \in Refs
  <2>1. Whole(T, d)
    BY DEF Joins
  <2>2. d.live \subseteq Rows
    BY <2>1, WholeTypes
  <2> QED
    BY <2>2, WholeTypes
<1>1. e \in c.live /\ d.at[r] = d.heir[e] /\ Kind[d.heir[e]] = Kind[e]
  BY <1>0 DEF Joins, Whole
<1>2. Kind[e] = "episode"
  BY <1>1
<1>3. p \in c.live /\ Kind[p] = "season"
  BY <1>1, <1>2 DEF Whole, Rooted
<1>4. q \in c.live /\ Kind[q] = "show"
  BY <1>3 DEF Whole, Rooted
<1> HIDE DEF e, p, q
<1>5. d.parent[d.heir[e]] = d.heir[p] /\ d.parent[d.heir[p]] = d.heir[q] /\ d.heir[p] \in d.live
  <2>1. c.parent[e] = p /\ c.parent[p] = q
    BY DEF p, q
  <2> QED
    BY <1>0, <1>1, <1>3, <1>4, <2>1 DEF Follows, Joins
<1> QED
  BY <1>0, <1>1, <1>2, <1>3, <1>4, <1>5 DEF ShowOver, e, p, q

\* So the servers still show the shows of their episodes.
LEMMA ListedKept ==
  ASSUME NEW T, Tables(T), NEW c, NEW d, Whole(T, c), Joins(T, c, d), Follows(c, d), Listed(c)
  PROVE  Listed(d)
<1>1. SUFFICES ASSUME NEW r \in d.avail, Kind[d.at[r]] = "episode"
               PROVE  Source[r] \in LiveSources(d, ShowOver(d, r))
  BY DEF Listed
<1>2. r \in c.avail
  BY DEF Joins
<1>3. Kind[c.at[r]] = "episode" /\ ShowOver(c, r) \in c.live /\ ShowOver(d, r) = d.heir[ShowOver(c, r)]
  BY <1>1, <1>2, ShowFollows
<1>4. Source[r] \in LiveSources(c, ShowOver(c, r))
  BY <1>2, <1>3 DEF Listed
<1> QED
  BY <1>3, <1>4, SourcesFollow

\* The episodes of a show are those of the rows whose heir it is.
LEMMA EpisodesFollow ==
  ASSUME NEW T, Tables(T), NEW c, NEW d, Whole(T, c), Joins(T, c, d), Follows(c, d), NEW w, NEW s
  PROVE  EpisodeRefs(d, w, s) = UNION {EpisodeRefs(c, i, s) : i \in {x \in c.live : d.heir[x] = w}}
<1>0. d.avail = c.avail
  BY DEF Joins
<1>1. ASSUME NEW r \in EpisodeRefs(d, w, s)
      PROVE  r \in UNION {EpisodeRefs(c, i, s) : i \in {x \in c.live : d.heir[x] = w}}
  <2>1. r \in c.avail /\ Source[r] = s /\ Kind[d.at[r]] = "episode" /\ ShowOver(d, r) = w
    BY <1>0 DEF EpisodeRefs, ShowOver
  <2>2. /\ Kind[c.at[r]] = "episode" /\ c.parent[c.at[r]] # 0
        /\ ShowOver(c, r) \in c.live /\ ShowOver(d, r) = d.heir[ShowOver(c, r)]
    BY <2>1, ShowFollows
  <2>3. r \in EpisodeRefs(c, ShowOver(c, r), s)
    BY <2>1, <2>2 DEF EpisodeRefs, ShowOver
  <2> QED
    BY <2>1, <2>2, <2>3
<1>2. ASSUME NEW i \in c.live, d.heir[i] = w, NEW r \in EpisodeRefs(c, i, s)
      PROVE  r \in EpisodeRefs(d, w, s)
  <2>1. r \in c.avail /\ Source[r] = s /\ Kind[c.at[r]] = "episode" /\ ShowOver(c, r) = i
    BY DEF EpisodeRefs, ShowOver
  <2>2. Kind[d.at[r]] = "episode" /\ d.parent[d.at[r]] # 0 /\ ShowOver(d, r) = d.heir[ShowOver(c, r)]
    BY <2>1, ShowFollows
  <2> QED
    BY <1>0, <1>2, <2>1, <2>2 DEF EpisodeRefs, ShowOver
<1> QED
  BY <1>1, <1>2

\* And so are their files.
LEMMA EpisodeFilesFollow ==
  ASSUME NEW T, Tables(T), NEW c, NEW d, Whole(T, c), Joins(T, c, d), Follows(c, d), NEW w, NEW s
  PROVE  EpisodeFiles(d, w, s) = UNION {EpisodeFiles(c, i, s) : i \in {x \in c.live : d.heir[x] = w}}
<1>1. EpisodeRefs(d, w, s) = UNION {EpisodeRefs(c, i, s) : i \in {x \in c.live : d.heir[x] = w}}
  BY EpisodesFollow
<1>2. d.files = c.files
  BY DEF Joins
<1> QED
  BY <1>1, <1>2 DEF EpisodeFiles

\* Shows whose files another server has under one show are held together once merged.
LEMMA AnchoredHeld ==
  ASSUME NEW T, Tables(T), NEW c, NEW d, Whole(T, c), Joins(T, c, d), Follows(c, d), NEW s, NEW w,
         NEW G, G = {x \in c.live : d.heir[x] = w}, Anchored(c, G, s)
  PROVE  HeldTogether(d, w, s)
<1>1. PICK t \in Sources \ {s}, show \in G :
         UNION {EpisodeFiles(c, i, s) : i \in G} \subseteq EpisodeFiles(c, show, t)
  BY DEF Anchored
<1>2. \A i \in G : Mapped(c, i, s)
  BY DEF Anchored
<1>3. EpisodeRefs(d, w, s) = UNION {EpisodeRefs(c, i, s) : i \in G} /\ d.files = c.files
  BY EpisodesFollow DEF Joins
<1>4. Mapped(d, w, s)
  BY <1>2, <1>3 DEF Mapped
<1>5. EpisodeFiles(d, w, s) = UNION {EpisodeFiles(c, i, s) : i \in G}
  BY EpisodeFilesFollow
<1>6. EpisodeFiles(d, w, t) = UNION {EpisodeFiles(c, i, t) : i \in G}
  BY EpisodeFilesFollow
<1>7. EpisodeFiles(d, w, s) \subseteq EpisodeFiles(d, w, t)
  BY <1>1, <1>5, <1>6
<1> QED
  BY <1>1, <1>4, <1>7 DEF HeldTogether

\* A show that is held together stays so when it is merged with shows the server does not show.
LEMMA HeldKept ==
  ASSUME NEW T, Tables(T), NEW c, NEW d, Whole(T, c), Joins(T, c, d), Follows(c, d), NEW s, NEW w,
         NEW u \in c.live, d.heir[u] = w, HeldTogether(c, u, s),
         \A i \in c.live \ {u} : d.heir[i] = w => EpisodeRefs(c, i, s) = {}
  PROVE  HeldTogether(d, w, s)
<1>1. PICK t \in Sources \ {s} : EpisodeFiles(c, u, s) \subseteq EpisodeFiles(c, u, t)
  BY DEF HeldTogether
<1>2. EpisodeRefs(d, w, s) = EpisodeRefs(c, u, s) /\ d.files = c.files
  <2>1. EpisodeRefs(d, w, s) = UNION {EpisodeRefs(c, i, s) : i \in {x \in c.live : d.heir[x] = w}}
    BY EpisodesFollow
  <2> QED
    BY <2>1 DEF Joins
<1>3. Mapped(d, w, s) /\ EpisodeFiles(d, w, s) = EpisodeFiles(c, u, s)
  BY <1>2 DEF Mapped, EpisodeFiles, HeldTogether
<1>4. EpisodeFiles(d, w, t) = UNION {EpisodeFiles(c, i, t) : i \in {x \in c.live : d.heir[x] = w}}
  BY EpisodeFilesFollow
<1>5. EpisodeFiles(d, w, s) \subseteq EpisodeFiles(d, w, t)
  BY <1>1, <1>3, <1>4
<1> QED
  BY <1>1, <1>3, <1>5 DEF HeldTogether

\* To repair nothing is tidy.
LEMMA TidyItself ==
  ASSUME NEW T, Tables(T), NEW b, Whole(T, b)
  PROVE  Tidy(T, b, b)
<1>1. \A i \in b.live : b.heir[i] = i
  BY WholeTypes
<1>2. Joins(T, b, b) /\ Follows(b, b)
  BY JoinsItself
<1> QED
  BY <1>1, <1>2 DEF Tidy, Divided

\* A group of titles of one kind.
OfTitles(G) == G \in SUBSET Rows /\ \A i, j \in G : Kind[i] \in Topmost /\ Kind[i] = Kind[j]

\* Merging the titles of a safe group keeps apart what a server shows apart.
LEMMA DividedByTitles ==
  ASSUME NEW T, Tables(T), NEW b, NEW c, NEW d, Whole(T, b), Joins(T, b, c), Follows(b, c), Listed(b),
         Divided(b, c), NEW G \in SUBSET c.live, NEW w \in G, OfTitles(G), NEW physical,
         SafeSources(c, G, physical), TitlesMerged(T, c, w, G \ {w}, d)
  PROVE  Divided(b, d)
<1>0. /\ Whole(T, c) /\ Listed(c) /\ Joins(T, c, d) /\ Follows(c, d) /\ Parted(c, d) /\ Kind[w] \in Topmost
      /\ \A x \in Rows : Kind[x] \in Topmost => d.heir[x] = IF c.heir[x] \in G THEN w ELSE c.heir[x]
  <2>1. Whole(T, c) /\ Kind[w] \in Topmost
    BY DEF Joins, OfTitles
  <2>2. Listed(c)
    BY ListedKept
  <2> QED
    BY <2>1, <2>2 DEF TitlesMerged
<1>1. SUFFICES ASSUME NEW i \in b.live, NEW j \in b.live, Kind[i] # "season", i # j, d.heir[i] = d.heir[j],
                      NEW s \in LiveSources(b, i) \cap LiveSources(b, j)
               PROVE  Kind[i] = "show" /\ HeldTogether(d, d.heir[i], s)
  BY DEF Divided
<1> DEFINE u == c.heir[i]
           v == c.heir[j]
<1>2. /\ b.live \subseteq Rows /\ c.live \subseteq Rows /\ \A x \in c.live : c.heir[x] = x
      /\ Kind \in [Rows -> Levels] /\ c \in T
  <2>1. b.live \subseteq Rows
    BY WholeTypes
  <2>2. c.live \subseteq Rows /\ (\A x \in c.live : c.heir[x] = x) /\ c \in T
    BY <1>0, WholeTypes
  <2> QED
    BY <2>1, <2>2, RowsAssumption
<1>3. /\ u \in c.live /\ v \in c.live /\ u \in Rows /\ v \in Rows /\ Kind[u] = Kind[i] /\ Kind[v] = Kind[j]
      /\ d.heir[i] = d.heir[u] /\ d.heir[j] = d.heir[v] /\ s \in LiveSources(c, u) \cap LiveSources(c, v)
  <2>1. LiveSources(b, i) \subseteq LiveSources(c, u)
    BY SourcesFollow
  <2>2. LiveSources(b, j) \subseteq LiveSources(c, v)
    BY SourcesFollow
  <2> QED
    BY <1>0, <1>2, <2>1, <2>2 DEF Joins, Whole
<1>4. Kind[u] = Kind[v]
  <2>1. Kind[d.heir[u]] = Kind[u] /\ Kind[d.heir[v]] = Kind[v]
    <3>1. \A x \in Rows : Kind[d.heir[x]] = Kind[x]
      BY <1>0 DEF Joins, Whole
    <3> HIDE DEF u, v
    <3> QED
      BY <1>3, <3>1
  <2> QED
    BY <1>1, <1>3, <2>1
<1>5. \A x \in c.live : Kind[x] \in Topmost => d.heir[x] = IF x \in G THEN w ELSE x
  BY <1>0, <1>2
<1>6. ASSUME NEW x \in G, NEW y \in G, x # y, s \in LiveSources(c, x) \cap LiveSources(c, y)
      PROVE  Kind[x] = "show" /\ HeldTogether(d, w, s)
  <2>1. (\A z \in G : Kind[z] = "show") /\ Anchored(c, G, s)
    BY <1>2, <1>6, SafeApart DEF OfTitles
  <2>2. G = {z \in c.live : d.heir[z] = w}
    <3>1. ASSUME NEW z \in c.live, d.heir[z] = w PROVE z \in G
      <4>1. Kind[z] = Kind[w]
        BY <1>0, <1>2, <3>1 DEF Joins, Whole
      <4> QED
        BY <1>0, <1>5, <3>1, <4>1
    <3> QED
      BY <1>5, <2>1, <3>1 DEF Topmost
  <2> QED
    BY <1>0, <2>1, <2>2, AnchoredHeld
<1> HIDE DEF u, v
<1>7. CASE u = v
  <2>1. Kind[u] = "show" /\ HeldTogether(c, u, s)
    BY <1>1, <1>3, <1>7 DEF Divided, u, v
  <2>2. CASE \E x \in c.live \ {u} : d.heir[x] = d.heir[u] /\ EpisodeRefs(c, x, s) # {}
    <3>1. PICK x \in c.live \ {u} : d.heir[x] = d.heir[u] /\ EpisodeRefs(c, x, s) # {}
      BY <2>2
    <3>2. Kind[x] = "show"
      BY <1>0, <1>2, <1>3, <2>1, <3>1 DEF Joins, Whole
    <3>3. u \in G /\ x \in G /\ d.heir[u] = w
      BY <1>3, <1>5, <2>1, <3>1, <3>2 DEF Topmost
    <3>4. \A y \in c.live : EpisodeRefs(c, y, s) # {} => s \in LiveSources(c, y)
      BY <1>0 DEF EpisodeRefs, Listed, ShowOver
    <3>5. s \in LiveSources(c, u) \cap LiveSources(c, x)
      BY <1>3, <3>1, <3>4
    <3> QED
      BY <1>3, <1>6, <2>1, <3>1, <3>3, <3>5
  <2>3. CASE ~\E x \in c.live \ {u} : d.heir[x] = d.heir[u] /\ EpisodeRefs(c, x, s) # {}
    <3>1. HeldTogether(d, d.heir[u], s)
      BY <1>0, <1>3, <2>1, <2>3, HeldKept
    <3> QED
      BY <1>3, <2>1, <3>1
  <2> QED
    BY <2>2, <2>3
<1>8. CASE u # v
  <2>1. Kind[u] # "episode"
    BY <1>0, <1>1, <1>3, <1>4, <1>8 DEF Parted
  <2>2. Kind[u] \in Topmost
    BY <1>1, <1>2, <1>3, <2>1 DEF Levels, Topmost
  <2>3. u \in G /\ v \in G /\ d.heir[u] = w
    <3>1. d.heir[u] = d.heir[v]
      BY <1>1, <1>3
    <3>2. d.heir[u] = (IF u \in G THEN w ELSE u) /\ d.heir[v] = (IF v \in G THEN w ELSE v)
      BY <1>3, <1>4, <1>5, <2>2
    <3> QED
      BY <1>8, <3>1, <3>2
  <2> QED
    BY <1>3, <1>6, <1>8, <2>3
<1> QED
  BY <1>7, <1>8

\* So does merging into one of the group.
LEMMA MergeIntoTidy ==
  ASSUME NEW T, Tables(T), NEW b, Whole(T, b), NEW c, Tidy(T, b, c), NEW G \in SUBSET c.live, OfTitles(G),
         NEW physical, SafeSources(c, G, physical),
         NEW w \in G, \A i \in G : c.manual[i] # Unmatched => c.manual[w] # Unmatched
  PROVE  Tidy(T, b, MergeInto(c, w, G))
<1> DEFINE d == MergeInto(c, w, G)
<1>1. Joins(T, b, c) /\ Follows(b, c) /\ Whole(T, c) /\ Kind[w] \in Topmost /\ \A i \in G : Kind[i] = Kind[w]
  BY DEF Tidy, Joins, OfTitles
<1>2. TitlesMerged(T, c, w, G \ {w}, d)
  BY <1>1, MergeIntoJoins
<1> HIDE DEF d
<1>3. Joins(T, c, d) /\ Follows(c, d) /\ Parted(c, d)
  BY <1>1, <1>2 DEF TitlesMerged
<1>4. Joins(T, b, d) /\ Follows(b, d)
  BY <1>1, <1>3, JoinsTransitive, FollowsTransitive
<1>5. Listed(b) => Divided(b, d)
  BY <1>1, <1>2, DividedByTitles DEF Tidy
<1>6. \A i \in b.live : Kind[i] = "season" => Number[d.heir[i]] = Number[i]
  <2>1. b.live \subseteq Rows
    BY WholeTypes
  <2>2. \A i \in b.live : c.heir[i] \in c.live /\ Kind[c.heir[i]] = Kind[i] /\ d.heir[i] = d.heir[c.heir[i]]
    BY <1>1, <1>3, <2>1 DEF Joins, Whole
  <2> QED
    BY <1>3, <2>2 DEF Parted, Tidy
<1> QED
  BY <1>4, <1>5, <1>6 DEF Tidy, d

\* What is left of a tidy repair is whole.
LEMMA TidyWhole ==
  ASSUME NEW T, NEW b, NEW d, Tidy(T, b, d)
  PROVE  Whole(T, d) /\ d \in T
BY DEF Tidy, Joins, Whole

\* So does taking a group, whether or not the group is safe.
LEMMA MergeGroupTidy ==
  ASSUME NEW T, Tables(T), NEW b, Whole(T, b), NEW c, Tidy(T, b, c), NEW G, OfTitles(G), NEW physical
  PROVE  Tidy(T, b, MergeGroup(c, G, physical))
<1> DEFINE here == G \cap c.live
<1>0. c \in T
  BY TidyWhole
<1>1. CASE Cardinality(here) < 2 \/ ~SafeSources(c, here, physical)
  <2>1. MergeGroup(c, G, physical) = c
    BY <1>1 DEF MergeGroup
  <2> QED
    BY <2>1
<1>2. CASE ~(Cardinality(here) < 2 \/ ~SafeSources(c, here, physical))
  <2>1. MergeGroup(c, G, physical) = MergeInto(c, Canonical(c, here), here)
    BY <1>2 DEF MergeGroup
  <2>2. here \in SUBSET Rows /\ here \in SUBSET c.live /\ here # {} /\ OfTitles(here)
    BY <1>2, FS_EmptySet DEF OfTitles
  <2>3. SafeSources(c, here, physical)
    BY <1>2
  <2> HIDE DEF here
  <2> DEFINE w == Canonical(c, here)
  <2>4. w \in here /\ \A i \in here : c.manual[i] # Unmatched => c.manual[w] # Unmatched
    BY <1>0, <2>2, CanonicalIn
  <2> HIDE DEF w
  <2>5. Tidy(T, b, MergeInto(c, w, here))
    BY <2>2, <2>3, <2>4, MergeIntoTidy
  <2> QED
    BY <2>1, <2>5 DEF w
<1> QED
  BY <1>1, <1>2

\* And taking one group after the other.
LEMMA MergeGroupsTidy ==
  ASSUME NEW T, Tables(T), NEW a, Whole(T, a), NEW c, Tidy(T, a, c), NEW groups, \A G \in groups : OfTitles(G),
         NEW physical
  PROVE  Tidy(T, a, MergeGroups(c, groups, physical))
<1> DEFINE last == [s \in SUBSET groups |-> LastGroup(s)]
<1>0. c \in T /\ groups \in SUBSET SUBSET Rows
  BY TidyWhole DEF OfTitles
<1>1. IsFiniteSet(groups) /\ \A s \in SUBSET groups : s # {} => LastGroup(s) \in s /\ last[s] \in s
  BY <1>0, GroupsInOrder
<1>2. PICK f : GroupsLoop(f, c, groups, physical)
  BY <1>0, MergeGroupsFold
<1> USE DEF GroupsLoop
<1> DEFINE Q == {s \in SUBSET groups : Tidy(T, a, f[s])}
<1>3. {} \in Q
  BY <1>2
<1>4. ASSUME NEW s \in SUBSET groups, s # {}, s \ {last[s]} \in Q PROVE s \in Q
  <2> DEFINE G == LastGroup(s)
             b == f[s \ {G}]
             d == f[s]
  <2>1. G \in groups /\ last[s] = G /\ OfTitles(G)
    BY <1>1, <1>4
  <2>2. d = MergeGroup(b, G, physical)
    BY <1>2, <1>4
  <2>3. Tidy(T, a, b)
    BY <1>4, <2>1
  <2> HIDE DEF G, b, d, last, Q
  <2>4. Tidy(T, a, d)
    BY <2>1, <2>2, <2>3, MergeGroupTidy
  <2>5. Tidy(T, a, f[s])
    BY <2>4 DEF d
  <2> QED
    BY <2>5 DEF Q
<1>5. \A s \in SUBSET groups : s # {} => last[s] \in s
  BY <1>1
<1>6. groups \in Q
  <2> HIDE DEF Q, last
  <2> QED
    BY <1>1, <1>3, <1>4, <1>5, OrderedInduction
<1> QED
  BY <1>2, <1>6

\* reconcile_physical_item is tidy.
LEMMA RepairedByFileTidy ==
  ASSUME NEW T, Tables(T), NEW a, Whole(T, a), NEW c, Tidy(T, a, c), NEW i
  PROVE  Tidy(T, a, RepairedByFile(c, i))
<1> DEFINE groups == PhysicalGroups(c, UNION {c.files[r] : r \in RefsOf(c, i)})
<1>0. Whole(T, c)
  BY TidyWhole
<1>1. \A G \in groups : OfTitles(G)
  BY <1>0, PhysicalGroupsKind DEF OfTitles, OfOneKind
<1>2. RepairedByFile(c, i) = MergeGroups(c, groups, TRUE)
  BY DEF RepairedByFile
<1> HIDE DEF groups
<1>3. Tidy(T, a, MergeGroups(c, groups, TRUE))
  BY <1>1, MergeGroupsTidy
<1> QED
  BY <1>2, <1>3

\* reconcile_matching_items of titles is tidy.
LEMMA RepairedByIdTidy ==
  ASSUME NEW T, Tables(T), NEW a, Whole(T, a), NEW c, Tidy(T, a, c), NEW k \in Topmost,
         NEW ids, NEW chosen, chosen \in c.live => c.manual[chosen] # Unmatched
  PROVE  Tidy(T, a, RepairedById(c, k, ids, chosen))
<1> DEFINE G == {i \in c.live : Kind[i] = k /\ StableIds(c, i) \cap ids # {}}
           d == RepairedById(c, k, ids, chosen)
           w == IF chosen \in G THEN chosen ELSE Canonical(c, G)
<1>0. Whole(T, c) /\ c \in T
  BY TidyWhole
<1>3. c.live \subseteq Rows
  BY <1>0, WholeTypes
<1>1. CASE Cardinality(G) < 2 \/ ~SafeSources(c, G, FALSE)
  <2>1. d = c
    BY <1>1 DEF RepairedById
  <2> QED
    BY <2>1
<1>2. CASE ~(Cardinality(G) < 2 \/ ~SafeSources(c, G, FALSE))
  <2>1. d = MergeInto(c, w, G)
    BY <1>2 DEF RepairedById
  <2>2. G \in SUBSET c.live /\ G \in SUBSET Rows /\ G # {} /\ \A i \in G : Kind[i] = k
    <3>1. G \subseteq c.live /\ \A i \in G : Kind[i] = k
      OBVIOUS
    <3> HIDE DEF G
    <3>2. ~(Cardinality(G) < 2)
      BY <1>2
    <3>3. G # {}
      BY <3>2, FS_EmptySet
    <3> QED
      BY <1>3, <3>1, <3>3
  <2>6. SafeSources(c, G, FALSE)
    BY <1>2
  <2> HIDE DEF G
  <2>3. w \in G /\ \A i \in G : c.manual[i] # Unmatched => c.manual[w] # Unmatched
    BY <1>0, <2>2, CanonicalIn
  <2> HIDE DEF w, d
  <2>4. OfTitles(G)
    BY <2>2 DEF OfTitles
  <2>5. Tidy(T, a, d)
    BY <2>1, <2>2, <2>3, <2>4, <2>6, MergeIntoTidy
  <2> QED
    BY <2>5 DEF d
<1> QED
  BY <1>1, <1>2

-------------------------------------------------------------------------------
(* The catalogs of CatalogMerge: the invariant, and what operations preserve of  *)
(* history.                                                                      *)

\* What _merge_item leaves in each table.
LEMMA MergeItemTables ==
  ASSUME NEW c \in Catalog, NEW w \in Rows, NEW l \in Rows
  PROVE  ItemMerged(Catalog, c, w, l, MergeItem(c, w, l))
<1> DEFINE d == MergeItem(c, w, l)
<1>1. MergedIds(c, w, l) \in SUBSET Identifiers
  BY DEF MergedIds, Catalog
<1>2. MovedPlays(c, w, l) \in SUBSET [row : Rows, source : Sources, time : Nat]
  <2>1. \A p \in c.plays : p \in [row : Rows, source : Sources, time : Nat]
    BY DEF Catalog
  <2>2. \A p \in c.plays : [p EXCEPT !.row = w] \in [row : Rows, source : Sources, time : Nat]
    BY <2>1
  <2> QED
    BY <2>1, <2>2 DEF MovedPlays
<1>3. [s \in Sources |-> MergedState(c.state[w][s], c.state[l][s])] \in [Sources -> State]
  <2>1. \A s \in Sources : c.state[w][s] \in State /\ c.state[l][s] \in State
    BY DEF Catalog
  <2>2. \A s \in Sources : MergedState(c.state[w][s], c.state[l][s]) \in State
    BY <2>1, MergedStateIsState
  <2> QED
    BY <2>2
<1>4. NoState \in State
  BY DEF NoState, State
<1>5. /\ c.live \in SUBSET Rows /\ c.parent \in [Rows -> Rows \cup {0}]
      /\ c.ids \in [Rows -> SUBSET Identifiers] /\ c.manual \in [Rows -> Matches \cup {Unmatched}]
      /\ c.at \in [Refs -> Rows] /\ c.avail \in SUBSET Refs
      /\ c.files \in [Refs -> SUBSET Paths] /\ c.now \in Nat /\ c.state \in [Rows -> [Sources -> State]]
      /\ c.heir \in [Rows -> Rows]
  BY DEF Catalog
<1> DEFINE ids == [c.ids EXCEPT ![w] = MergedIds(c, w, l), ![l] = {}]
           manual == [c.manual EXCEPT ![l] = Unmatched]
           state == [c.state EXCEPT ![w] = [s \in Sources |-> MergedState(c.state[w][s], c.state[l][s])],
                                    ![l] = [s \in Sources |-> NoState]]
           parent == [i \in Rows |-> IF i = l THEN 0 ELSE IF c.parent[i] = l THEN w ELSE c.parent[i]]
           at == [r \in Refs |-> IF c.at[r] = l THEN w ELSE c.at[r]]
           heir == [i \in Rows |-> IF c.heir[i] = l THEN w ELSE c.heir[i]]
<1>6. /\ ids \in [Rows -> SUBSET Identifiers] /\ manual \in [Rows -> Matches \cup {Unmatched}]
      /\ parent \in [Rows -> Rows \cup {0}] /\ at \in [Refs -> Rows] /\ heir \in [Rows -> Rows]
  BY <1>1, <1>5
<1>7. state \in [Rows -> [Sources -> State]]
  BY <1>3, <1>4, <1>5
<1>8. d = [c EXCEPT !.live = c.live \ {l}, !.ids = ids, !.at = at, !.parent = parent, !.manual = manual,
                    !.heir = heir, !.plays = MovedPlays(c, w, l), !.state = state]
  BY DEF MergeItem, MovedRefs
<1>9. d = [live |-> c.live \ {l}, parent |-> parent, ids |-> ids, manual |-> manual, at |-> at,
           avail |-> c.avail, files |-> c.files, plays |-> MovedPlays(c, w, l), now |-> c.now,
           state |-> state, heir |-> heir]
  <2> HIDE DEF ids, manual, state, parent, at, heir
  <2> QED
    BY <1>8 DEF Catalog
<1>10. d \in Catalog
  <2> HIDE DEF ids, manual, state, parent, at, heir
  <2> QED
    BY <1>2, <1>5, <1>6, <1>7, <1>9 DEF Catalog
<1> QED
  BY <1>9, <1>10 DEF ItemMerged

\* A row that is hung from another leaves a catalog.
LEMMA ParentChanged ==
  ASSUME NEW c \in Catalog, NEW i \in Rows, NEW p \in Rows
  PROVE  [c EXCEPT !.parent[i] = p] \in Catalog
<1> DEFINE d == [c EXCEPT !.parent[i] = p]
           parent == [c.parent EXCEPT ![i] = p]
<1>1. parent \in [Rows -> Rows \cup {0}]
  BY DEF Catalog
<1>2. d = [c EXCEPT !.parent = parent]
  BY DEF Catalog
<1> HIDE DEF parent
<1> QED
  BY <1>1, <1>2 DEF Catalog

\* Only titles are matched, and a match is their one identifier.
Certain(c, i) ==
  c.manual[i] # Unmatched => Kind[i] \in {"movie", "show"} /\ c.ids[i] = {c.manual[i]}

\* Entries, plays and heirs point to live rows, and only a state that exists is finished.
Sound(c) ==
  /\ c \in Catalog
  /\ \A r \in Refs : c.at[r] \in c.live
  /\ IsFiniteSet(c.plays) /\ \A p \in c.plays : p.row \in c.live
  /\ \A i \in c.live : Rooted(c, i) /\ Certain(c, i)
  /\ \A i \in Rows : c.heir[i] \in c.live /\ Kind[c.heir[i]] = Kind[i]
  /\ \A i \in Rows, s \in Sources : c.state[i][s].done => c.state[i][s].row

\* What d keeps of c: every row has an heir, which has its entries, its plays, its
\* completions and a match if the row had one.
Inherits(c, d) ==
  /\ \A i \in Rows : d.heir[i] = d.heir[c.heir[i]]
  /\ \A r \in Refs : d.at[r] = d.heir[c.at[r]]
  /\ \A p \in c.plays : [p EXCEPT !.row = d.heir[p.row]] \in d.plays
  /\ \A i \in c.live, s \in Sources : c.state[i][s].done => d.state[d.heir[i]][s].done
  /\ \A i \in c.live : c.manual[i] # Unmatched => d.manual[d.heir[i]] # Unmatched

\* What merging does besides: rows only go, matches stay as they are, and no play is
\* made up.
Merges(c, d) ==
  /\ Sound(d) /\ Inherits(c, d)
  /\ d.live \subseteq c.live /\ \A i \in d.live : d.manual[i] = c.manual[i]
  /\ d.files = c.files /\ d.avail = c.avail
  /\ \A q \in d.plays : \E p \in c.plays : q = [p EXCEPT !.row = d.heir[p.row]]

\* Merging leaves the catalogs catalogs.
LEMMA CatalogTables ==
  Tables(Catalog)
<1>1. ASSUME NEW c \in Catalog PROVE Typed(c)
  <2>1. ASSUME NEW p \in c.plays PROVE Movable(p)
    <3>1. p \in [row : Rows, source : Sources, time : Nat]
      BY DEF Catalog
    <3> QED
      BY <3>1 DEF Movable, MovedTo
  <2> QED
    BY <2>1 DEF Catalog, Typed
<1>2. ASSUME NEW c \in Catalog, NEW i \in Rows, NEW p \in Rows
      PROVE  Reparented(Catalog, c, i, p, [c EXCEPT !.parent[i] = p])
  BY ParentChanged DEF Reparented
<1> QED
  BY <1>1, <1>2, MergeItemTables DEF Tables

\* A sound catalog is whole.
LEMMA SoundWhole ==
  ASSUME NEW c, Sound(c)
  PROVE  Whole(Catalog, c)
<1>1. c \in Catalog /\ c.live \subseteq Rows /\ c.avail \subseteq Refs /\ 0 \notin Rows
  BY RowsAssumption DEF Sound, Catalog
<1>2. \A i \in c.live : Rooted(c, i) /\ (c.manual[i] # Unmatched => Kind[i] \in Topmost)
  BY DEF Sound, Certain, Topmost
<1> QED
  BY <1>1, <1>2 DEF Sound, Whole

\* Merging keeps it sound, and the history.
LEMMA JoinsMerges ==
  ASSUME NEW c, Sound(c), NEW d, Joins(Catalog, c, d)
  PROVE  Merges(c, d)
<1>1. /\ c.live \subseteq Rows /\ 0 \notin Rows /\ \A i \in Rows : c.heir[i] \in c.live
      /\ \A r \in Refs : c.at[r] \in c.live
  BY RowsAssumption DEF Sound, Catalog
<1>2. Whole(Catalog, d) /\ d \in Catalog /\ d.live \subseteq c.live
  BY DEF Joins, Whole
<1>3. \A i \in Rows : d.heir[i] \in d.live
  BY <1>1 DEF Joins
<1>4. \A r \in Refs : d.at[r] = d.heir[c.at[r]] /\ d.at[r] \in d.live
  BY <1>1 DEF Joins
<1>5. ASSUME NEW i \in d.live PROVE Rooted(d, i) /\ Certain(d, i)
  <2>1. Rooted(d, i) /\ (d.manual[i] # Unmatched => Kind[i] \in Topmost)
    BY <1>2 DEF Whole
  <2>2. d.manual[i] = c.manual[i] /\ (c.manual[i] # Unmatched => d.ids[i] = c.ids[i]) /\ Certain(c, i)
    BY <1>2 DEF Joins, Sound
  <2> QED
    BY <2>1, <2>2 DEF Certain, Topmost
<1>6. IsFiniteSet(d.plays) /\ (\A p \in d.plays : p.row \in d.live)
      /\ (\A i \in Rows : Kind[d.heir[i]] = Kind[i])
      /\ \A i \in Rows, s \in Sources : d.state[i][s].done => d.state[i][s].row
  BY <1>2 DEF Whole
<1>7. Sound(d)
  BY <1>2, <1>3, <1>4, <1>5, <1>6 DEF Sound
<1>8. \A i \in c.live, s \in Sources : c.state[i][s].done => d.state[d.heir[i]][s].done
  BY DEF Joins, Reaches
<1>9. Inherits(c, d)
  BY <1>4, <1>8 DEF Joins, Inherits, MovedTo
<1>10. d.files = c.files /\ d.avail = c.avail /\ \A q \in d.plays : \E p \in c.plays : q = [p EXCEPT !.row = d.heir[p.row]]
  BY DEF Joins, MovedTo
<1> QED
  BY <1>2, <1>7, <1>9, <1>10 DEF Joins, Merges

\* A repair keeps it sound, and the history.
LEMMA MendedMerges ==
  ASSUME NEW b, Sound(b), NEW d, Mended(Catalog, b, d)
  PROVE  Merges(b, d) /\ Sound(d) /\ Inherits(b, d)
<1>1. Merges(b, d)
  BY JoinsMerges DEF Mended
<1> QED
  BY <1>1 DEF Merges

\* A catalog inherits from itself.
LEMMA InheritsItself ==
  ASSUME NEW c, Sound(c)
  PROVE  Inherits(c, c) /\ Merges(c, c)
<1>1. \A i \in Rows : c.heir[i] = c.heir[c.heir[i]]
  BY DEF Sound, Rooted
<1>2. \A i \in c.live : i \in Rows /\ c.heir[i] = i
  BY DEF Sound, Rooted, Catalog
<1>3. ASSUME NEW p \in c.plays PROVE [p EXCEPT !.row = c.heir[p.row]] \in c.plays
  <2>1. p \in [row : Rows, source : Sources, time : Nat] /\ c.heir[p.row] = p.row
    BY <1>2 DEF Sound, Catalog
  <2>2. [p EXCEPT !.row = p.row] = p
    BY <2>1
  <2> QED
    BY <2>1, <2>2
<1>4. \A r \in Refs : c.at[r] = c.heir[c.at[r]]
  BY <1>2 DEF Sound
<1>5. ASSUME NEW p \in c.plays PROVE \E q \in c.plays : p = [q EXCEPT !.row = c.heir[q.row]]
  <2>1. p \in [row : Rows, source : Sources, time : Nat] /\ c.heir[p.row] = p.row
    BY <1>2 DEF Sound, Catalog
  <2>2. [p EXCEPT !.row = c.heir[p.row]] = p
    BY <2>1
  <2> QED
    BY <2>2
<1> QED
  BY <1>1, <1>2, <1>3, <1>4, <1>5 DEF Inherits, Merges

\* What two operations keep, the one after the other, both together keep.
LEMMA InheritsTransitive ==
  ASSUME NEW c, NEW d, NEW e, Sound(c), Sound(d), Sound(e), Inherits(c, d), Inherits(d, e)
  PROVE  Inherits(c, e)
<1>1. /\ \A i \in Rows : c.heir[i] \in Rows /\ d.heir[i] \in Rows /\ d.heir[i] \in d.live
      /\ \A i \in c.live : i \in Rows
      /\ \A p \in c.plays : p \in [row : Rows, source : Sources, time : Nat] /\ p.row \in c.live
  BY DEF Sound, Catalog
<1>2. \A i \in Rows : e.heir[i] = e.heir[d.heir[i]] /\ d.heir[i] = d.heir[c.heir[i]]
  BY DEF Inherits
<1>3. \A i \in Rows : e.heir[i] = e.heir[c.heir[i]]
  BY <1>1, <1>2
<1>4. ASSUME NEW p \in c.plays PROVE [p EXCEPT !.row = e.heir[p.row]] \in e.plays
  <2> DEFINE q == [p EXCEPT !.row = d.heir[p.row]]
  <2>1. q \in d.plays /\ q.row = d.heir[p.row]
    BY <1>1 DEF Inherits
  <2>2. [q EXCEPT !.row = e.heir[q.row]] \in e.plays
    BY <2>1 DEF Inherits
  <2>3. [q EXCEPT !.row = e.heir[q.row]] = [p EXCEPT !.row = e.heir[p.row]]
    BY <1>1, <1>2, <2>1
  <2> QED
    BY <2>2, <2>3
<1>5. ASSUME NEW i \in c.live, NEW s \in Sources, c.state[i][s].done PROVE e.state[e.heir[i]][s].done
  BY <1>1, <1>2, <1>5 DEF Inherits
<1>6. ASSUME NEW i \in c.live, c.manual[i] # Unmatched PROVE e.manual[e.heir[i]] # Unmatched
  BY <1>1, <1>2, <1>6 DEF Inherits
<1>7. ASSUME NEW r \in Refs PROVE e.at[r] = e.heir[c.at[r]]
  <2>1. c.at[r] \in Rows
    BY <1>1 DEF Sound
  <2>2. d.at[r] = d.heir[c.at[r]] /\ e.at[r] = e.heir[d.at[r]]
    BY DEF Inherits
  <2> QED
    BY <1>2, <2>1, <2>2
<1> QED
  BY <1>3, <1>4, <1>5, <1>6, <1>7 DEF Inherits

-------------------------------------------------------------------------------
(* What a server lists.                                                       *)

\* A server lists an episode under a season and a show of its own, which hang together as
\* the rows do; what is above an episode it shows is shown, and a season only then.
Shelved(c) ==
  /\ \A r \in Refs : \A q \in Above[r] :
        Kind[c.at[r]] = "episode" /\ Source[q] = Source[r] /\ c.at[q] \in {c.parent[c.at[r]], ShowOver(c, r)}
  /\ \A r \in Refs : Kind[c.at[r]] = "episode" => \E q \in Above[r] : Kind[c.at[q]] = "show"
Stocked(c) ==
  /\ \A r \in c.avail : Above[r] \subseteq c.avail
  /\ \A q \in c.avail : Kind[c.at[q]] = "season" => \E r \in c.avail : q \in Above[r]
OnShelves(c) == Shelved(c) /\ Stocked(c)

\* Rows and entries of a sound catalog.
LEMMA SoundRows ==
  ASSUME NEW c, Sound(c), NEW r \in Refs
  PROVE  /\ c.at[r] \in c.live /\ c.live \subseteq Rows /\ c.avail \subseteq Refs /\ 0 \notin Rows
         /\ Kind[c.at[r]] = "season" => /\ c.parent[c.at[r]] \in c.live
                                        /\ Kind[c.parent[c.at[r]]] = "show"
         /\ Kind[c.at[r]] = "episode" =>
               /\ c.parent[c.at[r]] \in c.live /\ Kind[c.parent[c.at[r]]] = "season"
               /\ ShowOver(c, r) \in c.live /\ Kind[ShowOver(c, r)] = "show"
<1>1. c.at[r] \in c.live /\ c.live \subseteq Rows /\ c.avail \subseteq Refs /\ 0 \notin Rows
  BY RowsAssumption DEF Sound, Catalog
<1> QED
  BY <1>1 DEF Sound, Rooted, ShowOver

\* The entry of the show of an episode, and that of its season.
LEMMA ShelfOf ==
  ASSUME NEW c, Sound(c), OnShelves(c), NEW r \in c.avail, Kind[c.at[r]] = "episode"
  PROVE  /\ Source[r] \in LiveSources(c, ShowOver(c, r))
         /\ \A q \in Above[r] : /\ Source[q] = Source[r]
                                /\ Kind[c.at[q]] = "season" => c.parent[c.at[q]] = ShowOver(c, r)
<1>1. r \in Refs /\ c.avail \subseteq Refs
  BY DEF Sound, Catalog
<1>2. Kind[c.parent[c.at[r]]] = "season" /\ Kind[ShowOver(c, r)] = "show"
  BY <1>1, SoundRows
<1>3. \A q \in Above[r] : /\ Source[q] = Source[r] /\ q \in c.avail
                         /\ c.at[q] \in {c.parent[c.at[r]], ShowOver(c, r)}
  BY <1>1 DEF OnShelves, Shelved, Stocked
<1>4. PICK q \in Above[r] : Kind[c.at[q]] = "show"
  BY <1>1 DEF OnShelves, Shelved
<1>5. q \in RefsOf(c, ShowOver(c, r)) \cap c.avail /\ Source[q] = Source[r]
  BY <1>1, <1>2, <1>3, <1>4 DEF RefsOf
<1>6. Source[r] \in LiveSources(c, ShowOver(c, r))
  BY <1>5 DEF LiveSources
<1>7. \A x \in Above[r] : Kind[c.at[x]] = "season" => c.parent[c.at[x]] = ShowOver(c, r)
  BY <1>2, <1>3 DEF ShowOver
<1> QED
  BY <1>3, <1>6, <1>7

\* So a server shows the shows of what it shows.
LEMMA ShelvesListed ==
  ASSUME NEW c, Sound(c), OnShelves(c)
  PROVE  /\ Listed(c)
         /\ \A q \in c.avail : Kind[c.at[q]] = "season" => Source[q] \in LiveSources(c, c.parent[c.at[q]])
<1>1. ASSUME NEW q \in c.avail, Kind[c.at[q]] = "season" PROVE Source[q] \in LiveSources(c, c.parent[c.at[q]])
  <2>1. PICK r \in c.avail : q \in Above[r]
    BY <1>1 DEF OnShelves, Stocked
  <2>2. r \in Refs
    BY DEF Sound, Catalog
  <2>3. Kind[c.at[r]] = "episode"
    BY <2>1, <2>2 DEF OnShelves, Shelved
  <2> QED
    BY <1>1, <2>1, <2>3, ShelfOf
<1> QED
  BY <1>1, ShelfOf DEF Listed

\* Merging keeps it so.
LEMMA ShelvesFollow ==
  ASSUME NEW c, Sound(c), OnShelves(c), NEW d, Joins(Catalog, c, d), Follows(c, d)
  PROVE  OnShelves(d)
<1>1. d.avail = c.avail /\ c.avail \subseteq Refs
  BY DEF Joins, Sound, Catalog
<1>2. ASSUME NEW r \in Refs
      PROVE  /\ d.at[r] = d.heir[c.at[r]] /\ Kind[d.at[r]] = Kind[c.at[r]]
             /\ Kind[c.at[r]] = "episode" => /\ d.parent[d.at[r]] = d.heir[c.parent[c.at[r]]]
                                             /\ ShowOver(d, r) = d.heir[ShowOver(c, r)]
  <2>1. c.at[r] \in c.live /\ c.live \subseteq Rows /\ 0 \notin Rows
    BY SoundRows
  <2>2. d.at[r] = d.heir[c.at[r]] /\ Kind[d.heir[c.at[r]]] = Kind[c.at[r]]
    BY <2>1 DEF Joins, Whole
  <2>3. ASSUME Kind[c.at[r]] = "episode"
        PROVE  d.parent[d.at[r]] = d.heir[c.parent[c.at[r]]] /\ ShowOver(d, r) = d.heir[ShowOver(c, r)]
    <3>1. /\ c.parent[c.at[r]] \in c.live /\ c.parent[c.at[r]] # 0
          /\ ShowOver(c, r) \in c.live /\ ShowOver(c, r) # 0
      BY <2>1, <2>3, SoundRows
    <3>2. d.parent[d.at[r]] = d.heir[c.parent[c.at[r]]]
      BY <2>1, <2>2, <3>1 DEF Follows
    <3>3. d.parent[d.heir[c.parent[c.at[r]]]] = d.heir[ShowOver(c, r)]
      BY <3>1 DEF Follows, ShowOver
    <3> QED
      BY <3>2, <3>3 DEF ShowOver
  <2> QED
    BY <2>2, <2>3
<1>3. \A r \in Refs : Above[r] \subseteq Refs
  BY RowsAssumption
<1>4. Shelved(d)
  <2>1. ASSUME NEW r \in Refs, NEW q \in Above[r]
        PROVE  /\ Kind[d.at[r]] = "episode" /\ Source[q] = Source[r]
               /\ d.at[q] \in {d.parent[d.at[r]], ShowOver(d, r)}
    <3>1. /\ Kind[c.at[r]] = "episode" /\ Source[q] = Source[r] /\ q \in Refs
          /\ c.at[q] \in {c.parent[c.at[r]], ShowOver(c, r)}
      BY <1>3 DEF OnShelves, Shelved
    <3> QED
      BY <1>2, <3>1
  <2>2. ASSUME NEW r \in Refs, Kind[d.at[r]] = "episode" PROVE \E q \in Above[r] : Kind[d.at[q]] = "show"
    BY <1>2, <1>3, <2>2 DEF OnShelves, Shelved
  <2> QED
    BY <2>1, <2>2 DEF Shelved
<1>5. Stocked(d)
  BY <1>1, <1>2 DEF OnShelves, Stocked
<1> QED
  BY <1>4, <1>5 DEF OnShelves

\* What does not move an entry keeps it so.
LEMMA ShelvesKept ==
  ASSUME NEW c, OnShelves(c), NEW d, d.at = c.at, d.parent = c.parent, Stocked(d)
  PROVE  OnShelves(d)
BY DEF OnShelves, Shelved, ShowOver

\* A page that shows an episode shows what is above it.
LEMMA ShelvesSeen ==
  ASSUME NEW c, Sound(c), OnShelves(c), NEW r \in Refs, Kind[c.at[r]] \in {"movie", "episode"},
         NEW d, d.at = c.at, d.avail = c.avail \cup {r} \cup Above[r]
  PROVE  Stocked(d)
<1>1. Stocked(c) /\ Shelved(c) /\ \A x \in Refs : Above[x] \subseteq Refs
  BY RowsAssumption DEF OnShelves
<1>2. \A q \in Above[r] : Above[q] = {}
  <2>1. SUFFICES ASSUME NEW q \in Above[r], NEW x \in Above[q] PROVE FALSE
    OBVIOUS
  <2>2. q \in Refs /\ Kind[c.at[q]] = "episode" /\ Kind[c.at[r]] = "episode"
    BY <1>1 DEF Shelved
  <2>3. c.at[q] \in {c.parent[c.at[r]], ShowOver(c, r)}
    BY <1>1 DEF Shelved
  <2>4. Kind[c.parent[c.at[r]]] = "season" /\ Kind[ShowOver(c, r)] = "show"
    BY <2>2, SoundRows
  <2> QED
    BY <2>2, <2>3, <2>4
<1>3. ASSUME NEW x \in d.avail PROVE Above[x] \subseteq d.avail
  BY <1>1, <1>2 DEF Stocked
<1>4. ASSUME NEW q \in d.avail, Kind[d.at[q]] = "season" PROVE \E x \in d.avail : q \in Above[x]
  BY <1>1, <1>4 DEF Stocked
<1> QED
  BY <1>3, <1>4 DEF Stocked

\* A loss hides what is above the entry unless another one is below it.
LEMMA ShelvesLeft ==
  ASSUME NEW c, Sound(c), OnShelves(c), NEW r \in c.avail, Kind[c.at[r]] \in {"movie", "episode"},
         NEW d, d.at = c.at,
         d.avail = {q \in c.avail \ {r} : q \in Above[r] => \E p \in c.avail \ {r} : q \in Above[p]}
  PROVE  Stocked(d)
<1>0. Stocked(c) /\ Shelved(c) /\ c.avail \subseteq Refs /\ r \in Refs
  BY DEF OnShelves, Sound, Catalog
<1>1. ASSUME NEW p \in c.avail, NEW q \in Above[p]
      PROVE  Kind[c.at[p]] = "episode" /\ Kind[c.at[q]] \in {"season", "show"}
  <2>1. p \in Refs /\ Kind[c.at[p]] = "episode" /\ c.at[q] \in {c.parent[c.at[p]], ShowOver(c, p)}
    BY <1>0, <1>1 DEF Shelved
  <2>2. Kind[c.parent[c.at[p]]] = "season" /\ Kind[ShowOver(c, p)] = "show"
    BY <2>1, SoundRows
  <2> QED
    BY <2>1, <2>2
<1>2. ASSUME NEW p \in c.avail \ {r}, NEW q \in Above[p] PROVE p \in d.avail /\ q \in d.avail
  <2>1. p \notin Above[r] /\ q # r
    BY <1>1, <1>2
  <2>2. q \in c.avail
    BY <1>0, <1>2 DEF Stocked
  <2> QED
    BY <1>2, <2>1, <2>2
<1>3. ASSUME NEW p \in d.avail PROVE Above[p] \subseteq d.avail
  BY <1>2, <1>3
<1>4. ASSUME NEW q \in d.avail, Kind[d.at[q]] = "season" PROVE \E p \in d.avail : q \in Above[p]
  <2>1. PICK p \in c.avail : q \in Above[p]
    BY <1>0, <1>4 DEF Stocked
  <2>2. PICK x \in c.avail \ {r} : q \in Above[x]
    BY <1>4, <2>1
  <2> QED
    BY <1>2, <2>2
<1> QED
  BY <1>3, <1>4 DEF Stocked

-------------------------------------------------------------------------------
(* The groups of _duplicate_groups.                                           *)

\* _duplicate_groups joins to a title what shares an identifier with what it joined before.
Neighbours(c, S) == S \cup {j \in Titles(c) : \E i \in S : SharesId(c, i, j)}
Joined(c, i) == InOrder(LAMBDA S, j : Neighbours(c, S), {i}, Max, Titles(c))
JoinLoop(f, c, i) ==
  /\ f[{}] = {i}
  /\ \A s \in SUBSET Titles(c) : s # {} => f[s] = Neighbours(c, f[s \ {Max(s)}])
  /\ Joined(c, i) = f[Titles(c)]

\* The closure of _duplicate_groups computes such a function.
LEMMA JoinedFold ==
  ASSUME NEW c \in Catalog, NEW i \in Titles(c)
  PROVE  \E f : JoinLoop(f, c, i)
<1> DEFINE S == Titles(c)
           C == SUBSET S
           last == [s \in SUBSET S |-> Max(s)]
           F == [x \in C \X S |-> Neighbours(c, x[1])]
           Step(f, s) == IF s = {} THEN {i} ELSE Neighbours(c, f[s \ {Max(s)}])
           Is(f) == f = [s \in SUBSET S |-> Step(f, s)]
           iter == CHOOSE f : Is(f)
<1>1. S \in SUBSET Rows /\ IsFiniteSet(S) /\ \A s \in SUBSET S : s # {} => Max(s) \in s
  <2>1. S \in SUBSET Rows
    BY DEF Titles, Catalog
  <2> HIDE DEF S
  <2> QED
    BY <2>1, RowsInOrder
<1>2. \A s \in SUBSET S : s # {} => last[s] \in s
  BY <1>1
<1>3. F \in [C \X S -> C] /\ {i} \in C
  BY DEF Neighbours
<1>4. PICK f \in [SUBSET S -> C] : Unfolds(f, S, last, {i}, F)
  <2> HIDE DEF F, last, C
  <2> QED
    BY <1>1, <1>2, <1>3, FoldExists
<1>5. \A s \in SUBSET S : f[s] = Step(f, s)
  BY <1>2, <1>4 DEF Unfolds
<1>6. Is(f)
  BY <1>5
<1>7. Is(iter)
  <2> HIDE DEF Is
  <2> QED
    BY <1>6, Zenon
<1>8. Joined(c, i) = iter[S]
  BY DEF Joined, InOrder, MapThenFoldSet
<1>9. \A s \in SUBSET S : iter[s] = Step(iter, s)
  <2> HIDE DEF Step, iter
  <2> QED
    BY <1>7
<1>10. iter[{}] = {i} /\ \A s \in SUBSET S : s # {} => iter[s] = Neighbours(c, iter[s \ {Max(s)}])
  <2> HIDE DEF iter
  <2> QED
    BY <1>9
<1>11. JoinLoop(iter, c, i)
  <2> HIDE DEF iter
  <2> QED
    BY <1>8, <1>10 DEF JoinLoop
<1> HIDE DEF iter
<1> QED
  BY <1>11

\* What it joins to a title are titles of its kind.
LEMMA JoinedKind ==
  ASSUME NEW c \in Catalog, NEW i \in Titles(c)
  PROVE  OfOneKind(Joined(c, i)) /\ \A j \in Joined(c, i) : Kind[j] \in Topmost
<1> DEFINE S == Titles(c)
           last == [s \in SUBSET S |-> Max(s)]
           Alike == {j \in S : Kind[j] = Kind[i]}
<1>0. S \in SUBSET Rows /\ \A j \in S : Kind[j] \in Topmost
  BY DEF Titles, Catalog, Topmost
<1>1. IsFiniteSet(S) /\ \A s \in SUBSET S : s # {} => Max(s) \in s /\ last[s] \in s
  <2> HIDE DEF S
  <2> QED
    BY <1>0, RowsInOrder
<1>2. PICK f : JoinLoop(f, c, i)
  BY JoinedFold
<1> USE DEF JoinLoop
<1> DEFINE Q == {s \in SUBSET S : f[s] \subseteq Alike}
<1>3. {} \in Q
  BY <1>2
<1>4. ASSUME NEW s \in SUBSET S, s # {}, s \ {last[s]} \in Q PROVE s \in Q
  <2> DEFINE b == f[s \ {Max(s)}]
  <2>1. f[s] = Neighbours(c, b)
    BY <1>2, <1>4
  <2>2. b \subseteq Alike
    BY <1>4
  <2> HIDE DEF b
  <2> QED
    BY <2>1, <2>2 DEF Neighbours, SharesId
<1>5. \A s \in SUBSET S : s # {} => last[s] \in s
  BY <1>1
<1>6. S \in Q
  <2> HIDE DEF Q, last, S
  <2> QED
    BY <1>1, <1>3, <1>4, <1>5, OrderedInduction
<1>7. Joined(c, i) \subseteq Alike
  BY <1>2, <1>6
<1> QED
  BY <1>0, <1>7 DEF OfOneKind

\* _duplicate_groups finds groups of titles of one kind.
LEMMA DuplicateGroupsKind ==
  ASSUME NEW c \in Catalog, NEW G \in DuplicateGroups(c)
  PROVE  OfOneKind(G) /\ \A i \in G : Kind[i] \in Topmost
<1>1. DuplicateGroups(c) = {H \in {Joined(c, i) : i \in Titles(c)} : Cardinality(H) > 1}
  BY Zenon DEF DuplicateGroups, Joined, Neighbours, InOrder, MapThenFoldSet
<1>2. PICK i \in Titles(c) : G = Joined(c, i)
  BY <1>1
<1> QED
  BY <1>2, JoinedKind

-------------------------------------------------------------------------------
(* The operations.                                                            *)

\* What every operation keeps.
Kept(c, d) == Sound(d) /\ Inherits(c, d)

\* Two operations that keep the history keep it together.
LEMMA KeptTransitive ==
  ASSUME NEW c, NEW d, NEW e, Sound(c), Kept(c, d), Kept(d, e)
  PROVE  Kept(c, e)
BY InheritsTransitive DEF Kept

\* Doing nothing keeps it.
LEMMA KeptItself ==
  ASSUME NEW c, Sound(c)
  PROVE  Kept(c, c)
BY InheritsItself DEF Kept

\* What an operation does to the titles: it brings something, a play only of what is
\* played, and repairs the rest.
Brings(c, b) ==
  /\ Kept(c, b) /\ b.live = c.live /\ b.at = c.at /\ b.parent = c.parent
  /\ \A p \in b.plays \ c.plays : \E r \in Watched : p.row = c.at[r]
  /\ OnShelves(c) => OnShelves(b)
Repairs(c, d) == \E b : Brings(c, b) /\ Mended(Catalog, b, d) /\ Tidy(Catalog, b, d)

\* An operation that brings something and repairs the rest keeps the history.
LEMMA RepairsKeeps ==
  ASSUME NEW c, NEW d, Sound(c), Repairs(c, d)
  PROVE  Kept(c, d)
<1>1. PICK b : Brings(c, b) /\ Mended(Catalog, b, d)
  BY DEF Repairs
<1> QED
  BY <1>1, KeptTransitive, MendedMerges DEF Brings, Kept

\* The repair may be empty.
LEMMA BringsOnly ==
  ASSUME NEW c, NEW d, Brings(c, d)
  PROVE  Repairs(c, d)
<1>1. Mended(Catalog, d, d) /\ Tidy(Catalog, d, d)
  BY MendedItself, TidyItself, SoundWhole, CatalogTables DEF Brings, Kept
<1> QED
  BY <1>1 DEF Repairs

\* What moves no entry and shows the same ones leaves the shelves as they are.
LEMMA ShelvesSame ==
  ASSUME NEW c, NEW d, d.at = c.at, d.parent = c.parent, d.avail = c.avail
  PROVE  OnShelves(c) => OnShelves(d)
BY DEF OnShelves, Shelved, Stocked, ShowOver

\* A change of identifiers, but not of a matched row, and of what entries are available
\* and which files they have, is none of the history.
LEMMA Untouched ==
  ASSUME NEW c, Sound(c), NEW d \in Catalog,
         d.live = c.live, d.parent = c.parent, d.heir = c.heir, d.plays = c.plays, d.at = c.at,
         d.state = c.state, d.manual = c.manual,
         \A i \in c.live : c.manual[i] # Unmatched => d.ids[i] = c.ids[i]
  PROVE  Kept(c, d)
<1>1. Sound(d)
  BY DEF Sound, Rooted, Certain
<1>2. Inherits(c, c)
  BY InheritsItself
<1> QED
  BY <1>1, <1>2 DEF Inherits, Kept

\* _recover_embedded_identifiers touches identifiers only, and none of a matched row.
LEMMA RecoveredKept ==
  ASSUME NEW c, Sound(c)
  PROVE  LET d == Recovered(c)
         IN  /\ Kept(c, d) /\ d.live = c.live /\ d.at = c.at /\ d.plays = c.plays
             /\ d.parent = c.parent /\ d.avail = c.avail
             /\ d.ids = c.ids => d = c
<1> DEFINE token(i) == IF i \notin Titles(c) \/ c.manual[i] # Unmatched THEN {} ELSE Token[i]
           free(i) == StableIds(c, i) = {}
           ids == [i \in Rows |-> IF free(i) THEN c.ids[i] \cup token(i) ELSE c.ids[i]]
           d == Recovered(c)
<1>1. c \in Catalog /\ c.ids \in [Rows -> SUBSET Identifiers] /\ c.live \subseteq Rows
  BY DEF Sound, Catalog
<1>2. \A i \in Rows : token(i) \subseteq Identifiers
  BY DEF Identifiers
<1>3. \A i \in Rows : c.manual[i] # Unmatched => token(i) = {}
  OBVIOUS
<1>4. d = [c EXCEPT !.ids = ids]
  BY DEF Recovered
<1> HIDE DEF token, free, d
<1>5. ids \in [Rows -> SUBSET Identifiers]
  BY <1>1, <1>2
<1>6. \A i \in Rows : c.manual[i] # Unmatched => ids[i] = c.ids[i]
  BY <1>3
<1> HIDE DEF ids
<1>7. /\ d \in Catalog /\ d.live = c.live /\ d.parent = c.parent /\ d.heir = c.heir /\ d.plays = c.plays
      /\ d.at = c.at /\ d.state = c.state /\ d.manual = c.manual /\ d.ids = ids /\ d.avail = c.avail
  BY <1>1, <1>4, <1>5 DEF Catalog
<1>8. Kept(c, d)
  BY <1>1, <1>6, <1>7, Untouched
<1>9. d.ids = c.ids => d = c
  BY <1>1, <1>4, <1>7 DEF Catalog
<1> QED
  BY <1>7, <1>8, <1>9, Zenon DEF d

\* The reconciliation of the whole catalog.  One that neither merges nor finds an
\* identifier changes nothing.
LEMMA ReconciledRepairs ==
  ASSUME NEW c, Sound(c)
  PROVE  LET d == Reconciled(c)
         IN  Repairs(c, d) /\ (d.live = c.live /\ d.ids = c.ids => d = c)
<1> DEFINE known == Recovered(c)
           physical == PhysicalGroups(known, UNION {known.files[r] : r \in Refs})
           other == DuplicateGroups(known) \ physical
           b == MergeGroups(known, physical, TRUE)
           d == MergeGroups(b, other, FALSE)
<1>1. Reconciled(c) = d
  BY DEF Reconciled
<1>2. Brings(c, known) /\ Sound(known) /\ (known.ids = c.ids => known = c)
  <2>1. Kept(c, known) /\ known.live = c.live /\ known.at = c.at /\ known.plays = c.plays
        /\ known.parent = c.parent /\ known.avail = c.avail /\ (known.ids = c.ids => known = c)
    BY RecoveredKept
  <2> HIDE DEF known
  <2>2. OnShelves(c) => OnShelves(known)
    BY <2>1, ShelvesSame
  <2> QED
    BY <2>1, <2>2 DEF Brings, Kept
<1> HIDE DEF known
<1>0. Whole(Catalog, known) /\ Tables(Catalog)
  BY <1>2, SoundWhole, CatalogTables
<1>3. \A G \in physical : OfOneKind(G) /\ OfTitles(G)
  BY <1>0, PhysicalGroupsKind DEF OfOneKind, OfTitles
<1>4. \A G \in other : OfOneKind(G) /\ OfTitles(G)
  BY <1>2, DuplicateGroupsKind DEF Sound, OfOneKind, OfTitles
<1> HIDE DEF physical, other
<1>5. Mended(Catalog, known, b) /\ Tidy(Catalog, known, b)
  BY <1>0, <1>3, MendedItself, MergeGroupsMends, TidyItself, MergeGroupsTidy
<1> HIDE DEF b
<1>6. Mended(Catalog, known, d) /\ Tidy(Catalog, known, d)
  BY <1>0, <1>4, <1>5, MergeGroupsMends, MergeGroupsTidy
<1> HIDE DEF d
<1>7. Repairs(c, d)
  BY <1>2, <1>6 DEF Repairs
<1>8. d.live = c.live /\ d.ids = c.ids => d = c
  BY <1>2, <1>6 DEF Brings, Mended
<1> QED
  BY <1>1, <1>7, <1>8

\* _sync_identifier_values leaves the identity of a matched row as it is.
LEMMA IdentifiedKept ==
  ASSUME NEW c, Sound(c), NEW r, NEW i \in c.live, NEW new \in SUBSET Identifiers
  PROVE  LET d == Identified(c, r, i, new)
         IN  /\ Kept(c, d) /\ d.live = c.live /\ d.at = c.at /\ d.plays = c.plays
             /\ d.parent = c.parent /\ d.avail = c.avail
<1> DEFINE clash(x) == {y \in c.ids[i] : y[1] = x[1] /\ y[2] # x[2]}
           taken == {x \in new : clash(x) = {} \/ MayUpdate(c, r, i)}
           values == (c.ids[i] \ UNION {clash(x) : x \in taken}) \cup taken
           ids == [c.ids EXCEPT ![i] = values]
           d == Identified(c, r, i, new)
<1>0. c \in Catalog /\ c.ids \in [Rows -> SUBSET Identifiers] /\ c.live \subseteq Rows /\ i \in Rows
  BY DEF Sound, Catalog
<1>1. CASE c.manual[i] # Unmatched
  <2>1. d = c
    BY <1>1 DEF Identified
  <2> QED
    BY <2>1, KeptItself
<1>2. CASE c.manual[i] = Unmatched
  <2>1. d = [c EXCEPT !.ids = ids]
    BY <1>0, <1>2 DEF Identified, Catalog
  <2>2. values \subseteq Identifiers
    BY <1>0
  <2> HIDE DEF clash, taken, values, d
  <2>3. ids \in [Rows -> SUBSET Identifiers] /\ \A j \in c.live : c.manual[j] # Unmatched => ids[j] = c.ids[j]
    BY <1>0, <1>2, <2>2
  <2> HIDE DEF ids
  <2>4. /\ d \in Catalog /\ d.live = c.live /\ d.parent = c.parent /\ d.heir = c.heir /\ d.plays = c.plays
        /\ d.at = c.at /\ d.state = c.state /\ d.manual = c.manual /\ d.ids = ids /\ d.avail = c.avail
    BY <1>0, <2>1, <2>3 DEF Catalog
  <2>5. Kept(c, d)
    BY <2>3, <2>4, Untouched
  <2> QED
    BY <2>4, <2>5, Zenon DEF d
<1> QED
  BY <1>1, <1>2

\* A page: an entry is persisted, and what it implicates is repaired.
LEMMA CollectedRepairs ==
  ASSUME NEW c, Sound(c), NEW r \in Refs, Kind[c.at[r]] \in {"movie", "episode"},
         NEW new \in SUBSET Identifiers, NEW files \in SUBSET Paths, NEW once
  PROVE  Repairs(c, Collected(c, r, new, files, once))
<1> DEFINE title == TitleOf(c, c.at[r])
           b == Identified(c, r, title, new)
           avail == b.avail \cup {r} \cup Above[r]
           known == [b.files EXCEPT ![r] = IF files = {} THEN b.files[r] ELSE files]
           seen == [b EXCEPT !.avail = b.avail \cup {r} \cup Above[r],
                             !.files[r] = IF files = {} THEN b.files[r] ELSE files]
           mended == IF files = {} THEN seen ELSE RepairedByFile(seen, seen.at[r])
           d == Collected(c, r, new, files, once)
<1>1. d = IF once \/ new = {} THEN mended ELSE RepairedById(mended, Kind[title], new, 0)
  BY DEF Collected
<1>2. title \in c.live /\ Kind[title] \in Topmost
  <2>1. c.at[r] # 0 /\ Whole(Catalog, c)
    BY RowsAssumption, SoundWhole DEF Sound, Catalog
  <2> QED
    BY <2>1, TitleAbove, CatalogTables DEF Topmost
<1> HIDE DEF title, d
<1>3. Kept(c, b) /\ b.live = c.live /\ b.at = c.at /\ b.plays = c.plays /\ b.parent = c.parent /\ b.avail = c.avail
  BY <1>2, IdentifiedKept
<1> HIDE DEF b
<1>4. b \in Catalog /\ Sound(b)
  BY <1>3 DEF Kept, Sound
<1>5. avail \in SUBSET Refs
  BY <1>4, RowsAssumption DEF Catalog
<1>6. known \in [Refs -> SUBSET Paths]
  BY <1>4 DEF Catalog
<1>7. seen = [b EXCEPT !.avail = avail, !.files = known]
  BY <1>4 DEF Catalog
<1>15. avail = c.avail \cup {r} \cup Above[r]
  BY <1>3
<1> HIDE DEF avail, known, seen
<1>8. /\ seen \in Catalog /\ seen.live = b.live /\ seen.parent = b.parent /\ seen.heir = b.heir
      /\ seen.plays = b.plays /\ seen.at = b.at /\ seen.state = b.state /\ seen.manual = b.manual
      /\ seen.ids = b.ids /\ seen.avail = avail
  BY <1>4, <1>5, <1>6, <1>7 DEF Catalog
<1>9. Kept(b, seen)
  BY <1>4, <1>8, Untouched
<1>10. Brings(c, seen) /\ Sound(seen)
  <2>1. OnShelves(c) => OnShelves(seen)
    BY <1>3, <1>8, <1>15, ShelvesSeen, ShelvesKept
  <2> QED
    BY <1>3, <1>4, <1>8, <1>9, <2>1, KeptTransitive DEF Brings, Kept
<1>14. Whole(Catalog, seen) /\ Tables(Catalog)
  BY <1>10, SoundWhole, CatalogTables
<1>11. Mended(Catalog, seen, mended) /\ Tidy(Catalog, seen, mended)
  <2>0. Mended(Catalog, seen, seen) /\ Tidy(Catalog, seen, seen)
    BY <1>14, MendedItself, TidyItself
  <2>1. CASE files = {}
    <3>1. mended = seen
      BY <2>1
    <3> QED
      BY <2>0, <3>1
  <2>2. CASE files # {}
    <3>1. mended = RepairedByFile(seen, seen.at[r])
      BY <2>2
    <3> QED
      BY <1>14, <2>0, <3>1, RepairedByFileMends, RepairedByFileTidy
  <2> QED
    BY <2>1, <2>2
<1> HIDE DEF mended
<1>12. CASE once \/ new = {}
  <2>1. d = mended
    BY <1>1, <1>12
  <2> QED
    BY <1>10, <1>11, <2>1 DEF d, Repairs
<1>13. CASE ~(once \/ new = {})
  <2>1. d = RepairedById(mended, Kind[title], new, 0)
    BY <1>1, <1>13
  <2>2. 0 \notin mended.live
    <3>1. Sound(mended)
      BY <1>10, <1>11, MendedMerges
    <3> QED
      BY <3>1, RowsAssumption DEF Sound, Catalog
  <2>3. Mended(Catalog, seen, d) /\ Tidy(Catalog, seen, d)
    BY <1>2, <1>11, <1>14, <2>1, <2>2, RepairedByIdMends, RepairedByIdTidy
  <2>4. Repairs(c, d)
    BY <1>10, <2>3 DEF Repairs
  <2> QED
    BY <2>4 DEF d
<1> QED
  BY <1>12, <1>13

\* A confirmed match.
LEMMA MatchedRepairs ==
  ASSUME NEW c, Sound(c), NEW i \in Titles(c), NEW x \in Matches
  PROVE  Repairs(c, Matched(c, i, x))
<1> DEFINE manual == [c.manual EXCEPT ![i] = x]
           ids == [c.ids EXCEPT ![i] = {x}]
           b == [c EXCEPT !.manual[i] = x, !.ids[i] = {x}]
           d == Matched(c, i, x)
<1>1. /\ c \in Catalog /\ i \in c.live /\ i \in Rows /\ Kind[i] \in Topmost /\ c.live \subseteq Rows
      /\ x # Unmatched /\ {x} \in SUBSET Identifiers
  <2>1. c \in Catalog /\ i \in c.live /\ Kind[i] \in Topmost
    BY DEF Sound, Titles, Topmost
  <2>2. c.live \subseteq Rows
    BY <2>1 DEF Catalog
  <2>3. x # Unmatched
    BY RowsAssumption
  <2>4. x \in Identifiers
    BY DEF Identifiers
  <2> QED
    BY <2>1, <2>2, <2>3, <2>4
<1>2. /\ manual \in [Rows -> Matches \cup {Unmatched}] /\ manual[i] = x
      /\ \A j \in Rows \ {i} : manual[j] = c.manual[j]
  BY <1>1 DEF Catalog
<1>3. ids \in [Rows -> SUBSET Identifiers] /\ ids[i] = {x} /\ \A j \in Rows \ {i} : ids[j] = c.ids[j]
  BY <1>1 DEF Catalog
<1>4. b = [c EXCEPT !.manual = manual, !.ids = ids]
  BY <1>1 DEF Catalog
<1>5. d = RepairedById(b, Kind[i], {x}, i)
  BY DEF Matched
<1> HIDE DEF manual, ids, b, d
<1>6. /\ b \in Catalog /\ b.live = c.live /\ b.parent = c.parent /\ b.heir = c.heir /\ b.plays = c.plays
      /\ b.at = c.at /\ b.state = c.state /\ b.manual = manual /\ b.ids = ids /\ b.avail = c.avail
  BY <1>1, <1>2, <1>3, <1>4 DEF Catalog
<1>7. \A j \in c.live : Rooted(b, j)
  BY <1>6 DEF Sound, Rooted
<1>8. ASSUME NEW j \in c.live PROVE Certain(b, j)
  <2>1. CASE j = i
    BY <1>1, <1>2, <1>3, <1>6, <2>1 DEF Certain, Topmost
  <2>2. CASE j # i
    BY <1>1, <1>2, <1>3, <1>6, <2>2 DEF Certain, Sound
  <2> QED
    BY <2>1, <2>2
<1>9. Sound(b)
  BY <1>6, <1>7, <1>8 DEF Sound
<1>10. Inherits(c, b)
  <2>1. Inherits(c, c)
    BY InheritsItself
  <2>2. ASSUME NEW j \in c.live, c.manual[j] # Unmatched PROVE b.manual[b.heir[j]] # Unmatched
    <3>1. b.heir[j] = j /\ j \in Rows
      BY <1>1, <1>6 DEF Sound, Rooted
    <3> QED
      BY <1>1, <1>2, <1>6, <2>2, <3>1
  <2> QED
    BY <1>6, <2>1, <2>2 DEF Inherits
<1>11. Mended(Catalog, b, d) /\ Tidy(Catalog, b, d)
  <2>1. b.manual[i] # Unmatched
    BY <1>1, <1>2, <1>6
  <2>3. Whole(Catalog, b) /\ Tables(Catalog)
    BY <1>9, SoundWhole, CatalogTables
  <2>2. Mended(Catalog, b, b) /\ Tidy(Catalog, b, b)
    BY <2>3, MendedItself, TidyItself
  <2> QED
    BY <1>1, <1>5, <2>1, <2>2, <2>3, RepairedByIdMends, RepairedByIdTidy
<1>12. Brings(c, b)
  BY <1>6, <1>9, <1>10, ShelvesSame DEF Brings, Kept
<1>13. Repairs(c, d)
  BY <1>11, <1>12 DEF Repairs
<1> QED
  BY <1>13 DEF d

\* A state that is written keeps the completion it had.
LEMMA StateWritten ==
  ASSUME NEW c, Sound(c), NEW i \in c.live, NEW s \in Sources, NEW v \in State, v.row,
         c.state[i][s].done => v.done,
         NEW d \in Catalog,
         d.live = c.live, d.parent = c.parent, d.heir = c.heir, d.at = c.at, d.manual = c.manual,
         d.ids = c.ids, c.plays \subseteq d.plays, IsFiniteSet(d.plays), \A p \in d.plays : p.row \in d.live,
         d.state = [c.state EXCEPT ![i] = [c.state[i] EXCEPT ![s] = v]]
  PROVE  Kept(c, d)
<1>1. c.state \in [Rows -> [Sources -> State]] /\ c.live \subseteq Rows /\ i \in Rows
  BY DEF Sound, Catalog
<1>2. d.state[i][s] = v
  BY <1>1
<1>3. \A j \in Rows, t \in Sources : j # i \/ t # s => d.state[j][t] = c.state[j][t]
  BY <1>1
<1>4. Sound(d)
  <2>1. \A j \in d.live : Rooted(d, j) /\ Certain(d, j)
    BY DEF Sound, Rooted, Certain
  <2>2. \A j \in Rows, t \in Sources : d.state[j][t].done => d.state[j][t].row
    BY <1>2, <1>3 DEF Sound
  <2> QED
    BY <2>1, <2>2 DEF Sound
<1>5. Inherits(c, d)
  <2>1. Inherits(c, c)
    BY InheritsItself
  <2>2. ASSUME NEW j \in c.live, NEW t \in Sources, c.state[j][t].done PROVE d.state[d.heir[j]][t].done
    <3>1. d.heir[j] = j /\ j \in Rows
      BY <1>1 DEF Sound, Rooted
    <3> QED
      BY <1>2, <1>3, <2>2, <3>1
  <2> QED
    BY <2>1, <2>2 DEF Inherits
<1> QED
  BY <1>4, <1>5 DEF Kept

\* A play adds to the history.
LEMMA PlayedBrings ==
  ASSUME NEW c, Sound(c), NEW r \in Watched
  PROVE  Brings(c, Played(c, r))
<1> DEFINE i == c.at[r]
           s == Source[r]
           time == c.now + 1
           play == [row |-> i, source |-> s, time |-> time]
           plays == c.plays \cup {play}
           count == Cardinality({p \in plays : p.row = i /\ p.source = s})
           v == [row |-> TRUE, done |-> TRUE, pos |-> 0, last |-> time,
                 views |-> Viewed(c.state[i][s].views, count)]
           state == [c.state EXCEPT ![i] = [c.state[i] EXCEPT ![s] = v]]
           d == Played(c, r)
<1>1. /\ c \in Catalog /\ i \in c.live /\ i \in Rows /\ s \in Sources /\ c.now \in Nat /\ time \in Nat
      /\ c.state \in [Rows -> [Sources -> State]] /\ IsFiniteSet(c.plays)
      /\ c.plays \in SUBSET [row : Rows, source : Sources, time : Nat]
  <2>1. c \in Catalog /\ i \in c.live /\ s \in Sources /\ IsFiniteSet(c.plays)
    BY RowsAssumption DEF Sound, Sources
  <2> HIDE DEF i, s
  <2> QED
    BY <2>1 DEF Catalog
<1>2. d = [c EXCEPT !.plays = plays, !.now = time, !.state = state]
  BY <1>1 DEF Played, Catalog
<1>3. /\ plays \in SUBSET [row : Rows, source : Sources, time : Nat] /\ \A p \in plays : p.row \in c.live
      /\ \A p \in plays \ c.plays : \E q \in Watched : p.row = c.at[q]
  <2> HIDE DEF time, i, s
  <2>0. play.row = c.at[r]
    BY DEF i
  <2>1. play \in [row : Rows, source : Sources, time : Nat] /\ play.row \in c.live
    BY <1>1
  <2> HIDE DEF play
  <2> QED
    BY <1>1, <2>0, <2>1 DEF Sound
<1>4. IsFiniteSet(plays)
  BY <1>1, FS_AddElement
<1>5. count \in Nat
  <2> DEFINE mine == {p \in plays : p.row = i /\ p.source = s}
  <2>1. mine \in SUBSET plays
    OBVIOUS
  <2> HIDE DEF mine, plays
  <2>2. IsFiniteSet(mine)
    BY <1>4, <2>1, FS_Subset
  <2> QED
    BY <2>2, FS_CardinalityType DEF mine
<1>6. v \in State /\ v.row /\ v.done
  <2>1. c.state[i][s].views \in Nat
    BY <1>1 DEF State
  <2> HIDE DEF count
  <2>2. Viewed(c.state[i][s].views, count) \in Nat
    BY <1>5, <2>1, LargerType DEF Viewed
  <2> QED
    BY <1>1, <2>2 DEF State
<1> HIDE DEF v, count
<1>7. state \in [Rows -> [Sources -> State]]
  BY <1>1, <1>6
<1> DEFINE n == time
<1> HIDE DEF plays, n, state, d, i, s
<1>8. d = [c EXCEPT !.plays = plays, !.now = n, !.state = state] /\ n \in Nat
  BY <1>1, <1>2 DEF n
<1>9. /\ d \in Catalog /\ d.live = c.live /\ d.parent = c.parent /\ d.heir = c.heir /\ d.plays = plays
      /\ d.at = c.at /\ d.state = state /\ d.manual = c.manual /\ d.ids = c.ids /\ d.avail = c.avail
  BY <1>1, <1>3, <1>7, <1>8 DEF Catalog
<1>10. c.plays \subseteq d.plays /\ IsFiniteSet(d.plays) /\ \A p \in d.plays : p.row \in d.live
  <2>1. c.plays \subseteq plays
    BY DEF plays
  <2> QED
    BY <1>3, <1>4, <1>9, <2>1
<1>11. d.state = [c.state EXCEPT ![i] = [c.state[i] EXCEPT ![s] = v]]
  BY <1>9 DEF state
<1>12. Kept(c, d)
  BY <1>1, <1>6, <1>9, <1>10, <1>11, StateWritten
<1>13. Brings(c, d)
  BY <1>3, <1>9, <1>12, ShelvesSame DEF Brings
<1> QED
  BY <1>13 DEF d

\* A resume position leaves it as it is.
LEMMA ProgressedBrings ==
  ASSUME NEW c, Sound(c), NEW r \in Refs
  PROVE  Brings(c, Progressed(c, r))
<1> DEFINE i == c.at[r]
           s == Source[r]
           n == c.now + 1
           v == [c.state[i][s] EXCEPT !.row = TRUE, !.pos = 1, !.last = c.now + 1]
           state == [c.state EXCEPT ![i] = [c.state[i] EXCEPT ![s] = v]]
           d == Progressed(c, r)
<1>1. /\ c \in Catalog /\ i \in c.live /\ i \in Rows /\ s \in Sources /\ c.now \in Nat /\ n \in Nat
      /\ c.state \in [Rows -> [Sources -> State]] /\ c.state[i][s] \in State
  <2>1. c \in Catalog /\ i \in c.live /\ s \in Sources
    BY DEF Sound, Sources
  <2> HIDE DEF i, s
  <2> QED
    BY <2>1 DEF Catalog
<1>2. d = [c EXCEPT !.now = n, !.state = state]
  BY <1>1 DEF Progressed, Catalog
<1>3. v \in State /\ v.row /\ (c.state[i][s].done => v.done)
  BY <1>1 DEF State
<1> HIDE DEF v
<1>4. state \in [Rows -> [Sources -> State]]
  BY <1>1, <1>3
<1> HIDE DEF n, state, d, i, s
<1>5. /\ d \in Catalog /\ d.live = c.live /\ d.parent = c.parent /\ d.heir = c.heir /\ d.plays = c.plays
      /\ d.at = c.at /\ d.state = state /\ d.manual = c.manual /\ d.ids = c.ids /\ d.avail = c.avail
  BY <1>1, <1>2, <1>4 DEF Catalog
<1>6. d.state = [c.state EXCEPT ![i] = [c.state[i] EXCEPT ![s] = v]]
  BY <1>5 DEF state
<1>7. c.plays \subseteq d.plays /\ IsFiniteSet(d.plays) /\ \A p \in d.plays : p.row \in d.live
  BY <1>5 DEF Sound
<1>8. Kept(c, d)
  BY <1>1, <1>3, <1>5, <1>6, <1>7, StateWritten
<1>9. Brings(c, d)
  BY <1>5, <1>8, ShelvesSame DEF Brings
<1> QED
  BY <1>9 DEF d

-------------------------------------------------------------------------------
(* The steps.                                                                 *)

\* The inductive invariant.
IInv == Sound(cat) /\ changes \in 0 .. MaxChanges

\* The first catalog is sound if its rows are a tree and its entries have rows.
LEMMA InitSound ==
  ASSUME FirstTree, Init
  PROVE  IInv
<1> USE DEF FirstCatalog
<1>1. cat = FirstCatalog /\ changes = 0
  BY DEF Init
<1>2. /\ cat.live = Rows /\ cat.parent = FirstParent /\ cat.ids = FirstIds /\ cat.at = FirstAt
      /\ cat.manual = [i \in Rows |-> Unmatched] /\ cat.avail = FirstSeen /\ cat.files = FirstFiles
      /\ cat.plays = {} /\ cat.now = 0 /\ cat.heir = [i \in Rows |-> i]
      /\ cat.state = [i \in Rows |-> [s \in Sources |-> NoState]]
  BY <1>1
<1>3. cat \in Catalog
  <2>1. NoState \in State
    BY DEF NoState, State
  <2>2. cat.state \in [Rows -> [Sources -> State]]
    <3> HIDE DEF FirstCatalog
    <3> QED
      BY <1>2, <2>1
  <2>3. cat = [live |-> cat.live, parent |-> cat.parent, ids |-> cat.ids, manual |-> cat.manual, at |-> cat.at,
               avail |-> cat.avail, files |-> cat.files, plays |-> cat.plays, now |-> cat.now,
               state |-> cat.state, heir |-> cat.heir]
    BY <1>1
  <2> HIDE DEF FirstCatalog
  <2> QED
    BY <1>2, <2>2, <2>3, RowsAssumption DEF Catalog, FirstTree
<1> HIDE DEF FirstCatalog
<1>4. ASSUME NEW i \in Rows PROVE Rooted(cat, i) /\ Certain(cat, i)
  <2>1. CASE Kind[i] = "season"
    BY <1>2, <2>1 DEF FirstTree, Rooted, Certain, Topmost
  <2>2. CASE Kind[i] = "episode"
    BY <1>2, <2>2 DEF FirstTree, Rooted, Certain, Topmost
  <2>3. CASE Kind[i] \notin {"season", "episode"}
    BY <1>2, <2>3 DEF FirstTree, Rooted, Certain, Topmost
  <2> QED
    BY <2>1, <2>2, <2>3
<1>5. \A i \in Rows, s \in Sources : ~cat.state[i][s].done
  BY <1>2 DEF NoState
<1>6. IsFiniteSet(cat.plays)
  BY <1>2, FS_EmptySet
<1>7. Sound(cat)
  BY <1>2, <1>3, <1>4, <1>5, <1>6 DEF Sound, FirstTree
<1> QED
  BY <1>1, <1>7, RowsAssumption DEF IInv

\* What a page may bring.
LEMMA ReportsKnown ==
  ASSUME NEW r \in Refs
  PROVE  (\A new \in Reports[r] : new \in SUBSET Identifiers) /\ (\A files \in Files[r] : files \in SUBSET Paths)
<1>1. \A new \in Reports[r] : new \in UNION {Reports[q] : q \in Refs}
  OBVIOUS
<1>2. \A files \in Files[r] : files \in UNION {Files[q] : q \in Refs}
  OBVIOUS
<1> QED
  BY <1>1, <1>2 DEF Identifiers, Paths

\* The inductive step: every operation leaves a sound catalog that keeps the history,
\* and what it merges it merges by a repair.
LEMMA StepKept ==
  ASSUME IInv, [Next]_vars
  PROVE  IInv' /\ Kept(cat, cat') /\ Repairs(cat, cat')
<1>0. Sound(cat) /\ changes \in 0 .. MaxChanges /\ MaxChanges \in Nat
  BY RowsAssumption DEF IInv
<1>1. ASSUME NEW r \in Leaves, Collect(r) PROVE Repairs(cat, cat') /\ changes' \in 0 .. MaxChanges
  <2>1. r \in Refs /\ Kind[cat.at[r]] \in {"movie", "episode"}
    BY DEF Leaves
  <2>2. PICK new \in Reports[r], files \in Files[r], once \in BOOLEAN :
           Change(Collected(cat, r, new, files, once))
    BY <1>1 DEF Collect
  <2>3. cat' = Collected(cat, r, new, files, once) /\ changes' \in 0 .. MaxChanges
    BY <1>0, <2>2 DEF Change
  <2>4. new \in SUBSET Identifiers /\ files \in SUBSET Paths
    BY <2>1, ReportsKnown
  <2> QED
    BY <1>0, <2>1, <2>3, <2>4, CollectedRepairs
<1>2. ASSUME NEW r \in Leaves, Lose(r) PROVE Repairs(cat, cat') /\ changes' \in 0 .. MaxChanges
  <2> DEFINE left == cat.avail \ {r}
             avail == {q \in left : q \in Above[r] => \E p \in left : q \in Above[p]}
  <2>1. cat' = [cat EXCEPT !.avail = avail] /\ changes' \in 0 .. MaxChanges
    BY <1>0, <1>2 DEF Lose, Change
  <2>2. cat \in Catalog
    BY <1>0 DEF Sound
  <2>3. avail \in SUBSET Refs
    BY <2>2 DEF Catalog
  <2> HIDE DEF avail
  <2>4. /\ cat' \in Catalog /\ cat'.live = cat.live /\ cat'.parent = cat.parent /\ cat'.heir = cat.heir
        /\ cat'.plays = cat.plays /\ cat'.at = cat.at /\ cat'.state = cat.state /\ cat'.manual = cat.manual
        /\ cat'.ids = cat.ids /\ cat'.avail = avail
    BY <2>1, <2>2, <2>3 DEF Catalog
  <2>6. OnShelves(cat) => OnShelves(cat')
    <3>1. r \in cat.avail /\ Kind[cat.at[r]] \in {"movie", "episode"}
      BY <1>2 DEF Lose, Leaves
    <3>2. cat'.avail = {q \in cat.avail \ {r} : q \in Above[r] => \E p \in cat.avail \ {r} : q \in Above[p]}
      BY <2>4 DEF avail
    <3> QED
      BY <1>0, <2>4, <3>1, <3>2, ShelvesLeft, ShelvesKept
  <2>5. Brings(cat, cat')
    BY <1>0, <2>4, <2>6, Untouched DEF Brings
  <2> QED
    BY <2>1, <2>5, BringsOnly
<1>3. ASSUME NEW r \in Watched, Play(r) PROVE Repairs(cat, cat') /\ changes' \in 0 .. MaxChanges
  BY <1>0, <1>3, PlayedBrings, BringsOnly, RowsAssumption DEF Play
<1>4. ASSUME NEW r \in Watched, Progress(r) PROVE Repairs(cat, cat') /\ changes' \in 0 .. MaxChanges
  BY <1>0, <1>4, ProgressedBrings, BringsOnly, RowsAssumption DEF Progress
<1>5. ASSUME NEW i \in Rows, NEW x \in Matches, Match(i, x)
      PROVE  Repairs(cat, cat') /\ changes' \in 0 .. MaxChanges
  <2>1. i \in Titles(cat) /\ cat' = Matched(cat, i, x) /\ changes' \in 0 .. MaxChanges
    BY <1>0, <1>5 DEF Match, Change
  <2> QED
    BY <1>0, <2>1, MatchedRepairs
<1>6. ASSUME Reconcile PROVE Repairs(cat, cat') /\ changes' \in 0 .. MaxChanges
  <2>1. cat' = Reconciled(cat) /\ changes' = changes
    BY <1>6 DEF Reconcile
  <2>2. Repairs(cat, Reconciled(cat))
    BY <1>0, ReconciledRepairs
  <2> QED
    BY <1>0, <2>1, <2>2
<1>7. ASSUME UNCHANGED vars PROVE Repairs(cat, cat') /\ changes' \in 0 .. MaxChanges
  <2>1. cat' = cat /\ changes' = changes
    BY <1>7 DEF vars
  <2>2. Brings(cat, cat)
    BY <1>0, KeptItself DEF Brings
  <2> QED
    BY <1>0, <2>1, <2>2, BringsOnly
<1>8. Repairs(cat, cat') /\ changes' \in 0 .. MaxChanges
  BY <1>1, <1>2, <1>3, <1>4, <1>5, <1>6, <1>7 DEF Next
<1>9. Kept(cat, cat')
  BY <1>0, <1>8, RepairsKeeps
<1> QED
  BY <1>8, <1>9 DEF IInv, Kept

\* So every reachable catalog is sound.
LEMMA Invariance ==
  ASSUME FirstTree
  PROVE  Spec => []IInv
<1>1. Init => IInv
  BY InitSound
<1>2. IInv /\ [Next]_vars => IInv'
  BY StepKept
<1> QED
  BY <1>1, <1>2, PTL DEF Spec

\* The tables of the catalog keep their types.
THEOREM TypeCorrect ==
  ASSUME FirstTree
  PROVE  Spec => []TypeOK
<1>1. IInv => TypeOK
  BY DEF IInv, Sound, TypeOK
<1> QED
  BY <1>1, Invariance, PTL

\* NothingDangles: whatever groups are merged, in whatever order, entries, plays, seasons
\* and episodes hang from live rows of the level they belong to (_merge_item).
THEOREM NothingDanglesAlways ==
  ASSUME FirstTree
  PROVE  Spec => []NothingDangles
<1>1. IInv => NothingDangles
  BY DEF IInv, Sound, Rooted, NothingDangles
<1> QED
  BY <1>1, Invariance, PTL

\* HistoryFollows: every step takes each play and each completion along to the heir of
\* its row (_merge_item, _merge_watch_states).
THEOREM HistoryFollowsAlways ==
  ASSUME FirstTree
  PROVE  Spec => HistoryFollows
<1>1. ASSUME IInv, [Next]_vars
      PROVE  /\ \A p \in cat.plays : [p EXCEPT !.row = cat'.heir[@]] \in cat'.plays
             /\ \A i \in cat.live, s \in Sources :
                   cat.state[i][s].done => cat'.state[cat'.heir[i]][s].done
  <2>1. Inherits(cat, cat')
    BY <1>1, StepKept DEF Kept
  <2> QED
    BY <2>1 DEF Inherits
<1> QED
  BY <1>1, Invariance, PTL DEF Spec, HistoryFollows

\* MatchKept: the heir of a matched row is matched, and a match is its only identifier
\* (apply_manual_match, _canonical, _sync_identifier_values).
THEOREM MatchKeptAlways ==
  ASSUME FirstTree
  PROVE  Spec => MatchKept
<1>1. ASSUME IInv, [Next]_vars
      PROVE  \A i \in cat.live : cat.manual[i] # Unmatched =>
                LET heir == cat'.heir[i]
                IN  cat'.manual[heir] # Unmatched /\ cat'.ids[heir] = {cat'.manual[heir]}
  <2>1. Inherits(cat, cat') /\ Sound(cat') /\ Sound(cat)
    BY <1>1, StepKept DEF Kept, IInv
  <2>2. ASSUME NEW i \in cat.live, cat.manual[i] # Unmatched
        PROVE  cat'.manual[cat'.heir[i]] # Unmatched /\ cat'.ids[cat'.heir[i]] = {cat'.manual[cat'.heir[i]]}
    <3>1. i \in Rows
      BY <2>1 DEF Sound, Catalog
    <3>2. cat'.heir[i] \in cat'.live /\ cat'.manual[cat'.heir[i]] # Unmatched
      BY <2>1, <2>2, <3>1 DEF Inherits, Sound
    <3> QED
      BY <2>1, <3>2 DEF Sound, Certain
  <2> QED
    BY <2>2
<1> QED
  BY <1>1, Invariance, PTL DEF Spec, MatchKept

\* FilesTell: two movies whose known files contradict each other, as the step reports
\* them, become one only through a third that shares a file with them (_safe_sources).
THEOREM FilesTellAlways ==
  ASSUME FirstTree
  PROVE  Spec => FilesTell
<1>1. ASSUME IInv, [Next]_vars
      PROVE  LET told == [cat EXCEPT !.files = cat'.files, !.avail = cat'.avail]
             IN  \A i, j \in Titles(cat) :
                    Kind[i] = "movie" /\ Contradict(told, i, j) /\ cat'.heir[i] = cat'.heir[j] =>
                       \E k \in Titles(cat) \ {i, j} :
                          cat'.heir[k] = cat'.heir[i] /\ KnownFiles(told, k) \cap KnownFiles(told, i) # {}
  <2> DEFINE told == [cat EXCEPT !.files = cat'.files, !.avail = cat'.avail]
  <2>1. Sound(cat) /\ Repairs(cat, cat') /\ Sound(cat')
    BY <1>1, StepKept DEF IInv
  <2>2. PICK b : Brings(cat, b) /\ Mended(Catalog, b, cat')
    BY <2>1 DEF Repairs
  <2>3. told.at = cat.at /\ told.files = cat'.files /\ told.avail = cat'.avail
    BY <2>1 DEF Sound, Catalog
  <2> HIDE DEF told
  <2>4. b.live = cat.live /\ b.at = told.at /\ b.files = told.files /\ b.avail = told.avail
    BY <2>2, <2>3, MendedMerges DEF Brings, Kept, Merges
  <2>5. \A i : KnownFiles(told, i) = KnownFiles(b, i)
    BY <2>4 DEF KnownFiles, RefsOf
  <2>6. ASSUME NEW i \in Titles(cat), NEW j \in Titles(cat), Kind[i] = "movie", Contradict(told, i, j),
               cat'.heir[i] = cat'.heir[j]
        PROVE  \E k \in Titles(cat) \ {i, j} :
                  cat'.heir[k] = cat'.heir[i] /\ KnownFiles(told, k) \cap KnownFiles(told, i) # {}
    <3>1. /\ KnownFiles(b, i) # {} /\ KnownFiles(b, j) # {} /\ KnownFiles(b, i) \cap KnownFiles(b, j) = {}
          /\ i # j /\ i \in b.live /\ j \in b.live
      BY <2>4, <2>5, <2>6 DEF Contradict, Titles
    <3>2. PICK k \in b.live \ {i} : cat'.heir[k] = cat'.heir[i] /\ KnownFiles(b, k) \cap KnownFiles(b, i) # {}
      BY <2>2, <2>6, <3>1 DEF Mended, Linked
    <3>3. k # j
      BY <3>1, <3>2
    <3>4. i \in Rows /\ k \in Rows /\ k \in cat.live
      BY <2>1, <2>4, <3>1, <3>2 DEF Sound, Catalog
    <3>5. Kind[k] = "movie"
      BY <2>1, <2>6, <3>2, <3>4 DEF Sound
    <3> QED
      BY <2>5, <3>2, <3>3, <3>4, <3>5 DEF Titles
  <2>7. \A i, j \in Titles(cat) :
           Kind[i] = "movie" /\ Contradict(told, i, j) /\ cat'.heir[i] = cat'.heir[j] =>
              \E k \in Titles(cat) \ {i, j} :
                 cat'.heir[k] = cat'.heir[i] /\ KnownFiles(told, k) \cap KnownFiles(told, i) # {}
    BY <2>6
  <2> QED
    BY <2>7 DEF told
<1> QED
  BY <1>1, Invariance, PTL DEF Spec, FilesTell

\* The step of EditionsApart: whatever is brought, the repair merges two rows a server shows
\* only as seasons of one show, or as shows that are held together and what is below them.
LEMMA EditionsStep ==
  ASSUME IInv, OnShelves(cat), [Next]_vars
  PROVE  /\ OnShelves(cat')
         /\ \A r, q \in cat.avail \cap cat'.avail :
               /\ Source[r] = Source[q]
               /\ cat.at[r] # cat.at[q] /\ cat'.at[r] = cat'.at[q]
               /\ ~SeasonsOfOne(cat.at[r], cat.at[q])
               => LET i == cat'.at[r]
                  IN  /\ Kind[i] \in {"show", "season"}
                      /\ HeldTogether(cat', IF Kind[i] = "show" THEN i ELSE cat'.parent[i], Source[r])
<1>1. PICK b : Brings(cat, b) /\ Tidy(Catalog, b, cat')
  BY StepKept DEF Repairs
<1>2. /\ Sound(b) /\ OnShelves(b) /\ b.at = cat.at /\ b.parent = cat.parent
      /\ Joins(Catalog, b, cat') /\ Follows(b, cat')
  BY <1>1 DEF Brings, Kept, Tidy
<1>3. Listed(b) /\ \A q \in b.avail : Kind[b.at[q]] = "season" => Source[q] \in LiveSources(b, b.parent[b.at[q]])
  BY <1>2, ShelvesListed
<1>4. Divided(b, cat') /\ \A i \in b.live : Kind[i] = "season" => Number[cat'.heir[i]] = Number[i]
  BY <1>1, <1>3 DEF Tidy
<1>5. OnShelves(cat')
  BY <1>2, ShelvesFollow
<1>6. ASSUME NEW r \in cat.avail \cap cat'.avail, NEW q \in cat.avail \cap cat'.avail, Source[r] = Source[q],
             cat.at[r] # cat.at[q], cat'.at[r] = cat'.at[q], ~SeasonsOfOne(cat.at[r], cat.at[q])
      PROVE  /\ Kind[cat'.at[r]] \in {"show", "season"}
             /\ HeldTogether(cat', IF Kind[cat'.at[r]] = "show" THEN cat'.at[r] ELSE cat'.parent[cat'.at[r]], Source[r])
  <2> DEFINE i == b.at[r]
             j == b.at[q]
             s == Source[r]
             x == b.parent[i]
             y == b.parent[j]
  <2>1. r \in b.avail /\ q \in b.avail /\ r \in Refs /\ q \in Refs
    BY <1>2 DEF Joins, Sound, Catalog
  <2>2. /\ i \in b.live /\ j \in b.live /\ b.live \subseteq Rows /\ 0 \notin Rows
        /\ i # j /\ ~(Kind[i] = "season" /\ Number[i] = Number[j] /\ x = y)
        /\ Kind[i] = "season" => x \in b.live /\ Kind[x] = "show"
        /\ Kind[j] = "season" => y \in b.live /\ Kind[y] = "show"
    BY <1>2, <1>6, <2>1, SoundRows DEF SeasonsOfOne
  <2>3. s \in LiveSources(b, i) \cap LiveSources(b, j)
    BY <1>6, <2>1 DEF LiveSources, RefsOf
  <2>4. s = Source[r] /\ s = Source[q] /\ b.parent[i] = x /\ b.parent[j] = y
    BY <1>6
  <2>5. /\ Kind[i] = "season" => s \in LiveSources(b, x)
        /\ Kind[j] = "season" => s \in LiveSources(b, y)
    BY <1>3, <1>6, <2>1
  <2> HIDE DEF i, j, s, x, y
  <2>6. /\ cat'.at[r] = cat'.heir[i] /\ cat'.heir[i] = cat'.heir[j]
        /\ Kind[cat'.heir[i]] = Kind[i] /\ Kind[cat'.heir[j]] = Kind[j]
    BY <1>2, <1>6, <2>1, <2>2 DEF Joins, Whole, i, j
  <2>7. CASE Kind[i] # "season"
    <3>1. Kind[i] = "show" /\ HeldTogether(cat', cat'.heir[i], s)
      BY <1>4, <2>2, <2>3, <2>6, <2>7 DEF Divided
    <3> QED
      BY <2>4, <2>6, <3>1
  <2>8. CASE Kind[i] = "season"
    <3>1. Kind[j] = "season"
      BY <2>6, <2>8
    <3>2. Number[i] = Number[j]
      BY <1>4, <2>2, <2>6, <2>8, <3>1
    <3>3. x # y /\ x \in b.live /\ y \in b.live /\ Kind[x] = "show" /\ s \in LiveSources(b, x) \cap LiveSources(b, y)
      BY <2>2, <2>5, <2>8, <3>1, <3>2
    <3>4. cat'.parent[cat'.heir[i]] = cat'.heir[x] /\ cat'.heir[x] = cat'.heir[y]
      BY <1>2, <2>2, <2>4, <2>6, <3>3 DEF Follows
    <3>5. HeldTogether(cat', cat'.heir[x], s)
      BY <1>4, <3>3, <3>4 DEF Divided
    <3> QED
      BY <2>4, <2>6, <2>8, <3>4, <3>5
  <2> QED
    BY <2>7, <2>8
<1>7. ASSUME NEW r \in cat.avail \cap cat'.avail, NEW q \in cat.avail \cap cat'.avail,
             /\ Source[r] = Source[q]
             /\ cat.at[r] # cat.at[q] /\ cat'.at[r] = cat'.at[q]
             /\ ~SeasonsOfOne(cat.at[r], cat.at[q])
      PROVE  LET i == cat'.at[r]
             IN  /\ Kind[i] \in {"show", "season"}
                 /\ HeldTogether(cat', IF Kind[i] = "show" THEN i ELSE cat'.parent[i], Source[r])
  BY <1>6, <1>7
<1> QED
  BY <1>5, <1>7

\* EditionsApart: two entries a server shows stay two titles and two episodes, whatever is
\* merged, but for shows that are held together and seasons of one show (_safe_sources,
\* _split_show_has_file_anchor, _merge_hierarchy).
THEOREM EditionsApartAlways ==
  ASSUME FirstTree, FirstShelves
  PROVE  Spec => EditionsApart
<1>1. Init => OnShelves(cat)
  <2>1. SUFFICES ASSUME Init PROVE OnShelves(cat)
    OBVIOUS
  <2>2. cat.at = FirstAt /\ cat.parent = FirstParent /\ cat.avail = FirstSeen
    BY <2>1 DEF Init, FirstCatalog
  <2> QED
    BY <2>2 DEF FirstShelves, OnShelves, Shelved, Stocked, ShowOver
<1>2. ASSUME IInv, OnShelves(cat), [Next]_vars PROVE OnShelves(cat)'
  BY <1>2, EditionsStep
<1>3. ASSUME IInv, OnShelves(cat), [Next]_vars
      PROVE  \A r, q \in cat.avail \cap cat'.avail :
                /\ Source[r] = Source[q]
                /\ cat.at[r] # cat.at[q] /\ cat'.at[r] = cat'.at[q]
                /\ ~SeasonsOfOne(cat.at[r], cat.at[q])
                => LET i == cat'.at[r]
                   IN  /\ Kind[i] \in {"show", "season"}
                       /\ HeldTogether(cat', IF Kind[i] = "show" THEN i ELSE cat'.parent[i], Source[r])
  BY <1>3, EditionsStep
<1>4. Init => IInv
  BY InitSound
<1>5. ASSUME IInv, [Next]_vars PROVE IInv'
  BY <1>5, StepKept
<1> QED
  BY <1>1, <1>2, <1>3, <1>4, <1>5, PTL DEF Spec, EditionsApart
===============================================================================
