------------------------ MODULE CatalogProjectionProofs ------------------------
(* Theorems about CatalogProjection, for catalogs, groups and histories of any  *)
(* size: what is served as clean is what a full rebuild would give, a card never*)
(* shows what must stay apart, and no play is forgotten.                        *)
(*                                                                              *)
(* The cards are a partition of the rows (MembersOf) that depends on the        *)
(* identity of the catalog only (MembersSame); a play or a state changes cards  *)
(* of its lineage only (CurrentKept), and those are the ones that a partial     *)
(* refresh computes anew (RefreshedCurrent).                                    *)
EXTENDS CatalogProjection, CatalogMergeProofs

-------------------------------------------------------------------------------
(* Groups of rows.                                                             *)

Alike(G) == \A i, j \in G : Kind[i] = Kind[j]

\* Sets of rows of one kind, of which every row is in exactly one.
Partition(P, rows) ==
  /\ \A G \in P : G # {} /\ G \subseteq rows /\ Alike(G)
  /\ \A i \in rows : \E G \in P : i \in G
  /\ \A G, H \in P : G \cap H # {} => G = H

JoinedBy(parts, G) == {UNION {P \in parts : P \cap G # {}}} \cup {P \in parts : P \cap G = {}}
Some(S) == CHOOSE x \in S : TRUE
PartsLoop(f, rows, groups) ==
  /\ f[{}] = {{i} : i \in rows}
  /\ \A s \in SUBSET groups : s # {} => f[s] = JoinedBy(f[s \ {Some(s)}], Some(s))
  /\ Parts(rows, groups) = f[groups]

\* The rows alone are a partition.
LEMMA Singletons ==
  ASSUME NEW rows
  PROVE  Partition({{i} : i \in rows}, rows)
BY DEF Partition, Alike

\* Joining what a group of one kind meets leaves a partition.
LEMMA JoinedPartition ==
  ASSUME NEW rows, NEW P, Partition(P, rows), NEW G, G # {}, G \subseteq rows, Alike(G)
  PROVE  Partition(JoinedBy(P, G), rows)
<1> DEFINE met == {A \in P : A \cap G # {}}
           rest == {A \in P : A \cap G = {}}
           U == UNION met
<1>1. JoinedBy(P, G) = {U} \cup rest
  BY DEF JoinedBy
<1>2. \A A \in P : A # {} /\ A \subseteq rows /\ Alike(A)
  BY DEF Partition
<1>3. U # {} /\ U \subseteq rows
  <2>1. PICK g \in G : TRUE
    OBVIOUS
  <2>2. PICK A \in P : g \in A
    BY <2>1 DEF Partition
  <2> QED
    BY <1>2, <2>1, <2>2
<1>4. PICK k : \A g \in G : Kind[g] = k
  BY DEF Alike
<1>5. \A i \in U : Kind[i] = k
  <2>1. SUFFICES ASSUME NEW A \in met, NEW i \in A PROVE Kind[i] = k
    OBVIOUS
  <2>2. PICK g \in G : g \in A
    OBVIOUS
  <2> QED
    BY <1>2, <1>4, <2>2 DEF Alike
<1>6. \A A \in rest : A \cap U = {}
  BY DEF Partition
<1> HIDE DEF U
<1>7. \A A \in JoinedBy(P, G) : A # {} /\ A \subseteq rows /\ Alike(A)
  BY <1>1, <1>2, <1>3, <1>5 DEF Alike
<1>8. \A i \in rows : \E A \in JoinedBy(P, G) : i \in A
  <2>1. SUFFICES ASSUME NEW i \in rows PROVE \E A \in {U} \cup rest : i \in A
    BY <1>1
  <2>2. PICK A \in P : i \in A
    BY DEF Partition
  <2>3. A \in rest \/ A \subseteq U
    BY DEF U
  <2> QED
    BY <2>2, <2>3
<1>9. \A A, B \in JoinedBy(P, G) : A \cap B # {} => A = B
  <2>1. \A A, B \in rest : A \cap B # {} => A = B
    BY DEF Partition
  <2> HIDE DEF rest
  <2> QED
    BY <1>1, <1>6, <2>1
<1> QED
  BY <1>7, <1>8, <1>9 DEF Partition

\* _UnionFind computes such a function.
LEMMA PartsFold ==
  ASSUME NEW rows, NEW groups, IsFiniteSet(groups), \A G \in groups : G \subseteq rows
  PROVE  \E f : PartsLoop(f, rows, groups)
<1> DEFINE C == SUBSET SUBSET rows
           c == {{i} : i \in rows}
           last == [s \in SUBSET groups |-> Some(s)]
           F == [x \in C \X groups |-> JoinedBy(x[1], x[2])]
           Step(f, s) == IF s = {} THEN c ELSE JoinedBy(f[s \ {Some(s)}], Some(s))
           Is(f) == f = [s \in SUBSET groups |-> Step(f, s)]
           iter == CHOOSE f : Is(f)
<1>1. \A s \in SUBSET groups : s # {} => last[s] \in s /\ last[s] = Some(s)
  BY DEF Some
<1>2. F \in [C \X groups -> C] /\ c \in C
  <2>1. \A P \in C, G \in groups : JoinedBy(P, G) \in C
    BY DEF JoinedBy
  <2> HIDE DEF C
  <2>2. F \in [C \X groups -> C]
    BY <2>1
  <2>3. c \in C
    BY DEF C
  <2> QED
    BY <2>2, <2>3
<1>3. PICK f \in [SUBSET groups -> C] : Unfolds(f, groups, last, c, F)
  <2> HIDE DEF F, last, C, c
  <2> QED
    BY <1>1, <1>2, FoldExists
<1>4. \A s \in SUBSET groups : f[s] = Step(f, s)
  <2>1. SUFFICES ASSUME NEW s \in SUBSET groups, s # {} PROVE f[s] = JoinedBy(f[s \ {Some(s)}], Some(s))
    BY <1>3 DEF Unfolds
  <2>2. last[s] \in groups /\ last[s] = Some(s) /\ f[s \ {last[s]}] \in C
    <3>1. f \in [SUBSET groups -> C] /\ s \ {last[s]} \in SUBSET groups
      BY <1>3
    <3> HIDE DEF C, last
    <3> QED
      BY <1>1, <2>1, <3>1
  <2>3. f[s] = F[<<f[s \ {last[s]}], last[s]>>]
    BY <1>3, <2>1 DEF Unfolds
  <2> HIDE DEF last, C
  <2>4. \A P \in C, G \in groups : F[<<P, G>>] = JoinedBy(P, G)
    OBVIOUS
  <2> HIDE DEF F
  <2> QED
    BY <2>2, <2>3, <2>4
<1>5. Is(f)
  <2> HIDE DEF Step, C
  <2> QED
    BY <1>4
<1>6. Is(iter)
  <2> HIDE DEF Is
  <2> QED
    BY <1>5, Zenon
<1>7. Parts(rows, groups) = iter[groups]
  BY DEF Parts, FoldSet, MapThenFoldSet, JoinedBy, Some
<1>8. \A s \in SUBSET groups : iter[s] = Step(iter, s)
  <2> HIDE DEF Step, iter
  <2> QED
    BY <1>6
<1>9. /\ iter[{}] = {{i} : i \in rows}
      /\ \A s \in SUBSET groups : s # {} => iter[s] = JoinedBy(iter[s \ {Some(s)}], Some(s))
  <2> HIDE DEF iter
  <2> QED
    BY <1>8
<1>10. PartsLoop(iter, rows, groups)
  <2> HIDE DEF iter
  <2> QED
    BY <1>7, <1>9 DEF PartsLoop
<1> HIDE DEF iter
<1> QED
  BY <1>10

\* So it leaves a partition.
LEMMA PartsPartition ==
  ASSUME NEW rows, NEW groups, IsFiniteSet(groups),
         \A G \in groups : G # {} /\ G \subseteq rows /\ Alike(G)
  PROVE  Partition(Parts(rows, groups), rows)
<1> DEFINE last == [s \in SUBSET groups |-> Some(s)]
<1>1. PICK f : PartsLoop(f, rows, groups)
  BY PartsFold
<1> USE DEF PartsLoop
<1> DEFINE Q == {s \in SUBSET groups : Partition(f[s], rows)}
<1>2. {} \in Q
  BY <1>1, Singletons
<1>3. \A s \in SUBSET groups : s # {} => last[s] \in s /\ last[s] = Some(s)
  BY DEF Some
<1>4. ASSUME NEW s \in SUBSET groups, s # {}, s \ {last[s]} \in Q PROVE s \in Q
  <2> DEFINE b == f[s \ {Some(s)}]
  <2>1. f[s] = JoinedBy(b, Some(s)) /\ Some(s) \in groups /\ Partition(b, rows)
    BY <1>1, <1>3, <1>4
  <2> HIDE DEF b
  <2>2. Partition(f[s], rows)
    BY <2>1, JoinedPartition
  <2> QED
    BY <2>2
<1>5. groups \in Q
  <2> HIDE DEF Q, last
  <2> QED
    BY <1>2, <1>3, <1>4, OrderedInduction
<1> QED
  BY <1>1, <1>5

\* The groups found are groups of rows of one kind.
LEMMA IdentityGroups ==
  ASSUME NEW c \in Catalog
  PROVE  IsFiniteSet(Identity(c)) /\ \A G \in Identity(c) : G # {} /\ G \subseteq Shown(c) /\ Alike(G)
<1> DEFINE bare == {i \in Shown(c) : StableIds(c, i) = {}}
           Having(j, x) == {i \in Shown(c) : Kind[i] = Kind[j] /\ x \in c.ids[i]}
           byId == UNION {{Having(j, x) : x \in StableIds(c, j)} : j \in Shown(c)}
           Titled(i) == {j \in bare : TitleKey(c, j) = TitleKey(c, i)}
           byTitle == {Titled(i) : i \in bare}
<1>1. Identity(c) = {G \in byId \cup byTitle : SafeGroup(c, G)}
  BY DEF Identity
<1>2. ASSUME NEW j \in Shown(c), NEW x \in StableIds(c, j)
      PROVE  Having(j, x) # {} /\ Having(j, x) \subseteq Shown(c) /\ Alike(Having(j, x))
  <2>1. j \in Having(j, x)
    BY DEF StableIds
  <2> QED
    BY <2>1 DEF Alike
<1>3. ASSUME NEW i \in bare
      PROVE  Titled(i) # {} /\ Titled(i) \subseteq Shown(c) /\ Alike(Titled(i))
  <2>1. \A j \in Titled(i) : Kind[j] = Kind[i]
    BY DEF TitleKey
  <2> QED
    BY <2>1 DEF Alike
<1> HIDE DEF bare, Having, Titled
<1>4. \A G \in Identity(c) : G # {} /\ G \subseteq Shown(c) /\ Alike(G)
  BY <1>1, <1>2, <1>3
<1>5. Identity(c) \subseteq SUBSET Rows
  <2>1. Shown(c) \subseteq Rows
    BY DEF Shown, Catalog
  <2> QED
    BY <1>4, <2>1
<1>6. IsFiniteSet(SUBSET Rows)
  BY RowsAssumption, FS_SUBSET
<1> QED
  BY <1>4, <1>5, <1>6, FS_Subset

\* The groups of the cards are a partition of the rows shown, and each is safe.
LEMMA GroupsPartition ==
  ASSUME NEW c \in Catalog
  PROVE  Partition(Groups(c), Shown(c)) /\ \A G \in Groups(c) : SafeGroup(c, G)
<1> DEFINE P == Parts(Shown(c), Identity(c))
           Split(G) == IF SafeGroup(c, G) THEN {G} ELSE {{i} : i \in G}
<1>1. Groups(c) = UNION {Split(G) : G \in P}
  BY DEF Groups
<1>2. Partition(P, Shown(c))
  BY IdentityGroups, PartsPartition
<1> HIDE DEF P
<1>3. ASSUME NEW i PROVE SafeGroup(c, {i})
  <2>1. Cardinality({i}) = 1
    BY FS_Singleton
  <2>2. Cardinality({i}) < 2
    BY <2>1
  <2> QED
    BY <2>2 DEF SafeGroup
<1>4. \A G \in P : \A H \in Split(G) : H # {} /\ H \subseteq G /\ SafeGroup(c, H) /\ (H = G \/ \E i \in G : H = {i})
  <2>1. \A G \in P : G # {}
    BY <1>2 DEF Partition
  <2> QED
    BY <1>3, <2>1
<1>5. \A G \in P : \A i \in G : \E H \in Split(G) : i \in H
  OBVIOUS
<1>6. ASSUME NEW G \in P, NEW H \in Split(G), NEW K \in Split(G), H \cap K # {} PROVE H = K
  <2>1. CASE SafeGroup(c, G)
    BY <1>6, <2>1
  <2>2. CASE ~SafeGroup(c, G)
    <3>1. PICK i, j : H = {i} /\ K = {j}
      BY <2>2
    <3> QED
      BY <1>6, <3>1
  <2> QED
    BY <2>1, <2>2
<1> HIDE DEF Split
<1>7. ASSUME NEW H \in Groups(c) PROVE H # {} /\ H \subseteq Shown(c) /\ Alike(H) /\ SafeGroup(c, H)
  <2>1. PICK G \in P : H \in Split(G)
    BY <1>1
  <2> QED
    BY <1>2, <1>4, <2>1 DEF Partition, Alike
<1>8. ASSUME NEW i \in Shown(c) PROVE \E H \in Groups(c) : i \in H
  <2>1. PICK G \in P : i \in G
    BY <1>2 DEF Partition
  <2> QED
    BY <1>1, <1>5, <2>1
<1>9. ASSUME NEW H \in Groups(c), NEW K \in Groups(c), H \cap K # {} PROVE H = K
  <2>1. PICK G \in P : H \in Split(G)
    BY <1>1
  <2>2. PICK F \in P : K \in Split(F)
    BY <1>1
  <2>3. G \cap F # {}
    BY <1>4, <1>9, <2>1, <2>2
  <2>4. G = F
    BY <1>2, <2>3 DEF Partition
  <2> QED
    BY <1>6, <1>9, <2>1, <2>2, <2>4
<1> QED
  BY <1>7, <1>8, <1>9 DEF Partition

\* The row of a card is one of its group.
LEMMA CardRowIn ==
  ASSUME NEW c, NEW G \in SUBSET Rows, G # {}
  PROVE  CardRow(c, G) \in G
<1> DEFINE matched == {i \in G : c.manual[i] # Unmatched}
           had == {i \in G : \E r \in RefsOf(c, i) : Source[r] \in PlexSources}
           P == Prefer(G, matched)
           T == Prefer(P, had)
<1>1. CardRow(c, G) = Min(T)
  BY DEF CardRow
<1>2. P # {} /\ P \subseteq G
  BY PreferIn
<1>3. T # {} /\ T \subseteq P
  <2> HIDE DEF P, had
  <2> QED
    BY <1>2, PreferIn
<1> HIDE DEF P, T
<1>4. T \in SUBSET Nat
  BY <1>2, <1>3, RowsAssumption
<1> QED
  BY <1>1, <1>2, <1>3, <1>4, MinIn

\* Cards by their rows: each row shown is on one card, a row of its own kind, and the
\* rows of a card are a safe group.
LEMMA MembersOf ==
  ASSUME NEW c \in Catalog, NEW m, m = Members(c)
  PROVE  /\ m \in [Shown(c) -> Shown(c)] /\ \A i \in Shown(c) : Kind[m[i]] = Kind[i]
         /\ \A k \in Shown(c) : SafeGroup(c, {i \in DOMAIN m : m[i] = m[k]})
<1> DEFINE Of(i) == CHOOSE G \in Groups(c) : i \in G
<1>1. m = [i \in Shown(c) |-> CardRow(c, Of(i))]
  BY DEF Members
<1>2. Partition(Groups(c), Shown(c)) /\ \A G \in Groups(c) : SafeGroup(c, G)
  BY GroupsPartition
<1>3. ASSUME NEW i \in Shown(c) PROVE Of(i) \in Groups(c) /\ i \in Of(i)
  <2>1. \E G \in Groups(c) : i \in G
    BY <1>2 DEF Partition
  <2> QED
    BY <2>1
<1>4. \A i \in Shown(c), G \in Groups(c) : i \in G => G = Of(i)
  <2> HIDE DEF Of
  <2> QED
    BY <1>2, <1>3 DEF Partition
<1> HIDE DEF Of
<1>5. \A G \in Groups(c) : G # {} /\ G \subseteq Shown(c) /\ Alike(G)
  BY <1>2 DEF Partition
<1>6. Shown(c) \subseteq Rows
  BY DEF Shown, Catalog
<1>7. \A i \in Shown(c) : m[i] = CardRow(c, Of(i)) /\ m[i] \in Of(i) /\ m[i] \in Shown(c) /\ Kind[m[i]] = Kind[i]
  <2>1. SUFFICES ASSUME NEW i \in Shown(c)
                 PROVE  CardRow(c, Of(i)) \in Of(i) /\ CardRow(c, Of(i)) \in Shown(c)
                        /\ Kind[CardRow(c, Of(i))] = Kind[i]
    BY <1>1
  <2>2. Of(i) \in Groups(c) /\ i \in Of(i)
    BY <1>3
  <2>3. CardRow(c, Of(i)) \in Of(i)
    BY <1>5, <1>6, <2>2, CardRowIn
  <2> QED
    BY <1>5, <2>2, <2>3 DEF Alike
<1>8. ASSUME NEW k \in Shown(c) PROVE {i \in DOMAIN m : m[i] = m[k]} = Of(k)
  <2>1. \A i \in Of(k) : i \in Shown(c) /\ Of(i) = Of(k)
    BY <1>3, <1>4, <1>5
  <2>2. \A i \in Of(k) : m[i] = m[k]
    BY <1>7, <2>1
  <2>3. ASSUME NEW i \in Shown(c), m[i] = m[k] PROVE i \in Of(k)
    <3>1. Of(i) = Of(k)
      BY <1>2, <1>3, <1>7, <2>3 DEF Partition
    <3> QED
      BY <1>3, <3>1
  <2> QED
    BY <1>1, <2>1, <2>2, <2>3
<1>9. \A k \in Shown(c) : SafeGroup(c, {i \in DOMAIN m : m[i] = m[k]})
  BY <1>2, <1>3, <1>8
<1> QED
  BY <1>1, <1>7, <1>9

-------------------------------------------------------------------------------
(* What the cards depend on.                                                   *)

\* Catalogs that differ in plays and states only.
SameIdentity(c, d) ==
  /\ d.live = c.live /\ d.parent = c.parent /\ d.ids = c.ids /\ d.manual = c.manual
  /\ d.at = c.at /\ d.avail = c.avail /\ d.files = c.files

\* They show the same rows, of the same sources and files.
LEMMA SameRows ==
  ASSUME NEW c, NEW d, SameIdentity(c, d)
  PROVE  /\ Shown(d) = Shown(c)
         /\ \A i : RefsOf(d, i) = RefsOf(c, i) /\ LiveSources(d, i) = LiveSources(c, i)
         /\ \A i : KnownFiles(d, i) = KnownFiles(c, i) /\ StableIds(d, i) = StableIds(c, i)
         /\ \A i : TitleKey(d, i) = TitleKey(c, i) /\ TitleOf(d, i) = TitleOf(c, i)
         /\ \A i : Lineage(d, i) = Lineage(c, i)
         /\ \A G : SafeGroup(d, G) <=> SafeGroup(c, G)
<1>1. /\ Shown(d) = Shown(c)
      /\ \A i : RefsOf(d, i) = RefsOf(c, i)
      /\ \A i : TitleKey(d, i) = TitleKey(c, i) /\ TitleOf(d, i) = TitleOf(c, i)
      /\ \A i : StableIds(d, i) = StableIds(c, i)
  BY DEF SameIdentity, Shown, RefsOf, TitleKey, TitleOf, StableIds
<1>2. \A i : LiveSources(d, i) = LiveSources(c, i) /\ KnownFiles(d, i) = KnownFiles(c, i)
  BY <1>1 DEF SameIdentity, LiveSources, KnownFiles
<1>3. \A i : Lineage(d, i) = Lineage(c, i)
  BY DEF SameIdentity, Lineage
<1>4. \A G : SafeGroup(d, G) <=> SafeGroup(c, G)
  <2>1. \A G : {d.manual[i] : i \in G} = {c.manual[i] : i \in G}
    BY DEF SameIdentity
  <2>2. \A i, j : Contradict(d, i, j) <=> Contradict(c, i, j)
    BY <1>2 DEF Contradict
  <2> QED
    BY <1>1, <1>2, <2>1, <2>2 DEF SafeGroup
<1> QED
  BY <1>1, <1>2, <1>3, <1>4

\* They have the same cards.
LEMMA MembersSame ==
  ASSUME NEW c, NEW d, SameIdentity(c, d)
  PROVE  Members(d) = Members(c)
<1> USE SameRows
<1>1. Identity(d) = Identity(c)
  <2> DEFINE Bare(e) == {i \in Shown(e) : StableIds(e, i) = {}}
             Having(e, j, x) == {i \in Shown(e) : Kind[i] = Kind[j] /\ x \in e.ids[i]}
             ById(e) == UNION {{Having(e, j, x) : x \in StableIds(e, j)} : j \in Shown(e)}
             Titled(e, i) == {j \in Bare(e) : TitleKey(e, j) = TitleKey(e, i)}
             ByTitle(e) == {Titled(e, i) : i \in Bare(e)}
  <2>1. \A j, x : Having(d, j, x) = Having(c, j, x)
    BY DEF SameIdentity
  <2>2. Bare(d) = Bare(c)
    OBVIOUS
  <2>3. \A i : Titled(d, i) = Titled(c, i)
    BY <2>2
  <2>4. /\ Identity(c) = {G \in ById(c) \cup ByTitle(c) : SafeGroup(c, G)}
        /\ Identity(d) = {G \in ById(d) \cup ByTitle(d) : SafeGroup(d, G)}
    BY DEF Identity
  <2> HIDE DEF Having, Bare, Titled
  <2>5. ById(d) = ById(c)
    BY <2>1
  <2>6. ByTitle(d) = ByTitle(c)
    BY <2>2, <2>3
  <2> HIDE DEF ById, ByTitle
  <2> QED
    BY <2>4, <2>5, <2>6
<1>2. Groups(d) = Groups(c)
  BY <1>1 DEF Groups
<1>3. \A G : CardRow(d, G) = CardRow(c, G)
  <2>1. \A G : {i \in G : d.manual[i] # Unmatched} = {i \in G : c.manual[i] # Unmatched}
    BY DEF SameIdentity
  <2>2. \A G : {i \in G : \E r \in RefsOf(d, i) : Source[r] \in PlexSources}
             = {i \in G : \E r \in RefsOf(c, i) : Source[r] \in PlexSources}
    OBVIOUS
  <2> QED
    BY <2>1, <2>2 DEF CardRow
<1> QED
  BY <1>2, <1>3 DEF Members

-------------------------------------------------------------------------------
(* Which cards a play or a state changes.                                      *)

Cards(m) == {m[i] : i \in DOMAIN m}
RowsOf(m, k) == {i \in DOMAIN m : m[i] = k}
Told(c, m) == [k \in Cards(m) |-> Completions(c, m, k)]
Spans(c, m, k) ==
  \E i \in DOMAIN m : /\ m[i] \in Episodes(c, m, k)
                      /\ TitleOf(c, i) \in DOMAIN m /\ m[TitleOf(c, i)] # k

\* A card that says what a rebuild would say, but for the finished episodes of a show
\* that shares some with another.
Current(c, m, old, k) ==
  LET now == Summary(c, m, k, Told(c, m))
  IN  old[k] = IF Spans(c, m, k) THEN [now EXCEPT !.finished = old[k].finished] ELSE now

\* From c to d, plays and states of the rows of T change and nothing else.
Touches(c, d, T) ==
  /\ SameIdentity(c, d)
  /\ \A i \in Rows \ T : d.state[i] = c.state[i]
  /\ \A p \in d.plays : p.row \notin T => p \in c.plays
  /\ \A p \in c.plays : p.row \notin T => p \in d.plays

\* A rebuild is one summary after the other.
LEMMA RebuiltCards ==
  ASSUME NEW c, NEW m
  PROVE  Rebuilt(c, m) = [k \in Cards(m) |-> Summary(c, m, k, Told(c, m))]
BY DEF Rebuilt, Cards, Told

\* The completions of other cards are told apart in one field of a summary only.
LEMMA SummaryKnown ==
  ASSUME NEW c, NEW m, NEW k, NEW x, NEW y
  PROVE  /\ \A z : [Summary(c, m, k, x) EXCEPT !.finished = z] = [Summary(c, m, k, y) EXCEPT !.finished = z]
         /\ (\A e \in Episodes(c, m, k) : x[e] = y[e]) => Summary(c, m, k, x) = Summary(c, m, k, y)
<1> DEFINE Finished(u) == {e \in Episodes(c, m, k) : u[e] > 0}
           a == Completions(c, m, k)
           b == Summary(c, m, k, x).pos
           l == Summary(c, m, k, x).last
           s == Summary(c, m, k, x).shown
           n == Cardinality(Episodes(c, m, k))
<1>1. \A u : Summary(c, m, k, u) = [count |-> a, pos |-> b, last |-> l, shown |-> s, children |-> n,
                                    finished |-> Cardinality(Finished(u))]
  BY DEF Summary
<1>2. (\A e \in Episodes(c, m, k) : x[e] = y[e]) => Finished(x) = Finished(y)
  OBVIOUS
<1> HIDE DEF Finished, a, b, l, s, n
<1> QED
  BY <1>1, <1>2

\* A card none of whose rows is touched keeps its completions.
LEMMA CompletionsSame ==
  ASSUME NEW c, NEW d, NEW T, Touches(c, d, T), NEW m, DOMAIN m \subseteq Rows,
         NEW k, RowsOf(m, k) \cap T = {}
  PROVE  Completions(d, m, k) = Completions(c, m, k)
<1> DEFINE G == RowsOf(m, k)
<1>1. G \subseteq Rows \ T
  BY DEF RowsOf
<1> DEFINE Plays(e) == {p \in e.plays : p.row \in G}
           Views(e) == {IF e.state[i][s].done THEN e.state[i][s].views ELSE 0 : i \in G, s \in Sources}
<1>2. \A e : Completions(e, m, k) = Top({Cardinality(Plays(e))} \cup Views(e))
  BY DEF Completions, RowsOf
<1> HIDE DEF G
<1>3. Plays(d) = Plays(c)
  BY <1>1 DEF Touches
<1>4. Views(d) = Views(c)
  <2>1. \A i \in G : d.state[i] = c.state[i]
    BY <1>1 DEF Touches
  <2> QED
    BY <2>1
<1> HIDE DEF Plays, Views
<1> QED
  BY <1>2, <1>3, <1>4

\* A row that is not touched keeps its activity.
LEMMA ActivitySame ==
  ASSUME NEW c, NEW d, NEW T, Touches(c, d, T), NEW i \in Rows \ T
  PROVE  Activity(d, i) = Activity(c, i)
<1>1. {q \in d.plays : q.row = i} = {q \in c.plays : q.row = i}
  BY DEF Touches
<1>2. d.state[i] = c.state[i]
  BY DEF Touches
<1> QED
  BY <1>1, <1>2 DEF Activity

\* A card to which no touched row belongs, nor one below its rows.
LEMMA NotImpacted ==
  ASSUME NEW c, c.live \subseteq Rows, NEW m, DOMAIN m \subseteq c.live, NEW T, NEW k, k \notin Impacted(c, m, T)
  PROVE  /\ RowsOf(m, k) \cap T = {}
         /\ \A j \in c.live : Lineage(c, j) \cap RowsOf(m, k) # {} => j \notin T
<1>1. ASSUME NEW j \in c.live, NEW i \in Lineage(c, j), i \in RowsOf(m, k), j \in T PROVE FALSE
  <2>1. i \in (UNION {Lineage(c, n) : n \in T \cap c.live}) \cap DOMAIN m /\ m[i] = k
    BY <1>1 DEF RowsOf
  <2> QED
    BY <2>1 DEF Impacted
<1>2. ASSUME NEW j \in RowsOf(m, k) PROVE j \in Lineage(c, j) /\ j \in c.live
  BY RowsAssumption DEF Lineage, RowsOf
<1> QED
  BY <1>1, <1>2

\* Such a card keeps its summary, what is told of the others being the same.
LEMMA SummarySame ==
  ASSUME NEW c, c.live \subseteq Rows, NEW d, NEW T, Touches(c, d, T),
         NEW m, DOMAIN m \subseteq c.live, NEW k, k \notin Impacted(c, m, T), NEW known
  PROVE  Summary(d, m, k, known) = Summary(c, m, k, known)
<1> DEFINE G == RowsOf(m, k)
           Pos(e) == {IF e.state[i][s].done THEN 0 ELSE e.state[i][s].pos : i \in G, s \in Sources}
           Below(e) == {j \in e.live : Lineage(e, j) \cap G # {}}
           Last(e) == {Activity(e, i) : i \in Below(e)}
           Shows(e) == UNION {LiveSources(e, i) : i \in G}
           Done(e) == {x \in Episodes(e, m, k) : known[x] > 0}
<1>1. \A e : Summary(e, m, k, known) =
               [count |-> Completions(e, m, k), pos |-> Top(Pos(e)), last |-> Top(Last(e)), shown |-> Shows(e),
                children |-> Cardinality(Episodes(e, m, k)), finished |-> Cardinality(Done(e))]
  BY DEF Summary, RowsOf
<1>2. G \cap T = {} /\ \A j \in c.live : Lineage(c, j) \cap G # {} => j \notin T
  BY NotImpacted
<1>3. G \subseteq Rows
  BY DEF RowsOf
<1>4. SameIdentity(c, d) /\ d.live = c.live /\ \A i \in Rows \ T : d.state[i] = c.state[i]
  BY DEF Touches, SameIdentity
<1>5. Completions(d, m, k) = Completions(c, m, k)
  BY <1>2, CompletionsSame
<1> HIDE DEF G
<1>6. Pos(d) = Pos(c)
  <2>1. \A i \in G : d.state[i] = c.state[i]
    BY <1>2, <1>3, <1>4
  <2> QED
    BY <2>1
<1>7. Below(d) = Below(c)
  BY <1>4, SameRows
<1>8. Last(d) = Last(c)
  <2>1. \A i \in Below(c) : Activity(d, i) = Activity(c, i)
    BY <1>2, ActivitySame
  <2> HIDE DEF Below
  <2> QED
    BY <1>7, <2>1
<1>9. Shows(d) = Shows(c)
  BY <1>4, SameRows
<1>10. Episodes(d, m, k) = Episodes(c, m, k)
  BY <1>4, SameRows DEF Episodes
<1>11. Done(d) = Done(c)
  BY <1>10
<1> HIDE DEF Pos, Last, Shows, Done
<1> QED
  BY <1>1, <1>5, <1>6, <1>8, <1>9, <1>10, <1>11

\* The show of an episode is shown.
LEMMA TitleShown ==
  ASSUME NEW c, Sound(c), NEW i \in Shown(c), Kind[i] = "episode"
  PROVE  TitleOf(c, i) \in Shown(c) /\ TitleOf(c, i) \in Lineage(c, i)
<1>1. i \in c.live /\ c.live \subseteq Rows /\ \A j \in c.live : j # 0 /\ Rooted(c, j)
  BY RowsAssumption DEF Shown, Sound, Catalog
<1>2. c.parent[i] \in c.live /\ Kind[c.parent[i]] = "season"
  BY <1>1 DEF Rooted
<1>3. c.parent[c.parent[i]] \in c.live /\ Kind[c.parent[c.parent[i]]] = "show"
  BY <1>1, <1>2 DEF Rooted
<1> QED
  BY <1>1, <1>2, <1>3 DEF TitleOf, Lineage, Shown

\* What is told of the episodes of a show that shares none stays as it is.
LEMMA ToldSame ==
  ASSUME NEW c, Sound(c), NEW d, NEW T, Touches(c, d, T), NEW m, m = Members(c),
         NEW k, k \notin Impacted(c, m, T), ~Spans(c, m, k), NEW e \in Episodes(c, m, k)
  PROVE  Told(d, m)[e] = Told(c, m)[e]
<1>1. c \in Catalog /\ c.live \subseteq Rows /\ Shown(c) \subseteq c.live
  BY DEF Sound, Catalog, Shown
<1>2. m \in [Shown(c) -> Shown(c)] /\ \A i \in Shown(c) : Kind[m[i]] = Kind[i]
  BY <1>1, MembersOf
<1>3. PICK x \in Shown(c) : m[x] = e /\ Kind[x] = "episode"
  BY <1>2 DEF Episodes
<1>4. ASSUME NEW i \in RowsOf(m, e), i \in T PROVE FALSE
  <2>1. i \in Shown(c) /\ m[i] = e /\ Kind[i] = "episode"
    BY <1>2, <1>3 DEF RowsOf
  <2>2. TitleOf(c, i) \in DOMAIN m /\ TitleOf(c, i) \in Lineage(c, i)
    BY <1>2, <2>1, TitleShown
  <2>3. m[TitleOf(c, i)] = k
    BY <1>2, <2>1, <2>2 DEF Spans
  <2>4. TitleOf(c, i) \in RowsOf(m, k) /\ i \in c.live
    BY <1>1, <2>1, <2>2, <2>3 DEF RowsOf
  <2>5. DOMAIN m \subseteq c.live
    BY <1>1, <1>2
  <2> QED
    BY <1>1, <1>4, <2>2, <2>4, <2>5, NotImpacted
<1>5. e \in Cards(m)
  BY <1>2, <1>3 DEF Cards
<1>6. DOMAIN m \subseteq Rows /\ RowsOf(m, e) \cap T = {}
  BY <1>1, <1>2, <1>4
<1>7. Completions(d, m, e) = Completions(c, m, e)
  BY <1>6, CompletionsSame
<1> QED
  BY <1>5, <1>7 DEF Told

\* So a play or a state leaves the cards that are not impacted as current as they were.
LEMMA CurrentKept ==
  ASSUME NEW c, Sound(c), NEW d, NEW T, Touches(c, d, T), NEW m, m = Members(c),
         NEW k, k \notin Impacted(c, m, T), NEW old, Current(c, m, old, k)
  PROVE  Current(d, m, old, k)
<1>1. c \in Catalog /\ c.live \subseteq Rows /\ SameIdentity(c, d)
  BY DEF Sound, Catalog, Touches
<1>2. DOMAIN m \subseteq c.live
  BY <1>1, MembersOf DEF Shown
<1>3. Spans(d, m, k) <=> Spans(c, m, k)
  BY <1>1, SameRows DEF Spans, Episodes
<1> DEFINE x == Told(c, m)
           y == Told(d, m)
<1>4. Summary(d, m, k, y) = Summary(c, m, k, y)
  BY <1>1, <1>2, SummarySame
<1>5. CASE Spans(c, m, k)
  <2> DEFINE z == old[k].finished
  <2>1. old[k] = [Summary(c, m, k, x) EXCEPT !.finished = z]
    BY <1>5 DEF Current
  <2> HIDE DEF x, y, z
  <2>2. [Summary(c, m, k, x) EXCEPT !.finished = z] = [Summary(c, m, k, y) EXCEPT !.finished = z]
    BY SummaryKnown
  <2>3. old[k] = [Summary(d, m, k, y) EXCEPT !.finished = z]
    BY <1>4, <2>1, <2>2
  <2> QED
    BY <1>3, <1>5, <2>3 DEF Current, y, z
<1>6. CASE ~Spans(c, m, k)
  <2>1. \A e \in Episodes(c, m, k) : x[e] = y[e]
    BY <1>6, ToldSame
  <2>2. old[k] = Summary(c, m, k, x)
    BY <1>6 DEF Current
  <2> HIDE DEF x, y
  <2>3. Summary(c, m, k, x) = Summary(c, m, k, y)
    BY <2>1, SummaryKnown
  <2>4. old[k] = Summary(d, m, k, y)
    BY <1>4, <2>2, <2>3
  <2> QED
    BY <1>3, <1>6, <2>4 DEF Current, y
<1> QED
  BY <1>5, <1>6

LEMMA SummaryExcept ==
  ASSUME NEW c, NEW m, NEW k, NEW x
  PROVE  /\ [Summary(c, m, k, x) EXCEPT !.shown = Summary(c, m, k, x).shown] = Summary(c, m, k, x)
         /\ [Summary(c, m, k, x) EXCEPT !.finished = Summary(c, m, k, x).finished] = Summary(c, m, k, x)
<1> DEFINE now == Summary(c, m, k, x)
<1>1. now = [count |-> now.count, pos |-> now.pos, last |-> now.last, shown |-> now.shown,
             children |-> now.children, finished |-> now.finished]
  BY DEF Summary
<1> HIDE DEF now
<1>2. /\ [now EXCEPT !.shown = now.shown] = now
      /\ [now EXCEPT !.finished = now.finished] = now
  BY <1>1
<1> QED
  BY <1>2 DEF now

\* A card that says what a rebuild would say is current.
LEMMA ExactCurrent ==
  ASSUME NEW c, NEW m, NEW old, NEW k, old[k] = Summary(c, m, k, Told(c, m))
  PROVE  Current(c, m, old, k)
<1> DEFINE now == Summary(c, m, k, Told(c, m))
<1>1. [now EXCEPT !.finished = now.finished] = now
  BY DEF Summary
<1> QED
  BY <1>1 DEF Current

\* A current card shows what a rebuild would show, and counts what it would count.
LEMMA CurrentFields ==
  ASSUME NEW c, NEW m, NEW old, NEW k, Current(c, m, old, k)
  PROVE  LET now == Summary(c, m, k, Told(c, m))
         IN  old[k].shown = now.shown /\ old[k].count = Completions(c, m, k) /\ old[k].last = now.last
<1> DEFINE now == Summary(c, m, k, Told(c, m))
<1>1. now = [count |-> Completions(c, m, k), pos |-> now.pos, last |-> now.last, shown |-> now.shown,
             children |-> now.children, finished |-> now.finished]
  BY DEF Summary
<1>2. old[k] = now \/ old[k] = [now EXCEPT !.finished = old[k].finished]
  BY DEF Current
<1> HIDE DEF now
<1>3. old[k].shown = now.shown /\ old[k].count = Completions(c, m, k) /\ old[k].last = now.last
  BY <1>1, <1>2
<1> QED
  BY <1>3 DEF now

\* refresh_catalog_activity computes the impacted cards anew, from the others as they are:
\* afterwards all of them are current.
LEMMA RefreshedCurrent ==
  ASSUME NEW c, NEW m, NEW old, DOMAIN old = Cards(m), NEW rows,
         \A k \in Cards(m) : old[k].shown = Summary(c, m, k, Told(c, m)).shown,
         \A k \in Cards(m) : k \notin Impacted(c, m, rows) => Current(c, m, old, k),
         NEW new, NEW r, r = Refreshed(c, m, old, rows),
         new = [k \in DOMAIN old |-> IF k \in DOMAIN r THEN r[k] ELSE old[k]]
  PROVE  \A k \in Cards(m) : Current(c, m, new, k)
<1> DEFINE impacted == Impacted(c, m, rows)
           known == [k \in Cards(m) |-> IF k \in impacted THEN Completions(c, m, k) ELSE old[k].count]
<1>1. r = [k \in impacted |-> [Summary(c, m, k, known) EXCEPT !.shown = old[k].shown]]
  BY DEF Refreshed
<1>2. \A k \in Cards(m) : known[k] = Told(c, m)[k]
  <2> SUFFICES ASSUME NEW k \in Cards(m) PROVE known[k] = Completions(c, m, k)
    BY DEF Told
  <2>1. CASE k \in impacted
    BY <2>1
  <2>2. CASE k \notin impacted
    <3>1. old[k].count = Completions(c, m, k)
      BY <2>2, CurrentFields
    <3> QED
      BY <2>2, <3>1
  <2> QED
    BY <2>1, <2>2
<1>3. \A k : Episodes(c, m, k) \subseteq Cards(m)
  BY DEF Episodes, Cards
<1> HIDE DEF known, impacted
<1>4. \A k : Summary(c, m, k, known) = Summary(c, m, k, Told(c, m))
  BY <1>2, <1>3, SummaryKnown
<1>5. ASSUME NEW k \in Cards(m), k \in impacted PROVE Current(c, m, new, k)
  <2> DEFINE now == Summary(c, m, k, Told(c, m))
  <2>1. [now EXCEPT !.shown = now.shown] = now
    BY SummaryExcept
  <2> HIDE DEF now
  <2>2. r[k] = [Summary(c, m, k, known) EXCEPT !.shown = old[k].shown]
    BY <1>1, <1>5
  <2>3. Summary(c, m, k, known) = now /\ old[k].shown = now.shown
    BY <1>4 DEF now
  <2>4. r[k] = [now EXCEPT !.shown = now.shown]
    BY <2>2, <2>3
  <2>5. new[k] = r[k]
    BY <1>1, <1>5
  <2> QED
    BY <2>1, <2>4, <2>5, ExactCurrent DEF now
<1>6. ASSUME NEW k \in Cards(m), k \notin impacted PROVE Current(c, m, new, k)
  <2>1. new[k] = old[k]
    BY <1>1, <1>6
  <2>2. Current(c, m, old, k)
    BY <1>6 DEF impacted
  <2> QED
    BY <2>1, <2>2 DEF Current
<1> QED
  BY <1>5, <1>6

-------------------------------------------------------------------------------
(* Plays on cards.                                                             *)

\* The latest of finitely many times.
LEMMA TopAbove ==
  ASSUME NEW S \in SUBSET Nat, IsFiniteSet(S)
  PROVE  Top(S) \in Nat /\ \A t \in S : Top(S) >= t
<1>1. S \cup {0} \in SUBSET Nat /\ IsFiniteSet(S \cup {0}) /\ S \cup {0} # {}
  BY FS_AddElement
<1>2. Max(S \cup {0}) \in S \cup {0} /\ \A t \in S \cup {0} : t <= Max(S \cup {0})
  BY <1>1, MaxIn
<1> QED
  BY <1>1, <1>2 DEF Top

\* The sources are finitely many.
LEMMA SourcesFinite ==
  IsFiniteSet(Sources)
<1> DEFINE f == [r \in Refs |-> Source[r]]
<1>1. IsFiniteSet({f[r] : r \in Refs})
  BY EntriesAssumption, ImageFinite
<1> QED
  BY <1>1 DEF Sources

\* The activity of a row is not before its plays.
LEMMA ActivityAbove ==
  ASSUME NEW c, Sound(c), NEW i \in Rows
  PROVE  Activity(c, i) \in Nat /\ \A p \in c.plays : p.row = i => Activity(c, i) >= p.time
<1> DEFINE mine == {q \in c.plays : q.row = i}
           f == [p \in mine |-> p.time]
           g == [s \in Sources |-> c.state[i][s].last]
           times == {f[p] : p \in mine}
           lasts == {g[s] : s \in Sources}
<1>1. /\ c.plays \in SUBSET [row : Rows, source : Sources, time : Nat] /\ IsFiniteSet(c.plays)
      /\ c.state \in [Rows -> [Sources -> State]]
  BY DEF Sound, Catalog
<1>2. Activity(c, i) = Top(times \cup lasts)
  <2>1. times = {p.time : p \in mine} /\ lasts = {c.state[i][s].last : s \in Sources}
    OBVIOUS
  <2> QED
    BY <2>1, Zenon DEF Activity
<1>3. times \in SUBSET Nat /\ lasts \in SUBSET Nat
  <2>1. times \in SUBSET Nat
    BY <1>1
  <2>2. \A s \in Sources : g[s] \in Nat
    BY <1>1 DEF State
  <2> QED
    BY <2>1, <2>2
<1>4. IsFiniteSet(times) /\ IsFiniteSet(lasts)
  <2>1. IsFiniteSet(mine)
    BY <1>1, FS_Subset
  <2> HIDE DEF f, g, mine
  <2> QED
    BY <2>1, ImageFinite, SourcesFinite
<1>5. \A p \in c.plays : p.row = i => p.time \in times
  OBVIOUS
<1> HIDE DEF times, lasts
<1>6. IsFiniteSet(times \cup lasts) /\ times \cup lasts \in SUBSET Nat
  BY <1>3, <1>4, FS_Union
<1> QED
  BY <1>2, <1>5, <1>6, TopAbove

LEMMA SummaryLast ==
  ASSUME NEW c, NEW m, NEW k, NEW x
  PROVE  Summary(c, m, k, x).last =
           Top({Activity(c, i) : i \in {j \in c.live : Lineage(c, j) \cap {g \in DOMAIN m : m[g] = k} # {}}})
BY DEF Summary

LEMMA SummaryShows ==
  ASSUME NEW c, NEW m, NEW k, NEW x
  PROVE  Summary(c, m, k, x).shown = UNION {LiveSources(c, i) : i \in RowsOf(m, k)}
BY DEF Summary, RowsOf

\* A summary is not before the plays of the rows of its card.
LEMMA LastAbove ==
  ASSUME NEW c, Sound(c), NEW m, DOMAIN m \subseteq c.live, NEW known,
         NEW p \in c.plays, p.row \in DOMAIN m
  PROVE  Summary(c, m, m[p.row], known).last >= p.time
<1> DEFINE k == m[p.row]
           G == {i \in DOMAIN m : m[i] = k}
           below == {j \in c.live : Lineage(c, j) \cap G # {}}
           f == [i \in below |-> Activity(c, i)]
           times == {f[i] : i \in below}
<1>1. c.live \subseteq Rows /\ IsFiniteSet(Rows) /\ p.row \in c.live /\ p.row # 0
  BY RowsAssumption DEF Sound, Catalog
<1>2. Summary(c, m, k, known).last = Top(times)
  <2>1. times = {Activity(c, i) : i \in below}
    OBVIOUS
  <2>2. Summary(c, m, k, known).last = Top({Activity(c, i) : i \in below})
    BY SummaryLast
  <2> QED
    BY <2>1, <2>2, Zenon
<1>3. p.row \in below
  BY <1>1 DEF Lineage
<1>4. IsFiniteSet(below) /\ below \subseteq Rows
  BY <1>1, FS_Subset
<1> HIDE DEF k, G, below
<1>5. times \in SUBSET Nat /\ f[p.row] \in times /\ f[p.row] >= p.time
  BY <1>3, <1>4, ActivityAbove
<1>6. IsFiniteSet(times)
  <2> HIDE DEF f
  <2> QED
    BY <1>4, ImageFinite
<1> HIDE DEF times, f
<1>7. Top(times) \in Nat /\ Top(times) >= f[p.row]
  BY <1>5, <1>6, TopAbove
<1>8. p.time \in Nat /\ f[p.row] \in Nat
  BY <1>5 DEF Sound, Catalog
<1> QED
  BY <1>2, <1>5, <1>7, <1>8 DEF k

\* Movies and episodes are what entries watched and plays are of.
PlayedLevels == {"movie", "episode"}
PlayedKinds(c) ==
  /\ \A r \in Watched : Kind[c.at[r]] \in PlayedLevels
  /\ \A p \in c.plays : Kind[p.row] \in PlayedLevels

\* They stay so: a repair moves them to rows of their kind.
LEMMA PlayedKindsKept ==
  ASSUME NEW c, Sound(c), PlayedKinds(c), NEW d, Repairs(c, d)
  PROVE  PlayedKinds(d)
<1>1. PICK b : Brings(c, b) /\ Mended(Catalog, b, d)
  BY DEF Repairs
<1>2. b.at = c.at /\ Sound(b) /\ Merges(b, d) /\ Sound(d)
  BY <1>1, MendedMerges DEF Brings, Kept
<1>3. b.at \in [Refs -> Rows] /\ b.plays \in SUBSET [row : Rows, source : Sources, time : Nat]
  BY <1>2 DEF Sound, Catalog
<1>4. \A i \in Rows : Kind[d.heir[i]] = Kind[i]
  BY <1>2 DEF Sound
<1>5. \A r \in Refs : d.at[r] = d.heir[b.at[r]]
  BY <1>2 DEF Merges, Inherits
<1>6. ASSUME NEW r \in Watched PROVE Kind[d.at[r]] \in PlayedLevels
  <2>1. r \in Refs
    BY RowsAssumption
  <2>2. b.at[r] \in Rows /\ Kind[b.at[r]] \in PlayedLevels
    BY <1>2, <1>3, <2>1 DEF PlayedKinds
  <2> QED
    BY <1>4, <1>5, <2>1, <2>2
<1>7. ASSUME NEW p \in b.plays PROVE Kind[p.row] \in PlayedLevels
  <2>1. CASE p \in c.plays
    BY <2>1 DEF PlayedKinds
  <2>2. CASE p \notin c.plays
    BY <1>1, <2>2 DEF Brings, PlayedKinds
  <2> QED
    BY <2>1, <2>2
<1>8. ASSUME NEW q \in d.plays PROVE Kind[q.row] \in PlayedLevels
  <2>1. PICK p \in b.plays : q = [p EXCEPT !.row = d.heir[p.row]]
    BY <1>2 DEF Merges
  <2>2. p \in [row : Rows, source : Sources, time : Nat]
    BY <1>3
  <2>3. p.row \in Rows /\ q.row = d.heir[p.row]
    BY <2>1, <2>2
  <2> QED
    BY <1>4, <1>7, <2>3
<1> QED
  BY <1>6, <1>8 DEF PlayedKinds

-------------------------------------------------------------------------------
(* A projection that is as good as a rebuild, but for the rows in its list.    *)

\* What triggers owe readers: members are grouped as a rebuild would group them, a card
\* shows what it would show, it is current unless a listed row impacts it, and it has
\* the plays of the rows that are not listed.
Fresh(c, m, cd, rows) ==
  /\ m = Members(c) /\ DOMAIN cd = Cards(m) /\ cd = [k \in DOMAIN cd |-> cd[k]]
  /\ \A k \in Cards(m) : cd[k].shown = Summary(c, m, k, Told(c, m)).shown
  /\ \A k \in Cards(m) : k \notin Impacted(c, m, rows) => Current(c, m, cd, k)
  /\ \A p \in c.plays : p.row \in DOMAIN m => p.row \in rows \/ cd[m[p.row]].last >= p.time

\* Cards that are all current have all the plays.
LEMMA CurrentPlays ==
  ASSUME NEW c, Sound(c), NEW m, m = Members(c), NEW cd, \A k \in Cards(m) : Current(c, m, cd, k),
         NEW p \in c.plays, p.row \in DOMAIN m
  PROVE  cd[m[p.row]].last >= p.time
<1> DEFINE k == m[p.row]
<1>1. DOMAIN m \subseteq c.live
  <2>1. c \in Catalog
    BY DEF Sound
  <2>2. DOMAIN m = Shown(c)
    BY <2>1, MembersOf
  <2> QED
    BY <2>2 DEF Shown
<1>2. Summary(c, m, m[p.row], Told(c, m)).last >= p.time
  BY <1>1, LastAbove
<1>3. k \in Cards(m) /\ Current(c, m, cd, k)
  BY DEF Cards
<1>4. cd[k].last = Summary(c, m, k, Told(c, m)).last
  BY <1>3, CurrentFields
<1> QED
  BY <1>2, <1>4

\* A rebuild leaves such a projection.
LEMMA FreshRebuilt ==
  ASSUME NEW c, Sound(c), NEW m, m = Members(c), NEW cd, cd = Rebuilt(c, m)
  PROVE  Fresh(c, m, cd, {})
<1>1. cd = [k \in Cards(m) |-> Summary(c, m, k, Told(c, m))]
  BY RebuiltCards
<1>2. ASSUME NEW k \in Cards(m) PROVE cd[k] = Summary(c, m, k, Told(c, m)) /\ Current(c, m, cd, k)
  <2>1. cd[k] = Summary(c, m, k, Told(c, m))
    BY <1>1
  <2> QED
    BY <2>1, ExactCurrent
<1>3. \A p \in c.plays : p.row \in DOMAIN m => cd[m[p.row]].last >= p.time
  BY <1>2, CurrentPlays
<1>4. DOMAIN cd = Cards(m) /\ cd = [k \in DOMAIN cd |-> cd[k]]
  BY <1>1
<1> QED
  BY <1>2, <1>3, <1>4 DEF Fresh

\* So does a refresh of what was listed.
LEMMA FreshRefreshed ==
  ASSUME NEW c, Sound(c), NEW m, NEW cd, NEW rows, Fresh(c, m, cd, rows),
         NEW r, r = Refreshed(c, m, cd, rows),
         NEW new, new = [k \in DOMAIN cd |-> IF k \in DOMAIN r THEN r[k] ELSE cd[k]]
  PROVE  Fresh(c, m, new, {})
<1>1. m = Members(c) /\ DOMAIN cd = Cards(m)
  BY DEF Fresh
<1>2. \A k \in Cards(m) : Current(c, m, new, k)
  BY <1>1, RefreshedCurrent DEF Fresh
<1>3. \A p \in c.plays : p.row \in DOMAIN m => new[m[p.row]].last >= p.time
  BY <1>1, <1>2, CurrentPlays
<1>4. DOMAIN new = Cards(m) /\ new = [k \in DOMAIN new |-> new[k]]
  BY <1>1
<1>5. ASSUME NEW k \in Cards(m) PROVE new[k].shown = Summary(c, m, k, Told(c, m)).shown
  <2>1. Current(c, m, new, k)
    BY <1>2
  <2> HIDE DEF Fresh
  <2> QED
    BY <2>1, CurrentFields
<1> QED
  BY <1>1, <1>2, <1>3, <1>4, <1>5 DEF Fresh

\* Plays and states make out of date what they impact and nothing else, if their rows
\* are listed.
LEMMA FreshTouched ==
  ASSUME NEW c, Sound(c), NEW d, NEW T, Touches(c, d, T),
         NEW m, NEW cd, NEW rows, Fresh(c, m, cd, rows)
  PROVE  Fresh(d, m, cd, rows \cup T)
<1>1. SameIdentity(c, d) /\ m = Members(c) /\ m = Members(d)
  BY MembersSame DEF Fresh, Touches
<1>2. Impacted(d, m, rows \cup T) = Impacted(c, m, rows) \cup Impacted(c, m, T)
  <2>1. \A i : Lineage(d, i) = Lineage(c, i)
    BY <1>1, SameRows
  <2>2. d.live = c.live
    BY <1>1 DEF SameIdentity
  <2> QED
    BY <2>1, <2>2 DEF Impacted
<1>3. ASSUME NEW k \in Cards(m) PROVE cd[k].shown = Summary(d, m, k, Told(d, m)).shown
  <2>1. \A i : LiveSources(d, i) = LiveSources(c, i)
    BY <1>1, SameRows
  <2>2. Summary(c, m, k, Told(c, m)).shown = UNION {LiveSources(c, i) : i \in RowsOf(m, k)}
    BY SummaryShows
  <2>3. Summary(d, m, k, Told(d, m)).shown = UNION {LiveSources(d, i) : i \in RowsOf(m, k)}
    BY SummaryShows
  <2>4. {LiveSources(d, i) : i \in RowsOf(m, k)} = {LiveSources(c, i) : i \in RowsOf(m, k)}
    BY <2>1
  <2> QED
    BY <1>3, <2>2, <2>3, <2>4 DEF Fresh
<1>4. ASSUME NEW k \in Cards(m), k \notin Impacted(d, m, rows \cup T) PROVE Current(d, m, cd, k)
  <2>1. k \notin Impacted(c, m, T) /\ k \notin Impacted(c, m, rows)
    BY <1>2, <1>4
  <2>2. Current(c, m, cd, k)
    BY <2>1 DEF Fresh
  <2> QED
    BY <1>1, <2>1, <2>2, CurrentKept
<1>5. ASSUME NEW p \in d.plays, p.row \in DOMAIN m, p.row \notin rows \cup T
      PROVE  cd[m[p.row]].last >= p.time
  <2>1. p \in c.plays
    BY <1>5 DEF Touches
  <2> QED
    BY <1>5, <2>1 DEF Fresh
<1> QED
  BY <1>1, <1>3, <1>4, <1>5 DEF Fresh

\* A fresh projection without a list is current.
LEMMA FreshCurrent ==
  ASSUME NEW c, NEW m, NEW cd, Fresh(c, m, cd, {})
  PROVE  \A k \in Cards(m) : Current(c, m, cd, k)
<1>1. Impacted(c, m, {}) = {}
  BY DEF Impacted
<1> QED
  BY <1>1 DEF Fresh

-------------------------------------------------------------------------------
(* The inductive invariant, and the steps that preserve it.                    *)

JobShape ==
  /\ DOMAIN job = {"mode", "member", "card", "overtaken"}
  /\ job.mode \in {"none", "full", "activity"} /\ job.overtaken \in BOOLEAN

\* What an ensure that nothing overtook has read is what it would read now.
JobHolds ==
  /\ job.mode = "full" /\ ~job.overtaken =>
       job.member = Members(cat) /\ job.card = Rebuilt(cat, Members(cat))
  /\ job.mode = "activity" /\ ~job.overtaken =>
       status = "activity" /\ job.card = Refreshed(cat, member, card, dirty)

\* A projection that is clean, or behind by plays only, is fresh but for its list.
Served == status \in {Clean, "activity"} /\ missed = {} => Fresh(cat, member, card, dirty)

ProjectionInv ==
  /\ IInv /\ PlayedKinds(cat)
  /\ status \in {Clean, "identity", "activity", "full"} /\ (status = Clean => dirty = {})
  /\ JobShape /\ JobHolds /\ Served

\* What somebody else writes is not what an ensure in progress has read.
LEMMA OvertakenHolds ==
  ASSUME JobShape, Overtakes
  PROVE  JobShape' /\ JobHolds'
<1>1. CASE job.mode = "none"
  BY <1>1 DEF JobShape, JobHolds, Overtakes
<1>2. CASE job.mode # "none"
  <2>1. job' = [job EXCEPT !.overtaken = TRUE]
    BY <1>2 DEF Overtakes
  <2>2. /\ DOMAIN job' = {"mode", "member", "card", "overtaken"}
        /\ job'.mode = job.mode /\ job'.overtaken = TRUE /\ job.mode \in {"none", "full", "activity"}
    BY <2>1 DEF JobShape
  <2> QED
    BY <2>2 DEF JobShape, JobHolds
<1> QED
  BY <1>1, <1>2

\* A step of the catalog keeps its invariant and what is played.
LEMMA CatalogKept ==
  ASSUME IInv, PlayedKinds(cat), [Next]_vars
  PROVE  IInv' /\ PlayedKinds(cat')
<1>1. IInv' /\ Repairs(cat, cat') /\ Sound(cat)
  BY StepKept DEF IInv
<1> QED
  BY <1>1, PlayedKindsKept

\* Whoever asks for a rebuild owes nothing until it is done.
LEMMA IdentityStep ==
  ASSUME ProjectionInv, [Next]_vars, Overtakes, status' \in {"identity", "full"}
  PROVE  ProjectionInv'
<1>1. IInv' /\ PlayedKinds(cat')
  BY CatalogKept DEF ProjectionInv
<1>2. JobShape' /\ JobHolds'
  BY OvertakenHolds DEF ProjectionInv
<1>3. Served' /\ status' # Clean
  BY DEF Served, Clean
<1> QED
  BY <1>1, <1>2, <1>3 DEF ProjectionInv

\* A play and a progress change plays and states of their row, and list it.
LEMMA ActivityTouches ==
  ASSUME NEW c, c \in Catalog, NEW r \in Refs, NEW d, d = Played(c, r) \/ d = Progressed(c, r)
  PROVE  Touches(c, d, Touched(c, d))
<1>1. SameIdentity(c, d)
  <2>1. CASE d = Played(c, r)
    BY <2>1 DEF SameIdentity, Played, Catalog
  <2>2. CASE d = Progressed(c, r)
    BY <2>2 DEF SameIdentity, Progressed, Catalog
  <2> QED
    BY <2>1, <2>2
<1>2. \A p \in SymDiff(c.plays, d.plays) : p.row \in Touched(c, d)
  BY DEF Touched
<1>3. \A i \in Rows \ Touched(c, d) : d.state[i] = c.state[i]
  BY DEF Touched
<1> QED
  BY <1>1, <1>2, <1>3 DEF Touches, SymDiff

\* Without a row that goes the triggers leave cards and members as they are.
LEMMA CascadeKeeps ==
  ASSUME Sound(cat), NEW rows, Fresh(cat, member, card, rows), cat'.live = cat.live, Cascade(cat')
  PROVE  card' = card /\ member' = member
<1>1. cat \in Catalog /\ member = Members(cat)
  BY DEF Sound, Fresh
<1>2. member \in [Shown(cat) -> Shown(cat)]
  BY <1>1, MembersOf
<1>3. DOMAIN card = Cards(member) /\ card = [k \in DOMAIN card |-> card[k]]
  BY DEF Fresh
<1>4. DOMAIN member \subseteq cat.live /\ (\A i \in DOMAIN member : member[i] \in cat.live)
  BY <1>2 DEF Shown
<1>5. DOMAIN card \subseteq cat.live
  BY <1>3, <1>4 DEF Cards
<1>6. card' = [k \in DOMAIN card |-> card[k]]
  <2>1. DOMAIN card \cap cat'.live = DOMAIN card
    BY <1>5
  <2> QED
    BY <2>1 DEF Cascade
<1>7. member' = [i \in DOMAIN member |-> member[i]]
  <2>1. {j \in DOMAIN member \cap cat'.live : member[j] \in cat'.live} = DOMAIN member
    BY <1>4
  <2> QED
    BY <2>1 DEF Cascade
<1>8. member = [i \in DOMAIN member |-> member[i]]
  BY <1>2
<1> QED
  BY <1>3, <1>6, <1>7, <1>8

\* A play is listed, and what is not listed stays fresh.
LEMMA ActivityStep ==
  ASSUME ProjectionInv, NEW r \in Watched, ActivityWrite(Play(r)) \/ ActivityWrite(Progress(r))
  PROVE  ProjectionInv'
<1>1. Play(r) \/ Progress(r)
  BY DEF ActivityWrite
<1>2. /\ Cascade(cat') /\ Overtakes /\ status' = AfterPlay(status)
      /\ missed' = IF status = "full" THEN missed \cup {"downgrade"} ELSE missed
  BY DEF ActivityWrite
<1>3. [Next]_vars /\ r \in Refs /\ (cat' = Played(cat, r) \/ cat' = Progressed(cat, r))
  BY <1>1, RowsAssumption DEF Next, Play, Progress
<1>4. IInv' /\ PlayedKinds(cat')
  BY <1>3, CatalogKept DEF ProjectionInv
<1>5. JobShape' /\ JobHolds'
  BY <1>2, OvertakenHolds DEF ProjectionInv
<1>6. status' \in {"identity", "activity"} /\ status' # Clean
  BY <1>2 DEF AfterPlay, Clean
<1>7. ASSUME status' \in {Clean, "activity"}, missed' = {}
      PROVE  Fresh(cat', member', card', dirty')
  <2>1. Sound(cat) /\ cat \in Catalog
    BY DEF ProjectionInv, IInv, Sound
  <2>2. status \in {Clean, "activity"} /\ missed = {}
    BY <1>2, <1>7 DEF ProjectionInv, AfterPlay, Clean
  <2>3. Fresh(cat, member, card, dirty)
    BY <2>2 DEF ProjectionInv, Served
  <2>4. Touches(cat, cat', Touched(cat, cat'))
    BY <1>3, <2>1, ActivityTouches
  <2>5. cat'.live = cat.live
    BY <2>4 DEF Touches, SameIdentity
  <2>6. card' = card /\ member' = member
    BY <1>2, <2>1, <2>3, <2>5, CascadeKeeps
  <2>7. dirty' = dirty \cup Touched(cat, cat')
    BY <1>2 DEF Cascade
  <2> QED
    BY <2>1, <2>3, <2>4, <2>6, <2>7, FreshTouched
<1> QED
  BY <1>4, <1>5, <1>6, <1>7 DEF ProjectionInv, Served

\* A reconciliation that changes no identity changes nothing.
LEMMA ReconcileStep ==
  ASSUME ProjectionInv, ReconcileWrite
  PROVE  ProjectionInv'
<1>1. /\ cat' = Reconciled(cat) /\ [Next]_vars /\ Cascade(cat') /\ Overtakes /\ missed' = missed
      /\ status' = IF IdentityOf(cat') = IdentityOf(cat) THEN status ELSE "full"
  BY DEF ReconcileWrite, Reconcile, Next
<1>2. CASE IdentityOf(cat') # IdentityOf(cat)
  BY <1>1, <1>2, IdentityStep
<1>3. CASE IdentityOf(cat') = IdentityOf(cat)
  <2>1. Sound(cat)
    BY DEF ProjectionInv, IInv
  <2>2. cat'.live = cat.live /\ cat'.ids = cat.ids
    BY <1>3 DEF IdentityOf
  <2>3. cat' = cat
    BY <1>1, <2>1, <2>2, ReconciledRepairs
  <2>4. Touched(cat, cat') = {}
    BY <2>3 DEF Touched, SymDiff
  <2>5. status' = status /\ dirty' = dirty
    BY <1>1, <1>3, <2>4 DEF Cascade
  <2>6. IInv' /\ PlayedKinds(cat')
    BY <1>1, CatalogKept DEF ProjectionInv
  <2>7. JobShape' /\ JobHolds'
    BY <1>1, OvertakenHolds DEF ProjectionInv
  <2>8. ASSUME status' \in {Clean, "activity"}, missed' = {}
        PROVE  Fresh(cat', member', card', dirty')
    <3>1. Fresh(cat, member, card, dirty)
      BY <1>1, <2>5, <2>8 DEF ProjectionInv, Served
    <3>2. card' = card /\ member' = member
      BY <1>1, <2>1, <2>2, <3>1, CascadeKeeps
    <3> QED
      BY <2>3, <2>5, <3>1, <3>2
  <2> QED
    BY <2>5, <2>6, <2>7, <2>8 DEF ProjectionInv, Served
<1> QED
  BY <1>2, <1>3

\* A change of the mount roots renames files, which nothing watches.
LEMMA RemapStep ==
  ASSUME ProjectionInv, NEW r \in Remapped, Remap(r)
  PROVE  ProjectionInv'
<1>1. Sound(cat) /\ cat \in Catalog /\ r \in Refs /\ changes \in 0 .. MaxChanges /\ MaxChanges \in Nat
  BY RowsAssumption, EntriesAssumption DEF ProjectionInv, IInv, Sound
<1>2. PICK files \in Files[r] : cat' = [cat EXCEPT !.files[r] = files]
  BY DEF Remap
<1>3. changes' \in 0 .. MaxChanges /\ missed' # {} /\ Overtakes /\ UNCHANGED projection
  BY <1>1 DEF Remap
<1>4. files \in SUBSET Paths
  BY <1>1, ReportsKnown
<1>5. /\ cat' \in Catalog /\ cat'.live = cat.live /\ cat'.parent = cat.parent /\ cat'.heir = cat.heir
      /\ cat'.plays = cat.plays /\ cat'.at = cat.at /\ cat'.state = cat.state /\ cat'.manual = cat.manual
      /\ cat'.ids = cat.ids
  <2> DEFINE now == [cat.files EXCEPT ![r] = files]
  <2>1. now \in [Refs -> SUBSET Paths]
    BY <1>1, <1>4 DEF Catalog
  <2>2. cat' = [cat EXCEPT !.files = now]
    BY <1>1, <1>2 DEF Catalog
  <2> HIDE DEF now
  <2> QED
    BY <1>1, <2>1, <2>2 DEF Catalog
<1>6. Sound(cat')
  BY <1>1, <1>5, Untouched DEF Kept
<1>7. PlayedKinds(cat')
  BY <1>5 DEF ProjectionInv, PlayedKinds
<1>8. JobShape' /\ JobHolds'
  BY <1>3, OvertakenHolds DEF ProjectionInv
<1>9. status' = status /\ dirty' = dirty
  BY <1>3 DEF projection
<1> QED
  BY <1>3, <1>6, <1>7, <1>8, <1>9 DEF ProjectionInv, IInv, Served

\* What an ensure reads holds when it reads it.
LEMMA EnsureReadStep ==
  ASSUME ProjectionInv, EnsureRead
  PROVE  ProjectionInv'
<1>1. UNCHANGED <<cat, changes, status, dirty, member, card, missed>>
  BY DEF EnsureRead, projection
<1> DEFINE refreshed == Refreshed(cat, member, card, dirty)
           members == Members(cat)
           rebuilt == Rebuilt(cat, members)
<1>2. job' = IF Partial
             THEN [NoJob EXCEPT !.mode = "activity", !.card = refreshed]
             ELSE [NoJob EXCEPT !.mode = "full", !.member = members, !.card = rebuilt]
  BY DEF EnsureRead
<1> HIDE DEF Partial, refreshed, members, rebuilt
<1>3. JobShape' /\ JobHolds'
  <2>1. CASE Partial
    <3>1. status = "activity"
      BY <2>1 DEF Partial
    <3>2. job' = [NoJob EXCEPT !.mode = "activity", !.card = refreshed]
      BY <1>2, <2>1
    <3>3. /\ DOMAIN job' = {"mode", "member", "card", "overtaken"}
          /\ job'.mode = "activity" /\ job'.card = refreshed /\ job'.overtaken = FALSE
      BY <3>2 DEF NoJob
    <3> QED
      BY <1>1, <3>1, <3>3 DEF JobShape, JobHolds, refreshed
  <2>2. CASE ~Partial
    <3>1. job' = [NoJob EXCEPT !.mode = "full", !.member = members, !.card = rebuilt]
      BY <1>2, <2>2
    <3>2. /\ DOMAIN job' = {"mode", "member", "card", "overtaken"}
          /\ job'.mode = "full" /\ job'.member = members /\ job'.card = rebuilt /\ job'.overtaken = FALSE
      BY <3>1 DEF NoJob
    <3> QED
      BY <1>1, <3>2 DEF JobShape, JobHolds, members, rebuilt
  <2> QED
    BY <2>1, <2>2
<1>4. IInv' /\ PlayedKinds(cat') /\ Served'
  BY <1>1 DEF ProjectionInv, IInv, Served
<1> QED
  BY <1>1, <1>3, <1>4 DEF ProjectionInv

\* An ensure that failed has read nothing.
LEMMA NoJobHolds ==
  ASSUME job' = NoJob
  PROVE  JobShape' /\ JobHolds'
BY DEF NoJob, JobShape, JobHolds

\* What is written is a rebuild of the catalog as it is, or a refresh of what was listed,
\* unless somebody else wrote meanwhile.
LEMMA EnsureWriteStep ==
  ASSUME ProjectionInv, EnsureWrite
  PROVE  ProjectionInv'
<1>1. job.mode # "none" /\ job' = NoJob /\ dirty' = {} /\ status' = Clean /\ cat' = cat /\ changes' = changes
  BY DEF EnsureWrite
<1>2. Sound(cat) /\ IInv' /\ PlayedKinds(cat')
  BY <1>1 DEF ProjectionInv, IInv
<1>3. JobShape' /\ JobHolds'
  BY <1>1, NoJobHolds
<1>4. ASSUME missed' = {} PROVE Fresh(cat, member', card', {})
  <2>1. CASE job.mode = "full"
    <3>1. member' = job.member /\ card' = job.card /\ ~job.overtaken
      BY <1>4, <2>1 DEF EnsureWrite
    <3>2. member' = Members(cat) /\ card' = Rebuilt(cat, Members(cat))
      BY <2>1, <3>1 DEF ProjectionInv, JobHolds
    <3> QED
      BY <1>2, <3>2, FreshRebuilt
  <2>2. CASE job.mode = "activity"
    <3>1. /\ card' = [k \in DOMAIN card |-> IF k \in DOMAIN job.card THEN job.card[k] ELSE card[k]]
          /\ member' = member /\ ~job.overtaken /\ missed = {}
      BY <1>4, <2>2 DEF EnsureWrite
    <3>2. status = "activity" /\ job.card = Refreshed(cat, member, card, dirty)
      BY <2>2, <3>1 DEF ProjectionInv, JobHolds
    <3>3. Fresh(cat, member, card, dirty)
      BY <3>1, <3>2 DEF ProjectionInv, Served
    <3> QED
      BY <1>2, <3>1, <3>2, <3>3, FreshRefreshed
  <2> QED
    BY <2>1, <2>2 DEF EnsureWrite
<1> QED
  BY <1>1, <1>2, <1>3, <1>4 DEF ProjectionInv, Served

\* The inductive step.
LEMMA ProjectionStep ==
  ASSUME ProjectionInv, [ProjectionNext]_projectionVars
  PROVE  ProjectionInv'
<1>1. ASSUME NEW r \in Leaves, IdentityWrite(Collect(r)) \/ IdentityWrite(Lose(r)) PROVE ProjectionInv'
  <2>1. [Next]_vars /\ Overtakes /\ status' \in {"identity", "full"}
    BY <1>1 DEF IdentityWrite, Next
  <2> QED
    BY <2>1, IdentityStep
<1>2. ASSUME NEW i \in Rows, NEW x \in Matches, MatchWrite(i, x) PROVE ProjectionInv'
  <2>1. [Next]_vars /\ Overtakes /\ status' \in {"identity", "full"}
    BY <1>2 DEF MatchWrite, Next
  <2> QED
    BY <2>1, IdentityStep
<1>3. ASSUME EnsureFails PROVE ProjectionInv'
  <2>1. UNCHANGED <<cat, changes, status, dirty, member, card, missed>> /\ job' = NoJob
    BY <1>3 DEF EnsureFails, projection
  <2>2. JobShape' /\ JobHolds'
    BY <2>1, NoJobHolds
  <2> QED
    BY <2>1, <2>2 DEF ProjectionInv, IInv, Served
<1>4. ASSUME UNCHANGED projectionVars PROVE ProjectionInv'
  <2>1. UNCHANGED <<cat, changes, status, dirty, member, card, missed, job>>
    BY <1>4 DEF projectionVars, projection, vars
  <2> QED
    BY <2>1 DEF ProjectionInv, IInv, JobShape, JobHolds, Served
<1> QED
  BY <1>1, <1>2, <1>3, <1>4, ReconcileStep, ActivityStep, RemapStep, EnsureReadStep, EnsureWriteStep
     DEF ProjectionNext

LEMMA ProjectionInvariance ==
  ASSUME FirstTree
  PROVE  ProjectionSpec => []ProjectionInv
<1>1. ASSUME ProjectionInit PROVE ProjectionInv
  <2>1. Init /\ status = "identity" /\ dirty = {} /\ job = NoJob
    BY <1>1 DEF ProjectionInit
  <2>2. IInv
    BY <2>1, InitSound
  <2>3. cat.at = FirstAt /\ cat.plays = {}
    BY <2>1 DEF Init, FirstCatalog
  <2>4. PlayedKinds(cat)
    BY <2>3, RowsAssumption, EntriesAssumption DEF PlayedKinds, PlayedLevels, FirstTree
  <2>5. JobShape /\ JobHolds
    BY <2>1 DEF NoJob, JobShape, JobHolds
  <2> QED
    BY <2>1, <2>2, <2>4, <2>5 DEF ProjectionInv, Served, Clean
<1> QED
  BY <1>1, ProjectionStep, PTL DEF ProjectionSpec

\* ServedIsCurrent: if no write came between an ensure's reads and its writes, no play
\* after a demand for a rebuild and no change of mount roots since the last rebuild, then
\* what is served as clean is what a full rebuild would give, however many merges, pages,
\* plays and partial refreshes there were (ensure_catalog_projection,
\* refresh_catalog_activity, the triggers of migrations 0024 and 0025).
THEOREM ServedIsCurrentAlways ==
  ASSUME FirstTree
  PROVE  ProjectionSpec => []ServedIsCurrent
<1>1. ASSUME ProjectionInv PROVE ServedIsCurrent
  <2> SUFFICES ASSUME status = Clean, missed = {}
               PROVE  /\ member = Members(cat)
                      /\ \A k \in DOMAIN card :
                           LET now == Rebuilt(cat, member)[k]
                           IN  card[k] = IF Spanning(k) THEN [now EXCEPT !.finished = card[k].finished] ELSE now
    BY Zenon DEF ServedIsCurrent
  <2>1. Fresh(cat, member, card, {})
    BY <1>1 DEF ProjectionInv, Served
  <2>2. member = Members(cat) /\ DOMAIN card = Cards(member)
    BY <2>1 DEF Fresh
  <2>3. ASSUME NEW k \in DOMAIN card
        PROVE  LET now == Rebuilt(cat, member)[k]
               IN  card[k] = IF Spanning(k) THEN [now EXCEPT !.finished = card[k].finished] ELSE now
    <3>1. Current(cat, member, card, k)
      BY <2>1, <2>2, FreshCurrent
    <3>2. Rebuilt(cat, member)[k] = Summary(cat, member, k, Told(cat, member))
      BY <2>2, RebuiltCards
    <3>3. Spanning(k) <=> Spans(cat, member, k)
      BY DEF Spanning, Spans
    <3> QED
      BY <3>1, <3>2, <3>3 DEF Current
  <2> QED
    BY <2>2, <2>3
<1> QED
  BY <1>1, ProjectionInvariance, PTL

\* CardsSafe: however identifiers and titles join the rows, no card that is served shows
\* two titles of one server or two confirmed identities (safe_identity_group).
THEOREM CardsSafeAlways ==
  ASSUME FirstTree
  PROVE  ProjectionSpec => []CardsSafe
<1>1. ASSUME ProjectionInv, status = Clean, missed = {}, NEW k \in DOMAIN card
      PROVE  SafeGroup(cat, {i \in DOMAIN member : member[i] = k})
  <2>1. Fresh(cat, member, card, dirty) /\ cat \in Catalog
    BY <1>1 DEF ProjectionInv, Served, IInv, Sound
  <2>2. member = Members(cat) /\ DOMAIN card = Cards(member)
    BY <2>1 DEF Fresh
  <2>3. PICK j \in DOMAIN member : k = member[j]
    BY <2>2 DEF Cards
  <2>4. DOMAIN member = Shown(cat)
    BY <2>1, <2>2, MembersOf
  <2>5. SafeGroup(cat, {i \in DOMAIN member : member[i] = member[j]})
    BY <2>1, <2>2, <2>4, MembersOf
  <2> QED
    BY <2>3, <2>5
<1>2. ProjectionInv => CardsSafe
  BY <1>1 DEF CardsSafe
<1> QED
  BY <1>2, ProjectionInvariance, PTL

\* PlaysPending: unless one of the named causes interfered, a play is on its card, or its
\* row is listed, or a rebuild is due (the triggers, refresh_catalog_activity).
THEOREM PlaysPendingAlways ==
  ASSUME FirstTree
  PROVE  ProjectionSpec => []PlaysPending
<1>1. ASSUME ProjectionInv, NEW p \in cat.plays, missed = {}, status = Clean \/ Partial, p.row \notin dirty
      PROVE  p.row \in DOMAIN member /\ card[member[p.row]].last >= p.time
  <2>1. status \in {Clean, "activity"}
    BY <1>1 DEF Partial
  <2>2. Fresh(cat, member, card, dirty) /\ cat \in Catalog /\ member = Members(cat)
    BY <1>1, <2>1 DEF ProjectionInv, Served, IInv, Sound, Fresh
  <2>3. p.row \in cat.live /\ Kind[p.row] \in {"movie", "episode"}
    BY <1>1 DEF ProjectionInv, IInv, Sound, PlayedKinds, PlayedLevels
  <2>4. p.row \in Shown(cat) /\ DOMAIN member = Shown(cat)
    BY <2>2, <2>3, MembersOf DEF Shown
  <2> QED
    BY <1>1, <2>2, <2>4 DEF Fresh
<1>2. ProjectionInv => PlaysPending
  BY <1>1 DEF PlaysPending
<1> QED
  BY <1>2, ProjectionInvariance, PTL
===============================================================================
