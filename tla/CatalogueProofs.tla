---------------------------- MODULE CatalogueProofs ----------------------------
(***************************************************************************)
(* What is proved of the catalogues of the open databases: sums over       *)
(* finite sets, and that the statistics that Observe keeps are sums over   *)
(* the records it has observed, in memory and on file.                     *)
(***************************************************************************)
EXTENDS ProvisioningProofs, FiniteSetTheorems

(* Sums over finite sets, by induction.  The induction principle takes a   *)
(* set: that of the numbers, or of the subsets, of which the claim holds.  *)

LEMMA Induction ==
  ASSUME NEW S, 0 \in S, \A n \in Nat : n \in S => n + 1 \in S
  PROVE  Nat \subseteq S
<1> SUFFICES ASSUME NEW k \in Nat, k \notin S PROVE FALSE
  OBVIOUS
<1>1. PICK rest : rest = Nat \ S
  BY Zenon
<1>2. PICK a \in rest : \A y \in rest : a <= y
  <2>1. rest \subseteq Nat /\ rest # {}
    BY <1>1
  <2> QED
    BY <2>1, MinIsMember, Zenon
<1>3. a - 1 \in Nat /\ a - 1 \notin rest /\ (a - 1) + 1 = a
  BY <1>1, <1>2
<1> QED
  BY <1>1, <1>2, <1>3

Pick(s) == CHOOSE z \in s : TRUE

LEMMA PickIn == ASSUME NEW s, s # {} PROVE Pick(s) \in s
BY Zenon DEF Pick

\* A finite set is reached from the empty one, an element at a time.
LEMMA SubsetInduction ==
  ASSUME NEW S, IsFiniteSet(S), NEW P, {} \in P,
         \A s \in SUBSET S : s # {} /\ s \ {Pick(s)} \in P => s \in P
  PROVE  S \in P
<1>1. PICK N : N = {n \in Nat : \A s \in SUBSET S : Cardinality(s) = n => s \in P}
  BY Zenon
<1>2. \A s \in SUBSET S : IsFiniteSet(s) /\ Cardinality(s) \in Nat
  BY FS_Subset, FS_CardinalityType, Zenon
<1>3. 0 \in N
  <2>1. \A s \in SUBSET S : Cardinality(s) = 0 => s \in P
    <3>1. \A T : IsFiniteSet(T) => (Cardinality(T) = 0 <=> T = {})
      BY FS_EmptySet, Zenon
    <3>2. ASSUME NEW s \in SUBSET S, Cardinality(s) = 0 PROVE s = {}
      BY <1>2, <3>1, <3>2, Zenon
    <3>3. ASSUME NEW s \in SUBSET S, Cardinality(s) = 0 PROVE s \in P
      <4>1. s = {}
        BY <3>2, <3>3, Zenon
      <4> QED
        BY <4>1
    <3> QED
      BY <3>3
  <2> QED
    BY <1>1, <2>1
<1>4. ASSUME NEW n \in Nat, n \in N PROVE n + 1 \in N
  <2>1. ASSUME NEW s \in SUBSET S, Cardinality(s) = n + 1 PROVE s \in P
    <3>1. s # {}
      BY <1>2, <2>1, FS_EmptySet
    <3>2. Pick(s) \in s
      BY <3>1, PickIn
    <3>3. Cardinality(s \ {Pick(s)}) = Cardinality(s) - 1
      BY <1>2, <3>2, FS_RemoveElement, Zenon
    <3>4. Cardinality(s \ {Pick(s)}) = n
      BY <2>1, <3>3
    <3> QED
      BY <1>1, <1>4, <3>1, <3>4, Zenon
  <2>2. n + 1 \in Nat
    OBVIOUS
  <2> QED
    BY <1>1, <2>1, <2>2, Zenon
<1>5. Nat \subseteq N
  BY <1>3, <1>4, Induction
<1> QED
  BY <1>1, <1>2, <1>5, Zenon

\* What g makes of the subset s: the fold of a sum.
Fold(g, f, s) == IF s = {} THEN 0 ELSE f[Pick(s)] + g[s \ {Pick(s)}]
Sums(g, f, S) == g = [s \in SUBSET S |-> Fold(g, f, s)]

LEMMA SumsExist ==
  ASSUME NEW S, IsFiniteSet(S), NEW f \in [S -> Nat]
  PROVE  \E g : Sums(g, f, S)
<1> DEFINE UpTo(n) == \E g \in [SUBSET S -> Nat] :
                        \A s \in SUBSET S : Cardinality(s) <= n => g[s] = Fold(g, f, s)
<1>1. PICK N : N = {n \in Nat : UpTo(n)}
  BY Zenon
<1>2. \A s \in SUBSET S :
        IsFiniteSet(s) /\ Cardinality(s) \in Nat /\ Cardinality(s) <= Cardinality(S)
  BY FS_Subset, FS_CardinalityType, Zenon
<1>3. 0 \in N
  <2>1. PICK g : g = [s \in SUBSET S |-> 0]
    BY Zenon
  <2>2. \A s \in SUBSET S : Cardinality(s) <= 0 => s = {}
    <3>1. \A s \in SUBSET S : Cardinality(s) <= 0 => Cardinality(s) = 0
      BY <1>2
    <3> QED
      BY <1>2, <3>1, FS_EmptySet, Zenon
  <2>3. g \in [SUBSET S -> Nat] /\ g[{}] = 0
    BY <2>1
  <2>4. \A s \in SUBSET S : Cardinality(s) <= 0 => g[s] = Fold(g, f, s)
    BY <2>2, <2>3, Zenon DEF Fold
  <2> QED
    BY <1>1, <2>3, <2>4, Zenon
<1>4. ASSUME NEW n \in Nat, n \in N PROVE n + 1 \in N
  <2>1. PICK g \in [SUBSET S -> Nat] :
               \A s \in SUBSET S : Cardinality(s) <= n => g[s] = Fold(g, f, s)
    BY <1>1, <1>4, Zenon
  <2>2. PICK k : k = [s \in SUBSET S |-> Fold(g, f, s)]
    BY Zenon
  <2>3. k \in [SUBSET S -> Nat]
    <3>1. ASSUME NEW s \in SUBSET S PROVE Fold(g, f, s) \in Nat
      BY <2>1, PickIn DEF Fold
    <3> QED
      BY <2>2, <3>1, Zenon
  <2>4. ASSUME NEW s \in SUBSET S, Cardinality(s) <= n PROVE k[s] = g[s]
    BY <2>1, <2>2, <2>4, Zenon
  <2>5. ASSUME NEW s \in SUBSET S, Cardinality(s) <= n + 1 PROVE k[s] = Fold(k, f, s)
    <3>1. CASE s = {}
      BY <2>2, <3>1, Zenon DEF Fold
    <3>2. CASE s # {}
      <4>1. Pick(s) \in s
        BY <3>2, PickIn
      <4>2. Cardinality(s \ {Pick(s)}) = Cardinality(s) - 1
        BY <1>2, <4>1, FS_RemoveElement, Zenon
      <4>3. Cardinality(s \ {Pick(s)}) <= n
        BY <1>2, <2>5, <4>2
      <4>4. k[s \ {Pick(s)}] = g[s \ {Pick(s)}]
        BY <2>4, <4>3
      <4> QED
        BY <2>2, <3>2, <4>4, Zenon DEF Fold
    <3> QED
      BY <3>1, <3>2
  <2>6. n + 1 \in Nat
    OBVIOUS
  <2> QED
    BY <1>1, <2>3, <2>5, <2>6, Zenon
<1>5. Nat \subseteq N
  BY <1>3, <1>4, Induction
<1>6. Cardinality(S) \in Nat
  BY FS_CardinalityType
<1>7. PICK g \in [SUBSET S -> Nat] :
             \A s \in SUBSET S : Cardinality(s) <= Cardinality(S) => g[s] = Fold(g, f, s)
  BY <1>1, <1>5, <1>6, Zenon
<1>8. \A s \in SUBSET S : g[s] = Fold(g, f, s)
  BY <1>2, <1>7, Zenon
<1>9. Sums(g, f, S)
  BY <1>8, Zenon DEF Sums
<1> QED
  BY <1>9

\* The sum of a function over a finite set: nothing for no element, and an
\* element's value added to the sum of the others.
Accumulates(g, f, S) ==
  /\ g[{}] = 0
  /\ \A s \in SUBSET S : s # {} => g[s] = f[Pick(s)] + g[s \ {Pick(s)}]

LEMMA SumIs ==
  ASSUME NEW S, IsFiniteSet(S), NEW f \in [S -> Nat]
  PROVE  \E g : Accumulates(g, f, S) /\ SumFunction(f) = g[S]
<1>1. SumFunctionOnSet(f, S) = (CHOOSE g : Sums(g, f, S))[S]
  BY Zenon DEF SumFunctionOnSet, FoldFunctionOnSet, MapThenFoldSet, Sums, Fold, Pick
<1>2. SumFunction(f) = SumFunctionOnSet(f, S)
  BY Zenon DEF SumFunction
<1>3. PICK g : g = (CHOOSE k : Sums(k, f, S))
  BY Zenon
<1>4. Sums(g, f, S)
  BY <1>3, SumsExist, Zenon
<1>5. \A s \in SUBSET S : g[s] = Fold(g, f, s)
  BY <1>4, Zenon DEF Sums
<1>6. {} \in SUBSET S
  OBVIOUS
<1>7. Accumulates(g, f, S)
  BY <1>5, <1>6, Zenon DEF Fold, Accumulates
<1> QED
  BY <1>1, <1>2, <1>3, <1>7, Zenon

LEMMA SumAdds ==
  ASSUME NEW S, IsFiniteSet(S), NEW f \in [S -> Nat], NEW f1 \in [S -> Nat], NEW f2 \in [S -> Nat],
         \A d \in S : f[d] = f1[d] + f2[d]
  PROVE  SumFunction(f) = SumFunction(f1) + SumFunction(f2) /\ SumFunction(f1) \in Nat
<1>1. PICK g : Accumulates(g, f, S) /\ SumFunction(f) = g[S]
  BY SumIs, Zenon
<1>2. PICK g1 : Accumulates(g1, f1, S) /\ SumFunction(f1) = g1[S]
  BY SumIs, Zenon
<1>3. PICK g2 : Accumulates(g2, f2, S) /\ SumFunction(f2) = g2[S]
  BY SumIs, Zenon
<1>4. PICK P : P = {s \in SUBSET S : g1[s] \in Nat /\ g2[s] \in Nat /\ g[s] = g1[s] + g2[s]}
  BY Zenon
<1>5. {} \in P
  <2>1. g[{}] = 0 /\ g1[{}] = 0 /\ g2[{}] = 0
    BY <1>1, <1>2, <1>3, Zenon DEF Accumulates
  <2> QED
    BY <1>4, <2>1
<1>6. ASSUME NEW s \in SUBSET S, s # {}, s \ {Pick(s)} \in P PROVE s \in P
  <2>1. PICK d \in S : d = Pick(s)
    BY <1>6, PickIn
  <2>2. PICK r : r = s \ {d}
    BY Zenon
  <2>3. g[s] = f[d] + g[r] /\ g1[s] = f1[d] + g1[r] /\ g2[s] = f2[d] + g2[r]
    BY <1>1, <1>2, <1>3, <1>6, <2>1, <2>2, Zenon DEF Accumulates
  <2>4. g1[r] \in Nat /\ g2[r] \in Nat /\ g[r] = g1[r] + g2[r]
    BY <1>4, <1>6, <2>1, <2>2, Zenon
  <2>5. f1[d] \in Nat /\ f2[d] \in Nat /\ f[d] = f1[d] + f2[d]
    OBVIOUS
  <2>6. g1[s] \in Nat /\ g2[s] \in Nat /\ g[s] = g1[s] + g2[s]
    BY <2>3, <2>4, <2>5, SMTT(30)
  <2> QED
    BY <1>4, <2>6, Zenon
<1>7. S \in P
  BY <1>5, <1>6, SubsetInduction
<1> QED
  BY <1>1, <1>2, <1>3, <1>4, <1>7, Zenon

LEMMA SumOne ==
  ASSUME NEW S, IsFiniteSet(S), NEW f \in [S -> Nat], NEW d \in S, \A e \in S \ {d} : f[e] = 0
  PROVE  SumFunction(f) = f[d]
<1>1. PICK g : Accumulates(g, f, S) /\ SumFunction(f) = g[S]
  BY SumIs
<1>2. PICK P : P = {s \in SUBSET S : g[s] = IF d \in s THEN f[d] ELSE 0}
  BY Zenon
<1>3. {} \in P
  <2>1. g[{}] = 0
    BY <1>1, Zenon DEF Accumulates
  <2> QED
    BY <1>2, <2>1
<1>4. ASSUME NEW s \in SUBSET S, s # {}, s \ {Pick(s)} \in P PROVE s \in P
  <2>1. PICK e \in S : e = Pick(s) /\ e \in s
    BY <1>4, PickIn
  <2>2. PICK r : r = s \ {e}
    BY Zenon
  <2>3. g[s] = f[e] + g[r] /\ g[r] = IF d \in r THEN f[d] ELSE 0
    BY <1>1, <1>2, <1>4, <2>1, <2>2, Zenon DEF Accumulates
  <2>4. f[d] \in Nat
    OBVIOUS
  <2>5. CASE e = d
    BY <1>2, <2>1, <2>2, <2>3, <2>4, <2>5
  <2>6. CASE e # d
    <3>1. f[e] = 0 /\ (d \in r <=> d \in s)
      BY <2>2, <2>6
    <3> QED
      BY <1>2, <2>3, <2>4, <3>1
  <2> QED
    BY <2>5, <2>6
<1>5. S \in P
  BY <1>3, <1>4, SubsetInduction
<1> QED
  BY <1>1, <1>2, <1>5, Zenon

LEMMA SumZero ==
  ASSUME NEW S, IsFiniteSet(S), NEW f \in [S -> Nat], \A d \in S : f[d] = 0
  PROVE  SumFunction(f) = 0
<1>1. \A d \in S : f[d] = f[d] + f[d]
  OBVIOUS
<1>2. SumFunction(f) = SumFunction(f) + SumFunction(f) /\ SumFunction(f) \in Nat
  BY <1>1, SumAdds
<1>3. \A n \in Nat : n = n + n => n = 0
  OBVIOUS
<1> QED
  BY <1>2, <1>3, Zenon
-----------------------------------------------------------------------------
(* What the statistics of a catalogue count. *)

Scaled(log, w) == [doc \in Doc |-> log[doc] * w[doc]]
TotalOf(log, w) == SumFunction(Scaled(log, w))

Log == [Doc -> Nat]

LEMMA Times ==
  \A a, b \in Nat : /\ a * b \in Nat /\ (a + 1) * b = a * b + b
                    /\ 0 * b = 0 /\ a * 0 = 0 /\ a * 1 = a
OBVIOUS

LEMMA Distributes == \A a, b, c \in Nat : a * (b + c) = a * b + a * c
OBVIOUS

LEMMA ScaledType ==
  ASSUME NEW log \in Log, NEW w \in Log
  PROVE  Scaled(log, w) \in [Doc -> Nat]
BY Times, Zenon DEF Scaled, Log

LEMMA ScaledAt ==
  ASSUME NEW log, NEW w, NEW d \in Doc
  PROVE  Scaled(log, w)[d] = log[d] * w[d]
BY Zenon DEF Scaled

\* Weights that agree on every record of the log give one total.
LEMMA TotalSame ==
  ASSUME NEW log \in Log, NEW w1 \in Log, NEW w2 \in Log,
         \A d \in Doc : log[d] > 0 => w1[d] = w2[d]
  PROVE  TotalOf(log, w1) = TotalOf(log, w2)
<1>1. ASSUME NEW d \in Doc PROVE log[d] * w1[d] = log[d] * w2[d]
  <2>1. log[d] \in Nat /\ w1[d] \in Nat /\ w2[d] \in Nat
    BY Zenon DEF Log
  <2>2. CASE log[d] = 0
    BY <2>1, <2>2, Times, Zenon
  <2>3. CASE log[d] > 0
    BY <2>3, Zenon
  <2> QED
    BY <2>1, <2>2, <2>3
<1>2. Scaled(log, w1) = Scaled(log, w2)
  BY <1>1, Zenon DEF Scaled
<1> QED
  BY <1>2, Zenon DEF TotalOf

\* The total of a sum of weights.
LEMMA TotalSplit ==
  ASSUME NEW log \in Log, NEW w \in Log, NEW w1 \in Log, NEW w2 \in Log,
         \A d \in Doc : w[d] = w1[d] + w2[d]
  PROVE  TotalOf(log, w) = TotalOf(log, w1) + TotalOf(log, w2) /\ TotalOf(log, w1) \in Nat
<1>1. PICK f \in [Doc -> Nat] : f = Scaled(log, w)
  BY ScaledType, Zenon
<1>2. PICK f1 \in [Doc -> Nat] : f1 = Scaled(log, w1)
  BY ScaledType, Zenon
<1>3. PICK f2 \in [Doc -> Nat] : f2 = Scaled(log, w2)
  BY ScaledType, Zenon
<1>4. ASSUME NEW d \in Doc PROVE f[d] = f1[d] + f2[d]
  <2>1. log[d] \in Nat /\ w1[d] \in Nat /\ w2[d] \in Nat
    BY Zenon DEF Log
  <2>2. f[d] = log[d] * w[d] /\ f1[d] = log[d] * w1[d] /\ f2[d] = log[d] * w2[d]
    BY <1>1, <1>2, <1>3, ScaledAt, Zenon
  <2>3. log[d] * (w1[d] + w2[d]) = log[d] * w1[d] + log[d] * w2[d]
    BY <2>1, Distributes, Zenon
  <2> QED
    BY <2>2, <2>3, Zenon
<1>5. IsFiniteSet(Doc)
  BY CatalogueAssumption
<1>6. SumFunction(f) = SumFunction(f1) + SumFunction(f2) /\ SumFunction(f1) \in Nat
  BY <1>4, <1>5, SumAdds
<1> QED
  BY <1>1, <1>2, <1>3, <1>6, Zenon DEF TotalOf

LEMMA TotalType ==
  ASSUME NEW log \in Log, NEW w \in Log
  PROVE  TotalOf(log, w) \in Nat
<1>1. PICK v : v = [d \in Doc |-> w[d] + w[d]]
  BY Zenon
<1>2. v \in Log /\ \A d \in Doc : v[d] = w[d] + w[d]
  BY <1>1 DEF Log
<1> QED
  BY <1>2, TotalSplit, Zenon

\* Nothing, when no record of the log has any weight.
LEMMA TotalZero ==
  ASSUME NEW log \in Log, NEW w \in Log, \A d \in Doc : log[d] > 0 => w[d] = 0
  PROVE  TotalOf(log, w) = 0
<1>1. PICK f \in [Doc -> Nat] : f = Scaled(log, w)
  BY ScaledType, Zenon
<1>2. ASSUME NEW d \in Doc PROVE f[d] = 0
  <2>1. log[d] \in Nat /\ w[d] \in Nat
    BY Zenon DEF Log
  <2>2. f[d] = log[d] * w[d]
    BY <1>1, ScaledAt, Zenon
  <2>3. CASE log[d] = 0
    BY <2>1, <2>2, <2>3, Times, Zenon
  <2>4. CASE log[d] > 0
    BY <2>1, <2>2, <2>4, Times, Zenon
  <2> QED
    BY <2>1, <2>3, <2>4
<1>3. IsFiniteSet(Doc)
  BY CatalogueAssumption
<1> QED
  BY <1>1, <1>2, <1>3, SumZero, Zenon DEF TotalOf

\* One more record in the log adds its weight to the total.
LEMMA TotalObserved ==
  ASSUME NEW log \in Log, NEW doc \in Doc, NEW now, now = [log EXCEPT ![doc] = @ + 1],
         NEW w \in Log
  PROVE  TotalOf(now, w) = TotalOf(log, w) + w[doc]
<1>1. PICK f1 \in [Doc -> Nat] : f1 = Scaled(log, w)
  BY ScaledType, Zenon
<1>2. PICK f2 : f2 = [d \in Doc |-> IF d = doc THEN w[doc] ELSE 0]
  BY Zenon
<1>3. f2 \in [Doc -> Nat] /\ f2[doc] = w[doc] /\ \A e \in Doc \ {doc} : f2[e] = 0
  BY <1>2, Zenon DEF Log
<1>4. now \in Log /\ now[doc] = log[doc] + 1 /\ \A e \in Doc \ {doc} : now[e] = log[e]
  BY DEF Log
<1>5. PICK f \in [Doc -> Nat] : f = Scaled(now, w)
  BY <1>4, ScaledType, Zenon
<1>6. ASSUME NEW d \in Doc PROVE f[d] = f1[d] + f2[d]
  <2>1. log[d] \in Nat /\ w[d] \in Nat
    BY Zenon DEF Log
  <2>2. f[d] = now[d] * w[d] /\ f1[d] = log[d] * w[d]
    BY <1>1, <1>5, ScaledAt, Zenon
  <2>3. CASE d = doc
    <3>1. (log[d] + 1) * w[d] = log[d] * w[d] + w[d]
      BY <2>1, Times, Zenon
    <3> QED
      BY <1>3, <1>4, <2>2, <2>3, <3>1, Zenon
  <2>4. CASE d # doc
    <3>1. f[d] = f1[d] /\ f2[d] = 0 /\ f1[d] \in Nat
      <4>1. d \in Doc \ {doc} /\ f1[d] \in Nat
        BY <2>4, Zenon
      <4> QED
        BY <1>3, <1>4, <2>2, <4>1, Zenon
    <3> QED
      BY <3>1
  <2> QED
    BY <2>3, <2>4
<1>7. IsFiniteSet(Doc)
  BY CatalogueAssumption
<1>8. SumFunction(f) = SumFunction(f1) + SumFunction(f2)
  BY <1>3, <1>6, <1>7, SumAdds
<1>9. SumFunction(f2) = w[doc]
  BY <1>3, <1>7, SumOne, ZenonT(60)
<1> QED
  BY <1>1, <1>5, <1>8, <1>9, Zenon DEF TotalOf

\* The weights of a record: itself, its lack of a path, the visits to the path, and those that
\* find a type there.
Once == [doc \in Doc |-> 1]
Lacks(p) == [doc \in Doc |-> IF p \in PresentPaths(doc) THEN 0 ELSE 1]
Met(p) == [doc \in Doc |-> Cardinality(Visits(doc, p))]
MetAs(p, t) == [doc \in Doc |-> Cardinality({e \in Visits(doc, p) : e.type = t})]

Field == [samples : Nat, missing : Nat, types : [JSONType -> Nat]]

FieldCounts(f, log, p) ==
  /\ f \in Field
  /\ f.missing = TotalOf(log, Lacks(p))
  /\ f.samples = TotalOf(log, Met(p))
  /\ \A t \in JSONType : f.types[t] = TotalOf(log, MetAs(p, t))

InLog(log) == {d \in Doc : log[d] > 0}

\* The statistics count the records of the log, path by path.
Counts(stats) ==
  /\ stats.log \in Log
  /\ stats.records = TotalOf(stats.log, Once)
  /\ DOMAIN stats.fields = UNION {PresentPaths(doc) : doc \in InLog(stats.log)}
  /\ \A p \in DOMAIN stats.fields : FieldCounts(stats.fields[p], stats.log, p)

LEMMA VisitsFinite ==
  ASSUME NEW doc \in Doc, NEW p
  PROVE  /\ IsFiniteSet(Visits(doc, p))
         /\ \A t : IsFiniteSet({e \in Visits(doc, p) : e.type = t})
<1>1. IsFiniteSet(Entries[doc])
  BY CatalogueAssumption, Zenon
<1>2. Visits(doc, p) \subseteq Entries[doc]
  BY Zenon DEF Visits, Visited
<1>3. ASSUME NEW t PROVE {e \in Visits(doc, p) : e.type = t} \subseteq Entries[doc]
  BY <1>2, Zenon
<1> QED
  BY <1>1, <1>2, <1>3, FS_Subset, Zenon

LEMMA WeightTypes ==
  ASSUME NEW p
  PROVE  /\ Once \in Log /\ Lacks(p) \in Log /\ Met(p) \in Log
         /\ \A t : MetAs(p, t) \in Log
<1>1. Once \in Log
  BY DEF Once, Log
<1>2. Lacks(p) \in Log
  BY DEF Lacks, Log
<1>3. Met(p) \in Log
  <2>1. \A doc \in Doc : Cardinality(Visits(doc, p)) \in Nat
    BY VisitsFinite, FS_CardinalityType, Zenon
  <2> QED
    BY <2>1, Zenon DEF Met, Log
<1>4. ASSUME NEW t PROVE MetAs(p, t) \in Log
  <2>1. \A doc \in Doc : Cardinality({e \in Visits(doc, p) : e.type = t}) \in Nat
    BY VisitsFinite, FS_CardinalityType, Zenon
  <2> QED
    BY <2>1, Zenon DEF MetAs, Log
<1> QED
  BY <1>1, <1>2, <1>3, <1>4, Zenon

LEMMA WeightsAt ==
  ASSUME NEW doc \in Doc, NEW p
  PROVE  /\ Once[doc] = 1
         /\ Lacks(p)[doc] = (IF p \in PresentPaths(doc) THEN 0 ELSE 1)
         /\ Met(p)[doc] = Cardinality(Visits(doc, p))
         /\ \A t : MetAs(p, t)[doc] = Cardinality({e \in Visits(doc, p) : e.type = t})
BY Zenon DEF Once, Lacks, Met, MetAs

\* A record without the path is not visited there.
LEMMA NotVisited ==
  ASSUME NEW doc \in Doc, NEW p, p \notin PresentPaths(doc)
  PROVE  Met(p)[doc] = 0 /\ Lacks(p)[doc] = 1 /\ \A t : MetAs(p, t)[doc] = 0
<1>1. Visits(doc, p) = {}
  BY Zenon DEF Visits, PresentPaths
<1>2. \A t : {e \in Visits(doc, p) : e.type = t} = {}
  BY <1>1, Zenon
<1>3. Cardinality({}) = 0
  BY FS_EmptySet, Zenon
<1>4. Met(p)[doc] = 0 /\ Lacks(p)[doc] = 1
  BY <1>1, <1>3, WeightsAt, Zenon
<1>5. ASSUME NEW t PROVE MetAs(p, t)[doc] = 0
  BY <1>2, <1>3, WeightsAt
<1> QED
  BY <1>4, <1>5, Zenon

\* A path that no record of the log has.
LEMMA NewFieldCounts ==
  ASSUME NEW log \in Log, NEW records, records = TotalOf(log, Once) + 1, NEW p,
         \A d \in InLog(log) : p \notin PresentPaths(d)
  PROVE  FieldCounts(NewField(records), log, p)
<1>1. TotalOf(log, Once) \in Nat /\ records - 1 = TotalOf(log, Once)
  <2>1. TotalOf(log, Once) \in Nat
    BY WeightTypes, TotalType, Zenon
  <2> QED
    BY <2>1
<1>2. \A d \in Doc : log[d] > 0 => /\ Lacks(p)[d] = 1 /\ Once[d] = 1 /\ Met(p)[d] = 0
                                   /\ \A t : MetAs(p, t)[d] = 0
  BY NotVisited, WeightsAt, Zenon DEF InLog
<1>3. TotalOf(log, Lacks(p)) = TotalOf(log, Once)
  BY <1>2, WeightTypes, TotalSame
<1>4. TotalOf(log, Met(p)) = 0
  BY <1>2, WeightTypes, TotalZero
<1>5. ASSUME NEW t PROVE TotalOf(log, MetAs(p, t)) = 0
  BY <1>2, WeightTypes, TotalZero
<1>6. /\ NewField(records) \in Field /\ NewField(records).missing = records - 1
      /\ NewField(records).samples = 0 /\ \A t \in JSONType : NewField(records).types[t] = 0
  BY <1>1 DEF NewField, Field
<1> QED
  BY <1>1, <1>3, <1>4, <1>5, <1>6, Zenon DEF FieldCounts

\* A record that has the path, and one that has not.
LEMMA ObserveFieldCounts ==
  ASSUME NEW log \in Log, NEW doc \in Doc, NEW now, now = [log EXCEPT ![doc] = @ + 1],
         NEW p, p \in PresentPaths(doc), NEW f, FieldCounts(f, log, p)
  PROVE  FieldCounts(ObserveField(f, doc, p), now, p)
<1>1. Lacks(p) \in Log /\ Met(p) \in Log /\ \A t : MetAs(p, t) \in Log
  BY WeightTypes, Zenon
<1>2. TotalOf(now, Lacks(p)) = TotalOf(log, Lacks(p)) + Lacks(p)[doc]
  BY <1>1, TotalObserved, Zenon
<1>3. TotalOf(now, Met(p)) = TotalOf(log, Met(p)) + Met(p)[doc]
  BY <1>1, TotalObserved, Zenon
<1>4. ASSUME NEW t \in JSONType
      PROVE  TotalOf(now, MetAs(p, t)) = TotalOf(log, MetAs(p, t)) + MetAs(p, t)[doc]
  BY <1>1, TotalObserved, ZenonT(30)
<1>5. PICK n : n = Cardinality(Visits(doc, p))
  BY Zenon
<1>6. PICK k : k = [t \in JSONType |-> Cardinality({e \in Visits(doc, p) : e.type = t})]
  BY Zenon
<1>7. n \in Nat /\ k \in [JSONType -> Nat]
  <2>1. n \in Nat
    BY <1>5, VisitsFinite, FS_CardinalityType, Zenon
  <2>2. \A t \in JSONType : Cardinality({e \in Visits(doc, p) : e.type = t}) \in Nat
    BY VisitsFinite, FS_CardinalityType, Zenon
  <2> QED
    BY <1>6, <2>1, <2>2, Zenon
<1>8. f \in Field
  BY Zenon DEF FieldCounts
<1>9. PICK types : types = [t \in JSONType |-> f.types[t] + k[t]]
  BY Zenon
<1>10. types \in [JSONType -> Nat]
  BY <1>7, <1>8, <1>9 DEF Field
<1>11. PICK f2 : f2 = [f EXCEPT !.samples = @ + n, !.types = types]
  BY Zenon
<1>12. ObserveField(f, doc, p) = f2
  BY <1>5, <1>6, <1>9, <1>11, Zenon DEF ObserveField
<1>13. f2 \in Field /\ f2.missing = f.missing + 0 /\ f2.samples = f.samples + n /\ f2.types = types
  <2>1. f.samples + n \in Nat /\ f.missing + 0 = f.missing
    BY <1>7, <1>8 DEF Field
  <2>2. f2 \in Field /\ f2.missing = f.missing /\ f2.samples = f.samples + n /\ f2.types = types
    BY <1>8, <1>10, <1>11, <2>1, Zenon DEF Field
  <2> QED
    BY <2>1, <2>2, Zenon
<1>14. Lacks(p)[doc] = 0 /\ Met(p)[doc] = n
  BY <1>5, WeightsAt, Zenon
<1>15. ASSUME NEW t \in JSONType PROVE k[t] = MetAs(p, t)[doc]
  BY <1>6, WeightsAt, Zenon
<1>16. \A t \in JSONType : f2.types[t] = f.types[t] + MetAs(p, t)[doc]
  BY <1>9, <1>13, <1>15, Zenon
<1> QED
  BY <1>2, <1>3, <1>4, <1>12, <1>13, <1>14, <1>16, Zenon DEF FieldCounts

LEMMA MissingFieldCounts ==
  ASSUME NEW log \in Log, NEW doc \in Doc, NEW now, now = [log EXCEPT ![doc] = @ + 1],
         NEW p, p \notin PresentPaths(doc), NEW f, FieldCounts(f, log, p)
  PROVE  FieldCounts([f EXCEPT !.missing = @ + 1], now, p)
<1>1. Lacks(p) \in Log /\ Met(p) \in Log /\ \A t : MetAs(p, t) \in Log
  BY WeightTypes, Zenon
<1>2. TotalOf(now, Lacks(p)) = TotalOf(log, Lacks(p)) + Lacks(p)[doc]
  BY <1>1, TotalObserved, Zenon
<1>3. TotalOf(now, Met(p)) = TotalOf(log, Met(p)) + Met(p)[doc]
  BY <1>1, TotalObserved, Zenon
<1>4. ASSUME NEW t \in JSONType
      PROVE  TotalOf(now, MetAs(p, t)) = TotalOf(log, MetAs(p, t)) + MetAs(p, t)[doc]
  BY <1>1, TotalObserved, ZenonT(60)
<1>5. f \in Field
  BY Zenon DEF FieldCounts
<1>6. PICK f2 : f2 = [f EXCEPT !.missing = @ + 1]
  BY Zenon
<1>7. /\ f2 \in Field /\ f2.missing = f.missing + 1 /\ f2.samples = f.samples + 0
      /\ \A t \in JSONType : f2.types[t] = f.types[t] + 0
  BY <1>5, <1>6 DEF Field
<1>8. Lacks(p)[doc] = 1 /\ Met(p)[doc] = 0 /\ \A t : MetAs(p, t)[doc] = 0
  BY NotVisited, Zenon
<1> QED
  BY <1>2, <1>3, <1>4, <1>6, <1>7, <1>8, Zenon DEF FieldCounts

LEMMA CountsEmpty == Counts(Empty)
<1>1. PICK log : log = Empty.log
  BY Zenon
<1>2. log \in Log /\ \A d \in Doc : log[d] = 0
  BY <1>1 DEF Empty, Log
<1>3. Empty.records = 0 /\ DOMAIN Empty.fields = {}
  BY DEF Empty
<1>4. InLog(log) = {}
  BY <1>2 DEF InLog
<1>5. TotalOf(log, Once) = 0
  <2>1. \A d \in Doc : log[d] > 0 => Once[d] = 0
    BY <1>2
  <2> QED
    BY <1>2, <2>1, WeightTypes, TotalZero
<1> QED
  BY <1>1, <1>2, <1>3, <1>4, <1>5, Zenon DEF Counts

LEMMA CountsObserve ==
  ASSUME NEW stats, Counts(stats), NEW doc \in Doc
  PROVE  Counts(Observe(stats, doc))
<1>1. PICK log \in Log : log = stats.log
  BY Zenon DEF Counts
<1>2. PICK now : now = [log EXCEPT ![doc] = @ + 1]
  BY Zenon
<1>3. now \in Log /\ InLog(now) = InLog(log) \cup {doc}
  BY <1>2 DEF Log, InLog
<1>4. PICK known : known = DOMAIN stats.fields
  BY Zenon
<1>5. PICK records : records = stats.records + 1
  BY Zenon
<1>6. PICK seen : seen = Observe(stats, doc)
  BY Zenon
<1>7. /\ seen.records = records /\ seen.log = now
      /\ DOMAIN seen.fields = known \cup PresentPaths(doc)
      /\ \A p \in known \cup PresentPaths(doc) : seen.fields[p] =
           IF p \in PresentPaths(doc)
           THEN ObserveField(IF p \in known THEN stats.fields[p] ELSE NewField(records), doc, p)
           ELSE [stats.fields[p] EXCEPT !.missing = @ + 1]
  BY <1>1, <1>2, <1>4, <1>5, <1>6, Zenon DEF Observe
<1>8. records = TotalOf(log, Once) + 1
  BY <1>1, <1>5, Zenon DEF Counts
<1>9. records = TotalOf(now, Once)
  <2>1. TotalOf(now, Once) = TotalOf(log, Once) + Once[doc]
    BY <1>2, WeightTypes, TotalObserved, Zenon
  <2> QED
    BY <1>8, <2>1, WeightsAt, Zenon
<1>10. known = UNION {PresentPaths(d) : d \in InLog(log)}
  BY <1>1, <1>4, Zenon DEF Counts
<1>11. DOMAIN seen.fields = UNION {PresentPaths(d) : d \in InLog(now)}
  BY <1>3, <1>7, <1>10
<1>12. ASSUME NEW p \in known \cup PresentPaths(doc) PROVE FieldCounts(seen.fields[p], now, p)
  <2>1. PICK f : f = IF p \in known THEN stats.fields[p] ELSE NewField(records)
    BY Zenon
  <2>2. FieldCounts(f, log, p)
    <3>1. CASE p \in known
      BY <1>1, <1>4, <2>1, <3>1, Zenon DEF Counts
    <3>2. CASE p \notin known
      <4>1. \A d \in InLog(log) : p \notin PresentPaths(d)
        BY <1>10, <3>2, Zenon
      <4> QED
        BY <1>8, <2>1, <3>2, <4>1, NewFieldCounts, Zenon
    <3> QED
      BY <3>1, <3>2
  <2>3. CASE p \in PresentPaths(doc)
    <3>1. seen.fields[p] = ObserveField(f, doc, p)
      BY <1>7, <2>1, <2>3, Zenon
    <3> QED
      BY <1>2, <2>2, <2>3, <3>1, ObserveFieldCounts, Zenon
  <2>4. CASE p \notin PresentPaths(doc)
    <3>1. seen.fields[p] = [f EXCEPT !.missing = @ + 1]
      BY <1>7, <2>1, <2>4, Zenon
    <3> QED
      <4>1. FieldCounts([f EXCEPT !.missing = @ + 1], now, p)
        BY <1>2, <2>2, <2>4, MissingFieldCounts, Zenon
      <4> QED
        BY <3>1, <4>1, Zenon
  <2> QED
    BY <2>3, <2>4
<1> QED
  BY <1>3, <1>6, <1>7, <1>9, <1>11, <1>12, Zenon DEF Counts

\* A type that is counted is the type of a value at the path, in a record of the log.
LEMMA CountedType ==
  ASSUME NEW log \in Log, NEW f, NEW p, FieldCounts(f, log, p), NEW t \in JSONType, f.types[t] > 0
  PROVE  \E d \in InLog(log) : \E e \in Visits(d, p) : e.type = t
<1>1. MetAs(p, t) \in Log
  BY WeightTypes, Zenon
<1>2. f.types[t] = TotalOf(log, MetAs(p, t))
  BY Zenon DEF FieldCounts
<1>3. PICK d \in Doc : log[d] > 0 /\ MetAs(p, t)[d] # 0
  <2>1. TotalOf(log, MetAs(p, t)) # 0
    BY <1>2
  <2> QED
    BY <1>1, <2>1, TotalZero, Zenon
<1>4. PICK v : v = {e \in Visits(d, p) : e.type = t}
  BY Zenon
<1>5. Cardinality(v) # 0
  <2>1. MetAs(p, t)[d] = Cardinality({e \in Visits(d, p) : e.type = t})
    BY Zenon DEF MetAs
  <2> QED
    BY <1>3, <1>4, <2>1, Zenon
<1>6. v # {}
  BY <1>5, FS_EmptySet, Zenon
<1> QED
  BY <1>3, <1>4, <1>6, Zenon DEF InLog

LEMMA ResolvedType ==
  ASSUME NEW log \in Log, NEW f, NEW p, FieldCounts(f, log, p)
  PROVE  ResolveFieldType(f) \in
           {"any"} \cup {e.type : e \in UNION {Visits(d, p) : d \in InLog(log)}}
<1>1. CASE HasConflict(f) \/ NonNullTypes(f) = {}
  BY <1>1, Zenon DEF ResolveFieldType
<1>2. CASE ~(HasConflict(f) \/ NonNullTypes(f) = {})
  <2>1. PICK t : t = ResolveFieldType(f)
    BY Zenon
  <2>2. t \in JSONType /\ t \in NonNullTypes(f)
    <3>1. \E s \in JSONType : s \in NonNullTypes(f)
      BY <1>2, Zenon DEF NonNullTypes
    <3> QED
      BY <1>2, <2>1, <3>1, Zenon DEF ResolveFieldType
  <2>3. f.types[t] > 0
    BY <2>2, Zenon DEF NonNullTypes
  <2>4. PICK d \in InLog(log) : \E e \in Visits(d, p) : e.type = t
    BY <2>2, <2>3, CountedType
  <2> QED
    BY <2>1, <2>4, Zenon
<1> QED
  BY <1>1, <1>2, Zenon

LEMMA CountsDescribe ==
  ASSUME NEW stats, Counts(stats)
  PROVE  Describes(stats)
<1> DEFINE of(p) == {e.type : e \in UNION {Visits(doc, p) : doc \in {d \in Doc : stats.log[d] > 0}}}
<1>1. stats.log \in Log
  BY Zenon DEF Counts
<1>2. DOMAIN stats.log = Doc
  BY <1>1, Zenon DEF Log
<1>3. SumFunction([doc \in DOMAIN stats.log |-> stats.log[doc] * 1]) = stats.records
  <2>1. [doc \in DOMAIN stats.log |-> stats.log[doc] * 1] = Scaled(stats.log, Once)
    BY <1>2, Zenon DEF Scaled, Once
  <2> QED
    BY <2>1, Zenon DEF TotalOf, Counts
<1>4. DOMAIN stats.fields = UNION {PresentPaths(doc) : doc \in {d \in Doc : stats.log[d] > 0}}
  BY Zenon DEF Counts, InLog
<1>5. ASSUME NEW p \in DOMAIN stats.fields
      PROVE  /\ stats.fields[p].missing =
                  SumFunction([doc \in DOMAIN stats.log |->
                                 stats.log[doc] * (IF p \in PresentPaths(doc) THEN 0 ELSE 1)])
             /\ stats.fields[p].samples =
                  SumFunction([doc \in DOMAIN stats.log |->
                                 stats.log[doc] * Cardinality(Visits(doc, p))])
             /\ \A t \in JSONType : stats.fields[p].types[t] =
                  SumFunction([doc \in DOMAIN stats.log |->
                                 stats.log[doc] * Cardinality({e \in Visits(doc, p) : e.type = t})])
             /\ ResolveFieldType(stats.fields[p]) \in {"any"} \cup of(p)
  <2>1. FieldCounts(stats.fields[p], stats.log, p)
    BY <1>5, Zenon DEF Counts
  <2>2. [doc \in DOMAIN stats.log |-> stats.log[doc] * (IF p \in PresentPaths(doc) THEN 0 ELSE 1)]
          = Scaled(stats.log, Lacks(p))
    BY <1>2, Zenon DEF Scaled, Lacks
  <2>3. [doc \in DOMAIN stats.log |-> stats.log[doc] * Cardinality(Visits(doc, p))]
          = Scaled(stats.log, Met(p))
    BY <1>2, Zenon DEF Scaled, Met
  <2>4. ASSUME NEW t \in JSONType
        PROVE  stats.fields[p].types[t] =
                 SumFunction([doc \in DOMAIN stats.log |->
                                stats.log[doc] * Cardinality({e \in Visits(doc, p) : e.type = t})])
    <3>1. [doc \in DOMAIN stats.log |->
             stats.log[doc] * Cardinality({e \in Visits(doc, p) : e.type = t})]
            = Scaled(stats.log, MetAs(p, t))
      BY <1>2, Zenon DEF Scaled, MetAs
    <3>2. stats.fields[p].types[t] = SumFunction(Scaled(stats.log, MetAs(p, t)))
      BY <2>1, Zenon DEF FieldCounts, TotalOf
    <3> QED
      BY <3>1, <3>2, Zenon
  <2>5. ResolveFieldType(stats.fields[p]) \in {"any"} \cup of(p)
    <3>1. PICK log \in Log : log = stats.log
      BY <1>1, Zenon
    <3>2. PICK f : f = stats.fields[p]
      BY Zenon
    <3>3. ResolveFieldType(f) \in
            {"any"} \cup {e.type : e \in UNION {Visits(d, p) : d \in InLog(log)}}
      BY <2>1, <3>1, <3>2, ResolvedType
    <3> QED
      BY <3>1, <3>2, <3>3, Zenon DEF InLog
  <2>6. stats.fields[p].missing = SumFunction(Scaled(stats.log, Lacks(p)))
    BY <2>1, Zenon DEF FieldCounts, TotalOf
  <2>7. stats.fields[p].samples = SumFunction(Scaled(stats.log, Met(p)))
    BY <2>1, Zenon DEF FieldCounts, TotalOf
  <2> HIDE DEF of
  <2> QED
    BY <2>2, <2>3, <2>4, <2>5, <2>6, <2>7, Zenon
<1> QED
  BY <1>3, <1>4, <1>5, Zenon DEF Describes, Total

LEMMA CountsAddUp ==
  ASSUME NEW stats, Counts(stats), \A doc \in Doc : stats.log[doc] > 0 => NamesOnce(doc)
  PROVE  AddsUp(stats)
<1>1. PICK log \in Log : log = stats.log
  BY Zenon DEF Counts
<1>2. ASSUME NEW p \in DOMAIN stats.fields
      PROVE  stats.fields[p].samples + stats.fields[p].missing = stats.records
  <2>1. PICK w : w = [d \in Doc |-> Met(p)[d] + Lacks(p)[d]]
    BY Zenon
  <2>2. Met(p) \in Log /\ Lacks(p) \in Log /\ Once \in Log
    BY WeightTypes, Zenon
  <2>3. w \in Log /\ \A d \in Doc : w[d] = Met(p)[d] + Lacks(p)[d]
    BY <2>1, <2>2 DEF Log
  <2>4. TotalOf(log, w) = TotalOf(log, Met(p)) + TotalOf(log, Lacks(p))
    BY <2>2, <2>3, TotalSplit
  <2>5. ASSUME NEW d \in Doc, log[d] > 0 PROVE w[d] = Once[d]
    <3>1. CASE p \in PresentPaths(d)
      <4>1. Met(p)[d] = 1 /\ Lacks(p)[d] = 0 /\ Once[d] = 1
        <5>1. NamesOnce(d)
          BY <1>1, <2>5, Zenon
        <5>2. Cardinality(Visits(d, p)) = 1
          BY <3>1, <5>1, Zenon DEF NamesOnce
        <5> QED
          BY <3>1, <5>2, WeightsAt, Zenon
      <4> QED
        BY <2>3, <4>1
    <3>2. CASE p \notin PresentPaths(d)
      <4>1. Met(p)[d] = 0 /\ Lacks(p)[d] = 1 /\ Once[d] = 1
        BY <3>2, NotVisited, WeightsAt, Zenon
      <4> QED
        BY <2>3, <4>1
    <3> QED
      BY <3>1, <3>2, ZenonT(60)
  <2>6. TotalOf(log, w) = TotalOf(log, Once)
    BY <2>2, <2>3, <2>5, TotalSame, Zenon
  <2> QED
    BY <1>1, <2>4, <2>6, Zenon DEF Counts, FieldCounts
<1> QED
  BY <1>2, Zenon DEF AddsUp
-----------------------------------------------------------------------------
(* The catalogues, in memory and in their files. *)

CountsInv == (\A i \in Instance : Counts(inst[i].cat)) /\ \A m \in Manifest : Counts(saved[m])

LEMMA CountsInit == Init => CountsInv
<1> SUFFICES ASSUME Init PROVE CountsInv
  OBVIOUS
<1>1. Shut.cat = Empty
  BY DEF Shut
<1>2. (\A i \in Instance : inst[i] = Shut) /\ \A m \in Manifest : saved[m] = Empty
  BY DEF Init
<1> QED
  BY <1>1, <1>2, CountsEmpty, Zenon DEF CountsInv

\* A catalogue is loaded from its file, given up, observes a record or is saved.
LEMMA CountsStep ==
  ASSUME HolderTypes, KeptTypes, CountsInv, [Next]_vars
  PROVE  CountsInv'
<1>0. Shut.cat = Empty
  BY DEF Shut
<1>1. ASSUME NEW p, NEW i \in Instance, OpenFile(p, i), UNCHANGED saved
      PROVE  CountsInv'
  <2>1. /\ files[p] \in Manifest
        /\ inst' = [inst EXCEPT ![i] = [of |-> files[p], cat |-> saved[files[p]]]]
    BY <1>1, Zenon DEF OpenFile, Load
  <2>2. inst'[i].cat = saved[files[p]] /\ \A j \in Instance \ {i} : inst'[j] = inst[j]
    BY <2>1, Zenon DEF KeptTypes
  <2> QED
    BY <1>1, <2>1, <2>2, Zenon DEF CountsInv
<1>2. ASSUME NEW s, CloseAll(s), UNCHANGED saved
      PROVE  CountsInv'
  <2>1. \A j \in Instance : inst'[j] = Shut \/ inst'[j] = inst[j]
    BY <1>2 DEF CloseAll
  <2> QED
    BY <1>0, <1>2, <2>1, CountsEmpty, Zenon DEF CountsInv
<1>3. ASSUME UNCHANGED <<inst, saved>>
      PROVE  CountsInv'
  BY <1>3, Zenon DEF CountsInv
<1>4. ASSUME NEW w \in Writer, Observes(w) \/ PersistFails(w)
      PROVE  CountsInv'
  <2>1. PICK i \in Instance, doc \in Doc :
          Observed(i, inst[i].of, doc, Observe(inst[i].cat, doc))
    BY <1>4, ObservesIs
  <2>2. PICK cat : cat = Observe(inst[i].cat, doc)
    BY Zenon
  <2>3. Counts(cat)
    BY <2>2, CountsObserve, Zenon DEF CountsInv
  <2>4. inst' = [inst EXCEPT ![i].cat = cat]
        /\ (saved' = saved \/ saved' = [saved EXCEPT ![inst[i].of] = cat])
    BY <2>1, <2>2, Zenon DEF Observed
  <2>5. inst'[i].cat = cat /\ \A j \in Instance \ {i} : inst'[j] = inst[j]
    BY <2>4, Zenon DEF KeptTypes
  <2>6. \A m \in Manifest : saved'[m] = cat \/ saved'[m] = saved[m]
    BY <2>4, Zenon DEF KeptTypes
  <2> QED
    BY <2>3, <2>5, <2>6, Zenon DEF CountsInv
<1> QED
  BY <1>1, <1>2, <1>3, <1>4, InstanceCases, Zenon

\* Whatever the order of the writes and however often a catalogue failed to be saved, was loaded
\* again or given up, it says of the records that it observed what their data say: how many have
\* a path, lack it, and hold which type there; and when no record names a path twice, the samples
\* and the absences of every field add up to the records.
THEOREM CatalogueStaysTrue == Spec => []CatalogueDescribes
<1>1. Spec => []CountsInv
  <2>1. KeptInv => KeptTypes
    BY DEF KeptInv
  <2> QED
    BY <2>1, CountsInit, CountsStep, KeptStays, HoldersTyped, PTL DEF Spec
<1>2. CountsInv => CatalogueDescribes
  <2> SUFFICES ASSUME CountsInv,
                      NEW cat \in {inst[i].cat : i \in Instance} \cup {saved[m] : m \in Manifest}
               PROVE  /\ Describes(cat)
                      /\ (\A doc \in Doc : cat.log[doc] > 0 => NamesOnce(doc)) => AddsUp(cat)
    BY Zenon DEF CatalogueDescribes
  <2>1. Counts(cat)
    BY Zenon DEF CountsInv
  <2> QED
    BY <2>1, CountsDescribe, CountsAddUp, Zenon
<1> QED
  BY <1>1, <1>2, PTL
===============================================================================
