-------------------------------- MODULE Sums --------------------------------
(***************************************************************************)
(* Facts about sums over finite sets, SumFunctionOnSet of the community    *)
(* modules.  A sum is a recursive function on the subsets of a set, so     *)
(* these are proved by induction on finite sets.  The induction is a       *)
(* minimal counterexample: if some subset of a finite set is bad, one is   *)
(* bad of which no strict subset is, for those are well-founded            *)
(* (FS_StrictSubsetOrderingWellFounded and WFMin of the library).          *)
(***************************************************************************)
EXTENDS Integers, FiniteSets, Functions, FiniteSetTheorems, SequenceTheorems,
        WellFoundedInduction, TLAPS

Total(f, A) == SumFunctionOnSet(f, A)

(* The element that is added first.                                        *)
AddedFirst(s) == CHOOSE x \in s : TRUE

StillToAdd(s) == s \ {AddedFirst(s)}

(* g is the recursive function that adds up f over the subsets of A.       *)
AddsUp(g, f, A) ==
    g = [s \in SUBSET A |-> IF s = {} THEN 0 ELSE f[AddedFirst(s)] + g[StillToAdd(s)]]

Addable(f, A) == \E g : AddsUp(g, f, A)

(* Induction on the subsets of a finite set: what holds of a set when it   *)
(* holds of all its strict subsets holds of the whole.                     *)
LEMMA SetInduction ==
    ASSUME NEW A, IsFiniteSet(A), NEW G,
           \A s \in SUBSET A : (\A t \in SUBSET s : t # s => t \in G) => s \in G
    PROVE  A \in G
<1> DEFINE Bad == (SUBSET A) \ G
<1>1. IsWellFoundedOn(StrictSubsetOrdering(A), SUBSET A)
  BY FS_FiniteSubsetsOfFinite, FS_StrictSubsetOrderingWellFounded
<1>2. ASSUME Bad # {}
      PROVE  \E s \in Bad : \A t \in Bad : ~(<<t, s>> \in StrictSubsetOrdering(A))
  <2>1. Bad \subseteq SUBSET A
    OBVIOUS
  <2> HIDE DEF Bad
  <2> QED BY <1>1, <1>2, <2>1, WFMin
<1>3. ASSUME NEW s \in Bad, \A t \in Bad : ~(<<t, s>> \in StrictSubsetOrdering(A))
      PROVE  FALSE
  <2>1. ASSUME NEW t \in SUBSET s, t # s, t \notin G PROVE FALSE
    <3>1. t \in Bad /\ <<t, s>> \in (SUBSET A) \X (SUBSET A)
      BY <2>1
    <3>2. <<t, s>> \in StrictSubsetOrdering(A)
      BY <2>1, <3>1 DEF StrictSubsetOrdering
    <3> QED BY <1>3, <3>1, <3>2
  <2>2. s \in SUBSET A /\ s \notin G
    OBVIOUS
  <2> QED BY <2>1, <2>2
<1>4. A \in SUBSET A
  OBVIOUS
<1> QED BY <1>2, <1>3, <1>4

LEMMA StillToAddIsSmaller ==
    ASSUME NEW s, s # {}
    PROVE  AddedFirst(s) \in s /\ StillToAdd(s) \subseteq s /\ StillToAdd(s) # s
BY DEF AddedFirst, StillToAdd

(* Functions that add up f agree wherever both are defined.                *)
LEMMA AddsUpAgree ==
    ASSUME NEW f, NEW A, NEW B, NEW g, NEW h, AddsUp(g, f, A), AddsUp(h, f, B),
           NEW s, s \subseteq A, s \subseteq B, IsFiniteSet(s)
    PROVE  g[s] = h[s]
<1> DEFINE G == {t \in SUBSET s : g[t] = h[t]}
<1>1. ASSUME NEW t \in SUBSET s, \A u \in SUBSET t : u # t => u \in G
      PROVE  t \in G
  <2>1. /\ t \in SUBSET A /\ t \in SUBSET B
        /\ g[t] = IF t = {} THEN 0 ELSE f[AddedFirst(t)] + g[StillToAdd(t)]
        /\ h[t] = IF t = {} THEN 0 ELSE f[AddedFirst(t)] + h[StillToAdd(t)]
    BY DEF AddsUp
  <2>2. t # {} => g[StillToAdd(t)] = h[StillToAdd(t)]
    BY <1>1, StillToAddIsSmaller
  <2> QED BY <2>1, <2>2
<1>2. s \in G
  <2> HIDE DEF G
  <2> QED BY <1>1, SetInduction
<1> QED BY <1>2

LEMMA SumChosen ==
    ASSUME NEW f, NEW A
    PROVE  Total(f, A) = (CHOOSE g : AddsUp(g, f, A))[A]
BY DEF Total, SumFunctionOnSet, FoldFunctionOnSet, MapThenFoldSet, AddsUp, AddedFirst, StillToAdd

LEMMA SumAdds ==
    ASSUME NEW f, NEW A, Addable(f, A)
    PROVE  \E g : AddsUp(g, f, A) /\ Total(f, A) = g[A]
<1>1. AddsUp(CHOOSE g : AddsUp(g, f, A), f, A)
  BY DEF Addable
<1> QED BY <1>1, SumChosen

LEMMA SumRest ==
    ASSUME NEW f, NEW A, IsFiniteSet(A), Addable(f, A), A # {}, Addable(f, StillToAdd(A))
    PROVE  Total(f, A) = f[AddedFirst(A)] + Total(f, StillToAdd(A))
<1>1. PICK g : AddsUp(g, f, A) /\ Total(f, A) = g[A]
  BY SumAdds
<1>2. PICK h : AddsUp(h, f, StillToAdd(A)) /\ Total(f, StillToAdd(A)) = h[StillToAdd(A)]
  BY SumAdds
<1>3. g[StillToAdd(A)] = h[StillToAdd(A)]
  BY <1>1, <1>2, AddsUpAgree, StillToAddIsSmaller, FS_Subset
<1>4. g[A] = f[AddedFirst(A)] + g[StillToAdd(A)]
  BY <1>1 DEF AddsUp
<1> QED BY <1>1, <1>2, <1>3, <1>4

LEMMA EmptyAddable ==
    ASSUME NEW f
    PROVE  Addable(f, {}) /\ Total(f, {}) = 0
<1>1. AddsUp([s \in SUBSET {} |-> 0], f, {})
  BY DEF AddsUp
<1>2. Addable(f, {})
  BY <1>1 DEF Addable
<1> QED BY <1>2, SumAdds DEF AddsUp

(* The recursive definition of a sum has a solution.                       *)
LEMMA AllAddable ==
    ASSUME NEW f, NEW A, IsFiniteSet(A)
    PROVE  Addable(f, A)
<1> DEFINE G == {t \in SUBSET A : Addable(f, t)}
<1>1. ASSUME NEW s \in SUBSET A, \A t \in SUBSET s : t # s => t \in G
      PROVE  s \in G
  <2> DEFINE g == [t \in SUBSET s |->
                     IF t = {} THEN 0 ELSE f[AddedFirst(t)] + Total(f, StillToAdd(t))]
  <2>1. IsFiniteSet(s) /\ \A u \in SUBSET s : IsFiniteSet(u)
    BY FS_Subset
  <2>2. \A u \in SUBSET s : u # s => Addable(f, u)
    BY <1>1
  <2>3. ASSUME NEW u \in SUBSET s, u # s PROVE g[u] = Total(f, u)
    BY <2>1, <2>2, <2>3, EmptyAddable, StillToAddIsSmaller, SumRest
  <2>4. ASSUME NEW t \in SUBSET s, t # {} PROVE g[StillToAdd(t)] = Total(f, StillToAdd(t))
    <3>1. StillToAdd(t) \in SUBSET s /\ StillToAdd(t) # s
      BY <2>4, StillToAddIsSmaller
    <3> HIDE DEF g
    <3> QED BY <2>3, <3>1
  <2>5. g = [t \in SUBSET s |-> IF t = {} THEN 0 ELSE f[AddedFirst(t)] + g[StillToAdd(t)]]
    BY <2>4
  <2> HIDE DEF g
  <2> QED BY <2>5 DEF AddsUp, Addable
<1>2. A \in G
  <2> HIDE DEF G
  <2> QED BY <1>1, SetInduction
<1> QED BY <1>2

(* A sum in the order in which it is computed.                             *)
LEMMA SumFirst ==
    ASSUME NEW f, NEW A, IsFiniteSet(A), A # {}
    PROVE  Total(f, A) = f[AddedFirst(A)] + Total(f, StillToAdd(A))
BY AllAddable, SumRest, StillToAddIsSmaller, FS_Subset

LEMMA SumEmpty ==
    ASSUME NEW f
    PROVE  SumFunctionOnSet(f, {}) = 0
BY EmptyAddable DEF Total

LEMMA SumNat ==
    ASSUME NEW f, NEW A, IsFiniteSet(A), \A x \in A : f[x] \in Nat
    PROVE  SumFunctionOnSet(f, A) \in Nat
<1> DEFINE G == {t \in SUBSET A : Total(f, t) \in Nat}
<1>1. ASSUME NEW s \in SUBSET A, \A t \in SUBSET s : t # s => t \in G
      PROVE  s \in G
  <2>1. CASE s = {}
    BY <2>1, EmptyAddable
  <2>2. CASE s # {}
    <3>1. Total(f, StillToAdd(s)) \in Nat /\ f[AddedFirst(s)] \in Nat
      BY <1>1, <2>2, StillToAddIsSmaller
    <3> QED BY <2>2, <3>1, SumFirst, FS_Subset
  <2> QED BY <2>1, <2>2
<1>2. A \in G
  <2> HIDE DEF G
  <2> QED BY <1>1, SetInduction
<1> QED BY <1>2 DEF Total

(* Any element may be added last.                                          *)
LEMMA SumAny ==
    ASSUME NEW f, NEW A, IsFiniteSet(A), \A x \in A : f[x] \in Nat, NEW y \in A
    PROVE  SumFunctionOnSet(f, A) = f[y] + SumFunctionOnSet(f, A \ {y})
<1> DEFINE G == {t \in SUBSET A : \A z \in t : Total(f, t) = f[z] + Total(f, t \ {z})}
<1>1. ASSUME NEW s \in SUBSET A, \A t \in SUBSET s : t # s => t \in G
      PROVE  s \in G
  <2> SUFFICES ASSUME NEW z \in s PROVE Total(f, s) = f[z] + Total(f, s \ {z})
    OBVIOUS
  <2> DEFINE x == AddedFirst(s)
  <2>1. IsFiniteSet(s) /\ x \in s /\ Total(f, s) = f[x] + Total(f, s \ {x})
    BY FS_Subset, SumFirst, StillToAddIsSmaller DEF StillToAdd
  <2> HIDE DEF x
  <2>2. CASE x # z
    <3>1. Total(f, s \ {x}) = f[z] + Total(f, (s \ {x}) \ {z})
      BY <1>1, <2>1, <2>2
    <3>2. Total(f, s \ {z}) = f[x] + Total(f, (s \ {z}) \ {x})
      BY <1>1, <2>1, <2>2
    <3>3. (s \ {z}) \ {x} = (s \ {x}) \ {z}
      OBVIOUS
    <3>4. f[x] \in Nat /\ f[z] \in Nat /\ Total(f, (s \ {x}) \ {z}) \in Nat
      BY <2>1, SumNat, FS_Subset DEF Total
    <3> DEFINE rest == Total(f, (s \ {x}) \ {z})
    <3>5. Total(f, s) = f[x] + (f[z] + rest) /\ Total(f, s \ {z}) = f[x] + rest
      BY <2>1, <3>1, <3>2, <3>3
    <3>6. rest \in Nat
      BY <3>4
    <3> HIDE DEF rest
    <3>7. f[x] + (f[z] + rest) = f[z] + (f[x] + rest)
      BY <3>4, <3>6
    <3> QED BY <3>5, <3>7
  <2> QED BY <2>1, <2>2
<1>2. A \in G
  <2> HIDE DEF G
  <2> QED BY <1>1, SetInduction
<1> QED BY <1>2 DEF Total

LEMMA SumAdd ==
    ASSUME NEW f, NEW A, IsFiniteSet(A), NEW y, y \notin A,
           \A x \in A \cup {y} : f[x] \in Nat
    PROVE  SumFunctionOnSet(f, A \cup {y}) = SumFunctionOnSet(f, A) + f[y]
<1>1. IsFiniteSet(A \cup {y}) /\ (A \cup {y}) \ {y} = A
  BY FS_AddElement
<1>2. SumFunctionOnSet(f, A \cup {y}) = f[y] + SumFunctionOnSet(f, A)
  BY <1>1, SumAny
<1>3. SumFunctionOnSet(f, A) \in Nat /\ f[y] \in Nat
  BY SumNat
<1> QED BY <1>2, <1>3

(* A sum depends only on what is added.                                    *)
LEMMA SumSame ==
    ASSUME NEW f, NEW h, NEW A, IsFiniteSet(A), \A x \in A : f[x] = h[x]
    PROVE  SumFunctionOnSet(f, A) = SumFunctionOnSet(h, A)
<1> DEFINE G == {t \in SUBSET A : Total(f, t) = Total(h, t)}
<1>1. ASSUME NEW s \in SUBSET A, \A t \in SUBSET s : t # s => t \in G
      PROVE  s \in G
  <2>1. CASE s = {}
    BY <2>1, EmptyAddable
  <2>2. CASE s # {}
    <3>1. Total(f, StillToAdd(s)) = Total(h, StillToAdd(s)) /\ f[AddedFirst(s)] = h[AddedFirst(s)]
      BY <1>1, <2>2, StillToAddIsSmaller
    <3> QED BY <2>2, <3>1, SumFirst, FS_Subset
  <2> QED BY <2>1, <2>2
<1>2. A \in G
  <2> HIDE DEF G
  <2> QED BY <1>1, SetInduction
<1> QED BY <1>2 DEF Total

(* A sum over two sets that share nothing.                                 *)
LEMMA SumUnion ==
    ASSUME NEW f, NEW A, NEW B, IsFiniteSet(A), IsFiniteSet(B), A \cap B = {},
           \A x \in A \cup B : f[x] \in Nat
    PROVE  SumFunctionOnSet(f, A \cup B) = SumFunctionOnSet(f, A) + SumFunctionOnSet(f, B)
<1> DEFINE G == {t \in SUBSET B : Total(f, A \cup t) = Total(f, A) + Total(f, t)}
<1>1. ASSUME NEW s \in SUBSET B, \A t \in SUBSET s : t # s => t \in G
      PROVE  s \in G
  <2>1. Total(f, A) \in Nat /\ Total(f, {}) = 0
    BY SumNat, EmptyAddable DEF Total
  <2>2. CASE s = {}
    <3>1. A \cup s = A
      BY <2>2
    <3> QED BY <2>1, <2>2, <3>1
  <2>3. CASE s # {}
    <3> DEFINE y == AddedFirst(s)
               r == StillToAdd(s)
    <3>1. /\ y \in s /\ y \notin r /\ y \notin A \cup r
          /\ s = r \cup {y} /\ A \cup s = (A \cup r) \cup {y}
          /\ r \subseteq s /\ r # s
      BY <2>3, StillToAddIsSmaller DEF StillToAdd
    <3> HIDE DEF y, r
    <3>2. IsFiniteSet(r) /\ IsFiniteSet(A \cup r)
      BY <3>1, FS_Subset, FS_Union
    <3>3. Total(f, A \cup r) = Total(f, A) + Total(f, r)
      BY <1>1, <3>1
    <3>4. Total(f, s) = Total(f, r) + f[y] /\ Total(f, A \cup s) = Total(f, A \cup r) + f[y]
      BY <3>1, <3>2, SumAdd DEF Total
    <3>5. Total(f, r) \in Nat /\ f[y] \in Nat
      BY <3>1, <3>2, SumNat DEF Total
    <3> QED BY <2>1, <3>3, <3>4, <3>5
  <2> QED BY <2>2, <2>3
<1>2. B \in G
  <2> HIDE DEF G
  <2> QED BY <1>1, SetInduction
<1> QED BY <1>2 DEF Total

(* A part of a set has no larger sum.                                      *)
LEMMA SumPart ==
    ASSUME NEW f, NEW A, NEW B, IsFiniteSet(A), B \subseteq A,
           \A x \in A : f[x] \in Nat
    PROVE  SumFunctionOnSet(f, B) <= SumFunctionOnSet(f, A)
<1>1. IsFiniteSet(B) /\ IsFiniteSet(A \ B) /\ B \cap (A \ B) = {} /\ B \cup (A \ B) = A
  BY FS_Subset
<1>2. SumFunctionOnSet(f, A) = SumFunctionOnSet(f, B) + SumFunctionOnSet(f, A \ B)
  BY <1>1, SumUnion
<1>3. SumFunctionOnSet(f, B) \in Nat /\ SumFunctionOnSet(f, A \ B) \in Nat
  BY <1>1, SumNat
<1> QED BY <1>2, <1>3

LEMMA SumZero ==
    ASSUME NEW f, NEW A, IsFiniteSet(A), \A x \in A : f[x] = 0
    PROVE  SumFunctionOnSet(f, A) = 0
<1> DEFINE G == {t \in SUBSET A : Total(f, t) = 0}
<1>1. ASSUME NEW s \in SUBSET A, \A t \in SUBSET s : t # s => t \in G
      PROVE  s \in G
  <2>1. CASE s = {}
    BY <2>1, EmptyAddable
  <2>2. CASE s # {}
    <3>1. Total(f, StillToAdd(s)) = 0 /\ f[AddedFirst(s)] = 0
      BY <1>1, <2>2, StillToAddIsSmaller
    <3> QED BY <2>2, <3>1, SumFirst, FS_Subset
  <2> QED BY <2>1, <2>2
<1>2. A \in G
  <2> HIDE DEF G
  <2> QED BY <1>1, SetInduction
<1> QED BY <1>2 DEF Total

(* Adding to one of the numbers adds to the sums that contain it.          *)
LEMMA SumRaise ==
    ASSUME NEW f, NEW h, NEW A, IsFiniteSet(A), NEW y, NEW k \in Nat,
           \A x \in A : f[x] \in Nat,
           \A x \in A : h[x] = IF x = y THEN f[x] + k ELSE f[x]
    PROVE  SumFunctionOnSet(h, A) =
              IF y \in A THEN SumFunctionOnSet(f, A) + k ELSE SumFunctionOnSet(f, A)
<1>1. CASE y \notin A
  BY <1>1, SumSame
<1>2. CASE y \in A
  <2>1. IsFiniteSet(A \ {y}) /\ \A x \in A : h[x] \in Nat
    BY FS_Subset
  <2>2. SumFunctionOnSet(h, A \ {y}) = SumFunctionOnSet(f, A \ {y})
    BY <2>1, SumSame
  <2>3. /\ SumFunctionOnSet(h, A) = h[y] + SumFunctionOnSet(h, A \ {y})
        /\ SumFunctionOnSet(f, A) = f[y] + SumFunctionOnSet(f, A \ {y})
    BY <1>2, <2>1, SumAny
  <2>4. SumFunctionOnSet(f, A \ {y}) \in Nat /\ f[y] \in Nat /\ h[y] = f[y] + k
    BY <1>2, <2>1, SumNat
  <2> QED BY <1>2, <2>2, <2>3, <2>4
<1> QED BY <1>1, <1>2

LEMMA SumOneMore ==
    ASSUME NEW f, NEW h, NEW A, IsFiniteSet(A), NEW y, \A x \in A : f[x] \in Nat,
           \A x \in A : h[x] = IF x = y THEN f[x] + 1 ELSE f[x]
    PROVE  SumFunctionOnSet(h, A) =
              IF y \in A THEN SumFunctionOnSet(f, A) + 1 ELSE SumFunctionOnSet(f, A)
<1> DEFINE k == 1
<1>1. k \in Nat /\ \A x \in A : h[x] = IF x = y THEN f[x] + k ELSE f[x]
  OBVIOUS
<1> HIDE DEF k
<1>2. SumFunctionOnSet(h, A) =
         IF y \in A THEN SumFunctionOnSet(f, A) + k ELSE SumFunctionOnSet(f, A)
  BY <1>1, SumRaise
<1> QED BY <1>2 DEF k

(* The numbers may be taken from other places, each from one of its own.   *)
LEMMA SumMoved ==
    ASSUME NEW f, NEW h, NEW A, IsFiniteSet(A), NEW p,
           \A x \in A : h[x] = f[p[x]] /\ h[x] \in Nat,
           \A x, y \in A : p[x] = p[y] => x = y
    PROVE  SumFunctionOnSet(h, A) = SumFunctionOnSet(f, {p[x] : x \in A})
<1> DEFINE Image(t) == {p[x] : x \in t}
           G == {t \in SUBSET A : IsFiniteSet(Image(t)) /\ Total(h, t) = Total(f, Image(t))}
<1>1. ASSUME NEW s \in SUBSET A, \A t \in SUBSET s : t # s => t \in G
      PROVE  s \in G
  <2>1. CASE s = {}
    <3>1. Image(s) = {}
      BY <2>1
    <3> QED BY <2>1, <3>1, EmptyAddable, FS_EmptySet
  <2>2. CASE s # {}
    <3> DEFINE y == AddedFirst(s)
               r == StillToAdd(s)
    <3>1. y \in s /\ y \notin r /\ s = r \cup {y} /\ r \subseteq s /\ r # s
      BY <2>2, StillToAddIsSmaller DEF StillToAdd
    <3> HIDE DEF y, r
    <3>2. IsFiniteSet(r) /\ IsFiniteSet(Image(r)) /\ Total(h, r) = Total(f, Image(r))
      BY <1>1, <3>1, FS_Subset
    <3>3. p[y] \notin Image(r) /\ Image(s) = Image(r) \cup {p[y]}
      BY <3>1
    <3>4. \A z \in Image(s) : f[z] \in Nat
      BY <3>1
    <3>5. Total(h, s) = Total(h, r) + h[y] /\ h[y] = f[p[y]]
      BY <3>1, <3>2, SumAdd DEF Total
    <3>6. IsFiniteSet(Image(s)) /\ Total(f, Image(s)) = Total(f, Image(r)) + f[p[y]]
      <4> HIDE DEF Image
      <4> QED BY <3>2, <3>3, <3>4, FS_AddElement, SumAdd DEF Total
    <3> QED BY <3>2, <3>5, <3>6
  <2> QED BY <2>1, <2>2
<1>2. A \in G
  <2> HIDE DEF G
  <2> QED BY <1>1, SetInduction
<1> QED BY <1>2 DEF Total

(* No number is larger than a sum that contains it.                        *)
LEMMA SumOne ==
    ASSUME NEW f, NEW A, IsFiniteSet(A), NEW y \in A, \A x \in A : f[x] \in Nat
    PROVE  f[y] <= SumFunctionOnSet(f, A)
<1>1. SumFunctionOnSet(f, A) = f[y] + SumFunctionOnSet(f, A \ {y})
  BY SumAny
<1>2. SumFunctionOnSet(f, A \ {y}) \in Nat
  BY SumNat, FS_Subset
<1> QED BY <1>1, <1>2

-----------------------------------------------------------------------------
(* A sequence of numbers, one appended, and what is left without the first *)
(* ones.                                                                   *)
LEMMA SumOfSeq ==
    ASSUME NEW s \in Seq(Nat)
    PROVE  /\ IsFiniteSet(DOMAIN s) /\ \A x \in DOMAIN s : s[x] \in Nat
           /\ SumFunctionOnSet(s, DOMAIN s) \in Nat
<1>1. DOMAIN s = 1..Len(s) /\ Len(s) \in Nat /\ \A x \in DOMAIN s : s[x] \in Nat
  BY LenProperties
<1>2. IsFiniteSet(DOMAIN s)
  BY <1>1, FS_Interval
<1> QED BY <1>1, <1>2, SumNat

LEMMA SumAppended ==
    ASSUME NEW s \in Seq(Nat), NEW e \in Nat
    PROVE  SumFunctionOnSet(Append(s, e), DOMAIN Append(s, e))
             = SumFunctionOnSet(s, DOMAIN s) + e
<1> DEFINE n == Len(s)
           t == Append(s, e)
<1>1. /\ n \in Nat /\ DOMAIN s = 1..n /\ t \in Seq(Nat)
      /\ Len(t) = n + 1 /\ t[n + 1] = e /\ \A x \in 1..n : t[x] = s[x]
  BY LenProperties, AppendProperties
<1>2. DOMAIN t = 1..(n + 1)
  BY <1>1, LenProperties
<1> HIDE DEF t, n
<1>3. DOMAIN t = DOMAIN s \cup {n + 1} /\ n + 1 \notin DOMAIN s
  BY <1>1, <1>2
<1>4. IsFiniteSet(DOMAIN s) /\ \A x \in DOMAIN s \cup {n + 1} : t[x] \in Nat
  BY <1>1, <1>3, SumOfSeq
<1>5. SumFunctionOnSet(t, DOMAIN t) = SumFunctionOnSet(t, DOMAIN s) + e
  BY <1>1, <1>3, <1>4, SumAdd
<1>6. SumFunctionOnSet(t, DOMAIN s) = SumFunctionOnSet(s, DOMAIN s)
  BY <1>1, <1>4, SumSame
<1> QED BY <1>5, <1>6 DEF t

LEMMA SumOfSuffix ==
    ASSUME NEW s \in Seq(Nat), NEW k \in 0..Len(s)
    PROVE  SumFunctionOnSet(SubSeq(s, k + 1, Len(s)), DOMAIN SubSeq(s, k + 1, Len(s)))
             <= SumFunctionOnSet(s, DOMAIN s)
<1> DEFINE n == Len(s)
           t == SubSeq(s, k + 1, n)
           p == [x \in 1..(n - k) |-> x + k]
<1>1. n \in Nat /\ k \in 0..n /\ DOMAIN s = 1..n /\ \A x \in 1..n : s[x] \in Nat
  BY LenProperties
<1> HIDE DEF n
<1>2. /\ t \in Seq(Nat) /\ Len(t) = n - k
      /\ \A x \in 1..(n - k) : t[x] = s[k + x]
  <2>1. /\ t \in Seq(Nat) /\ Len(t) = IF k + 1 <= n THEN n - (k + 1) + 1 ELSE 0
        /\ \A x \in 1..(n - (k + 1) + 1) : t[x] = s[(k + 1) + x - 1]
    BY <1>1, SubSeqProperties
  <2>2. n - (k + 1) + 1 = n - k /\ \A x \in Int : (k + 1) + x - 1 = k + x
    BY <1>1
  <2> HIDE DEF t
  <2> QED BY <1>1, <2>1, <2>2
<1> HIDE DEF t
<1>3. DOMAIN t = 1..(n - k) /\ IsFiniteSet(DOMAIN t) /\ \A x \in DOMAIN t : t[x] \in Nat
  BY <1>2, LenProperties, SumOfSeq
<1>4. \A x \in DOMAIN t : p[x] = x + k /\ p[x] \in DOMAIN s /\ t[x] = s[p[x]]
  <2>1. ASSUME NEW x \in 1..(n - k) PROVE x + k = k + x /\ x + k \in 1..n
    BY <1>1
  <2> QED BY <1>1, <1>2, <1>3, <2>1
<1>5. \A x, y \in DOMAIN t : p[x] = p[y] => x = y
  BY <1>1, <1>3
<1> HIDE DEF p
<1>6. SumFunctionOnSet(t, DOMAIN t) = SumFunctionOnSet(s, {p[x] : x \in DOMAIN t})
  <2> DEFINE d == DOMAIN t
  <2>1. IsFiniteSet(d) /\ \A x \in d : t[x] = s[p[x]] /\ t[x] \in Nat
    BY <1>3, <1>4
  <2>2. \A x, y \in d : p[x] = p[y] => x = y
    BY <1>5
  <2> HIDE DEF d
  <2>3. SumFunctionOnSet(t, d) = SumFunctionOnSet(s, {p[x] : x \in d})
    BY <2>1, <2>2, SumMoved
  <2> QED BY <2>3 DEF d
<1>7. {p[x] : x \in DOMAIN t} \subseteq DOMAIN s
  BY <1>4
<1>8. SumFunctionOnSet(s, {p[x] : x \in DOMAIN t}) <= SumFunctionOnSet(s, DOMAIN s)
  <2> DEFINE image == {p[x] : x \in DOMAIN t}
  <2>1. image \subseteq DOMAIN s
    BY <1>7
  <2> HIDE DEF image
  <2>2. SumFunctionOnSet(s, image) <= SumFunctionOnSet(s, DOMAIN s)
    BY <2>1, SumOfSeq, SumPart
  <2> QED BY <2>2 DEF image
<1>9. SumFunctionOnSet(t, DOMAIN t) <= SumFunctionOnSet(s, DOMAIN s)
  BY <1>6, <1>8
<1> QED BY <1>9 DEF t, n
=============================================================================
