---------------------------- MODULE HistoryItems ----------------------------
(* Theorems about HistoryCache, for all values of its constants: who holds   *)
(* the items, which triggers are evaluated, and what becomes of metadata.    *)
EXTENDS HistoryCacheProofs, SequenceTheorems, WellFoundedInduction

----------------------------------------------------------------------------
(* Adding a sequence of records, one after the other. *)

\* Induction: a set of naturals that has 0 and the successor of each of its
\* members up to n has n.
LEMMA UpTo ==
    ASSUME NEW n \in Nat, NEW S, 0 \in S, \A k \in Nat : k < n /\ k \in S => k + 1 \in S
    PROVE  n \in S
<1> DEFINE T == {k \in Nat : k <= n /\ k \notin S}
<1>1. SUFFICES ASSUME T # {} PROVE FALSE
  OBVIOUS
<1>2. T \subseteq Nat  OBVIOUS
<1> HIDE DEF T
<1>3. PICK x \in T : \A y \in T : ~(<<y, x>> \in OpToRel(<, Nat))
  BY <1>1, <1>2, NatLessThanWellFounded, WFMin
<1>4. \A y \in T : ~(y < x)
  BY <1>2, <1>3 DEF OpToRel
<1>5. x \in Nat /\ x <= n /\ x \notin S  BY DEF T
<1>6. x # 0 /\ x - 1 \in Nat /\ x - 1 < n  BY <1>5
<1>7. x - 1 \in S  BY <1>4, <1>5, <1>6 DEF T
<1>8. (x - 1) + 1 \in S  BY <1>6, <1>7
<1> QED  BY <1>5, <1>8

Start == [items |-> history_items, queue |-> history_queue, rest |-> <<>>,
          received |-> log.received, merged |-> log.merged]

\* The recursive definition of AddItemValues has a solution.
LEMMA Solvable ==
    ASSUME NEW records, NEW n \in Nat
    PROVE  \E f : f = [k \in 0 .. n |-> IF k = 0 THEN Start
                                        ELSE AddItemValue(f[k - 1], records[k])]
<1> DEFINE Solves(f, m) == f = [k \in 0 .. m |-> IF k = 0 THEN Start
                                                ELSE AddItemValue(f[k - 1], records[k])]
           S == {m \in Nat : \E f : Solves(f, m)}
<1>1. 0 \in S
  <2> DEFINE f == [k \in 0 .. 0 |-> Start]
  <2>1. Solves(f, 0)  OBVIOUS
  <2> QED  BY <2>1
<1>2. ASSUME NEW m \in Nat, m \in S PROVE m + 1 \in S
  <2>1. PICK f : Solves(f, m)  BY <1>2
  <2> DEFINE g == [k \in 0 .. m + 1 |-> IF k = m + 1 THEN AddItemValue(f[m], records[m + 1])
                                       ELSE f[k]]
             h == [k \in 0 .. m + 1 |-> IF k = 0 THEN Start
                                       ELSE AddItemValue(g[k - 1], records[k])]
  <2>2. ASSUME NEW k \in 0 .. m + 1 PROVE g[k] = h[k]
    <3>1. CASE k = 0
      <4>1. f[0] = Start  BY <2>1
      <4>2. 0 # m + 1 /\ 0 \in 0 .. m + 1  OBVIOUS
      <4> QED  BY <3>1, <4>1, <4>2
    <3>2. CASE k = m + 1
      <4>1. k # 0 /\ k - 1 = m /\ m \in 0 .. m + 1 /\ m # m + 1  BY <3>2
      <4>2. g[k - 1] = f[m]  BY <4>1
      <4> QED  BY <3>2, <4>1, <4>2
    <3>3. CASE k # 0 /\ k # m + 1
      <4>1. k \in 0 .. m /\ k - 1 \in 0 .. m /\ k - 1 \in 0 .. m + 1 /\ k - 1 # m + 1
        BY <3>3
      <4>2. f[k] = AddItemValue(f[k - 1], records[k])  BY <2>1, <3>3, <4>1
      <4>3. g[k - 1] = f[k - 1] /\ g[k] = f[k]  BY <3>3, <4>1
      <4> QED  BY <3>3, <4>2, <4>3
    <3> QED  BY <3>1, <3>2, <3>3
  <2>3. g = h  BY <2>2
  <2> HIDE DEF g
  <2>4. Solves(g, m + 1)  BY <2>3
  <2> HIDE DEF Solves
  <2> QED  BY <2>4
<1> HIDE DEF S
<1>3. n \in S  BY <1>1, <1>2, UpTo
<1> QED  BY <1>3 DEF S

\* What holds after every record holds in the end: D[k] are the caches that
\* are possible after k records.
LEMMA Folded ==
    ASSUME NEW A, NEW records \in Seq(A), NEW D, Start \in D[0],
           \A k \in 1 .. Len(records) : \A c \in D[k - 1] :
              AddItemValue(c, records[k]) \in D[k]
    PROVE  AddItemValues(records) \in D[Len(records)]
<1> DEFINE n == Len(records)
           Solves(f) == f = [k \in 0 .. n |-> IF k = 0 THEN Start
                                             ELSE AddItemValue(f[k - 1], records[k])]
           f == CHOOSE g : Solves(g)
<1>1. n \in Nat  OBVIOUS
<1>2. AddItemValues(records) = f[n]  BY DEF AddItemValues, Start
<1>3. Solves(f)
  <2>1. \E g : Solves(g)  BY <1>1, Solvable
  <2> HIDE DEF Solves
  <2> QED  BY <2>1
<1> HIDE DEF f
<1> DEFINE S == {k \in Nat : f[k] \in D[k]}
<1>4. 0 \in S
  <2>1. f[0] = Start  BY <1>1, <1>3
  <2> QED  BY <2>1
<1>5. ASSUME NEW k \in Nat, k < n, k \in S PROVE k + 1 \in S
  <2>1. k + 1 \in 0 .. n /\ k + 1 \in 1 .. n /\ k + 1 # 0 /\ (k + 1) - 1 = k
    BY <1>1, <1>5
  <2>2. f[k + 1] = AddItemValue(f[k], records[k + 1])  BY <1>3, <2>1
  <2>3. f[k] \in D[(k + 1) - 1]  BY <1>5, <2>1
  <2>4. AddItemValue(f[k], records[k + 1]) \in D[k + 1]  BY <2>1, <2>3
  <2> QED  BY <2>2, <2>4
<1> HIDE DEF S
<1>6. n \in S  BY <1>1, <1>4, <1>5, UpTo
<1> QED  BY <1>2, <1>6 DEF S

----------------------------------------------------------------------------
(* Counting: pairs <<x, k>> with lo[x] < k <= hi[x]. *)

Cells(S, lo, hi) == UNION {{x} \X (lo[x] + 1 .. hi[x]) : x \in S}

LEMMA CellsFinite ==
    ASSUME NEW S, IsFiniteSet(S), NEW lo \in [S -> Nat], NEW hi \in [S -> Nat]
    PROVE  IsFiniteSet(Cells(S, lo, hi)) /\ Cardinality(Cells(S, lo, hi)) \in Nat
<1> DEFINE row == [x \in S |-> {x} \X (lo[x] + 1 .. hi[x])]
           R == {row[x] : x \in S}
<1>1. row \in Surjection(S, R)  BY DEF Surjection
<1>2. IsFiniteSet(R)  BY <1>1, FS_Surjection
<1>3. ASSUME NEW x \in S PROVE IsFiniteSet(row[x])
  <2>1. lo[x] + 1 \in Int /\ hi[x] \in Int  OBVIOUS
  <2>2. IsFiniteSet(lo[x] + 1 .. hi[x])  BY <2>1, FS_Interval
  <2>3. IsFiniteSet({x})  BY FS_Singleton
  <2>4. IsFiniteSet({x} \X (lo[x] + 1 .. hi[x]))  BY <2>2, <2>3, FS_Product
  <2> QED  BY <2>4
<1>4. Cells(S, lo, hi) = UNION R  BY DEF Cells
<1> HIDE DEF row
<1>5. \A T \in R : IsFiniteSet(T)  BY <1>3
<1> HIDE DEF R
<1>6. IsFiniteSet(UNION R)  BY <1>2, <1>5, FS_UNION
<1> QED  BY <1>4, <1>6, FS_CardinalityType

\* Cells of all but one, and of that one.
LEMMA CellsSplit ==
    ASSUME NEW S, IsFiniteSet(S), NEW lo \in [S -> Nat], NEW hi \in [S -> Nat], NEW y \in S,
           lo[y] <= hi[y]
    PROVE  Cardinality(Cells(S, lo, hi))
             = Cardinality(Cells(S \ {y}, lo, hi)) + (hi[y] - lo[y])
<1> DEFINE rest == Cells(S \ {y}, lo, hi)
           one == {y} \X (lo[y] + 1 .. hi[y])
<1>1. Cells(S, lo, hi) = rest \cup one  BY DEF Cells
<1>2. rest \cap one = {}  BY DEF Cells
<1>3. IsFiniteSet(rest)
  <2>1. IsFiniteSet(Cells(S, lo, hi))  BY CellsFinite
  <2>2. rest \in SUBSET Cells(S, lo, hi)  BY <1>1
  <2> QED  BY <2>1, <2>2, FS_Subset
<1>4. IsFiniteSet(one) /\ Cardinality(one) = hi[y] - lo[y]
  <2>1. lo[y] + 1 \in Int /\ hi[y] \in Int /\ lo[y] \in Nat /\ hi[y] \in Nat  OBVIOUS
  <2>2. IsFiniteSet(lo[y] + 1 .. hi[y])
        /\ Cardinality(lo[y] + 1 .. hi[y])
             = IF lo[y] + 1 > hi[y] THEN 0 ELSE hi[y] - (lo[y] + 1) + 1
    BY <2>1, FS_Interval
  <2>3. IsFiniteSet({y}) /\ Cardinality({y}) = 1  BY FS_Singleton
  <2>4. IsFiniteSet(one) /\ Cardinality(one) = Cardinality({y}) * Cardinality(lo[y] + 1 .. hi[y])
    BY <2>2, <2>3, FS_Product
  <2>5. Cardinality(lo[y] + 1 .. hi[y]) = hi[y] - lo[y]  BY <2>1, <2>2
  <2> HIDE DEF one
  <2>6. Cardinality(one) = 1 * (hi[y] - lo[y])  BY <2>3, <2>4, <2>5
  <2> QED  BY <2>1, <2>4, <2>6
<1> HIDE DEF rest, one
<1>5. Cardinality(rest \cup one)
        = Cardinality(rest) + Cardinality(one) - Cardinality(rest \cap one)
  BY <1>3, <1>4, FS_Union
<1>6. Cardinality(rest \cap one) = 0  BY <1>2, FS_EmptySet
<1>7. Cardinality(rest) \in Nat /\ Cardinality(one) \in Nat  BY <1>3, <1>4, FS_CardinalityType
<1> QED  BY <1>1, <1>4, <1>5, <1>6, <1>7 DEF rest

\* a change of one row
RowStep(S, y, lo, hi, lo2, hi2) ==
    /\ y \in S /\ lo \in [S -> Nat] /\ hi \in [S -> Nat] /\ lo2 \in [S -> Nat] /\ hi2 \in [S -> Nat]
    /\ lo[y] <= hi[y] /\ lo2[y] <= hi2[y]
    /\ \A x \in S \ {y} : lo2[x] = lo[x] /\ hi2[x] = hi[x]

LEMMA CellsStep ==
    ASSUME NEW S, IsFiniteSet(S), NEW lo, NEW hi, NEW lo2, NEW hi2, NEW y,
           RowStep(S, y, lo, hi, lo2, hi2)
    PROVE  Cardinality(Cells(S, lo2, hi2))
             = Cardinality(Cells(S, lo, hi)) + (hi2[y] - lo2[y]) - (hi[y] - lo[y])
<1> USE DEF RowStep
<1>1. Cells(S \ {y}, lo2, hi2) = Cells(S \ {y}, lo, hi)  BY DEF Cells
<1>2. Cardinality(Cells(S, lo, hi))
        = Cardinality(Cells(S \ {y}, lo, hi)) + (hi[y] - lo[y])
  BY CellsSplit
<1>3. Cardinality(Cells(S, lo2, hi2))
        = Cardinality(Cells(S \ {y}, lo2, hi2)) + (hi2[y] - lo2[y])
  BY CellsSplit
<1>4. Cardinality(Cells(S \ {y}, lo, hi)) \in Nat
  <2>1. IsFiniteSet(Cells(S, lo, hi))  BY CellsFinite
  <2>2. Cells(S \ {y}, lo, hi) \in SUBSET Cells(S, lo, hi)  BY DEF Cells
  <2> QED  BY <2>1, <2>2, FS_Subset, FS_CardinalityType
<1>5. lo[y] \in Nat /\ hi[y] \in Nat /\ lo2[y] \in Nat /\ hi2[y] \in Nat  OBVIOUS
<1> QED  BY <1>1, <1>2, <1>3, <1>4, <1>5

\* Rows that get no longer.
LEMMA CellsShrink ==
    ASSUME NEW S, IsFiniteSet(S), NEW lo \in [S -> Nat], NEW hi \in [S -> Nat],
           NEW hi2 \in [S -> Nat], \A x \in S : hi2[x] <= hi[x]
    PROVE  Cardinality(Cells(S, lo, hi2)) <= Cardinality(Cells(S, lo, hi))
<1>1. Cells(S, lo, hi2) \in SUBSET Cells(S, lo, hi)
  <2> SUFFICES ASSUME NEW x \in S, NEW k \in lo[x] + 1 .. hi2[x]
               PROVE  k \in lo[x] + 1 .. hi[x]
    BY DEF Cells
  <2>1. hi2[x] <= hi[x] /\ lo[x] \in Nat /\ hi[x] \in Nat /\ hi2[x] \in Nat  OBVIOUS
  <2> QED  BY <2>1
<1> QED  BY <1>1, CellsFinite, FS_Subset

\* rows of T lose one cell each
CutRows(S, T, lo, hi, hi2) ==
    /\ T \subseteq S /\ {lo, hi, hi2} \subseteq [S -> Nat]
    /\ \A x \in S : lo[x] = 0
    /\ \A x \in S : hi2[x] = IF x \in T THEN hi[x] - 1 ELSE hi[x]

LEMMA CellsCut ==
    ASSUME NEW S, IsFiniteSet(S), NEW T, NEW lo, NEW hi, NEW hi2, CutRows(S, T, lo, hi, hi2)
    PROVE  Cardinality(Cells(S, lo, hi)) = Cardinality(Cells(S, lo, hi2)) + Cardinality(T)
<1> DEFINE ends == {<<x, hi[x]>> : x \in T}
           end == [x \in T |-> <<x, hi[x]>>]
           less == Cells(S, lo, hi2)
<1>0. /\ T \subseteq S /\ lo \in [S -> Nat] /\ hi \in [S -> Nat] /\ hi2 \in [S -> Nat]
      /\ \A x \in S : lo[x] = 0
      /\ \A x \in S : hi2[x] = IF x \in T THEN hi[x] - 1 ELSE hi[x]
  BY DEF CutRows
<1> USE <1>0
<1>1. IsFiniteSet(T)  BY FS_Subset
<1>2. IsFiniteSet(ends) /\ Cardinality(ends) = Cardinality(T)
  <2>1. end \in [T -> ends]  OBVIOUS
  <2>2. IsInjective(end)  BY DEF IsInjective
  <2>3. \A e \in ends : \E x \in T : end[x] = e  OBVIOUS
  <2>4. end \in Bijection(T, ends)  BY <2>1, <2>2, <2>3 DEF Bijection, Injection, Surjection
  <2>5. ExistsBijection(T, ends)  BY <2>4 DEF ExistsBijection
  <2> HIDE DEF end, ends
  <2> QED  BY <1>1, <2>5, FS_Bijection
<1>3. \A x \in T : hi[x] \in Nat /\ hi[x] > 0 /\ hi2[x] = hi[x] - 1
  <2> TAKE x \in T
  <2>1. hi[x] \in Nat /\ hi2[x] \in Nat /\ hi2[x] = hi[x] - 1  OBVIOUS
  <2> QED  BY <2>1
<1>4. Cells(S, lo, hi) = less \cup ends
  <2>1. ASSUME NEW x \in S, NEW k \in 1 .. hi[x]
        PROVE  k \in 1 .. hi2[x] \/ (x \in T /\ k = hi[x])
    <3>1. CASE x \in T  BY <1>3, <2>1, <3>1
    <3>2. CASE x \notin T  BY <2>1, <3>2
    <3> QED  BY <3>1, <3>2
  <2>2. ASSUME NEW x \in S, NEW k \in 1 .. hi2[x] PROVE k \in 1 .. hi[x]
    <3>1. CASE x \in T  BY <1>3, <2>2, <3>1
    <3>2. CASE x \notin T  BY <2>2, <3>2
    <3> QED  BY <3>1, <3>2
  <2>3. \A x \in T : hi[x] \in 1 .. hi[x]  BY <1>3
  <2>4. \A x \in S : lo[x] + 1 = 1  OBVIOUS
  <2> QED  BY <2>1, <2>2, <2>3, <2>4 DEF Cells
<1>5. less \cap ends = {}
  <2> SUFFICES ASSUME NEW x \in T, hi[x] \in 1 .. hi2[x] PROVE FALSE
    <3>1. \A x \in S : lo[x] + 1 = 1  OBVIOUS
    <3> QED  BY <3>1 DEF Cells
  <2> QED  BY <1>3
<1>6. IsFiniteSet(less)  BY CellsFinite
<1> HIDE DEF less, ends
<1>7. Cardinality(less \cup ends)
        = Cardinality(less) + Cardinality(ends) - Cardinality(less \cap ends)
  BY <1>2, <1>6, FS_Union
<1>8. Cardinality(less \cap ends) = 0  BY <1>5, FS_EmptySet
<1>9. Cardinality(less) \in Nat /\ Cardinality(ends) \in Nat
  BY <1>2, <1>6, FS_CardinalityType
<1> QED  BY <1>2, <1>4, <1>7, <1>8, <1>9 DEF less

\* records, in the cache
Rec == [n : Nat \ {0}, value : BOOLEAN, meta : Nat]
Recs == [Items -> Seq(Rec)]

\* the records of one item change
OnlyAt(y, items, more) == \A i \in Items \ {y} : more[i] = items[i]

Zero == [i \in Items |-> 0]
Lens(items) == [i \in Items |-> Len(items[i])]

\* The size of the cache is a number of cells.
LEMMA SizeCells ==
    ASSUME NEW items \in [Items -> Seq(Rec)]
    PROVE  /\ Size(items) = Cardinality(Cells(Items, Zero, Lens(items)))
           /\ Size(items) \in Nat
           /\ Zero \in [Items -> Nat] /\ Lens(items) \in [Items -> Nat]
<1>1. Zero \in [Items -> Nat]  BY DEF Zero
<1>2. \A i \in Items : Len(items[i]) \in Nat /\ DOMAIN items[i] = 1 .. Len(items[i])
  BY LenProperties
<1>3. Lens(items) \in [Items -> Nat]  BY <1>2 DEF Lens
<1>4. \A i \in Items : Zero[i] + 1 .. Lens(items)[i] = DOMAIN items[i]
  BY <1>2 DEF Zero, Lens
<1>5. Size(items) = Cardinality(Cells(Items, Zero, Lens(items)))
  BY <1>4 DEF Size, Cells
<1>6. IsFiniteSet(Items)  BY HistoryCacheAssumption DEF HistoryCacheAssumption
<1>7. Cardinality(Cells(Items, Zero, Lens(items))) \in Nat  BY <1>1, <1>3, <1>6, CellsFinite
<1> QED  BY <1>1, <1>3, <1>5, <1>7

\* One item gets longer or shorter.
LEMMA SizeStep ==
    ASSUME NEW items \in Recs, NEW more \in Recs, NEW y \in Items, OnlyAt(y, items, more)
    PROVE  Size(more) = Size(items) + Len(more[y]) - Len(items[y])
<1>1. IsFiniteSet(Items)  BY HistoryCacheAssumption DEF HistoryCacheAssumption
<1>2. /\ Zero \in [Items -> Nat] /\ Lens(items) \in [Items -> Nat] /\ Lens(more) \in [Items -> Nat]
      /\ Size(items) \in Nat /\ Size(more) \in Nat
      /\ Size(items) = Cardinality(Cells(Items, Zero, Lens(items)))
      /\ Size(more) = Cardinality(Cells(Items, Zero, Lens(more)))
  BY SizeCells DEF Recs
<1>3. Zero[y] = 0 /\ Lens(items)[y] = Len(items[y]) /\ Lens(more)[y] = Len(more[y])
  BY DEF Zero, Lens
<1>4. \A i \in Items \ {y} : Zero[i] = Zero[i] /\ Lens(more)[i] = Lens(items)[i]
  BY DEF Lens, OnlyAt
<1>5. Len(items[y]) \in Nat /\ Len(more[y]) \in Nat  BY <1>2, <1>3
<1>6. Zero[y] <= Lens(items)[y] /\ Zero[y] <= Lens(more)[y]  BY <1>3, <1>5
<1>7. Cardinality(Cells(Items, Zero, Lens(more)))
        = Cardinality(Cells(Items, Zero, Lens(items)))
            + (Lens(more)[y] - Zero[y]) - (Lens(items)[y] - Zero[y])
  <2>1. RowStep(Items, y, Zero, Lens(items), Zero, Lens(more))
    BY <1>2, <1>4, <1>6 DEF RowStep
  <2> QED  BY <1>1, <2>1, CellsStep
<1> QED  BY <1>2, <1>3, <1>5, <1>7

LEMMA SizeShrink ==
    ASSUME NEW items \in [Items -> Seq(Rec)], NEW less \in [Items -> Seq(Rec)],
           \A i \in Items : Len(less[i]) <= Len(items[i])
    PROVE  Size(less) <= Size(items)
<1>1. IsFiniteSet(Items)  BY HistoryCacheAssumption DEF HistoryCacheAssumption
<1>2. /\ Zero \in [Items -> Nat] /\ Lens(items) \in [Items -> Nat] /\ Lens(less) \in [Items -> Nat]
      /\ Size(items) = Cardinality(Cells(Items, Zero, Lens(items)))
      /\ Size(less) = Cardinality(Cells(Items, Zero, Lens(less)))
  BY SizeCells
<1>3. \A i \in Items : Lens(less)[i] <= Lens(items)[i]  BY DEF Lens
<1> QED  BY <1>1, <1>2, <1>3, CellsShrink

\* The items of T lose their oldest record.
LEMMA SizeCut ==
    ASSUME NEW items \in [Items -> Seq(Rec)], NEW less \in [Items -> Seq(Rec)],
           NEW T, T \subseteq Items,
           \A i \in T : Len(less[i]) = Len(items[i]) - 1,
           \A i \in Items \ T : less[i] = items[i]
    PROVE  Size(items) = Size(less) + Cardinality(T)
<1>1. IsFiniteSet(Items)  BY HistoryCacheAssumption DEF HistoryCacheAssumption
<1>2. /\ Zero \in [Items -> Nat] /\ Lens(items) \in [Items -> Nat] /\ Lens(less) \in [Items -> Nat]
      /\ Size(items) = Cardinality(Cells(Items, Zero, Lens(items)))
      /\ Size(less) = Cardinality(Cells(Items, Zero, Lens(less)))
  BY SizeCells
<1>3. \A i \in Items : Lens(less)[i] = IF i \in T THEN Lens(items)[i] - 1 ELSE Lens(items)[i]
  BY DEF Lens
<1>4. \A i \in Items : Zero[i] = 0  BY DEF Zero
<1>5. CutRows(Items, T, Zero, Lens(items), Lens(less))
  BY <1>2, <1>3, <1>4 DEF CutRows
<1>6. Cardinality(Cells(Items, Zero, Lens(items)))
        = Cardinality(Cells(Items, Zero, Lens(less))) + Cardinality(T)
  BY <1>1, <1>5, CellsCut
<1> QED  BY <1>2, <1>6

----------------------------------------------------------------------------
(* Adding one record. *)

Entry == [item : Items, value : BOOLEAN, waited : BOOLEAN]
Caches ==
    [items : [Items -> Seq(Rec)], queue : SUBSET Items, rest : Seq(Entry),
     received : [Items -> Nat], merged : Nat]

\* what adding k records to the cache of the present state has made of it
Grown(c, k) ==
    /\ \A i \in Items : history_items[i] # <<>> =>
         c.items[i] # <<>> /\ Head(c.items[i]) = Head(history_items[i])
    /\ c.queue = history_queue \cup {i \in Items : history_items[i] = <<>> /\ c.items[i] # <<>>}
    /\ \A i \in Log :
         IF c.items[i] = <<>> THEN c.received[i] = log.received[i]
         ELSE Last(c.items[i]).meta = c.received[i]
    /\ Size(c.items) <= MemSize
    /\ Len(c.rest) <= k
    /\ Size(c.items) + c.merged + Len(c.rest) = Size(history_items) + log.merged + k

\* The record is put at the end of its item.
LEMMA Appended ==
    ASSUME NEW c \in Caches, NEW k \in Nat, Grown(c, k), NEW i \in Items,
           history_items \in [Items -> Seq(Rec)], log.merged \in Nat,
           c.rest = <<>>, Size(c.items) < MemSize,
           NEW v \in BOOLEAN, NEW d, d \in Caches,
           LET n == c.received[i] + 1
               new == [n |-> n, value |-> v, meta |-> IF i \in Log THEN n ELSE 0]
           IN  /\ d.items = [c.items EXCEPT ![i] = Append(@, new)]
               /\ d.queue = IF c.items[i] = <<>> THEN c.queue \cup {i} ELSE c.queue
               /\ d.received = [c.received EXCEPT ![i] = n]
               /\ d.rest = c.rest /\ d.merged = c.merged
    PROVE  Grown(d, k + 1)
<1> DEFINE n == c.received[i] + 1
           new == [n |-> n, value |-> v, meta |-> IF i \in Log THEN n ELSE 0]
<1>1. c.items \in [Items -> Seq(Rec)] /\ d.items \in [Items -> Seq(Rec)]
      /\ c.received \in [Items -> Nat] /\ c.merged \in Nat
  BY DEF Caches
<1>2. new \in Rec
  <2>1. n \in Nat \ {0}  BY <1>1
  <2> QED  BY <2>1 DEF Rec
<1>3. d.items[i] = Append(c.items[i], new) /\ \A j \in Items \ {i} : d.items[j] = c.items[j]
  BY <1>1
<1>4. d.received[i] = n /\ \A j \in Items \ {i} : d.received[j] = c.received[j]
  BY <1>1
<1>5. new.meta = IF i \in Log THEN n ELSE 0  OBVIOUS
<1> HIDE DEF new
<1>6. /\ d.items[i] # <<>> /\ Len(d.items[i]) = Len(c.items[i]) + 1 /\ Last(d.items[i]) = new
      /\ c.items[i] # <<>> => Head(d.items[i]) = Head(c.items[i])
  <2> DEFINE q == c.items[i]
  <2>1. q \in Seq(Rec)  BY <1>1
  <2> HIDE DEF q
  <2>2. Len(Append(q, new)) = Len(q) + 1 /\ Append(q, new) # <<>>  BY <1>2, <2>1, SMTT(60)
  <2>3. Append(q, new)[Len(q) + 1] = new  BY <1>2, <2>1
  <2>4. q # <<>> => Head(Append(q, new)) = Head(q)
    <3> SUFFICES ASSUME q # <<>> PROVE Head(Append(q, new)) = Head(q)  OBVIOUS
    <3>1. Len(q) \in Nat \ {0}  BY <2>1, EmptySeq
    <3>2. Append(q, new)[1] = q[1]  BY <1>2, <2>1, <3>1
    <3> QED  BY <2>1, <2>2, <3>2
  <2>5. d.items[i] = Append(q, new)  BY <1>3 DEF q
  <2> QED  BY <2>2, <2>3, <2>4, <2>5 DEF Last, q
<1>7. ASSUME NEW j \in Items, history_items[j] # <<>>
      PROVE  d.items[j] # <<>> /\ Head(d.items[j]) = Head(history_items[j])
  <2>1. c.items[j] # <<>> /\ Head(c.items[j]) = Head(history_items[j])  BY <1>7 DEF Grown
  <2> QED  BY <1>3, <1>6, <2>1
<1>8. d.queue = history_queue \cup {j \in Items : history_items[j] = <<>> /\ d.items[j] # <<>>}
  <2>1. c.queue = history_queue \cup {j \in Items : history_items[j] = <<>> /\ c.items[j] # <<>>}
    BY DEF Grown
  <2>2. CASE c.items[i] = <<>>
    <3>1. history_items[i] = <<>>  BY <2>2 DEF Grown
    <3> QED  BY <1>3, <1>6, <2>1, <2>2, <3>1
  <2>3. CASE c.items[i] # <<>>
    <3>1. \A j \in Items : d.items[j] # <<>> <=> c.items[j] # <<>>  BY <1>3, <1>6, <2>3
    <3> QED  BY <2>1, <2>3, <3>1
  <2> QED  BY <2>2, <2>3
<1>9. ASSUME NEW j \in Log
      PROVE  IF d.items[j] = <<>> THEN d.received[j] = log.received[j]
             ELSE Last(d.items[j]).meta = d.received[j]
  <2>1. j \in Items  BY HistoryCacheAssumption DEF HistoryCacheAssumption
  <2>2. CASE j = i  BY <1>4, <1>5, <1>6, <2>2
  <2>3. CASE j # i
    <3>1. d.items[j] = c.items[j] /\ d.received[j] = c.received[j]  BY <1>3, <1>4, <2>1, <2>3
    <3> QED  BY <3>1 DEF Grown
  <2> QED  BY <2>2, <2>3
<1>10. Size(d.items) = Size(c.items) + 1
  <2> DEFINE A == c.items
             B == d.items
  <2>1. i \in Items /\ A \in Recs /\ B \in Recs /\ OnlyAt(i, A, B) /\ Len(B[i]) = Len(A[i]) + 1
    BY <1>1, <1>3, <1>6 DEF Recs, OnlyAt
  <2> HIDE DEF A, B
  <2>2. Size(B) = Size(A) + Len(B[i]) - Len(A[i])  BY ONLY <2>1, SizeStep
  <2>3. Size(A) \in Nat  BY <2>1, SizeCells DEF Recs
  <2>4. Len(A[i]) \in Nat
    <3>1. A[i] \in Seq(Rec)  BY <2>1 DEF Recs
    <3> QED  BY <3>1, LenProperties
  <2>5. Size(B) = Size(A) + 1  BY <2>1, <2>2, <2>3, <2>4
  <2> QED  BY <2>5 DEF A, B
<1>11. /\ Size(d.items) <= MemSize /\ Len(d.rest) <= k + 1
       /\ Size(d.items) + d.merged + Len(d.rest) = Size(history_items) + log.merged + (k + 1)
  <2>1. Size(c.items) \in Nat /\ Size(history_items) \in Nat  BY <1>1, SizeCells
  <2>2. MemSize \in Nat  BY HistoryCacheAssumption DEF HistoryCacheAssumption
  <2>3. Len(d.rest) = 0 /\ Len(c.rest) = 0  BY EmptySeq
  <2>4. Size(c.items) + c.merged + 0 = Size(history_items) + log.merged + k  BY <2>3 DEF Grown
  <2>5. d.merged = c.merged  OBVIOUS
  <2>6. Size(d.items) <= MemSize  BY <1>10, <2>1, <2>2
  <2>7. Len(d.rest) <= k + 1  BY <2>3
  <2>8. (Size(c.items) + 1) + c.merged + 0 = Size(history_items) + log.merged + (k + 1)
    <3> DEFINE p == Size(c.items)
               q == Size(history_items)
               m == c.merged
               z == log.merged
    <3>1. p \in Nat /\ q \in Nat /\ m \in Nat /\ z \in Nat /\ p + m + 0 = q + z + k
      BY <1>1, <2>1, <2>4
    <3> HIDE DEF p, q, m, z
    <3>2. (p + 1) + m + 0 = q + z + (k + 1)  BY <3>1
    <3> QED  BY <3>2 DEF p, q, m, z
  <2> QED  BY <1>10, <2>3, <2>5, <2>6, <2>7, <2>8
<1> QED  BY <1>7, <1>8, <1>9, <1>11 DEF Grown

\* The record is merged into the newest of its item, which is not the oldest.
LEMMA Merged ==
    ASSUME NEW c \in Caches, NEW k \in Nat, Grown(c, k), NEW i \in Items,
           history_items \in [Items -> Seq(Rec)], log.merged \in Nat,
           c.rest = <<>>, Len(c.items[i]) > 1, NEW d, d \in Caches,
           LET n == c.received[i] + 1
               q == c.items[i]
           IN  /\ d.items[i] \in Seq(Rec) /\ Len(d.items[i]) = Len(q) /\ d.items[i][1] = q[1]
               /\ i \in Log => d.items[i][Len(q)].meta = n
               /\ \A j \in Items \ {i} : d.items[j] = c.items[j]
               /\ d.received[i] = n /\ \A j \in Items \ {i} : d.received[j] = c.received[j]
               /\ d.queue = c.queue /\ d.rest = c.rest /\ d.merged = c.merged + 1
    PROVE  Grown(d, k + 1)
<1> DEFINE n == c.received[i] + 1
           q == c.items[i]
<1>1. c.items \in [Items -> Seq(Rec)] /\ d.items \in [Items -> Seq(Rec)]
      /\ c.received \in [Items -> Nat] /\ c.merged \in Nat
  BY DEF Caches
<1>2. q \in Seq(Rec) /\ Len(q) \in Nat /\ Len(q) > 1  BY <1>1, LenProperties
<1>3. q # <<>> /\ d.items[i] # <<>> /\ Head(d.items[i]) = Head(q)
  <2>1. q # <<>>  BY <1>2, EmptySeq
  <2>2. d.items[i] # <<>>  BY <1>2, EmptySeq
  <2> QED  BY <1>2, <2>1, <2>2
<1>4. \A j \in Items : d.items[j] # <<>> <=> c.items[j] # <<>>  BY <1>3
<1>5. ASSUME NEW j \in Items, history_items[j] # <<>>
      PROVE  d.items[j] # <<>> /\ Head(d.items[j]) = Head(history_items[j])
  <2>1. c.items[j] # <<>> /\ Head(c.items[j]) = Head(history_items[j])  BY <1>5 DEF Grown
  <2> QED  BY <1>3, <2>1
<1>6. d.queue = history_queue \cup {j \in Items : history_items[j] = <<>> /\ d.items[j] # <<>>}
  BY <1>4 DEF Grown
<1>7. ASSUME NEW j \in Log
      PROVE  IF d.items[j] = <<>> THEN d.received[j] = log.received[j]
             ELSE Last(d.items[j]).meta = d.received[j]
  <2>1. j \in Items  BY HistoryCacheAssumption DEF HistoryCacheAssumption
  <2>2. CASE j = i  BY <1>3, <2>2 DEF Last
  <2>3. CASE j # i
    <3>1. d.items[j] = c.items[j] /\ d.received[j] = c.received[j]  BY <2>1, <2>3
    <3> QED  BY <3>1 DEF Grown
  <2> QED  BY <2>2, <2>3
<1>8. Size(d.items) = Size(c.items)
  <2> DEFINE A == c.items
             B == d.items
  <2>1. /\ i \in Items /\ A \in Recs /\ B \in Recs /\ OnlyAt(i, A, B)
        /\ Len(B[i]) = Len(A[i]) /\ Len(A[i]) \in Nat
    BY <1>1, <1>2 DEF Recs, OnlyAt
  <2> HIDE DEF A, B
  <2>2. Size(B) = Size(A) + Len(B[i]) - Len(A[i])  BY ONLY <2>1, SizeStep
  <2>3. Size(A) \in Nat  BY <2>1, SizeCells DEF Recs
  <2>4. Size(B) = Size(A)  BY <2>1, <2>2, <2>3
  <2> QED  BY <2>4 DEF A, B
<1>9. /\ Size(d.items) <= MemSize /\ Len(d.rest) <= k + 1
      /\ Size(d.items) + d.merged + Len(d.rest) = Size(history_items) + log.merged + (k + 1)
  <2> DEFINE p == Size(c.items)
             h == Size(history_items)
             m == c.merged
             z == log.merged
  <2>1. p \in Nat /\ h \in Nat  BY <1>1, SizeCells
  <2>2. Len(d.rest) = 0 /\ Len(c.rest) = 0  BY EmptySeq
  <2>3. p <= MemSize /\ p + m + 0 = h + z + k  BY <2>2 DEF Grown
  <2>4. m \in Nat /\ z \in Nat  BY <1>1
  <2>5. Size(d.items) = p /\ d.merged = m + 1  BY <1>8
  <2> HIDE DEF p, h, m, z
  <2>6. p + (m + 1) + 0 = h + z + (k + 1)  BY <2>1, <2>3, <2>4
  <2>7. Len(d.rest) <= k + 1  BY <2>2
  <2> QED  BY <2>2, <2>3, <2>5, <2>6, <2>7 DEF h, z
<1> QED  BY <1>5, <1>6, <1>7, <1>9 DEF Grown

\* The cache was or is full: the record waits.
LEMMA Waits ==
    ASSUME NEW c \in Caches, NEW k \in Nat, Grown(c, k), log.merged \in Nat,
           history_items \in [Items -> Seq(Rec)], NEW d,
           d.items = c.items, d.queue = c.queue, d.received = c.received, d.merged = c.merged,
           Len(d.rest) = Len(c.rest) + 1
    PROVE  Grown(d, k + 1)
<1> DEFINE p == Size(c.items)
           h == Size(history_items)
           m == c.merged
           z == log.merged
           l == Len(c.rest)
<1>1. p \in Nat /\ h \in Nat  BY SizeCells DEF Caches
<1>2. m \in Nat /\ z \in Nat  BY DEF Caches
<1>3. l \in Nat
  <2>1. c.rest \in Seq(Entry)  BY DEF Caches
  <2> QED  BY <2>1, LenProperties
<1>4. l <= k /\ p + m + l = h + z + k  BY DEF Grown
<1>5. Size(d.items) = p /\ d.merged = m /\ Len(d.rest) = l + 1  OBVIOUS
<1> HIDE DEF p, h, m, z, l
<1>6. l + 1 <= k + 1 /\ p + m + (l + 1) = h + z + (k + 1)
  BY <1>1, <1>2, <1>3, <1>4
<1>7. Size(d.items) + d.merged + Len(d.rest) = Size(history_items) + log.merged + (k + 1)
      /\ Len(d.rest) <= k + 1
  BY <1>5, <1>6 DEF h, z
<1> QED  BY <1>7 DEF Grown

\* One turn of the loop.
LEMMA OneMore ==
    ASSUME NEW c \in Caches, NEW k \in Nat, Grown(c, k), NEW r \in Entry,
           history_items \in [Items -> Seq(Rec)], log.merged \in Nat
    PROVE  AddItemValue(c, r) \in Caches /\ Grown(AddItemValue(c, r), k + 1)
<1> DEFINE i == r.item
           q == c.items[i]
           n == c.received[i] + 1
           meta == IF i \in Log THEN n ELSE 0
           full == [c EXCEPT !.rest = <<[r EXCEPT !.waited = TRUE]>>]
           later == [c EXCEPT !.rest = Append(@, r)]
           mixed == [c EXCEPT !.items[i][Len(q)].meta = IF i \in Log THEN n ELSE @,
                              !.received[i] = n, !.merged = @ + 1]
           added == [c EXCEPT !.items[i] = Append(@, [n |-> n, value |-> r.value, meta |-> meta]),
                              !.queue = IF q = <<>> THEN @ \cup {i} ELSE @,
                              !.received[i] = n]
           merged == ~r.value /\ ~r.waited /\ Len(c.items[r.item]) > 1
<1>1. AddItemValue(c, r) = IF c.rest # <<>> THEN later ELSE IF merged THEN mixed
                           ELSE IF Size(c.items) >= MemSize THEN full ELSE added
  BY DEF AddItemValue, AddRecord
<1>2. i \in Items /\ r.value \in BOOLEAN  BY DEF Entry
<1>3. /\ c.items \in [Items -> Seq(Rec)] /\ c.queue \in SUBSET Items /\ c.rest \in Seq(Entry)
      /\ c.received \in [Items -> Nat] /\ c.merged \in Nat
  BY DEF Caches
<1>4. q \in Seq(Rec) /\ n \in Nat \ {0} /\ meta \in Nat  BY <1>2, <1>3, SMTT(60)
<1>5. later \in Caches /\ Grown(later, k + 1)
  <2>1. Append(c.rest, r) \in Seq(Entry) /\ Len(Append(c.rest, r)) = Len(c.rest) + 1
    BY <1>3
  <2>2. /\ later.items = c.items /\ later.queue = c.queue /\ later.received = c.received
        /\ later.merged = c.merged /\ later.rest = Append(c.rest, r)
    BY DEF Caches
  <2>3. later \in Caches  BY <2>1 DEF Caches
  <2> HIDE DEF later
  <2> QED  BY <2>1, <2>2, <2>3, Waits
<1>6. ASSUME c.rest = <<>> PROVE full \in Caches /\ Grown(full, k + 1)
  <2> DEFINE w == [r EXCEPT !.waited = TRUE]
  <2>1. w \in Entry  BY DEF Entry
  <2> HIDE DEF w
  <2>2. <<w>> \in Seq(Entry) /\ Len(<<w>>) = 1 /\ Len(c.rest) = 0  BY <1>6, <2>1
  <2>3. /\ full.items = c.items /\ full.queue = c.queue /\ full.received = c.received
        /\ full.merged = c.merged /\ full.rest = <<w>>
    BY DEF Caches, w
  <2>4. full \in Caches  BY <2>2 DEF Caches, w
  <2> HIDE DEF full
  <2>5. Len(full.rest) = Len(c.rest) + 1  BY <2>2, <2>3
  <2> QED  BY <2>3, <2>4, <2>5, Waits
<1>7. ASSUME c.rest = <<>>, Size(c.items) < MemSize PROVE added \in Caches /\ Grown(added, k + 1)
  <2> DEFINE new == [n |-> n, value |-> r.value, meta |-> meta]
  <2>1. new \in Rec  BY <1>2, <1>4 DEF Rec
  <2>2. Append(q, new) \in Seq(Rec)  BY <1>4, <2>1
  <2>3. /\ added.items = [c.items EXCEPT ![i] = Append(@, new)]
        /\ added.queue = IF q = <<>> THEN c.queue \cup {i} ELSE c.queue
        /\ added.received = [c.received EXCEPT ![i] = n]
        /\ added.rest = c.rest /\ added.merged = c.merged
    BY DEF Caches
  <2>4. added.items \in [Items -> Seq(Rec)] /\ added.received \in [Items -> Nat]
        /\ added.queue \in SUBSET Items
    BY <1>2, <1>3, <1>4, <2>2, <2>3, SMTT(60)
  <2>5. added \in Caches  BY <1>3, <2>4 DEF Caches
  <2> HIDE DEF added
  <2> QED  BY <1>2, <1>7, <2>3, <2>5, Appended, ZenonT(60)
<1>8. ASSUME c.rest = <<>>, merged PROVE mixed \in Caches /\ Grown(mixed, k + 1)
  <2> DEFINE new == [q[Len(q)] EXCEPT !.meta = IF i \in Log THEN n ELSE @]
             t == [q EXCEPT ![Len(q)] = new]
  <2>0. Len(q) > 1  BY <1>8
  <2>1. Len(q) \in Nat /\ Len(q) \in 1 .. Len(q) /\ 1 \in 1 .. Len(q) /\ 1 # Len(q)
    <3> DEFINE l == Len(q)
    <3>1. l \in Nat  BY <1>4, LenProperties
    <3>2. l > 1  BY <2>0
    <3> HIDE DEF l
    <3>3. l \in 1 .. l /\ 1 \in 1 .. l /\ 1 # l  BY <3>1, <3>2
    <3> QED  BY <3>1, <3>3 DEF l
  <2>2. q[Len(q)] \in Rec  BY <1>4, <2>1, ElementOfSeq
  <2>3. new \in Rec /\ (i \in Log => new.meta = n)  BY <1>4, <2>2 DEF Rec
  <2>4. /\ mixed.items = [c.items EXCEPT ![i] = t]
        /\ mixed.queue = c.queue /\ mixed.rest = c.rest
        /\ mixed.received = [c.received EXCEPT ![i] = n] /\ mixed.merged = c.merged + 1
    BY DEF Caches
  <2> HIDE DEF new
  <2>5. t \in Seq(Rec) /\ Len(t) = Len(q) /\ t[1] = q[1] /\ t[Len(q)] = new
    BY <1>4, <2>1, <2>3, ExceptSeq
  <2> HIDE DEF t
  <2>6. mixed.items \in [Items -> Seq(Rec)] /\ mixed.received \in [Items -> Nat]
        /\ mixed.merged \in Nat
    <3> HIDE DEF mixed
    <3>1. mixed.items \in [Items -> Seq(Rec)]
      <4> DEFINE f == c.items
      <4>1. f \in [Items -> Seq(Rec)] /\ mixed.items = [f EXCEPT ![i] = t]  BY <1>3, <2>4
      <4> HIDE DEF f
      <4> QED  BY <2>5, <4>1
    <3>2. mixed.received \in [Items -> Nat]
      <4> DEFINE m == n
      <4>1. m \in Nat  BY <1>4
      <4>2. mixed.received = [c.received EXCEPT ![i] = m]  BY <2>4
      <4> HIDE DEF m
      <4> QED  BY <1>3, <4>1, <4>2
    <3>3. mixed.merged \in Nat  BY <1>3, <2>4
    <3> QED  BY <3>1, <3>2, <3>3
  <2>7. mixed \in Caches  BY <1>3, <2>6 DEF Caches
  <2>8. mixed.items[i] = t /\ \A j \in Items \ {i} : mixed.items[j] = c.items[j]
    BY <1>2, <1>3, <2>4, ZenonT(60)
  <2>9. mixed.received[i] = n /\ \A j \in Items \ {i} : mixed.received[j] = c.received[j]
    BY <1>2, <1>3, <2>4
  <2> HIDE DEF mixed
  <2> QED  BY <1>2, <1>8, <2>0, <2>3, <2>4, <2>5, <2>7, <2>8, <2>9, Merged
<1>9. ~(Size(c.items) >= MemSize) => Size(c.items) < MemSize
  <2>1. Size(c.items) \in Nat  BY <1>3, SizeCells
  <2>2. MemSize \in Nat  BY HistoryCacheAssumption DEF HistoryCacheAssumption
  <2> QED  BY <2>1, <2>2
<1> HIDE DEF later, mixed, full, added
<1> QED  BY <1>1, <1>5, <1>6, <1>7, <1>8, <1>9

\* Adding the records of a writer.
LEMMA AllAdded ==
    ASSUME NEW records \in Seq(Entry), history_items \in [Items -> Seq(Rec)],
           history_queue \subseteq Items, log.received \in [Items -> Nat], log.merged \in Nat,
           Size(history_items) <= MemSize,
           \A i \in Log : history_items[i] # <<>> =>
              Last(history_items[i]).meta = log.received[i]
    PROVE  AddItemValues(records) \in Caches /\ Grown(AddItemValues(records), Len(records))
<1> DEFINE D == [k \in Nat |-> {c \in Caches : Grown(c, k)}]
<1>1. Start \in D[0]
  <2>1. /\ Start.items = history_items /\ Start.queue = history_queue /\ Start.rest = <<>>
        /\ Start.received = log.received /\ Start.merged = log.merged
    BY DEF Start
  <2>2. Start \in Caches  BY EmptySeq DEF Start, Caches
  <2>3. Grown(Start, 0)
    <3>1. Len(Start.rest) = 0  BY <2>1, EmptySeq
    <3>2. Size(history_items) + log.merged + 0 = Size(history_items) + log.merged + 0  OBVIOUS
    <3>3. {i \in Items : history_items[i] = <<>> /\ Start.items[i] # <<>>} = {}  BY <2>1
    <3>4. Len(Start.rest) <= 0  BY <3>1
    <3>5. Size(Start.items) + Start.merged + Len(Start.rest) = Size(history_items) + log.merged + 0
      BY <2>1, <3>1
    <3> QED  BY <2>1, <3>3, <3>4, <3>5 DEF Grown
  <2> QED  BY <2>2, <2>3
<1>2. ASSUME NEW k \in 1 .. Len(records), NEW c \in D[k - 1]
      PROVE  AddItemValue(c, records[k]) \in D[k]
  <2>1. k - 1 \in Nat /\ k \in Nat /\ (k - 1) + 1 = k  OBVIOUS
  <2>2. c \in Caches /\ Grown(c, k - 1)  BY <1>2, <2>1
  <2>3. records[k] \in Entry  BY ElementOfSeq
  <2>4. AddItemValue(c, records[k]) \in Caches /\ Grown(AddItemValue(c, records[k]), (k - 1) + 1)
    BY <2>1, <2>2, <2>3, OneMore
  <2> QED  BY <2>1, <2>4
<1>3. Len(records) \in Nat  BY LenProperties
<1>4. AddItemValues(records) \in D[Len(records)]
  <2> HIDE DEF D
  <2> QED  BY <1>1, <1>2, Folded
<1> QED  BY <1>3, <1>4

----------------------------------------------------------------------------
(* Who has the items. *)

\* the triggers that the oldest of an item's records makes necessary to evaluate
Trig(items, i) == IF Head(items[i]).value THEN Uses[i] ELSE {}

\* What the place x of a process in its pass says about the items it has taken
\* out of the queue: those that are not busy are ready, the triggers of these are
\* locked, and what it has written of their metadata is still what their oldest
\* records say.
Sound(x, items, bsy, stale, meta) ==
    /\ x.ready \subseteq x.batch /\ x.batch \subseteq Items /\ x.trig \subseteq Triggers
    /\ \A i \in x.batch : items[i] # <<>>
    /\ x.pc \in {"off", "pop", "done"} => x.batch = {}
    /\ x.pc \in {"lock", "return"} => x.ready = {} /\ x.batch # {}
    /\ x.pc \in {"timers", "evaluate"} /\ x.ready = {} => x.batch = {}
    /\ x.pc \in {"write", "push"} => x.ready # {}
    /\ x.batch \cap bsy = IF x.pc = "lock" THEN {} ELSE x.batch \ x.ready
    /\ x.pc \in {"write", "timers", "evaluate"} => \A i \in x.ready : Trig(items, i) \subseteq x.trig
    /\ x.pc \in {"timers", "evaluate", "push"} =>
         \A i \in x.ready \cap Log : i \in stale \/ meta[i] = Head(items[i]).meta

Held == UNION {syncer[s].batch : s \in Procs}

Apart == \A s, r \in Procs : s # r => syncer[s].batch \cap syncer[r].batch = {}

Placed ==
    ~Abandoned => /\ history_queue \cap Held = {}
                  /\ Cached = history_queue \cup Held
                  /\ busy \subseteq Held

\* the log has numbers of records, and whatever else it records
Numbers ==
    \E X : log \in [received : [Items -> Nat], given : X, merged : Nat, stale : X,
                    fired : X, evaluated : X]

Types ==
    /\ history_items \in Recs /\ Size(history_items) <= MemSize
    /\ history_queue \subseteq Items
    /\ Numbers
    /\ writer \in [Writers -> [rest : Seq(Entry), total : Nat]]

ItemInv ==
    /\ LockInv
    /\ Types
    /\ \A s \in Procs : Sound(syncer[s], history_items, busy, log.stale, db.meta)
    /\ Apart
    /\ Placed
    /\ MetaKept

\* Nothing becomes of a process whose items are left alone.
LEMMA StaysSound ==
    ASSUME NEW x, NEW items, NEW bsy, NEW stale, NEW meta, Sound(x, items, bsy, stale, meta),
           NEW items2, NEW bsy2, NEW stale2, NEW meta2,
           \A i \in x.batch :
              /\ items2[i] # <<>> /\ Head(items2[i]) = Head(items[i])
              /\ i \in bsy2 <=> i \in bsy
              /\ i \in stale2 <=> i \in stale
              /\ meta2[i] = meta[i]
    PROVE  Sound(x, items2, bsy2, stale2, meta2)
<1>1. x.ready \subseteq x.batch  BY DEF Sound
<1>2. x.batch \cap bsy2 = x.batch \cap bsy  OBVIOUS
<1>3. \A i \in x.ready : Trig(items2, i) = Trig(items, i)  BY <1>1 DEF Trig
<1>4. \A i \in x.ready \cap Log : i \in stale \/ meta[i] = Head(items[i]).meta
        => i \in stale2 \/ meta2[i] = Head(items2[i]).meta
  BY <1>1
<1> QED  BY <1>1, <1>2, <1>3, <1>4 DEF Sound

\* What a process has is in the cache, and its own.
LEMMA HeldIn ==
    ASSUME ItemInv, NEW s \in Procs
    PROVE  /\ Sound(syncer[s], history_items, busy, log.stale, db.meta)
           /\ syncer[s].batch \subseteq Held
           /\ \A r \in Procs \ {s} : syncer[r].batch \cap syncer[s].batch = {}
           /\ ~Abandoned => syncer[s].batch \subseteq Cached
BY DEF ItemInv, Held, Apart, Placed

\* Records are added to items or removed from their middle.
LEMMA ItemsMove ==
    ASSUME ItemInv, ~Abandoned, LockInv', Types', UNCHANGED <<busy, syncer, server, db>>,
           log'.stale = log.stale,
           \A i \in Items : history_items[i] # <<>> =>
              history_items'[i] # <<>> /\ Head(history_items'[i]) = Head(history_items[i]),
           history_queue' = history_queue \cup
              {i \in Items : history_items[i] = <<>> /\ history_items'[i] # <<>>},
           \A i \in Log :
              IF history_items'[i] = <<>> THEN log'.received[i] = log.received[i]
              ELSE Last(history_items'[i]).meta = log'.received[i]
    PROVE  ItemInv'
<1>1. \A s \in Procs : syncer[s].batch \subseteq Cached
  BY HeldIn
<1>2. \A s \in Procs : Sound(syncer'[s], history_items', busy', log'.stale, db'.meta)
  <2> TAKE s \in Procs
  <2>1. Sound(syncer[s], history_items, busy, log.stale, db.meta)  BY HeldIn
  <2>2. \A i \in syncer[s].batch :
          history_items'[i] # <<>> /\ Head(history_items'[i]) = Head(history_items[i])
    BY <1>1 DEF Cached
  <2>3. Sound(syncer[s], history_items', busy, log.stale, db.meta)
    BY <2>1, <2>2, StaysSound
  <2> QED  BY <2>3
<1>3. Apart'  BY DEF ItemInv, Apart
<1>4. Placed'
  <2>1. /\ history_queue \cap Held = {} /\ Cached = history_queue \cup Held /\ busy \subseteq Held
    BY DEF ItemInv, Placed
  <2>2. Held' = Held  BY DEF Held
  <2>3. Cached' = Cached \cup {i \in Items : history_items[i] = <<>> /\ history_items'[i] # <<>>}
    BY DEF Cached
  <2>4. Held \subseteq Cached  BY <2>1
  <2>5. history_queue' \cap Held = {}  BY <2>1, <2>4 DEF Cached
  <2> QED  BY <2>1, <2>2, <2>3, <2>5 DEF Placed
<1>5. MetaKept'
  <2> SUFFICES ASSUME NEW i \in Log
               PROVE  IF history_items'[i] # <<>>
                      THEN Last(history_items'[i]).meta = log'.received[i]
                      ELSE i \notin log'.stale => db'.meta[i] = log'.received[i]
    <3>1. Log \subseteq Items  BY HistoryCacheAssumption DEF HistoryCacheAssumption
    <3> QED  BY <3>1 DEF MetaKept, Cached
  <2>1. i \in Items  BY HistoryCacheAssumption DEF HistoryCacheAssumption
  <2>2. CASE history_items'[i] # <<>>  BY <2>2
  <2>3. CASE history_items'[i] = <<>>
    <3>1. i \notin Cached  BY <2>1, <2>3 DEF Cached
    <3>2. i \notin log.stale => db.meta[i] = log.received[i]  BY <3>1 DEF ItemInv, MetaKept
    <3>3. log'.received[i] = log.received[i]  BY <2>3
    <3> QED  BY <2>3, <3>2, <3>3
  <2> QED  BY <2>2, <2>3
<1> QED  BY <1>2, <1>3, <1>4, <1>5 DEF ItemInv

\* A process takes a step and leaves the items of the others alone.
LEMMA OneTurn ==
    ASSUME ItemInv, ~Abandoned, LockInv', Types', NEW s \in Procs, NEW x,
           syncer' = [syncer EXCEPT ![s] = x], server' = server, x.pc # "off",
           Sound(x, history_items', busy', log'.stale, db'.meta),
           x.batch \subseteq syncer[s].batch \cup history_queue,
           \A i \in Held \ syncer[s].batch :
              /\ history_items'[i] # <<>> /\ Head(history_items'[i]) = Head(history_items[i])
              /\ i \in busy' <=> i \in busy
              /\ i \in log'.stale <=> i \in log.stale
              /\ db'.meta[i] = db.meta[i],
           LET held == (Held \ syncer[s].batch) \cup x.batch
           IN  history_queue' \cap held = {} /\ Cached' = history_queue' \cup held
               /\ busy' \subseteq held,
           MetaKept'
    PROVE  ItemInv'
<1> DEFINE held == (Held \ syncer[s].batch) \cup x.batch
<1>1. PICK B : syncer \in [Procs -> States(B)]
  BY DEF ItemInv, LockInv, Shape
<1>2. syncer'[s] = x /\ \A r \in Procs \ {s} : syncer'[r] = syncer[r]
  BY <1>1
<1>3. \A r \in Procs : Sound(syncer'[r], history_items', busy', log'.stale, db'.meta)
  <2> TAKE r \in Procs
  <2>1. CASE r = s  BY <1>2, <2>1
  <2>2. CASE r # s
    <3>1. syncer'[r] = syncer[r]  BY <1>2, <2>2
    <3>2. /\ Sound(syncer[r], history_items, busy, log.stale, db.meta)
          /\ syncer[r].batch \subseteq Held /\ syncer[r].batch \cap syncer[s].batch = {}
      BY <2>2, HeldIn
    <3>3. syncer[r].batch \subseteq Held \ syncer[s].batch  BY <3>2
    <3>4. Sound(syncer[r], history_items', busy', log'.stale, db'.meta)
      BY <3>2, <3>3, StaysSound
    <3> QED  BY <3>1, <3>4
  <2> QED  BY <2>1, <2>2
<1>4. /\ history_queue \cap Held = {}
      /\ \A r \in Procs : syncer[r].batch \subseteq Held
  BY HeldIn DEF ItemInv, Placed
<1>5. Apart'
  <2> SUFFICES ASSUME NEW r \in Procs, NEW u \in Procs, r # u
               PROVE  syncer'[r].batch \cap syncer'[u].batch = {}
    BY DEF Apart
  <2>1. syncer[r].batch \cap syncer[u].batch = {}  BY DEF ItemInv, Apart
  <2>2. CASE r = s
    <3>1. syncer'[r] = x /\ syncer'[u] = syncer[u]  BY <1>2, <2>2
    <3> QED  BY <1>4, <2>1, <2>2, <3>1
  <2>3. CASE u = s
    <3>1. syncer'[u] = x /\ syncer'[r] = syncer[r]  BY <1>2, <2>3
    <3> QED  BY <1>4, <2>1, <2>3, <3>1
  <2>4. CASE r # s /\ u # s
    <3>1. syncer'[u] = syncer[u] /\ syncer'[r] = syncer[r]  BY <1>2, <2>4
    <3> QED  BY <2>1, <3>1
  <2> QED  BY <2>2, <2>3, <2>4
<1>6. Held' = held
  <2>1. ASSUME NEW i \in held PROVE \E r \in Procs : i \in syncer'[r].batch
    <3>1. CASE i \in x.batch  BY <1>2, <3>1
    <3>2. CASE i \in Held /\ i \notin syncer[s].batch
      <4>1. PICK r \in Procs : i \in syncer[r].batch  BY <3>2 DEF Held
      <4>2. r # s  BY <3>2, <4>1
      <4> QED  BY <1>2, <4>1, <4>2
    <3> QED  BY <2>1, <3>1, <3>2
  <2>2. ASSUME NEW r \in Procs, NEW i \in syncer'[r].batch PROVE i \in held
    <3>1. CASE r = s  BY <1>2, <2>2, <3>1
    <3>2. CASE r # s
      <4>1. i \in syncer[r].batch /\ syncer[r].batch \subseteq Held  BY <1>2, <1>4, <2>2, <3>2
      <4>2. i \notin syncer[s].batch  BY <3>2, <4>1 DEF ItemInv, Apart
      <4> QED  BY <4>1, <4>2
    <3> QED  BY <3>1, <3>2
  <2>3. \A i : i \in Held' <=> \E r \in Procs : i \in syncer'[r].batch  BY DEF Held
  <2> QED  BY <2>1, <2>2, <2>3
<1>7. Placed'  BY <1>6 DEF Placed
<1> QED  BY <1>3, <1>5, <1>7 DEF ItemInv

\* A process goes on with the same items.
LEMMA QuietTurn ==
    ASSUME ItemInv, ~Abandoned, LockInv', NEW s \in Procs, NEW x,
           syncer' = [syncer EXCEPT ![s] = x], UNCHANGED <<cache, writer, server, db>>,
           Numbers', log'.received = log.received, log'.stale = log.stale,
           x.pc # "off", x.batch = syncer[s].batch,
           Sound(x, history_items, busy, log.stale, db.meta)
    PROVE  ItemInv'
<1>1. UNCHANGED <<history_items, busy, history_queue>>  BY DEF cache
<1>2. Types'  BY <1>1 DEF ItemInv, Types
<1>3. Cached' = Cached  BY <1>1 DEF Cached
<1>4. MetaKept'
  <2>1. \A i \in Log : Last(history_items'[i]) = Last(history_items[i])  BY <1>1 DEF Last
  <2> QED  BY <1>3, <2>1 DEF ItemInv, MetaKept
<1>5. Sound(x, history_items', busy', log'.stale, db'.meta)  BY <1>1
<1>6. /\ history_queue \cap Held = {} /\ Cached = history_queue \cup Held /\ busy \subseteq Held
      /\ syncer[s].batch \subseteq Held
  BY HeldIn DEF ItemInv, Placed
<1>7. (Held \ syncer[s].batch) \cup x.batch = Held  BY <1>6
<1>8. \A i \in Held \ syncer[s].batch : history_items'[i] # <<>>
  BY <1>1, <1>6 DEF Cached
<1> QED  BY <1>1, <1>2, <1>3, <1>4, <1>5, <1>6, <1>7, <1>8, OneTurn

\* A process puts its items back: zbx_hc_push_items.
LEMMA PushTurn ==
    ASSUME NEW s \in Procs, NEW x, ItemInv, ~Abandoned, LockInv', Types',
           syncer[s].pc \in {"return", "push"}, Pushed(s),
           syncer' = [syncer EXCEPT ![s] = x], UNCHANGED <<server, db>>,
           log'.received = log.received, log'.stale = log.stale,
           x.pc \in {"pop", "timers", "done"}, x.batch = {}, x.ready = {}, x.trig = {}
    PROVE  ItemInv'
<1> DEFINE b == syncer[s].batch
           y == syncer[s].ready
<1>1. /\ Sound(syncer[s], history_items, busy, log.stale, db.meta)
      /\ b \subseteq Held /\ b \subseteq Cached
  BY HeldIn
<1>2. y \subseteq b /\ b \subseteq Items /\ b \ busy = y
      /\ \A i \in y \cap Log : i \in log.stale \/ db.meta[i] = Head(history_items[i]).meta
  <2>1. syncer[s].pc = "return" => y = {}  BY <1>1 DEF Sound
  <2> QED  BY <1>1, <2>1 DEF Sound
<1>3. history_items \in [Items -> Seq(Rec)]  BY DEF ItemInv, Types, Recs
<1>4. \A i \in Items : history_items'[i] = IF i \in y THEN Tail(history_items[i])
                                           ELSE history_items[i]
  BY <1>2 DEF Pushed
<1>5. /\ history_queue' = history_queue \cup {i \in b : history_items'[i] # <<>>}
      /\ busy' = busy \ b
  BY DEF Pushed
<1>6. /\ history_queue \cap Held = {} /\ Cached = history_queue \cup Held /\ busy \subseteq Held
  BY DEF ItemInv, Placed
<1>7. Sound(x, history_items', busy', log'.stale, db'.meta)
  BY DEF Sound
<1>8. \A i \in Held \ b : i \in Items /\ history_items'[i] = history_items[i] /\ history_items[i] # <<>>
                          /\ (i \in busy' <=> i \in busy)
  BY <1>2, <1>4, <1>5, <1>6 DEF Cached
<1>9. Cached' = (Cached \ b) \cup {i \in b : history_items'[i] # <<>>}
  BY <1>2, <1>4 DEF Cached
<1>10. MetaKept'
  <2> SUFFICES ASSUME NEW i \in Log
               PROVE  IF i \in Cached' THEN Last(history_items'[i]).meta = log.received[i]
                      ELSE i \notin log.stale => db.meta[i] = log.received[i]
    BY DEF MetaKept
  <2>1. i \in Items  BY HistoryCacheAssumption DEF HistoryCacheAssumption
  <2>2. IF i \in Cached THEN Last(history_items[i]).meta = log.received[i]
        ELSE i \notin log.stale => db.meta[i] = log.received[i]
    BY DEF ItemInv, MetaKept
  <2>3. CASE i \notin y
    <3>1. history_items'[i] = history_items[i] /\ (i \in Cached' <=> i \in Cached)
      BY <1>4, <2>1, <2>3 DEF Cached
    <3> QED  BY <2>2, <3>1
  <2>4. CASE i \in y
    <3> DEFINE q == history_items[i]
    <3>1. q \in Seq(Rec) /\ q # <<>> /\ history_items'[i] = Tail(q) /\ i \in Cached
      BY <1>1, <1>2, <1>3, <1>4, <2>1, <2>4 DEF Cached
    <3>2. Last(q).meta = log.received[i]  BY <2>2, <3>1
    <3>3. i \in log.stale \/ db.meta[i] = Head(q).meta  BY <1>2, <2>4
    <3>4. i \in Cached' <=> Tail(q) # <<>>  BY <2>1, <3>1 DEF Cached
    <3> HIDE DEF q
    <3>5. Len(q) \in Nat \ {0} /\ Len(Tail(q)) = Len(q) - 1 /\ Tail(q) \in Seq(Rec)
          /\ \A k \in 1 .. Len(Tail(q)) : Tail(q)[k] = q[k + 1]
      BY <3>1, EmptySeq, HeadTailProperties
    <3>6. Tail(q) # <<>> => Last(Tail(q)) = Last(q)
      <4> SUFFICES ASSUME Tail(q) # <<>> PROVE Last(Tail(q)) = Last(q)  OBVIOUS
      <4>1. Len(Tail(q)) \in Nat \ {0}  BY <3>5, EmptySeq
      <4>2. Len(Tail(q)) \in 1 .. Len(Tail(q)) /\ Len(Tail(q)) + 1 = Len(q)  BY <3>5, <4>1
      <4>3. Tail(q)[Len(Tail(q))] = q[Len(q)]  BY <3>5, <4>2
      <4> QED  BY <4>3 DEF Last
    <3>7. Tail(q) = <<>> => Last(q) = Head(q)
      <4> SUFFICES ASSUME Tail(q) = <<>> PROVE Last(q) = Head(q)  OBVIOUS
      <4>1. Len(q) - 1 = 0
        <5>1. Len(Tail(q)) = 0  BY EmptySeq
        <5> QED  BY <3>5, <5>1
      <4>2. Len(q) = 1
        <5>1. Len(q) \in Nat  BY <3>5
        <5> DEFINE l == Len(q)
        <5>2. l \in Nat /\ l - 1 = 0  BY <4>1, <5>1
        <5> HIDE DEF l
        <5>3. l = 1  BY <5>2
        <5> QED  BY <5>3 DEF l
      <4> QED  BY <3>1, <4>2 DEF Last
    <3> QED  BY <3>1, <3>2, <3>3, <3>4, <3>6, <3>7
  <2> QED  BY <2>3, <2>4
<1>11. /\ history_queue' \cap ((Held \ b) \cup x.batch) = {}
       /\ Cached' = history_queue' \cup ((Held \ b) \cup x.batch)
       /\ busy' \subseteq (Held \ b) \cup x.batch
  BY <1>1, <1>5, <1>6, <1>9
<1> QED  BY <1>7, <1>8, <1>10, <1>11, OneTurn

----------------------------------------------------------------------------
(* The actions. *)

\* Values are given up, a write succeeds or fails.
LEMMA GivenStale ==
    ASSUME Numbers, NEW g, NEW st, log' = [log EXCEPT !.given = g, !.stale = st]
    PROVE  Numbers' /\ log'.received = log.received /\ log'.merged = log.merged /\ log'.stale = st
<1>1. PICK X : log \in [received : [Items -> Nat], given : X, merged : Nat, stale : X,
                        fired : X, evaluated : X]
  BY DEF Numbers
<1>2. log' \in [received : [Items -> Nat], given : X \cup {g, st}, merged : Nat,
                stale : X \cup {g, st}, fired : X \cup {g, st}, evaluated : X \cup {g, st}]
  BY <1>1
<1> QED  BY <1>1, <1>2 DEF Numbers

LEMMA GivenOnly ==
    ASSUME Numbers, NEW g, log' = [log EXCEPT !.given = g]
    PROVE  /\ Numbers' /\ log'.received = log.received /\ log'.merged = log.merged
           /\ log'.stale = log.stale
<1>1. PICK X : log \in [received : [Items -> Nat], given : X, merged : Nat, stale : X,
                        fired : X, evaluated : X]
  BY DEF Numbers
<1>2. log' = [log EXCEPT !.given = g, !.stale = log.stale]  BY <1>1
<1> QED  BY <1>2, GivenStale

\* Timers are counted.
LEMMA TimersOnly ==
    ASSUME Numbers, NEW f, NEW e, log' = [log EXCEPT !.fired = f, !.evaluated = e]
    PROVE  /\ Numbers' /\ log'.received = log.received /\ log'.merged = log.merged
           /\ log'.stale = log.stale
<1>1. PICK X : log \in [received : [Items -> Nat], given : X, merged : Nat, stale : X,
                        fired : X, evaluated : X]
  BY DEF Numbers
<1>2. log' \in [received : [Items -> Nat], given : X \cup {f, e}, merged : Nat,
                stale : X \cup {f, e}, fired : X \cup {f, e}, evaluated : X \cup {f, e}]
  BY <1>1
<1> QED  BY <1>1, <1>2 DEF Numbers

LEMMA AddKeeps ==
    ASSUME ItemInv, ~Abandoned, LockInv', NEW w \in Writers, NEW records \in Seq(Entry),
           NEW total \in Nat, Add(w, records, total)
    PROVE  ItemInv'
<1> DEFINE c == AddItemValues(records)
<1>1. PICK X : log \in [received : [Items -> Nat], given : X, merged : Nat, stale : X,
                        fired : X, evaluated : X]
  BY DEF ItemInv, Types, Numbers
<1>2. c \in Caches /\ Grown(c, Len(records))
  <2>1. /\ history_items \in [Items -> Seq(Rec)] /\ history_queue \subseteq Items
        /\ Size(history_items) <= MemSize
    BY DEF ItemInv, Types, Recs
  <2>2. log.received \in [Items -> Nat] /\ log.merged \in Nat  BY <1>1
  <2>3. \A i \in Log : history_items[i] # <<>> => Last(history_items[i]).meta = log.received[i]
    <3>1. Log \subseteq Items  BY HistoryCacheAssumption DEF HistoryCacheAssumption
    <3> QED  BY <3>1 DEF ItemInv, MetaKept, Cached
  <2> QED  BY <2>1, <2>2, <2>3, AllAdded
<1>3. /\ history_items' = c.items /\ history_queue' = c.queue
      /\ log' = [log EXCEPT !.received = c.received, !.merged = c.merged]
      /\ UNCHANGED <<busy, syncer, server, db>>
  BY DEF Add
<1> HIDE DEF c
<1>4. /\ c.items \in Recs /\ c.queue \subseteq Items /\ c.rest \in Seq(Entry)
      /\ c.received \in [Items -> Nat] /\ c.merged \in Nat
  BY <1>2 DEF Caches, Recs
<1>5. Numbers' /\ log'.received = c.received /\ log'.stale = log.stale
  <2>1. log' \in [received : [Items -> Nat], given : X, merged : Nat, stale : X,
                  fired : X, evaluated : X]
    BY <1>1, <1>3, <1>4
  <2> QED  BY <1>1, <1>3, <2>1 DEF Numbers
<1>6. writer' \in [Writers -> [rest : Seq(Entry), total : Nat]]
  <2>1. writer \in [Writers -> [rest : Seq(Entry), total : Nat]]  BY DEF ItemInv, Types
  <2>2. NothingToAdd \in [rest : Seq(Entry), total : Nat]  BY EmptySeq DEF NothingToAdd
  <2>3. writer' = [writer EXCEPT ![w] = NothingToAdd]
        \/ writer' = [writer EXCEPT ![w] = [rest |-> c.rest, total |-> total]]
    BY DEF Add, c
  <2>4. [rest |-> c.rest, total |-> total] \in [rest : Seq(Entry), total : Nat]  BY <1>4
  <2> QED  BY <2>1, <2>2, <2>3, <2>4
<1>7. Types'
  <2>1. Size(history_items') <= MemSize  BY <1>2, <1>3 DEF Grown
  <2> QED  BY <1>3, <1>4, <1>5, <1>6, <2>1 DEF Types
<1>8. \A i \in Items : history_items[i] # <<>> =>
        history_items'[i] # <<>> /\ Head(history_items'[i]) = Head(history_items[i])
  BY <1>2, <1>3 DEF Grown
<1>9. history_queue' = history_queue \cup
        {i \in Items : history_items[i] = <<>> /\ history_items'[i] # <<>>}
  BY <1>2, <1>3 DEF Grown
<1>10. \A i \in Log : IF history_items'[i] = <<>> THEN log'.received[i] = log.received[i]
                      ELSE Last(history_items'[i]).meta = log'.received[i]
  BY <1>2, <1>3, <1>5 DEF Grown
<1> QED  BY <1>3, <1>5, <1>7, <1>8, <1>9, <1>10, ItemsMove

\* The middle of items is removed: the oldest and the newest record stay.
LEMMA MiddleCleared ==
    ASSUME NEW S, ClearItemMiddle(S), history_items \in Recs
    PROVE  /\ history_items' \in Recs
           /\ Size(history_items') <= Size(history_items)
           /\ \A i \in Items : history_items'[i] # <<>> <=> history_items[i] # <<>>
           /\ \A i \in Items : history_items[i] # <<>> =>
                 /\ Head(history_items'[i]) = Head(history_items[i])
                 /\ Last(history_items'[i]) = Last(history_items[i])
<1>1. \A q \in Seq(Rec) :
        /\ Cleared(q) \in Seq(Rec) /\ Len(Cleared(q)) <= Len(q)
        /\ Cleared(q) # <<>> <=> q # <<>>
        /\ q # <<>> => Head(Cleared(q)) = Head(q) /\ Last(Cleared(q)) = Last(q)
  <2> TAKE q \in Seq(Rec)
  <2>1. Len(q) \in Nat  BY LenProperties
  <2>2. CASE Len(q) > 2
    <3> DEFINE c == <<Head(q), Last(q)>>
    <3>1. Cleared(q) = c  BY <2>2 DEF Cleared
    <3>2. q # <<>>
      <4> SUFFICES ASSUME q = <<>> PROVE FALSE  OBVIOUS
      <4>1. Len(q) = 0  BY EmptySeq
      <4> QED  BY <2>2, <4>1
    <3>3. Head(q) \in Rec  BY <3>2, HeadTailProperties
    <3>4. Last(q) \in Rec
      <4>1. Len(q) \in 1 .. Len(q)  BY <2>1, <2>2
      <4> QED  BY <4>1, ElementOfSeq DEF Last
    <3>5. c \in Seq(Rec) /\ Len(c) = 2 /\ c # <<>> /\ Head(c) = Head(q) /\ c[2] = Last(q)
      BY <3>3, <3>4
    <3>6. Last(c) = Last(q)  BY <3>5 DEF Last
    <3> HIDE DEF c
    <3>7. Len(c) <= Len(q)  BY <2>1, <2>2, <3>5
    <3> QED  BY <3>1, <3>2, <3>5, <3>6, <3>7
  <2>3. CASE ~(Len(q) > 2)
    <3>1. Cleared(q) = q  BY <2>3 DEF Cleared
    <3> QED  BY <2>1, <3>1
  <2> QED  BY <2>2, <2>3
<1>2. history_items' = [i \in Items |-> IF i \in S THEN Cleared(history_items[i])
                                        ELSE history_items[i]]
  BY DEF ClearItemMiddle
<1>3. \A i \in Items : history_items[i] \in Seq(Rec)  BY DEF Recs
<1>4. \A i \in Items : history_items'[i] = Cleared(history_items[i])
                       \/ history_items'[i] = history_items[i]
  BY <1>2
<1>5. history_items' \in Recs
  BY <1>1, <1>2, <1>3 DEF Recs
<1>6. \A i \in Items : Len(history_items'[i]) <= Len(history_items[i])
  <2> TAKE i \in Items
  <2>1. CASE history_items'[i] = Cleared(history_items[i])  BY <1>1, <1>3, <2>1
  <2>2. CASE history_items'[i] = history_items[i]
    <3>1. Len(history_items[i]) \in Nat  BY <1>3, LenProperties
    <3> QED  BY <2>2, <3>1
  <2> QED  BY <1>4, <2>1, <2>2
<1>7. Size(history_items') <= Size(history_items)
  BY <1>5, <1>6, SizeShrink DEF Recs
<1>8. ASSUME NEW i \in Items
      PROVE  /\ history_items'[i] # <<>> <=> history_items[i] # <<>>
             /\ history_items[i] # <<>> =>
                  /\ Head(history_items'[i]) = Head(history_items[i])
                  /\ Last(history_items'[i]) = Last(history_items[i])
  <2>1. CASE history_items'[i] = Cleared(history_items[i])  BY <1>1, <1>3, <2>1
  <2>2. CASE history_items'[i] = history_items[i]  BY <2>2
  <2> QED  BY <1>4, <2>1, <2>2
<1> QED  BY <1>5, <1>7, <1>8

LEMMA ClearKeeps ==
    ASSUME ItemInv, LockInv', NEW i \in Items, HistoryCacheClear(i)
    PROVE  ItemInv'
<1>1. /\ ~Abandoned /\ ClearItemMiddle({i})
      /\ UNCHANGED <<busy, history_queue, writer, syncer, server, db>>
      /\ log' = [log EXCEPT !.given = GivenUp]
  BY DEF HistoryCacheClear, Abandoned
<1>2. Numbers' /\ log'.received = log.received /\ log'.stale = log.stale
  BY <1>1, GivenOnly DEF ItemInv, Types
<1>3. /\ history_items' \in Recs
      /\ Size(history_items') <= Size(history_items)
      /\ \A j \in Items : history_items'[j] # <<>> <=> history_items[j] # <<>>
      /\ \A j \in Items : history_items[j] # <<>> =>
            /\ Head(history_items'[j]) = Head(history_items[j])
            /\ Last(history_items'[j]) = Last(history_items[j])
  BY <1>1, MiddleCleared DEF ItemInv, Types
<1>4. Types'
  <2>1. Size(history_items) \in Nat /\ Size(history_items') \in Nat /\ MemSize \in Nat
    BY <1>3, SizeCells, HistoryCacheAssumption DEF Recs, HistoryCacheAssumption, ItemInv, Types
  <2>2. Size(history_items) <= MemSize  BY DEF ItemInv, Types
  <2>3. Size(history_items') <= MemSize  BY <1>3, <2>1, <2>2
  <2> QED  BY <1>1, <1>2, <1>3, <2>3 DEF ItemInv, Types
<1>5. history_queue' = history_queue \cup
        {j \in Items : history_items[j] = <<>> /\ history_items'[j] # <<>>}
  BY <1>1, <1>3
<1>6. \A j \in Log : IF history_items'[j] = <<>> THEN log'.received[j] = log.received[j]
                     ELSE Last(history_items'[j]).meta = log'.received[j]
  <2> TAKE j \in Log
  <2>1. j \in Items  BY HistoryCacheAssumption DEF HistoryCacheAssumption
  <2>2. CASE history_items'[j] = <<>>  BY <1>2, <2>2
  <2>3. CASE history_items'[j] # <<>>
    <3>1. j \in Cached /\ Last(history_items'[j]) = Last(history_items[j])
      BY <1>3, <2>1, <2>3 DEF Cached
    <3> QED  BY <1>2, <2>3, <3>1 DEF ItemInv, MetaKept
  <2> QED  BY <2>2, <2>3
<1> QED  BY <1>1, <1>2, <1>3, <1>4, <1>5, <1>6, ItemsMove

LEMMA PopKeeps ==
    ASSUME ItemInv, ~Abandoned, LockInv', NEW s \in Procs, PopItems(s)
    PROVE  ItemInv'
<1>1. PICK B : syncer \in [Procs -> States(B)]
  BY DEF ItemInv, LockInv, Shape
<1>2. PICK b \in SUBSET history_queue :
        /\ history_queue' = history_queue \ b
        /\ syncer' = [syncer EXCEPT ![s].pc = IF b = {} THEN "timers" ELSE "lock", ![s].batch = b]
  BY DEF PopItems
<1>3. syncer[s].pc = "pop"
      /\ UNCHANGED <<history_items, busy, history_num, locked, timers, writer, server, db, log>>
  BY DEF PopItems, At
<1> DEFINE x == [syncer[s] EXCEPT !.pc = IF b = {} THEN "timers" ELSE "lock", !.batch = b]
<1>4. syncer' = [syncer EXCEPT ![s] = x]  BY <1>1, <1>2
<1>5. /\ x.pc = (IF b = {} THEN "timers" ELSE "lock") /\ x.batch = b
      /\ x.ready = syncer[s].ready /\ x.trig = syncer[s].trig
  BY <1>1 DEF States
<1> HIDE DEF x
<1>6. /\ Sound(syncer[s], history_items, busy, log.stale, db.meta)
      /\ syncer[s].batch = {} /\ syncer[s].ready = {} /\ syncer[s].trig \subseteq Triggers
  BY <1>3, HeldIn DEF Sound
<1>7. /\ history_queue \cap Held = {} /\ Cached = history_queue \cup Held /\ busy \subseteq Held
  BY DEF ItemInv, Placed
<1>8. b \subseteq Cached /\ b \cap busy = {} /\ b \subseteq Items
  BY <1>7 DEF Cached
<1>9. \A i \in b : history_items[i] # <<>>  BY <1>8 DEF Cached
<1>10. Sound(x, history_items, busy, log.stale, db.meta)
  <2>1. x.ready = {} /\ x.trig \subseteq Triggers  BY <1>5, <1>6
  <2>2. CASE b = {}
    <3>1. x.pc = "timers" /\ x.batch = {}  BY <1>5, <2>2
    <3> QED  BY <2>1, <3>1 DEF Sound
  <2>3. CASE b # {}
    <3>1. x.pc = "lock" /\ x.batch = b  BY <1>5, <2>3
    <3> QED  BY <1>8, <1>9, <2>1, <2>3, <3>1 DEF Sound
  <2> QED  BY <2>2, <2>3
<1>11. Sound(x, history_items', busy', log'.stale, db'.meta)
  BY <1>3, <1>10
<1>12. Types'
  <2>1. Numbers'  BY <1>3 DEF ItemInv, Types, Numbers
  <2>2. history_queue' \subseteq Items  BY <1>2 DEF ItemInv, Types
  <2> QED  BY <1>3, <2>1, <2>2 DEF ItemInv, Types
<1>13. Cached' = Cached  BY <1>3 DEF Cached
<1>14. MetaKept'
  <2>1. \A i \in Log : Last(history_items'[i]) = Last(history_items[i])  BY <1>3 DEF Last
  <2> QED  BY <1>3, <1>13, <2>1 DEF ItemInv, MetaKept
<1>15. /\ history_queue' \cap ((Held \ syncer[s].batch) \cup x.batch) = {}
       /\ Cached' = history_queue' \cup ((Held \ syncer[s].batch) \cup x.batch)
       /\ busy' \subseteq (Held \ syncer[s].batch) \cup x.batch
  BY <1>2, <1>3, <1>5, <1>6, <1>7, <1>13
<1>16. \A i \in Held \ syncer[s].batch : history_items'[i] # <<>>
  BY <1>3, <1>7 DEF Cached
<1>17. x.pc # "off" /\ x.batch \subseteq syncer[s].batch \cup history_queue  BY <1>5
<1> QED  BY <1>3, <1>4, <1>11, <1>12, <1>14, <1>15, <1>16, <1>17, OneTurn

LEMMA LockKeeps ==
    ASSUME ItemInv, ~Abandoned, LockInv', NEW s \in Procs, LockTriggers(s)
    PROVE  ItemInv'
<1> DEFINE b == syncer[s].batch
<1>1. PICK B : syncer \in [Procs -> States(B)]
  BY DEF ItemInv, LockInv, Shape
<1>2. PICK ready \in SUBSET b :
        LET trig == UNION {TriggersOf(i) : i \in ready}
        IN  /\ busy' = busy \cup (b \ ready)
            /\ syncer' = [syncer EXCEPT ![s].pc = IF ready = {} THEN "return" ELSE "write",
                                        ![s].ready = ready, ![s].trig = trig]
  BY DEF LockTriggers, Lockable
<1>3. syncer[s].pc = "lock"
      /\ UNCHANGED <<history_items, history_queue, history_num, timers, writer, server, db, log>>
  BY DEF LockTriggers, At
<1> DEFINE trig == UNION {TriggersOf(i) : i \in ready}
           x == [syncer[s] EXCEPT !.pc = IF ready = {} THEN "return" ELSE "write",
                                  !.ready = ready, !.trig = trig]
<1>4. syncer' = [syncer EXCEPT ![s] = x]  BY <1>1, <1>2
<1>5. x.pc = (IF ready = {} THEN "return" ELSE "write") /\ x.batch = b /\ x.ready = ready
      /\ x.trig = trig
  BY <1>1 DEF States
<1> HIDE DEF x
<1>6. /\ Sound(syncer[s], history_items, busy, log.stale, db.meta)
      /\ b # {} /\ b \subseteq Items /\ b \cap busy = {} /\ \A i \in b : history_items[i] # <<>>
  <2>1. Sound(syncer[s], history_items, busy, log.stale, db.meta)  BY HeldIn
  <2> QED  BY <1>3, <2>1 DEF Sound
<1>7. /\ history_queue \cap Held = {} /\ Cached = history_queue \cup Held /\ busy \subseteq Held
      /\ b \subseteq Held
  BY HeldIn DEF ItemInv, Placed
<1>8. \A i \in ready : TriggersOf(i) = Trig(history_items, i)  BY DEF TriggersOf, Trig
<1>9. trig \subseteq Triggers
  <2>1. \A i \in ready : Uses[i] \subseteq Triggers
    BY <1>6, HistoryCacheAssumption DEF HistoryCacheAssumption
  <2> QED  BY <2>1 DEF TriggersOf
<1>10. \A i \in ready : Trig(history_items, i) \subseteq x.trig  BY <1>5, <1>8
<1> HIDE DEF trig
<1>11. b \cap busy' = b \ ready  BY <1>2, <1>6
<1>12. Sound(x, history_items, busy', log.stale, db.meta)
  BY <1>5, <1>6, <1>9, <1>10, <1>11 DEF Sound
<1>13. Sound(x, history_items', busy', log'.stale, db'.meta)
  BY <1>3, <1>12
<1>14. Types'
  <2>1. Numbers'  BY <1>3 DEF ItemInv, Types, Numbers
  <2> QED  BY <1>3, <2>1 DEF ItemInv, Types
<1>15. Cached' = Cached  BY <1>3 DEF Cached
<1>16. MetaKept'
  <2>1. \A i \in Log : Last(history_items'[i]) = Last(history_items[i])  BY <1>3 DEF Last
  <2> QED  BY <1>3, <1>15, <2>1 DEF ItemInv, MetaKept
<1>17. (Held \ b) \cup x.batch = Held  BY <1>5, <1>7
<1>18. \A i \in Held \ b : history_items'[i] # <<>> /\ (i \in busy' <=> i \in busy)
  BY <1>2, <1>3, <1>7 DEF Cached
<1>19. busy' \subseteq Held  BY <1>2, <1>7
<1>20. x.pc # "off" /\ x.batch \subseteq b \cup history_queue  BY <1>5
<1> QED  BY <1>3, <1>4, <1>7, <1>13, <1>14, <1>15, <1>16, <1>17, <1>18, <1>19, <1>20, OneTurn

LEMMA WriteKeeps ==
    ASSUME ItemInv, ~Abandoned, LockInv', NEW s \in Procs, NEW off, NEW written,
           WriteHistory(s, off, written)
    PROVE  ItemInv'
<1> DEFINE b == syncer[s].batch
           ready == syncer[s].ready
           applied == IF written THEN ready \ off ELSE {}
<1>1. PICK B : syncer \in [Procs -> States(B)]
  BY DEF ItemInv, LockInv, Shape
<1>2. /\ syncer[s].pc = "write" /\ ClearItemMiddle(off)
      /\ db'.meta = [i \in Items |-> IF i \in applied \cap Log THEN Oldest(i).meta ELSE db.meta[i]]
      /\ log' = [log EXCEPT !.given = GivenUp,
                            !.stale = (@ \ applied) \cup (Log \cap (ready \ applied))]
      /\ syncer' = [syncer EXCEPT ![s].pc = "timers", ![s].failed = ~written]
      /\ UNCHANGED <<busy, history_queue, processing_num, locked, timers, writer, server>>
  BY DEF WriteHistory, At
<1> DEFINE x == [syncer[s] EXCEPT !.pc = "timers", !.failed = ~written]
<1>3. syncer' = [syncer EXCEPT ![s] = x]  BY <1>1, <1>2
<1>4. x.pc = "timers" /\ x.batch = b /\ x.ready = ready /\ x.trig = syncer[s].trig
  BY <1>1 DEF States
<1> HIDE DEF x
<1>5. Numbers' /\ log'.received = log.received
      /\ log'.stale = (log.stale \ applied) \cup (Log \cap (ready \ applied))
  <2>1. log' = [log EXCEPT !.given = GivenUp,
                           !.stale = (log.stale \ applied) \cup (Log \cap (ready \ applied))]
    BY <1>2
  <2> HIDE DEF applied
  <2> QED  BY <2>1, GivenStale DEF ItemInv, Types
<1>6. /\ Sound(syncer[s], history_items, busy, log.stale, db.meta)
      /\ ready \subseteq b /\ b \subseteq Items /\ b \cap busy = b \ ready /\ ready # {}
      /\ syncer[s].trig \subseteq Triggers
      /\ \A i \in b : history_items[i] # <<>>
      /\ \A i \in ready : Trig(history_items, i) \subseteq syncer[s].trig
  <2>1. Sound(syncer[s], history_items, busy, log.stale, db.meta)  BY HeldIn
  <2> QED  BY <1>2, <2>1 DEF Sound
<1>7. /\ history_queue \cap Held = {} /\ Cached = history_queue \cup Held /\ busy \subseteq Held
      /\ b \subseteq Held
  BY HeldIn DEF ItemInv, Placed
<1>8. /\ history_items' \in Recs
      /\ Size(history_items') <= Size(history_items)
      /\ \A j \in Items : history_items'[j] # <<>> <=> history_items[j] # <<>>
      /\ \A j \in Items : history_items[j] # <<>> =>
            /\ Head(history_items'[j]) = Head(history_items[j])
            /\ Last(history_items'[j]) = Last(history_items[j])
  BY <1>2, MiddleCleared DEF ItemInv, Types
<1>9. \A i \in Items : db'.meta[i] = IF i \in applied \cap Log THEN Head(history_items[i]).meta
                                     ELSE db.meta[i]
  BY <1>2 DEF Oldest
<1>10. \A i \in ready : Trig(history_items', i) = Trig(history_items, i)
  BY <1>6, <1>8 DEF Trig
<1>11. \A i \in ready \cap Log : i \in log'.stale \/ db'.meta[i] = Head(history_items'[i]).meta
  <2> TAKE i \in ready \cap Log
  <2>1. CASE i \in applied  BY <1>6, <1>8, <1>9, <2>1
  <2>2. CASE i \notin applied  BY <1>5, <2>2
  <2> QED  BY <2>1, <2>2
<1>12. Sound(x, history_items', busy', log'.stale, db'.meta)
  <2>1. \A i \in b : history_items'[i] # <<>>  BY <1>6, <1>8
  <2>2. busy' = busy  BY <1>2
  <2> HIDE DEF b, ready, applied
  <2> QED  BY <1>4, <1>6, <1>10, <1>11, <2>1, <2>2 DEF Sound
<1>13. Types'
  <2>1. Size(history_items) \in Nat /\ Size(history_items') \in Nat /\ MemSize \in Nat
    BY <1>8, SizeCells, HistoryCacheAssumption DEF Recs, HistoryCacheAssumption, ItemInv, Types
  <2>2. Size(history_items) <= MemSize  BY DEF ItemInv, Types
  <2>3. Size(history_items') <= MemSize  BY <1>8, <2>1, <2>2
  <2> QED  BY <1>2, <1>5, <1>8, <2>3 DEF ItemInv, Types
<1>14. Cached' = Cached  BY <1>8 DEF Cached
<1>15. applied \subseteq ready  OBVIOUS
<1>16. MetaKept'
  <2> SUFFICES ASSUME NEW i \in Log
               PROVE  IF i \in Cached THEN Last(history_items'[i]).meta = log.received[i]
                      ELSE i \notin log'.stale => db'.meta[i] = log.received[i]
    BY <1>5, <1>14 DEF MetaKept
  <2>1. i \in Items  BY HistoryCacheAssumption DEF HistoryCacheAssumption
  <2>2. IF i \in Cached THEN Last(history_items[i]).meta = log.received[i]
        ELSE i \notin log.stale => db.meta[i] = log.received[i]
    BY DEF ItemInv, MetaKept
  <2>3. CASE i \in Cached
    <3>1. Last(history_items'[i]) = Last(history_items[i])  BY <1>8, <2>1, <2>3 DEF Cached
    <3> QED  BY <2>2, <2>3, <3>1
  <2>4. CASE i \notin Cached
    <3>1. i \notin ready /\ i \notin applied  BY <1>6, <1>7, <1>15, <2>4
    <3>2. db'.meta[i] = db.meta[i] /\ (i \in log'.stale <=> i \in log.stale)
      BY <1>5, <1>9, <2>1, <3>1
    <3> QED  BY <2>2, <2>4, <3>2
  <2> QED  BY <2>3, <2>4
<1>17. (Held \ b) \cup x.batch = Held  BY <1>4, <1>7
<1>18. \A i \in Held \ b :
         /\ history_items'[i] # <<>> /\ Head(history_items'[i]) = Head(history_items[i])
         /\ i \in log'.stale <=> i \in log.stale
         /\ db'.meta[i] = db.meta[i]
  <2> TAKE i \in Held \ b
  <2>1. i \in Items /\ history_items[i] # <<>>  BY <1>7 DEF Cached
  <2>2. i \notin ready /\ i \notin applied  BY <1>6, <1>15
  <2> QED  BY <1>5, <1>8, <1>9, <2>1, <2>2
<1>19. x.pc # "off" /\ x.batch \subseteq b \cup history_queue  BY <1>4
<1> HIDE DEF applied
<1> QED
  BY <1>2, <1>3, <1>7, <1>12, <1>13, <1>14, <1>16, <1>17, <1>18, <1>19, OneTurn, ZenonT(60)

\* The state of a process that has nothing.
LEMMA EmptySound ==
    ASSUME NEW x, NEW items, NEW bsy, NEW stale, NEW meta, x.batch = {}, x.ready = {}, x.trig = {},
           x.pc \in {"off", "pop", "timers", "done"}
    PROVE  Sound(x, items, bsy, stale, meta)
BY DEF Sound

LEMMA NextPassEmpty ==
    ASSUME NEW s \in Procs, NEW more
    PROVE  /\ NextPass(s, more).batch = {} /\ NextPass(s, more).ready = {}
           /\ NextPass(s, more).trig = {} /\ NextPass(s, more).pc \in {"pop", "done"}
BY DEF NextPass, Idle

LEMMA GetTimersKeeps ==
    ASSUME ItemInv, ~Abandoned, LockInv', NEW s \in Procs, GetTimers(s)
    PROVE  ItemInv'
<1> DEFINE due == IF server = "running" /\ ~syncer[s].failed THEN Due ELSE {}
           mine == due \ locked
           x == [syncer[s] EXCEPT !.pc = "evaluate", !.held = due, !.mine = mine]
<1>1. PICK B : syncer \in [Procs -> States(B)]
  BY DEF ItemInv, LockInv, Shape
<1>2. syncer[s].pc = "timers" /\ UNCHANGED <<cache, writer, server, db, log>>
  BY DEF GetTimers, At
<1>3. Sound(syncer[s], history_items, busy, log.stale, db.meta)  BY HeldIn
<1>4. Numbers' /\ log'.received = log.received /\ log'.stale = log.stale
  BY <1>2 DEF ItemInv, Types, Numbers
<1>5. CASE syncer[s].ready # {} \/ due # {}
  <2>1. syncer' = [syncer EXCEPT ![s].pc = "evaluate", ![s].held = due, ![s].mine = mine]
    BY <1>5 DEF GetTimers
  <2>2. syncer' = [syncer EXCEPT ![s] = x]  BY <1>1, <2>1
  <2>3. x.pc = "evaluate" /\ x.batch = syncer[s].batch /\ x.ready = syncer[s].ready
        /\ x.trig = syncer[s].trig
    BY <1>1 DEF States
  <2> HIDE DEF x
  <2>4. Sound(x, history_items, busy, log.stale, db.meta)
    BY <1>2, <1>3, <2>3 DEF Sound
  <2>5. x.pc # "off"  BY <2>3
  <2> QED  BY <1>2, <1>4, <2>2, <2>3, <2>4, <2>5, QuietTurn
<1>6. CASE ~(syncer[s].ready # {} \/ due # {})
  <2> DEFINE y == NextPass(s, FALSE)
  <2>1. syncer' = [syncer EXCEPT ![s] = y]  BY <1>6 DEF GetTimers, EndPass
  <2>2. y.batch = {} /\ y.ready = {} /\ y.trig = {} /\ y.pc \in {"pop", "done"}
    BY NextPassEmpty
  <2> HIDE DEF y
  <2>3. syncer[s].batch = {}  BY <1>2, <1>3, <1>6 DEF Sound
  <2>4. Sound(y, history_items, busy, log.stale, db.meta)  BY <2>2, EmptySound
  <2>5. y.pc # "off" /\ y.batch = syncer[s].batch  BY <2>2, <2>3
  <2> QED  BY <1>2, <1>4, <2>1, <2>4, <2>5, QuietTurn
<1> QED  BY <1>5, <1>6

LEMMA EvaluateKeeps ==
    ASSUME ItemInv, ~Abandoned, LockInv', NEW s \in Procs, Evaluate(s)
    PROVE  ItemInv'
<1> DEFINE x == [syncer[s] EXCEPT !.pc = "push", !.trig = {}, !.held = {}, !.mine = {},
                                  !.failed = FALSE]
<1>1. PICK B : syncer \in [Procs -> States(B)]
  BY DEF ItemInv, LockInv, Shape
<1>2. syncer[s].pc = "evaluate" /\ UNCHANGED <<cache, writer, server, db>>
  BY DEF Evaluate, At
<1>3. Sound(syncer[s], history_items, busy, log.stale, db.meta)  BY HeldIn
<1>4. Numbers' /\ log'.received = log.received /\ log'.stale = log.stale
  <2>1. PICK X : log \in [received : [Items -> Nat], given : X, merged : Nat, stale : X,
                          fired : X, evaluated : X]
    BY DEF ItemInv, Types, Numbers
  <2>2. PICK e : log' = [log EXCEPT !.fired = log.fired, !.evaluated = e]
    <3>1. PICK e : log' = [log EXCEPT !.evaluated = e]  BY DEF Evaluate
    <3> QED  BY <2>1, <3>1
  <2> QED  BY <2>2, TimersOnly DEF ItemInv, Types
<1>5. CASE syncer[s].ready # {}
  <2>1. syncer' = [syncer EXCEPT ![s].pc = "push", ![s].trig = {}, ![s].held = {},
                                 ![s].mine = {}, ![s].failed = FALSE]
    BY <1>5 DEF Evaluate
  <2>2. syncer' = [syncer EXCEPT ![s] = x]  BY <1>1, <2>1
  <2>3. x.pc = "push" /\ x.batch = syncer[s].batch /\ x.ready = syncer[s].ready /\ x.trig = {}
    BY <1>1 DEF States
  <2> HIDE DEF x
  <2>4. Sound(x, history_items, busy, log.stale, db.meta)
    BY <1>2, <1>3, <1>5, <2>3 DEF Sound
  <2>5. x.pc # "off"  BY <2>3
  <2> QED  BY <1>2, <1>4, <2>2, <2>3, <2>4, <2>5, QuietTurn
<1>6. CASE syncer[s].ready = {}
  <2> DEFINE y == NextPass(s, FALSE)
  <2>1. syncer' = [syncer EXCEPT ![s] = y]  BY <1>6 DEF Evaluate, EndPass
  <2>2. y.batch = {} /\ y.ready = {} /\ y.trig = {} /\ y.pc \in {"pop", "done"}
    BY NextPassEmpty
  <2> HIDE DEF y
  <2>3. syncer[s].batch = {}  BY <1>2, <1>3, <1>6 DEF Sound
  <2>4. Sound(y, history_items, busy, log.stale, db.meta)  BY <2>2, EmptySound
  <2>5. y.pc # "off" /\ y.batch = syncer[s].batch  BY <2>2, <2>3
  <2> QED  BY <1>2, <1>4, <2>1, <2>4, <2>5, QuietTurn
<1> QED  BY <1>5, <1>6

\* What is put back loses the oldest record of each ready item.
LEMMA PushedTypes ==
    ASSUME ItemInv, ~Abandoned, NEW s \in Procs, syncer[s].pc \in {"return", "push"}, Pushed(s),
           writer' = writer
    PROVE  /\ Types' /\ log'.received = log.received /\ log'.merged = log.merged
           /\ log'.stale = log.stale
           /\ Size(history_items) = Size(history_items') + Cardinality(syncer[s].ready)
<1> DEFINE b == syncer[s].batch
           y == syncer[s].ready
<1>1. /\ Sound(syncer[s], history_items, busy, log.stale, db.meta)
      /\ y \subseteq b /\ b \subseteq Items /\ b \ busy = y
      /\ \A i \in y : history_items[i] # <<>>
  <2>1. Sound(syncer[s], history_items, busy, log.stale, db.meta)  BY HeldIn
  <2>2. syncer[s].pc = "return" => y = {}  BY <2>1 DEF Sound
  <2> QED  BY <2>1, <2>2 DEF Sound
<1>2. history_items \in [Items -> Seq(Rec)]  BY DEF ItemInv, Types, Recs
<1>3. history_items' = [i \in Items |-> IF i \in y THEN Tail(history_items[i])
                                        ELSE history_items[i]]
  BY <1>1 DEF Pushed
<1>4. \A i \in y : Tail(history_items[i]) \in Seq(Rec)
                   /\ Len(Tail(history_items[i])) = Len(history_items[i]) - 1
  <2> TAKE i \in y
  <2>1. history_items[i] \in Seq(Rec) /\ history_items[i] # <<>>  BY <1>1, <1>2
  <2> QED  BY <2>1, HeadTailProperties
<1>5. history_items' \in [Items -> Seq(Rec)]  BY <1>2, <1>3, <1>4
<1>6. y \subseteq Items /\ \A i \in y : Len(history_items'[i]) = Len(history_items[i]) - 1
  BY <1>1, <1>3, <1>4
<1>7. \A i \in Items \ y : history_items'[i] = history_items[i]  BY <1>3
<1>8. Size(history_items) = Size(history_items') + Cardinality(y)
  BY <1>2, <1>5, <1>6, <1>7, SizeCut
<1>9. Size(history_items') <= MemSize
  <2>1. IsFiniteSet(Items) /\ MemSize \in Nat
    BY HistoryCacheAssumption DEF HistoryCacheAssumption
  <2>2. IsFiniteSet(y)  BY <1>6, <2>1, FS_Subset
  <2>3. Cardinality(y) \in Nat  BY <2>2, FS_CardinalityType
  <2>4. Size(history_items) \in Nat /\ Size(history_items') \in Nat  BY <1>2, <1>5, SizeCells
  <2>5. Size(history_items) <= MemSize  BY DEF ItemInv, Types
  <2> HIDE DEF y
  <2> QED  BY <1>8, <2>1, <2>3, <2>4, <2>5
<1>10. log' = [log EXCEPT !.given = GivenUp]  BY DEF Pushed
<1>11. /\ Numbers' /\ log'.received = log.received /\ log'.merged = log.merged
       /\ log'.stale = log.stale
  BY <1>10, GivenOnly DEF ItemInv, Types
<1>12. history_queue' \subseteq Items
  BY <1>1 DEF Pushed, ItemInv, Types
<1>13. Types'  BY <1>5, <1>9, <1>11, <1>12 DEF ItemInv, Types, Recs
<1> QED  BY <1>8, <1>11, <1>13

LEMMA ReturnKeeps ==
    ASSUME ItemInv, ~Abandoned, LockInv', NEW s \in Procs, ReturnItems(s)
    PROVE  ItemInv'
<1> DEFINE x == [syncer[s] EXCEPT !.pc = "timers", !.batch = {}]
<1>1. PICK B : syncer \in [Procs -> States(B)]
  BY DEF ItemInv, LockInv, Shape
<1>2. /\ syncer[s].pc = "return" /\ Pushed(s)
      /\ syncer' = [syncer EXCEPT ![s].pc = "timers", ![s].batch = {}]
      /\ UNCHANGED <<writer, server, db>>
  BY DEF ReturnItems, At
<1>3. syncer' = [syncer EXCEPT ![s] = x]  BY <1>1, <1>2
<1>4. syncer[s].ready = {} /\ syncer[s].trig = {}
  <2>1. Sound(syncer[s], history_items, busy, log.stale, db.meta)  BY HeldIn
  <2>2. Own(syncer[s])  BY DEF ItemInv, LockInv
  <2> QED  BY <1>2, <2>1, <2>2 DEF Sound, Own
<1>5. x.pc = "timers" /\ x.batch = {} /\ x.ready = {} /\ x.trig = {}
  BY <1>1, <1>4 DEF States
<1> HIDE DEF x
<1>6. Types' /\ log'.received = log.received /\ log'.stale = log.stale
  BY <1>2, PushedTypes
<1>7. syncer[s].pc \in {"return", "push"} /\ x.pc \in {"pop", "timers", "done"}
      /\ UNCHANGED <<server, db>> /\ Pushed(s)
  BY <1>2, <1>5
<1> QED  BY ONLY ItemInv, ~Abandoned, LockInv', s \in Procs, <1>3, <1>5, <1>6, <1>7, PushTurn

LEMMA PushKeeps ==
    ASSUME ItemInv, ~Abandoned, LockInv', NEW s \in Procs, PushItems(s)
    PROVE  ItemInv'
<1> DEFINE more == /\ history_queue' # {}
                   /\ 10 * Cardinality(syncer[s].batch) <= 100 * Cardinality(syncer[s].ready)
           x == NextPass(s, more)
<1>1. /\ syncer[s].pc = "push" /\ Pushed(s) /\ syncer' = [syncer EXCEPT ![s] = x]
      /\ UNCHANGED <<writer, server, db>>
  BY DEF PushItems, EndPass, At
<1>2. x.batch = {} /\ x.ready = {} /\ x.trig = {} /\ x.pc \in {"pop", "done"}
  BY NextPassEmpty
<1> HIDE DEF x
<1>3. Types' /\ log'.received = log.received /\ log'.stale = log.stale
  BY <1>1, PushedTypes
<1>4. syncer[s].pc \in {"return", "push"} /\ x.pc \in {"pop", "timers", "done"}
      /\ UNCHANGED <<server, db>>
  BY <1>1, <1>2
<1> QED  BY ONLY ItemInv, ~Abandoned, LockInv', s \in Procs, <1>1, <1>2, <1>3, <1>4, PushTurn

\* The processes are killed: nobody has anything.
LEMMA KillKeeps ==
    ASSUME ItemInv, LockInv', Kill
    PROVE  ItemInv'
<1>1. /\ syncer[Main].pc = "off" /\ server' = "killed"
      /\ writer' = [w \in Writers |-> NothingToAdd]
      /\ syncer' = [s \in Procs |-> IF s = Main THEN syncer[s] ELSE [Idle EXCEPT !.pc = "done"]]
      /\ UNCHANGED <<history_items, busy, history_queue, history_num, processing_num, db, log>>
  BY DEF Kill, At, cache
<1>2. Main \in Procs  BY DEF Procs
<1>3. Abandoned'
  <2>1. syncer'[Main].pc = "off"  BY <1>1, <1>2
  <2> QED  BY <1>1, <2>1 DEF Abandoned, At
<1>4. \A s \in Procs : syncer'[s].batch = {}
  <2> TAKE s \in Procs
  <2>1. CASE s = Main
    <3>1. Sound(syncer[Main], history_items, busy, log.stale, db.meta)  BY <1>2, HeldIn
    <3>2. syncer[Main].batch = {}  BY <1>1, <3>1 DEF Sound
    <3> QED  BY <1>1, <2>1, <3>2
  <2>2. CASE s # Main
    <3>1. syncer'[s] = [Idle EXCEPT !.pc = "done"]  BY <1>1, <2>2
    <3> QED  BY <3>1 DEF Idle
  <2> QED  BY <2>1, <2>2
<1>5. \A s \in Procs : Sound(syncer'[s], history_items', busy', log'.stale, db'.meta)
  <2> TAKE s \in Procs
  <2>1. CASE s = Main
    <3>1. Sound(syncer[Main], history_items, busy, log.stale, db.meta)  BY <1>2, HeldIn
    <3>2. syncer'[s] = syncer[Main]  BY <1>1, <2>1
    <3> QED  BY <1>1, <3>1, <3>2
  <2>2. CASE s # Main
    <3> DEFINE x == [Idle EXCEPT !.pc = "done"]
    <3>1. syncer'[s] = x  BY <1>1, <2>2
    <3>2. x.batch = {} /\ x.ready = {} /\ x.trig = {} /\ x.pc = "done"  BY DEF Idle
    <3> HIDE DEF x
    <3> QED  BY <3>1, <3>2, EmptySound
  <2> QED  BY <2>1, <2>2
<1>6. Apart'  BY <1>4 DEF Apart
<1>7. Placed'  BY <1>3 DEF Placed
<1>8. Types'
  <2>1. NothingToAdd \in [rest : Seq(Entry), total : Nat]  BY EmptySeq DEF NothingToAdd
  <2>2. writer' \in [Writers -> [rest : Seq(Entry), total : Nat]]  BY <1>1, <2>1
  <2>3. Numbers'  BY <1>1 DEF ItemInv, Types, Numbers
  <2> QED  BY <1>1, <2>2, <2>3 DEF ItemInv, Types
<1>9. MetaKept'
  <2>1. Cached' = Cached  BY <1>1 DEF Cached
  <2>2. \A i \in Log : Last(history_items'[i]) = Last(history_items[i])  BY <1>1 DEF Last
  <2> QED  BY <1>1, <2>1, <2>2 DEF ItemInv, MetaKept
<1> QED  BY <1>5, <1>6, <1>7, <1>8, <1>9 DEF ItemInv

\* The main process starts over with every item that has records.
LEMMA FullSyncKeeps ==
    ASSUME ItemInv, LockInv', FullSync
    PROVE  ItemInv'
<1> DEFINE x == [syncer[Main] EXCEPT !.pc = IF Cached = {} THEN "done" ELSE "pop"]
<1>1. PICK B : syncer \in [Procs -> States(B)]
  BY DEF ItemInv, LockInv, Shape
<1>2. /\ syncer[Main].pc = "off" /\ \A s \in Syncers : syncer[s].pc = "done"
      /\ busy' = {} /\ history_queue' = Cached
      /\ syncer' = [syncer EXCEPT ![Main].pc = IF Cached = {} THEN "done" ELSE "pop"]
      /\ UNCHANGED <<history_items, writer, server, db, log>>
  BY DEF FullSync, At
<1>3. Main \in Procs /\ Procs = Syncers \cup {Main}  BY DEF Procs
<1>4. /\ syncer'[Main] = x /\ \A s \in Procs \ {Main} : syncer'[s] = syncer[s]
  BY <1>1, <1>2, <1>3
<1>5. /\ x.pc \in {"pop", "done"} /\ x.batch = syncer[Main].batch
      /\ x.ready = syncer[Main].ready /\ x.trig = syncer[Main].trig
  BY <1>1, <1>3 DEF States
<1> HIDE DEF x
<1>6. \A s \in Procs : /\ syncer[s].pc \in {"off", "done"}
                       /\ syncer[s].batch = {} /\ syncer[s].ready = {} /\ syncer[s].trig = {}
  <2> TAKE s \in Procs
  <2>1. syncer[s].pc \in {"off", "done"}  BY <1>2, <1>3
  <2>2. Sound(syncer[s], history_items, busy, log.stale, db.meta) /\ Own(syncer[s])
    BY HeldIn DEF ItemInv, LockInv
  <2> QED  BY <2>1, <2>2 DEF Sound, Own
<1>7. \A s \in Procs :
        /\ syncer'[s].batch = {} /\ syncer'[s].ready = {} /\ syncer'[s].trig = {}
        /\ syncer'[s].pc \in {"off", "pop", "timers", "done"}
  BY <1>3, <1>4, <1>5, <1>6
<1>8. \A s \in Procs : Sound(syncer'[s], history_items', busy', log'.stale, db'.meta)
  BY <1>7, EmptySound
<1>9. Apart'  BY <1>7 DEF Apart
<1>10. Cached' = Cached  BY <1>2 DEF Cached
<1>11. Placed'
  <2>1. Held' = {}  BY <1>7 DEF Held
  <2> QED  BY <1>2, <1>10, <2>1 DEF Placed
<1>12. Types'
  <2>1. Numbers'  BY <1>2 DEF ItemInv, Types, Numbers
  <2>2. history_queue' \subseteq Items  BY <1>2 DEF Cached
  <2> QED  BY <1>2, <2>1, <2>2 DEF ItemInv, Types
<1>13. MetaKept'
  <2>1. \A i \in Log : Last(history_items'[i]) = Last(history_items[i])  BY <1>2 DEF Last
  <2> QED  BY <1>2, <1>10, <2>1 DEF ItemInv, MetaKept
<1> QED  BY <1>8, <1>9, <1>11, <1>12, <1>13 DEF ItemInv

\* Steps that touch nothing of this.
LEMMA StutterKeeps ==
    ASSUME ItemInv, LockInv', UNCHANGED <<cache, writer, syncer, db>>,
           Numbers', log'.received = log.received, log'.stale = log.stale,
           Abandoned => Abandoned', Abandoned' => Abandoned
    PROVE  ItemInv'
<1>1. UNCHANGED <<history_items, busy, history_queue>>  BY DEF cache
<1>2. Types'  BY <1>1 DEF ItemInv, Types
<1>3. \A s \in Procs : Sound(syncer'[s], history_items', busy', log'.stale, db'.meta)
  BY <1>1 DEF ItemInv
<1>4. Cached' = Cached /\ Held' = Held  BY <1>1 DEF Cached, Held
<1>5. Apart' /\ Placed'  BY <1>1, <1>4 DEF ItemInv, Apart, Placed
<1>6. MetaKept'
  <2>1. \A i \in Log : Last(history_items'[i]) = Last(history_items[i])  BY <1>1 DEF Last
  <2> QED  BY <1>4, <2>1 DEF ItemInv, MetaKept
<1> QED  BY <1>2, <1>3, <1>5, <1>6 DEF ItemInv

LEMMA ItemInit == Init => ItemInv
<1> SUFFICES ASSUME Init PROVE ItemInv
  OBVIOUS
<1>1. LockInv  BY LockInit
<1>2. history_items = [i \in Items |-> <<>>] /\ history_queue = {} /\ busy = {}
      /\ writer = [w \in Writers |-> NothingToAdd]
  BY DEF Init
<1>3. \A s \in Procs : /\ syncer[s].batch = {} /\ syncer[s].ready = {} /\ syncer[s].trig = {}
                       /\ syncer[s].pc \in {"off", "pop"}
  BY DEF Init, Idle
<1>4. \A s \in Procs : Sound(syncer[s], history_items, busy, log.stale, db.meta)
  BY <1>3, EmptySound
<1>5. Cached = {} /\ Held = {}  BY <1>2, <1>3 DEF Cached, Held
<1>6. Apart /\ Placed  BY <1>2, <1>3, <1>5 DEF Apart, Placed
<1>7. Numbers /\ log.received = [i \in Items |-> 0] /\ db.meta = [i \in Items |-> 0]
  <2> DEFINE f == [t \in Timed |-> 0]
             g == [i \in Items |-> {}]
             X == {f, g, {}}
  <2>1. log \in [received : [Items -> Nat], given : X, merged : Nat, stale : X,
                 fired : X, evaluated : X]
    BY DEF Init
  <2> HIDE DEF X
  <2> QED  BY <2>1 DEF Init, Numbers
<1>8. MetaKept
  <2>1. Log \subseteq Items  BY HistoryCacheAssumption DEF HistoryCacheAssumption
  <2> QED  BY <1>5, <1>7, <2>1 DEF MetaKept
<1>9. Types
  <2>1. history_items \in Recs  BY <1>2, EmptySeq DEF Recs
  <2>2. Size(history_items) = 0
    <3>1. \A i \in Items : {i} \X DOMAIN history_items[i] = {}
      <4> TAKE i \in Items
      <4>1. DOMAIN history_items[i] = {}  BY <1>2
      <4> QED  BY <4>1
    <3>2. UNION {{i} \X DOMAIN history_items[i] : i \in Items} = {}  BY <3>1
    <3> QED  BY <3>2, FS_EmptySet DEF Size
  <2>3. MemSize \in Nat  BY HistoryCacheAssumption DEF HistoryCacheAssumption
  <2>4. NothingToAdd \in [rest : Seq(Entry), total : Nat]  BY EmptySeq DEF NothingToAdd
  <2> QED  BY <1>2, <1>7, <2>1, <2>2, <2>3, <2>4 DEF Types
<1> QED  BY <1>1, <1>4, <1>6, <1>8, <1>9 DEF ItemInv

\* What a writer adds at first.
LEMMA BatchesTyped ==
    ASSUME NEW records \in Batches
    PROVE  records \in Seq(Entry) /\ Len(records) \in 1 .. MaxFlush
<1>1. PICK n \in 1 .. MaxFlush : records \in [1 .. n -> Record]  BY DEF Batches
<1>2. Record \subseteq Entry  BY DEF Record, Entry
<1>3. MaxFlush \in Nat  BY HistoryCacheAssumption DEF HistoryCacheAssumption
<1>4. records \in [1 .. n -> Entry] /\ n \in Nat  BY <1>1, <1>2, <1>3
<1> QED  BY <1>1, <1>4

LEMMA ItemNext == ItemInv /\ [Next]_vars => ItemInv'
<1> SUFFICES ASSUME ItemInv, [Next]_vars PROVE ItemInv'
  OBVIOUS
<1>1. LockInv'  BY LockNext DEF ItemInv
<1>2. ASSUME NEW w \in Writers, RetryAdd(w) PROVE ItemInv'
  <2>1. writer[w].rest \in Seq(Entry) /\ writer[w].total \in Nat  BY DEF ItemInv, Types
  <2>2. ~Abandoned /\ Add(w, writer[w].rest, writer[w].total)
    BY <1>2 DEF RetryAdd, Abandoned
  <2> QED  BY <1>1, <2>1, <2>2, AddKeeps
<1>3. ASSUME NEW w \in Writers, NEW records \in Batches, FlushHistory(w, records) PROVE ItemInv'
  <2>1. records \in Seq(Entry) /\ Len(records) \in Nat  BY BatchesTyped, LenProperties
  <2>2. ~Abandoned /\ Add(w, records, Len(records))
    BY <1>3 DEF FlushHistory, Abandoned
  <2> QED  BY <1>1, <2>1, <2>2, AddKeeps
<1>4. ASSUME NEW t \in Timed, TimerDue(t) PROVE ItemInv'
  <2>1. PICK X : log \in [received : [Items -> Nat], given : X, merged : Nat, stale : X,
                          fired : X, evaluated : X]
    BY DEF ItemInv, Types, Numbers
  <2>2. PICK f : log' = [log EXCEPT !.fired = f]  BY <1>4 DEF TimerDue
  <2>3. log' = [log EXCEPT !.fired = f, !.evaluated = log.evaluated]  BY <2>1, <2>2
  <2>4. Numbers' /\ log'.received = log.received /\ log'.stale = log.stale
    BY <2>3, TimersOnly DEF ItemInv, Types
  <2> QED  BY <1>1, <1>4, <2>4, StutterKeeps DEF TimerDue, Abandoned, At
<1>5. ASSUME NEW s \in Procs, Pass(s) PROVE ItemInv'
  <2>1. PICK B : syncer \in [Procs -> States(B)]
    BY DEF ItemInv, LockInv, Shape
  <2>2. syncer[s].pc \in {"pop", "lock", "return", "write", "timers", "evaluate", "push"}
    BY <1>5
    DEF Pass, PopItems, LockTriggers, ReturnItems, WriteHistory, GetTimers, Evaluate, PushItems, At
  <2>3. ~Abandoned
    BY <2>2 DEF ItemInv, LockInv, Abandoned, At, Procs
  <2>4. CASE PopItems(s)  BY <1>1, <2>3, <2>4, PopKeeps
  <2>5. CASE LockTriggers(s)  BY <1>1, <2>3, <2>5, LockKeeps
  <2>6. CASE ReturnItems(s)  BY <1>1, <2>3, <2>6, ReturnKeeps
  <2>7. CASE \E off \in SUBSET Removable, written \in BOOLEAN : WriteHistory(s, off, written)
    BY <1>1, <2>3, <2>7, WriteKeeps
  <2>8. CASE GetTimers(s)  BY <1>1, <2>3, <2>8, GetTimersKeeps
  <2>9. CASE Evaluate(s)  BY <1>1, <2>3, <2>9, EvaluateKeeps
  <2>10. CASE PushItems(s)  BY <1>1, <2>3, <2>10, PushKeeps
  <2> QED  BY <1>5, <2>4, <2>5, <2>6, <2>7, <2>8, <2>9, <2>10 DEF Pass
<1>6. CASE Stop
  <2>1. ~Abandoned /\ ~Abandoned'  BY <1>6 DEF Stop, Abandoned
  <2>2. Numbers' /\ log'.received = log.received /\ log'.stale = log.stale
    BY <1>6 DEF Stop, ItemInv, Types, Numbers
  <2> QED  BY <1>1, <1>6, <2>1, <2>2, StutterKeeps DEF Stop
<1>7. CASE UNCHANGED vars
  <2>1. Numbers' /\ log'.received = log.received /\ log'.stale = log.stale
    BY <1>7 DEF vars, ItemInv, Types, Numbers
  <2>2. Abandoned' <=> Abandoned  BY <1>7 DEF vars, Abandoned, At
  <2> QED  BY <1>1, <1>7, <2>1, <2>2, StutterKeeps DEF vars
<1>8. ASSUME NEW w \in Writers, SleepOn(w) PROVE UNCHANGED vars
  BY <1>8 DEF SleepOn
<1>9. Ended => UNCHANGED vars  BY DEF Ended
<1>10. ASSUME NEW i \in Items, HistoryCacheClear(i) PROVE ItemInv'
  BY <1>1, <1>10, ClearKeeps
<1>11. CASE Kill  BY <1>1, <1>11, KillKeeps
<1>12. CASE FullSync  BY <1>1, <1>12, FullSyncKeeps
<1> QED
  BY <1>2, <1>3, <1>4, <1>5, <1>6, <1>7, <1>8, <1>9, <1>10, <1>11, <1>12 DEF Next

LEMMA ItemAlways == Spec => []ItemInv
<1> QED  BY ItemInit, ItemNext, PTL DEF Spec

\* An item with values is in the queue or in the batch of one syncer, never in
\* both, in two batches, or forgotten, for any number of syncers and writers:
\* what zbx_hc_pop_items takes out nobody else touches before
\* zbx_hc_push_items puts it back.
THEOREM ItemsHeldOnce == Spec => []OneHolder
<1>1. ItemInv => OneHolder
  <2> SUFFICES ASSUME ItemInv, ~Abandoned PROVE OneHolder
    BY DEF OneHolder
  <2>1. /\ history_queue \cap Held = {} /\ Cached = history_queue \cup Held /\ busy \subseteq Held
    BY DEF ItemInv, Placed
  <2>2. ASSUME NEW i \in Items
        PROVE  Cardinality({s \in Procs : i \in syncer[s].batch})
                 + (IF i \in history_queue THEN 1 ELSE 0) = (IF i \in Cached THEN 1 ELSE 0)
    <3> DEFINE holders == {s \in Procs : i \in syncer[s].batch}
    <3>1. CASE i \in Held
      <4>1. PICK s \in Procs : i \in syncer[s].batch  BY <3>1 DEF Held
      <4>2. \A r \in Procs : i \in syncer[r].batch => r = s
        BY <4>1 DEF ItemInv, Apart
      <4>3. holders = {s}  BY <4>1, <4>2
      <4>4. Cardinality(holders) = 1  BY <4>3, FS_Singleton
      <4>5. i \notin history_queue /\ i \in Cached  BY <2>1, <3>1
      <4> HIDE DEF holders
      <4> QED  BY <4>4, <4>5 DEF holders
    <3>2. CASE i \notin Held
      <4>1. holders = {}  BY <3>2 DEF Held
      <4>2. Cardinality(holders) = 0  BY <4>1, FS_EmptySet
      <4>3. i \in history_queue <=> i \in Cached  BY <2>1, <3>2
      <4> HIDE DEF holders
      <4> QED  BY <4>2, <4>3 DEF holders
    <3> QED  BY <3>1, <3>2
  <2> QED  BY <2>1, <2>2 DEF OneHolder, Held
<1> QED  BY <1>1, ItemAlways, PTL

\* No two processes evaluate one trigger at the same time: what
\* zbx_dc_config_lock_triggers_by_history_items locked still covers what is
\* evaluated, though records are added to the items meanwhile.
THEOREM TriggersAlone == Spec => []TriggerAlone
<1>1. ItemInv => TriggerAlone
  <2> SUFFICES ASSUME ItemInv, NEW s \in Procs, NEW r \in Procs, s # r
               PROVE  Evaluating(s) \cap Evaluating(r) = {}
    BY DEF TriggerAlone
  <2>1. \A p \in Procs : Evaluating(p) \subseteq Holds(p)
    <3> TAKE p \in Procs
    <3>1. Sound(syncer[p], history_items, busy, log.stale, db.meta)  BY HeldIn
    <3>2. syncer[p].pc = "evaluate" =>
            \A i \in syncer[p].ready : Trig(history_items, i) \subseteq syncer[p].trig
      BY <3>1 DEF Sound
    <3>3. \A i : TriggersOf(i) = Trig(history_items, i)  BY DEF TriggersOf, Trig
    <3>4. CASE syncer[p].pc = "evaluate" /\ ~syncer[p].failed
      <4>1. Evaluating(p) = (UNION {TriggersOf(i) : i \in syncer[p].ready}) \cup syncer[p].mine
        BY <3>4 DEF Evaluating, At
      <4>2. \A i \in syncer[p].ready : TriggersOf(i) \subseteq syncer[p].trig
        BY <3>2, <3>3, <3>4
      <4> QED  BY <4>1, <4>2 DEF Holds
    <3>5. CASE ~(syncer[p].pc = "evaluate" /\ ~syncer[p].failed)
      <4>1. Evaluating(p) = {}  BY <3>5 DEF Evaluating, At
      <4> QED  BY <4>1
    <3> QED  BY <3>4, <3>5
  <2>2. Holds(s) \cap Holds(r) = {}  BY DEF ItemInv, LockInv, LocksHeld
  <2> QED  BY <2>1, <2>2
<1> QED  BY <1>1, ItemAlways, PTL

\* The newest metadata received for a log item is in the cache or, when the
\* cache has no more of the item, in the database: metadata that
\* hc_add_item_values merges into a record is not lost to a syncer that has
\* copied the record before.
THEOREM MetadataKept == Spec => []MetaKept
<1>1. ItemInv => MetaKept  BY DEF ItemInv
<1> QED  BY <1>1, ItemAlways, PTL

----------------------------------------------------------------------------
(* The counters of the cache. *)

Rests(wr) == [w \in Writers |-> Len(wr[w].rest)]
Totals(wr) == [w \in Writers |-> wr[w].total]

\* writers with records that wait, and numbers of records that fit a batch
Waiting(wr) ==
    /\ wr \in [Writers -> [rest : Seq(Entry), total : Nat]]
    /\ \A w \in Writers : Len(wr[w].rest) <= wr[w].total /\ wr[w].total <= MaxFlush

Working == {s \in Procs : syncer[s].batch # {}}

\* The number of batches under way is that of processes with a batch, and of
\* syncers that were killed with one.
Processing ==
    \E lost \in 0 .. Cardinality(Syncers) :
        /\ processing_num = Cardinality(Working) + lost
        /\ server # "killed" => lost = 0

CountInv ==
    /\ ItemInv
    /\ Waiting(writer)
    /\ history_num \in Int /\ HistoryNum
    /\ Processing
    /\ server = "killed" => \A s \in Syncers : At(s, "done")
    /\ Abandoned => busy \subseteq Items /\ locked \subseteq Triggers
    /\ server \in {"running", "stopping", "killed"}

LEMMA WaitingCells ==
    ASSUME NEW wr, Waiting(wr)
    PROVE  /\ Rests(wr) \in [Writers -> Nat] /\ Totals(wr) \in [Writers -> Nat]
           /\ \A w \in Writers : Rests(wr)[w] = Len(wr[w].rest) /\ Totals(wr)[w] = wr[w].total
<1>1. \A w \in Writers : wr[w].rest \in Seq(Entry) /\ wr[w].total \in Nat  BY DEF Waiting
<1>2. \A w \in Writers : Len(wr[w].rest) \in Nat  BY <1>1, LenProperties
<1> QED  BY <1>1, <1>2 DEF Rests, Totals

LEMMA UncountedCells ==
    /\ Waiting(writer) => /\ Uncounted = Cells(Writers, Rests(writer), Totals(writer))
                          /\ Cardinality(Uncounted) \in Nat
    /\ Waiting(writer)' =>
          /\ Uncounted' = Cells(Writers, Rests(writer'), Totals(writer'))
          /\ Cardinality(Uncounted') \in Nat
<1>1. IsFiniteSet(Writers)  BY HistoryCacheAssumption DEF HistoryCacheAssumption
<1>2. ASSUME Waiting(writer)
      PROVE  Uncounted = Cells(Writers, Rests(writer), Totals(writer))
             /\ Cardinality(Uncounted) \in Nat
  <2>1. Uncounted = Cells(Writers, Rests(writer), Totals(writer))
    BY <1>2, WaitingCells DEF Uncounted, Cells
  <2>2. Rests(writer) \in [Writers -> Nat] /\ Totals(writer) \in [Writers -> Nat]
    BY <1>2, WaitingCells
  <2> QED  BY <1>1, <2>1, <2>2, CellsFinite
<1>3. ASSUME Waiting(writer')
      PROVE  Uncounted' = Cells(Writers, Rests(writer'), Totals(writer'))
             /\ Cardinality(Uncounted') \in Nat
  <2>1. Uncounted' = Cells(Writers, Rests(writer'), Totals(writer'))
    BY <1>3, WaitingCells DEF Uncounted, Cells
  <2>2. Rests(writer') \in [Writers -> Nat] /\ Totals(writer') \in [Writers -> Nat]
    BY <1>3, WaitingCells
  <2> QED  BY <1>1, <2>1, <2>2, CellsFinite
<1>4. Waiting(writer)' <=> Waiting(writer')  BY DEF Waiting
<1> QED  BY <1>2, <1>3, <1>4

\* One writer goes on.
LEMMA UncountedStep ==
    ASSUME NEW w \in Writers, NEW x \in [rest : Seq(Entry), total : Nat],
           Waiting(writer), writer' = [writer EXCEPT ![w] = x],
           Len(x.rest) <= x.total, x.total <= MaxFlush
    PROVE  /\ Waiting(writer)'
           /\ Cardinality(Uncounted')
                = Cardinality(Uncounted) + (x.total - Len(x.rest))
                    - (writer[w].total - Len(writer[w].rest))
<1>1. writer'[w] = x /\ \A v \in Writers \ {w} : writer'[v] = writer[v]  BY DEF Waiting
<1>2. Waiting(writer')  BY <1>1 DEF Waiting
<1>3. Waiting(writer)'  BY <1>2 DEF Waiting
<1> DEFINE lo == Rests(writer)
           hi == Totals(writer)
           lo2 == Rests(writer')
           hi2 == Totals(writer')
<1>4. /\ lo \in [Writers -> Nat] /\ hi \in [Writers -> Nat]
      /\ \A v \in Writers : lo[v] = Len(writer[v].rest) /\ hi[v] = writer[v].total
  BY WaitingCells
<1>5. /\ lo2 \in [Writers -> Nat] /\ hi2 \in [Writers -> Nat]
      /\ \A v \in Writers : lo2[v] = Len(writer'[v].rest) /\ hi2[v] = writer'[v].total
  BY <1>2, WaitingCells
<1>6. /\ Cardinality(Uncounted) = Cardinality(Cells(Writers, lo, hi))
      /\ Cardinality(Uncounted') = Cardinality(Cells(Writers, lo2, hi2))
  BY <1>3, UncountedCells
<1> HIDE DEF lo, hi, lo2, hi2
<1>7. lo[w] <= hi[w] /\ lo2[w] <= hi2[w]  BY <1>1, <1>4, <1>5 DEF Waiting
<1>8. \A v \in Writers \ {w} : lo2[v] = lo[v] /\ hi2[v] = hi[v]  BY ONLY <1>1, <1>4, <1>5
<1>9. IsFiniteSet(Writers)  BY HistoryCacheAssumption DEF HistoryCacheAssumption
<1>10. Cardinality(Cells(Writers, lo2, hi2))
         = Cardinality(Cells(Writers, lo, hi)) + (hi2[w] - lo2[w]) - (hi[w] - lo[w])
  <2>1. RowStep(Writers, w, lo, hi, lo2, hi2)
    BY <1>4, <1>5, <1>7, <1>8 DEF RowStep
  <2> QED  BY <1>9, <2>1, CellsStep
<1>11. hi2[w] = x.total /\ lo2[w] = Len(x.rest) /\ hi[w] = writer[w].total
       /\ lo[w] = Len(writer[w].rest)
  BY <1>1, <1>4, <1>5
<1> QED  BY <1>3, <1>6, <1>10, <1>11

\* Records are added and counted when all are in.
LEMMA AddCounts ==
    ASSUME NEW w \in Writers, NEW records \in Seq(Entry), NEW total \in Nat,
           ItemInv, Waiting(writer), server # "killed", history_num \in Int, HistoryNum,
           Add(w, records, total), Len(records) <= total, total <= MaxFlush,
           writer[w].total - Len(writer[w].rest) = total - Len(records)
    PROVE  Waiting(writer)' /\ history_num' \in Int /\ HistoryNum'
<1> DEFINE c == AddItemValues(records)
           k == Len(records)
<1>1. PICK X : log \in [received : [Items -> Nat], given : X, merged : Nat, stale : X,
                        fired : X, evaluated : X]
  BY DEF ItemInv, Types, Numbers
<1>2. c \in Caches /\ Grown(c, k)
  <2>1. /\ history_items \in [Items -> Seq(Rec)] /\ history_queue \subseteq Items
        /\ Size(history_items) <= MemSize
    BY DEF ItemInv, Types, Recs
  <2>2. log.received \in [Items -> Nat] /\ log.merged \in Nat  BY <1>1
  <2>3. \A i \in Log : history_items[i] # <<>> => Last(history_items[i]).meta = log.received[i]
    <3>1. Log \subseteq Items  BY HistoryCacheAssumption DEF HistoryCacheAssumption
    <3> QED  BY <3>1 DEF ItemInv, MetaKept, Cached
  <2> QED  BY <2>1, <2>2, <2>3, AllAdded
<1>3. /\ history_items' = c.items
      /\ log' = [log EXCEPT !.received = c.received, !.merged = c.merged]
      /\ IF c.rest = <<>>
         THEN /\ writer' = [writer EXCEPT ![w] = NothingToAdd]
              /\ history_num' = history_num + total
         ELSE /\ writer' = [writer EXCEPT ![w] = [rest |-> c.rest, total |-> total]]
              /\ history_num' = history_num
      /\ server' = server
  BY DEF Add
<1> HIDE DEF c
<1>4. /\ c.items \in [Items -> Seq(Rec)] /\ c.rest \in Seq(Entry) /\ c.merged \in Nat
  BY <1>2 DEF Caches
<1>5. log'.merged = c.merged  BY <1>1, <1>3
<1> DEFINE p == Size(history_items)
           q == Size(c.items)
           m == log.merged
           n == c.merged
           l == Len(c.rest)
           u == Cardinality(Uncounted)
<1>6. p \in Nat /\ q \in Nat /\ m \in Nat /\ n \in Nat /\ l \in Nat /\ u \in Nat /\ k \in Nat
  <2>1. p \in Nat /\ q \in Nat  BY <1>4, SizeCells DEF ItemInv, Types, Recs
  <2>2. m \in Nat /\ n \in Nat  BY <1>1, <1>4
  <2>3. l \in Nat /\ k \in Nat  BY <1>4, LenProperties
  <2>4. u \in Nat  BY UncountedCells
  <2> QED  BY <2>1, <2>2, <2>3, <2>4
<1>7. q + n + l = p + m + k /\ l <= k  BY <1>2 DEF Grown
<1>8. history_num = p + m - u  BY DEF HistoryNum
<1>9. Size(history_items') = q /\ log'.merged = n  BY <1>3, <1>5
<1>10. CASE c.rest = <<>>
  <2> DEFINE x == NothingToAdd
  <2>1. x \in [rest : Seq(Entry), total : Nat] /\ x.total = 0 /\ Len(x.rest) = 0
    BY EmptySeq DEF NothingToAdd
  <2>2. writer' = [writer EXCEPT ![w] = x] /\ history_num' = history_num + total
    BY <1>3, <1>10
  <2>3. MaxFlush \in Nat  BY HistoryCacheAssumption DEF HistoryCacheAssumption
  <2> HIDE DEF x
  <2>4. Len(x.rest) <= x.total /\ x.total <= MaxFlush  BY <2>1, <2>3
  <2>5. /\ Waiting(writer)'
        /\ Cardinality(Uncounted') = u + (x.total - Len(x.rest))
                                       - (writer[w].total - Len(writer[w].rest))
    BY <2>1, <2>2, <2>4, UncountedStep
  <2>6. l = 0  BY <1>10, EmptySeq
  <2>7. Cardinality(Uncounted') = u + 0 - (total - k)
    BY <2>1, <2>5
  <2> HIDE DEF p, q, m, n, l, u, k
  <2>8. history_num' = q + n - Cardinality(Uncounted') /\ history_num' \in Int
    BY <1>6, <1>7, <1>8, <2>2, <2>6, <2>7
  <2> QED  BY <1>9, <2>5, <2>8 DEF HistoryNum
<1>11. CASE c.rest # <<>>
  <2> DEFINE x == [rest |-> c.rest, total |-> total]
  <2>1. x \in [rest : Seq(Entry), total : Nat] /\ x.total = total /\ x.rest = c.rest
    BY <1>4
  <2>2. writer' = [writer EXCEPT ![w] = x] /\ history_num' = history_num
    BY <1>3, <1>11
  <2> HIDE DEF x
  <2>3. l <= total
    <3> HIDE DEF l, k
    <3> QED  BY <1>6, <1>7 DEF k
  <2>4. Len(x.rest) <= x.total /\ x.total <= MaxFlush  BY <2>1, <2>3
  <2>5. /\ Waiting(writer)'
        /\ Cardinality(Uncounted') = u + (x.total - Len(x.rest))
                                       - (writer[w].total - Len(writer[w].rest))
    BY <2>1, <2>2, <2>4, UncountedStep
  <2>6. Cardinality(Uncounted') = u + (total - l) - (total - k)
    BY <2>1, <2>5
  <2> HIDE DEF p, q, m, n, l, u, k
  <2>7. history_num' = q + n - Cardinality(Uncounted') /\ history_num' \in Int
    BY <1>6, <1>7, <1>8, <2>2, <2>6
  <2> QED  BY <1>9, <2>5, <2>7 DEF HistoryNum
<1> QED  BY <1>10, <1>11

\* Steps that leave the writers alone: the counter follows the size of the cache.
LEMMA OthersCount ==
    ASSUME ItemInv, Types', Waiting(writer), history_num \in Int, HistoryNum, writer' = writer,
           log'.merged = log.merged, server' # "killed" => server # "killed",
           history_num' - Size(history_items') = history_num - Size(history_items),
           history_num' \in Int
    PROVE  Waiting(writer)' /\ HistoryNum'
<1>1. Waiting(writer)'  BY DEF Waiting
<1>2. Uncounted' = Uncounted  BY DEF Uncounted
<1> DEFINE p == Size(history_items)
           q == Size(history_items')
           m == log.merged
           u == Cardinality(Uncounted)
<1>3. p \in Nat /\ q \in Nat  BY SizeCells DEF ItemInv, Types, Recs
<1>4. m \in Nat  BY DEF ItemInv, Types, Numbers
<1>5. u \in Nat  BY UncountedCells
<1>6. ASSUME server' # "killed"
      PROVE  history_num' = Size(history_items') + log'.merged - Cardinality(Uncounted')
  <2>1. history_num = p + m - u  BY <1>6 DEF HistoryNum
  <2>2. history_num' - q = history_num - p  OBVIOUS
  <2>3. history_num' \in Int  OBVIOUS
  <2> HIDE DEF p, q, m, u
  <2> DEFINE a == history_num
             b == history_num'
  <2>4. a = p + m - u /\ b - q = a - p /\ b \in Int /\ a \in Int  BY <2>1, <2>2, <2>3
  <2> HIDE DEF a, b
  <2>5. b = q + m - u  BY ONLY <1>3, <1>4, <1>5, <2>4
  <2> QED  BY <1>2, <2>5 DEF q, m, u, b
<1> QED  BY <1>1, <1>6 DEF HistoryNum

\* A batch is taken, put back, or nothing of the kind.
LEMMA ProcessingStep ==
    ASSUME NEW s \in Procs, NEW x, NEW B, syncer \in [Procs -> States(B)], Processing,
           syncer' = [syncer EXCEPT ![s] = x], server' = server, processing_num \in Nat,
           processing_num' = processing_num + (IF x.batch # {} THEN 1 ELSE 0)
                                            - (IF syncer[s].batch # {} THEN 1 ELSE 0)
    PROVE  Processing'
<1>1. syncer'[s] = x /\ \A r \in Procs \ {s} : syncer'[r] = syncer[r]  OBVIOUS
<1>2. IsFiniteSet(Procs)
  <2>1. IsFiniteSet(Syncers)  BY HistoryCacheAssumption DEF HistoryCacheAssumption
  <2> QED  BY <2>1, FS_AddElement DEF Procs
<1>3. IsFiniteSet(Working) /\ Cardinality(Working) \in Nat
  <2>1. Working \in SUBSET Procs  BY DEF Working
  <2> QED  BY <1>2, <2>1, FS_Subset, FS_CardinalityType
<1> DEFINE rest == Working \ {s}
<1>4. Working' = IF x.batch # {} THEN rest \cup {s} ELSE rest
  BY <1>1 DEF Working
<1>5. s \in Working <=> syncer[s].batch # {}  BY DEF Working
<1>6. IsFiniteSet(rest)
      /\ Cardinality(rest) = IF s \in Working THEN Cardinality(Working) - 1 ELSE Cardinality(Working)
  BY <1>3, FS_RemoveElement
<1>7. Cardinality(rest \cup {s}) = Cardinality(rest) + 1
  <2>1. s \notin rest  OBVIOUS
  <2> HIDE DEF rest
  <2> QED  BY <1>6, <2>1, FS_AddElement
<1>8. PICK lost \in 0 .. Cardinality(Syncers) :
        processing_num = Cardinality(Working) + lost /\ (server # "killed" => lost = 0)
  BY DEF Processing
<1>9. lost \in Nat
  <2>1. IsFiniteSet(Syncers)  BY HistoryCacheAssumption DEF HistoryCacheAssumption
  <2>2. Cardinality(Syncers) \in Nat  BY <2>1, FS_CardinalityType
  <2> QED  BY <2>2
<1> HIDE DEF rest
<1> DEFINE r == Cardinality(rest)
           n == Cardinality(Working)
<1>10. Cardinality(Working') = IF x.batch # {} THEN r + 1 ELSE r
  BY <1>4, <1>7
<1>11. r = IF syncer[s].batch # {} THEN n - 1 ELSE n  BY <1>5, <1>6
<1>12. n \in Nat  BY <1>3
<1> HIDE DEF r, n
<1>13. processing_num = n + lost  BY <1>8 DEF n
<1>14. processing_num' = Cardinality(Working') + lost
  <2>1. CASE x.batch # {} /\ syncer[s].batch # {}
    <3>1. processing_num' = processing_num + 1 - 1  BY <2>1
    <3> QED  BY <1>9, <1>10, <1>11, <1>12, <1>13, <2>1, <3>1
  <2>2. CASE x.batch # {} /\ syncer[s].batch = {}
    <3>1. processing_num' = processing_num + 1 - 0  BY <2>2
    <3> QED  BY <1>9, <1>10, <1>11, <1>12, <1>13, <2>2, <3>1
  <2>3. CASE x.batch = {} /\ syncer[s].batch # {}
    <3>1. processing_num' = processing_num + 0 - 1  BY <2>3
    <3> QED  BY <1>9, <1>10, <1>11, <1>12, <1>13, <2>3, <3>1
  <2>4. CASE x.batch = {} /\ syncer[s].batch = {}
    <3>1. processing_num' = processing_num + 0 - 0  BY <2>4
    <3> QED  BY <1>9, <1>10, <1>11, <1>12, <1>13, <2>4, <3>1
  <2> QED  BY <2>1, <2>2, <2>3, <2>4
<1> QED  BY <1>8, <1>14 DEF Processing

\* The counter of batches counts.
LEMMA ProcessingNat ==
    ASSUME Processing
    PROVE  /\ processing_num \in Nat
           /\ IsFiniteSet(Procs) /\ IsFiniteSet(Working) /\ Working \subseteq Procs
           /\ Cardinality(Procs) = Cardinality(Syncers) + 1
           /\ Cardinality(Working) \in Nat /\ Cardinality(Syncers) \in Nat
<1>1. IsFiniteSet(Syncers) /\ Main \notin Syncers
  BY HistoryCacheAssumption DEF HistoryCacheAssumption
<1>2. IsFiniteSet(Procs) /\ Cardinality(Procs) = Cardinality(Syncers) + 1
  BY <1>1, FS_AddElement DEF Procs
<1>3. Working \subseteq Procs  BY DEF Working
<1>4. IsFiniteSet(Working)  BY <1>2, <1>3, FS_Subset
<1>5. Cardinality(Working) \in Nat /\ Cardinality(Syncers) \in Nat
  BY <1>1, <1>4, FS_CardinalityType
<1>6. PICK lost \in 0 .. Cardinality(Syncers) : processing_num = Cardinality(Working) + lost
  BY DEF Processing
<1>7. processing_num \in Nat  BY <1>5, <1>6
<1> QED  BY <1>2, <1>3, <1>4, <1>5, <1>7

\* A process goes on to x; the batches under way are counted.
Turns(s, x) ==
    /\ syncer' = [syncer EXCEPT ![s] = x] /\ server' = server
    /\ x.pc # "off"
    /\ processing_num' = processing_num + (IF x.batch # {} THEN 1 ELSE 0)
                                       - (IF syncer[s].batch # {} THEN 1 ELSE 0)

LEMMA PassTurns ==
    ASSUME ItemInv, ~Abandoned, Processing, NEW s \in Procs, Pass(s)
    PROVE  \E x : Turns(s, x)
<1>1. PICK B : syncer \in [Procs -> States(B)]
  BY DEF ItemInv, LockInv, Shape
<1>2. Sound(syncer[s], history_items, busy, log.stale, db.meta)  BY HeldIn
<1>3. processing_num \in Nat  BY ProcessingNat
<1>4. ASSUME NEW x, syncer' = [syncer EXCEPT ![s] = x], server' = server, x.pc # "off",
             x.batch = syncer[s].batch, processing_num' = processing_num
      PROVE  Turns(s, x)
  BY <1>3, <1>4 DEF Turns
<1>5. CASE PopItems(s)
  <2>1. PICK b \in SUBSET history_queue :
          /\ processing_num' = processing_num + (IF b = {} THEN 0 ELSE 1)
          /\ syncer' = [syncer EXCEPT ![s].pc = IF b = {} THEN "timers" ELSE "lock", ![s].batch = b]
    BY <1>5 DEF PopItems
  <2>2. syncer[s].pc = "pop" /\ server' = server  BY <1>5 DEF PopItems, At
  <2> DEFINE x == [syncer[s] EXCEPT !.pc = IF b = {} THEN "timers" ELSE "lock", !.batch = b]
  <2>3. syncer' = [syncer EXCEPT ![s] = x]  BY <1>1, <2>1
  <2>4. x.pc # "off" /\ x.batch = b  BY <1>1 DEF States
  <2> HIDE DEF x
  <2>5. syncer[s].batch = {}  BY <1>2, <2>2 DEF Sound
  <2>6. processing_num' = processing_num + (IF x.batch # {} THEN 1 ELSE 0) - 0
    BY <1>3, <2>1, <2>4
  <2>7. Turns(s, x)  BY <2>2, <2>3, <2>4, <2>5, <2>6 DEF Turns
  <2> QED  BY <2>7
<1>6. CASE LockTriggers(s)
  <2>1. PICK ready, trig :
          syncer' = [syncer EXCEPT ![s].pc = IF ready = {} THEN "return" ELSE "write",
                                   ![s].ready = ready, ![s].trig = trig]
    BY <1>6 DEF LockTriggers
  <2> DEFINE x == [syncer[s] EXCEPT !.pc = IF ready = {} THEN "return" ELSE "write",
                                    !.ready = ready, !.trig = trig]
  <2>2. syncer' = [syncer EXCEPT ![s] = x]  BY <1>1, <2>1
  <2>3. x.pc # "off" /\ x.batch = syncer[s].batch  BY <1>1 DEF States
  <2> HIDE DEF x
  <2>4. server' = server /\ processing_num' = processing_num  BY <1>6 DEF LockTriggers
  <2> QED  BY <1>4, <2>2, <2>3, <2>4
<1>7. CASE ReturnItems(s)
  <2> DEFINE x == [syncer[s] EXCEPT !.pc = "timers", !.batch = {}]
  <2>1. /\ syncer[s].pc = "return" /\ server' = server /\ processing_num' = processing_num - 1
        /\ syncer' = [syncer EXCEPT ![s].pc = "timers", ![s].batch = {}]
    BY <1>7 DEF ReturnItems, Pushed, At
  <2>2. syncer' = [syncer EXCEPT ![s] = x]  BY <1>1, <2>1
  <2>3. x.pc # "off" /\ x.batch = {}  BY <1>1 DEF States
  <2> HIDE DEF x
  <2>4. syncer[s].batch # {}  BY <1>2, <2>1 DEF Sound
  <2>5. processing_num' = processing_num + 0 - 1  BY <1>3, <2>1
  <2>6. Turns(s, x)  BY <2>1, <2>2, <2>3, <2>4, <2>5 DEF Turns
  <2> QED  BY <2>6
<1>8. ASSUME NEW off \in SUBSET Removable, NEW written \in BOOLEAN, WriteHistory(s, off, written)
      PROVE  \E x : Turns(s, x)
  <2> DEFINE x == [syncer[s] EXCEPT !.pc = "timers", !.failed = ~written]
  <2>1. syncer' = [syncer EXCEPT ![s] = x]  BY <1>1, <1>8 DEF WriteHistory
  <2>2. x.pc # "off" /\ x.batch = syncer[s].batch  BY <1>1 DEF States
  <2> HIDE DEF x
  <2>3. server' = server /\ processing_num' = processing_num  BY <1>8 DEF WriteHistory
  <2> QED  BY <1>4, <2>1, <2>2, <2>3
<1>9. CASE GetTimers(s)
  <2>1. server' = server /\ processing_num' = processing_num /\ syncer[s].pc = "timers"
    BY <1>9 DEF GetTimers, cache, At
  <2> DEFINE due == IF server = "running" /\ ~syncer[s].failed THEN Due ELSE {}
             mine == due \ locked
             x == [syncer[s] EXCEPT !.pc = "evaluate", !.held = due, !.mine = mine]
             y == NextPass(s, FALSE)
  <2>2. CASE syncer[s].ready # {} \/ due # {}
    <3>1. syncer' = [syncer EXCEPT ![s].pc = "evaluate", ![s].held = due, ![s].mine = mine]
      BY <1>9, <2>2 DEF GetTimers
    <3>2. syncer' = [syncer EXCEPT ![s] = x]  BY <1>1, <3>1
    <3>3. x.pc # "off" /\ x.batch = syncer[s].batch  BY <1>1 DEF States
    <3> HIDE DEF x
    <3> QED  BY <1>4, <2>1, <3>2, <3>3
  <2>3. CASE ~(syncer[s].ready # {} \/ due # {})
    <3>1. syncer' = [syncer EXCEPT ![s] = y]  BY <1>9, <2>3 DEF GetTimers, EndPass
    <3>2. y.batch = {} /\ y.pc # "off"  BY NextPassEmpty
    <3>3. syncer[s].batch = {}  BY <1>2, <2>1, <2>3 DEF Sound
    <3> HIDE DEF y
    <3> QED  BY <1>4, <2>1, <3>1, <3>2, <3>3
  <2> QED  BY <2>2, <2>3
<1>10. CASE Evaluate(s)
  <2>1. server' = server /\ processing_num' = processing_num /\ syncer[s].pc = "evaluate"
    BY <1>10 DEF Evaluate, cache, At
  <2> DEFINE x == [syncer[s] EXCEPT !.pc = "push", !.trig = {}, !.held = {}, !.mine = {},
                                    !.failed = FALSE]
             y == NextPass(s, FALSE)
  <2>2. CASE syncer[s].ready # {}
    <3>1. syncer' = [syncer EXCEPT ![s].pc = "push", ![s].trig = {}, ![s].held = {},
                                   ![s].mine = {}, ![s].failed = FALSE]
      BY <1>10, <2>2 DEF Evaluate
    <3>2. syncer' = [syncer EXCEPT ![s] = x]  BY <1>1, <3>1
    <3>3. x.pc # "off" /\ x.batch = syncer[s].batch  BY <1>1 DEF States
    <3> HIDE DEF x
    <3> QED  BY <1>4, <2>1, <3>2, <3>3
  <2>3. CASE syncer[s].ready = {}
    <3>1. syncer' = [syncer EXCEPT ![s] = y]  BY <1>10, <2>3 DEF Evaluate, EndPass
    <3>2. y.batch = {} /\ y.pc # "off"  BY NextPassEmpty
    <3>3. syncer[s].batch = {}  BY <1>2, <2>1, <2>3 DEF Sound
    <3> HIDE DEF y
    <3> QED  BY <1>4, <2>1, <3>1, <3>2, <3>3
  <2> QED  BY <2>2, <2>3
<1>11. CASE PushItems(s)
  <2> DEFINE more == /\ history_queue' # {}
                     /\ 10 * Cardinality(syncer[s].batch) <= 100 * Cardinality(syncer[s].ready)
             x == NextPass(s, more)
  <2>1. /\ syncer[s].pc = "push" /\ server' = server /\ processing_num' = processing_num - 1
        /\ syncer' = [syncer EXCEPT ![s] = x]
    BY <1>11 DEF PushItems, Pushed, EndPass, At
  <2>2. x.batch = {} /\ x.pc # "off"  BY NextPassEmpty
  <2> HIDE DEF x
  <2>3. syncer[s].batch # {}  BY <1>2, <2>1 DEF Sound
  <2>4. processing_num' = processing_num + 0 - 1  BY <1>3, <2>1
  <2>5. Turns(s, x)  BY <2>1, <2>2, <2>3, <2>4 DEF Turns
  <2> QED  BY <2>5
<1> QED  BY <1>5, <1>6, <1>7, <1>8, <1>9, <1>10, <1>11 DEF Pass

\* Every step of a pass counts what it takes out of the cache.
LEMMA PassCounts ==
    ASSUME ItemInv, ~Abandoned, Types', Waiting(writer), history_num \in Int, HistoryNum,
           NEW s \in Procs, Pass(s)
    PROVE  Waiting(writer)' /\ history_num' \in Int /\ HistoryNum'
<1>1. server' = server /\ writer' = writer
  BY DEF Pass, PopItems, LockTriggers, ReturnItems, WriteHistory, GetTimers, Evaluate, PushItems
<1>2. PICK X : log \in [received : [Items -> Nat], given : X, merged : Nat, stale : X,
                        fired : X, evaluated : X]
  BY DEF ItemInv, Types, Numbers
<1>3. Size(history_items) \in Nat /\ Size(history_items') \in Nat
  BY SizeCells DEF ItemInv, Types, Recs
<1>4. ASSUME log'.merged = log.merged, history_num' \in Int,
             history_num' - Size(history_items') = history_num - Size(history_items)
      PROVE  Waiting(writer)' /\ history_num' \in Int /\ HistoryNum'
  BY <1>1, <1>4, OthersCount
<1>5. ASSUME log'.merged = log.merged, history_num' = history_num, history_items' = history_items
      PROVE  Waiting(writer)' /\ history_num' \in Int /\ HistoryNum'
  <2>1. history_num' - Size(history_items') = history_num - Size(history_items)  BY <1>5
  <2>2. history_num' \in Int  BY <1>5
  <2> QED  BY ONLY <1>4, <1>5, <2>1, <2>2
<1>6. CASE PopItems(s) \/ LockTriggers(s)
  BY <1>5, <1>6 DEF PopItems, LockTriggers
<1>7. CASE GetTimers(s)
  BY <1>5, <1>7 DEF GetTimers, cache
<1>8. CASE Evaluate(s)
  <2>1. PICK e : log' = [log EXCEPT !.evaluated = e]  BY <1>8 DEF Evaluate
  <2>2. log'.merged = log.merged  BY <1>2, <2>1
  <2> QED  BY <1>5, <1>8, <2>2 DEF Evaluate, cache
<1>9. CASE ReturnItems(s)
  <2>1. /\ syncer[s].pc = "return" /\ Pushed(s) /\ history_num' = history_num
    BY <1>9 DEF ReturnItems, At
  <2>2. /\ log'.merged = log.merged
        /\ Size(history_items) = Size(history_items') + Cardinality(syncer[s].ready)
    BY <1>1, <2>1, PushedTypes
  <2>3. syncer[s].ready = {}
    <3>1. Sound(syncer[s], history_items, busy, log.stale, db.meta)  BY HeldIn
    <3> QED  BY <2>1, <3>1 DEF Sound
  <2>4. Cardinality(syncer[s].ready) = 0  BY <2>3, FS_EmptySet
  <2> DEFINE p == Size(history_items)
             q == Size(history_items')
  <2>5. p = q
    <3>1. p = q + 0 /\ q \in Nat  BY <1>3, <2>2, <2>4
    <3> HIDE DEF p, q
    <3> QED  BY <3>1
  <2>6. history_num' - q = history_num - p /\ history_num' \in Int  BY <2>1, <2>5
  <2> QED  BY <1>4, <2>2, <2>6
<1>10. ASSUME NEW off \in SUBSET Removable, NEW written \in BOOLEAN, WriteHistory(s, off, written)
       PROVE  Waiting(writer)' /\ history_num' \in Int /\ HistoryNum'
  <2>1. PICK g, h : log' = [log EXCEPT !.given = g, !.stale = h]  BY <1>10 DEF WriteHistory
  <2>2. log'.merged = log.merged  BY <1>2, <2>1
  <2>3. history_num' = history_num - (Size(history_items) - Size(history_items'))
    BY <1>10 DEF WriteHistory, ClearItemMiddle
  <2> DEFINE p == Size(history_items)
             q == Size(history_items')
             a == history_num
             b == history_num'
  <2>4. p \in Nat /\ q \in Nat /\ a \in Int /\ b = a - (p - q)  BY <1>3, <2>3
  <2> HIDE DEF p, q, a, b
  <2>5. b - q = a - p /\ b \in Int  BY <2>4
  <2> QED  BY <1>4, <2>2, <2>5 DEF p, q, a, b
<1>11. CASE PushItems(s)
  <2>1. syncer[s].pc = "push" /\ Pushed(s)
        /\ history_num' = history_num - Cardinality(syncer[s].ready)
    BY <1>11 DEF PushItems, Processed, At
  <2>2. /\ log'.merged = log.merged
        /\ Size(history_items) = Size(history_items') + Cardinality(syncer[s].ready)
    BY <1>1, <2>1, PushedTypes
  <2>3. Cardinality(syncer[s].ready) \in Nat
    <3>1. Sound(syncer[s], history_items, busy, log.stale, db.meta)  BY HeldIn
    <3>2. syncer[s].ready \subseteq Items  BY <3>1 DEF Sound
    <3>3. IsFiniteSet(Items)  BY HistoryCacheAssumption DEF HistoryCacheAssumption
    <3> QED  BY <3>2, <3>3, FS_Subset, FS_CardinalityType
  <2> DEFINE p == Size(history_items)
             q == Size(history_items')
             a == history_num
             b == history_num'
             k == Cardinality(syncer[s].ready)
  <2>4. p \in Nat /\ q \in Nat /\ a \in Int /\ k \in Nat /\ b = a - k /\ p = q + k
    BY <1>3, <2>1, <2>2, <2>3
  <2> HIDE DEF p, q, a, b, k
  <2>5. b - q = a - p /\ b \in Int  BY <2>4
  <2> QED  BY <1>4, <2>2, <2>5 DEF p, q, a, b
<1> QED  BY <1>6, <1>7, <1>8, <1>9, <1>10, <1>11 DEF Pass

\* Steps that leave the processes, the writers and the counters alone.
LEMMA CountsSame ==
    ASSUME CountInv, ItemInv', UNCHANGED <<history_items, busy, history_num, processing_num, locked,
                                           writer, syncer>>,
           log'.merged = log.merged, server' \in {"running", "stopping", "killed"},
           server' = "killed" <=> server = "killed"
    PROVE  CountInv'
<1>1. Waiting(writer)' /\ HistoryNum' /\ history_num' \in Int
  <2>1. Types'  BY DEF ItemInv
  <2>2. history_num' - Size(history_items') = history_num - Size(history_items)  OBVIOUS
  <2>3. history_num' \in Int  BY DEF CountInv
  <2> QED  BY <2>1, <2>2, <2>3, OthersCount DEF CountInv
<1>2. Processing'  BY DEF CountInv, Processing, Working
<1>3. Abandoned' <=> Abandoned  BY DEF Abandoned, At
<1> QED  BY <1>1, <1>2, <1>3 DEF CountInv, At

\* Records are added: the batches stay as they are.
LEMMA AddCounted ==
    ASSUME CountInv, ItemInv', NEW w \in Writers, NEW records \in Seq(Entry), NEW total \in Nat,
           server # "killed", Add(w, records, total), Len(records) <= total, total <= MaxFlush,
           writer[w].total - Len(writer[w].rest) = total - Len(records)
    PROVE  CountInv'
<1>1. Waiting(writer)' /\ history_num' \in Int /\ HistoryNum'
  BY AddCounts DEF CountInv
<1>2. UNCHANGED <<processing_num, syncer, server>>  BY DEF Add
<1>3. Processing'  BY <1>2 DEF CountInv, Processing, Working
<1>4. ~Abandoned'  BY <1>2 DEF Abandoned
<1> QED  BY <1>1, <1>2, <1>3, <1>4 DEF CountInv, At

\* What is in use is known.
LEMMA InUse ==
    ASSUME ItemInv, ~Abandoned
    PROVE  busy \subseteq Items /\ locked \subseteq Triggers
<1>1. \A s \in Procs : syncer[s].batch \subseteq Items /\ syncer[s].trig \subseteq Triggers
  <2> TAKE s \in Procs
  <2>1. Sound(syncer[s], history_items, busy, log.stale, db.meta)  BY HeldIn
  <2> QED  BY <2>1 DEF Sound
<1>2. \A s \in Procs : syncer[s].mine \subseteq Triggers
  <2>1. PICK B : syncer \in [Procs -> States(B)]  BY DEF ItemInv, LockInv, Shape
  <2>2. Timed \subseteq Triggers  BY HistoryCacheAssumption DEF HistoryCacheAssumption
  <2> QED  BY <2>1, <2>2 DEF States
<1>3. busy \subseteq Items  BY <1>1 DEF ItemInv, Placed, Held
<1>4. locked = UNION {Holds(s) : s \in Procs}  BY DEF ItemInv, LockInv, LocksHeld
<1>5. locked \subseteq Triggers  BY <1>1, <1>2, <1>4 DEF Holds
<1> QED  BY <1>3, <1>5

LEMMA CountInit == Init => CountInv
<1> SUFFICES ASSUME Init PROVE CountInv
  OBVIOUS
<1>1. ItemInv  BY ItemInit
<1>2. /\ writer = [w \in Writers |-> NothingToAdd] /\ history_num = 0 /\ processing_num = 0
      /\ history_items = [i \in Items |-> <<>>] /\ log.merged = 0
      /\ server = "running" /\ busy = {} /\ locked = {}
  BY DEF Init
<1>3. \A s \in Procs : syncer[s].batch = {}  BY DEF Init, Idle
<1>4. NothingToAdd \in [rest : Seq(Entry), total : Nat]
      /\ NothingToAdd.total = 0 /\ Len(NothingToAdd.rest) = 0
  BY EmptySeq DEF NothingToAdd
<1>5. Waiting(writer)
  <2>1. MaxFlush \in Nat  BY HistoryCacheAssumption DEF HistoryCacheAssumption
  <2> QED  BY <1>2, <1>4, <2>1 DEF Waiting
<1>6. Uncounted = {}
  <2>1. \A w \in Writers : Len(writer[w].rest) + 1 .. writer[w].total = {}
    <3> TAKE w \in Writers
    <3>1. writer[w].total = 0 /\ Len(writer[w].rest) = 0  BY <1>2, <1>4
    <3> QED  BY <3>1
  <2> QED  BY <2>1 DEF Uncounted
<1>7. Size(history_items) = 0
  <2>1. \A i \in Items : {i} \X DOMAIN history_items[i] = {}  BY <1>2
  <2>2. UNION {{i} \X DOMAIN history_items[i] : i \in Items} = {}  BY <2>1
  <2> QED  BY <2>2, FS_EmptySet DEF Size
<1>8. HistoryNum
  <2>1. Cardinality(Uncounted) = 0  BY <1>6, FS_EmptySet
  <2> QED  BY <1>2, <1>7, <2>1 DEF HistoryNum
<1>9. Processing
  <2>1. Working = {}  BY <1>3 DEF Working
  <2>2. Cardinality(Working) = 0  BY <2>1, FS_EmptySet
  <2>3. Cardinality(Syncers) \in Nat
    BY FS_CardinalityType, HistoryCacheAssumption DEF HistoryCacheAssumption
  <2> QED  BY <1>2, <2>2, <2>3 DEF Processing
<1> QED  BY <1>1, <1>2, <1>5, <1>8, <1>9 DEF CountInv, Abandoned

\* A step of a pass.
LEMMA PassCounted ==
    ASSUME CountInv, ItemInv', NEW s \in Procs, Pass(s)
    PROVE  CountInv'
<1>1. PICK B : syncer \in [Procs -> States(B)]
  BY DEF CountInv, ItemInv, LockInv, Shape
<1>2. syncer[s].pc \in {"pop", "lock", "return", "write", "timers", "evaluate", "push"}
  BY DEF Pass, PopItems, LockTriggers, ReturnItems, WriteHistory, GetTimers, Evaluate, PushItems, At
<1>3. ~Abandoned
  BY <1>2 DEF CountInv, ItemInv, LockInv, Abandoned, At, Procs
<1>4. Waiting(writer)' /\ history_num' \in Int /\ HistoryNum'
  <2>1. Types'  BY DEF ItemInv
  <2> QED  BY <1>3, <2>1, PassCounts DEF CountInv
<1>5. PICK x : Turns(s, x)  BY <1>3, PassTurns DEF CountInv
<1>6. Processing'
  <2>1. processing_num \in Nat  BY ProcessingNat DEF CountInv
  <2> QED  BY <1>1, <1>5, <2>1, ProcessingStep DEF CountInv, Turns
<1>7. /\ server' = server /\ syncer'[s] = x
      /\ \A r \in Procs \ {s} : syncer'[r] = syncer[r]
  BY <1>1, <1>5 DEF Turns
<1>8. ~Abandoned'
  <2>1. CASE s = Main  BY <1>5, <1>7, <2>1 DEF Abandoned, At, Turns
  <2>2. CASE s # Main
    <3>1. syncer'[Main] = syncer[Main]  BY <1>7, <2>2 DEF Procs
    <3> QED  BY <1>3, <1>7, <3>1 DEF Abandoned, At
  <2> QED  BY <2>1, <2>2
<1>9. ASSUME server' = "killed", NEW r \in Syncers PROVE At(r, "done")'
  <2>1. At(r, "done") /\ r \in Procs  BY <1>7, <1>9 DEF CountInv, Procs
  <2>2. r # s  BY <1>2, <2>1 DEF At
  <2> QED  BY <1>7, <2>1, <2>2 DEF At
<1> QED  BY <1>4, <1>6, <1>7, <1>8, <1>9 DEF CountInv

\* The processes are killed: the batches of syncers stay counted.
LEMMA KillCounted ==
    ASSUME CountInv, ItemInv', Kill
    PROVE  CountInv'
<1>1. /\ syncer[Main].pc = "off" /\ server # "killed" /\ server' = "killed"
      /\ writer' = [w \in Writers |-> NothingToAdd]
      /\ syncer' = [s \in Procs |-> IF s = Main THEN syncer[s] ELSE [Idle EXCEPT !.pc = "done"]]
      /\ UNCHANGED <<busy, locked, history_num, processing_num>>
  BY DEF Kill, At, cache
<1>2. Main \in Procs /\ Procs = Syncers \cup {Main} /\ Main \notin Syncers
  BY HistoryCacheAssumption DEF Procs, HistoryCacheAssumption
<1>3. syncer[Main].batch = {}
  <2>1. Sound(syncer[Main], history_items, busy, log.stale, db.meta)
    BY <1>2, HeldIn DEF CountInv
  <2> QED  BY <1>1, <2>1 DEF Sound
<1>4. Waiting(writer)'
  <2>1. NothingToAdd \in [rest : Seq(Entry), total : Nat]
        /\ NothingToAdd.total = 0 /\ Len(NothingToAdd.rest) = 0
    BY EmptySeq DEF NothingToAdd
  <2>2. MaxFlush \in Nat  BY HistoryCacheAssumption DEF HistoryCacheAssumption
  <2> QED  BY <1>1, <2>1, <2>2 DEF Waiting
<1>5. HistoryNum'  BY <1>1 DEF HistoryNum
<1>6. Processing'
  <2>1. \A s \in Procs : syncer'[s].batch = {}  BY <1>1, <1>3 DEF Idle
  <2>2. Working' = {}  BY <2>1 DEF Working
  <2>3. Cardinality(Working') = 0  BY <2>2, FS_EmptySet
  <2>4. processing_num = Cardinality(Working)
    <3>1. PICK lost \in 0 .. Cardinality(Syncers) :
            processing_num = Cardinality(Working) + lost /\ lost = 0
      BY <1>1 DEF CountInv, Processing
    <3>2. Cardinality(Working) \in Nat  BY ProcessingNat DEF CountInv
    <3> QED  BY <3>1, <3>2
  <2>5. Cardinality(Working) <= Cardinality(Syncers)
    <3>1. Working \subseteq Syncers  BY <1>2, <1>3 DEF Working
    <3>2. IsFiniteSet(Syncers)  BY HistoryCacheAssumption DEF HistoryCacheAssumption
    <3> QED  BY <3>1, <3>2, FS_Subset
  <2>6. Cardinality(Working) \in Nat /\ Cardinality(Syncers) \in Nat
    BY ProcessingNat DEF CountInv
  <2>7. processing_num \in 0 .. Cardinality(Syncers) /\ processing_num' = 0 + processing_num
    BY <1>1, <2>4, <2>5, <2>6
  <2> QED  BY <1>1, <2>3, <2>7 DEF Processing
<1>7. \A s \in Syncers : At(s, "done")'
  BY <1>1, <1>2 DEF At, Idle
<1>8. busy' \subseteq Items /\ locked' \subseteq Triggers
  <2>1. ~Abandoned  BY <1>1 DEF Abandoned
  <2> QED  BY <1>1, <2>1, InUse DEF CountInv
<1> QED  BY <1>1, <1>4, <1>5, <1>6, <1>7, <1>8 DEF CountInv

\* The main process starts the last sync without a batch.
LEMMA FullSyncCounted ==
    ASSUME CountInv, ItemInv', FullSync
    PROVE  CountInv'
<1>1. PICK B : syncer \in [Procs -> States(B)]
  BY DEF CountInv, ItemInv, LockInv, Shape
<1>2. /\ locked' = {} /\ busy' = {}
      /\ syncer' = [syncer EXCEPT ![Main].pc = IF Cached = {} THEN "done" ELSE "pop"]
      /\ UNCHANGED <<history_items, history_num, processing_num, writer, server, log>>
  BY DEF FullSync
<1>3. Waiting(writer)' /\ HistoryNum' /\ history_num' \in Int
  <2>1. Types'  BY DEF ItemInv
  <2>2. history_num' - Size(history_items') = history_num - Size(history_items)  BY <1>2
  <2>3. history_num' \in Int /\ log'.merged = log.merged  BY <1>2 DEF CountInv
  <2> QED  BY <1>2, <2>1, <2>2, <2>3, OthersCount DEF CountInv
<1>4. \A s \in Procs : syncer'[s].batch = syncer[s].batch /\ (s # Main => syncer'[s] = syncer[s])
  BY <1>1, <1>2 DEF States
<1>5. Processing'
  <2>1. Working' = Working  BY <1>4 DEF Working
  <2> QED  BY <1>2, <2>1 DEF CountInv, Processing
<1>6. ASSUME server' = "killed", NEW r \in Syncers PROVE At(r, "done")'
  <2>1. At(r, "done") /\ r \in Procs  BY <1>2, <1>6 DEF CountInv, Procs
  <2>2. r # Main  BY HistoryCacheAssumption DEF HistoryCacheAssumption
  <2> QED  BY <1>4, <2>1, <2>2 DEF At
<1> QED  BY <1>2, <1>3, <1>5, <1>6 DEF CountInv

\* The runtime command clears an item: what goes is counted.
LEMMA ClearCounted ==
    ASSUME CountInv, ItemInv', NEW i \in Items, HistoryCacheClear(i)
    PROVE  CountInv'
<1>1. /\ history_num' = history_num - (Size(history_items) - Size(history_items'))
      /\ UNCHANGED <<busy, processing_num, locked, writer, syncer, server>>
      /\ log' = [log EXCEPT !.given = GivenUp]
  BY DEF HistoryCacheClear, ClearItemMiddle
<1>2. log'.merged = log.merged  BY <1>1, GivenOnly DEF CountInv, ItemInv, Types
<1>3. Waiting(writer)' /\ HistoryNum' /\ history_num' \in Int
  <2> DEFINE p == Size(history_items)
             q == Size(history_items')
             a == history_num
             b == history_num'
  <2>1. Types'  BY DEF ItemInv
  <2>2. p \in Nat /\ q \in Nat /\ a \in Int /\ b = a - (p - q)
    BY <1>1, SizeCells DEF ItemInv, CountInv, Types, Recs
  <2> HIDE DEF p, q, a, b
  <2>3. b - q = a - p /\ b \in Int  BY <2>2
  <2>4. history_num' - Size(history_items') = history_num - Size(history_items)
        /\ history_num' \in Int
    BY <2>3 DEF p, q, a, b
  <2> QED  BY <1>1, <1>2, <2>1, <2>4, OthersCount DEF CountInv
<1>4. Processing'  BY <1>1 DEF CountInv, Processing, Working
<1>5. Abandoned' <=> Abandoned  BY <1>1 DEF Abandoned, At
<1> QED  BY <1>1, <1>3, <1>4, <1>5 DEF CountInv, At

LEMMA CountNext == CountInv /\ [Next]_vars => CountInv'
<1> SUFFICES ASSUME CountInv, [Next]_vars PROVE CountInv'
  OBVIOUS
<1>1. ItemInv'  BY ItemNext DEF CountInv
<1>2. /\ server \in {"running", "stopping", "killed"} /\ Waiting(writer)
  BY DEF CountInv
<1>3. ASSUME NEW w \in Writers, RetryAdd(w) PROVE CountInv'
  <2>1. writer[w].rest \in Seq(Entry) /\ writer[w].total \in Nat
        /\ Len(writer[w].rest) <= writer[w].total /\ writer[w].total <= MaxFlush
    BY <1>2 DEF Waiting
  <2>2. server # "killed" /\ Add(w, writer[w].rest, writer[w].total)
    BY <1>3 DEF RetryAdd
  <2> QED  BY <1>1, <2>1, <2>2, AddCounted
<1>4. ASSUME NEW w \in Writers, NEW records \in Batches, FlushHistory(w, records) PROVE CountInv'
  <2> DEFINE k == Len(records)
  <2>1. MaxFlush \in Nat  BY HistoryCacheAssumption DEF HistoryCacheAssumption
  <2>2. records \in Seq(Entry) /\ k \in 1 .. MaxFlush  BY BatchesTyped
  <2>3. server # "killed" /\ Add(w, records, k) /\ writer[w] = NothingToAdd
    BY <1>4 DEF FlushHistory
  <2>4. writer[w].total - Len(writer[w].rest) = 0
    <3>1. writer[w].total = 0 /\ Len(writer[w].rest) = 0  BY <2>3, EmptySeq DEF NothingToAdd
    <3> QED  BY <3>1
  <2>5. k \in Nat /\ k <= k /\ k <= MaxFlush /\ k - k = 0
    <3> HIDE DEF k
    <3> QED  BY <2>1, <2>2
  <2> QED  BY <1>1, <2>2, <2>3, <2>4, <2>5, AddCounted
<1>5. ASSUME NEW t \in Timed, TimerDue(t) PROVE CountInv'
  <2>1. PICK X : log \in [received : [Items -> Nat], given : X, merged : Nat, stale : X,
                          fired : X, evaluated : X]
    BY DEF CountInv, ItemInv, Types, Numbers
  <2>2. PICK f : log' = [log EXCEPT !.fired = f]  BY <1>5 DEF TimerDue
  <2>3. log'.merged = log.merged  BY <2>1, <2>2
  <2> QED  BY <1>1, <1>2, <1>5, <2>3, CountsSame DEF TimerDue, cache
<1>6. CASE Stop
  <2>1. server = "running" /\ server' = "stopping" /\ UNCHANGED <<cache, locked, writer, syncer, log>>
    BY <1>6 DEF Stop
  <2> QED  BY <1>1, <2>1, CountsSame DEF cache
<1>7. CASE UNCHANGED vars
  BY <1>1, <1>2, <1>7, CountsSame DEF vars, cache
<1>8. ASSUME NEW w \in Writers, SleepOn(w) PROVE UNCHANGED vars
  BY <1>8 DEF SleepOn
<1>9. Ended => UNCHANGED vars  BY DEF Ended
<1>10. ASSUME NEW i \in Items, HistoryCacheClear(i) PROVE CountInv'
  BY <1>1, <1>10, ClearCounted
<1>11. ASSUME NEW s \in Procs, Pass(s) PROVE CountInv'
  BY <1>1, <1>11, PassCounted
<1>12. CASE Kill  BY <1>1, <1>12, KillCounted
<1>13. CASE FullSync  BY <1>1, <1>13, FullSyncCounted
<1> QED
  BY <1>3, <1>4, <1>5, <1>6, <1>7, <1>8, <1>9, <1>10, <1>11, <1>12, <1>13 DEF Next

\* The cache's counter of values: for any number of writers, syncers and records
\* it is the number of records in the cache, plus the metadata that
\* hc_add_item_value merged and zbx_dc_flush_history counted all the same, less
\* what a writer that waits for memory has added and not counted yet.
THEOREM ValuesCounted == Spec => []HistoryNum
<1>1. CountInv => HistoryNum  BY DEF CountInv
<1> QED  BY <1>1, CountInit, CountNext, PTL DEF Spec

\* Every variable has its type: the cache never holds more records than it has
\* memory for, and its counter of batches is never negative and never greater
\* than the number of processes, syncers that were killed included.
THEOREM CacheTypes == Spec => []TypeOK
<1>1. CountInv /\ TimerInv => TypeOK
  <2> SUFFICES ASSUME CountInv, TimerInv PROVE TypeOK
    OBVIOUS
  <2>1. PICK B : syncer \in [Procs -> States(B)]
    BY DEF CountInv, ItemInv, LockInv, Shape
  <2>2. syncer \in [Procs -> State]
    <3> SUFFICES ASSUME NEW s \in Procs PROVE syncer[s] \in State
      BY <2>1
    <3>1. Sound(syncer[s], history_items, busy, log.stale, db.meta)
      BY HeldIn DEF CountInv
    <3>2. /\ syncer[s].batch \in SUBSET Items /\ syncer[s].ready \in SUBSET Items
          /\ syncer[s].trig \in SUBSET Triggers
      BY <3>1 DEF Sound
    <3> QED  BY <2>1, <3>2 DEF States, State, PCs
  <2>3. processing_num \in 0 .. Cardinality(Procs)
    <3> DEFINE m == Cardinality(Working)
               n == Cardinality(Syncers)
               a == Cardinality(Procs)
    <3>1. PICK lost \in 0 .. n : processing_num = m + lost /\ (server # "killed" => lost = 0)
      BY DEF CountInv, Processing
    <3>2. /\ m \in Nat /\ n \in Nat /\ a = n + 1
          /\ IsFiniteSet(Procs) /\ Working \subseteq Procs
      BY ProcessingNat DEF CountInv
    <3>3. m <= a  BY <3>2, FS_Subset
    <3>4. server = "killed" => m <= 1
      <4> SUFFICES ASSUME server = "killed" PROVE m <= 1
        OBVIOUS
      <4>1. \A s \in Syncers : syncer[s].batch = {}
        <5> TAKE s \in Syncers
        <5>1. s \in Procs /\ syncer[s].pc = "done"  BY DEF CountInv, At, Procs
        <5>2. Sound(syncer[s], history_items, busy, log.stale, db.meta)
          BY <5>1, HeldIn DEF CountInv
        <5> QED  BY <5>1, <5>2 DEF Sound
      <4>2. Working \subseteq {Main}  BY <4>1 DEF Working, Procs
      <4>3. IsFiniteSet({Main}) /\ Cardinality({Main}) = 1  BY FS_Singleton
      <4> QED  BY <4>2, <4>3, FS_Subset
    <3> HIDE DEF m, n, a
    <3>5. m + lost \in 0 .. a  BY <3>1, <3>2, <3>3, <3>4
    <3> QED  BY <3>1, <3>5 DEF a
  <2>4. busy \subseteq Items /\ locked \subseteq Triggers
    BY InUse DEF CountInv
  <2>5. \A w \in Writers : /\ writer[w].total \in 0 .. MaxFlush
                            /\ Len(writer[w].rest) <= writer[w].total
    <3>1. MaxFlush \in Nat  BY HistoryCacheAssumption DEF HistoryCacheAssumption
    <3>2. Waiting(writer)  BY DEF CountInv
    <3> QED  BY <3>1, <3>2 DEF Waiting
  <2>6. /\ history_items \in [Items -> Seq([n : Nat \ {0}, value : BOOLEAN, meta : Nat])]
        /\ Size(history_items) <= MemSize /\ history_queue \subseteq Items
    BY DEF CountInv, ItemInv, Types, Recs, Rec
  <2>7. timers \in [Timed -> {"future", "due", "held", "saved", "dropped"}]
    BY DEF TimerInv, TimerStates
  <2> QED  BY <2>2, <2>3, <2>4, <2>5, <2>6, <2>7 DEF TypeOK, CountInv
<1> QED  BY <1>1, CountInit, CountNext, TimerInit, TimerNext, PTL DEF Spec
=============================================================================
