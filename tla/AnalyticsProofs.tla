---------------------------- MODULE AnalyticsProofs ----------------------------
(***************************************************************************)
(* For every review file, every set of mentions, scopes, loaders and        *)
(* readers: a load that ends is complete, the pages agree with what earlier *)
(* pages have shown, and a comparison reported as complete is one.  All of  *)
(* it rests on what the writers never do: take back a row or disable a SKU. *)
(* The parts of a page add up to a number between two states of the tables, *)
(* and what the loaders counted adds up to the rows they have added.        *)
(***************************************************************************)
EXTENDS Analytics, FiniteSetTheorems, TLAPS

-----------------------------------------------------------------------------
(* Sums: the operator Total is a recursion over the subsets of a domain.  A *)
(* set of subsets that is closed under adding an element takes the place of *)
(* the induction hypothesis.                                                *)

\* A set of subsets of a finite set that holds the empty set, and every set that
\* it holds without one of its elements, holds the whole set.
LEMMA SubsetInduction ==
    ASSUME NEW S, IsFiniteSet(S), NEW G, {} \in G,
           \A T \in SUBSET S : T # {} /\ (\A x \in T : T \ {x} \in G) => T \in G
    PROVE  S \in G
<1>1. IsWellFoundedOn(StrictSubsetOrdering(S), FiniteSubsetsOf(S))
  BY FS_StrictSubsetOrderingWellFounded
<1> SUFFICES ASSUME S \notin G PROVE FALSE
  OBVIOUS
<1> DEFINE B == {T \in SUBSET S : T \notin G}
<1>2. B \subseteq FiniteSubsetsOf(S) /\ B # {}
  BY FS_Subset DEF FiniteSubsetsOf
<1>3. PICK T \in B : \A y \in B : ~(<<y, T>> \in StrictSubsetOrdering(S))
  <2> HIDE DEF B
  <2> QED
    BY <1>1, <1>2, WFMin
<1>4. T # {} /\ T \in SUBSET S
  BY <1>3
<1>5. ASSUME NEW x \in T PROVE T \ {x} \notin B
  <2>1. T \ {x} \subseteq T /\ T \ {x} # T /\ T \ {x} \in SUBSET S
    BY <1>3, <1>4
  <2> QED
    BY <1>3, <2>1 DEF StrictSubsetOrdering
<1> QED
  BY <1>3, <1>4, <1>5

\* A function that starts at 0 and grows by rows[x] with every x is the sum.
LEMMA TotalIs ==
    ASSUME NEW rows, IsFiniteSet(DOMAIN rows), NEW F, F[{}] = 0,
           F = [s \in SUBSET DOMAIN rows |-> F[s]],
           \A s \in SUBSET DOMAIN rows : \A x \in s : F[s] = rows[x] + F[s \ {x}]
    PROVE  Total(rows) = F[DOMAIN rows]
<1> DEFINE D == DOMAIN rows
           Rec(f) == f = [s \in SUBSET D |->
                        IF s = {} THEN 0
                        ELSE LET x == CHOOSE x \in s : TRUE IN rows[x] + f[s \ {x}]]
           iter == CHOOSE f : Rec(f)
<1>1. Rec(F)
  <2>1. ASSUME NEW s \in SUBSET D
        PROVE  F[s] = IF s = {} THEN 0
                      ELSE LET x == CHOOSE x \in s : TRUE IN rows[x] + F[s \ {x}]
    OBVIOUS
  <2> QED
    BY <2>1
<1>2. Rec(iter)
  <2> HIDE DEF Rec
  <2> QED
    BY <1>1
<1>3. \A s \in SUBSET D :
         iter[s] = IF s = {} THEN 0
                   ELSE LET x == CHOOSE x \in s : TRUE IN rows[x] + iter[s \ {x}]
  <2> HIDE DEF iter
  <2> QED
    BY <1>2
<1>4. Total(rows) = iter[D]
  BY DEF Total, MapThenSumSet, MapThenFoldSet
<1> DEFINE G == {s \in SUBSET D : iter[s] = F[s]}
<1>5. {} \in G
  <2> HIDE DEF iter
  <2> QED
    BY <1>3
<1>6. ASSUME NEW T \in SUBSET D, \A x \in T : T \ {x} \in G, T # {}
      PROVE  T \in G
  <2> HIDE DEF iter
  <2> DEFINE x == CHOOSE x \in T : TRUE
  <2>1. x \in T
    BY <1>6
  <2>2. iter[T] = rows[x] + iter[T \ {x}]
    BY <1>3, <1>6
  <2> HIDE DEF x
  <2>3. F[T] = rows[x] + F[T \ {x}]
    BY <2>1
  <2> QED
    BY <1>6, <2>1, <2>2, <2>3
<1>7. D \in G
  <2> HIDE DEF iter, D, G
  <2> QED
    BY <1>5, <1>6, SubsetInduction DEF D
<1> QED
  BY <1>4, <1>7

LEMMA DisjointUnionSize ==
    ASSUME NEW A, NEW B, IsFiniteSet(A), IsFiniteSet(B), A \cap B = {}
    PROVE  Cardinality(A \cup B) = Cardinality(A) + Cardinality(B)
<1>1. Cardinality(A \cap B) = 0
  BY FS_EmptySet
<1>2. Cardinality(A) \in Nat /\ Cardinality(B) \in Nat
  BY FS_CardinalityType
<1>3. Cardinality(A \cup B) = Cardinality(A) + Cardinality(B) - Cardinality(A \cap B)
  BY FS_Union
<1> QED
  BY <1>1, <1>2, <1>3

\* The class sizes of a partition add up to the size of the set.
LEMMA TotalOfClasses ==
    ASSUME NEW M, IsFiniteSet(M), NEW key, DOMAIN key = M, NEW rows, IsFiniteSet(DOMAIN rows),
           \A m \in M : key[m] \in DOMAIN rows,
           \A g \in DOMAIN rows : rows[g] = Cardinality({m \in M : key[m] = g})
    PROVE  Total(rows) = Cardinality(M)
<1> DEFINE D == DOMAIN rows
           In(s) == {m \in M : key[m] \in s}
           F == [s \in SUBSET D |-> Cardinality(In(s))]
<1>1. F[{}] = 0
  <2>1. In({}) = {}
    OBVIOUS
  <2> QED
    BY <2>1, FS_EmptySet
<1>2. ASSUME NEW s \in SUBSET D, NEW x \in s PROVE F[s] = rows[x] + F[s \ {x}]
  <2> DEFINE A == {m \in M : key[m] = x}
             B == In(s \ {x})
  <2>1. IsFiniteSet(A) /\ IsFiniteSet(B)
    BY FS_Subset
  <2>2. In(s) = A \cup B /\ A \cap B = {}
    OBVIOUS
  <2>3. Cardinality(A \cup B) = Cardinality(A) + Cardinality(B)
    <3> HIDE DEF A, B
    <3> QED
      BY <2>1, <2>2, DisjointUnionSize
  <2>4. F[s] = Cardinality(In(s)) /\ F[s \ {x}] = Cardinality(B)
    OBVIOUS
  <2>5. rows[x] = Cardinality(A)
    OBVIOUS
  <2> HIDE DEF F, A, B, In
  <2> QED
    BY <2>2, <2>3, <2>4, <2>5
<1>3. F[D] = Cardinality(M)
  <2>1. In(D) = M
    OBVIOUS
  <2> QED
    BY <2>1
<1>4. F = [s \in SUBSET D |-> F[s]]
  OBVIOUS
<1> HIDE DEF F
<1> QED
  BY <1>1, <1>2, <1>3, <1>4, TotalIs

LEMMA ImageIsFinite ==
    ASSUME NEW M, IsFiniteSet(M), NEW key, DOMAIN key = M
    PROVE  IsFiniteSet({key[m] : m \in M})
<1> DEFINE T == {key[m] : m \in M}
           f == [m \in M |-> key[m]]
<1>1. f \in Surjection(M, T)
  BY DEF Surjection
<1> QED
  BY <1>1, FS_Surjection

LEMMA TotalOfAllClasses ==
    ASSUME NEW M, IsFiniteSet(M), NEW key, DOMAIN key = M, NEW rows,
           DOMAIN rows = {key[m] : m \in M},
           \A g \in DOMAIN rows : rows[g] = Cardinality({m \in M : key[m] = g})
    PROVE  Total(rows) = Cardinality(M)
<1>1. IsFiniteSet(DOMAIN rows)
  BY ImageIsFinite
<1>2. \A m \in M : key[m] \in DOMAIN rows
  OBVIOUS
<1> QED
  BY <1>1, <1>2, TotalOfClasses

\* F is the sum of f over every subset of D.
SumsOf(f, D, F) ==
    /\ F \in [SUBSET D -> Int]
    /\ F[{}] = 0
    /\ \A s \in SUBSET D : \A x \in s : F[s] = f[x] + F[s \ {x}]

LEMMA SumsExist ==
    ASSUME NEW D, IsFiniteSet(D), NEW f \in [D -> Int]
    PROVE  \E F : SumsOf(f, D, F)
<1> DEFINE G == {T \in SUBSET D : \E F : SumsOf(f, T, F)}
<1>1. {} \in G
  <2> DEFINE F == [s \in SUBSET {} |-> 0]
  <2>1. SumsOf(f, {}, F)
    BY DEF SumsOf
  <2> QED
    BY <2>1
<1>2. ASSUME NEW T \in SUBSET D, T # {}, \A x \in T : T \ {x} \in G
      PROVE  T \in G
  <2>1. PICK x \in T : TRUE
    BY <1>2
  <2>2. PICK E : SumsOf(f, T \ {x}, E)
    BY <1>2, <2>1
  <2> DEFINE F == [s \in SUBSET T |-> IF x \in s THEN f[x] + E[s \ {x}] ELSE E[s]]
  <2>3. /\ E \in [SUBSET (T \ {x}) -> Int] /\ E[{}] = 0
        /\ \A s \in SUBSET (T \ {x}) : \A y \in s : E[s] = f[y] + E[s \ {y}]
    BY <2>2 DEF SumsOf
  <2>4. \A s \in SUBSET T : s \ {x} \in SUBSET (T \ {x}) /\ (x \notin s => s \ {x} = s)
    OBVIOUS
  <2>5. \A y \in T : f[y] \in Int
    OBVIOUS
  <2>6. F \in [SUBSET T -> Int]
    <3> SUFFICES ASSUME NEW s \in SUBSET T PROVE F[s] \in Int
      OBVIOUS
    <3>1. E[s \ {x}] \in Int
      BY <2>3, <2>4
    <3> QED
      BY <2>1, <2>4, <2>5, <3>1
  <2>7. F[{}] = 0
    BY <2>3
  <2>8. ASSUME NEW s \in SUBSET T, NEW y \in s PROVE F[s] = f[y] + F[s \ {y}]
    <3>1. CASE x \notin s
      <4>1. s \in SUBSET (T \ {x}) /\ s \ {y} \in SUBSET T /\ x \notin s \ {y}
        BY <3>1
      <4>2. F[s] = E[s] /\ F[s \ {y}] = E[s \ {y}]
        BY <3>1, <4>1
      <4> HIDE DEF F
      <4> QED
        BY <2>3, <4>1, <4>2
    <3>2. CASE y = x
      <4>1. s \ {y} \in SUBSET T /\ x \notin s \ {y}
        BY <3>2
      <4>2. F[s] = f[x] + E[s \ {x}] /\ F[s \ {y}] = E[s \ {x}]
        BY <3>2, <4>1
      <4> HIDE DEF F
      <4> QED
        BY <3>2, <4>2
    <3>3. CASE x \in s /\ y # x
      <4> DEFINE u == s \ {x}
                 v == (s \ {y}) \ {x}
      <4>1. s \ {y} \in SUBSET T /\ x \in s \ {y} /\ y \in u /\ v = u \ {y}
            /\ u \in SUBSET (T \ {x}) /\ v \in SUBSET (T \ {x})
        BY <3>3
      <4>2. F[s] = f[x] + E[u] /\ F[s \ {y}] = f[x] + E[v]
        BY <3>3, <4>1
      <4>3. E[u] = f[y] + E[u \ {y}]
        <5> HIDE DEF u
        <5> QED
          BY <2>3, <4>1
      <4>4. E[v] \in Int /\ f[x] \in Int /\ f[y] \in Int
        <5> HIDE DEF v
        <5> QED
          BY <2>1, <2>3, <2>5, <4>1
      <4> HIDE DEF F, u, v
      <4> QED
        BY <4>1, <4>2, <4>3, <4>4
    <3> QED
      BY <3>1, <3>2, <3>3
  <2>9. SumsOf(f, T, F)
    <3> HIDE DEF F
    <3> QED
      BY <2>6, <2>7, <2>8 DEF SumsOf
  <2> QED
    BY <2>9
<1>3. D \in G
  <2> HIDE DEF G
  <2> QED
    BY <1>1, <1>2, SubsetInduction
<1> QED
  BY <1>3

LEMMA TotalIsSum ==
    ASSUME NEW D, IsFiniteSet(D), NEW f \in [D -> Int], NEW F, SumsOf(f, D, F)
    PROVE  Total(f) = F[D] /\ Total(f) \in Int
<1>1. DOMAIN f = D
  OBVIOUS
<1>2. /\ F[{}] = 0 /\ F = [s \in SUBSET D |-> F[s]] /\ F[D] \in Int
      /\ \A s \in SUBSET D : \A x \in s : F[s] = f[x] + F[s \ {x}]
  BY DEF SumsOf
<1> QED
  BY <1>1, <1>2, TotalIs

\* One summand changes: the total changes by as much.
LEMMA TotalChanges ==
    ASSUME NEW D, IsFiniteSet(D), NEW f \in [D -> Int], NEW g \in [D -> Int], NEW x \in D,
           \A y \in D \ {x} : g[y] = f[y]
    PROVE  /\ Total(f) \in Int /\ Total(g) \in Int
           /\ Total(g) = Total(f) + (g[x] - f[x])
<1>1. PICK F : SumsOf(f, D, F)
  BY SumsExist
<1> DEFINE E == [s \in SUBSET D |-> IF x \in s THEN F[s] + (g[x] - f[x]) ELSE F[s]]
<1>2. /\ F \in [SUBSET D -> Int] /\ F[{}] = 0
      /\ \A s \in SUBSET D : \A y \in s : F[s] = f[y] + F[s \ {y}]
  BY <1>1 DEF SumsOf
<1>3. \A y \in D : f[y] \in Int /\ g[y] \in Int
  OBVIOUS
<1>4. E \in [SUBSET D -> Int] /\ E[{}] = 0 /\ E[D] = F[D] + (g[x] - f[x])
  BY <1>2, <1>3
<1>5. ASSUME NEW s \in SUBSET D, NEW y \in s PROVE E[s] = g[y] + E[s \ {y}]
  <2>1. s \ {y} \in SUBSET D /\ F[s] = f[y] + F[s \ {y}] /\ F[s \ {y}] \in Int
    BY <1>2
  <2>2. f[y] \in Int /\ g[y] \in Int /\ f[x] \in Int /\ g[x] \in Int
    BY <1>3
  <2>3. CASE y = x
    <3>1. E[s] = F[s] + (g[x] - f[x]) /\ E[s \ {y}] = F[s \ {y}]
      BY <2>1, <2>3
    <3> HIDE DEF E
    <3> QED
      BY <2>1, <2>2, <2>3, <3>1
  <2>4. CASE y # x /\ x \in s
    <3>1. /\ E[s] = F[s] + (g[x] - f[x]) /\ E[s \ {y}] = F[s \ {y}] + (g[x] - f[x])
          /\ g[y] = f[y]
      BY <2>1, <2>4
    <3> HIDE DEF E
    <3> QED
      BY <2>1, <2>2, <3>1
  <2>5. CASE x \notin s
    <3>1. E[s] = F[s] /\ E[s \ {y}] = F[s \ {y}] /\ g[y] = f[y]
      BY <2>1, <2>5
    <3> HIDE DEF E
    <3> QED
      BY <2>1, <3>1
  <2> QED
    BY <2>3, <2>4, <2>5
<1>6. SumsOf(g, D, E)
  <2> HIDE DEF E
  <2> QED
    BY <1>4, <1>5 DEF SumsOf
<1>7. Total(f) = F[D] /\ F[D] \in Int
  BY <1>1, <1>2, TotalIsSum
<1>8. Total(g) = E[D]
  <2> HIDE DEF E
  <2> QED
    BY <1>6, TotalIsSum
<1> QED
  BY <1>3, <1>4, <1>7, <1>8

-----------------------------------------------------------------------------
(* The loader. *)

LEMMA LineType ==
    ASSUME LoaderAssumption, NEW i \in DOMAIN File
    PROVE  File[i] \in Line
BY DEF LoaderAssumption

LEMMA BatchCounts ==
    ASSUME LoaderAssumption, NEW B \in SUBSET DOMAIN File
    PROVE  /\ IsFiniteSet(B) /\ Cardinality(B) \in Nat
           /\ IsFiniteSet(NewIds(B)) /\ Cardinality(NewIds(B)) \in Nat
           /\ NewIds(B) \subseteq Nat
<1>1. IsFiniteSet(1..Len(File)) /\ DOMAIN File = 1..Len(File)
  BY FS_Interval DEF LoaderAssumption
<1>2. IsFiniteSet(B)
  BY <1>1, FS_Subset
<1>3. IsFiniteSet({File[i].ext : i \in B})
  <2> DEFINE T == {File[i].ext : i \in B}
             f == [i \in B |-> File[i].ext]
  <2>1. f \in Surjection(B, T)
    BY DEF Surjection
  <2> QED
    BY <1>2, <2>1, FS_Surjection
<1>4. IsFiniteSet(NewIds(B))
  BY <1>3, FS_Subset DEF NewIds
<1>5. NewIds(B) \subseteq Nat
  <2> SUFFICES ASSUME NEW i \in B PROVE File[i].ext \in Nat
    BY DEF NewIds
  <2> QED
    BY LineType DEF Line
<1> QED
  BY <1>2, <1>4, <1>5, FS_CardinalityType

LEMMA LoaderTypeInit == LoaderInit => LoaderTypeOK
BY LoaderAssumption DEF LoaderInit, LoaderTypeOK, LoaderAssumption, Load, Idle

LEMMA LoaderTypeStep == LoaderTypeOK /\ LoaderNext => LoaderTypeOK'
<1> SUFFICES ASSUME LoaderTypeOK, LoaderNext PROVE LoaderTypeOK'
  OBVIOUS
<1> USE LoaderAssumption DEF LoaderTypeOK
<1>1. CASE Seed
  BY <1>1 DEF Seed
<1>2. ASSUME NEW l \in Loaders, LoaderStep(l) PROVE LoaderTypeOK'
  <2> DEFINE me == load[l]
  <2>0. me \in Load
    OBVIOUS
  <2>1. CASE StartLoad(l)
    <3>1. PICK limit \in Limits, dry \in BOOLEAN :
             load' = [load EXCEPT ![l] = [Idle EXCEPT !.pc = "scan", !.limit = limit,
                                                      !.dry = dry, !.skus = enabled]]
      BY <2>1 DEF StartLoad
    <3>2. [Idle EXCEPT !.pc = "scan", !.limit = limit, !.dry = dry, !.skus = enabled]
             \in Load
      <4>1. limit \in Nat /\ Idle \in Load
        BY DEF LoaderAssumption, Load, Idle
      <4> QED
        BY <4>1 DEF Load
    <3> QED
      BY <2>1, <3>1, <3>2 DEF StartLoad
  <2>2. CASE ScanLine(l)
    <3>1. me.next + 1 \in Nat \ {0} /\ me.scanned + 1 \in Nat /\ me.noMatch + 1 \in Nat
          /\ me.tooShort + 1 \in Nat
      BY <2>0 DEF Load
    <3>2. me.next \in DOMAIN File
      BY <2>2, <2>0 DEF ScanLine, LoaderAssumption, Load
    <3>3. me.batch \cup {me.next} \in SUBSET DOMAIN File
      BY <3>2, <2>0 DEF Load
    <3>4. load'[l] \in Load
      BY <2>0, <2>2, <3>1, <3>3 DEF ScanLine, Load
    <3>5. load' = [load EXCEPT ![l] = load'[l]]
      BY <2>2 DEF ScanLine
    <3> QED
      BY <2>2, <3>4, <3>5 DEF ScanLine
  <2>3. CASE EndOfFile(l)
    BY <2>3, <2>0 DEF EndOfFile, Load
  <2>4. ASSUME NEW then \in {"scan", "done"}, InsertBatch(l, then)
        PROVE  documents' \subseteq Nat /\ load' \in [Loaders -> Load]
    <3>1. me.batch \in SUBSET DOMAIN File
      BY <2>0 DEF Load
    <3>2. /\ Cardinality(NewIds(me.batch)) \in Nat /\ Cardinality(me.batch) \in Nat
          /\ NewIds(me.batch) \subseteq Nat
      BY <3>1, BatchCounts
    <3> DEFINE n == Cardinality(NewIds(me.batch))
               after == [me EXCEPT !.inserted = @ + n,
                                   !.skipped = @ + (Cardinality(me.batch) - n),
                                   !.batch = {}, !.pc = then]
    <3>3. after \in Load
      <4>1. me.inserted + n \in Nat /\ me.skipped + (Cardinality(me.batch) - n) \in Int
        BY <2>0, <3>2 DEF Load
      <4> QED
        BY <2>0, <4>1 DEF Load
    <3>4. load' = [load EXCEPT ![l] = after]
      BY <2>4 DEF InsertBatch
    <3> QED
      BY <2>4, <3>2, <3>3, <3>4 DEF InsertBatch
  <2>5. CASE Flush(l)
    BY <2>4, <2>5 DEF Flush
  <2>6. CASE LastBatch(l)
    <3>1. CASE me.batch # {} /\ ~me.dry
      BY <2>4, <2>6, <3>1 DEF LastBatch
    <3>2. CASE ~(me.batch # {} /\ ~me.dry)
      <4>1. [me EXCEPT !.pc = "done"] \in Load
        BY <2>0 DEF Load
      <4> QED
        BY <2>6, <3>2, <4>1 DEF LastBatch
    <3> QED
      BY <3>1, <3>2
  <2>7. CASE StopLoad(l)
    <3>1. Idle \in Load /\ earlier + me.inserted \in Nat
      BY <2>0 DEF Load, Idle
    <3>2. load' \in [Loaders -> Load]
      BY <2>7, <3>1 DEF StopLoad
    <3>3. stops + 1 \in 0..MaxStops
      BY <2>7 DEF StopLoad, LoaderAssumption
    <3> QED
      BY <2>7, <3>1, <3>2, <3>3 DEF StopLoad
  <2> QED
    BY <1>2, <2>1, <2>2, <2>3, <2>5, <2>6, <2>7 DEF LoaderStep
<1> QED
  BY <1>1, <1>2 DEF LoaderNext

\* The writers only add.
LEMMA LoaderOnlyAdds ==
    ASSUME LoaderTypeOK, LoaderNext
    PROVE  enabled \subseteq enabled' /\ documents \subseteq documents'
<1>1. CASE Seed
  BY <1>1 DEF Seed, LoaderTypeOK
<1>2. ASSUME NEW l \in Loaders, LoaderStep(l)
      PROVE enabled \subseteq enabled' /\ documents \subseteq documents'
  BY <1>2 DEF LoaderStep, StartLoad, ScanLine, EndOfFile, Flush, LastBatch, StopLoad,
              InsertBatch
<1> QED
  BY <1>1, <1>2 DEF LoaderNext

\* Every usable line before the next one is in the batch or has its row; a load
\* without a limit leaves the loop only behind the last line.
Covered(l) ==
    \A i \in DOMAIN File :
        i < load[l].next /\ File[i].json /\ Usable(l, i) =>
            i \in load[l].batch \/ File[i].ext \in documents

LoadInv(l) ==
    load[l].limit = 0 /\ ~load[l].dry =>
        /\ Covered(l)
        /\ load[l].pc \in {"last", "done"} => load[l].next > Len(File)
        /\ load[l].pc = "done" => load[l].batch = {}

LoadsInv == \A l \in Loaders : LoadInv(l)

LEMMA LoadsInvInit == LoaderInit => LoadsInv
BY LoaderAssumption DEF LoaderInit, LoadsInv, LoadInv, Covered, Idle, LoaderAssumption

LEMMA LoadsInvStep == LoaderTypeOK /\ LoadsInv /\ LoaderNext => LoadsInv'
<1> SUFFICES ASSUME LoaderTypeOK, LoadsInv, LoaderNext PROVE LoadsInv'
  OBVIOUS
<1>0. documents \subseteq documents'
  BY LoaderOnlyAdds
<1>1. ASSUME NEW l \in Loaders, load'[l] = load[l] PROVE LoadInv(l)'
  <2>1. LoadInv(l)
    BY DEF LoadsInv
  <2> QED
    BY <1>0, <1>1, <2>1 DEF LoadInv, Covered, Usable
<1>2. CASE Seed
  BY <1>1, <1>2 DEF Seed, LoadsInv
<1>3. ASSUME NEW l \in Loaders, LoaderStep(l) PROVE LoadsInv'
  <2> DEFINE me == load[l]
             mine == load'[l]
  <2>0. me \in Load /\ LoadInv(l)
    BY DEF LoaderTypeOK, LoadsInv
  <2>1. \A k \in Loaders \ {l} : load'[k] = load[k]
    BY <1>3 DEF LoaderStep, StartLoad, ScanLine, EndOfFile, Flush, LastBatch, StopLoad,
                InsertBatch, LoaderTypeOK
  <2>2. SUFFICES LoadInv(l)'
    BY <1>1, <2>1 DEF LoadsInv
  <2>3. CASE StartLoad(l)
    <3>1. mine.next = 1 /\ mine.pc = "scan"
      BY <2>3 DEF StartLoad, LoaderTypeOK, Idle
    <3> QED
      BY <3>1, LoaderAssumption DEF LoadInv, Covered, LoaderAssumption
  <2>4. CASE ScanLine(l)
    <3> DEFINE i == me.next
    <3>1. /\ mine.next = i + 1 /\ mine.skus = me.skus
          /\ mine.limit = me.limit /\ mine.dry = me.dry
          /\ me.batch \subseteq mine.batch
          /\ mine.pc \in {"scan", "flush", "last"}
          /\ mine.pc = "last" => me.limit # 0
          /\ File[i].json /\ Usable(l, i) => i \in mine.batch \/ me.limit # 0
      <4>1. File[i].sku \in me.skus => File[i].sku # NoSku
        BY <2>0, LoaderAssumption DEF Load, LoaderAssumption
      <4> QED
        BY <2>0, <2>4, <4>1 DEF ScanLine, Load, LoaderTypeOK, Usable
    <3>2. SUFFICES ASSUME me.limit = 0, ~me.dry PROVE Covered(l)'
      BY <3>1 DEF LoadInv
    <3>3. SUFFICES ASSUME NEW j \in DOMAIN File, j < i + 1, File[j].json,
                          Usable(l, j)
                   PROVE  j \in mine.batch \/ File[j].ext \in documents'
      BY <3>1 DEF Covered, Usable
    <3>4. CASE j = i
      BY <3>1, <3>2, <3>3, <3>4
    <3>5. CASE j < i
      BY <2>0, <3>1, <3>2, <3>3, <3>5, <1>0 DEF LoadInv, Covered
    <3>6. j \in Nat /\ i \in Nat
      BY <2>0, LoaderAssumption DEF LoaderAssumption, Load
    <3> QED
      BY <3>3, <3>4, <3>5, <3>6
  <2>5. CASE EndOfFile(l)
    BY <2>0, <2>5, <1>0 DEF EndOfFile, LoaderTypeOK, LoadInv, Covered, Usable, Load
  <2>6. ASSUME NEW then \in {"scan", "done"}, InsertBatch(l, then),
               me.pc \in {"flush", "last"}, then = "done" => me.pc = "last"
        PROVE  LoadInv(l)'
    <3>1. /\ mine.next = me.next /\ mine.skus = me.skus /\ mine.pc = then
          /\ mine.limit = me.limit /\ mine.dry = me.dry /\ mine.batch = {}
      BY <2>0, <2>6 DEF InsertBatch, LoaderTypeOK, Load
    <3>2. \A i \in me.batch : File[i].ext \in documents'
      BY <2>6 DEF InsertBatch, NewIds
    <3> QED
      BY <1>0, <2>0, <2>6, <3>1, <3>2 DEF LoadInv, Covered, Usable
  <2>7. CASE Flush(l)
    BY <2>6, <2>7 DEF Flush
  <2>8. CASE LastBatch(l)
    <3>1. CASE me.batch # {} /\ ~me.dry
      BY <2>6, <2>8, <3>1 DEF LastBatch
    <3>2. CASE ~(me.batch # {} /\ ~me.dry)
      <4>1. mine = [me EXCEPT !.pc = "done"] /\ me.pc = "last"
        BY <2>8, <3>2 DEF LastBatch, LoaderTypeOK
      <4>2. /\ mine.next = me.next /\ mine.skus = me.skus /\ mine.batch = me.batch
            /\ mine.limit = me.limit /\ mine.dry = me.dry
        BY <2>0, <4>1 DEF Load
      <4> QED
        BY <1>0, <2>0, <3>2, <4>1, <4>2 DEF LoadInv, Covered, Usable
    <3> QED
      BY <3>1, <3>2
  <2>9. CASE StopLoad(l)
    <3>1. mine = Idle
      BY <2>9 DEF StopLoad, LoaderTypeOK
    <3> QED
      BY <3>1, LoaderAssumption DEF LoadInv, Covered, LoaderAssumption, Idle
  <2> QED
    BY <1>3, <2>3, <2>4, <2>5, <2>7, <2>8, <2>9 DEF LoaderStep
<1> QED
  BY <1>2, <1>3, LoaderNext DEF LoaderNext

LEMMA CompleteFromInv == LoaderTypeOK /\ LoadsInv => LoadIsComplete
<1> SUFFICES ASSUME LoaderTypeOK, LoadsInv, NEW l \in Loaders, load[l].pc = "done",
                    load[l].limit = 0, ~load[l].dry, NEW i \in DOMAIN File,
                    File[i].json, Usable(l, i)
             PROVE  File[i].ext \in documents
  BY DEF LoadIsComplete
<1>1. LoadInv(l) /\ load[l].next \in Nat
  BY DEF LoadsInv, LoaderTypeOK, Load
<1>2. i < load[l].next
  BY <1>1, LoaderAssumption DEF LoadInv, LoaderAssumption
<1> QED
  BY <1>1, <1>2 DEF LoadInv, Covered

\* What loaders report: every row was inserted by one of them, or by a run of
\* one that was stopped.
CountInv ==
    /\ IsFiniteSet(documents)
    /\ \A l \in Loaders : load[l].pc = "idle" => load[l].inserted = 0
    /\ InsertedAddsUp

LEMMA CountInvInit == LoaderInit => CountInv
<1> SUFFICES ASSUME LoaderInit PROVE CountInv
  OBVIOUS
<1> DEFINE f == [l \in Loaders |-> load[l].inserted]
<1>1. /\ documents = {} /\ earlier = 0 /\ \A l \in Loaders : load[l].inserted = 0
  BY DEF LoaderInit, Idle
<1>2. IsFiniteSet(documents) /\ Cardinality(documents) = 0
  BY <1>1, FS_EmptySet
<1>3. Total(f) = 0
  <2> DEFINE F == [s \in SUBSET Loaders |-> 0]
  <2>1. SumsOf(f, Loaders, F)
    BY <1>1 DEF SumsOf
  <2>2. f \in [Loaders -> Int] /\ IsFiniteSet(Loaders) /\ F[Loaders] = 0
    BY <1>1, LoaderAssumption DEF LoaderAssumption
  <2> HIDE DEF f, F
  <2> QED
    BY <2>1, <2>2, TotalIsSum
<1> QED
  BY <1>1, <1>2, <1>3 DEF CountInv, InsertedAddsUp

\* One loader's count changes, and the rows and the stopped runs with it.
LEMMA OneCountChanges ==
    ASSUME LoaderTypeOK, LoaderTypeOK', CountInv, NEW l \in Loaders,
           \A k \in Loaders \ {l} : load'[k] = load[k],
           IsFiniteSet(documents'),
           load'[l].pc = "idle" => load'[l].inserted = 0,
           Cardinality(documents') - Cardinality(documents) =
               (earlier' - earlier) + (load'[l].inserted - load[l].inserted)
    PROVE  CountInv'
<1> DEFINE f == [k \in Loaders |-> load[k].inserted]
           g == [k \in Loaders |-> load'[k].inserted]
<1>1. f \in [Loaders -> Int] /\ g \in [Loaders -> Int] /\ IsFiniteSet(Loaders)
  <2>1. \A k \in Loaders : load[k].inserted \in Int /\ load'[k].inserted \in Int
    BY DEF LoaderTypeOK, Load
  <2> QED
    BY <2>1, LoaderAssumption DEF LoaderAssumption
<1>2. /\ \A k \in Loaders \ {l} : g[k] = f[k]
      /\ f[l] = load[l].inserted /\ g[l] = load'[l].inserted
  OBVIOUS
<1>3. earlier \in Nat /\ earlier' \in Nat /\ Cardinality(documents) \in Nat
      /\ Cardinality(documents') \in Nat
  BY FS_CardinalityType DEF LoaderTypeOK, CountInv
<1>4. /\ Total(f) \in Int /\ Total(g) \in Int /\ f[l] \in Int /\ g[l] \in Int
      /\ Total(g) = Total(f) + (g[l] - f[l])
  <2> HIDE DEF f, g
  <2> QED
    BY <1>1, <1>2, TotalChanges
<1>5. Cardinality(documents) = earlier + Total(f)
  BY DEF CountInv, InsertedAddsUp
<1>6. Cardinality(documents') = earlier' + Total(g)
  <2> DEFINE F == Total(f)
             G == Total(g)
             x == load[l].inserted
             y == load'[l].inserted
  <2>1. /\ F \in Int /\ G \in Int /\ x \in Int /\ y \in Int
        /\ G = F + (y - x) /\ Cardinality(documents) = earlier + F
        /\ Cardinality(documents') - Cardinality(documents) = (earlier' - earlier) + (y - x)
    BY <1>2, <1>4, <1>5
  <2> HIDE DEF F, G, x, y
  <2>2. Cardinality(documents') = earlier' + G
    BY <1>3, <2>1
  <2> QED
    BY <2>2 DEF G
<1>7. \A k \in Loaders : load'[k].pc = "idle" => load'[k].inserted = 0
  BY DEF CountInv
<1> QED
  BY <1>6, <1>7 DEF CountInv, InsertedAddsUp

LEMMA CountInvStep == LoaderTypeOK /\ CountInv /\ LoaderNext => CountInv'
<1> SUFFICES ASSUME LoaderTypeOK, CountInv, LoaderNext PROVE CountInv'
  OBVIOUS
<1>0. LoaderTypeOK'
  BY LoaderTypeStep
<1>1. CASE Seed
  BY <1>1 DEF Seed, CountInv, InsertedAddsUp
<1>2. ASSUME NEW l \in Loaders, LoaderStep(l) PROVE CountInv'
  <2> DEFINE me == load[l]
             mine == load'[l]
  <2>0. /\ me \in Load /\ IsFiniteSet(documents) /\ Cardinality(documents) \in Nat
        /\ earlier \in Nat /\ me.inserted \in Nat
        /\ me.pc = "idle" => me.inserted = 0
    BY FS_CardinalityType DEF LoaderTypeOK, CountInv, Load
  <2>1. \A k \in Loaders \ {l} : load'[k] = load[k]
    BY <1>2 DEF LoaderStep, StartLoad, ScanLine, EndOfFile, Flush, LastBatch, StopLoad,
                InsertBatch, LoaderTypeOK
  <2>2. ASSUME documents' = documents, earlier' = earlier, mine.inserted = me.inserted,
               mine.pc = "idle" => me.pc = "idle"
        PROVE  CountInv'
    BY <1>0, <2>0, <2>1, <2>2, OneCountChanges
  <2>3. CASE StartLoad(l)
    <3>1. mine.inserted = 0 /\ mine.pc = "scan"
      BY <2>3 DEF StartLoad, LoaderTypeOK, Idle
    <3>2. documents' = documents /\ earlier' = earlier /\ me.inserted = 0
      BY <2>0, <2>3 DEF StartLoad
    <3> QED
      BY <2>2, <3>1, <3>2
  <2>4. CASE ScanLine(l)
    <3>1. mine.inserted = me.inserted /\ mine.pc \in {"scan", "flush", "last"}
      BY <2>0, <2>4 DEF ScanLine, Load, LoaderTypeOK
    <3> QED
      BY <2>2, <2>4, <3>1 DEF ScanLine
  <2>5. CASE EndOfFile(l)
    <3>1. mine.inserted = me.inserted /\ mine.pc = "last"
      BY <2>0, <2>5 DEF EndOfFile, Load, LoaderTypeOK
    <3> QED
      BY <2>2, <2>5, <3>1 DEF EndOfFile
  <2>6. ASSUME NEW then \in {"scan", "done"}, InsertBatch(l, then), earlier' = earlier
        PROVE  CountInv'
    <3> DEFINE N == NewIds(me.batch)
    <3>1. IsFiniteSet(N) /\ Cardinality(N) \in Nat
      <4>1. me.batch \in SUBSET DOMAIN File
        BY <2>0 DEF Load
      <4> QED
        BY <4>1, BatchCounts, LoaderAssumption
    <3>2. N \cap documents = {}
      BY DEF NewIds
    <3>3. mine.inserted = me.inserted + Cardinality(N) /\ mine.pc = then
      BY <2>0, <2>6 DEF InsertBatch, Load, LoaderTypeOK
    <3>4. documents' = documents \cup N
      BY <2>6 DEF InsertBatch
    <3> HIDE DEF N
    <3>5. /\ IsFiniteSet(documents')
          /\ Cardinality(documents') = Cardinality(documents) + Cardinality(N)
      BY <2>0, <3>1, <3>2, <3>4, DisjointUnionSize, FS_Union
    <3> QED
      BY <1>0, <2>0, <2>1, <2>6, <3>1, <3>2, <3>3, <3>5, OneCountChanges
  <2>7. CASE Flush(l)
    BY <2>6, <2>7 DEF Flush
  <2>8. CASE LastBatch(l)
    <3>1. CASE me.batch # {} /\ ~me.dry
      BY <2>6, <2>8, <3>1 DEF LastBatch
    <3>2. CASE ~(me.batch # {} /\ ~me.dry)
      <4>1. mine.inserted = me.inserted /\ mine.pc = "done"
        BY <2>0, <2>8, <3>2 DEF LastBatch, Load, LoaderTypeOK
      <4> QED
        BY <2>2, <2>8, <3>2, <4>1 DEF LastBatch
    <3> QED
      BY <3>1, <3>2
  <2>9. CASE StopLoad(l)
    <3>1. mine.inserted = 0 /\ mine.pc = "idle"
      BY <2>9 DEF StopLoad, LoaderTypeOK, Idle
    <3>2. documents' = documents /\ earlier' = earlier + me.inserted
      BY <2>9 DEF StopLoad
    <3> QED
      BY <1>0, <2>0, <2>1, <3>1, <3>2, OneCountChanges
  <2> QED
    BY <1>2, <2>3, <2>4, <2>5, <2>7, <2>8, <2>9 DEF LoaderStep
<1> QED
  BY <1>1, <1>2 DEF LoaderNext

-----------------------------------------------------------------------------
(* The requests: types. *)

LEMMA PlanShape ==
    ASSUME NEW kind \in Kinds
    PROVE  /\ Plan[kind] \in Seq(Statements)
           /\ Len(Plan[kind]) \in 1..5 /\ 1 <= Len(Plan[kind])
           /\ \A i \in 1..Len(Plan[kind]) :
                LET s == Plan[kind][i]
                IN  /\ s = "enabled" =>
                          /\ i < Len(Plan[kind])
                          /\ kind \in Tool \cup {"detail", "evidence", "sku_trends"}
                    /\ s = "week_ids" => i < Len(Plan[kind]) /\ kind \notin Tool
                    /\ s = "week_ids" /\ kind = "sku_trends" => i = 2
                    /\ s = "counts" => kind \in Tool
                    /\ s = "counts" =>
                          (i < Len(Plan[kind]) <=> kind # "review_count")
                    /\ kind \in Tool =>
                          /\ s \in {"enabled", "counts", "rows"}
                          /\ s = "rows" => i = Len(Plan[kind])
           /\ kind = "sku_trends" => Plan[kind][1] = "enabled"
           /\ kind \in Tool /\ kind # "review_count" =>
                \A i \in 1..Len(Plan[kind]) :
                   i = Len(Plan[kind]) => Plan[kind][i] = "rows"
<1> USE DEF Statements
<1>1. CASE kind = "weeks"
  BY <1>1 DEF Plan, WeeksPlan, Tool
<1>2. CASE kind = "overview"
  BY <1>2 DEF Plan, OverviewPlan, Tool, Kinds
<1>3. CASE kind = "detail"
  BY <1>3 DEF Plan, DetailPlan, Tool, Kinds
<1>4. CASE kind = "evidence"
  BY <1>4 DEF Plan, EvidencePlan, Tool, Kinds
<1>5. CASE kind = "sku_trends"
  BY <1>5 DEF Plan, TrendsPlan, Tool, Kinds
<1>6. CASE kind = "review_count"
  BY <1>6 DEF Plan, ToolPlan, Tool, Kinds
<1>7. CASE kind \in Tool \ {"review_count"}
  <2>1. Plan[kind] = <<"enabled", "counts", "rows">>
    BY <1>7 DEF Plan, ToolPlan, Tool, Kinds
  <2> QED
    BY <1>7, <2>1 DEF Tool
<1> QED
  BY <1>1, <1>2, <1>3, <1>4, <1>5, <1>6, <1>7 DEF Kinds, Tool

LEMMA SelectType ==
    ASSUME AnalyticsTypeOK, NEW scope \in Scope
    PROVE  Select(scope) \subseteq Listed /\ Listed \subseteq Mentions
BY DEF Select, Listed, AnalyticsTypeOK

LEMMA EverythingType == Everything \in Scope
<1>1. Weeks \subseteq Nat /\ Aspects \subseteq Nat
  BY AnalyticsAssumption DEF AnalyticsAssumption, Mention, Weeks, Aspects
<1> QED
  BY <1>1 DEF Everything, Scope

LEMMA NoRequestType == NoRequest \in Request /\ NoRequest.saw = Nothing
BY DEF NoRequest, Request, NoScope, Scope, Nothing, Kinds

\* Listed is what Shown, the selection of everything, stands for.
LEMMA ListedIsShown == AnalyticsTypeOK => Shown = Listed
BY AnalyticsAssumption DEF AnalyticsTypeOK, AnalyticsAssumption, Shown, Select, Listed,
   InScope, Everything, Weeks, Aspects, Mention

\* The three ways a request changes.
LEMMA AnswerType ==
    ASSUME AnalyticsTypeOK, NEW r \in Readers, NEW q \in Request,
           q.at <= Len(Plan[q.kind]), NEW outcome \in Outcomes, Answer(r, q, outcome)
    PROVE  AnalyticsTypeOK'
<1>1. UNION {q.saw[s] : s \in Statements} \subseteq Mentions
  BY DEF Request
<1>2. [q EXCEPT !.pc = outcome] \in Request
  BY DEF Request
<1>3. shown' \subseteq Mentions
  BY <1>1 DEF Answer, AnalyticsTypeOK
<1>4. LoaderTypeOK'
  BY DEF Answer, loaderVars, AnalyticsTypeOK, LoaderTypeOK
<1>5. req' \in [Readers -> Request]
  BY <1>2 DEF Answer, AnalyticsTypeOK
<1>6. \A k \in Readers : req'[k].at <= Len(Plan[req'[k].kind])
  BY <1>2 DEF Answer, AnalyticsTypeOK, Request
<1> QED
  BY <1>3, <1>4, <1>5, <1>6 DEF Answer, AnalyticsTypeOK

LEMMA ContinueType ==
    ASSUME AnalyticsTypeOK, NEW r \in Readers, NEW q \in Request,
           q.at < Len(Plan[q.kind]), Continue(r, q)
    PROVE  AnalyticsTypeOK'
<1>1. q.kind \in Kinds /\ q.at \in 1..6
  BY DEF Request
<1>2. q.at + 1 \in 1..6 /\ q.at + 1 <= Len(Plan[q.kind])
  BY <1>1, PlanShape
<1>3. [q EXCEPT !.at = @ + 1] \in Request
  BY <1>2 DEF Request
<1>4. req' \in [Readers -> Request]
  BY <1>3 DEF Continue, AnalyticsTypeOK
<1>5. \A k \in Readers : req'[k].at <= Len(Plan[req'[k].kind])
  BY <1>2 DEF Continue, AnalyticsTypeOK, Request
<1>6. LoaderTypeOK'
  BY DEF Continue, loaderVars, AnalyticsTypeOK, LoaderTypeOK
<1> QED
  BY <1>4, <1>5, <1>6 DEF Continue, AnalyticsTypeOK

\* What each statement makes of the request.
LEMMA StatementType ==
    ASSUME AnalyticsTypeOK, NEW r \in Readers, NEW s \in Statements,
           NEW M \in SUBSET Mentions, NEW scope \in Scope
    PROVE  [req[r] EXCEPT !.saw[s] = M, !.scope = scope] \in Request
<1>1. req[r] \in Request
  BY DEF AnalyticsTypeOK
<1>2. [req[r].saw EXCEPT ![s] = M] \in [Statements -> SUBSET Mentions]
  BY <1>1 DEF Request
<1> QED
  BY <1>1, <1>2 DEF Request

LEMMA TypeInit == AnalyticsInit => AnalyticsTypeOK
<1>1. "weeks" \in Kinds
  BY DEF Kinds
<1>2. 1 <= Len(Plan["weeks"])
  BY <1>1, PlanShape
<1>3. NoRequest.at = 1 /\ NoRequest.kind = "weeks"
  BY DEF NoRequest
<1>4. NoRequest.at <= Len(Plan[NoRequest.kind])
  BY <1>2, <1>3
<1> QED
  BY <1>4, LoaderTypeInit, NoRequestType DEF AnalyticsInit, AnalyticsTypeOK

LEMMA TypeStep == AnalyticsTypeOK /\ [AnalyticsNext]_analyticsVars => AnalyticsTypeOK'
<1> SUFFICES ASSUME AnalyticsTypeOK, [AnalyticsNext]_analyticsVars
             PROVE  AnalyticsTypeOK'
  OBVIOUS
<1>1. CASE LoaderNext /\ UNCHANGED <<stored, readVars>>
  BY <1>1, LoaderTypeStep DEF AnalyticsTypeOK, readVars
<1>2. ASSUME NEW d \in documents, CommitMentions(d) PROVE AnalyticsTypeOK'
  BY <1>2 DEF CommitMentions, MentionsOf, AnalyticsTypeOK, LoaderTypeOK, loaderVars, readVars
<1>3. ASSUME NEW r \in Readers, NEW kind \in Kinds, Begin(r, kind) PROVE AnalyticsTypeOK'
  <2>1. PICK scope \in Scopes[kind] :
           req' = [req EXCEPT ![r] = [NoRequest EXCEPT !.pc = "run", !.kind = kind,
                      !.scope = scope, !.began = Shown, !.known = shown]]
    BY <1>3 DEF Begin
  <2> DEFINE q == [NoRequest EXCEPT !.pc = "run", !.kind = kind,
                      !.scope = scope, !.began = Shown, !.known = shown]
  <2>2. scope \in Scope /\ Shown \subseteq Mentions /\ shown \subseteq Mentions
    BY AnalyticsAssumption, SelectType, EverythingType
       DEF AnalyticsAssumption, Shown, AnalyticsTypeOK
  <2>3. q \in Request
    BY <2>2, NoRequestType DEF Request
  <2>4. q.at = 1 /\ q.kind = kind
    BY NoRequestType DEF NoRequest, Request
  <2>5. q.at <= Len(Plan[q.kind])
    <3> HIDE DEF q
    <3>1. 1 <= Len(Plan[kind])
      BY PlanShape
    <3> QED
      BY <2>4, <3>1
  <2> QED
    BY <1>3, <2>1, <2>3, <2>5 DEF Begin, AnalyticsTypeOK, LoaderTypeOK, loaderVars
<1>4. ASSUME NEW r \in Readers PROVE ReaderStep(r) \/ QueryFails(r) => AnalyticsTypeOK'
  <2> DEFINE me == req[r]
  <2>0. /\ me \in Request /\ me.kind \in Kinds /\ me.scope \in Scope /\ me.at \in 1..6
        /\ me.at <= Len(Plan[me.kind])
    BY DEF AnalyticsTypeOK, Request
  <2>1. CASE ReadEnabled(r)
    <3> DEFINE asked == IF me.scope.skus = {} THEN enabled ELSE me.scope.skus
               q == [me EXCEPT !.scope.skus = asked]
    <3>1. [me.scope EXCEPT !.skus = asked] \in Scope
      BY <2>0 DEF Scope, AnalyticsTypeOK, LoaderTypeOK
    <3>2. q \in Request /\ q.at = me.at /\ q.kind = me.kind
      BY <2>0, <3>1 DEF Request
    <3>3. me.at < Len(Plan[me.kind])
      BY <2>0, <2>1, PlanShape DEF ReadEnabled, Runs
    <3>4. CASE Answer(r, q, "bad_request")
      BY <2>0, <3>2, <3>4, AnswerType DEF Outcomes
    <3>5. CASE Continue(r, q)
      BY <3>2, <3>3, <3>5, ContinueType
    <3> QED
      BY <2>1, <3>4, <3>5 DEF ReadEnabled
  <2>2. CASE ReadWeekIds(r)
    <3> DEFINE found == Select([Everything EXCEPT !.skus = me.scope.skus])
               one == [me EXCEPT !.saw["week_ids"] = found]
               q == IF one.kind = "sku_trends"
                    THEN [one EXCEPT !.scope.weeks = LatestWeeks(found, one.scope.limit)]
                    ELSE one
    <3>1. [Everything EXCEPT !.skus = me.scope.skus] \in Scope
      BY <2>0, EverythingType DEF Scope
    <3>2. found \in SUBSET Mentions
      BY <3>1, SelectType
    <3>3. LatestWeeks(found, one.scope.limit) \subseteq Nat
      BY <3>2, AnalyticsAssumption DEF LatestWeeks, AnalyticsAssumption, Mention
    <3>4. one \in Request
      BY <2>0, <3>2 DEF Request, Statements
    <3>5. [one.scope EXCEPT !.weeks = LatestWeeks(found, one.scope.limit)] \in Scope
      BY <3>3, <3>4 DEF Request, Scope
    <3>6. q \in Request /\ q.at = me.at /\ q.kind = me.kind
      BY <2>0, <3>4, <3>5 DEF Request
    <3>7. me.at < Len(Plan[me.kind])
      BY <2>0, <2>2, PlanShape DEF ReadWeekIds, Runs
    <3>8. CASE Answer(r, q, "not_found")
      BY <2>0, <3>6, <3>8, AnswerType DEF Outcomes
    <3>9. CASE Continue(r, q)
      BY <3>6, <3>7, <3>9, ContinueType
    <3> QED
      BY <2>2, <3>8, <3>9 DEF ReadWeekIds
  <2>3. CASE ReadCounts(r)
    <3> DEFINE q == [me EXCEPT !.saw["counts"] = Select(me.scope)]
    <3>1. q \in Request /\ q.at = me.at /\ q.kind = me.kind
      BY <2>0, SelectType DEF Request, Statements
    <3>2. q.kind # "review_count" => me.at < Len(Plan[me.kind])
      BY <2>0, <2>3, <3>1, PlanShape DEF ReadCounts, Runs
    <3>3. ToolOutcome(q) \in Outcomes
      BY DEF ToolOutcome, Outcomes
    <3> QED
      BY <2>0, <2>3, <3>1, <3>2, <3>3, AnswerType, ContinueType DEF ReadCounts, Outcomes
  <2>4. CASE ReadPart(r)
    <3> DEFINE statement == Plan[me.kind][me.at]
    <3>1. PICK M \in IF statement = "evidence" THEN Evidence(me.scope)
                     ELSE IF statement = "aggregations" THEN {Listed}
                     ELSE {Select(me.scope)} :
             LET q == [me EXCEPT !.saw[statement] = M]
             IN  IF me.at < Len(Plan[me.kind]) THEN Continue(r, q)
                 ELSE Answer(r, q, IF me.kind \in Tool THEN ToolOutcome(q) ELSE "ok")
      BY <2>4 DEF ReadPart
    <3> DEFINE q == [me EXCEPT !.saw[statement] = M]
    <3>2. M \subseteq Mentions
      BY <2>0, <3>1, SelectType DEF Evidence
    <3>3. statement \in Statements
      BY <2>0, PlanShape
    <3>4. q \in Request /\ q.at = me.at /\ q.kind = me.kind
      BY <2>0, <3>2, <3>3 DEF Request
    <3>5. ToolOutcome(q) \in Outcomes /\ "ok" \in Outcomes
      BY DEF ToolOutcome, Outcomes
    <3> QED
      BY <2>0, <3>1, <3>4, <3>5, AnswerType, ContinueType
  <2>5. CASE QueryFails(r)
    BY <2>0, <2>5, AnswerType DEF QueryFails, Outcomes
  <2> QED
    BY <2>1, <2>2, <2>3, <2>4, <2>5 DEF ReaderStep
<1>5. CASE UNCHANGED analyticsVars
  BY <1>5 DEF analyticsVars, loaderVars, readVars, AnalyticsTypeOK, LoaderTypeOK
<1> QED
  BY <1>1, <1>2, <1>3, <1>4, <1>5 DEF AnalyticsNext

-----------------------------------------------------------------------------
(* The requests: what they hold stays true because Listed only grows. *)

Due(q) == {m \in q.known : InScope(m, q.scope)}
Held(q, s) ==
    \/ Due(q) \subseteq q.saw[s]
    \/ s = "evidence" /\ Cardinality(q.saw[s]) = q.scope.limit

\* What a request has been shown is in every statement it has run, until it
\* answers; L is what the dashboard can show.
AgreeInv(q, L) ==
    /\ q.known \subseteq L
    /\ \A s \in Statements : q.saw[s] \subseteq L
    /\ q.pc = "run" =>
          /\ \A i \in 1..(q.at - 1) :
                Plan[q.kind][i] # "enabled" => Held(q, Plan[q.kind][i])
          /\ q.kind \in {"detail", "evidence", "sku_trends"} =>
                Cardinality(q.scope.skus) = 1
    /\ q.pc \in {"not_found", "empty"} => Due(q) = {}
    /\ q.pc = "bad_request" /\ q.kind \notin Tool => Due(q) = {}
    /\ Answered(q) => \A s \in PartsOf(q) : Held(q, s)

\* The counts are a part of what the tool's next statement selects.
CountsInv(q, L) ==
    q.kind \in Tool =>
        /\ q.pc = "run" => q.saw["counts"] \subseteq {m \in L : InScope(m, q.scope)}
        /\ q.pc \in {"ok", "partial", "raised"} /\ q.kind # "review_count" =>
              q.saw["counts"] \subseteq q.saw["rows"]
        /\ q.pc = "ok" => WithoutSample(q) = {}

ReadersInv ==
    /\ shown \subseteq Listed
    /\ \A r \in Readers : AgreeInv(req[r], Listed) /\ CountsInv(req[r], Listed)

LEMMA InvGrows ==
    ASSUME NEW q, NEW L, NEW K, L \subseteq K, AgreeInv(q, L), CountsInv(q, L)
    PROVE  AgreeInv(q, K) /\ CountsInv(q, K)
BY DEF AgreeInv, CountsInv

LEMMA AnswerInv ==
    ASSUME AnalyticsTypeOK, ReadersInv, NEW r \in Readers, NEW q \in Request,
           NEW outcome \in Outcomes, Answer(r, q, outcome),
           AgreeInv([q EXCEPT !.pc = outcome], Listed),
           CountsInv([q EXCEPT !.pc = outcome], Listed)
    PROVE  ReadersInv'
<1>1. Listed' = Listed
  BY DEF Answer, Listed, loaderVars
<1>2. \A s \in Statements : q.saw[s] \subseteq Listed
  BY DEF AgreeInv, Request
<1>3. shown' \subseteq Listed
  BY <1>2 DEF Answer, ReadersInv
<1> HIDE DEF Listed
<1>4. \A k \in Readers : AgreeInv(req'[k], Listed) /\ CountsInv(req'[k], Listed)
  BY DEF Answer, ReadersInv, AnalyticsTypeOK
<1> QED
  BY <1>1, <1>3, <1>4 DEF ReadersInv

LEMMA ContinueInv ==
    ASSUME AnalyticsTypeOK, ReadersInv, NEW r \in Readers, NEW q \in Request,
           Continue(r, q),
           AgreeInv([q EXCEPT !.at = @ + 1], Listed),
           CountsInv([q EXCEPT !.at = @ + 1], Listed)
    PROVE  ReadersInv'
<1>1. Listed' = Listed
  BY DEF Continue, Listed, loaderVars
<1>2. \A k \in Readers : AgreeInv(req'[k], Listed) /\ CountsInv(req'[k], Listed)
  BY DEF Continue, ReadersInv, AnalyticsTypeOK
<1> QED
  BY <1>1, <1>2 DEF ReadersInv, Continue

LEMMA ReadersInvInit == AnalyticsInit => ReadersInv
<1> SUFFICES ASSUME AnalyticsInit PROVE ReadersInv
  OBVIOUS
<1>1. /\ NoRequest.pc = "idle" /\ NoRequest.kind = "weeks" /\ NoRequest.known = {}
      /\ \A s \in Statements : NoRequest.saw[s] = {}
  BY DEF NoRequest, Nothing
<1>2. \A L : AgreeInv(NoRequest, L) /\ CountsInv(NoRequest, L)
  BY <1>1 DEF AgreeInv, CountsInv, Tool, Answered
<1> QED
  BY <1>2 DEF AnalyticsInit, ReadersInv

LEMMA StoreGrows ==
    ASSUME AnalyticsTypeOK, ReadersInv, Listed \subseteq Listed', UNCHANGED readVars
    PROVE  ReadersInv'
<1>1. \A r \in Readers : AgreeInv(req[r], Listed') /\ CountsInv(req[r], Listed')
  BY InvGrows DEF ReadersInv
<1> QED
  BY <1>1 DEF ReadersInv, readVars

LEMMA BeginInv ==
    ASSUME AnalyticsTypeOK, ReadersInv, NEW r \in Readers, NEW kind \in Kinds,
           Begin(r, kind)
    PROVE  ReadersInv'
<1>1. PICK scope \in Scopes[kind] :
         req' = [req EXCEPT ![r] = [NoRequest EXCEPT !.pc = "run", !.kind = kind,
                    !.scope = scope, !.began = Shown, !.known = shown]]
  BY DEF Begin
<1> DEFINE q == [NoRequest EXCEPT !.pc = "run", !.kind = kind,
                    !.scope = scope, !.began = Shown, !.known = shown]
<1>2. /\ q.pc = "run" /\ q.kind = kind /\ q.scope = scope /\ q.known = shown /\ q.at = 1
      /\ \A s \in Statements : q.saw[s] = {}
  BY DEF NoRequest, Nothing
<1>3. kind \in {"detail", "evidence", "sku_trends"} => Cardinality(scope.skus) = 1
  BY <1>1, AnalyticsAssumption DEF AnalyticsAssumption
<1> HIDE DEF q
<1>4. AgreeInv(q, Listed)
  BY <1>2, <1>3 DEF AgreeInv, ReadersInv, Answered
<1>5. CountsInv(q, Listed)
  BY <1>2 DEF CountsInv, Statements
<1>6. Listed' = Listed /\ shown' = shown
  BY DEF Begin, Listed, loaderVars
<1> QED
  BY <1>1, <1>4, <1>5, <1>6 DEF ReadersInv, AnalyticsTypeOK, q

LEMMA ReadEnabledInv ==
    ASSUME AnalyticsTypeOK, ReadersInv, NEW r \in Readers, ReadEnabled(r)
    PROVE  ReadersInv'
<1> DEFINE me == req[r]
           asked == IF me.scope.skus = {} THEN enabled ELSE me.scope.skus
           q == [me EXCEPT !.scope.skus = asked]
<1>0. /\ me \in Request /\ me.kind \in Kinds /\ me.scope \in Scope /\ me.at \in 1..6
      /\ me.at <= Len(Plan[me.kind]) /\ me.pc = "run"
      /\ Plan[me.kind][me.at] = "enabled"
      /\ AgreeInv(me, Listed) /\ CountsInv(me, Listed)
  BY DEF ReadEnabled, Runs, AnalyticsTypeOK, Request, ReadersInv
<1>1. [me.scope EXCEPT !.skus = asked] \in Scope
  BY <1>0 DEF Scope, AnalyticsTypeOK, LoaderTypeOK
<1>2. /\ q \in Request /\ q.pc = "run" /\ q.kind = me.kind /\ q.known = me.known
      /\ q.saw = me.saw /\ q.at = me.at /\ q.scope \in Scope
      /\ q.scope.skus = asked /\ q.scope.weeks = me.scope.weeks
      /\ q.scope.aspects = me.scope.aspects /\ q.scope.limit = me.scope.limit
      /\ q.scope.sentiments = me.scope.sentiments
  BY <1>0, <1>1 DEF Request, Scope
<1>3. me.kind \in Tool \cup {"detail", "evidence", "sku_trends"}
  BY <1>0, PlanShape
<1>4. \A m \in Listed : m.sku \in enabled
  BY DEF Listed
<1> HIDE DEF q
<1>5. \A m \in Listed : InScope(m, q.scope) <=> InScope(m, me.scope)
  BY <1>2, <1>4 DEF InScope
<1>6. Due(q) = Due(me)
  BY <1>0, <1>2, <1>5 DEF Due, AgreeInv
<1>7. \A s \in Statements : Held(me, s) => Held(q, s)
  BY <1>2, <1>6 DEF Held
<1>8. \A i \in 1..(me.at - 1) : Plan[me.kind][i] \in Statements
  BY <1>0, PlanShape
<1>9. CASE Answer(r, q, "bad_request") /\ (me.kind \notin Tool => ~(asked \subseteq enabled))
  <2> DEFINE a == [q EXCEPT !.pc = "bad_request"]
  <2>1. /\ a.pc = "bad_request" /\ a.kind = me.kind /\ a.known = me.known
        /\ a.saw = me.saw /\ a.scope = q.scope
    BY <1>2 DEF Request
  <2> HIDE DEF a
  <2>2. me.kind \notin Tool => Due(a) = {}
    <3> SUFFICES ASSUME me.kind \notin Tool, NEW m \in Due(a) PROVE FALSE
      OBVIOUS
    <3>1. Cardinality(me.scope.skus) = 1
      BY <1>0, <1>3 DEF AgreeInv
    <3>2. me.scope.skus \subseteq Skus /\ IsFiniteSet(Skus)
      BY <1>0, LoaderAssumption DEF Scope, LoaderAssumption
    <3>3. IsFiniteSet(me.scope.skus)
      BY <3>2, FS_Subset
    <3>4. PICK x : me.scope.skus = {x}
      BY <3>1, <3>3, FS_Singleton
    <3>5. asked = {x}
      BY <3>4
    <3>6. m.sku = x /\ m \in Listed
      BY <1>0, <1>2, <2>1, <3>5 DEF Due, InScope, AgreeInv
    <3> QED
      BY <1>4, <1>9, <3>5, <3>6
  <2>3. AgreeInv(a, Listed)
    BY <1>0, <2>1, <2>2 DEF AgreeInv, Answered
  <2>4. CountsInv(a, Listed)
    BY <2>1 DEF CountsInv
  <2> QED
    BY <1>2, <1>9, <2>3, <2>4, AnswerInv DEF a, Outcomes
<1>10. CASE Continue(r, q)
  <2> DEFINE c == [q EXCEPT !.at = @ + 1]
  <2>1. /\ c.pc = "run" /\ c.kind = me.kind /\ c.known = me.known
        /\ c.saw = me.saw /\ c.scope = q.scope /\ c.at = me.at + 1
    BY <1>2 DEF Request
  <2> HIDE DEF c
  <2>2. \A s \in Statements : Held(q, s) <=> Held(c, s)
    BY <1>2, <2>1 DEF Held, Due
  <2>3. \A i \in 1..(c.at - 1) : i = me.at \/ i \in 1..(me.at - 1)
    BY <1>0, <2>1
  <2>4. \A i \in 1..(c.at - 1) :
           Plan[c.kind][i] # "enabled" => Held(c, Plan[c.kind][i])
    BY <1>0, <1>7, <1>8, <2>1, <2>2, <2>3 DEF AgreeInv
  <2>5. c.kind \in {"detail", "evidence", "sku_trends"} => Cardinality(c.scope.skus) = 1
    <3>1. SUFFICES ASSUME me.kind \in {"detail", "evidence", "sku_trends"}
                   PROVE  Cardinality(asked) = 1
      BY <1>2, <2>1
    <3>2. Cardinality(me.scope.skus) = 1
      BY <1>0, <3>1 DEF AgreeInv
    <3>3. me.scope.skus # {}
      <4>1. Cardinality({}) = 0
        BY FS_EmptySet
      <4> QED
        BY <3>2, <4>1
    <3> QED
      BY <3>2, <3>3
  <2>6. AgreeInv(c, Listed)
    BY <1>0, <2>1, <2>4, <2>5 DEF AgreeInv, Answered
  <2>7. CountsInv(c, Listed)
    BY <1>0, <1>5, <2>1 DEF CountsInv
  <2> QED
    BY <1>2, <1>10, <2>6, <2>7, ContinueInv DEF c
<1> QED
  BY <1>9, <1>10 DEF ReadEnabled, q, Tool

\* What the three statement handlers have in common: the request after the
\* statement s selected M.
Running(r, s) ==
    /\ req[r].pc = "run" /\ Plan[req[r].kind][req[r].at] = s
    /\ req[r] \in Request /\ req[r].kind \in Kinds /\ req[r].scope \in Scope
    /\ req[r].at \in 1..6 /\ req[r].at <= Len(Plan[req[r].kind])
    /\ s \in Statements
    /\ AgreeInv(req[r], Listed) /\ CountsInv(req[r], Listed)

LEMMA RunningFacts ==
    ASSUME AnalyticsTypeOK, ReadersInv, NEW r \in Readers, req[r].pc = "run"
    PROVE  Running(r, Plan[req[r].kind][req[r].at])
<1>1. req[r] \in Request /\ req[r].kind \in Kinds /\ req[r].at \in 1..6
      /\ req[r].at <= Len(Plan[req[r].kind]) /\ req[r].scope \in Scope
  BY DEF AnalyticsTypeOK, Request
<1>2. Plan[req[r].kind][req[r].at] \in Statements
  BY <1>1, PlanShape
<1> QED
  BY <1>1, <1>2 DEF Running, ReadersInv

\* q is what me becomes: s has selected M, the scope is the same or, before any
\* other statement, narrower in its weeks.
Ran(me, s, M, q) ==
    /\ q \in Request
    /\ q.pc = me.pc /\ q.kind = me.kind /\ q.at = me.at /\ q.known = me.known
    /\ q.saw = [me.saw EXCEPT ![s] = M]
    /\ \/ q.scope = me.scope
       \/ /\ \A i \in 1..(me.at - 1) : Plan[me.kind][i] = "enabled"
          /\ q.scope.skus = me.scope.skus
          /\ me.kind = "sku_trends"

LEMMA AllHeld ==
    ASSUME NEW r \in Readers, NEW s, Running(r, s), NEW M \in SUBSET Listed, NEW q,
           Ran(req[r], s, M, q), Held(q, s)
    PROVE  /\ \A i \in 1..q.at :
                 Plan[q.kind][i] # "enabled" => Held(q, Plan[q.kind][i])
           /\ \A t \in Statements : q.saw[t] \subseteq Listed
           /\ q.known \subseteq Listed
           /\ q.kind \in {"detail", "evidence", "sku_trends"} =>
                 Cardinality(q.scope.skus) = 1
<1> DEFINE me == req[r]
<1>1. q.known \subseteq Listed /\ \A t \in Statements : q.saw[t] \subseteq Listed
  BY DEF Running, Ran, AgreeInv, Request
<1>2. \A i \in 1..(me.at - 1) : Plan[me.kind][i] \in Statements
  BY PlanShape DEF Running
<1>3. ASSUME NEW i \in 1..(me.at - 1), Plan[me.kind][i] # "enabled"
      PROVE  Held(q, Plan[me.kind][i])
  <2>1. Plan[me.kind][i] = s \/ q.saw[Plan[me.kind][i]] = me.saw[Plan[me.kind][i]]
    BY <1>2 DEF Ran, Running, Request
  <2>2. q.scope = me.scope /\ q.known = me.known
    BY <1>3 DEF Ran
  <2>3. Held(me, Plan[me.kind][i])
    BY <1>3 DEF Running, AgreeInv
  <2> QED
    BY <2>1, <2>2, <2>3 DEF Held, Due
<1>4. \A i \in 1..q.at : i = me.at \/ i \in 1..(me.at - 1)
  BY DEF Ran, Running
<1>5. \A i \in 1..q.at : Plan[q.kind][i] # "enabled" => Held(q, Plan[q.kind][i])
  BY <1>3, <1>4 DEF Ran, Running
<1>6. q.kind \in {"detail", "evidence", "sku_trends"} => Cardinality(q.scope.skus) = 1
  BY DEF Running, AgreeInv, Ran
<1> QED
  BY <1>1, <1>5, <1>6

LEMMA ContinueHeld ==
    ASSUME NEW r \in Readers, NEW s, Running(r, s), NEW M \in SUBSET Listed, NEW q,
           Ran(req[r], s, M, q), Held(q, s)
    PROVE  AgreeInv([q EXCEPT !.at = @ + 1], Listed)
<1> DEFINE c == [q EXCEPT !.at = @ + 1]
<1>1. /\ c.pc = "run" /\ c.kind = q.kind /\ c.known = q.known /\ c.saw = q.saw
      /\ c.scope = q.scope /\ c.at = q.at + 1 /\ q.at \in 1..6
  BY DEF Ran, Running, Request
<1> HIDE DEF c
<1>2. \A t \in Statements : Held(q, t) <=> Held(c, t)
  BY <1>1 DEF Held, Due
<1>3. \A i \in 1..q.at : Plan[q.kind][i] \in Statements
  BY PlanShape DEF Running, Ran
<1>4. 1..(c.at - 1) = 1..q.at
  BY <1>1
<1>5. /\ \A i \in 1..q.at : Plan[q.kind][i] # "enabled" => Held(q, Plan[q.kind][i])
      /\ \A t \in Statements : q.saw[t] \subseteq Listed
      /\ q.known \subseteq Listed
      /\ q.kind \in {"detail", "evidence", "sku_trends"} =>
            Cardinality(q.scope.skus) = 1
  BY AllHeld
<1>6. \A i \in 1..(c.at - 1) :
         Plan[c.kind][i] # "enabled" => Held(c, Plan[c.kind][i])
  BY <1>1, <1>2, <1>3, <1>4, <1>5
<1> QED
  BY <1>1, <1>5, <1>6 DEF AgreeInv, Answered, c

LEMMA AnswerHeld ==
    ASSUME NEW r \in Readers, NEW s, Running(r, s), NEW M \in SUBSET Listed, NEW q,
           Ran(req[r], s, M, q), Held(q, s), NEW outcome \in Outcomes,
           \/ q.at = Len(Plan[q.kind]) /\ outcome \in {"ok", "partial", "raised"}
           \/ outcome \in {"not_found", "empty"} /\ Due(q) = {}
    PROVE  AgreeInv([q EXCEPT !.pc = outcome], Listed)
<1> DEFINE a == [q EXCEPT !.pc = outcome]
<1>1. /\ a.pc = outcome /\ a.kind = q.kind /\ a.known = q.known /\ a.saw = q.saw
      /\ a.scope = q.scope
  BY DEF Ran, Request
<1> HIDE DEF a
<1>2. Due(a) = Due(q) /\ \A t \in Statements : Held(q, t) <=> Held(a, t)
  BY <1>1 DEF Held, Due
<1>3. ASSUME q.at = Len(Plan[q.kind]), NEW t \in PartsOf(a) PROVE Held(a, t)
  <2>1. PICK i \in DOMAIN Plan[q.kind] : Plan[q.kind][i] = t
    BY <1>1 DEF PartsOf
  <2>2. i \in 1..q.at /\ t \in Statements /\ t # "enabled"
    BY <1>3, <2>1, PlanShape DEF Running, Ran, PartsOf
  <2> QED
    BY <1>2, <2>1, <2>2, AllHeld
<1>4. outcome # "run" /\ outcome # "bad_request"
  OBVIOUS
<1>5. \A t \in Statements : q.saw[t] \subseteq Listed
  BY AllHeld
<1>6. q.known \subseteq Listed
  BY AllHeld
<1> QED
  BY <1>1, <1>2, <1>3, <1>4, <1>5, <1>6 DEF AgreeInv, Answered, a

LEMMA ReadWeekIdsInv ==
    ASSUME AnalyticsTypeOK, ReadersInv, NEW r \in Readers, ReadWeekIds(r)
    PROVE  ReadersInv'
<1> DEFINE me == req[r]
           found == Select([Everything EXCEPT !.skus = me.scope.skus])
           one == [me EXCEPT !.saw["week_ids"] = found]
           q == IF one.kind = "sku_trends"
                THEN [one EXCEPT !.scope.weeks = LatestWeeks(found, one.scope.limit)]
                ELSE one
<1>1. Running(r, "week_ids")
  BY RunningFacts DEF ReadWeekIds, Runs
<1>2. [Everything EXCEPT !.skus = me.scope.skus] \in Scope
  BY <1>1, EverythingType DEF Running, Scope
<1>3. found \subseteq Listed /\ found \in SUBSET Mentions
  BY <1>2, SelectType
<1>4. one \in Request /\ one.saw = [me.saw EXCEPT !["week_ids"] = found]
  BY <1>1, <1>3 DEF Running, Request, Statements
<1>5. LatestWeeks(found, one.scope.limit) \subseteq Nat
  BY <1>3, AnalyticsAssumption DEF LatestWeeks, AnalyticsAssumption, Mention
<1>6. [one.scope EXCEPT !.weeks = LatestWeeks(found, one.scope.limit)] \in Scope
  BY <1>4, <1>5 DEF Request, Scope
<1>7. /\ one.pc = me.pc /\ one.kind = me.kind /\ one.at = me.at
      /\ one.known = me.known /\ one.scope = me.scope
  BY <1>1 DEF Running, Request
<1>8. /\ q \in Request /\ q.pc = me.pc /\ q.kind = me.kind /\ q.at = me.at
      /\ q.known = me.known /\ q.saw = one.saw /\ q.scope.skus = me.scope.skus
      /\ q.kind # "sku_trends" => q.scope = me.scope
  BY <1>4, <1>6, <1>7 DEF Request, Scope
<1>9. me.kind \notin Tool /\ me.at < Len(Plan[me.kind])
      /\ (me.kind = "sku_trends" => me.at = 2 /\ Plan[me.kind][1] = "enabled")
  BY <1>1, PlanShape DEF Running
<1> HIDE DEF q
<1>10. Ran(me, "week_ids", found, q)
  BY <1>4, <1>8, <1>9 DEF Ran
<1>11. Due(q) \subseteq found
  <2> SUFFICES ASSUME NEW m \in Due(q) PROVE m \in found
    OBVIOUS
  <2>1. m \in Listed
    BY <1>1, <1>8 DEF Due, Running, AgreeInv
  <2>2. m \in Mentions /\ m \in stored /\ m.good /\ m.sku \in enabled
    BY <2>1 DEF Listed, AnalyticsTypeOK
  <2>3. m.week \in Weeks /\ m.aspect \in Aspects /\ m.sentiment \in Sentiments
    BY <2>2, AnalyticsAssumption DEF AnalyticsAssumption, Mention, Weeks, Aspects
  <2>4. InScope(m, [Everything EXCEPT !.skus = me.scope.skus])
    BY <1>8, <2>3 DEF Due, InScope, Everything
  <2> QED
    BY <2>2, <2>4 DEF Select
<1>12. Held(q, "week_ids")
  <2>1. q.saw["week_ids"] = found
    BY <1>1, <1>4, <1>8 DEF Running, Request, Statements
  <2> HIDE DEF found
  <2> QED
    BY <1>11, <2>1 DEF Held
<1>13. CASE Answer(r, q, "not_found") /\ \A m \in found : m.week \notin q.scope.weeks
  <2>1. Due(q) = {}
    BY <1>11, <1>13 DEF Due, InScope
  <2>2. AgreeInv([q EXCEPT !.pc = "not_found"], Listed)
    BY <1>1, <1>3, <1>10, <1>12, <2>1, AnswerHeld DEF Outcomes
  <2>3. CountsInv([q EXCEPT !.pc = "not_found"], Listed)
    BY <1>8, <1>9 DEF CountsInv, Request
  <2> QED
    BY <1>8, <1>13, <2>2, <2>3, AnswerInv DEF Outcomes
<1>14. CASE Continue(r, q)
  <2>1. AgreeInv([q EXCEPT !.at = @ + 1], Listed)
    BY <1>1, <1>3, <1>10, <1>12, ContinueHeld
  <2>2. CountsInv([q EXCEPT !.at = @ + 1], Listed)
    BY <1>8, <1>9 DEF CountsInv, Request
  <2> QED
    BY <1>8, <1>14, <2>1, <2>2, ContinueInv
<1> QED
  BY <1>13, <1>14 DEF ReadWeekIds, q

LEMMA ReadCountsInv ==
    ASSUME AnalyticsTypeOK, ReadersInv, NEW r \in Readers, ReadCounts(r)
    PROVE  ReadersInv'
<1> DEFINE me == req[r]
           found == Select(me.scope)
           q == [me EXCEPT !.saw["counts"] = found]
<1>1. Running(r, "counts")
  BY RunningFacts DEF ReadCounts, Runs
<1>2. found \subseteq Listed /\ found \in SUBSET Mentions
  BY <1>1, SelectType DEF Running
<1>3. /\ q \in Request /\ q.saw = [me.saw EXCEPT !["counts"] = found]
      /\ q.pc = "run" /\ q.kind = me.kind /\ q.at = me.at
      /\ q.known = me.known /\ q.scope = me.scope /\ q.saw["counts"] = found
  BY <1>1, <1>2 DEF Running, Request, Statements
<1>4. me.kind \in Tool
      /\ (me.at < Len(Plan[me.kind]) <=> me.kind # "review_count")
  BY <1>1, PlanShape DEF Running
<1> HIDE DEF q
<1>5. Ran(me, "counts", found, q)
  BY <1>1, <1>3 DEF Ran, Running
<1>6. found = {m \in Listed : InScope(m, q.scope)}
  BY <1>3 DEF Select, Listed
<1>7. Due(q) \subseteq found
  BY <1>1, <1>3, <1>6 DEF Due, Running, AgreeInv
<1>8. Held(q, "counts")
  <2>1. q.saw["counts"] = found
    BY <1>3
  <2> HIDE DEF found
  <2> QED
    BY <1>7, <2>1 DEF Held
<1>9. CASE found = {} /\ Answer(r, q, "empty")
  <2>1. AgreeInv([q EXCEPT !.pc = "empty"], Listed)
    BY <1>1, <1>2, <1>5, <1>7, <1>8, <1>9, AnswerHeld DEF Outcomes
  <2>2. CountsInv([q EXCEPT !.pc = "empty"], Listed)
    BY <1>3 DEF CountsInv, Request
  <2> QED
    BY <1>3, <1>9, <2>1, <2>2, AnswerInv DEF Outcomes
<1>10. CASE me.kind = "review_count" /\ Answer(r, q, ToolOutcome(q))
  <2> DEFINE outcome == ToolOutcome(q)
  <2>1. outcome \in {"ok", "partial", "raised"}
        /\ (outcome = "ok" => WithoutSample(q) = {})
    BY DEF ToolOutcome
  <2> HIDE DEF outcome
  <2>2. q.at = Len(Plan[q.kind])
    BY <1>1, <1>3, <1>4, <1>10, PlanShape DEF Running
  <2>3. AgreeInv([q EXCEPT !.pc = outcome], Listed)
    BY <1>1, <1>2, <1>5, <1>8, <2>1, <2>2, AnswerHeld DEF Outcomes
  <2>4. WithoutSample([q EXCEPT !.pc = outcome]) = WithoutSample(q)
    BY <1>3 DEF WithoutSample, Request
  <2>5. CountsInv([q EXCEPT !.pc = outcome], Listed)
    BY <1>3, <1>10, <2>1, <2>4 DEF CountsInv, Request
  <2> QED
    BY <1>3, <1>10, <2>1, <2>3, <2>5, AnswerInv DEF Outcomes, outcome
<1>11. CASE Continue(r, q)
  <2>1. AgreeInv([q EXCEPT !.at = @ + 1], Listed)
    BY <1>1, <1>2, <1>5, <1>8, ContinueHeld
  <2>2. CountsInv([q EXCEPT !.at = @ + 1], Listed)
    BY <1>3, <1>6 DEF CountsInv, Request
  <2> QED
    BY <1>3, <1>11, <2>1, <2>2, ContinueInv
<1> QED
  BY <1>3, <1>9, <1>10, <1>11 DEF ReadCounts, q

LEMMA ReadPartInv ==
    ASSUME AnalyticsTypeOK, ReadersInv, NEW r \in Readers, ReadPart(r)
    PROVE  ReadersInv'
<1> DEFINE me == req[r]
           s == Plan[me.kind][me.at]
<1>1. Running(r, s) /\ s \notin {"enabled", "week_ids", "counts"}
  BY RunningFacts DEF ReadPart
<1>2. PICK M \in IF s = "evidence" THEN Evidence(me.scope)
                 ELSE IF s = "aggregations" THEN {Listed}
                 ELSE {Select(me.scope)} :
         LET q == [me EXCEPT !.saw[s] = M]
         IN  IF me.at < Len(Plan[me.kind]) THEN Continue(r, q)
             ELSE Answer(r, q, IF me.kind \in Tool THEN ToolOutcome(q) ELSE "ok")
  BY DEF ReadPart
<1> DEFINE q == [me EXCEPT !.saw[s] = M]
           outcome == IF me.kind \in Tool THEN ToolOutcome(q) ELSE "ok"
<1>3. M \subseteq Listed /\ M \in SUBSET Mentions
  BY <1>1, <1>2, SelectType DEF Evidence, Running
<1>4. Select(me.scope) = {m \in Listed : InScope(m, me.scope)}
  BY DEF Select, Listed
<1>5. \/ Select(me.scope) \subseteq M
      \/ s = "evidence" /\ Cardinality(M) = me.scope.limit
  BY <1>2, <1>4 DEF Evidence
<1>6. /\ q \in Request /\ q.saw = [me.saw EXCEPT ![s] = M]
      /\ q.pc = "run" /\ q.kind = me.kind /\ q.at = me.at
      /\ q.known = me.known /\ q.scope = me.scope /\ q.saw[s] = M
  BY <1>1, <1>3 DEF Running, Request
<1>7. me.kind \in Tool => s = "rows" /\ me.at = Len(Plan[me.kind])
  BY <1>1, PlanShape DEF Running
<1> HIDE DEF q, s, outcome
<1>8. Ran(me, s, M, q)
  BY <1>1, <1>6 DEF Ran, Running
<1>9. Due(q) \subseteq Select(me.scope)
  BY <1>1, <1>4, <1>6 DEF Due, Running, AgreeInv
<1>10. Held(q, s)
  BY <1>5, <1>6, <1>9 DEF Held
<1>11. CASE me.at < Len(Plan[me.kind]) /\ Continue(r, q)
  <2>1. AgreeInv([q EXCEPT !.at = @ + 1], Listed)
    BY <1>1, <1>3, <1>8, <1>10, ContinueHeld
  <2>2. me.kind \notin Tool
    BY <1>1, <1>7, <1>11 DEF Running
  <2>3. CountsInv([q EXCEPT !.at = @ + 1], Listed)
    BY <1>6, <2>2 DEF CountsInv, Request
  <2> QED
    BY <1>6, <1>11, <2>1, <2>3, ContinueInv
<1>12. CASE ~(me.at < Len(Plan[me.kind])) /\ Answer(r, q, outcome)
  <2>1. outcome \in {"ok", "partial", "raised"}
        /\ (me.kind \in Tool /\ outcome = "ok" => WithoutSample(q) = {})
    BY DEF ToolOutcome, outcome
  <2>2. q.at = Len(Plan[q.kind])
    <3>1. Len(Plan[me.kind]) \in 1..5
      BY <1>1, PlanShape DEF Running
    <3> QED
      BY <1>1, <1>6, <1>12, <3>1 DEF Running
  <2>3. AgreeInv([q EXCEPT !.pc = outcome], Listed)
    BY <1>1, <1>3, <1>8, <1>10, <2>1, <2>2, AnswerHeld DEF Outcomes
  <2>4. WithoutSample([q EXCEPT !.pc = outcome]) = WithoutSample(q)
    BY <1>6 DEF WithoutSample, Request
  <2>5. me.kind \in Tool => q.saw["counts"] \subseteq q.saw["rows"]
    <3>1. SUFFICES ASSUME me.kind \in Tool PROVE q.saw["counts"] \subseteq q.saw["rows"]
      OBVIOUS
    <3>2. s = "rows"
      BY <1>7, <3>1
    <3>3. q.saw["counts"] = me.saw["counts"] /\ q.saw["rows"] = M
      BY <1>1, <1>6, <3>2 DEF Running, Request, Statements
    <3>4. me.saw["counts"] \subseteq Select(me.scope)
      BY <1>1, <1>4, <3>1 DEF Running, CountsInv
    <3> QED
      BY <1>5, <3>2, <3>3, <3>4
  <2>6. CountsInv([q EXCEPT !.pc = outcome], Listed)
    BY <1>6, <2>1, <2>4, <2>5 DEF CountsInv, Request
  <2> QED
    BY <1>6, <1>12, <2>1, <2>3, <2>6, AnswerInv DEF Outcomes
<1> QED
  BY <1>2, <1>11, <1>12 DEF q, outcome

LEMMA QueryFailsInv ==
    ASSUME AnalyticsTypeOK, ReadersInv, NEW r \in Readers, QueryFails(r)
    PROVE  ReadersInv'
<1> DEFINE a == [req[r] EXCEPT !.pc = "unavailable"]
<1>1. req[r] \in Request /\ AgreeInv(req[r], Listed) /\ CountsInv(req[r], Listed)
  BY DEF AnalyticsTypeOK, ReadersInv
<1>2. /\ a.pc = "unavailable" /\ a.known = req[r].known /\ a.saw = req[r].saw
  BY <1>1 DEF Request
<1>3. AgreeInv(a, Listed) /\ CountsInv(a, Listed)
  BY <1>1, <1>2 DEF AgreeInv, CountsInv, Answered
<1> QED
  BY <1>1, <1>3, AnswerInv DEF QueryFails, Outcomes

LEMMA ReadersInvStep ==
    AnalyticsTypeOK /\ ReadersInv /\ [AnalyticsNext]_analyticsVars => ReadersInv'
<1> SUFFICES ASSUME AnalyticsTypeOK, ReadersInv, [AnalyticsNext]_analyticsVars
             PROVE  ReadersInv'
  OBVIOUS
<1>1. CASE LoaderNext /\ UNCHANGED <<stored, readVars>>
  <2>1. enabled \subseteq enabled'
    BY <1>1, LoaderOnlyAdds DEF AnalyticsTypeOK
  <2> QED
    BY <1>1, <2>1, StoreGrows DEF Listed, readVars
<1>2. ASSUME NEW d \in documents, CommitMentions(d) PROVE ReadersInv'
  BY <1>2, StoreGrows DEF CommitMentions, Listed, loaderVars
<1>3. ASSUME NEW r \in Readers, ReaderStep(r) \/ QueryFails(r) PROVE ReadersInv'
  BY <1>3, ReadEnabledInv, ReadWeekIdsInv, ReadCountsInv, ReadPartInv, QueryFailsInv
     DEF ReaderStep
<1>4. CASE UNCHANGED analyticsVars
  BY <1>4, StoreGrows DEF analyticsVars, loaderVars, Listed
<1> QED
  BY <1>1, <1>2, <1>3, <1>4, BeginInv DEF AnalyticsNext

-----------------------------------------------------------------------------
(* The aggregates: the rows of a statement add up to what it has selected.  *)

LEMMA MentionsAreFinite ==
    ASSUME NEW M \in SUBSET Mentions
    PROVE  IsFiniteSet(M) /\ Cardinality(M) \in Nat
BY AnalyticsAssumption, FS_Subset, FS_CardinalityType DEF AnalyticsAssumption

LEMMA RankingsAddUp ==
    ASSUME NEW M \in SUBSET Mentions
    PROVE  Total(SkuRankings(M)) = Cardinality(M)
<1> DEFINE key == [m \in M |-> m.sku]
           rows == SkuRankings(M)
<1>1. IsFiniteSet(M) /\ DOMAIN key = M
  BY MentionsAreFinite
<1>2. DOMAIN rows = {key[m] : m \in M}
  BY DEF SkuRankings
<1>3. \A g \in DOMAIN rows : rows[g] = Cardinality({m \in M : key[m] = g})
  <2>1. \A g : OfSku(M, g) = {m \in M : key[m] = g}
    BY DEF OfSku
  <2> QED
    BY <2>1 DEF SkuRankings
<1> HIDE DEF key, rows
<1> QED
  BY <1>1, <1>2, <1>3, TotalOfAllClasses DEF rows

LEMMA WeeksAddUp ==
    ASSUME NEW M \in SUBSET Mentions
    PROVE  Total(WeekAggregations(M)) = Cardinality(M)
<1> DEFINE key == [m \in M |-> m.week]
           rows == WeekAggregations(M)
<1>1. IsFiniteSet(M) /\ DOMAIN key = M
  BY MentionsAreFinite
<1>2. DOMAIN rows = {key[m] : m \in M}
  BY DEF WeekAggregations
<1>3. \A g \in DOMAIN rows : rows[g] = Cardinality({m \in M : key[m] = g})
  <2>1. \A g : OfWeek(M, g) = {m \in M : key[m] = g}
    BY DEF OfWeek
  <2> QED
    BY <2>1 DEF WeekAggregations
<1> HIDE DEF key, rows
<1> QED
  BY <1>1, <1>2, <1>3, TotalOfAllClasses DEF rows

LEMMA TrendsAddUp ==
    ASSUME NEW M \in SUBSET Mentions
    PROVE  Total(SkuTrends(M)) = Cardinality(M)
<1> DEFINE key == [m \in M |-> <<m.week, m.aspect>>]
           rows == SkuTrends(M)
<1>1. IsFiniteSet(M) /\ DOMAIN key = M
  BY MentionsAreFinite
<1>2. DOMAIN rows = {key[m] : m \in M}
  BY DEF SkuTrends
<1>3. ASSUME NEW n \in M
      PROVE  rows[key[n]] = Cardinality({m \in M : key[m] = key[n]})
  <2>1. OfAspect(OfWeek(M, n.week), n.aspect) = {m \in M : key[m] = key[n]}
    BY DEF OfAspect, OfWeek
  <2>2. key[n] = <<n.week, n.aspect>> /\ key[n] \in {<<m.week, m.aspect>> : m \in M}
    OBVIOUS
  <2>3. rows[key[n]] = Cardinality(OfAspect(OfWeek(M, key[n][1]), key[n][2]))
    BY <2>2 DEF SkuTrends
  <2> QED
    BY <2>1, <2>2, <2>3
<1>4. \A g \in DOMAIN rows : rows[g] = Cardinality({m \in M : key[m] = g})
  <2> HIDE DEF key, rows
  <2> QED
    BY <1>2, <1>3
<1> HIDE DEF key, rows
<1> QED
  BY <1>1, <1>2, <1>4, TotalOfAllClasses DEF rows

LEMMA SentimentsAddUp ==
    ASSUME NEW M \in SUBSET Mentions
    PROVE  Total(SentimentBreakdown(M)) = Cardinality(M)
<1> DEFINE key == [m \in M |-> m.sentiment]
           rows == SentimentBreakdown(M)
<1>1. IsFiniteSet(M) /\ DOMAIN key = M
  BY MentionsAreFinite
<1>2. DOMAIN rows = Sentiments /\ \A m \in M : key[m] \in Sentiments
  BY AnalyticsAssumption DEF AnalyticsAssumption, Mention, SentimentBreakdown
<1>3. IsFiniteSet(Sentiments)
  <2>1. IsFiniteSet({"positive"}) /\ IsFiniteSet({"negative"}) /\ IsFiniteSet({"neutral"})
    BY FS_Singleton
  <2>2. Sentiments = ({"positive"} \cup {"negative"}) \cup {"neutral"}
    BY DEF Sentiments
  <2>3. IsFiniteSet({"positive"} \cup {"negative"})
    BY <2>1, FS_Union
  <2> QED
    BY <2>1, <2>2, <2>3, FS_Union
<1>4. \A g \in DOMAIN rows : rows[g] = Cardinality({m \in M : key[m] = g})
  <2>1. \A g : {m \in M : m.sentiment = g} = {m \in M : key[m] = g}
    OBVIOUS
  <2> QED
    BY <2>1 DEF SentimentBreakdown
<1> HIDE DEF key, rows
<1> QED
  BY <1>1, <1>2, <1>3, <1>4, TotalOfClasses DEF rows

\* A ranking of aspects that its limit does not cut.
LEMMA AspectsAddUp ==
    ASSUME NEW M \in SUBSET Mentions, NEW n \in Nat,
           Cardinality({m.aspect : m \in M}) <= n
    PROVE  Total(TopAspects(M, n)) = Cardinality(M)
<1> DEFINE key == [m \in M |-> m.aspect]
           rows == TopAspects(M, n)
           labels == {m.aspect : m \in M}
           size(a) == Cardinality(OfAspect(M, a))
           before(a, b) == size(a) > size(b) \/ (size(a) = size(b) /\ a < b)
           ahead(a) == {b \in labels : before(b, a)}
<1>1. IsFiniteSet(M) /\ DOMAIN key = M
  BY MentionsAreFinite
<1>2. labels = {key[m] : m \in M}
  OBVIOUS
<1>3. IsFiniteSet(labels)
  <2> HIDE DEF key, labels
  <2> QED
    BY <1>1, <1>2, ImageIsFinite
<1>4. labels \subseteq Nat
  BY AnalyticsAssumption DEF AnalyticsAssumption, Mention
<1>5. ASSUME NEW a \in labels PROVE Cardinality(ahead(a)) < n
  <2>1. ~before(a, a)
    <3>1. size(a) \in Nat
      BY MentionsAreFinite DEF OfAspect
    <3>2. a \in Nat
      BY <1>4
    <3> HIDE DEF size, labels
    <3> QED
      BY <3>1, <3>2
  <2>2. ahead(a) \subseteq labels /\ ahead(a) # labels
    BY <2>1
  <2> HIDE DEF ahead, labels
  <2>3. /\ Cardinality(ahead(a)) <= Cardinality(labels)
        /\ Cardinality(ahead(a)) # Cardinality(labels)
        /\ Cardinality(ahead(a)) \in Nat /\ Cardinality(labels) \in Nat
    BY <1>3, <2>2, FS_Subset, FS_CardinalityType
  <2> QED
    BY <2>3 DEF labels
<1>6. rows = [a \in labels |-> size(a)]
  BY <1>5 DEF TopAspects
<1>7. DOMAIN rows = {key[m] : m \in M}
  BY <1>2, <1>6
<1>8. \A g \in DOMAIN rows : rows[g] = Cardinality({m \in M : key[m] = g})
  <2>1. \A g : OfAspect(M, g) = {m \in M : key[m] = g}
    BY DEF OfAspect
  <2> HIDE DEF rows
  <2> QED
    BY <1>6, <2>1
<1> HIDE DEF key, rows
<1> QED
  BY <1>1, <1>7, <1>8, TotalOfAllClasses DEF rows

LEMMA PartAddsUp ==
    ASSUME NEW q \in Request, NEW s \in PartsOf(q), Uncut(q, s)
    PROVE  PartTotal(q, s) = Cardinality(q.saw[s])
<1> DEFINE M == q.saw[s]
<1>1. s \in Statements /\ s # "enabled" /\ s # "evidence" /\ s # "week_ids"
  BY DEF PartsOf, Uncut
<1>2. M \in SUBSET Mentions /\ q.scope.limit \in Nat
  BY <1>1 DEF Request, Scope
<1>3. CASE s = "aspects"
  <2> DEFINE labels == {m.aspect : m \in M}
             all == [m \in Mentions |-> m.aspect]
  <2>1. IsFiniteSet({all[m] : m \in Mentions})
    BY AnalyticsAssumption, ImageIsFinite DEF AnalyticsAssumption
  <2>2. IsFiniteSet(Aspects)
    BY <2>1 DEF Aspects
  <2>3. labels \in SUBSET Aspects
    BY <1>2 DEF Aspects
  <2>4. Cardinality(Aspects) <= TopLimit
    BY <1>3 DEF Uncut
  <2>5. Cardinality(labels) <= TopLimit /\ TopLimit \in Nat
    <3> HIDE DEF labels
    <3>1. Cardinality(labels) <= Cardinality(Aspects) /\ Cardinality(labels) \in Nat
          /\ Cardinality(Aspects) \in Nat
      BY <2>2, <2>3, FS_Subset, FS_CardinalityType
    <3> QED
      BY <2>4, <3>1 DEF TopLimit
  <2>6. PartTotal(q, s) = Total(TopAspects(M, TopLimit))
    BY <1>3 DEF PartTotal
  <2> QED
    BY <1>2, <2>5, <2>6, AspectsAddUp
<1>4. CASE s = "rows" /\ q.kind = "aspect_distribution"
  <2>1. Cardinality({m.aspect : m \in M}) <= q.scope.limit
    BY <1>4 DEF Uncut
  <2>2. PartTotal(q, s) = Total(TopAspects(M, q.scope.limit))
    BY <1>4 DEF PartTotal
  <2> QED
    BY <1>2, <2>1, <2>2, AspectsAddUp
<1>5. CASE s # "aspects" /\ ~(s = "rows" /\ q.kind = "aspect_distribution")
  <2>1. PartTotal(q, s) \in {Total(SentimentBreakdown(M)), Total(SkuRankings(M)),
                             Total(WeekAggregations(M)), Total(SkuTrends(M)),
                             Cardinality(M)}
    BY <1>1, <1>5 DEF PartTotal, Statements, Trend
  <2> QED
    BY <1>2, <2>1, SentimentsAddUp, RankingsAddUp, WeeksAddUp, TrendsAddUp
<1> QED
  BY <1>3, <1>4, <1>5

\* No bucket is larger than the total of the statement it comes from.
LEMMA SameRowsAreValid ==
    ASSUME NEW q \in Request, q.saw["counts"] = q.saw["rows"]
    PROVE  BucketsValid(q)
<1> DEFINE M == q.saw["rows"]
           buckets == TopAspects(M, q.scope.limit)
<1>1. M \in SUBSET Mentions
  BY DEF Request, Statements
<1>2. Total(SkuRankings(M)) = Cardinality(M) /\ Cardinality(M) \in Nat /\ IsFiniteSet(M)
  BY <1>1, RankingsAddUp, MentionsAreFinite
<1>3. ASSUME NEW a \in DOMAIN buckets PROVE buckets[a] <= Cardinality(M)
  <2>1. buckets[a] = Cardinality(OfAspect(M, a))
    BY DEF TopAspects
  <2>2. OfAspect(M, a) \in SUBSET M
    BY DEF OfAspect
  <2> QED
    BY <1>2, <2>1, <2>2, FS_Subset
<1> HIDE DEF buckets
<1>4. AspectBuckets(q).total = Cardinality(M) /\ AspectBuckets(q).buckets = buckets
  BY <1>2 DEF AspectBuckets, buckets
<1> QED
  BY <1>3, <1>4 DEF BucketsValid, InUnit

-----------------------------------------------------------------------------
(* The requests: what a statement selects lies between what the dashboard   *)
(* could show when the request began and what it can show.                  *)

Bracketed(q, s, L) ==
    s \notin {"enabled", "week_ids", "evidence"} =>
        /\ {m \in q.began : InScope(m, q.scope)} \subseteq q.saw[s]
        /\ q.saw[s] \subseteq {m \in L : InScope(m, q.scope)}

BracketInv(q, L) ==
    /\ q.began \subseteq L
    /\ q.pc = "run" =>
          /\ \A i \in 1..(q.at - 1) : Bracketed(q, Plan[q.kind][i], L)
          /\ q.kind = "weeks" => q.scope = Everything
    /\ Answered(q) => \A s \in PartsOf(q) : Bracketed(q, s, L)
    /\ q.pc = "raised" => q.kind = "aspect_distribution" /\ ~BucketsValid(q)

BracketsInv == \A r \in Readers : BracketInv(req[r], Listed)

LEMMA BracketGrows ==
    ASSUME NEW q, NEW L, NEW K, L \subseteq K, BracketInv(q, L)
    PROVE  BracketInv(q, K)
BY DEF BracketInv, Bracketed

LEMMA BracketsInvInit == AnalyticsInit => BracketsInv
<1>1. /\ NoRequest.pc = "idle" /\ NoRequest.began = {}
  BY DEF NoRequest
<1> QED
  BY <1>1 DEF AnalyticsInit, BracketsInv, BracketInv, Answered

\* Only the reader that runs changes, and what can be shown does not.
LEMMA OneReaderBrackets ==
    ASSUME AnalyticsTypeOK, BracketsInv, NEW r \in Readers, NEW q,
           req' = [req EXCEPT ![r] = q], Listed' = Listed, BracketInv(q, Listed)
    PROVE  BracketsInv'
<1>1. \A k \in Readers : BracketInv(req'[k], Listed)
  BY DEF BracketsInv, AnalyticsTypeOK
<1> QED
  BY <1>1 DEF BracketsInv

LEMMA AnswerBrackets ==
    ASSUME AnalyticsTypeOK, BracketsInv, NEW r \in Readers, NEW q \in Request,
           NEW outcome \in Outcomes, Answer(r, q, outcome), q.began \subseteq Listed,
           outcome \in {"ok", "partial"} =>
               \A s \in PartsOf(q) : Bracketed(q, s, Listed),
           outcome = "raised" => q.kind = "aspect_distribution" /\ ~BucketsValid(q)
    PROVE  BracketsInv'
<1> DEFINE a == [q EXCEPT !.pc = outcome]
<1>1. /\ a.pc = outcome /\ a.kind = q.kind /\ a.saw = q.saw /\ a.scope = q.scope
      /\ a.began = q.began
  BY DEF Request
<1>2. Listed' = Listed /\ req' = [req EXCEPT ![r] = a]
  BY DEF Answer, Listed, loaderVars
<1>3. outcome # "run"
  BY DEF Outcomes
<1> HIDE DEF a
<1>4. /\ BucketsValid(a) <=> BucketsValid(q)
      /\ \A s, L : Bracketed(a, s, L) <=> Bracketed(q, s, L)
      /\ PartsOf(a) = PartsOf(q)
  BY <1>1 DEF BucketsValid, AspectBuckets, Bracketed, PartsOf
<1>5. BracketInv(a, Listed)
  BY <1>1, <1>3, <1>4 DEF BracketInv, Answered
<1> QED
  BY <1>2, <1>5, OneReaderBrackets

LEMMA ContinueBrackets ==
    ASSUME AnalyticsTypeOK, BracketsInv, NEW r \in Readers, NEW q \in Request,
           Continue(r, q), q.pc = "run", q.began \subseteq Listed,
           \A i \in 1..q.at : Bracketed(q, Plan[q.kind][i], Listed),
           q.kind = "weeks" => q.scope = Everything
    PROVE  BracketsInv'
<1> DEFINE c == [q EXCEPT !.at = @ + 1]
<1>1. /\ c.pc = "run" /\ c.kind = q.kind /\ c.saw = q.saw /\ c.scope = q.scope
      /\ c.began = q.began /\ c.at = q.at + 1 /\ q.at \in 1..6
  BY DEF Request
<1>2. Listed' = Listed /\ req' = [req EXCEPT ![r] = c]
  BY DEF Continue, Listed, loaderVars
<1> HIDE DEF c
<1>3. \A s, L : Bracketed(c, s, L) <=> Bracketed(q, s, L)
  BY <1>1 DEF Bracketed
<1>4. 1..(c.at - 1) = 1..q.at
  BY <1>1
<1>5. BracketInv(c, Listed)
  BY <1>1, <1>3, <1>4 DEF BracketInv, Answered
<1> QED
  BY <1>2, <1>5, OneReaderBrackets

\* The two statements that look things up come before all others.
LEMMA LookupsComeFirst ==
    ASSUME NEW kind \in Kinds, NEW i \in 1..Len(Plan[kind]),
           Plan[kind][i] \in {"enabled", "week_ids"}
    PROVE  \A j \in 1..i : Plan[kind][j] \in {"enabled", "week_ids"}
<1>1. CASE kind = "weeks"
  BY <1>1 DEF Plan, WeeksPlan, Tool
<1>2. CASE kind = "overview"
  BY <1>2 DEF Plan, OverviewPlan, Tool, Kinds
<1>3. CASE kind = "detail"
  BY <1>3 DEF Plan, DetailPlan, Tool, Kinds
<1>4. CASE kind = "evidence"
  BY <1>4 DEF Plan, EvidencePlan, Tool, Kinds
<1>5. CASE kind = "sku_trends"
  BY <1>5 DEF Plan, TrendsPlan, Tool, Kinds
<1>6. CASE kind = "review_count"
  BY <1>6 DEF Plan, ToolPlan, Tool, Kinds
<1>7. CASE kind \in Tool \ {"review_count"}
  <2>1. Plan[kind] = <<"enabled", "counts", "rows">>
    BY <1>7 DEF Plan, ToolPlan, Tool, Kinds
  <2> QED
    BY <1>7, <2>1 DEF Tool
<1> QED
  BY <1>1, <1>2, <1>3, <1>4, <1>5, <1>6, <1>7 DEF Kinds, Tool

LEMMA AggregationsOfWeeks ==
    ASSUME NEW kind \in Kinds, NEW i \in 1..Len(Plan[kind]),
           Plan[kind][i] = "aggregations"
    PROVE  kind = "weeks"
BY DEF Plan, OverviewPlan, DetailPlan, EvidencePlan, TrendsPlan, ToolPlan, Kinds, Tool

\* A statement that selects everything in scope keeps the bracket.
LEMMA SelectionBracketed ==
    ASSUME NEW r \in Readers, NEW s, Running(r, s), BracketInv(req[r], Listed),
           NEW q \in Request, NEW M,
           s # "evidence" => M = {m \in Listed : InScope(m, req[r].scope)},
           q.saw = [req[r].saw EXCEPT ![s] = M],
           q.kind = req[r].kind, q.at = req[r].at, q.scope = req[r].scope,
           q.began = req[r].began
    PROVE  \A i \in 1..q.at : Bracketed(q, Plan[q.kind][i], Listed)
<1> DEFINE me == req[r]
<1>1. SUFFICES ASSUME NEW i \in 1..me.at PROVE Bracketed(q, Plan[me.kind][i], Listed)
  OBVIOUS
<1>2. Plan[me.kind][i] \in Statements
  BY PlanShape DEF Running
<1>3. CASE Plan[me.kind][i] = s
  <2>1. q.saw[s] = M
    BY DEF Running, Request
  <2>2. s # "evidence" => /\ {m \in q.began : InScope(m, q.scope)} \subseteq M
                          /\ M \subseteq {m \in Listed : InScope(m, q.scope)}
    BY DEF BracketInv, Running
  <2> QED
    BY <1>3, <2>1, <2>2 DEF Bracketed
<1>4. CASE Plan[me.kind][i] # s
  <2>1. q.saw[Plan[me.kind][i]] = me.saw[Plan[me.kind][i]]
    BY <1>2, <1>4 DEF Running, Request
  <2>2. i \in 1..(me.at - 1)
    BY <1>1, <1>4 DEF Running
  <2>3. Bracketed(me, Plan[me.kind][i], Listed)
    BY <2>2 DEF BracketInv, Running
  <2> QED
    BY <2>1, <2>3 DEF Bracketed
<1> QED
  BY <1>3, <1>4

\* Behind its last statement a request has run all of its parts.
LEMMA AllPartsRan ==
    ASSUME NEW q \in Request, q.at <= Len(Plan[q.kind]), ~(q.at < Len(Plan[q.kind])),
           \A i \in 1..q.at : Bracketed(q, Plan[q.kind][i], Listed),
           NEW s \in PartsOf(q)
    PROVE  Bracketed(q, s, Listed)
<1>1. q.kind \in Kinds /\ q.at \in 1..6
  BY DEF Request
<1>2. PICK i \in DOMAIN Plan[q.kind] : Plan[q.kind][i] = s
  BY DEF PartsOf
<1>3. i \in 1..q.at
  BY <1>1, <1>2, PlanShape
<1> QED
  BY <1>2, <1>3

LEMMA ReadEnabledBrackets ==
    ASSUME AnalyticsTypeOK, ReadersInv, BracketsInv, NEW r \in Readers, ReadEnabled(r)
    PROVE  BracketsInv'
<1> DEFINE me == req[r]
           asked == IF me.scope.skus = {} THEN enabled ELSE me.scope.skus
           q == [me EXCEPT !.scope.skus = asked]
<1>1. Running(r, "enabled") /\ BracketInv(me, Listed)
  BY RunningFacts DEF ReadEnabled, Runs, BracketsInv
<1>2. [me.scope EXCEPT !.skus = asked] \in Scope
  BY <1>1 DEF Running, Scope, AnalyticsTypeOK, LoaderTypeOK
<1>3. /\ q \in Request /\ q.pc = "run" /\ q.kind = me.kind /\ q.at = me.at
      /\ q.began = me.began
  BY <1>1, <1>2 DEF Running, Request
<1>4. \A i \in 1..me.at : Plan[me.kind][i] \in {"enabled", "week_ids"}
  BY <1>1, LookupsComeFirst DEF Running
<1>5. me.kind # "weeks"
  BY <1>1, PlanShape DEF Running, Tool
<1> HIDE DEF q
<1>6. CASE Answer(r, q, "bad_request")
  BY <1>1, <1>3, <1>6, AnswerBrackets DEF BracketInv, Outcomes
<1>7. CASE Continue(r, q)
  BY <1>1, <1>3, <1>4, <1>5, <1>7, ContinueBrackets DEF BracketInv, Bracketed
<1> QED
  BY <1>6, <1>7 DEF ReadEnabled, q

LEMMA ReadWeekIdsBrackets ==
    ASSUME AnalyticsTypeOK, ReadersInv, BracketsInv, NEW r \in Readers, ReadWeekIds(r)
    PROVE  BracketsInv'
<1> DEFINE me == req[r]
           found == Select([Everything EXCEPT !.skus = me.scope.skus])
           one == [me EXCEPT !.saw["week_ids"] = found]
           q == IF one.kind = "sku_trends"
                THEN [one EXCEPT !.scope.weeks = LatestWeeks(found, one.scope.limit)]
                ELSE one
<1>1. Running(r, "week_ids") /\ BracketInv(me, Listed)
  BY RunningFacts DEF ReadWeekIds, Runs, BracketsInv
<1>2. [Everything EXCEPT !.skus = me.scope.skus] \in Scope
  BY <1>1, EverythingType DEF Running, Scope
<1>3. found \in SUBSET Mentions
  BY <1>2, SelectType
<1>4. one \in Request
  BY <1>1, <1>3 DEF Running, Request, Statements
<1>5. LatestWeeks(found, one.scope.limit) \subseteq Nat
  BY <1>3, AnalyticsAssumption DEF LatestWeeks, AnalyticsAssumption, Mention
<1>6. [one.scope EXCEPT !.weeks = LatestWeeks(found, one.scope.limit)] \in Scope
  BY <1>4, <1>5 DEF Request, Scope
<1>7. /\ q \in Request /\ q.pc = "run" /\ q.kind = me.kind /\ q.at = me.at
      /\ q.began = me.began
  BY <1>1, <1>4, <1>6 DEF Running, Request
<1>8. \A i \in 1..me.at : Plan[me.kind][i] \in {"enabled", "week_ids"}
  BY <1>1, LookupsComeFirst DEF Running
<1>9. me.kind # "weeks"
  BY <1>1 DEF Running, Plan, WeeksPlan, Kinds
<1> HIDE DEF q
<1>10. CASE Answer(r, q, "not_found")
  BY <1>1, <1>7, <1>10, AnswerBrackets DEF BracketInv, Outcomes
<1>11. CASE Continue(r, q)
  BY <1>1, <1>7, <1>8, <1>9, <1>11, ContinueBrackets DEF BracketInv, Bracketed
<1> QED
  BY <1>10, <1>11 DEF ReadWeekIds, q

LEMMA ReadCountsBrackets ==
    ASSUME AnalyticsTypeOK, ReadersInv, BracketsInv, NEW r \in Readers, ReadCounts(r)
    PROVE  BracketsInv'
<1> DEFINE me == req[r]
           q == [me EXCEPT !.saw["counts"] = Select(me.scope)]
<1>1. Running(r, "counts") /\ BracketInv(me, Listed)
  BY RunningFacts DEF ReadCounts, Runs, BracketsInv
<1>2. Select(me.scope) \in SUBSET Mentions
  BY <1>1, SelectType DEF Running
<1>3. Select(me.scope) = {m \in Listed : InScope(m, me.scope)}
  BY DEF Select, Listed
<1>4. /\ q \in Request /\ q.pc = "run" /\ q.kind = me.kind /\ q.at = me.at
      /\ q.scope = me.scope /\ q.began = me.began
      /\ q.saw = [me.saw EXCEPT !["counts"] = {m \in Listed : InScope(m, me.scope)}]
  BY <1>1, <1>2, <1>3 DEF Running, Request, Statements
<1>5. me.kind \in Tool /\ (me.at < Len(Plan[me.kind]) <=> me.kind # "review_count")
  BY <1>1, PlanShape DEF Running
<1>6. me.kind # "weeks"
  BY <1>5 DEF Tool
<1> HIDE DEF q
<1>7. \A i \in 1..q.at : Bracketed(q, Plan[q.kind][i], Listed)
  BY <1>1, <1>4, SelectionBracketed
<1>8. CASE Answer(r, q, "empty")
  BY <1>1, <1>4, <1>8, AnswerBrackets DEF BracketInv, Outcomes
<1>9. CASE me.kind = "review_count" /\ Answer(r, q, ToolOutcome(q))
  <2> DEFINE outcome == ToolOutcome(q)
  <2>1. outcome \in {"ok", "partial"}
    BY <1>4, <1>9 DEF ToolOutcome
  <2>2. \A s \in PartsOf(q) : Bracketed(q, s, Listed)
    BY <1>1, <1>4, <1>5, <1>7, <1>9, AllPartsRan DEF Running
  <2> HIDE DEF outcome
  <2> QED
    BY <1>1, <1>4, <1>9, <2>1, <2>2, AnswerBrackets DEF BracketInv, Outcomes, outcome
<1>10. CASE Continue(r, q)
  BY <1>1, <1>4, <1>6, <1>7, <1>10, ContinueBrackets DEF BracketInv
<1> QED
  BY <1>4, <1>8, <1>9, <1>10 DEF ReadCounts, q

LEMMA ReadPartBrackets ==
    ASSUME AnalyticsTypeOK, ReadersInv, BracketsInv, NEW r \in Readers, ReadPart(r)
    PROVE  BracketsInv'
<1> DEFINE me == req[r]
           s == Plan[me.kind][me.at]
<1>1. Running(r, s) /\ BracketInv(me, Listed)
  BY RunningFacts DEF ReadPart, BracketsInv
<1>2. PICK M \in IF s = "evidence" THEN Evidence(me.scope)
                 ELSE IF s = "aggregations" THEN {Listed}
                 ELSE {Select(me.scope)} :
         LET q == [me EXCEPT !.saw[s] = M]
         IN  IF me.at < Len(Plan[me.kind]) THEN Continue(r, q)
             ELSE Answer(r, q, IF me.kind \in Tool THEN ToolOutcome(q) ELSE "ok")
  BY DEF ReadPart
<1> DEFINE q == [me EXCEPT !.saw[s] = M]
           outcome == IF me.kind \in Tool THEN ToolOutcome(q) ELSE "ok"
<1>3. M \in SUBSET Mentions
  BY <1>1, <1>2, SelectType DEF Evidence, Running
<1>4. Select(me.scope) = {m \in Listed : InScope(m, me.scope)}
  BY DEF Select, Listed
<1>5. ASSUME s = "aggregations" PROVE M = {m \in Listed : InScope(m, me.scope)}
  <2>1. me.kind = "weeks" /\ me.pc = "run"
    BY <1>1, <1>5, AggregationsOfWeeks DEF Running
  <2>2. me.scope = Everything
    BY <1>1, <2>1 DEF BracketInv
  <2>3. M = Listed
    BY <1>2, <1>5
  <2>4. M = Select(me.scope)
    BY <2>2, <2>3, ListedIsShown DEF Shown
  <2> QED
    BY <1>4, <2>4
<1>6. s # "evidence" => M = {m \in Listed : InScope(m, me.scope)}
  BY <1>2, <1>4, <1>5
<1>7. /\ q \in Request /\ q.saw = [me.saw EXCEPT ![s] = M]
      /\ q.pc = "run" /\ q.kind = me.kind /\ q.at = me.at
      /\ q.began = me.began /\ q.scope = me.scope
  BY <1>1, <1>3 DEF Running, Request
<1> HIDE DEF q, s, outcome
<1>8. \A i \in 1..q.at : Bracketed(q, Plan[q.kind][i], Listed)
  BY <1>1, <1>6, <1>7, SelectionBracketed
<1>9. q.kind = "weeks" => q.scope = Everything
  BY <1>1, <1>7 DEF BracketInv, Running
<1>10. CASE me.at < Len(Plan[me.kind]) /\ Continue(r, q)
  BY <1>1, <1>7, <1>8, <1>9, <1>10, ContinueBrackets DEF BracketInv
<1>11. CASE ~(me.at < Len(Plan[me.kind])) /\ Answer(r, q, outcome)
  <2>1. /\ outcome \in {"ok", "partial", "raised"}
        /\ outcome = "raised" => q.kind = "aspect_distribution" /\ ~BucketsValid(q)
    BY DEF ToolOutcome, outcome
  <2>2. \A p \in PartsOf(q) : Bracketed(q, p, Listed)
    BY <1>1, <1>7, <1>8, <1>11, AllPartsRan DEF Running
  <2> QED
    BY <1>1, <1>7, <1>11, <2>1, <2>2, AnswerBrackets DEF BracketInv, Outcomes
<1> QED
  BY <1>2, <1>10, <1>11 DEF q, outcome

LEMMA QueryFailsBrackets ==
    ASSUME AnalyticsTypeOK, BracketsInv, NEW r \in Readers, QueryFails(r)
    PROVE  BracketsInv'
<1>1. req[r] \in Request /\ BracketInv(req[r], Listed)
  BY DEF AnalyticsTypeOK, BracketsInv
<1> QED
  BY <1>1, AnswerBrackets DEF QueryFails, BracketInv, Outcomes

LEMMA BeginBrackets ==
    ASSUME AnalyticsTypeOK, BracketsInv, NEW r \in Readers, NEW kind \in Kinds,
           Begin(r, kind)
    PROVE  BracketsInv'
<1>1. PICK scope \in Scopes[kind] :
         req' = [req EXCEPT ![r] = [NoRequest EXCEPT !.pc = "run", !.kind = kind,
                    !.scope = scope, !.began = Shown, !.known = shown]]
  BY DEF Begin
<1> DEFINE q == [NoRequest EXCEPT !.pc = "run", !.kind = kind,
                    !.scope = scope, !.began = Shown, !.known = shown]
<1>2. /\ q.pc = "run" /\ q.kind = kind /\ q.scope = scope /\ q.began = Shown
      /\ q.at = 1
  BY DEF NoRequest
<1>3. kind = "weeks" => scope = Everything
  BY <1>1, AnalyticsAssumption DEF AnalyticsAssumption
<1> HIDE DEF q
<1>4. Listed' = Listed /\ Shown = Listed
  BY ListedIsShown DEF Begin, Listed, loaderVars
<1>5. BracketInv(q, Listed)
  BY <1>2, <1>3, <1>4 DEF BracketInv, Answered
<1> QED
  BY <1>1, <1>4, <1>5, OneReaderBrackets DEF q

LEMMA BracketsInvStep ==
    AnalyticsTypeOK /\ ReadersInv /\ BracketsInv /\ [AnalyticsNext]_analyticsVars
        => BracketsInv'
<1> SUFFICES ASSUME AnalyticsTypeOK, ReadersInv, BracketsInv,
                    [AnalyticsNext]_analyticsVars
             PROVE  BracketsInv'
  OBVIOUS
<1>1. ASSUME Listed \subseteq Listed', UNCHANGED readVars PROVE BracketsInv'
  <2>1. \A r \in Readers : BracketInv(req[r], Listed')
    BY <1>1, BracketGrows DEF BracketsInv
  <2> QED
    BY <1>1, <2>1 DEF BracketsInv, readVars
<1>2. CASE LoaderNext /\ UNCHANGED <<stored, readVars>>
  <2>1. enabled \subseteq enabled'
    BY <1>2, LoaderOnlyAdds DEF AnalyticsTypeOK
  <2> QED
    BY <1>1, <1>2, <2>1 DEF Listed, readVars
<1>3. ASSUME NEW d \in documents, CommitMentions(d) PROVE BracketsInv'
  BY <1>1, <1>3 DEF CommitMentions, Listed, loaderVars
<1>4. ASSUME NEW r \in Readers, ReaderStep(r) \/ QueryFails(r) PROVE BracketsInv'
  BY <1>4, ReadEnabledBrackets, ReadWeekIdsBrackets, ReadCountsBrackets,
     ReadPartBrackets, QueryFailsBrackets DEF ReaderStep
<1>5. CASE UNCHANGED analyticsVars
  BY <1>1, <1>5 DEF analyticsVars, loaderVars, Listed
<1> QED
  BY <1>2, <1>3, <1>4, <1>5, BeginBrackets DEF AnalyticsNext

-----------------------------------------------------------------------------
(* What follows for the properties. *)

AllInv == AnalyticsTypeOK /\ LoadsInv /\ CountInv /\ ReadersInv /\ BracketsInv

LEMMA AllInvInit == AnalyticsInit => AllInv
BY TypeInit, LoadsInvInit, CountInvInit, ReadersInvInit, BracketsInvInit
   DEF AnalyticsInit, AllInv

LEMMA AllInvStep == AllInv /\ [AnalyticsNext]_analyticsVars => AllInv'
<1> SUFFICES ASSUME AllInv, [AnalyticsNext]_analyticsVars PROVE AllInv'
  OBVIOUS
<1>1. LoadsInv' /\ CountInv'
  <2>1. CASE LoaderNext
    BY <2>1, LoadsInvStep, CountInvStep DEF AllInv, AnalyticsTypeOK
  <2>2. CASE UNCHANGED loaderVars
    BY <2>2 DEF AllInv, loaderVars, LoadsInv, LoadInv, Covered, Usable, CountInv,
                InsertedAddsUp
  <2>3. ASSUME NEW r \in Readers, ReaderStep(r) \/ QueryFails(r)
        PROVE  UNCHANGED loaderVars
    BY <2>3 DEF ReaderStep, ReadEnabled, ReadWeekIds, ReadCounts, ReadPart, QueryFails,
                Answer, Continue
  <2>4. LoaderNext \/ UNCHANGED loaderVars
    BY <2>3 DEF AnalyticsNext, analyticsVars, CommitMentions, Begin
  <2> QED
    BY <2>1, <2>2, <2>4
<1> QED
  BY <1>1, TypeStep, ReadersInvStep, BracketsInvStep DEF AllInv

LEMMA PagesAgreeFromInv == AllInv => PagesAgree
BY DEF AllInv, ReadersInv, AgreeInv, PagesAgree, Held, Due

LEMMA CompleteComparisonFromInv == AllInv => CompleteComparison
<1> SUFFICES ASSUME AllInv, NEW r \in Readers, req[r].pc = "ok",
                    req[r].kind = "compare_skus", NEW s \in req[r].scope.skus
             PROVE  Reviews(OfSku(req[r].saw["rows"], s)) > 0
  BY DEF CompleteComparison
<1> DEFINE C == OfSku(req[r].saw["counts"], s)
           R == OfSku(req[r].saw["rows"], s)
           docs == {m.doc : m \in R}
<1>1. req[r].saw["counts"] \subseteq req[r].saw["rows"] /\ WithoutSample(req[r]) = {}
  BY DEF AllInv, ReadersInv, CountsInv, Tool
<1>2. Reviews(C) # 0
  BY <1>1 DEF WithoutSample
<1>3. C # {}
  <2>1. Cardinality({}) = 0
    BY FS_EmptySet
  <2>2. C = {} => {m.doc : m \in C} = {}
    OBVIOUS
  <2> QED
    BY <1>2, <2>1, <2>2 DEF Reviews
<1>4. R # {}
  BY <1>1, <1>3 DEF OfSku
<1>5. IsFiniteSet(R)
  <2>1. R \subseteq Mentions
    BY DEF AllInv, AnalyticsTypeOK, Request, Statements, OfSku
  <2> QED
    BY <2>1, AnalyticsAssumption, FS_Subset DEF AnalyticsAssumption
<1>6. IsFiniteSet(docs)
  <2> DEFINE f == [m \in R |-> m.doc]
  <2>1. f \in Surjection(R, docs)
    BY DEF Surjection
  <2> QED
    BY <1>5, <2>1, FS_Surjection
<1>7. docs # {}
  BY <1>4
<1> HIDE DEF docs
<1>8. Cardinality(docs) \in Nat /\ Cardinality(docs) # 0
  BY <1>6, <1>7, FS_EmptySet, FS_CardinalityType
<1> QED
  BY <1>8 DEF Reviews, docs

LEMMA BracketedFromInv == AllInv => PartsBracketed
<1> SUFFICES ASSUME AllInv, NEW r \in Readers, Answered(req[r]),
                    NEW s \in PartsOf(req[r]), Uncut(req[r], s)
             PROVE  LET size(M) == Cardinality({m \in M : InScope(m, req[r].scope)})
                    IN  /\ size(req[r].began) <= PartTotal(req[r], s)
                        /\ PartTotal(req[r], s) <= size(Shown)
  BY DEF PartsBracketed
<1> DEFINE q == req[r]
           B == {m \in q.began : InScope(m, q.scope)}
           S == {m \in Listed : InScope(m, q.scope)}
<1>1. q \in Request /\ Bracketed(q, s, Listed) /\ Shown = Listed
  BY ListedIsShown DEF AllInv, AnalyticsTypeOK, BracketsInv, BracketInv
<1>2. B \subseteq q.saw[s] /\ q.saw[s] \subseteq S
  BY <1>1 DEF Bracketed, PartsOf, Uncut
<1>3. S \in SUBSET Mentions
  BY DEF AllInv, AnalyticsTypeOK, Listed
<1>4. PartTotal(q, s) = Cardinality(q.saw[s])
  BY <1>1, PartAddsUp
<1>5. Cardinality(B) <= Cardinality(q.saw[s]) /\ Cardinality(q.saw[s]) <= Cardinality(S)
  <2> HIDE DEF B, S
  <2>1. IsFiniteSet(S) /\ IsFiniteSet(q.saw[s])
    BY <1>2, <1>3, MentionsAreFinite
  <2> QED
    BY <1>2, <2>1, FS_Subset
<1> QED
  BY <1>1, <1>4, <1>5

LEMMA RaisedFromInv == AllInv => RaisedOnlyBehindACommit
<1> SUFFICES ASSUME AllInv, NEW r \in Readers, req[r].pc = "raised"
             PROVE  /\ req[r].saw["counts"] # req[r].saw["rows"]
                    /\ req[r].saw["counts"] \subseteq req[r].saw["rows"]
  BY DEF RaisedOnlyBehindACommit
<1>1. req[r] \in Request /\ req[r].kind = "aspect_distribution" /\ ~BucketsValid(req[r])
  BY DEF AllInv, AnalyticsTypeOK, BracketsInv, BracketInv
<1>2. req[r].saw["counts"] # req[r].saw["rows"]
  BY <1>1, SameRowsAreValid
<1>3. req[r].saw["counts"] \subseteq req[r].saw["rows"]
  BY <1>1 DEF AllInv, ReadersInv, CountsInv, Tool
<1> QED
  BY <1>2, <1>3

\* The tables and what loaders and requests hold keep their types, for every
\* file, every set of mentions and any number of loaders and readers.
THEOREM TypeCorrect == AnalyticsSpec => []AnalyticsTypeOK
<1>1. AnalyticsInit => AllInv
  BY AllInvInit
<1>2. AllInv /\ [AnalyticsNext]_analyticsVars => AllInv'
  BY AllInvStep
<1>3. AllInv => AnalyticsTypeOK
  BY DEF AllInv
<1> QED
  BY <1>1, <1>2, <1>3, PTL DEF AnalyticsSpec

\* However many loaders run over the file, are stopped and are started again, a
\* load that ends without a limit has left no usable line without its row.
THEOREM LoadsComplete == AnalyticsSpec => []LoadIsComplete
<1>1. AnalyticsInit => AllInv
  BY AllInvInit
<1>2. AllInv /\ [AnalyticsNext]_analyticsVars => AllInv'
  BY AllInvStep
<1>3. AllInv => LoadIsComplete
  BY CompleteFromInv DEF AllInv, AnalyticsTypeOK
<1> QED
  BY <1>1, <1>2, <1>3, PTL DEF AnalyticsSpec

\* What one response has counted, every later response that asks for it counts
\* too, in all of its parts, whatever is loaded and committed meanwhile.
THEOREM DashboardAgrees == AnalyticsSpec => []PagesAgree
<1>1. AnalyticsInit => AllInv
  BY AllInvInit
<1>2. AllInv /\ [AnalyticsNext]_analyticsVars => AllInv'
  BY AllInvStep
<1>3. AllInv => PagesAgree
  BY PagesAgreeFromInv
<1> QED
  BY <1>1, <1>2, <1>3, PTL DEF AnalyticsSpec

\* A comparison that is reported as complete has reviews of every compared SKU,
\* although another statement decided it.
THEOREM ComparisonsComplete == AnalyticsSpec => []CompleteComparison
<1>1. AnalyticsInit => AllInv
  BY AllInvInit
<1>2. AllInv /\ [AnalyticsNext]_analyticsVars => AllInv'
  BY AllInvStep
<1>3. AllInv => CompleteComparison
  BY CompleteComparisonFromInv
<1> QED
  BY <1>1, <1>2, <1>3, PTL DEF AnalyticsSpec

\* No statement of a response contradicts an earlier one.
THEOREM ResponsesConsistent == AnalyticsSpec => []ResponsesAgree
  BY DashboardAgrees, ComparisonsComplete, PTL DEF ResponsesAgree

\* Whatever is committed while a page is put together, each of its parts adds up
\* to a number between what the dashboard could show at its start and what it can
\* show now; and a distribution fails validation only behind such a commit.
THEOREM RacesAreBounded == AnalyticsSpec => []RacesBounded
<1>1. AnalyticsInit => AllInv
  BY AllInvInit
<1>2. AllInv /\ [AnalyticsNext]_analyticsVars => AllInv'
  BY AllInvStep
<1>3. AllInv => RacesBounded
  BY BracketedFromInv, RaisedFromInv DEF RacesBounded
<1> QED
  BY <1>1, <1>2, <1>3, PTL DEF AnalyticsSpec

\* The rows the loaders report as inserted, those of stopped runs included, are
\* the rows there are, for any number of loaders over the same file.
THEOREM CountsAddUp == AnalyticsSpec => []InsertedAddsUp
<1>1. AnalyticsInit => AllInv
  BY AllInvInit
<1>2. AllInv /\ [AnalyticsNext]_analyticsVars => AllInv'
  BY AllInvStep
<1>3. AllInv => InsertedAddsUp
  BY DEF AllInv, CountInv
<1> QED
  BY <1>1, <1>2, <1>3, PTL DEF AnalyticsSpec
=============================================================================
