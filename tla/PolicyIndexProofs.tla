------------------------- MODULE PolicyIndexProofs --------------------------
(***************************************************************************)
(* Proofs about PolicyIndex for any chains, ids, owners, amounts and days  *)
(* and any number of events.  Its invariants compare sums over the rows of *)
(* its tables, so the first sections are about sums and about what one     *)
(* handler does to the sum of a column.                                    *)
(***************************************************************************)
EXTENDS PolicyIndex, TLAPS, FiniteSetTheorems, SequenceTheorems, NaturalsInduction,
        WellFoundedInduction

\* A set of naturals that is not empty has a least element.
LEMMA HasLeast ==
  ASSUME NEW T, T \subseteq Nat, T # {}
  PROVE  \E n \in T : \A m \in T : n <= m
<1>1. IsWellFoundedOn(OpToRel(<, Nat), Nat)
  BY NatLessThanWellFounded
<1>2. PICK n \in T : \A m \in T : ~(<<m, n>> \in OpToRel(<, Nat))
  BY <1>1, WFMin
<1>3. \A m \in T : ~(m < n)
  BY <1>2 DEF OpToRel
<1> QED BY <1>3

\* sum gives, for each part of S, the sum of f over it: the recursion by which
\* SumFunction is defined.
Choice(s) == CHOOSE x \in s : TRUE
SumsOver(f, S, sum) ==
  sum = [s \in SUBSET S |-> IF s = {} THEN 0 ELSE f[Choice(s)] + sum[s \ {Choice(s)}]]

LEMMA ChoiceIn == ASSUME NEW s, s # {} PROVE Choice(s) \in s
BY DEF Choice

\* What is left of a finite set without one of its elements is smaller.
LEMMA Smaller ==
  ASSUME NEW S, IsFiniteSet(S), NEW s \in SUBSET S, NEW x \in s
  PROVE  /\ s \ {x} \in SUBSET S
         /\ Cardinality(s) \in Nat /\ Cardinality(s \ {x}) \in Nat
         /\ Cardinality(s \ {x}) = Cardinality(s) - 1
<1>1. IsFiniteSet(s)
  BY FS_Subset
<1> QED BY <1>1, FS_RemoveElement, FS_CardinalityType

\* A finite set with one more element.
LEMMA OneMore ==
  ASSUME NEW S, IsFiniteSet(S), NEW x
  PROVE  /\ Cardinality(S) \in Nat /\ IsFiniteSet(S \cup {x})
         /\ x \notin S => Cardinality(S \cup {x}) = Cardinality(S) + 1
         /\ x \in S => S \cup {x} = S
         /\ Cardinality(S \cup {x}) = Cardinality(S) + (IF x \in S THEN 0 ELSE 1)
<1>1. Cardinality(S) \in Nat
  BY FS_CardinalityType
<1>2. x \notin S => Cardinality(S \cup {x}) = Cardinality(S) + 1
  BY FS_AddElement
<1>3. IsFiniteSet(S \cup {x})
  BY FS_AddElement
<1>4. x \in S => S \cup {x} = S
  OBVIOUS
<1>5. Cardinality(S \cup {x}) = Cardinality(S) + (IF x \in S THEN 0 ELSE 1)
  <2>1. CASE x \in S
    <3>1. Cardinality(S \cup {x}) = Cardinality(S)
      BY <1>4, <2>1, Zenon
    <3> QED BY <1>1, <2>1, <3>1
  <2>2. CASE x \notin S
    BY <1>1, <1>2, <2>2
  <2> QED BY <2>1, <2>2
<1> QED BY <1>1, <1>2, <1>3, <1>4, <1>5

\* Over a finite set the recursion defines a function.
LEMMA SumExists ==
  ASSUME NEW S, IsFiniteSet(S), NEW f
  PROVE  \E sum : SumsOver(f, S, sum)
<1> DEFINE upto(n) == {s \in SUBSET S : Cardinality(s) <= n}
           Part(n, g) == g = [s \in upto(n) |->
                                IF s = {} THEN 0 ELSE f[Choice(s)] + g[s \ {Choice(s)}]]
           bad == {n \in Nat : ~\E g : Part(n, g)}
<1>1. \A s \in SUBSET S : Cardinality(s) \in Nat
  BY FS_Subset, FS_CardinalityType
<1>2. \A s \in SUBSET S : s # {} =>
        /\ s \ {Choice(s)} \in SUBSET S
        /\ Cardinality(s \ {Choice(s)}) = Cardinality(s) - 1
  BY ChoiceIn, Smaller
<1>3. bad = {}
  <2> SUFFICES ASSUME bad # {} PROVE FALSE
    OBVIOUS
  <2> HIDE DEF Part
  <2>1. PICK n \in bad : \A m \in bad : n <= m
    BY HasLeast
  <2>2. n \in Nat /\ ~\E g : Part(n, g)
    OBVIOUS
  <2>3. CASE n = 0
    <3>1. \A s \in upto(0) : s = {}
      BY <1>1, FS_EmptySet, FS_Subset
    <3>2. Part(0, [s \in upto(0) |-> 0])
      BY <3>1 DEF Part
    <3> QED BY <2>2, <2>3, <3>2
  <2>4. CASE n # 0
    <3>1. n - 1 \in Nat /\ n - 1 \notin bad
      BY <2>1, <2>2, <2>4
    <3>2. PICK g : Part(n - 1, g)
      BY <3>1
    <3> DEFINE h == [s \in upto(n) |-> IF s = {} THEN 0 ELSE f[Choice(s)] + g[s \ {Choice(s)}]]
    <3>3. ASSUME NEW s \in upto(n), s # {}
          PROVE  h[s \ {Choice(s)}] = g[s \ {Choice(s)}]
      <4> DEFINE t == s \ {Choice(s)}
      <4>1. t \in upto(n - 1) /\ t \in upto(n)
        BY <1>1, <1>2, <2>2, <3>3
      <4>2. g[t] = IF t = {} THEN 0 ELSE f[Choice(t)] + g[t \ {Choice(t)}]
        BY <3>2, <4>1 DEF Part
      <4>3. h[t] = IF t = {} THEN 0 ELSE f[Choice(t)] + g[t \ {Choice(t)}]
        BY <4>1
      <4> QED BY <4>2, <4>3
    <3>4. Part(n, h)
      BY <3>3 DEF Part
    <3> QED BY <2>2, <3>4
  <2> QED BY <2>3, <2>4
<1>4. Cardinality(S) \in Nat
  BY <1>1
<1>5. PICK g : Part(Cardinality(S), g)
  BY <1>3, <1>4
<1>6. upto(Cardinality(S)) = SUBSET S
  BY <1>1, FS_Subset
<1> QED BY <1>5, <1>6 DEF SumsOver

\* SumFunction is what the recursion gives for the whole domain.
LEMMA SumIsLast ==
  ASSUME NEW f, IsFiniteSet(DOMAIN f)
  PROVE  \E sum : SumsOver(f, DOMAIN f, sum) /\ SumFunction(f) = sum[DOMAIN f]
<1> DEFINE sum == CHOOSE sum : SumsOver(f, DOMAIN f, sum)
<1>1. SumsOver(f, DOMAIN f, sum)
  BY SumExists
<1>2. SumFunction(f) = sum[DOMAIN f]
  BY DEF SumFunction, SumFunctionOnSet, FoldFunctionOnSet, MapThenFoldSet, SumsOver, Choice
<1> HIDE DEF sum
<1> QED BY <1>1, <1>2

\* One step of the recursion.
LEMMA SumStep ==
  ASSUME NEW f, NEW S, NEW sum, SumsOver(f, S, sum), NEW s \in SUBSET S, s # {}
  PROVE  sum[s] = f[Choice(s)] + sum[s \ {Choice(s)}]
BY DEF SumsOver

LEMMA SumOfNone ==
  ASSUME NEW f, NEW S, NEW sum, SumsOver(f, S, sum)
  PROVE  sum[{}] = 0
BY DEF SumsOver

\* The sum is an integer, and any element can be taken out of it first.
LEMMA AnyOrder ==
  ASSUME NEW S, IsFiniteSet(S), NEW f, \A x \in S : f[x] \in Int,
         NEW sum, SumsOver(f, S, sum)
  PROVE  \A s \in SUBSET S :
           sum[s] \in Int /\ \A y \in s : sum[s] = f[y] + sum[s \ {y}]
<1> DEFINE Good(s) == sum[s] \in Int /\ \A y \in s : sum[s] = f[y] + sum[s \ {y}]
           bad == {n \in Nat : \E s \in SUBSET S : Cardinality(s) = n /\ ~Good(s)}
<1>1. \A s \in SUBSET S : Cardinality(s) \in Nat
  BY FS_Subset, FS_CardinalityType
<1>2. bad = {}
  <2> SUFFICES ASSUME bad # {} PROVE FALSE
    OBVIOUS
  <2> HIDE DEF Good
  <2>1. PICK n \in bad : \A m \in bad : n <= m
    BY HasLeast
  <2>2. PICK s \in SUBSET S : Cardinality(s) = n /\ ~Good(s)
    BY <2>1
  <2>3. \A t \in SUBSET S : Cardinality(t) < n => Good(t)
    BY <1>1, <2>1
  <2>4. s # {}
    BY <2>2, SumOfNone DEF Good
  <2> DEFINE x == Choice(s)
             less == s \ {x}
  <2>5. x \in s /\ less \in SUBSET S /\ Cardinality(less) < n
    BY <2>2, <2>4, ChoiceIn, Smaller
  <2>6. sum[s] = f[x] + sum[less]
    BY ONLY SumsOver(f, S, sum), s \in SUBSET S, <2>4, SumStep
  <2>7. sum[less] \in Int /\ f[x] \in Int
    BY <2>3, <2>5 DEF Good
  <2>8. ASSUME NEW y \in s, y # x
        PROVE  sum[s] = f[y] + sum[s \ {y}]
    <3>1. s \ {y} \in SUBSET S /\ Cardinality(s \ {y}) < n
      BY <2>2, <2>8, Smaller
    <3>2. y \in less /\ x \in s \ {y} /\ less \ {y} = (s \ {y}) \ {x}
      BY <2>5, <2>8
    <3>3. sum[less] = f[y] + sum[less \ {y}]
      BY <2>3, <2>5, <3>2 DEF Good
    <3>4. sum[s \ {y}] = f[x] + sum[less \ {y}]
      BY <2>3, <3>1, <3>2 DEF Good
    <3>5. sum[less \ {y}] \in Int
      <4>1. less \ {y} \in SUBSET S /\ Cardinality(less \ {y}) < n
        BY <1>1, <2>2, <2>5, <3>1, <3>2, Smaller
      <4> QED BY <2>3, <4>1 DEF Good
    <3>6. f[y] \in Int
      OBVIOUS
    <3> HIDE DEF x, less
    <3> QED BY <2>6, <2>7, <3>3, <3>4, <3>5, <3>6
  <2> HIDE DEF x
  <2>9. Good(s)
    <3>1. sum[s] \in Int
      BY <2>6, <2>7
    <3>2. ASSUME NEW y \in s PROVE sum[s] = f[y] + sum[s \ {y}]
      BY <2>6, <2>8
    <3> QED BY <3>1, <3>2 DEF Good
  <2> QED BY <2>2, <2>9
<1> QED BY <1>1, <1>2

\* Functions that agree on a set have one sum over it.
LEMMA SameSum ==
  ASSUME NEW S, IsFiniteSet(S), NEW f, NEW sumF, SumsOver(f, S, sumF),
         NEW R, IsFiniteSet(R), NEW g, NEW sumG, SumsOver(g, R, sumG),
         NEW T, T \subseteq S, T \subseteq R, \A x \in T : f[x] = g[x]
  PROVE  sumF[T] = sumG[T]
<1> DEFINE Good(s) == sumF[s] = sumG[s]
           bad == {n \in Nat : \E s \in SUBSET T : Cardinality(s) = n /\ ~Good(s)}
<1>1. \A s \in SUBSET T : Cardinality(s) \in Nat
  BY FS_Subset, FS_CardinalityType
<1>2. bad = {}
  <2> SUFFICES ASSUME bad # {} PROVE FALSE
    OBVIOUS
  <2> HIDE DEF Good
  <2>1. PICK n \in bad : \A m \in bad : n <= m
    BY HasLeast
  <2>2. PICK s \in SUBSET T : Cardinality(s) = n /\ ~Good(s)
    BY <2>1
  <2>3. s # {}
    BY <2>2, SumOfNone DEF Good
  <2> DEFINE less == s \ {Choice(s)}
  <2>4. Choice(s) \in s /\ less \in SUBSET T /\ Cardinality(less) < n
    BY <2>2, <2>3, ChoiceIn, Smaller, FS_Subset
  <2>5. sumF[less] = sumG[less]
    BY <1>1, <2>1, <2>4 DEF Good
  <2>6. sumF[s] = f[Choice(s)] + sumF[less] /\ sumG[s] = g[Choice(s)] + sumG[less]
    BY <2>3, SumStep
  <2>7. f[Choice(s)] = g[Choice(s)]
    BY <2>4
  <2>8. Good(s)
    BY <2>5, <2>6, <2>7 DEF Good
  <2> QED BY <2>2, <2>8
<1> QED BY <1>1, <1>2

-----------------------------------------------------------------------------
(* What the sum of a function is.                                          *)

LEMMA SumEmpty == ASSUME NEW f, DOMAIN f = {} PROVE SumFunction(f) = 0
<1>1. IsFiniteSet(DOMAIN f)
  BY FS_EmptySet
<1> QED BY <1>1, SumIsLast, SumOfNone

LEMMA SumType ==
  ASSUME NEW f, IsFiniteSet(DOMAIN f), \A x \in DOMAIN f : f[x] \in Int
  PROVE  SumFunction(f) \in Int
<1>1. PICK sum : SumsOver(f, DOMAIN f, sum) /\ SumFunction(f) = sum[DOMAIN f]
  BY SumIsLast
<1> QED BY <1>1, AnyOrder

\* A new element adds its value.
LEMMA SumAdd ==
  ASSUME NEW f, NEW g, NEW x, IsFiniteSet(DOMAIN f), x \notin DOMAIN f,
         DOMAIN g = DOMAIN f \cup {x}, \A y \in DOMAIN g : g[y] \in Int,
         \A y \in DOMAIN f : f[y] = g[y]
  PROVE  SumFunction(g) = SumFunction(f) + g[x]
<1>1. IsFiniteSet(DOMAIN g)
  BY FS_AddElement
<1>2. PICK sumF : SumsOver(f, DOMAIN f, sumF) /\ SumFunction(f) = sumF[DOMAIN f]
  BY SumIsLast
<1>3. PICK sumG : SumsOver(g, DOMAIN g, sumG) /\ SumFunction(g) = sumG[DOMAIN g]
  BY <1>1, SumIsLast
<1>4. DOMAIN f = DOMAIN g \ {x} /\ x \in DOMAIN g
  OBVIOUS
<1>5. sumG[DOMAIN g] = g[x] + sumG[DOMAIN f]
  <2>1. PICK D : D = DOMAIN g
    OBVIOUS
  <2>2. IsFiniteSet(D) /\ SumsOver(g, D, sumG) /\ (\A y \in D : g[y] \in Int) /\ x \in D
    BY <1>1, <1>3, <1>4, <2>1
  <2>3. sumG[D] = g[x] + sumG[D \ {x}]
    BY ONLY <2>2, AnyOrder
  <2> QED BY <1>4, <2>1, <2>3
<1>6. sumF[DOMAIN f] = sumG[DOMAIN f]
  BY <1>1, <1>2, <1>3, SameSum
<1>7. SumFunction(f) \in Int /\ g[x] \in Int
  BY SumType
<1> QED BY <1>2, <1>3, <1>5, <1>6, <1>7

\* A value that changes takes the sum with it.
LEMMA SumChange ==
  ASSUME NEW f, NEW g, NEW x \in DOMAIN f, IsFiniteSet(DOMAIN f), DOMAIN g = DOMAIN f,
         \A y \in DOMAIN f : f[y] \in Int /\ g[y] \in Int,
         \A y \in DOMAIN f : y # x => f[y] = g[y]
  PROVE  SumFunction(g) = SumFunction(f) + (g[x] - f[x])
<1> DEFINE rest == [y \in DOMAIN f \ {x} |-> f[y]]
<1>1. IsFiniteSet(DOMAIN rest)
  BY FS_RemoveElement
<1>2. DOMAIN f = DOMAIN rest \cup {x} /\ x \notin DOMAIN rest
  OBVIOUS
<1>3. \A y \in DOMAIN rest : rest[y] \in Int /\ rest[y] = f[y] /\ rest[y] = g[y]
  OBVIOUS
<1> HIDE DEF rest
<1>4. SumFunction(f) = SumFunction(rest) + f[x]
  BY <1>1, <1>2, <1>3, SumAdd
<1>5. SumFunction(g) = SumFunction(rest) + g[x]
  BY <1>1, <1>2, <1>3, SumAdd
<1>6. SumFunction(rest) \in Int
  BY <1>1, <1>3, SumType
<1> QED BY <1>4, <1>5, <1>6
-----------------------------------------------------------------------------
(* What one handler does to the sum of a column.                           *)

\* A table of counters: finitely many rows with the fields F.
TableOf(table, F) ==
  IsFiniteSet(DOMAIN table) /\ \A key \in DOMAIN table : table[key] \in [F -> Nat]

LEMMA MaxOfTwo ==
  ASSUME NEW n \in Int
  PROVE  Max({0, n}) = IF n >= 0 THEN n ELSE 0
BY DEF Max

\* Changed keeps the counters naturals, adds to each its change, and stops at 0.
LEMMA ChangedRow ==
  ASSUME NEW F, NEW row \in [F -> Nat], NEW changes, \A c \in DOMAIN changes : changes[c] \in Int
  PROVE  /\ Changed(row, changes) \in [F -> Nat]
         /\ \A c \in F :
              Changed(row, changes)[c] =
                IF c \in DOMAIN changes
                THEN IF row[c] + changes[c] >= 0 THEN row[c] + changes[c] ELSE 0
                ELSE row[c]
<1>1. ASSUME NEW c \in F
      PROVE  Changed(row, changes)[c] =
                IF c \in DOMAIN changes
                THEN IF row[c] + changes[c] >= 0 THEN row[c] + changes[c] ELSE 0
                ELSE row[c]
  <2>1. c \in DOMAIN row /\ row[c] \in Nat
    OBVIOUS
  <2>2. CASE c \in DOMAIN changes
    <3>1. row[c] + changes[c] \in Int
      BY <2>1, <2>2
    <3> QED BY <2>1, <2>2, <3>1, MaxOfTwo DEF Changed
  <2> QED BY <2>1, <2>2 DEF Changed
<1>2. \A c \in F : Changed(row, changes)[c] \in Nat
  BY <1>1
<1>3. DOMAIN Changed(row, changes) = F /\ Changed(row, changes) = [c \in F |-> Changed(row, changes)[c]]
  BY DEF Changed
<1> QED BY <1>1, <1>2, <1>3

\* after is table with this row at key.
OneRow(after, table, F, key, row) ==
  /\ TableOf(after, F)
  /\ DOMAIN after = DOMAIN table \cup {key}
  /\ \A k \in DOMAIN table : k # key => after[k] = table[k]
  /\ after[key] = row

LEMMA PutRow ==
  ASSUME NEW F, NEW table, TableOf(table, F), NEW key, NEW row \in [F -> Nat]
  PROVE  OneRow(Put(table, key, row), table, F, key, row)
<1>1. IsFiniteSet(DOMAIN table \cup {key})
  BY FS_AddElement DEF TableOf
<1> QED BY <1>1 DEF OneRow, Put, TableOf

\* Update changes one row, if it is there.
LEMMA UpdateRow ==
  ASSUME NEW F, NEW table, TableOf(table, F), NEW key,
         NEW changes, \A c \in DOMAIN changes : changes[c] \in Int
  PROVE  IF key \in DOMAIN table
         THEN OneRow(Update(table, key, changes), table, F, key, Changed(table[key], changes))
         ELSE Update(table, key, changes) = table
<1>1. key \in DOMAIN table => Changed(table[key], changes) \in [F -> Nat]
  BY ChangedRow DEF TableOf
<1> QED BY <1>1, PutRow DEF Update

\* The row that an upsert starts from.
Before(table, key, new) == IF key \in DOMAIN table THEN table[key] ELSE new

\* Upsert changes one row, or adds it.
LEMMA UpsertRow ==
  ASSUME NEW F, NEW table, TableOf(table, F), NEW key, NEW new \in [F -> Nat],
         NEW changes, \A c \in DOMAIN changes : changes[c] \in Int
  PROVE  OneRow(Upsert(table, key, new, changes), table, F, key,
                Changed(Before(table, key, new), changes))
<1>1. Before(table, key, new) \in [F -> Nat]
  BY DEF TableOf, Before
<1>2. Changed(Before(table, key, new), changes) \in [F -> Nat]
  BY <1>1, ChangedRow
<1> QED BY <1>2, PutRow DEF Upsert, Before

\* A column adds up to an integer, and to 0 in a table without rows.
LEMMA TotalType ==
  ASSUME NEW F, NEW table, TableOf(table, F), NEW c \in F
  PROVE  Total(table, c) \in Int /\ (DOMAIN table = {} => Total(table, c) = 0)
<1> DEFINE f == [key \in DOMAIN table |-> table[key][c]]
<1>1. DOMAIN f = DOMAIN table /\ IsFiniteSet(DOMAIN f) /\ \A key \in DOMAIN f : f[key] \in Int
  BY DEF TableOf
<1> HIDE DEF f
<1>2. SumFunction(f) \in Int /\ (DOMAIN f = {} => SumFunction(f) = 0)
  BY <1>1, SumType, SumEmpty
<1> QED BY <1>1, <1>2 DEF Total, f

\* One row that changes takes the total with it, and a new row adds its value.
LEMMA TotalOfChange ==
  ASSUME NEW F, NEW table, TableOf(table, F), NEW after, NEW key, NEW row,
         OneRow(after, table, F, key, row), NEW c \in F
  PROVE  /\ row \in [F -> Nat]
         /\ Total(after, c) =
              Total(table, c) + (row[c] - (IF key \in DOMAIN table THEN table[key][c] ELSE 0))
<1> USE DEF OneRow
<1> DEFINE f == [k \in DOMAIN table |-> table[k][c]]
           g == [k \in DOMAIN after |-> after[k][c]]
<1>1. /\ IsFiniteSet(DOMAIN f) /\ DOMAIN f = DOMAIN table /\ DOMAIN g = DOMAIN f \cup {key}
      /\ \A k \in DOMAIN f : f[k] \in Int
      /\ \A k \in DOMAIN g : g[k] \in Int
      /\ \A k \in DOMAIN f : k # key => f[k] = g[k]
  BY DEF TableOf
<1>2. Total(table, c) = SumFunction(f) /\ Total(after, c) = SumFunction(g)
  BY DEF Total
<1>0. row \in [F -> Nat]
  BY DEF TableOf
<1>3. g[key] = row[c] /\ (key \in DOMAIN table => f[key] = table[key][c])
  OBVIOUS
<1> HIDE DEF f, g
<1>4. CASE key \in DOMAIN table
  <2>1. SumFunction(g) = SumFunction(f) + (g[key] - f[key])
    <3>1. DOMAIN g = DOMAIN f /\ key \in DOMAIN f
      BY <1>1, <1>4
    <3> QED BY <1>1, <3>1, SumChange
  <2> QED BY <1>0, <1>2, <1>3, <1>4, <2>1
<1>5. CASE key \notin DOMAIN table
  <2>1. SumFunction(g) = SumFunction(f) + g[key]
    <3>1. \A k \in DOMAIN f : f[k] = g[k]
      BY <1>1, <1>5
    <3> QED BY <1>1, <1>5, <3>1, SumAdd
  <2>2. g[key] \in Int
    BY <1>1
  <2> QED BY <1>0, <1>2, <1>3, <1>5, <2>1, <2>2
<1> QED BY <1>4, <1>5

\* What an event adds to a column that it does not take from.
Added(changes, c) == IF c \in DOMAIN changes THEN changes[c] ELSE 0

\* Update adds the change to the total of the column, if the row is there.
LEMMA UpdateAdds ==
  ASSUME NEW F, NEW table, TableOf(table, F), NEW key,
         NEW changes, \A c \in DOMAIN changes : changes[c] \in Int
  PROVE  \A c \in F : Added(changes, c) \in Nat =>
           Total(Update(table, key, changes), c) =
             Total(table, c) + (IF key \in DOMAIN table THEN Added(changes, c) ELSE 0)
<1> SUFFICES ASSUME NEW c \in F, Added(changes, c) \in Nat
             PROVE  Total(Update(table, key, changes), c) =
                      Total(table, c) + (IF key \in DOMAIN table THEN Added(changes, c) ELSE 0)
  OBVIOUS
<1>1. Total(table, c) \in Int
  BY TotalType
<1>2. CASE key \in DOMAIN table
  <2> DEFINE row == Changed(table[key], changes)
             after == Update(table, key, changes)
  <2>1. OneRow(after, table, F, key, row)
    BY <1>2, UpdateRow
  <2> HIDE DEF after, row
  <2>2. /\ row \in [F -> Nat]
        /\ Total(after, c) = Total(table, c) + (row[c] - (IF key \in DOMAIN table THEN table[key][c] ELSE 0))
    BY <2>1, TotalOfChange
  <2>3. table[key] \in [F -> Nat] /\ table[key][c] \in Nat
    BY <1>2 DEF TableOf
  <2>4. row[c] = table[key][c] + Added(changes, c)
    BY <2>3, ChangedRow DEF Added, row
  <2>5. Total(after, c) = Total(table, c) + Added(changes, c)
    BY <1>1, <1>2, <2>2, <2>3, <2>4
  <2> QED BY <1>2, <2>5 DEF after
<1>3. CASE key \notin DOMAIN table
  BY <1>1, <1>3 DEF Update
<1> QED BY <1>2, <1>3

\* Upsert adds it in any case.
LEMMA UpsertAdds ==
  ASSUME NEW F, NEW table, TableOf(table, F), NEW key, NEW new, new \in [F -> Nat],
         NEW changes, \A c \in DOMAIN changes : changes[c] \in Int
  PROVE  \A c \in F : Added(changes, c) \in Nat /\ new[c] = 0 =>
           Total(Upsert(table, key, new, changes), c) = Total(table, c) + Added(changes, c)
<1> SUFFICES ASSUME NEW c \in F, Added(changes, c) \in Nat, new[c] = 0
             PROVE  Total(Upsert(table, key, new, changes), c) = Total(table, c) + Added(changes, c)
  OBVIOUS
<1> DEFINE after == Upsert(table, key, new, changes)
           before == Before(table, key, new)
           row == Changed(before, changes)
<1>1. Total(table, c) \in Int
  BY TotalType
<1>2. OneRow(after, table, F, key, row)
  BY UpsertRow
<1>3. before \in [F -> Nat] /\ before[c] = IF key \in DOMAIN table THEN table[key][c] ELSE 0
  BY DEF TableOf, Before
<1> HIDE DEF after, before
<1>4. row[c] = before[c] + Added(changes, c)
  BY <1>3, ChangedRow DEF Added
<1> HIDE DEF row
<1>5. Total(after, c) = Total(table, c) + (row[c] - (IF key \in DOMAIN table THEN table[key][c] ELSE 0))
  BY <1>2, TotalOfChange
<1>6. before[c] \in Nat
  BY <1>3
<1>7. Total(after, c) = Total(table, c) + Added(changes, c)
  BY <1>1, <1>3, <1>4, <1>5, <1>6
<1> QED BY <1>7 DEF after

-----------------------------------------------------------------------------
(* What the tables hold in every state.                                    *)

HolderFields == {"totalPolicies", "activePolicies", "totalPayouts"}
GlobalFields == {"totalPolicies", "activePolicies", "totalClaims", "executedClaims", "totalPayouts",
                 "totalReserveDeposits", "totalReserveWithdrawals",
                 "uniquePolicyHolders", "uniqueRiskPools"}
DayFields == {"policiesMinted", "policiesActivated", "policiesExpired", "claimsExecuted",
              "payoutsDistributed", "reserveDeposits", "reserveWithdrawals"}

\* New rows have every counter at 0.
LEMMA NewRows ==
  /\ DOMAIN NewHolder = HolderFields /\ NewHolder \in [HolderFields -> Nat]
  /\ DOMAIN NewPool = HolderFields /\ NewPool \in [HolderFields -> Nat]
  /\ DOMAIN NewGlobal = GlobalFields /\ NewGlobal \in [GlobalFields -> Nat]
  /\ DOMAIN NewDay = DayFields /\ NewDay \in [DayFields -> Nat]
  /\ \A c \in HolderFields : NewHolder[c] = 0 /\ NewPool[c] = 0
  /\ \A c \in GlobalFields : NewGlobal[c] = 0
  /\ \A c \in DayFields : NewDay[c] = 0
<1>1. DOMAIN NewHolder = HolderFields /\ \A c \in HolderFields : NewHolder[c] = 0
  BY DEF NewHolder, HolderFields
<1>2. DOMAIN NewGlobal = GlobalFields /\ \A c \in GlobalFields : NewGlobal[c] = 0
  BY DEF NewGlobal, GlobalFields
<1>3. DOMAIN NewDay = DayFields /\ \A c \in DayFields : NewDay[c] = 0
  BY DEF NewDay, DayFields
<1>4. /\ NewHolder = [c \in DOMAIN NewHolder |-> NewHolder[c]]
      /\ NewGlobal = [c \in DOMAIN NewGlobal |-> NewGlobal[c]]
      /\ NewDay = [c \in DOMAIN NewDay |-> NewDay[c]]
  BY DEF NewHolder, NewGlobal, NewDay
<1> QED BY <1>1, <1>2, <1>3, <1>4 DEF NewPool

Tables ==
  /\ TableOf(holders, HolderFields) /\ TableOf(pools, HolderFields)
  /\ TableOf(globalStats, GlobalFields) /\ TableOf(dailyStats, DayFields)

PolicyRow == [owner : Owners, risk : RiskIds, status : Statuses]

\* A policy's holder and pool have rows, and only policies create them.
Linked ==
  /\ IsFiniteSet(DOMAIN policies) /\ DOMAIN policies \subseteq PolicyIds
  /\ \A id \in DOMAIN policies :
       /\ policies[id] \in PolicyRow
       /\ policies[id].owner \in DOMAIN holders /\ policies[id].risk \in DOMAIN pools
  /\ DOMAIN holders \subseteq Owners /\ DOMAIN pools \subseteq RiskIds
  /\ DOMAIN policies = {} => DOMAIN holders = {} /\ DOMAIN pools = {}
  /\ DOMAIN globalStats = IF DOMAIN policies = {} THEN {} ELSE {"global"}

Stages == {"none", "minted", "active", "expired", "claimed"}

\* A policy that a contract has emitted an event about has a row.
Known ==
  /\ onchain \in [Chains \X PolicyIds -> Stages]
  /\ \A chain \in Chains, id \in PolicyIds : onchain[<<chain, id>>] # "none" => id \in DOMAIN policies

Dated ==
  /\ today \in 0..LastDay /\ events \in Nat
  /\ DOMAIN dailyStats \subseteq 0..today

ClaimRows == [policy : PolicyIds, payout : Nat, status : {"EXECUTED", "FAILED"}]
ReserveRows == [kind : {"deposit", "withdrawal"}, amount : Nat]
Filed == claims \in Seq(ClaimRows) /\ reserve \in Seq(ReserveRows)

TInv == Tables /\ Linked /\ Known /\ Dated /\ Filed

LEMMA TInvTypes == TInv => TypeOK
<1> SUFFICES ASSUME TInv PROVE TypeOK
  OBVIOUS
<1>1. /\ Counters(NewHolder) = [HolderFields -> Nat] /\ Counters(NewPool) = [HolderFields -> Nat]
      /\ Counters(NewGlobal) = [GlobalFields -> Nat] /\ Counters(NewDay) = [DayFields -> Nat]
  BY NewRows DEF Counters
<1>2. today \in 0..LastDay /\ events \in Nat
  BY DEF TInv, Dated
<1>3. \A id \in DOMAIN policies :
        /\ id \in PolicyIds /\ policies[id].status \in Statuses
        /\ policies[id].owner \in DOMAIN holders /\ policies[id].risk \in DOMAIN pools
  BY DEF TInv, Linked, PolicyRow
<1>4. /\ \A o \in DOMAIN holders : o \in Owners /\ holders[o] \in Counters(NewHolder)
      /\ \A r \in DOMAIN pools : r \in RiskIds /\ pools[r] \in Counters(NewPool)
  BY <1>1 DEF TInv, Linked, Tables, TableOf
<1>5. /\ DOMAIN globalStats = (IF DOMAIN policies = {} THEN {} ELSE {"global"})
      /\ \A g \in DOMAIN globalStats : globalStats[g] \in Counters(NewGlobal)
      /\ \A d \in DOMAIN dailyStats : d \in 0..today /\ dailyStats[d] \in Counters(NewDay)
  BY <1>1 DEF TInv, Linked, Tables, TableOf, Dated
<1> QED BY <1>2, <1>3, <1>4, <1>5 DEF TypeOK

LEMMA InitTyped == Init => TInv
<1> SUFFICES ASSUME Init PROVE TInv
  OBVIOUS
<1> USE DEF Init
<1>1. DOMAIN << >> = {} /\ IsFiniteSet({})
  BY FS_EmptySet
<1>2. Tables
  BY <1>1 DEF Tables, TableOf
<1>3. Linked
  BY <1>1 DEF Linked
<1>4. Known
  BY DEF Known, Stages
<1>5. Dated
  BY <1>1, PolicyIndexConstants DEF Dated
<1>6. Filed
  BY DEF Filed
<1> QED BY <1>2, <1>3, <1>4, <1>5, <1>6 DEF TInv

-----------------------------------------------------------------------------
(* What each handler does to the tables.                                   *)

\* An event about a policy finds the policy's row, those of its holder and its
\* pool, and the global one.
LEMMA RowsThere ==
  ASSUME TInv, NEW chain \in Chains, NEW id \in PolicyIds, onchain[<<chain, id>>] # "none"
  PROVE  /\ id \in DOMAIN policies /\ policies[id] \in PolicyRow
         /\ policies[id].owner \in DOMAIN holders /\ policies[id].risk \in DOMAIN pools
         /\ "global" \in DOMAIN globalStats
BY DEF TInv, Known, Linked

\* CountActive changes one row of each table.
LEMMA CountedRows ==
  ASSUME TInv, NEW id \in DOMAIN policies,
         NEW changes, \A c \in DOMAIN changes : changes[c] \in Int,
         NEW total, \A c \in DOMAIN total : total[c] \in Int,
         CountActive(id, changes, total)
  PROVE  /\ OneRow(holders', holders, HolderFields, policies[id].owner,
                   Changed(holders[policies[id].owner], changes))
         /\ OneRow(pools', pools, HolderFields, policies[id].risk,
                   Changed(pools[policies[id].risk], changes))
         /\ OneRow(globalStats', globalStats, GlobalFields, "global",
                   Changed(globalStats["global"], total))
         /\ DOMAIN holders' = DOMAIN holders /\ DOMAIN pools' = DOMAIN pools
         /\ DOMAIN globalStats' = DOMAIN globalStats
<1>1. policies[id].owner \in DOMAIN holders /\ policies[id].risk \in DOMAIN pools
      /\ "global" \in DOMAIN globalStats
  BY DEF TInv, Linked
<1>2. TableOf(holders, HolderFields) /\ TableOf(pools, HolderFields) /\ TableOf(globalStats, GlobalFields)
  BY DEF TInv, Tables
<1>3. PICK owner, risk : owner = policies[id].owner /\ risk = policies[id].risk
  OBVIOUS
<1>4. /\ holders' = Update(holders, owner, changes)
      /\ pools' = Update(pools, risk, changes)
      /\ globalStats' = Update(globalStats, "global", total)
  BY <1>3 DEF CountActive
<1>5. OneRow(holders', holders, HolderFields, owner, Changed(holders[owner], changes))
  BY <1>1, <1>2, <1>3, <1>4, UpdateRow
<1>6. OneRow(pools', pools, HolderFields, risk, Changed(pools[risk], changes))
  BY <1>1, <1>2, <1>3, <1>4, UpdateRow
<1>7. OneRow(globalStats', globalStats, GlobalFields, "global", Changed(globalStats["global"], total))
  BY <1>1, <1>2, <1>4, UpdateRow
<1>8. /\ DOMAIN holders' = DOMAIN holders /\ DOMAIN pools' = DOMAIN pools
      /\ DOMAIN globalStats' = DOMAIN globalStats
  BY <1>1, <1>3, <1>5, <1>6, <1>7 DEF OneRow
<1> QED BY <1>3, <1>5, <1>6, <1>7, <1>8

\* It keeps the tables well formed.
LEMMA CountedTables ==
  ASSUME TInv, NEW id \in DOMAIN policies,
         NEW changes, \A c \in DOMAIN changes : changes[c] \in Int,
         NEW total, \A c \in DOMAIN total : total[c] \in Int,
         CountActive(id, changes, total), TableOf(dailyStats', DayFields)
  PROVE  /\ Tables'
         /\ DOMAIN holders' = DOMAIN holders /\ DOMAIN pools' = DOMAIN pools
         /\ DOMAIN globalStats' = DOMAIN globalStats
BY CountedRows DEF OneRow, Tables

\* A day's row is changed, if it is there, or upserted.
LEMMA DayUpdated ==
  ASSUME TInv, NEW changes, \A c \in DOMAIN changes : changes[c] \in Int,
         dailyStats' = Update(dailyStats, today, changes)
  PROVE  TableOf(dailyStats', DayFields) /\ DOMAIN dailyStats' = DOMAIN dailyStats
<1>1. TableOf(dailyStats, DayFields)
  BY DEF TInv, Tables
<1>2. IF today \in DOMAIN dailyStats
      THEN OneRow(dailyStats', dailyStats, DayFields, today, Changed(dailyStats[today], changes))
      ELSE dailyStats' = dailyStats
  BY <1>1, UpdateRow
<1> QED BY <1>1, <1>2 DEF OneRow

LEMMA DayUpserted ==
  ASSUME TInv, NEW changes, \A c \in DOMAIN changes : changes[c] \in Int,
         dailyStats' = Upsert(dailyStats, today, NewDay, changes)
  PROVE  TableOf(dailyStats', DayFields) /\ DOMAIN dailyStats' = DOMAIN dailyStats \cup {today}
<1>1. TableOf(dailyStats, DayFields) /\ NewDay \in [DayFields -> Nat]
  BY NewRows DEF TInv, Tables
<1>2. OneRow(dailyStats', dailyStats, DayFields, today,
             Changed(Before(dailyStats, today, NewDay), changes))
  BY <1>1, UpsertRow
<1> QED BY <1>2 DEF OneRow

\* The global row is changed, if it is there.
LEMMA GlobalUpdated ==
  ASSUME TInv, NEW changes, \A c \in DOMAIN changes : changes[c] \in Int,
         globalStats' = Update(globalStats, "global", changes)
  PROVE  TableOf(globalStats', GlobalFields) /\ DOMAIN globalStats' = DOMAIN globalStats
<1>1. TableOf(globalStats, GlobalFields)
  BY DEF TInv, Tables
<1>2. IF "global" \in DOMAIN globalStats
      THEN OneRow(globalStats', globalStats, GlobalFields, "global",
                  Changed(globalStats["global"], changes))
      ELSE globalStats' = globalStats
  BY <1>1, UpdateRow
<1> QED BY <1>1, <1>2 DEF OneRow

\* A policy's new status leaves its row, and the contracts' stages, in order.
LEMMA StatusSet ==
  ASSUME TInv, NEW chain \in Chains, NEW id \in PolicyIds, NEW from, NEW to \in Stages,
         Emit(chain, id, from, to), "none" \notin from,
         NEW status \in Statuses, SetStatus(id, status),
         DOMAIN holders' = DOMAIN holders, DOMAIN pools' = DOMAIN pools,
         DOMAIN globalStats' = DOMAIN globalStats
  PROVE  Linked' /\ Known'
<1>1. onchain[<<chain, id>>] # "none"
  BY DEF Emit
<1>2. id \in DOMAIN policies /\ policies[id] \in PolicyRow
  BY <1>1, RowsThere
<1>3. policies' = [k \in DOMAIN policies \cup {id} |->
                     IF k = id THEN [policies[id] EXCEPT !.status = status] ELSE policies[k]]
  BY DEF SetStatus, Put
<1>4. DOMAIN policies' = DOMAIN policies
  BY <1>2, <1>3
<1>5. \A k \in DOMAIN policies :
        /\ policies'[k] \in PolicyRow
        /\ policies'[k].owner = policies[k].owner /\ policies'[k].risk = policies[k].risk
  BY <1>2, <1>3 DEF TInv, Linked, PolicyRow
<1>6. Linked'
  BY <1>4, <1>5 DEF TInv, Linked
<1>7. Known'
  BY <1>4 DEF TInv, Known, Emit, Stages
<1> QED BY <1>6, <1>7

LEMMA EventsGrow ==
  ASSUME TInv, Event, DOMAIN dailyStats' \subseteq DOMAIN dailyStats \cup {today}
  PROVE  Dated'
BY PolicyIndexConstants DEF TInv, Dated, Event

LEMMA FiledKept ==
  ASSUME TInv, UNCHANGED <<claims, reserveTables>>
  PROVE  Filed'
BY DEF TInv, Filed, reserveTables

LEMMA ActivatedTyped ==
  ASSUME TInv, NEW chain \in Chains, NEW id \in PolicyIds, PolicyActivated(chain, id)
  PROVE  TInv'
<1>1. Emit(chain, id, {"minted"}, "active") /\ SetStatus(id, "ACTIVE")
      /\ CountActive(id, [activePolicies |-> 1], [activePolicies |-> 1])
      /\ dailyStats' = Update(dailyStats, today, [policiesActivated |-> 1])
      /\ UNCHANGED <<claims, reserveTables>>
  BY DEF PolicyActivated
<1>2. id \in DOMAIN policies
  BY <1>1, RowsThere DEF Emit
<1>3. TableOf(dailyStats', DayFields) /\ DOMAIN dailyStats' = DOMAIN dailyStats
  BY <1>1, DayUpdated
<1>4. /\ Tables' /\ DOMAIN holders' = DOMAIN holders /\ DOMAIN pools' = DOMAIN pools
      /\ DOMAIN globalStats' = DOMAIN globalStats
  BY <1>1, <1>2, <1>3, CountedTables
<1>5. Linked' /\ Known'
  BY <1>1, <1>4, StatusSet DEF Stages, Statuses
<1>6. Dated'
  BY <1>1, <1>3, EventsGrow DEF Emit
<1>7. Filed'
  BY <1>1, FiledKept
<1> QED BY <1>4, <1>5, <1>6, <1>7 DEF TInv

LEMMA ExpiredTyped ==
  ASSUME TInv, NEW chain \in Chains, NEW id \in PolicyIds, PolicyExpired(chain, id)
  PROVE  TInv'
<1>1. /\ Emit(chain, id, {"minted", "active"}, "expired") /\ SetStatus(id, "EXPIRED")
      /\ dailyStats' = Update(dailyStats, today, [policiesExpired |-> 1])
      /\ UNCHANGED <<claims, reserveTables>>
  BY DEF PolicyExpired
<1>2. id \in DOMAIN policies
  BY <1>1, RowsThere DEF Emit
<1>3. TableOf(dailyStats', DayFields) /\ DOMAIN dailyStats' = DOMAIN dailyStats
  BY <1>1, DayUpdated
<1>4. /\ Tables' /\ DOMAIN holders' = DOMAIN holders /\ DOMAIN pools' = DOMAIN pools
      /\ DOMAIN globalStats' = DOMAIN globalStats
  <2>1. CASE CountActive(id, [activePolicies |-> -1], [activePolicies |-> -1])
    BY <1>2, <1>3, <2>1, CountedTables
  <2>2. CASE UNCHANGED <<holders, pools, globalStats>>
    BY <1>3, <2>2 DEF TInv, Tables
  <2> QED BY <2>1, <2>2 DEF PolicyExpired
<1>5. Linked' /\ Known'
  BY <1>1, <1>4, StatusSet DEF Stages, Statuses
<1>6. Dated'
  BY <1>1, <1>3, EventsGrow DEF Emit
<1>7. Filed'
  BY <1>1, FiledKept
<1> QED BY <1>4, <1>5, <1>6, <1>7 DEF TInv

\* The changes of a paid claim.
LEMMA PaidChanges ==
  ASSUME NEW id, NEW payout \in Nat
  PROVE  /\ DOMAIN Paid(payout) = {"activePolicies", "totalPayouts"}
         /\ \A c \in DOMAIN Paid(payout) : Paid(payout)[c] \in Int
         /\ DOMAIN PaidOverall(id, payout) =
              {"totalClaims", "executedClaims", "totalPayouts", "activePolicies"}
         /\ \A c \in DOMAIN PaidOverall(id, payout) : PaidOverall(id, payout)[c] \in Int
BY DEF Paid, PaidOverall

LEMMA ClaimedTyped ==
  ASSUME TInv, NEW chain \in Chains, NEW id \in PolicyIds, NEW payout \in Amounts,
         ClaimExecuted(chain, id, payout)
  PROVE  TInv'
<1>0. payout \in Nat
  BY PolicyIndexConstants
<1>1. /\ Emit(chain, id, {"active", "expired"}, "claimed") /\ SetStatus(id, "CLAIMED")
      /\ claims' = Append(claims, ClaimRow(id, payout, "EXECUTED"))
      /\ dailyStats' = Upsert(dailyStats, today, NewDay,
                              [claimsExecuted |-> 1, payoutsDistributed |-> payout])
      /\ UNCHANGED reserveTables
  BY DEF ClaimExecuted
<1>2. id \in DOMAIN policies
  BY <1>1, RowsThere DEF Emit
<1>3. TableOf(dailyStats', DayFields) /\ DOMAIN dailyStats' = DOMAIN dailyStats \cup {today}
  <2> DEFINE changes == [claimsExecuted |-> 1, payoutsDistributed |-> payout]
  <2>1. \A c \in DOMAIN changes : changes[c] \in Int
    BY <1>0
  <2>2. dailyStats' = Upsert(dailyStats, today, NewDay, changes)
    BY <1>1
  <2> HIDE DEF changes
  <2> QED BY <2>1, <2>2, DayUpserted
<1>4. /\ Tables' /\ DOMAIN holders' = DOMAIN holders /\ DOMAIN pools' = DOMAIN pools
      /\ DOMAIN globalStats' = DOMAIN globalStats
  <2>1. CASE CountActive(id, Paid(payout), PaidOverall(id, payout))
    BY <1>0, <1>2, <1>3, <2>1, CountedTables, PaidChanges
  <2>2. CASE /\ globalStats' = Update(globalStats, "global", PaidOverall(id, payout))
             /\ UNCHANGED <<holders, pools>>
    <3>1. TableOf(globalStats', GlobalFields) /\ DOMAIN globalStats' = DOMAIN globalStats
      BY <1>0, <2>2, GlobalUpdated, PaidChanges
    <3> QED BY <1>3, <2>2, <3>1 DEF TInv, Tables
  <2> QED BY <2>1, <2>2 DEF ClaimExecuted
<1>5. Linked' /\ Known'
  BY <1>1, <1>4, StatusSet DEF Stages, Statuses
<1>6. Dated'
  BY <1>1, <1>3, EventsGrow DEF Emit
<1>7. Filed'
  <2>1. ClaimRow(id, payout, "EXECUTED") \in ClaimRows
    BY <1>0 DEF ClaimRow, ClaimRows
  <2> QED BY <1>1, <2>1, AppendProperties DEF TInv, Filed, reserveTables
<1> QED BY <1>4, <1>5, <1>6, <1>7 DEF TInv

LEMMA FailedTyped ==
  ASSUME TInv, NEW chain \in Chains, NEW id \in PolicyIds, ClaimFailed(chain, id)
  PROVE  TInv'
<1>1. /\ Event
      /\ claims' = Append(claims, ClaimRow(id, 0, "FAILED"))
      /\ globalStats' = Update(globalStats, "global", [totalClaims |-> 1])
      /\ UNCHANGED <<onchain, policyTables, dailyStats, reserveTables>>
  BY DEF ClaimFailed
<1>2. TableOf(globalStats', GlobalFields) /\ DOMAIN globalStats' = DOMAIN globalStats
  BY <1>1, GlobalUpdated
<1>3. Tables'
  BY <1>1, <1>2 DEF TInv, Tables, policyTables
<1>4. Linked' /\ Known'
  BY <1>1, <1>2 DEF TInv, Linked, Known, policyTables
<1>5. Dated'
  BY <1>1, EventsGrow
<1>6. Filed'
  <2>1. ClaimRow(id, 0, "FAILED") \in ClaimRows
    BY DEF ClaimRow, ClaimRows
  <2> QED BY <1>1, <2>1, AppendProperties DEF TInv, Filed, reserveTables
<1> QED BY <1>3, <1>4, <1>5, <1>6 DEF TInv

\* A deposit or a withdrawal: a row in reserve, the global row if there is one,
\* and the day's.
ReserveMoved(kind, amount, total, daily) ==
  /\ Event
  /\ reserve' = Append(reserve, ReserveRow(kind, amount))
  /\ globalStats' = Update(globalStats, "global", total)
  /\ dailyStats' = Upsert(dailyStats, today, NewDay, daily)
  /\ UNCHANGED <<onchain, policyTables, claims, redemptions>>

LEMMA ReserveTyped ==
  ASSUME TInv, NEW kind \in {"deposit", "withdrawal"}, NEW amount \in Nat,
         NEW total, \A c \in DOMAIN total : total[c] \in Int,
         NEW daily, \A c \in DOMAIN daily : daily[c] \in Int,
         ReserveMoved(kind, amount, total, daily)
  PROVE  TInv'
<1>1. TableOf(globalStats', GlobalFields) /\ DOMAIN globalStats' = DOMAIN globalStats
  BY GlobalUpdated DEF ReserveMoved
<1>2. TableOf(dailyStats', DayFields) /\ DOMAIN dailyStats' = DOMAIN dailyStats \cup {today}
  BY DayUpserted DEF ReserveMoved
<1>3. Tables'
  BY <1>1, <1>2 DEF TInv, Tables, policyTables, ReserveMoved
<1>4. Linked' /\ Known'
  BY <1>1 DEF TInv, Linked, Known, policyTables, ReserveMoved
<1>5. Dated'
  BY <1>2, EventsGrow DEF ReserveMoved
<1>6. Filed'
  <2>1. ReserveRow(kind, amount) \in ReserveRows
    BY DEF ReserveRow, ReserveRows
  <2> QED BY <2>1, AppendProperties DEF TInv, Filed, ReserveMoved
<1> QED BY <1>3, <1>4, <1>5, <1>6 DEF TInv

LEMMA ReserveMoves ==
  ASSUME NEW amount \in Nat
  PROVE  /\ Deposited(amount) =>
              ReserveMoved("deposit", amount, [totalReserveDeposits |-> amount],
                           [reserveDeposits |-> amount])
         /\ Withdrawn(amount) =>
              ReserveMoved("withdrawal", amount, [totalReserveWithdrawals |-> amount],
                           [reserveWithdrawals |-> amount])
BY DEF Deposited, Withdrawn, ReserveMoved

\* The first policy creates the global row; owner and pool get theirs.
MintTotals(owner, risk) ==
  [totalPolicies |-> 1,
   uniquePolicyHolders |-> IF "global" \notin DOMAIN globalStats \/ owner \notin DOMAIN holders
                           THEN 1 ELSE 0,
   uniqueRiskPools |-> IF "global" \notin DOMAIN globalStats \/ risk \notin DOMAIN pools
                       THEN 1 ELSE 0]

LEMMA MintChanges ==
  ASSUME NEW owner, NEW risk
  PROVE  /\ DOMAIN MintTotals(owner, risk) = {"totalPolicies", "uniquePolicyHolders", "uniqueRiskPools"}
         /\ \A c \in DOMAIN MintTotals(owner, risk) : MintTotals(owner, risk)[c] \in Nat
BY DEF MintTotals

LEMMA MintedRows ==
  ASSUME TInv, NEW chain \in Chains, NEW id \in PolicyIds, NEW owner \in Owners, NEW risk \in RiskIds,
         PolicyMinted(chain, id, owner, risk)
  PROVE  /\ OneRow(holders', holders, HolderFields, owner,
                   Changed(Before(holders, owner, NewHolder), [totalPolicies |-> 1]))
         /\ OneRow(pools', pools, HolderFields, risk,
                   Changed(Before(pools, risk, NewPool), [totalPolicies |-> 1]))
         /\ OneRow(globalStats', globalStats, GlobalFields, "global",
                   Changed(Before(globalStats, "global", NewGlobal), MintTotals(owner, risk)))
         /\ OneRow(dailyStats', dailyStats, DayFields, today,
                   Changed(Before(dailyStats, today, NewDay), [policiesMinted |-> 1]))
<1>1. /\ TableOf(holders, HolderFields) /\ TableOf(pools, HolderFields)
      /\ TableOf(globalStats, GlobalFields) /\ TableOf(dailyStats, DayFields)
  BY DEF TInv, Tables
<1>2. /\ holders' = Upsert(holders, owner, NewHolder, [totalPolicies |-> 1])
      /\ pools' = Upsert(pools, risk, NewPool, [totalPolicies |-> 1])
      /\ globalStats' = Upsert(globalStats, "global", NewGlobal, MintTotals(owner, risk))
      /\ dailyStats' = Upsert(dailyStats, today, NewDay, [policiesMinted |-> 1])
  BY DEF PolicyMinted, HoldersAfterMint, GlobalAfterMint, MintTotals
<1>3. \A c \in DOMAIN MintTotals(owner, risk) : MintTotals(owner, risk)[c] \in Int
  BY MintChanges
<1> DEFINE one == [totalPolicies |-> 1]
           daily == [policiesMinted |-> 1]
<1>4. (\A c \in DOMAIN one : one[c] \in Int) /\ \A c \in DOMAIN daily : daily[c] \in Int
  OBVIOUS
<1> HIDE DEF one, daily
<1>5. OneRow(Upsert(holders, owner, NewHolder, one), holders, HolderFields, owner,
             Changed(Before(holders, owner, NewHolder), one))
  BY <1>1, <1>4, NewRows, UpsertRow
<1>6. OneRow(Upsert(pools, risk, NewPool, one), pools, HolderFields, risk,
             Changed(Before(pools, risk, NewPool), one))
  BY <1>1, <1>4, NewRows, UpsertRow
<1>7. OneRow(Upsert(globalStats, "global", NewGlobal, MintTotals(owner, risk)), globalStats, GlobalFields,
             "global", Changed(Before(globalStats, "global", NewGlobal), MintTotals(owner, risk)))
  BY <1>1, <1>3, NewRows, UpsertRow
<1>8. OneRow(Upsert(dailyStats, today, NewDay, daily), dailyStats, DayFields, today,
             Changed(Before(dailyStats, today, NewDay), daily))
  BY <1>1, <1>4, NewRows, UpsertRow
<1> QED BY <1>2, <1>5, <1>6, <1>7, <1>8 DEF one, daily

LEMMA MintedTyped ==
  ASSUME TInv, NEW chain \in Chains, NEW id \in PolicyIds, NEW owner \in Owners, NEW risk \in RiskIds,
         PolicyMinted(chain, id, owner, risk)
  PROVE  TInv'
<1>1. /\ Emit(chain, id, {"none"}, "minted")
      /\ policies' = Put(policies, id, [owner |-> owner, risk |-> risk, status |-> "MINTED"])
      /\ UNCHANGED <<claims, reserveTables>>
  BY DEF PolicyMinted
<1>2. /\ Tables'
      /\ DOMAIN holders' = DOMAIN holders \cup {owner} /\ DOMAIN pools' = DOMAIN pools \cup {risk}
      /\ DOMAIN globalStats' = DOMAIN globalStats \cup {"global"}
      /\ DOMAIN dailyStats' = DOMAIN dailyStats \cup {today}
  BY MintedRows DEF OneRow, Tables
<1>3. policies' = [k \in DOMAIN policies \cup {id} |->
                     IF k = id THEN [owner |-> owner, risk |-> risk, status |-> "MINTED"]
                     ELSE policies[k]]
  BY <1>1 DEF Put
<1>4. DOMAIN policies' = DOMAIN policies \cup {id}
  BY <1>3
<1>5. Linked'
  <2>1. IsFiniteSet(DOMAIN policies')
    BY <1>4, FS_AddElement DEF TInv, Linked
  <2>2. \A k \in DOMAIN policies' :
          /\ policies'[k] \in PolicyRow
          /\ policies'[k].owner \in DOMAIN holders' /\ policies'[k].risk \in DOMAIN pools'
    BY <1>2, <1>3 DEF TInv, Linked, PolicyRow, Statuses
  <2>3. DOMAIN globalStats' = {"global"} /\ DOMAIN policies' # {}
    BY <1>2, <1>4 DEF TInv, Linked
  <2> QED BY <1>2, <1>4, <2>1, <2>2, <2>3 DEF TInv, Linked
<1>6. Known'
  BY <1>1, <1>4 DEF TInv, Known, Emit, Stages
<1>7. Dated'
  BY <1>1, <1>2, EventsGrow DEF Emit
<1>8. Filed'
  BY <1>1, FiledKept
<1> QED BY <1>2, <1>5, <1>6, <1>7, <1>8 DEF TInv

LEMMA UnchangedTyped ==
  ASSUME TInv,
         UNCHANGED <<onchain, policyTables, statTables, claims, reserve>>, Dated'
  PROVE  TInv'
<1>1. Tables'
  BY DEF TInv, Tables, policyTables, statTables
<1>2. Linked' /\ Known'
  BY DEF TInv, Linked, Known, policyTables, statTables
<1>3. Filed'
  BY DEF TInv, Filed
<1> QED BY <1>1, <1>2, <1>3 DEF TInv

\* Every step keeps the tables as they are described above.
LEMMA NextTyped == TInv /\ [Next]_vars => TInv'
<1> SUFFICES ASSUME TInv, [Next]_vars PROVE TInv'
  OBVIOUS
<1>1. ASSUME NEW chain \in Chains, NEW id \in PolicyIds, NEW owner \in Owners, NEW risk \in RiskIds,
             PolicyMinted(chain, id, owner, risk)
      PROVE  TInv'
  BY <1>1, MintedTyped
<1>2. ASSUME NEW chain \in Chains, NEW id \in PolicyIds, PolicyActivated(chain, id)
      PROVE  TInv'
  BY <1>2, ActivatedTyped
<1>3. ASSUME NEW chain \in Chains, NEW id \in PolicyIds, PolicyExpired(chain, id)
      PROVE  TInv'
  BY <1>3, ExpiredTyped
<1>4. ASSUME NEW chain \in Chains, NEW id \in PolicyIds, NEW payout \in Amounts,
             ClaimExecuted(chain, id, payout)
      PROVE  TInv'
  BY <1>4, ClaimedTyped
<1>5. ASSUME NEW chain \in Chains, NEW id \in PolicyIds, ClaimFailed(chain, id)
      PROVE  TInv'
  BY <1>5, FailedTyped
<1>6. ASSUME NEW amount \in Amounts, Deposited(amount) \/ Withdrawn(amount)
      PROVE  TInv'
  <2>1. amount \in Nat
    BY PolicyIndexConstants
  <2>2. CASE Deposited(amount)
    <3> DEFINE total == [totalReserveDeposits |-> amount]
               daily == [reserveDeposits |-> amount]
    <3>1. (\A c \in DOMAIN total : total[c] \in Int) /\ \A c \in DOMAIN daily : daily[c] \in Int
      BY <2>1
    <3>2. ReserveMoved("deposit", amount, total, daily)
      BY <2>1, <2>2, ReserveMoves
    <3> HIDE DEF total, daily
    <3> QED BY <2>1, <3>1, <3>2, ReserveTyped
  <2>3. CASE Withdrawn(amount)
    <3> DEFINE total == [totalReserveWithdrawals |-> amount]
               daily == [reserveWithdrawals |-> amount]
    <3>1. (\A c \in DOMAIN total : total[c] \in Int) /\ \A c \in DOMAIN daily : daily[c] \in Int
      BY <2>1
    <3>2. ReserveMoved("withdrawal", amount, total, daily)
      BY <2>1, <2>3, ReserveMoves
    <3> HIDE DEF total, daily
    <3> QED BY <2>1, <3>1, <3>2, ReserveTyped
  <2> QED BY <1>6, <2>2, <2>3
<1>7. ASSUME NEW user \in Owners, NEW shares \in Amounts, RedemptionQueued(user, shares)
      PROVE  TInv'
  <2>1. Dated'
    BY <1>7, EventsGrow DEF RedemptionQueued, statTables
  <2> QED BY <1>7, <2>1, UnchangedTyped DEF RedemptionQueued
<1>8. CASE NextDay
  <2>1. Dated'
    BY <1>8, PolicyIndexConstants DEF TInv, Dated, NextDay, statTables
  <2> QED BY <1>8, <2>1, UnchangedTyped DEF NextDay, reserveTables
<1>9. CASE UNCHANGED vars
  <2>1. Dated'
    BY <1>9 DEF TInv, Dated, vars, statTables
  <2> QED BY <1>9, <2>1, UnchangedTyped DEF vars, reserveTables
<1> QED BY <1>1, <1>2, <1>3, <1>4, <1>5, <1>6, <1>7, <1>8, <1>9 DEF Next

\* The handlers keep the tables well formed: every policy points to a holder and a
\* pool that have rows, counters are naturals, GlobalStats is there exactly from
\* the first policy on, and no day is ahead of the chain.
THEOREM TypesHold == Spec => []TypeOK
<1>1. Init => TInv
  BY InitTyped
<1>2. TInv /\ [Next]_vars => TInv'
  BY NextTyped
<1>3. TInv => TypeOK
  BY TInvTypes
<1> QED BY <1>1, <1>2, <1>3, PTL DEF Spec

-----------------------------------------------------------------------------
(* What each handler does to the totals.                                   *)

\* Every column of after adds up to what it did in table and what changes adds.
Grown(table, after, F, changes) ==
  \A c \in F : Added(changes, c) \in Nat => Total(after, c) = Total(table, c) + Added(changes, c)

\* All but the columns C add up to what they did.
Same(table, after, F, C) == \A c \in F \ C : Total(after, c) = Total(table, c)

\* Columns that are not changed keep their total.
LEMMA GrownKeeps ==
  ASSUME NEW F, NEW table, TableOf(table, F), NEW after, NEW changes,
         Grown(table, after, F, changes)
  PROVE  Same(table, after, F, DOMAIN changes)
<1> SUFFICES ASSUME NEW c \in F, c \notin DOMAIN changes
             PROVE  Total(after, c) = Total(table, c)
  BY DEF Same
<1>1. Added(changes, c) = 0
  BY DEF Added
<1>2. Total(after, c) = Total(table, c) + 0
  BY <1>1 DEF Grown
<1>3. Total(table, c) \in Int
  BY TotalType
<1> QED BY <1>2, <1>3

LEMMA UpdateGrows ==
  ASSUME NEW F, NEW table, TableOf(table, F), NEW key \in DOMAIN table,
         NEW changes, \A c \in DOMAIN changes : changes[c] \in Int
  PROVE  Grown(table, Update(table, key, changes), F, changes)
BY UpdateAdds DEF Grown

LEMMA UpsertGrows ==
  ASSUME NEW F, NEW table, TableOf(table, F), NEW key, NEW new \in [F -> Nat],
         \A c \in F : new[c] = 0,
         NEW changes, \A c \in DOMAIN changes : changes[c] \in Int
  PROVE  Grown(table, Upsert(table, key, new, changes), F, changes)
BY UpsertAdds DEF Grown

\* The days' totals grow by what the event adds.
LEMMA DayGrows ==
  ASSUME TInv, NEW changes, \A c \in DOMAIN changes : changes[c] \in Int,
         dailyStats' = Upsert(dailyStats, today, NewDay, changes)
  PROVE  Grown(dailyStats, dailyStats', DayFields, changes)
<1>1. TableOf(dailyStats, DayFields) /\ NewDay \in [DayFields -> Nat] /\ \A c \in DayFields : NewDay[c] = 0
  BY NewRows DEF TInv, Tables
<1> QED BY <1>1, UpsertGrows

LEMMA DayKeeps ==
  ASSUME TInv, NEW changes, \A c \in DOMAIN changes : changes[c] \in Int,
         dailyStats' = Update(dailyStats, today, changes)
  PROVE  Same(dailyStats, dailyStats', DayFields, DOMAIN changes)
<1>1. TableOf(dailyStats, DayFields)
  BY DEF TInv, Tables
<1>2. CASE today \in DOMAIN dailyStats
  BY <1>1, <1>2, UpdateGrows, GrownKeeps
<1>3. CASE today \notin DOMAIN dailyStats
  BY <1>3 DEF Update, Same
<1> QED BY <1>2, <1>3

LEMMA GlobalGrows ==
  ASSUME TInv, "global" \in DOMAIN globalStats,
         NEW changes, \A c \in DOMAIN changes : changes[c] \in Int,
         globalStats' = Update(globalStats, "global", changes)
  PROVE  Grown(globalStats, globalStats', GlobalFields, changes)
<1>1. TableOf(globalStats, GlobalFields)
  BY DEF TInv, Tables
<1> QED BY <1>1, UpdateGrows

LEMMA CountedGrows ==
  ASSUME TInv, NEW id \in DOMAIN policies,
         NEW changes, \A c \in DOMAIN changes : changes[c] \in Int,
         NEW total, \A c \in DOMAIN total : total[c] \in Int,
         CountActive(id, changes, total)
  PROVE  /\ Grown(holders, holders', HolderFields, changes)
         /\ Grown(pools, pools', HolderFields, changes)
         /\ Grown(globalStats, globalStats', GlobalFields, total)
<1>1. policies[id].owner \in DOMAIN holders /\ policies[id].risk \in DOMAIN pools
      /\ "global" \in DOMAIN globalStats
  BY DEF TInv, Linked
<1>2. TableOf(holders, HolderFields) /\ TableOf(pools, HolderFields) /\ TableOf(globalStats, GlobalFields)
  BY DEF TInv, Tables
<1>3. PICK owner, risk : owner = policies[id].owner /\ risk = policies[id].risk
  OBVIOUS
<1>4. /\ holders' = Update(holders, owner, changes)
      /\ pools' = Update(pools, risk, changes)
      /\ globalStats' = Update(globalStats, "global", total)
  BY <1>3 DEF CountActive
<1>5. Grown(holders, holders', HolderFields, changes)
  BY <1>1, <1>2, <1>3, <1>4, UpdateGrows
<1>6. Grown(pools, pools', HolderFields, changes)
  BY <1>1, <1>2, <1>3, <1>4, UpdateGrows
<1>7. Grown(globalStats, globalStats', GlobalFields, total)
  BY <1>1, <1>2, <1>4, UpdateGrows
<1> QED BY <1>5, <1>6, <1>7

LEMMA TotalsAreInts ==
  ASSUME TInv
  PROVE  /\ \A c \in HolderFields : Total(holders, c) \in Int /\ Total(pools, c) \in Int
         /\ \A c \in GlobalFields : Total(globalStats, c) \in Int
         /\ \A c \in DayFields : Total(dailyStats, c) \in Int
BY TotalType DEF TInv, Tables

\* Activations and expirations touch no total but those of activePolicies and the
\* day's own count.
LEMMA ActivatedTotals ==
  ASSUME TInv, NEW chain \in Chains, NEW id \in PolicyIds, PolicyActivated(chain, id)
  PROVE  /\ Same(holders, holders', HolderFields, {"activePolicies"})
         /\ Same(pools, pools', HolderFields, {"activePolicies"})
         /\ Same(globalStats, globalStats', GlobalFields, {"activePolicies"})
         /\ Same(dailyStats, dailyStats', DayFields, {"policiesActivated"})
<1> DEFINE change == [activePolicies |-> 1]
           daily == [policiesActivated |-> 1]
<1>1. /\ DOMAIN change = {"activePolicies"} /\ \A c \in DOMAIN change : change[c] \in Int
      /\ DOMAIN daily = {"policiesActivated"} /\ \A c \in DOMAIN daily : daily[c] \in Int
  OBVIOUS
<1>2. /\ Emit(chain, id, {"minted"}, "active") /\ CountActive(id, change, change)
      /\ dailyStats' = Update(dailyStats, today, daily)
  BY DEF PolicyActivated
<1> HIDE DEF change, daily
<1>3. id \in DOMAIN policies
  BY <1>2, RowsThere DEF Emit
<1>4. /\ Grown(holders, holders', HolderFields, change)
      /\ Grown(pools, pools', HolderFields, change)
      /\ Grown(globalStats, globalStats', GlobalFields, change)
  BY <1>1, <1>2, <1>3, CountedGrows
<1>5. Same(dailyStats, dailyStats', DayFields, DOMAIN daily)
  BY <1>1, <1>2, DayKeeps
<1> QED BY <1>1, <1>4, <1>5, GrownKeeps DEF TInv, Tables

LEMMA ExpiredTotals ==
  ASSUME TInv, NEW chain \in Chains, NEW id \in PolicyIds, PolicyExpired(chain, id)
  PROVE  /\ Same(holders, holders', HolderFields, {"activePolicies"})
         /\ Same(pools, pools', HolderFields, {"activePolicies"})
         /\ Same(globalStats, globalStats', GlobalFields, {"activePolicies"})
         /\ Same(dailyStats, dailyStats', DayFields, {"policiesExpired"})
<1> DEFINE change == [activePolicies |-> -1]
           daily == [policiesExpired |-> 1]
<1>1. /\ DOMAIN change = {"activePolicies"} /\ \A c \in DOMAIN change : change[c] \in Int
      /\ DOMAIN daily = {"policiesExpired"} /\ \A c \in DOMAIN daily : daily[c] \in Int
  OBVIOUS
<1>2. /\ Emit(chain, id, {"minted", "active"}, "expired")
      /\ CountActive(id, change, change) \/ UNCHANGED <<holders, pools, globalStats>>
      /\ dailyStats' = Update(dailyStats, today, daily)
  BY DEF PolicyExpired
<1> HIDE DEF change, daily
<1>3. id \in DOMAIN policies
  BY <1>2, RowsThere DEF Emit
<1>4. Same(dailyStats, dailyStats', DayFields, {"policiesExpired"})
  BY <1>1, <1>2, DayKeeps
<1>5. CASE CountActive(id, change, change)
  <2>1. /\ Grown(holders, holders', HolderFields, change)
        /\ Grown(pools, pools', HolderFields, change)
        /\ Grown(globalStats, globalStats', GlobalFields, change)
    BY <1>1, <1>3, <1>5, CountedGrows
  <2> QED BY <1>1, <1>4, <2>1, GrownKeeps DEF TInv, Tables
<1>6. CASE UNCHANGED <<holders, pools, globalStats>>
  BY <1>4, <1>6 DEF Same
<1> QED BY <1>2, <1>5, <1>6

\* A paid claim is added to the global totals and the day's, and to the holder's
\* and the pool's alike, or to neither.
LEMMA ClaimedTotals ==
  ASSUME TInv, NEW chain \in Chains, NEW id \in PolicyIds, NEW payout \in Amounts,
         ClaimExecuted(chain, id, payout)
  PROVE  /\ Same(holders, holders', HolderFields, {"activePolicies", "totalPayouts"})
         /\ Same(pools, pools', HolderFields, {"activePolicies", "totalPayouts"})
         /\ \E share \in {0, payout} :
              /\ Total(holders', "totalPayouts") = Total(holders, "totalPayouts") + share
              /\ Total(pools', "totalPayouts") = Total(pools, "totalPayouts") + share
         /\ Grown(globalStats, globalStats', GlobalFields, PaidOverall(id, payout))
         /\ Grown(dailyStats, dailyStats', DayFields,
                  [claimsExecuted |-> 1, payoutsDistributed |-> payout])
<1>0. payout \in Nat
  BY PolicyIndexConstants
<1> DEFINE daily == [claimsExecuted |-> 1, payoutsDistributed |-> payout]
<1>1. /\ DOMAIN Paid(payout) = {"activePolicies", "totalPayouts"}
      /\ \A c \in DOMAIN Paid(payout) : Paid(payout)[c] \in Int
      /\ \A c \in DOMAIN PaidOverall(id, payout) : PaidOverall(id, payout)[c] \in Int
      /\ \A c \in DOMAIN daily : daily[c] \in Int
      /\ Added(Paid(payout), "totalPayouts") = payout
  BY <1>0, PaidChanges DEF Added, Paid
<1>2. /\ Emit(chain, id, {"active", "expired"}, "claimed")
      /\ \/ CountActive(id, Paid(payout), PaidOverall(id, payout))
         \/ /\ globalStats' = Update(globalStats, "global", PaidOverall(id, payout))
            /\ UNCHANGED <<holders, pools>>
      /\ dailyStats' = Upsert(dailyStats, today, NewDay, daily)
  BY DEF ClaimExecuted
<1> HIDE DEF daily
<1>3. id \in DOMAIN policies /\ "global" \in DOMAIN globalStats
  BY <1>2, RowsThere DEF Emit
<1>4. Grown(dailyStats, dailyStats', DayFields, daily)
  BY <1>1, <1>2, DayGrows
<1>5. CASE CountActive(id, Paid(payout), PaidOverall(id, payout))
  <2>1. /\ Grown(holders, holders', HolderFields, Paid(payout))
        /\ Grown(pools, pools', HolderFields, Paid(payout))
        /\ Grown(globalStats, globalStats', GlobalFields, PaidOverall(id, payout))
    BY <1>1, <1>3, <1>5, CountedGrows
  <2>2. /\ Same(holders, holders', HolderFields, {"activePolicies", "totalPayouts"})
        /\ Same(pools, pools', HolderFields, {"activePolicies", "totalPayouts"})
    BY <1>1, <2>1, GrownKeeps DEF TInv, Tables
  <2>3. /\ Total(holders', "totalPayouts") = Total(holders, "totalPayouts") + payout
        /\ Total(pools', "totalPayouts") = Total(pools, "totalPayouts") + payout
    BY <1>0, <1>1, <2>1 DEF Grown, HolderFields
  <2> QED BY <1>4, <2>1, <2>2, <2>3 DEF daily
<1>6. CASE /\ globalStats' = Update(globalStats, "global", PaidOverall(id, payout))
           /\ UNCHANGED <<holders, pools>>
  <2>1. Grown(globalStats, globalStats', GlobalFields, PaidOverall(id, payout))
    BY <1>1, <1>3, <1>6, GlobalGrows
  <2>2. /\ Same(holders, holders', HolderFields, {"activePolicies", "totalPayouts"})
        /\ Same(pools, pools', HolderFields, {"activePolicies", "totalPayouts"})
    BY <1>6 DEF Same
  <2>3. /\ Total(holders', "totalPayouts") = Total(holders, "totalPayouts") + 0
        /\ Total(pools', "totalPayouts") = Total(pools, "totalPayouts") + 0
    BY <1>6, TotalsAreInts DEF HolderFields
  <2> QED BY <1>4, <2>1, <2>2, <2>3 DEF daily
<1> QED BY <1>2, <1>5, <1>6

\* A mint is counted once by the owner's row, the pool's, the global one and the day's.
LEMMA MintedTotals ==
  ASSUME TInv, NEW chain \in Chains, NEW id \in PolicyIds, NEW owner \in Owners, NEW risk \in RiskIds,
         PolicyMinted(chain, id, owner, risk)
  PROVE  /\ Grown(holders, holders', HolderFields, [totalPolicies |-> 1])
         /\ Grown(pools, pools', HolderFields, [totalPolicies |-> 1])
         /\ Grown(globalStats, globalStats', GlobalFields, MintTotals(owner, risk))
         /\ Grown(dailyStats, dailyStats', DayFields, [policiesMinted |-> 1])
<1> DEFINE one == [totalPolicies |-> 1]
           daily == [policiesMinted |-> 1]
<1>1. /\ holders' = Upsert(holders, owner, NewHolder, one)
      /\ pools' = Upsert(pools, risk, NewPool, one)
      /\ globalStats' = Upsert(globalStats, "global", NewGlobal, MintTotals(owner, risk))
      /\ dailyStats' = Upsert(dailyStats, today, NewDay, daily)
  BY DEF PolicyMinted, HoldersAfterMint, GlobalAfterMint, MintTotals
<1>2. /\ \A c \in DOMAIN one : one[c] \in Int
      /\ \A c \in DOMAIN daily : daily[c] \in Int
      /\ \A c \in DOMAIN MintTotals(owner, risk) : MintTotals(owner, risk)[c] \in Int
  BY MintChanges
<1> HIDE DEF one, daily
<1>3. TableOf(holders, HolderFields) /\ TableOf(pools, HolderFields) /\ TableOf(globalStats, GlobalFields)
  BY DEF TInv, Tables
<1>4. Grown(holders, holders', HolderFields, one)
  BY <1>1, <1>2, <1>3, NewRows, UpsertGrows
<1>5. Grown(pools, pools', HolderFields, one)
  BY <1>1, <1>2, <1>3, NewRows, UpsertGrows
<1>6. Grown(globalStats, globalStats', GlobalFields, MintTotals(owner, risk))
  BY <1>1, <1>2, <1>3, NewRows, UpsertGrows
<1>7. Grown(dailyStats, dailyStats', DayFields, daily)
  BY <1>1, <1>2, DayGrows
<1> QED BY <1>4, <1>5, <1>6, <1>7 DEF one, daily

\* A deposit or a withdrawal is added to the day, and to the global row if there is one.
LEMMA ReserveTotals ==
  ASSUME TInv, NEW kind, NEW amount,
         NEW total, \A c \in DOMAIN total : total[c] \in Int,
         NEW daily, \A c \in DOMAIN daily : daily[c] \in Int,
         ReserveMoved(kind, amount, total, daily)
  PROVE  /\ Grown(globalStats, globalStats', GlobalFields, total) \/ globalStats' = globalStats
         /\ Same(globalStats, globalStats', GlobalFields, DOMAIN total)
         /\ Grown(dailyStats, dailyStats', DayFields, daily)
<1>1. Grown(dailyStats, dailyStats', DayFields, daily)
  BY DayGrows DEF ReserveMoved
<1>2. CASE "global" \in DOMAIN globalStats
  <2>1. Grown(globalStats, globalStats', GlobalFields, total)
    BY <1>2, GlobalGrows DEF ReserveMoved
  <2> QED BY <1>1, <2>1, GrownKeeps DEF TInv, Tables
<1>3. CASE "global" \notin DOMAIN globalStats
  BY <1>1, <1>3 DEF ReserveMoved, Update, Same
<1> QED BY <1>2, <1>3

-----------------------------------------------------------------------------
(* The rows on file.                                                       *)

PaidOn(rows) == SumFunction([i \in DOMAIN rows |-> rows[i].payout])
ExecutedOn(rows) == Cardinality({i \in DOMAIN rows : rows[i].status = "EXECUTED"})
ReserveOn(rows, kind) ==
  SumFunction([i \in DOMAIN rows |-> IF rows[i].kind = kind THEN rows[i].amount ELSE 0])

\* What Append does to a sequence.
LEMMA Appended ==
  ASSUME NEW R, NEW rows \in Seq(R), NEW row \in R
  PROVE  \E n \in Nat :
           /\ n = Len(rows) /\ DOMAIN rows = 1..n /\ IsFiniteSet(1..n)
           /\ Append(rows, row) \in Seq(R) /\ Len(Append(rows, row)) = n + 1
           /\ n + 1 \notin 1..n /\ DOMAIN Append(rows, row) = 1..n \cup {n + 1}
           /\ \A i \in 1..n : Append(rows, row)[i] = rows[i] /\ rows[i] \in R
           /\ Append(rows, row)[n + 1] = row
<1>1. Len(rows) \in Nat /\ DOMAIN rows = 1..Len(rows)
  BY LenProperties
<1>2. /\ Append(rows, row) \in Seq(R) /\ Len(Append(rows, row)) = Len(rows) + 1
      /\ \A i \in 1..Len(rows) : Append(rows, row)[i] = rows[i]
      /\ Append(rows, row)[Len(rows) + 1] = row
  BY AppendProperties
<1>3. DOMAIN Append(rows, row) = 1..(Len(rows) + 1)
  BY <1>2, LenProperties
<1>4. 1..(Len(rows) + 1) = 1..Len(rows) \cup {Len(rows) + 1} /\ Len(rows) + 1 \notin 1..Len(rows)
  BY <1>1
<1>5. IsFiniteSet(1..Len(rows))
  BY <1>1, FS_Interval
<1>6. \A i \in 1..Len(rows) : rows[i] \in R
  BY ElementOfSeq
<1> QED BY <1>1, <1>2, <1>3, <1>4, <1>5, <1>6

LEMMA ClaimAppended ==
  ASSUME NEW rows \in Seq(ClaimRows), NEW row \in ClaimRows
  PROVE  /\ Len(Append(rows, row)) = Len(rows) + 1
         /\ PaidOn(rows) \in Int /\ PaidOn(Append(rows, row)) = PaidOn(rows) + row.payout
         /\ ExecutedOn(rows) \in Nat
         /\ ExecutedOn(Append(rows, row)) =
              ExecutedOn(rows) + (IF row.status = "EXECUTED" THEN 1 ELSE 0)
<1> DEFINE more == Append(rows, row)
<1>1. PICK n \in Nat :
        /\ n = Len(rows) /\ DOMAIN rows = 1..n /\ IsFiniteSet(1..n)
        /\ more \in Seq(ClaimRows) /\ Len(more) = n + 1
        /\ n + 1 \notin 1..n /\ DOMAIN more = 1..n \cup {n + 1}
        /\ \A i \in 1..n : more[i] = rows[i] /\ rows[i] \in ClaimRows
        /\ more[n + 1] = row
  BY Appended
<1> HIDE DEF more
<1> DEFINE f == [i \in DOMAIN rows |-> rows[i].payout]
           g == [i \in DOMAIN more |-> more[i].payout]
<1>2. /\ DOMAIN f = 1..n /\ DOMAIN g = 1..n \cup {n + 1}
      /\ \A i \in 1..n : f[i] \in Int /\ f[i] = g[i]
      /\ g[n + 1] = row.payout /\ row.payout \in Int
  BY <1>1 DEF ClaimRows
<1>3. \A i \in DOMAIN g : g[i] \in Int
  BY <1>2
<1>4. PaidOn(rows) = SumFunction(f) /\ PaidOn(more) = SumFunction(g)
  BY DEF PaidOn
<1> HIDE DEF f, g
<1>5. SumFunction(f) \in Int
  BY <1>1, <1>2, SumType
<1>6. SumFunction(g) = SumFunction(f) + row.payout
  <2>1. PICK x : x = n + 1
    OBVIOUS
  <2>2. SumFunction(g) = SumFunction(f) + g[x]
    BY <1>1, <1>2, <1>3, <2>1, SumAdd
  <2> QED BY <1>2, <2>1, <2>2
<1> DEFINE done == {i \in DOMAIN rows : rows[i].status = "EXECUTED"}
           doneMore == {i \in DOMAIN more : more[i].status = "EXECUTED"}
<1>7. done \subseteq 1..n /\ IsFiniteSet(done) /\ n + 1 \notin done
  <2>1. done \subseteq 1..n
    BY <1>1
  <2> QED BY <1>1, <2>1, FS_Subset
<1>8. doneMore = IF row.status = "EXECUTED" THEN done \cup {n + 1} ELSE done
  BY <1>1
<1>9. ExecutedOn(rows) = Cardinality(done) /\ ExecutedOn(more) = Cardinality(doneMore)
  BY DEF ExecutedOn
<1> HIDE DEF done, doneMore
<1>10. Cardinality(done) \in Nat
  BY <1>7, FS_CardinalityType
<1>11. Cardinality(doneMore) = Cardinality(done) + (IF row.status = "EXECUTED" THEN 1 ELSE 0)
  BY <1>7, <1>8, <1>10, OneMore
<1> QED BY <1>1, <1>4, <1>5, <1>6, <1>9, <1>10, <1>11 DEF more

LEMMA ReserveAppended ==
  ASSUME NEW rows \in Seq(ReserveRows), NEW row \in ReserveRows, NEW kind
  PROVE  /\ ReserveOn(rows, kind) \in Int
         /\ ReserveOn(Append(rows, row), kind) =
              ReserveOn(rows, kind) + (IF row.kind = kind THEN row.amount ELSE 0)
<1> DEFINE more == Append(rows, row)
<1>1. PICK n \in Nat :
        /\ n = Len(rows) /\ DOMAIN rows = 1..n /\ IsFiniteSet(1..n)
        /\ more \in Seq(ReserveRows) /\ Len(more) = n + 1
        /\ n + 1 \notin 1..n /\ DOMAIN more = 1..n \cup {n + 1}
        /\ \A i \in 1..n : more[i] = rows[i] /\ rows[i] \in ReserveRows
        /\ more[n + 1] = row
  BY Appended
<1> HIDE DEF more
<1> DEFINE f == [i \in DOMAIN rows |-> IF rows[i].kind = kind THEN rows[i].amount ELSE 0]
           g == [i \in DOMAIN more |-> IF more[i].kind = kind THEN more[i].amount ELSE 0]
<1>2. /\ DOMAIN f = 1..n /\ DOMAIN g = 1..n \cup {n + 1}
      /\ \A i \in 1..n : f[i] \in Int /\ f[i] = g[i]
      /\ g[n + 1] = (IF row.kind = kind THEN row.amount ELSE 0) /\ g[n + 1] \in Int
  BY <1>1 DEF ReserveRows
<1>3. \A i \in DOMAIN g : g[i] \in Int
  BY <1>2
<1>4. ReserveOn(rows, kind) = SumFunction(f) /\ ReserveOn(more, kind) = SumFunction(g)
  BY DEF ReserveOn
<1> HIDE DEF f, g
<1>5. SumFunction(f) \in Int
  BY <1>1, <1>2, SumType
<1>6. SumFunction(g) = SumFunction(f) + (IF row.kind = kind THEN row.amount ELSE 0)
  <2>1. PICK x : x = n + 1
    OBVIOUS
  <2>2. SumFunction(g) = SumFunction(f) + g[x]
    BY <1>1, <1>2, <1>3, <2>1, SumAdd
  <2> QED BY <1>2, <2>1, <2>2
<1> QED BY <1>4, <1>5, <1>6 DEF more

-----------------------------------------------------------------------------
(* Mints, payouts and the reserve.                                         *)

\* What MintsAgree is about stays as it is.
LEMMA MintsKept ==
  ASSUME TInv, MintsAgree, NEW C, NEW D, NEW E,
         C \cap {"totalPolicies", "uniquePolicyHolders", "uniqueRiskPools"} = {},
         "totalPolicies" \notin D, "policiesMinted" \notin E,
         Same(globalStats, globalStats', GlobalFields, C),
         Same(holders, holders', HolderFields, D), Same(pools, pools', HolderFields, D),
         Same(dailyStats, dailyStats', DayFields, E),
         DOMAIN holders' = DOMAIN holders, DOMAIN pools' = DOMAIN pools
  PROVE  MintsAgree'
<1>1. \A c \in {"totalPolicies", "uniquePolicyHolders", "uniqueRiskPools"} :
        Total(globalStats', c) = Total(globalStats, c)
  BY DEF Same, GlobalFields
<1>2. /\ Total(holders', "totalPolicies") = Total(holders, "totalPolicies")
      /\ Total(pools', "totalPolicies") = Total(pools, "totalPolicies")
      /\ Total(dailyStats', "policiesMinted") = Total(dailyStats, "policiesMinted")
  BY DEF Same, HolderFields, DayFields
<1> QED BY <1>1, <1>2 DEF MintsAgree

LEMMA MintCounts ==
  ASSUME TInv, MintsAgree,
         NEW chain \in Chains, NEW id \in PolicyIds, NEW owner \in Owners, NEW risk \in RiskIds,
         PolicyMinted(chain, id, owner, risk)
  PROVE  MintsAgree'
<1> DEFINE one == [totalPolicies |-> 1]
           daily == [policiesMinted |-> 1]
           total == MintTotals(owner, risk)
<1>1. /\ Grown(holders, holders', HolderFields, one) /\ Grown(pools, pools', HolderFields, one)
      /\ Grown(globalStats, globalStats', GlobalFields, total)
      /\ Grown(dailyStats, dailyStats', DayFields, daily)
  BY MintedTotals
<1>2. DOMAIN holders' = DOMAIN holders \cup {owner} /\ DOMAIN pools' = DOMAIN pools \cup {risk}
  BY MintedRows DEF OneRow
<1>3. "global" \notin DOMAIN globalStats => owner \notin DOMAIN holders /\ risk \notin DOMAIN pools
  BY DEF TInv, Linked
<1>4. /\ Added(one, "totalPolicies") = 1 /\ Added(daily, "policiesMinted") = 1
      /\ Added(total, "totalPolicies") = 1
      /\ Added(total, "uniquePolicyHolders") = IF owner \in DOMAIN holders THEN 0 ELSE 1
      /\ Added(total, "uniqueRiskPools") = IF risk \in DOMAIN pools THEN 0 ELSE 1
  BY <1>3 DEF Added, MintTotals
<1> HIDE DEF one, daily, total
<1>5. /\ Total(holders', "totalPolicies") = Total(holders, "totalPolicies") + 1
      /\ Total(pools', "totalPolicies") = Total(pools, "totalPolicies") + 1
  BY <1>1, <1>4 DEF Grown, HolderFields
<1>6. /\ Total(globalStats', "totalPolicies") = Total(globalStats, "totalPolicies") + 1
      /\ Total(globalStats', "uniquePolicyHolders") =
           Total(globalStats, "uniquePolicyHolders") + (IF owner \in DOMAIN holders THEN 0 ELSE 1)
      /\ Total(globalStats', "uniqueRiskPools") =
           Total(globalStats, "uniqueRiskPools") + (IF risk \in DOMAIN pools THEN 0 ELSE 1)
  BY <1>1, <1>4 DEF Grown, GlobalFields
<1>7. Total(dailyStats', "policiesMinted") = Total(dailyStats, "policiesMinted") + 1
  BY <1>1, <1>4 DEF Grown, DayFields
<1>8. IsFiniteSet(DOMAIN holders) /\ IsFiniteSet(DOMAIN pools)
  BY DEF TInv, Tables, TableOf
<1>9. Cardinality(DOMAIN holders) \in Nat /\ Cardinality(DOMAIN pools) \in Nat
  BY <1>8, FS_CardinalityType
<1>10. Cardinality(DOMAIN holders \cup {owner}) =
         Cardinality(DOMAIN holders) + (IF owner \in DOMAIN holders THEN 0 ELSE 1)
  BY <1>8, <1>9, OneMore
<1>11. Cardinality(DOMAIN pools \cup {risk}) =
         Cardinality(DOMAIN pools) + (IF risk \in DOMAIN pools THEN 0 ELSE 1)
  BY <1>8, <1>9, OneMore
<1> QED BY <1>2, <1>5, <1>6, <1>7, <1>10, <1>11 DEF MintsAgree

\* PayoutsAgree in terms of the sums over claims.
LEMMA PayoutsForm ==
  PayoutsAgree <=>
    /\ Total(globalStats, "totalClaims") = Len(claims)
    /\ ExecutedOn(claims) = Total(globalStats, "executedClaims")
    /\ ExecutedOn(claims) = Total(dailyStats, "claimsExecuted")
    /\ PaidOn(claims) = Total(globalStats, "totalPayouts")
    /\ PaidOn(claims) = Total(dailyStats, "payoutsDistributed")
    /\ Total(holders, "totalPayouts") = Total(pools, "totalPayouts")
    /\ Total(holders, "totalPayouts") <= PaidOn(claims)
BY DEF PayoutsAgree, ExecutedOn, PaidOn

LEMMA PayoutsFormNext ==
  PayoutsAgree' <=>
    /\ Total(globalStats', "totalClaims") = Len(claims')
    /\ ExecutedOn(claims') = Total(globalStats', "executedClaims")
    /\ ExecutedOn(claims') = Total(dailyStats', "claimsExecuted")
    /\ PaidOn(claims') = Total(globalStats', "totalPayouts")
    /\ PaidOn(claims') = Total(dailyStats', "payoutsDistributed")
    /\ Total(holders', "totalPayouts") = Total(pools', "totalPayouts")
    /\ Total(holders', "totalPayouts") <= PaidOn(claims')
BY DEF PayoutsAgree, ExecutedOn, PaidOn

LEMMA PayoutsKept ==
  ASSUME TInv, PayoutsAgree, claims' = claims, NEW C, NEW D, NEW E,
         C \cap {"totalClaims", "executedClaims", "totalPayouts"} = {},
         "totalPayouts" \notin D, E \cap {"claimsExecuted", "payoutsDistributed"} = {},
         Same(globalStats, globalStats', GlobalFields, C),
         Same(holders, holders', HolderFields, D), Same(pools, pools', HolderFields, D),
         Same(dailyStats, dailyStats', DayFields, E)
  PROVE  PayoutsAgree'
<1>1. \A c \in {"totalClaims", "executedClaims", "totalPayouts"} :
        Total(globalStats', c) = Total(globalStats, c)
  BY DEF Same, GlobalFields
<1>2. /\ Total(holders', "totalPayouts") = Total(holders, "totalPayouts")
      /\ Total(pools', "totalPayouts") = Total(pools, "totalPayouts")
  BY DEF Same, HolderFields
<1>3. \A c \in {"claimsExecuted", "payoutsDistributed"} : Total(dailyStats', c) = Total(dailyStats, c)
  BY DEF Same, DayFields
<1> QED BY <1>1, <1>2, <1>3, PayoutsForm, PayoutsFormNext

LEMMA ClaimCounts ==
  ASSUME TInv, PayoutsAgree, NEW chain \in Chains, NEW id \in PolicyIds, NEW payout \in Amounts,
         ClaimExecuted(chain, id, payout)
  PROVE  PayoutsAgree'
<1>0. payout \in Nat
  BY PolicyIndexConstants
<1> DEFINE daily == [claimsExecuted |-> 1, payoutsDistributed |-> payout]
           total == PaidOverall(id, payout)
           row == ClaimRow(id, payout, "EXECUTED")
<1>1. PICK share \in {0, payout} :
        /\ Total(holders', "totalPayouts") = Total(holders, "totalPayouts") + share
        /\ Total(pools', "totalPayouts") = Total(pools, "totalPayouts") + share
  BY ClaimedTotals
<1>2. /\ Grown(globalStats, globalStats', GlobalFields, total)
      /\ Grown(dailyStats, dailyStats', DayFields, daily)
  BY ClaimedTotals
<1>3. /\ Added(total, "totalClaims") = 1 /\ Added(total, "executedClaims") = 1
      /\ Added(total, "totalPayouts") = payout
      /\ Added(daily, "claimsExecuted") = 1 /\ Added(daily, "payoutsDistributed") = payout
  BY DEF Added, PaidOverall
<1>4. claims' = Append(claims, row) /\ row \in ClaimRows /\ row.payout = payout
      /\ row.status = "EXECUTED"
  BY <1>0 DEF ClaimExecuted, ClaimRow, ClaimRows
<1> HIDE DEF daily, total, row
<1>5. /\ Total(globalStats', "totalClaims") = Total(globalStats, "totalClaims") + 1
      /\ Total(globalStats', "executedClaims") = Total(globalStats, "executedClaims") + 1
      /\ Total(globalStats', "totalPayouts") = Total(globalStats, "totalPayouts") + payout
  BY <1>0, <1>2, <1>3 DEF Grown, GlobalFields
<1>6. /\ Total(dailyStats', "claimsExecuted") = Total(dailyStats, "claimsExecuted") + 1
      /\ Total(dailyStats', "payoutsDistributed") = Total(dailyStats, "payoutsDistributed") + payout
  BY <1>0, <1>2, <1>3 DEF Grown, DayFields
<1>7. claims \in Seq(ClaimRows)
  BY DEF TInv, Filed
<1>8. /\ Len(claims') = Len(claims) + 1
      /\ PaidOn(claims) \in Int /\ PaidOn(claims') = PaidOn(claims) + payout
      /\ ExecutedOn(claims') = ExecutedOn(claims) + 1
  BY <1>4, <1>7, ClaimAppended
<1>9. Total(holders, "totalPayouts") \in Int
  BY TotalsAreInts DEF HolderFields
<1>10. Total(holders', "totalPayouts") <= PaidOn(claims')
  BY <1>0, <1>1, <1>8, <1>9, PayoutsForm
<1> QED BY <1>1, <1>5, <1>6, <1>8, <1>10, PayoutsForm, PayoutsFormNext

LEMMA FailCounts ==
  ASSUME TInv, PayoutsAgree, NEW chain \in Chains, NEW id \in PolicyIds, ClaimFailed(chain, id)
  PROVE  /\ PayoutsAgree'
         /\ Same(globalStats, globalStats', GlobalFields, {"totalClaims"})
<1> DEFINE total == [totalClaims |-> 1]
           row == ClaimRow(id, 0, "FAILED")
<1>1. /\ DOMAIN total = {"totalClaims"} /\ (\A c \in DOMAIN total : total[c] \in Int)
      /\ Added(total, "totalClaims") = 1
  BY DEF Added
<1>2. /\ onchain[<<chain, id>>] # "none"
      /\ claims' = Append(claims, row)
      /\ globalStats' = Update(globalStats, "global", total)
      /\ UNCHANGED <<holders, pools, dailyStats>>
  BY DEF ClaimFailed, policyTables
<1>3. row \in ClaimRows /\ row.payout = 0 /\ row.status # "EXECUTED"
  BY DEF ClaimRow, ClaimRows
<1> HIDE DEF total, row
<1>4. Grown(globalStats, globalStats', GlobalFields, total)
  BY <1>1, <1>2, RowsThere, GlobalGrows
<1>5. Same(globalStats, globalStats', GlobalFields, {"totalClaims"})
  BY <1>1, <1>4, GrownKeeps DEF TInv, Tables
<1>6. /\ Total(globalStats', "totalClaims") = Total(globalStats, "totalClaims") + 1
      /\ Total(globalStats', "executedClaims") = Total(globalStats, "executedClaims")
      /\ Total(globalStats', "totalPayouts") = Total(globalStats, "totalPayouts")
  BY <1>1, <1>4, <1>5 DEF Grown, Same, GlobalFields
<1>7. claims \in Seq(ClaimRows)
  BY DEF TInv, Filed
<1>8. /\ Len(claims') = Len(claims) + 1
      /\ PaidOn(claims) \in Int /\ PaidOn(claims') = PaidOn(claims)
      /\ ExecutedOn(claims') = ExecutedOn(claims)
  BY <1>2, <1>3, <1>7, ClaimAppended
<1> QED BY <1>2, <1>5, <1>6, <1>8, PayoutsForm, PayoutsFormNext

\* ReserveDaysAgree in terms of the sums over reserve.
LEMMA ReserveForm ==
  ReserveDaysAgree <=>
    /\ Total(dailyStats, "reserveDeposits") = ReserveOn(reserve, "deposit")
    /\ Total(dailyStats, "reserveWithdrawals") = ReserveOn(reserve, "withdrawal")
    /\ Total(globalStats, "totalReserveDeposits") <= ReserveOn(reserve, "deposit")
    /\ Total(globalStats, "totalReserveWithdrawals") <= ReserveOn(reserve, "withdrawal")
BY DEF ReserveDaysAgree, ReserveTotal, ReserveOn

LEMMA ReserveFormNext ==
  ReserveDaysAgree' <=>
    /\ Total(dailyStats', "reserveDeposits") = ReserveOn(reserve', "deposit")
    /\ Total(dailyStats', "reserveWithdrawals") = ReserveOn(reserve', "withdrawal")
    /\ Total(globalStats', "totalReserveDeposits") <= ReserveOn(reserve', "deposit")
    /\ Total(globalStats', "totalReserveWithdrawals") <= ReserveOn(reserve', "withdrawal")
BY DEF ReserveDaysAgree, ReserveTotal, ReserveOn

LEMMA ReserveKept ==
  ASSUME TInv, ReserveDaysAgree, reserve' = reserve, NEW C, NEW E,
         C \cap {"totalReserveDeposits", "totalReserveWithdrawals"} = {},
         E \cap {"reserveDeposits", "reserveWithdrawals"} = {},
         Same(globalStats, globalStats', GlobalFields, C),
         Same(dailyStats, dailyStats', DayFields, E)
  PROVE  ReserveDaysAgree'
<1>1. \A c \in {"totalReserveDeposits", "totalReserveWithdrawals"} :
        Total(globalStats', c) = Total(globalStats, c)
  BY DEF Same, GlobalFields
<1>2. \A c \in {"reserveDeposits", "reserveWithdrawals"} : Total(dailyStats', c) = Total(dailyStats, c)
  BY DEF Same, DayFields
<1> QED BY <1>1, <1>2, ReserveForm, ReserveFormNext

\* A movement of one kind is added to the day's column of that kind, and at most
\* that much to the global one.
LEMMA ReserveCounts ==
  ASSUME TInv, ReserveDaysAgree, NEW amount \in Nat,
         \/ Deposited(amount)
         \/ Withdrawn(amount)
  PROVE  ReserveDaysAgree'
<1>1. reserve \in Seq(ReserveRows)
  BY DEF TInv, Filed
<1>2. /\ Total(globalStats, "totalReserveDeposits") \in Int
      /\ Total(globalStats, "totalReserveWithdrawals") \in Int
      /\ Total(dailyStats, "reserveDeposits") \in Int
      /\ Total(dailyStats, "reserveWithdrawals") \in Int
  BY TotalsAreInts DEF GlobalFields, DayFields
<1>3. CASE Deposited(amount)
  <2> DEFINE total == [totalReserveDeposits |-> amount]
             daily == [reserveDeposits |-> amount]
             row == ReserveRow("deposit", amount)
  <2>1. /\ DOMAIN total = {"totalReserveDeposits"} /\ (\A c \in DOMAIN total : total[c] \in Int)
        /\ DOMAIN daily = {"reserveDeposits"} /\ (\A c \in DOMAIN daily : daily[c] \in Int)
        /\ Added(total, "totalReserveDeposits") = amount /\ Added(daily, "reserveDeposits") = amount
    BY DEF Added
  <2>2. ReserveMoved("deposit", amount, total, daily)
    BY <1>3, ReserveMoves
  <2>3. row \in ReserveRows /\ row.kind = "deposit" /\ row.amount = amount
    BY DEF ReserveRow, ReserveRows
  <2>4. reserve' = Append(reserve, row)
    BY <2>2 DEF ReserveMoved
  <2> HIDE DEF total, daily, row
  <2>5. /\ Grown(globalStats, globalStats', GlobalFields, total) \/ globalStats' = globalStats
        /\ Same(globalStats, globalStats', GlobalFields, {"totalReserveDeposits"})
        /\ Grown(dailyStats, dailyStats', DayFields, daily)
    BY <2>1, <2>2, ReserveTotals
  <2>6. Same(dailyStats, dailyStats', DayFields, {"reserveDeposits"})
    BY <2>1, <2>5, GrownKeeps DEF TInv, Tables
  <2>7. /\ ReserveOn(reserve, "deposit") \in Int /\ ReserveOn(reserve, "withdrawal") \in Int
        /\ ReserveOn(reserve', "deposit") = ReserveOn(reserve, "deposit") + amount
        /\ ReserveOn(reserve', "withdrawal") = ReserveOn(reserve, "withdrawal") + 0
    BY <1>1, <2>3, <2>4, ReserveAppended
  <2>8. /\ Total(dailyStats', "reserveDeposits") = Total(dailyStats, "reserveDeposits") + amount
        /\ Total(dailyStats', "reserveWithdrawals") = Total(dailyStats, "reserveWithdrawals")
    BY <2>1, <2>5, <2>6 DEF Grown, Same, DayFields
  <2>9. /\ Total(globalStats', "totalReserveDeposits") <= Total(globalStats, "totalReserveDeposits") + amount
        /\ Total(globalStats', "totalReserveDeposits") \in Int
        /\ Total(globalStats', "totalReserveWithdrawals") = Total(globalStats, "totalReserveWithdrawals")
    BY <1>2, <2>1, <2>5 DEF Grown, Same, GlobalFields
  <2> QED BY <1>2, <2>7, <2>8, <2>9, ReserveForm, ReserveFormNext
<1>4. CASE Withdrawn(amount)
  <2> DEFINE total == [totalReserveWithdrawals |-> amount]
             daily == [reserveWithdrawals |-> amount]
             row == ReserveRow("withdrawal", amount)
  <2>1. /\ DOMAIN total = {"totalReserveWithdrawals"} /\ (\A c \in DOMAIN total : total[c] \in Int)
        /\ DOMAIN daily = {"reserveWithdrawals"} /\ (\A c \in DOMAIN daily : daily[c] \in Int)
        /\ Added(total, "totalReserveWithdrawals") = amount
        /\ Added(daily, "reserveWithdrawals") = amount
    BY DEF Added
  <2>2. ReserveMoved("withdrawal", amount, total, daily)
    BY <1>4, ReserveMoves
  <2>3. row \in ReserveRows /\ row.kind = "withdrawal" /\ row.amount = amount
    BY DEF ReserveRow, ReserveRows
  <2>4. reserve' = Append(reserve, row)
    BY <2>2 DEF ReserveMoved
  <2> HIDE DEF total, daily, row
  <2>5. /\ Grown(globalStats, globalStats', GlobalFields, total) \/ globalStats' = globalStats
        /\ Same(globalStats, globalStats', GlobalFields, {"totalReserveWithdrawals"})
        /\ Grown(dailyStats, dailyStats', DayFields, daily)
    BY <2>1, <2>2, ReserveTotals
  <2>6. Same(dailyStats, dailyStats', DayFields, {"reserveWithdrawals"})
    BY <2>1, <2>5, GrownKeeps DEF TInv, Tables
  <2>7. /\ ReserveOn(reserve, "deposit") \in Int /\ ReserveOn(reserve, "withdrawal") \in Int
        /\ ReserveOn(reserve', "deposit") = ReserveOn(reserve, "deposit") + 0
        /\ ReserveOn(reserve', "withdrawal") = ReserveOn(reserve, "withdrawal") + amount
    BY <1>1, <2>3, <2>4, ReserveAppended
  <2>8. /\ Total(dailyStats', "reserveDeposits") = Total(dailyStats, "reserveDeposits")
        /\ Total(dailyStats', "reserveWithdrawals") = Total(dailyStats, "reserveWithdrawals") + amount
    BY <2>1, <2>5, <2>6 DEF Grown, Same, DayFields
  <2>9. /\ Total(globalStats', "totalReserveDeposits") = Total(globalStats, "totalReserveDeposits")
        /\ Total(globalStats', "totalReserveWithdrawals") <=
             Total(globalStats, "totalReserveWithdrawals") + amount
        /\ Total(globalStats', "totalReserveWithdrawals") \in Int
    BY <1>2, <2>1, <2>5 DEF Grown, Same, GlobalFields
  <2> QED BY <1>2, <2>7, <2>8, <2>9, ReserveForm, ReserveFormNext
<1> QED BY <1>3, <1>4

\* The three agreements between columns, together with what the tables hold.
SInv == TInv /\ MintsAgree /\ PayoutsAgree /\ ReserveDaysAgree

LEMMA InitAgrees == Init => SInv
<1> SUFFICES ASSUME Init PROVE SInv
  OBVIOUS
<1>1. TInv
  BY InitTyped
<1>2. DOMAIN holders = {} /\ DOMAIN pools = {} /\ DOMAIN globalStats = {} /\ DOMAIN dailyStats = {}
      /\ DOMAIN claims = {} /\ DOMAIN reserve = {} /\ Len(claims) = 0
  BY DEF Init
<1>3. /\ \A c \in HolderFields : Total(holders, c) = 0 /\ Total(pools, c) = 0
      /\ \A c \in GlobalFields : Total(globalStats, c) = 0
      /\ \A c \in DayFields : Total(dailyStats, c) = 0
  BY <1>1, <1>2, TotalType DEF TInv, Tables
<1>4. Cardinality({}) = 0
  BY FS_EmptySet
<1>5. MintsAgree
  BY <1>2, <1>3, <1>4 DEF MintsAgree, HolderFields, GlobalFields, DayFields
<1>6. PaidOn(claims) = 0 /\ ExecutedOn(claims) = 0
  <2>1. {i \in DOMAIN claims : claims[i].status = "EXECUTED"} = {}
    BY <1>2
  <2>2. DOMAIN [i \in DOMAIN claims |-> claims[i].payout] = {}
    BY <1>2
  <2> QED BY <1>4, <2>1, <2>2, SumEmpty DEF PaidOn, ExecutedOn
<1>7. PayoutsAgree
  BY <1>2, <1>3, <1>6, PayoutsForm DEF HolderFields, GlobalFields, DayFields
<1>8. ReserveOn(reserve, "deposit") = 0 /\ ReserveOn(reserve, "withdrawal") = 0
  <2>1. ASSUME NEW kind PROVE ReserveOn(reserve, kind) = 0
    <3>1. DOMAIN [i \in DOMAIN reserve |-> IF reserve[i].kind = kind THEN reserve[i].amount ELSE 0] = {}
      BY <1>2
    <3> QED BY <3>1, SumEmpty DEF ReserveOn
  <2> QED BY <2>1
<1>9. ReserveDaysAgree
  BY <1>3, <1>8, ReserveForm DEF GlobalFields, DayFields
<1> QED BY <1>1, <1>5, <1>7, <1>9 DEF SInv

\* A step that leaves all but a few columns of counts alone.
LEMMA CountsKept ==
  ASSUME SInv, claims' = claims, reserve' = reserve, NEW E \in SUBSET {"policiesActivated", "policiesExpired"},
         Same(globalStats, globalStats', GlobalFields, {"activePolicies"}),
         Same(holders, holders', HolderFields, {"activePolicies"}),
         Same(pools, pools', HolderFields, {"activePolicies"}),
         Same(dailyStats, dailyStats', DayFields, E),
         DOMAIN holders' = DOMAIN holders, DOMAIN pools' = DOMAIN pools
  PROVE  MintsAgree' /\ PayoutsAgree' /\ ReserveDaysAgree'
<1> DEFINE C == {"activePolicies"}
<1>1. /\ C \cap {"totalPolicies", "uniquePolicyHolders", "uniqueRiskPools"} = {}
      /\ C \cap {"totalClaims", "executedClaims", "totalPayouts"} = {}
      /\ C \cap {"totalReserveDeposits", "totalReserveWithdrawals"} = {}
      /\ "totalPolicies" \notin C /\ "totalPayouts" \notin C
      /\ "policiesMinted" \notin E /\ E \cap {"claimsExecuted", "payoutsDistributed"} = {}
      /\ E \cap {"reserveDeposits", "reserveWithdrawals"} = {}
  OBVIOUS
<1>2. /\ Same(globalStats, globalStats', GlobalFields, C)
      /\ Same(holders, holders', HolderFields, C) /\ Same(pools, pools', HolderFields, C)
  OBVIOUS
<1> HIDE DEF C
<1>3. MintsAgree'
  BY <1>1, <1>2, MintsKept DEF SInv
<1>4. PayoutsAgree'
  BY <1>1, <1>2, PayoutsKept DEF SInv
<1>5. ReserveDaysAgree'
  BY <1>1, <1>2, ReserveKept DEF SInv
<1> QED BY <1>3, <1>4, <1>5

LEMMA MintedAgrees ==
  ASSUME SInv, NEW chain \in Chains, NEW id \in PolicyIds, NEW owner \in Owners, NEW risk \in RiskIds,
         PolicyMinted(chain, id, owner, risk)
  PROVE  MintsAgree' /\ PayoutsAgree' /\ ReserveDaysAgree'
<1> DEFINE one == [totalPolicies |-> 1]
           daily == [policiesMinted |-> 1]
           C == {"totalPolicies", "uniquePolicyHolders", "uniqueRiskPools"}
           D == {"totalPolicies"}
           E == {"policiesMinted"}
<1>1. TInv /\ MintsAgree /\ PayoutsAgree /\ ReserveDaysAgree
  BY DEF SInv
<1>2. claims' = claims /\ reserve' = reserve
  BY DEF PolicyMinted, reserveTables
<1>3. /\ Grown(holders, holders', HolderFields, one) /\ Grown(pools, pools', HolderFields, one)
      /\ Grown(globalStats, globalStats', GlobalFields, MintTotals(owner, risk))
      /\ Grown(dailyStats, dailyStats', DayFields, daily)
  BY <1>1, MintedTotals
<1>4. DOMAIN one = D /\ DOMAIN daily = E /\ DOMAIN MintTotals(owner, risk) = C
  BY MintChanges
<1> HIDE DEF one, daily
<1>5. /\ Same(holders, holders', HolderFields, D) /\ Same(pools, pools', HolderFields, D)
      /\ Same(globalStats, globalStats', GlobalFields, C) /\ Same(dailyStats, dailyStats', DayFields, E)
  <2> HIDE DEF C, D, E
  <2> QED BY <1>1, <1>3, <1>4, GrownKeeps DEF TInv, Tables
<1>6. /\ C \cap {"totalClaims", "executedClaims", "totalPayouts"} = {}
      /\ C \cap {"totalReserveDeposits", "totalReserveWithdrawals"} = {}
      /\ "totalPayouts" \notin D
      /\ E \cap {"claimsExecuted", "payoutsDistributed"} = {}
      /\ E \cap {"reserveDeposits", "reserveWithdrawals"} = {}
  OBVIOUS
<1> HIDE DEF C, D, E
<1>7. MintsAgree'
  BY <1>1, MintCounts
<1>8. PayoutsAgree'
  BY <1>1, <1>2, <1>5, <1>6, PayoutsKept
<1>9. ReserveDaysAgree'
  BY <1>1, <1>2, <1>5, <1>6, ReserveKept
<1> QED BY <1>7, <1>8, <1>9

LEMMA ClaimedAgrees ==
  ASSUME SInv, NEW chain \in Chains, NEW id \in PolicyIds, NEW payout \in Amounts,
         ClaimExecuted(chain, id, payout)
  PROVE  MintsAgree' /\ PayoutsAgree' /\ ReserveDaysAgree'
<1> DEFINE daily == [claimsExecuted |-> 1, payoutsDistributed |-> payout]
           C == {"totalClaims", "executedClaims", "totalPayouts", "activePolicies"}
           D == {"activePolicies", "totalPayouts"}
           E == {"claimsExecuted", "payoutsDistributed"}
<1>1. TInv /\ MintsAgree /\ PayoutsAgree /\ ReserveDaysAgree /\ payout \in Nat
  BY PolicyIndexConstants DEF SInv
<1>2. /\ reserve' = reserve /\ Emit(chain, id, {"active", "expired"}, "claimed")
      /\ \/ CountActive(id, Paid(payout), PaidOverall(id, payout))
         \/ UNCHANGED <<holders, pools>>
  BY DEF ClaimExecuted, reserveTables
<1>3. /\ Grown(globalStats, globalStats', GlobalFields, PaidOverall(id, payout))
      /\ Grown(dailyStats, dailyStats', DayFields, daily)
      /\ Same(holders, holders', HolderFields, D) /\ Same(pools, pools', HolderFields, D)
  BY <1>1, ClaimedTotals
<1>4. DOMAIN daily = E /\ DOMAIN PaidOverall(id, payout) = C
  BY <1>1, PaidChanges
<1> HIDE DEF daily
<1>5. Same(globalStats, globalStats', GlobalFields, C) /\ Same(dailyStats, dailyStats', DayFields, E)
  <2> HIDE DEF C, E
  <2> QED BY <1>1, <1>3, <1>4, GrownKeeps DEF TInv, Tables
<1>6. /\ C \cap {"totalPolicies", "uniquePolicyHolders", "uniqueRiskPools"} = {}
      /\ C \cap {"totalReserveDeposits", "totalReserveWithdrawals"} = {}
      /\ "totalPolicies" \notin D
      /\ "policiesMinted" \notin E /\ E \cap {"reserveDeposits", "reserveWithdrawals"} = {}
  OBVIOUS
<1> HIDE DEF C, D, E
<1>7. DOMAIN holders' = DOMAIN holders /\ DOMAIN pools' = DOMAIN pools
  <2>1. id \in DOMAIN policies
    BY <1>1, <1>2, RowsThere DEF Emit
  <2>2. /\ \A c \in DOMAIN Paid(payout) : Paid(payout)[c] \in Int
        /\ \A c \in DOMAIN PaidOverall(id, payout) : PaidOverall(id, payout)[c] \in Int
    BY <1>1, PaidChanges
  <2> QED BY <1>1, <1>2, <2>1, <2>2, CountedRows
<1>8. MintsAgree'
  BY <1>1, <1>3, <1>5, <1>6, <1>7, MintsKept
<1>9. PayoutsAgree'
  BY <1>1, ClaimCounts
<1>10. ReserveDaysAgree'
  BY <1>1, <1>2, <1>5, <1>6, ReserveKept
<1> QED BY <1>8, <1>9, <1>10

LEMMA FailedAgrees ==
  ASSUME SInv, NEW chain \in Chains, NEW id \in PolicyIds, ClaimFailed(chain, id)
  PROVE  MintsAgree' /\ PayoutsAgree' /\ ReserveDaysAgree'
<1> DEFINE C == {"totalClaims"}
           none == {}
<1>1. TInv /\ MintsAgree /\ PayoutsAgree /\ ReserveDaysAgree
  BY DEF SInv
<1>2. UNCHANGED <<holders, pools, dailyStats, reserve>>
  BY DEF ClaimFailed, policyTables, reserveTables
<1>3. PayoutsAgree' /\ Same(globalStats, globalStats', GlobalFields, C)
  BY <1>1, FailCounts
<1>4. /\ Same(holders, holders', HolderFields, none) /\ Same(pools, pools', HolderFields, none)
      /\ Same(dailyStats, dailyStats', DayFields, none)
  BY <1>2 DEF Same
<1>5. /\ C \cap {"totalPolicies", "uniquePolicyHolders", "uniqueRiskPools"} = {}
      /\ C \cap {"totalReserveDeposits", "totalReserveWithdrawals"} = {}
      /\ "totalPolicies" \notin none /\ "policiesMinted" \notin none
      /\ none \cap {"reserveDeposits", "reserveWithdrawals"} = {}
  OBVIOUS
<1> HIDE DEF C, none
<1>6. MintsAgree'
  BY <1>1, <1>2, <1>3, <1>4, <1>5, MintsKept
<1>7. ReserveDaysAgree'
  BY <1>1, <1>2, <1>3, <1>4, <1>5, ReserveKept
<1> QED BY <1>3, <1>6, <1>7

LEMMA ReserveMovedAgrees ==
  ASSUME SInv, NEW kind, NEW amount,
         NEW total, \A c \in DOMAIN total : total[c] \in Int,
         DOMAIN total \subseteq {"totalReserveDeposits", "totalReserveWithdrawals"},
         NEW daily, \A c \in DOMAIN daily : daily[c] \in Int,
         DOMAIN daily \subseteq {"reserveDeposits", "reserveWithdrawals"},
         ReserveMoved(kind, amount, total, daily)
  PROVE  MintsAgree' /\ PayoutsAgree'
<1> DEFINE C == DOMAIN total
           E == DOMAIN daily
           none == {}
<1>1. TInv /\ MintsAgree /\ PayoutsAgree
  BY DEF SInv
<1>2. UNCHANGED <<holders, pools, claims>>
  BY DEF ReserveMoved, policyTables
<1>3. Same(globalStats, globalStats', GlobalFields, C) /\ Grown(dailyStats, dailyStats', DayFields, daily)
  BY <1>1, ReserveTotals
<1>4. Same(dailyStats, dailyStats', DayFields, E)
  BY <1>1, <1>3, GrownKeeps DEF TInv, Tables
<1>5. Same(holders, holders', HolderFields, none) /\ Same(pools, pools', HolderFields, none)
  BY <1>2 DEF Same
<1>6. /\ C \cap {"totalPolicies", "uniquePolicyHolders", "uniqueRiskPools"} = {}
      /\ C \cap {"totalClaims", "executedClaims", "totalPayouts"} = {}
      /\ "totalPolicies" \notin none /\ "totalPayouts" \notin none /\ "policiesMinted" \notin E
      /\ E \cap {"claimsExecuted", "payoutsDistributed"} = {}
  OBVIOUS
<1> HIDE DEF C, E, none
<1>7. MintsAgree'
  BY <1>1, <1>2, <1>3, <1>4, <1>5, <1>6, MintsKept
<1>8. PayoutsAgree'
  BY <1>1, <1>2, <1>3, <1>4, <1>5, <1>6, PayoutsKept
<1> QED BY <1>7, <1>8

LEMMA TablesUnchangedAgree ==
  ASSUME SInv, UNCHANGED <<policyTables, statTables, claims, reserve>>
  PROVE  MintsAgree' /\ PayoutsAgree' /\ ReserveDaysAgree'
<1>1. UNCHANGED <<holders, pools, globalStats, dailyStats, claims, reserve>>
  BY DEF policyTables, statTables
<1>2. MintsAgree'
  BY <1>1 DEF SInv, MintsAgree
<1>3. PayoutsAgree'
  BY <1>1, PayoutsForm, PayoutsFormNext DEF SInv
<1>4. ReserveDaysAgree'
  BY <1>1, ReserveForm, ReserveFormNext DEF SInv
<1> QED BY <1>2, <1>3, <1>4

LEMMA NextAgrees == SInv /\ [Next]_vars => SInv'
<1> SUFFICES ASSUME SInv, [Next]_vars PROVE SInv'
  OBVIOUS
<1>1. TInv'
  BY NextTyped DEF SInv
<1> DEFINE Goal == MintsAgree' /\ PayoutsAgree' /\ ReserveDaysAgree'
<1>2. ASSUME NEW chain \in Chains, NEW id \in PolicyIds, NEW owner \in Owners, NEW risk \in RiskIds,
             PolicyMinted(chain, id, owner, risk)
      PROVE  Goal
  BY <1>2, MintedAgrees
<1>3. ASSUME NEW chain \in Chains, NEW id \in PolicyIds, PolicyActivated(chain, id)
      PROVE  Goal
  <2> DEFINE E == {"policiesActivated"}
  <2>1. Emit(chain, id, {"minted"}, "active")
        /\ CountActive(id, [activePolicies |-> 1], [activePolicies |-> 1])
        /\ claims' = claims /\ reserve' = reserve
    BY <1>3 DEF PolicyActivated, reserveTables
  <2>2. DOMAIN holders' = DOMAIN holders /\ DOMAIN pools' = DOMAIN pools
    <3>1. id \in DOMAIN policies
      BY <2>1, RowsThere DEF Emit, SInv
    <3> DEFINE change == [activePolicies |-> 1]
    <3>2. CountActive(id, change, change) /\ \A c \in DOMAIN change : change[c] \in Int
      BY <2>1
    <3> HIDE DEF change
    <3> QED BY <3>1, <3>2, CountedRows DEF SInv
  <2>3. /\ Same(holders, holders', HolderFields, {"activePolicies"})
        /\ Same(pools, pools', HolderFields, {"activePolicies"})
        /\ Same(globalStats, globalStats', GlobalFields, {"activePolicies"})
        /\ Same(dailyStats, dailyStats', DayFields, E)
    BY <1>3, ActivatedTotals DEF SInv
  <2>4. E \in SUBSET {"policiesActivated", "policiesExpired"}
    OBVIOUS
  <2> HIDE DEF E
  <2> QED BY <2>1, <2>2, <2>3, <2>4, CountsKept
<1>4. ASSUME NEW chain \in Chains, NEW id \in PolicyIds, PolicyExpired(chain, id)
      PROVE  Goal
  <2> DEFINE E == {"policiesExpired"}
  <2>1. Emit(chain, id, {"minted", "active"}, "expired")
        /\ \/ CountActive(id, [activePolicies |-> -1], [activePolicies |-> -1])
           \/ UNCHANGED <<holders, pools>>
        /\ claims' = claims /\ reserve' = reserve
    BY <1>4 DEF PolicyExpired, reserveTables
  <2>2. DOMAIN holders' = DOMAIN holders /\ DOMAIN pools' = DOMAIN pools
    <3>1. id \in DOMAIN policies
      BY <2>1, RowsThere DEF Emit, SInv
    <3> DEFINE change == [activePolicies |-> -1]
    <3>2. /\ CountActive(id, change, change) \/ UNCHANGED <<holders, pools>>
          /\ \A c \in DOMAIN change : change[c] \in Int
      BY <2>1
    <3> HIDE DEF change
    <3> QED BY <3>1, <3>2, CountedRows DEF SInv
  <2>3. /\ Same(holders, holders', HolderFields, {"activePolicies"})
        /\ Same(pools, pools', HolderFields, {"activePolicies"})
        /\ Same(globalStats, globalStats', GlobalFields, {"activePolicies"})
        /\ Same(dailyStats, dailyStats', DayFields, E)
    BY <1>4, ExpiredTotals DEF SInv
  <2>4. E \in SUBSET {"policiesActivated", "policiesExpired"}
    OBVIOUS
  <2> HIDE DEF E
  <2> QED BY <2>1, <2>2, <2>3, <2>4, CountsKept
<1>5. ASSUME NEW chain \in Chains, NEW id \in PolicyIds, NEW payout \in Amounts,
             ClaimExecuted(chain, id, payout)
      PROVE  Goal
  BY <1>5, ClaimedAgrees
<1>6. ASSUME NEW chain \in Chains, NEW id \in PolicyIds, ClaimFailed(chain, id)
      PROVE  Goal
  BY <1>6, FailedAgrees
<1>7. ASSUME NEW amount \in Amounts, Deposited(amount) \/ Withdrawn(amount)
      PROVE  Goal
  <2>1. amount \in Nat
    BY PolicyIndexConstants
  <2>2. ReserveDaysAgree'
    BY <1>7, <2>1, ReserveCounts DEF SInv
  <2>3. CASE Deposited(amount)
    <3> DEFINE total == [totalReserveDeposits |-> amount]
               daily == [reserveDeposits |-> amount]
    <3>1. /\ \A c \in DOMAIN total : total[c] \in Int
          /\ \A c \in DOMAIN daily : daily[c] \in Int
          /\ DOMAIN total \subseteq {"totalReserveDeposits", "totalReserveWithdrawals"}
          /\ DOMAIN daily \subseteq {"reserveDeposits", "reserveWithdrawals"}
      BY <2>1
    <3>2. ReserveMoved("deposit", amount, total, daily)
      BY <2>1, <2>3, ReserveMoves
    <3> HIDE DEF total, daily
    <3> QED BY <2>2, <3>1, <3>2, ReserveMovedAgrees
  <2>4. CASE Withdrawn(amount)
    <3> DEFINE total == [totalReserveWithdrawals |-> amount]
               daily == [reserveWithdrawals |-> amount]
    <3>1. /\ \A c \in DOMAIN total : total[c] \in Int
          /\ \A c \in DOMAIN daily : daily[c] \in Int
          /\ DOMAIN total \subseteq {"totalReserveDeposits", "totalReserveWithdrawals"}
          /\ DOMAIN daily \subseteq {"reserveDeposits", "reserveWithdrawals"}
      BY <2>1
    <3>2. ReserveMoved("withdrawal", amount, total, daily)
      BY <2>1, <2>4, ReserveMoves
    <3> HIDE DEF total, daily
    <3> QED BY <2>2, <3>1, <3>2, ReserveMovedAgrees
  <2> QED BY <1>7, <2>3, <2>4
<1>8. ASSUME NEW user \in Owners, NEW shares \in Amounts, RedemptionQueued(user, shares)
      PROVE  Goal
  BY <1>8, TablesUnchangedAgree DEF RedemptionQueued
<1>9. ASSUME NextDay PROVE Goal
  BY <1>9, TablesUnchangedAgree DEF NextDay, reserveTables
<1>10. ASSUME UNCHANGED vars PROVE Goal
  BY <1>10, TablesUnchangedAgree DEF vars, reserveTables
<1>11. Goal
  <2> HIDE DEF Goal
  <2> QED BY <1>2, <1>3, <1>4, <1>5, <1>6, <1>7, <1>8, <1>9, <1>10 DEF Next, Goal
<1> QED BY <1>1, <1>11 DEF SInv

LEMMA AgreementsHold == Spec => []SInv
<1>1. Init => SInv
  BY InitAgrees
<1>2. SInv /\ [Next]_vars => SInv'
  BY NextAgrees
<1> QED BY <1>1, <1>2, PTL DEF Spec

\* Whatever events arrive, from however many chains, GlobalStats, the holders, the
\* pools and the days count the same mints, and every owner and pool once.
THEOREM MintsCounted == Spec => []MintsAgree
<1>1. SInv => MintsAgree
  BY DEF SInv
<1> QED BY <1>1, AgreementsHold, PTL

\* Every payout on file is in GlobalStats and in a day's row, also one that is paid
\* after its policy has expired; holders and pools never show more.
THEOREM PayoutsCounted == Spec => []PayoutsAgree
<1>1. SInv => PayoutsAgree
  BY DEF SInv
<1> QED BY <1>1, AgreementsHold, PTL

\* The days' reserve movements are those on file, and GlobalStats, which misses
\* what came before the first policy, never shows more.
THEOREM ReserveCounted == Spec => []ReserveDaysAgree
<1>1. SInv => ReserveDaysAgree
  BY DEF SInv
<1> QED BY <1>1, AgreementsHold, PTL

-----------------------------------------------------------------------------
(* The counts of active policies.                                          *)

Unshared == \A id \in PolicyIds : ~SharedId(id)

ActiveBy(owner) == {id \in DOMAIN policies : policies[id].status = "ACTIVE" /\ policies[id].owner = owner}
ActiveIn(risk) == {id \in DOMAIN policies : policies[id].status = "ACTIVE" /\ policies[id].risk = risk}
ActiveAll == {id \in DOMAIN policies : policies[id].status = "ACTIVE"}

\* Every row counts the active policies that are its own.
Counts ==
  /\ \A o \in DOMAIN holders : holders[o]["activePolicies"] = Cardinality(ActiveBy(o))
  /\ \A r \in DOMAIN pools : pools[r]["activePolicies"] = Cardinality(ActiveIn(r))
  /\ \A g \in DOMAIN globalStats : globalStats[g]["activePolicies"] = Cardinality(ActiveAll)

\* A policy's row says what its contracts have said last.
StatusOf(stage) ==
  CASE stage = "minted" -> "MINTED" [] stage = "active" -> "ACTIVE"
    [] stage = "expired" -> "EXPIRED" [] stage = "claimed" -> "CLAIMED"
Mirrored ==
  \A chain \in Chains, id \in PolicyIds :
    onchain[<<chain, id>>] # "none" => policies[id].status = StatusOf(onchain[<<chain, id>>])

\* Every row of a policy comes from an event.
Emitted == \A id \in DOMAIN policies : \E chain \in Chains : onchain[<<chain, id>>] # "none"

AInv == TInv /\ Emitted /\ (Unshared => Counts /\ Mirrored)

\* Of an id that is not shared there is one policy.
LEMMA OneChain ==
  ASSUME NEW S \in SUBSET Chains, ~(Cardinality(S) > 1), NEW a \in S, NEW b \in S
  PROVE  a = b
<1> SUFFICES ASSUME a # b PROVE FALSE
  OBVIOUS
<1>1. IsFiniteSet(S)
  BY PolicyIndexConstants, FS_Subset
<1>2. IsFiniteSet({a}) /\ Cardinality({a}) = 1
  BY FS_Singleton
<1>3. IsFiniteSet({a} \cup {b}) /\ Cardinality({a} \cup {b}) = 2
  BY <1>2, OneMore
<1>4. {a} \cup {b} \in SUBSET S
  OBVIOUS
<1>5. Cardinality({a} \cup {b}) <= Cardinality(S) /\ Cardinality(S) \in Nat
  BY <1>1, <1>4, FS_Subset, FS_CardinalityType
<1> QED BY <1>3, <1>5

\* The active policies are finitely many.
LEMMA ActiveFinite ==
  ASSUME TInv
  PROVE  /\ \A o : IsFiniteSet(ActiveBy(o)) /\ Cardinality(ActiveBy(o)) \in Nat
         /\ \A r : IsFiniteSet(ActiveIn(r)) /\ Cardinality(ActiveIn(r)) \in Nat
         /\ IsFiniteSet(ActiveAll) /\ Cardinality(ActiveAll) \in Nat
<1>1. IsFiniteSet(DOMAIN policies)
  BY DEF TInv, Linked
<1>2. /\ \A o : ActiveBy(o) \in SUBSET DOMAIN policies
      /\ \A r : ActiveIn(r) \in SUBSET DOMAIN policies
      /\ ActiveAll \in SUBSET DOMAIN policies
  BY DEF ActiveBy, ActiveIn, ActiveAll
<1>3. \A S \in SUBSET DOMAIN policies : IsFiniteSet(S) /\ Cardinality(S) \in Nat
  BY <1>1, FS_Subset, FS_CardinalityType
<1> QED BY <1>2, <1>3

\* GlobalStats has one row.
LEMMA GlobalTotal ==
  ASSUME NEW table, TableOf(table, GlobalFields), DOMAIN table = {"global"}, NEW c \in GlobalFields
  PROVE  Total(table, c) = table["global"][c]
<1> DEFINE none == [x \in {} |-> 0]
<1>1. TableOf(none, GlobalFields) /\ DOMAIN none = {}
  BY FS_EmptySet DEF TableOf
<1> HIDE DEF none
<1>2. OneRow(table, none, GlobalFields, "global", table["global"])
  BY <1>1 DEF OneRow
<1>3. Total(table, c) = Total(none, c) + (table["global"][c] - 0)
  BY <1>1, <1>2, TotalOfChange
<1>4. Total(none, c) = 0
  BY <1>1, TotalType
<1>5. table["global"][c] \in Int
  BY DEF TableOf
<1> QED BY <1>3, <1>4, <1>5

LEMMA CountsForm ==
  ASSUME TInv
  PROVE  ActiveCountsAgree <=> (Unshared => Counts)
<1>1. CASE DOMAIN policies = {}
  <2>1. DOMAIN holders = {} /\ DOMAIN pools = {} /\ DOMAIN globalStats = {}
    BY <1>1 DEF TInv, Linked
  <2>2. Total(globalStats, "activePolicies") = 0
    BY <2>1, TotalType DEF TInv, Tables, GlobalFields
  <2>3. ActiveAll = {} /\ Cardinality({}) = 0
    BY <1>1, FS_EmptySet DEF ActiveAll
  <2>4. Total(globalStats, "activePolicies") = Cardinality(ActiveAll)
    BY <2>2, <2>3
  <2> QED BY <2>1, <2>4 DEF ActiveCountsAgree, Counts, Unshared, ActiveAll
<1>2. CASE DOMAIN policies # {}
  <2>1. DOMAIN globalStats = {"global"}
    BY <1>2 DEF TInv, Linked
  <2>2. Total(globalStats, "activePolicies") = globalStats["global"]["activePolicies"]
    BY <2>1, GlobalTotal DEF TInv, Tables, GlobalFields
  <2> QED BY <2>1, <2>2 DEF ActiveCountsAgree, Counts, Unshared, ActiveAll, ActiveBy, ActiveIn
<1> QED BY <1>1, <1>2

\* A new status moves its policy into the active ones or out of them.
LEMMA StatusTurns ==
  ASSUME NEW id \in DOMAIN policies, policies[id] \in PolicyRow, NEW status, SetStatus(id, status)
  PROVE  /\ \A o : ActiveBy(o)' = IF status = "ACTIVE" /\ policies[id].owner = o
                                  THEN ActiveBy(o) \cup {id} ELSE ActiveBy(o) \ {id}
         /\ \A r : ActiveIn(r)' = IF status = "ACTIVE" /\ policies[id].risk = r
                                  THEN ActiveIn(r) \cup {id} ELSE ActiveIn(r) \ {id}
         /\ ActiveAll' = IF status = "ACTIVE" THEN ActiveAll \cup {id} ELSE ActiveAll \ {id}
<1>1. /\ DOMAIN policies' = DOMAIN policies
      /\ \A k \in DOMAIN policies : k # id => policies'[k] = policies[k]
      /\ policies'[id].status = status /\ policies'[id].owner = policies[id].owner
      /\ policies'[id].risk = policies[id].risk
  BY DEF SetStatus, Put, PolicyRow
<1>2. ASSUME NEW o
      PROVE  ActiveBy(o)' = IF status = "ACTIVE" /\ policies[id].owner = o
                            THEN ActiveBy(o) \cup {id} ELSE ActiveBy(o) \ {id}
  BY <1>1 DEF ActiveBy
<1>3. ASSUME NEW r
      PROVE  ActiveIn(r)' = IF status = "ACTIVE" /\ policies[id].risk = r
                            THEN ActiveIn(r) \cup {id} ELSE ActiveIn(r) \ {id}
  BY <1>1 DEF ActiveIn
<1>4. ActiveAll' = IF status = "ACTIVE" THEN ActiveAll \cup {id} ELSE ActiveAll \ {id}
  BY <1>1 DEF ActiveAll
<1> QED BY <1>2, <1>3, <1>4

\* A counter that counts S counts S with one more, and with one less, element.
LEMMA CountUp ==
  ASSUME NEW F, "activePolicies" \in F, NEW row \in [F -> Nat],
         NEW S, IsFiniteSet(S), row["activePolicies"] = Cardinality(S), NEW id, id \notin S,
         NEW changes, \A c \in DOMAIN changes : changes[c] \in Int, Added(changes, "activePolicies") = 1
  PROVE  Changed(row, changes)["activePolicies"] = Cardinality(S \cup {id})
<1>1. Cardinality(S \cup {id}) = Cardinality(S) + 1 /\ Cardinality(S) \in Nat
  BY OneMore
<1>2. Changed(row, changes)["activePolicies"] = row["activePolicies"] + 1
  BY <1>1, ChangedRow DEF Added
<1> QED BY <1>1, <1>2

LEMMA CountDown ==
  ASSUME NEW F, "activePolicies" \in F, NEW row \in [F -> Nat],
         NEW S, IsFiniteSet(S), row["activePolicies"] = Cardinality(S), NEW id \in S,
         NEW changes, \A c \in DOMAIN changes : changes[c] \in Int, Added(changes, "activePolicies") = -1
  PROVE  Changed(row, changes)["activePolicies"] = Cardinality(S \ {id})
<1>1. /\ Cardinality(S) \in Nat /\ Cardinality(S \ {id}) \in Nat
      /\ Cardinality(S \ {id}) = Cardinality(S) - 1
  BY Smaller
<1>2. "activePolicies" \in DOMAIN changes /\ changes["activePolicies"] = -1
  BY DEF Added
<1>3. Changed(row, changes)["activePolicies"] = row["activePolicies"] - 1
  BY <1>1, <1>2, ChangedRow
<1> QED BY <1>1, <1>3

LEMMA CountKept ==
  ASSUME NEW F, "activePolicies" \in F, NEW row \in [F -> Nat],
         NEW changes, \A c \in DOMAIN changes : changes[c] \in Int, Added(changes, "activePolicies") = 0
  PROVE  Changed(row, changes)["activePolicies"] = row["activePolicies"]
BY ChangedRow DEF Added

\* What the contracts have said is not taken back, and ids stay shared.
LEMMA StaysShared ==
  ASSUME Unshared',
         \A chain \in Chains, id \in PolicyIds :
           onchain[<<chain, id>>] # "none" => onchain'[<<chain, id>>] # "none"
  PROVE  Unshared
<1> SUFFICES ASSUME NEW id \in PolicyIds PROVE ~SharedId(id)
  BY DEF Unshared
<1> DEFINE before == {chain \in Chains : onchain[chain, id] # "none"}
           after == {chain \in Chains : onchain'[chain, id] # "none"}
<1>1. before \in SUBSET after /\ IsFiniteSet(after)
  BY PolicyIndexConstants, FS_Subset
<1>2. ~(Cardinality(after) > 1)
  BY DEF Unshared, SharedId
<1> HIDE DEF before, after
<1>3. Cardinality(before) <= Cardinality(after) /\ Cardinality(before) \in Nat /\ Cardinality(after) \in Nat
  BY <1>1, FS_Subset, FS_CardinalityType
<1>4. ~(Cardinality(before) > 1)
  BY <1>2, <1>3
<1> QED BY <1>4 DEF before, SharedId

LEMMA EmitStays ==
  ASSUME TInv, NEW chain \in Chains, NEW id \in PolicyIds, NEW from, NEW to \in Stages \ {"none"},
         Emit(chain, id, from, to)
  PROVE  /\ onchain'[<<chain, id>>] = to
         /\ \A c \in Chains, k \in PolicyIds : <<c, k>> # <<chain, id>> =>
              onchain'[<<c, k>>] = onchain[<<c, k>>]
         /\ Unshared' => Unshared
<1>1. /\ onchain'[<<chain, id>>] = to
      /\ \A c \in Chains, k \in PolicyIds : <<c, k>> # <<chain, id>> =>
              onchain'[<<c, k>>] = onchain[<<c, k>>]
  BY DEF TInv, Known, Emit
<1>2. Unshared' => Unshared
  BY <1>1, StaysShared
<1> QED BY <1>1, <1>2

\* The row of a policy that is not shared follows its contracts.
LEMMA MirrorKept ==
  ASSUME TInv, Mirrored, Unshared',
         NEW chain \in Chains, NEW id \in PolicyIds, NEW from, NEW to \in Stages \ {"none"},
         Emit(chain, id, from, to), policies'[id].status = StatusOf(to),
         \A k \in DOMAIN policies : k # id => policies'[k] = policies[k]
  PROVE  Mirrored'
<1> SUFFICES ASSUME NEW c \in Chains, NEW k \in PolicyIds, onchain'[<<c, k>>] # "none"
             PROVE  policies'[k].status = StatusOf(onchain'[<<c, k>>])
  BY DEF Mirrored
<1>1. /\ onchain'[<<chain, id>>] = to
      /\ <<c, k>> # <<chain, id>> => onchain'[<<c, k>>] = onchain[<<c, k>>]
  BY EmitStays
<1>2. CASE k = id
  <2> DEFINE S == {d \in Chains : onchain'[d, id] # "none"}
  <2>1. S \in SUBSET Chains /\ ~(Cardinality(S) > 1) /\ c \in S /\ chain \in S
    BY <1>1, <1>2 DEF Unshared, SharedId
  <2> HIDE DEF S
  <2>2. c = chain
    BY <2>1, OneChain
  <2> QED BY <1>1, <1>2, <2>2
<1>3. CASE k # id
  <2>1. onchain'[<<c, k>>] = onchain[<<c, k>>]
    BY <1>1, <1>3
  <2>2. k \in DOMAIN policies
    BY <2>1 DEF TInv, Known
  <2> QED BY <1>3, <2>1, <2>2 DEF Mirrored
<1> QED BY <1>2, <1>3

LEMMA EmittedKept ==
  ASSUME TInv, Emitted, NEW chain \in Chains, NEW id \in PolicyIds, NEW from, NEW to \in Stages \ {"none"},
         Emit(chain, id, from, to), DOMAIN policies' \subseteq DOMAIN policies \cup {id}
  PROVE  Emitted'
<1> SUFFICES ASSUME NEW k \in DOMAIN policies' PROVE \E c \in Chains : onchain'[<<c, k>>] # "none"
  BY DEF Emitted
<1>1. /\ onchain'[<<chain, id>>] = to
      /\ \A c \in Chains, j \in PolicyIds : <<c, j>> # <<chain, id>> =>
           onchain'[<<c, j>>] = onchain[<<c, j>>]
  BY EmitStays
<1>2. CASE k = id
  BY <1>1, <1>2
<1>3. CASE k # id
  <2>1. k \in DOMAIN policies /\ k \in PolicyIds
    BY <1>3 DEF TInv, Linked
  <2>2. PICK c \in Chains : onchain[<<c, k>>] # "none"
    BY <2>1 DEF Emitted
  <2> QED BY <1>1, <1>3, <2>1, <2>2
<1> QED BY <1>2, <1>3

LEMMA ActiveField == "activePolicies" \in HolderFields /\ "activePolicies" \in GlobalFields
BY DEF HolderFields, GlobalFields

\* A policy that was not active becomes so.
LEMMA ActivatedCounts ==
  ASSUME TInv, Counts, NEW id \in DOMAIN policies, policies[id].status # "ACTIVE",
         SetStatus(id, "ACTIVE"), CountActive(id, [activePolicies |-> 1], [activePolicies |-> 1])
  PROVE  Counts'
<1> DEFINE change == [activePolicies |-> 1]
<1>1. /\ \A c \in DOMAIN change : change[c] \in Int
      /\ Added(change, "activePolicies") = 1
      /\ CountActive(id, change, change)
  BY DEF Added
<1> HIDE DEF change
<1>2. PICK owner, risk : owner = policies[id].owner /\ risk = policies[id].risk
  OBVIOUS
<1>3. owner \in DOMAIN holders /\ risk \in DOMAIN pools /\ policies[id] \in PolicyRow
  BY <1>2 DEF TInv, Linked
<1>4. /\ OneRow(holders', holders, HolderFields, owner, Changed(holders[owner], change))
      /\ OneRow(pools', pools, HolderFields, risk, Changed(pools[risk], change))
      /\ OneRow(globalStats', globalStats, GlobalFields, "global", Changed(globalStats["global"], change))
      /\ DOMAIN holders' = DOMAIN holders /\ DOMAIN pools' = DOMAIN pools
      /\ DOMAIN globalStats' = DOMAIN globalStats
  BY <1>1, <1>2, CountedRows
<1>5. DOMAIN globalStats = {"global"}
  BY DEF TInv, Linked
<1>6. /\ \A o : ActiveBy(o)' = IF owner = o THEN ActiveBy(o) \cup {id} ELSE ActiveBy(o) \ {id}
      /\ \A r : ActiveIn(r)' = IF risk = r THEN ActiveIn(r) \cup {id} ELSE ActiveIn(r) \ {id}
      /\ ActiveAll' = ActiveAll \cup {id}
  BY <1>2, <1>3, StatusTurns
<1>7. (\A o : id \notin ActiveBy(o)) /\ (\A r : id \notin ActiveIn(r)) /\ id \notin ActiveAll
  BY DEF ActiveBy, ActiveIn, ActiveAll
<1>8. /\ holders[owner] \in [HolderFields -> Nat] /\ pools[risk] \in [HolderFields -> Nat]
      /\ globalStats["global"] \in [GlobalFields -> Nat]
  BY <1>3, <1>5 DEF TInv, Tables, TableOf
<1>9. ASSUME NEW o \in DOMAIN holders
      PROVE  holders'[o]["activePolicies"] = Cardinality(ActiveBy(o)')
  <2>1. holders[o]["activePolicies"] = Cardinality(ActiveBy(o)) /\ IsFiniteSet(ActiveBy(o))
    BY ActiveFinite DEF Counts
  <2>2. CASE o = owner
    <3>1. holders'[o] = Changed(holders[owner], change) /\ ActiveBy(o)' = ActiveBy(o) \cup {id}
      BY <1>4, <1>6, <2>2 DEF OneRow
    <3>2. Changed(holders[owner], change)["activePolicies"] = Cardinality(ActiveBy(owner) \cup {id})
      BY <1>1, <1>7, <1>8, <2>1, <2>2, ActiveField, CountUp
    <3> QED BY <2>2, <3>1, <3>2
  <2>3. CASE o # owner
    <3>1. holders'[o] = holders[o] /\ ActiveBy(o)' = ActiveBy(o)
      BY <1>4, <1>6, <1>7, <2>3 DEF OneRow
    <3> QED BY <2>1, <3>1
  <2> QED BY <2>2, <2>3
<1>10. ASSUME NEW r \in DOMAIN pools
       PROVE  pools'[r]["activePolicies"] = Cardinality(ActiveIn(r)')
  <2>1. pools[r]["activePolicies"] = Cardinality(ActiveIn(r)) /\ IsFiniteSet(ActiveIn(r))
    BY ActiveFinite DEF Counts
  <2>2. CASE r = risk
    <3>1. pools'[r] = Changed(pools[risk], change) /\ ActiveIn(r)' = ActiveIn(r) \cup {id}
      BY <1>4, <1>6, <2>2 DEF OneRow
    <3>2. Changed(pools[risk], change)["activePolicies"] = Cardinality(ActiveIn(risk) \cup {id})
      BY <1>1, <1>7, <1>8, <2>1, <2>2, ActiveField, CountUp
    <3> QED BY <2>2, <3>1, <3>2
  <2>3. CASE r # risk
    <3>1. pools'[r] = pools[r] /\ ActiveIn(r)' = ActiveIn(r)
      BY <1>4, <1>6, <1>7, <2>3 DEF OneRow
    <3> QED BY <2>1, <3>1
  <2> QED BY <2>2, <2>3
<1>11. globalStats'["global"]["activePolicies"] = Cardinality(ActiveAll')
  <2>1. globalStats["global"]["activePolicies"] = Cardinality(ActiveAll) /\ IsFiniteSet(ActiveAll)
    BY <1>5, ActiveFinite DEF Counts
  <2>2. Changed(globalStats["global"], change)["activePolicies"] = Cardinality(ActiveAll \cup {id})
    BY <1>1, <1>7, <1>8, <2>1, ActiveField, CountUp
  <2> QED BY <1>4, <1>6, <2>2 DEF OneRow
<1> QED BY <1>4, <1>5, <1>9, <1>10, <1>11 DEF Counts

\* An active policy ends, and is taken off the counts that the changes take it off.
LEMMA EndedCounts ==
  ASSUME TInv, Counts, NEW id \in DOMAIN policies, policies[id].status = "ACTIVE",
         NEW status, status # "ACTIVE", SetStatus(id, status),
         NEW changes, \A c \in DOMAIN changes : changes[c] \in Int,
         NEW total, \A c \in DOMAIN total : total[c] \in Int,
         Added(changes, "activePolicies") = -1, Added(total, "activePolicies") = -1,
         CountActive(id, changes, total)
  PROVE  Counts'
<1>1. PICK owner, risk : owner = policies[id].owner /\ risk = policies[id].risk
  OBVIOUS
<1>2. owner \in DOMAIN holders /\ risk \in DOMAIN pools /\ policies[id] \in PolicyRow
  BY <1>1 DEF TInv, Linked
<1>3. /\ OneRow(holders', holders, HolderFields, owner, Changed(holders[owner], changes))
      /\ OneRow(pools', pools, HolderFields, risk, Changed(pools[risk], changes))
      /\ OneRow(globalStats', globalStats, GlobalFields, "global", Changed(globalStats["global"], total))
      /\ DOMAIN holders' = DOMAIN holders /\ DOMAIN pools' = DOMAIN pools
      /\ DOMAIN globalStats' = DOMAIN globalStats
  BY <1>1, CountedRows
<1>4. DOMAIN globalStats = {"global"}
  BY DEF TInv, Linked
<1>5. /\ \A o : ActiveBy(o)' = ActiveBy(o) \ {id}
      /\ \A r : ActiveIn(r)' = ActiveIn(r) \ {id}
      /\ ActiveAll' = ActiveAll \ {id}
  BY <1>2, StatusTurns
<1>6. /\ \A o : id \in ActiveBy(o) <=> o = owner
      /\ \A r : id \in ActiveIn(r) <=> r = risk
      /\ id \in ActiveAll
  BY <1>1 DEF ActiveBy, ActiveIn, ActiveAll
<1>7. /\ holders[owner] \in [HolderFields -> Nat] /\ pools[risk] \in [HolderFields -> Nat]
      /\ globalStats["global"] \in [GlobalFields -> Nat]
  BY <1>2, <1>4 DEF TInv, Tables, TableOf
<1>8. ASSUME NEW o \in DOMAIN holders
      PROVE  holders'[o]["activePolicies"] = Cardinality(ActiveBy(o)')
  <2>1. holders[o]["activePolicies"] = Cardinality(ActiveBy(o)) /\ IsFiniteSet(ActiveBy(o))
    BY ActiveFinite DEF Counts
  <2>2. CASE o = owner
    <3>1. holders'[o] = Changed(holders[owner], changes) /\ ActiveBy(o)' = ActiveBy(o) \ {id}
      BY <1>3, <1>5, <2>2 DEF OneRow
    <3>2. Changed(holders[owner], changes)["activePolicies"] = Cardinality(ActiveBy(owner) \ {id})
      BY <1>6, <1>7, <2>1, <2>2, ActiveField, CountDown
    <3> QED BY <2>2, <3>1, <3>2
  <2>3. CASE o # owner
    <3>1. holders'[o] = holders[o] /\ ActiveBy(o)' = ActiveBy(o)
      BY <1>3, <1>5, <1>6, <2>3 DEF OneRow
    <3> QED BY <2>1, <3>1
  <2> QED BY <2>2, <2>3
<1>9. ASSUME NEW r \in DOMAIN pools
      PROVE  pools'[r]["activePolicies"] = Cardinality(ActiveIn(r)')
  <2>1. pools[r]["activePolicies"] = Cardinality(ActiveIn(r)) /\ IsFiniteSet(ActiveIn(r))
    BY ActiveFinite DEF Counts
  <2>2. CASE r = risk
    <3>1. pools'[r] = Changed(pools[risk], changes) /\ ActiveIn(r)' = ActiveIn(r) \ {id}
      BY <1>3, <1>5, <2>2 DEF OneRow
    <3>2. Changed(pools[risk], changes)["activePolicies"] = Cardinality(ActiveIn(risk) \ {id})
      BY <1>6, <1>7, <2>1, <2>2, ActiveField, CountDown
    <3> QED BY <2>2, <3>1, <3>2
  <2>3. CASE r # risk
    <3>1. pools'[r] = pools[r] /\ ActiveIn(r)' = ActiveIn(r)
      BY <1>3, <1>5, <1>6, <2>3 DEF OneRow
    <3> QED BY <2>1, <3>1
  <2> QED BY <2>2, <2>3
<1>10. globalStats'["global"]["activePolicies"] = Cardinality(ActiveAll')
  <2>1. globalStats["global"]["activePolicies"] = Cardinality(ActiveAll) /\ IsFiniteSet(ActiveAll)
    BY <1>4, ActiveFinite DEF Counts
  <2>2. Changed(globalStats["global"], total)["activePolicies"] = Cardinality(ActiveAll \ {id})
    BY <1>6, <1>7, <2>1, ActiveField, CountDown
  <2> QED BY <1>3, <1>5, <2>2 DEF OneRow
<1> QED BY <1>3, <1>4, <1>8, <1>9, <1>10 DEF Counts

\* Nothing changes in the counts: the policies that are active stay the same.
LEMMA QuietCounts ==
  ASSUME TInv, Counts, UNCHANGED <<holders, pools>>,
         \A o : ActiveBy(o)' = ActiveBy(o), \A r : ActiveIn(r)' = ActiveIn(r), ActiveAll' = ActiveAll,
         NEW total, \A c \in DOMAIN total : total[c] \in Int, Added(total, "activePolicies") = 0,
         globalStats' = globalStats \/ globalStats' = Update(globalStats, "global", total)
  PROVE  Counts'
<1>1. ASSUME NEW g \in DOMAIN globalStats
      PROVE  /\ DOMAIN globalStats' = DOMAIN globalStats
             /\ globalStats'[g]["activePolicies"] = globalStats[g]["activePolicies"]
  <2>1. CASE globalStats' = globalStats
    BY <2>1
  <2>2. CASE globalStats' = Update(globalStats, "global", total)
    <3>1. TableOf(globalStats, GlobalFields) /\ g = "global" /\ "global" \in DOMAIN globalStats
      BY DEF TInv, Tables, Linked
    <3>2. globalStats["global"] \in [GlobalFields -> Nat]
      BY <3>1 DEF TableOf
    <3>3. OneRow(globalStats', globalStats, GlobalFields, "global", Changed(globalStats["global"], total))
      BY <2>2, <3>1, UpdateRow
    <3>4. Changed(globalStats["global"], total)["activePolicies"] = globalStats["global"]["activePolicies"]
      BY <3>2, ActiveField, CountKept
    <3> QED BY <3>1, <3>3, <3>4 DEF OneRow
  <2> QED BY <2>1, <2>2
<1>2. DOMAIN globalStats = {} => DOMAIN globalStats' = {}
  BY DEF Update
<1> QED BY <1>1, <1>2 DEF Counts

LEMMA InitActive == Init => AInv
<1> SUFFICES ASSUME Init PROVE AInv
  OBVIOUS
<1>1. TInv
  BY InitTyped
<1>2. DOMAIN << >> = {}
  OBVIOUS
<1>3. Emitted
  BY <1>2 DEF Init, Emitted
<1>4. Counts
  BY <1>2 DEF Init, Counts
<1>5. Mirrored
  BY DEF Init, Mirrored
<1> QED BY <1>1, <1>3, <1>4, <1>5 DEF AInv

\* An event that gives a policy a new status keeps the invariant if it keeps the counts.
LEMMA TurnKeeps ==
  ASSUME AInv, TInv', NEW chain \in Chains, NEW id \in PolicyIds, NEW from, "none" \notin from,
         NEW to \in Stages \ {"none"}, Emit(chain, id, from, to), SetStatus(id, StatusOf(to)),
         Counts /\ Mirrored => Counts'
  PROVE  AInv'
<1>1. id \in DOMAIN policies /\ policies[id] \in PolicyRow
  BY RowsThere DEF AInv, Emit
<1>2. /\ DOMAIN policies' = DOMAIN policies
      /\ policies'[id].status = StatusOf(to)
      /\ \A k \in DOMAIN policies : k # id => policies'[k] = policies[k]
  BY <1>1 DEF SetStatus, Put, PolicyRow
<1>3. Emitted'
  BY <1>2, EmittedKept DEF AInv
<1>4. Unshared' => Unshared
  BY EmitStays DEF AInv
<1>5. Unshared' => Counts' /\ Mirrored'
  BY <1>2, <1>4, MirrorKept DEF AInv
<1> QED BY <1>3, <1>5 DEF AInv

LEMMA ActivatedActive ==
  ASSUME AInv, TInv', NEW chain \in Chains, NEW id \in PolicyIds, PolicyActivated(chain, id)
  PROVE  AInv'
<1>1. /\ Emit(chain, id, {"minted"}, "active") /\ SetStatus(id, "ACTIVE")
      /\ CountActive(id, [activePolicies |-> 1], [activePolicies |-> 1])
  BY DEF PolicyActivated
<1>2. onchain[<<chain, id>>] = "minted" /\ id \in DOMAIN policies
  BY <1>1, RowsThere DEF AInv, Emit
<1>3. Mirrored => policies[id].status # "ACTIVE"
  BY <1>2 DEF Mirrored, StatusOf
<1>4. Counts /\ Mirrored => Counts'
  BY <1>1, <1>2, <1>3, ActivatedCounts DEF AInv
<1>5. "active" \in Stages \ {"none"} /\ "none" \notin {"minted"} /\ StatusOf("active") = "ACTIVE"
  BY DEF Stages, StatusOf
<1> QED BY <1>1, <1>4, <1>5, TurnKeeps

\* A policy that was not active and does not become so leaves the active ones as they are.
LEMMA StaysInactive ==
  ASSUME TInv, NEW id \in DOMAIN policies, policies[id].status # "ACTIVE",
         NEW status, status # "ACTIVE", SetStatus(id, status)
  PROVE  /\ \A o : ActiveBy(o)' = ActiveBy(o)
         /\ \A r : ActiveIn(r)' = ActiveIn(r)
         /\ ActiveAll' = ActiveAll
<1>1. policies[id] \in PolicyRow
  BY DEF TInv, Linked
<1>2. /\ \A o : ActiveBy(o)' = ActiveBy(o) \ {id}
      /\ \A r : ActiveIn(r)' = ActiveIn(r) \ {id}
      /\ ActiveAll' = ActiveAll \ {id}
  BY <1>1, StatusTurns
<1>3. (\A o : id \notin ActiveBy(o)) /\ (\A r : id \notin ActiveIn(r)) /\ id \notin ActiveAll
  BY DEF ActiveBy, ActiveIn, ActiveAll
<1> QED BY <1>2, <1>3

LEMMA ExpiredActive ==
  ASSUME AInv, TInv', NEW chain \in Chains, NEW id \in PolicyIds, PolicyExpired(chain, id)
  PROVE  AInv'
<1> DEFINE from == {"minted", "active"}
           change == [activePolicies |-> -1]
<1>1. /\ Emit(chain, id, from, "expired") /\ SetStatus(id, "EXPIRED")
      /\ \/ policies[id].status = "ACTIVE" /\ CountActive(id, change, change)
         \/ policies[id].status # "ACTIVE" /\ UNCHANGED <<holders, pools, globalStats>>
  BY DEF PolicyExpired
<1>2. /\ \A c \in DOMAIN change : change[c] \in Int
      /\ Added(change, "activePolicies") = -1
  BY DEF Added
<1>3. "none" \notin from
  OBVIOUS
<1> HIDE DEF from, change
<1>4. TInv /\ id \in DOMAIN policies
  BY <1>1, <1>3, RowsThere DEF AInv, Emit
<1>5. ASSUME Counts PROVE Counts'
  <2>1. CASE policies[id].status = "ACTIVE"
    <3>1. CountActive(id, change, change)
      BY <1>1, <2>1
    <3> QED BY <1>1, <1>2, <1>4, <1>5, <2>1, <3>1, EndedCounts
  <2>2. CASE policies[id].status # "ACTIVE"
    <3>1. /\ \A o : ActiveBy(o)' = ActiveBy(o)
          /\ \A r : ActiveIn(r)' = ActiveIn(r)
          /\ ActiveAll' = ActiveAll
      BY <1>1, <1>4, <2>2, StaysInactive
    <3>2. UNCHANGED <<holders, pools, globalStats>>
      BY <1>1, <2>2
    <3> QED BY <1>5, <3>1, <3>2 DEF Counts
  <2> QED BY <2>1, <2>2
<1>6. "expired" \in Stages \ {"none"} /\ StatusOf("expired") = "EXPIRED"
  BY DEF Stages, StatusOf
<1> QED BY <1>1, <1>3, <1>5, <1>6, TurnKeeps

LEMMA ClaimedActive ==
  ASSUME AInv, TInv', NEW chain \in Chains, NEW id \in PolicyIds, NEW payout \in Amounts,
         ClaimExecuted(chain, id, payout)
  PROVE  AInv'
<1> DEFINE from == {"active", "expired"}
<1>0. payout \in Nat
  BY PolicyIndexConstants
<1>1. /\ Emit(chain, id, from, "claimed") /\ SetStatus(id, "CLAIMED")
      /\ \/ policies[id].status = "ACTIVE" /\ CountActive(id, Paid(payout), PaidOverall(id, payout))
         \/ /\ policies[id].status # "ACTIVE"
            /\ globalStats' = Update(globalStats, "global", PaidOverall(id, payout))
            /\ UNCHANGED <<holders, pools>>
  BY DEF ClaimExecuted
<1>2. "none" \notin from
  OBVIOUS
<1> HIDE DEF from
<1>3. TInv /\ id \in DOMAIN policies
  BY <1>1, <1>2, RowsThere DEF AInv, Emit
<1>4. /\ \A c \in DOMAIN Paid(payout) : Paid(payout)[c] \in Int
      /\ \A c \in DOMAIN PaidOverall(id, payout) : PaidOverall(id, payout)[c] \in Int
  BY <1>0, PaidChanges
<1>5. /\ Added(Paid(payout), "activePolicies") = -1
      /\ Added(PaidOverall(id, payout), "activePolicies") =
           IF policies[id].status = "ACTIVE" THEN -1 ELSE 0
  BY DEF Added, Paid, PaidOverall
<1>6. ASSUME Counts PROVE Counts'
  <2>1. CASE policies[id].status = "ACTIVE"
    <3>1. CountActive(id, Paid(payout), PaidOverall(id, payout))
      BY <1>1, <2>1
    <3> QED BY <1>1, <1>3, <1>4, <1>5, <1>6, <2>1, <3>1, EndedCounts
  <2>2. CASE policies[id].status # "ACTIVE"
    <3>1. /\ \A o : ActiveBy(o)' = ActiveBy(o)
          /\ \A r : ActiveIn(r)' = ActiveIn(r)
          /\ ActiveAll' = ActiveAll
      BY <1>1, <1>3, <2>2, StaysInactive
    <3>2. /\ UNCHANGED <<holders, pools>>
          /\ globalStats' = Update(globalStats, "global", PaidOverall(id, payout))
      BY <1>1, <2>2
    <3> QED BY <1>3, <1>4, <1>5, <1>6, <2>2, <3>1, <3>2, QuietCounts
  <2> QED BY <2>1, <2>2
<1>7. "claimed" \in Stages \ {"none"} /\ StatusOf("claimed") = "CLAIMED"
  BY DEF Stages, StatusOf
<1> QED BY <1>1, <1>2, <1>6, <1>7, TurnKeeps

\* Events that are not about a policy's status, and the passing of days.
LEMMA AsideActive ==
  ASSUME AInv, TInv', UNCHANGED <<onchain, policyTables>>,
         NEW total, \A c \in DOMAIN total : total[c] \in Int, Added(total, "activePolicies") = 0,
         globalStats' = globalStats \/ globalStats' = Update(globalStats, "global", total)
  PROVE  AInv'
<1>1. UNCHANGED <<onchain, policies, holders, pools>>
  BY DEF policyTables
<1>2. (Unshared' <=> Unshared) /\ (Mirrored' <=> Mirrored) /\ (Emitted' <=> Emitted)
  BY <1>1 DEF Unshared, SharedId, Mirrored, Emitted
<1>3. /\ \A o : ActiveBy(o)' = ActiveBy(o)
      /\ \A r : ActiveIn(r)' = ActiveIn(r)
      /\ ActiveAll' = ActiveAll
  BY <1>1 DEF ActiveBy, ActiveIn, ActiveAll
<1>4. Counts => Counts'
  BY <1>1, <1>3, QuietCounts DEF AInv
<1> QED BY <1>2, <1>4 DEF AInv

\* One row is upserted, and its count is that of the same policies as before.
LEMMA MintedRow ==
  ASSUME NEW F, "activePolicies" \in F, NEW table, TableOf(table, F), NEW after, NEW key,
         NEW new \in [F -> Nat], new["activePolicies"] = 0,
         NEW changes, \A c \in DOMAIN changes : changes[c] \in Nat, "activePolicies" \notin DOMAIN changes,
         OneRow(after, table, F, key, Changed(Before(table, key, new), changes))
  PROVE  /\ key \in DOMAIN table => after[key]["activePolicies"] = table[key]["activePolicies"]
         /\ key \notin DOMAIN table => after[key]["activePolicies"] = 0
<1>1. Before(table, key, new) \in [F -> Nat]
  BY DEF Before, TableOf
<1>2. \A c \in DOMAIN changes : changes[c] \in Int
  OBVIOUS
<1>3. Added(changes, "activePolicies") = 0
  BY DEF Added
<1>4. Changed(Before(table, key, new), changes)["activePolicies"] = Before(table, key, new)["activePolicies"]
  BY <1>1, <1>2, <1>3, CountKept
<1> QED BY <1>4 DEF OneRow, Before

LEMMA MintedActive ==
  ASSUME AInv, TInv', NEW chain \in Chains, NEW id \in PolicyIds, NEW owner \in Owners, NEW risk \in RiskIds,
         PolicyMinted(chain, id, owner, risk)
  PROVE  AInv'
<1>0. TInv
  BY DEF AInv
<1>1. /\ Emit(chain, id, {"none"}, "minted")
      /\ policies' = Put(policies, id, [owner |-> owner, risk |-> risk, status |-> "MINTED"])
  BY DEF PolicyMinted
<1>2. "minted" \in Stages \ {"none"} /\ StatusOf("minted") = "MINTED"
  BY DEF Stages, StatusOf
<1>3. /\ DOMAIN policies' = DOMAIN policies \cup {id}
      /\ policies'[id].status = "MINTED"
      /\ \A k \in DOMAIN policies : k # id => policies'[k] = policies[k]
  BY <1>1 DEF Put
<1>4. /\ onchain'[<<chain, id>>] = "minted"
      /\ \A c \in Chains, k \in PolicyIds : <<c, k>> # <<chain, id>> =>
           onchain'[<<c, k>>] = onchain[<<c, k>>]
      /\ Unshared' => Unshared
  BY <1>0, <1>1, <1>2, EmitStays
<1>5. Emitted'
  BY <1>0, <1>1, <1>2, <1>3, EmittedKept DEF AInv
<1>6. SUFFICES ASSUME Unshared' PROVE Counts' /\ Mirrored'
  BY <1>5 DEF AInv
<1>7. Counts /\ Mirrored
  BY <1>4, <1>6 DEF AInv
<1>8. Mirrored'
  BY <1>0, <1>1, <1>2, <1>3, <1>6, <1>7, MirrorKept
<1>9. id \notin DOMAIN policies
  <2> SUFFICES ASSUME id \in DOMAIN policies PROVE FALSE
    OBVIOUS
  <2>1. PICK other \in Chains : onchain[<<other, id>>] # "none"
    BY DEF AInv, Emitted
  <2>2. onchain[<<chain, id>>] = "none"
    BY <1>1 DEF Emit
  <2>3. other # chain
    BY <2>1, <2>2
  <2>4. onchain'[<<other, id>>] # "none" /\ onchain'[<<chain, id>>] # "none"
    BY <1>4, <2>1, <2>3
  <2> DEFINE S == {d \in Chains : onchain'[d, id] # "none"}
  <2>5. S \in SUBSET Chains /\ ~(Cardinality(S) > 1) /\ other \in S /\ chain \in S
    BY <1>6, <2>1, <2>4 DEF Unshared, SharedId
  <2> HIDE DEF S
  <2> QED BY <2>3, <2>5, OneChain
<1>10. /\ \A o : ActiveBy(o)' = ActiveBy(o)
       /\ \A r : ActiveIn(r)' = ActiveIn(r)
       /\ ActiveAll' = ActiveAll
  BY <1>3, <1>9 DEF ActiveBy, ActiveIn, ActiveAll
<1> DEFINE one == [totalPolicies |-> 1]
<1>11. (\A c \in DOMAIN one : one[c] \in Nat) /\ "activePolicies" \notin DOMAIN one
  OBVIOUS
<1>12. /\ \A c \in DOMAIN MintTotals(owner, risk) : MintTotals(owner, risk)[c] \in Nat
       /\ "activePolicies" \notin DOMAIN MintTotals(owner, risk)
  BY MintChanges
<1>13. /\ OneRow(holders', holders, HolderFields, owner, Changed(Before(holders, owner, NewHolder), one))
       /\ OneRow(pools', pools, HolderFields, risk, Changed(Before(pools, risk, NewPool), one))
       /\ OneRow(globalStats', globalStats, GlobalFields, "global",
                 Changed(Before(globalStats, "global", NewGlobal), MintTotals(owner, risk)))
  BY <1>0, MintedRows
<1> HIDE DEF one
<1>14. /\ TableOf(holders, HolderFields) /\ TableOf(pools, HolderFields)
       /\ TableOf(globalStats, GlobalFields)
  BY <1>0 DEF TInv, Tables
<1>15. /\ NewHolder \in [HolderFields -> Nat] /\ NewHolder["activePolicies"] = 0
       /\ NewPool \in [HolderFields -> Nat] /\ NewPool["activePolicies"] = 0
       /\ NewGlobal \in [GlobalFields -> Nat] /\ NewGlobal["activePolicies"] = 0
  BY NewRows, ActiveField
<1>16. Cardinality({}) = 0
  BY FS_EmptySet
<1>17. ASSUME NEW o \in DOMAIN holders'
       PROVE  holders'[o]["activePolicies"] = Cardinality(ActiveBy(o))
  <2>1. /\ owner \in DOMAIN holders => holders'[owner]["activePolicies"] = holders[owner]["activePolicies"]
        /\ owner \notin DOMAIN holders => holders'[owner]["activePolicies"] = 0
    <3>1. PICK after : after = holders'
      OBVIOUS
    <3>2. OneRow(after, holders, HolderFields, owner, Changed(Before(holders, owner, NewHolder), one))
      BY <1>13, <3>1
    <3> QED BY ONLY <1>11, <1>14, <1>15, <3>1, <3>2, ActiveField, MintedRow
  <2>2. CASE o \in DOMAIN holders
    BY <1>7, <1>13, <2>1, <2>2 DEF OneRow, Counts
  <2>3. CASE o \notin DOMAIN holders
    <3>1. o = owner
      BY <1>13, <2>3 DEF OneRow
    <3>2. ActiveBy(o) = {}
      BY <1>0, <2>3 DEF ActiveBy, TInv, Linked
    <3> QED BY <1>16, <2>1, <2>3, <3>1, <3>2
  <2> QED BY <2>2, <2>3
<1>18. ASSUME NEW r \in DOMAIN pools'
       PROVE  pools'[r]["activePolicies"] = Cardinality(ActiveIn(r))
  <2>1. /\ risk \in DOMAIN pools => pools'[risk]["activePolicies"] = pools[risk]["activePolicies"]
        /\ risk \notin DOMAIN pools => pools'[risk]["activePolicies"] = 0
    BY <1>11, <1>13, <1>14, <1>15, ActiveField, MintedRow
  <2>2. CASE r \in DOMAIN pools
    BY <1>7, <1>13, <2>1, <2>2 DEF OneRow, Counts
  <2>3. CASE r \notin DOMAIN pools
    <3>1. r = risk
      BY <1>13, <2>3 DEF OneRow
    <3>2. ActiveIn(r) = {}
      BY <1>0, <2>3 DEF ActiveIn, TInv, Linked
    <3> QED BY <1>16, <2>1, <2>3, <3>1, <3>2
  <2> QED BY <2>2, <2>3
<1>19. ASSUME NEW g \in DOMAIN globalStats'
       PROVE  globalStats'[g]["activePolicies"] = Cardinality(ActiveAll)
  <2>1. g = "global"
    BY <1>0, <1>13 DEF OneRow, TInv, Linked
  <2>2. /\ "global" \in DOMAIN globalStats =>
             globalStats'["global"]["activePolicies"] = globalStats["global"]["activePolicies"]
        /\ "global" \notin DOMAIN globalStats => globalStats'["global"]["activePolicies"] = 0
    BY <1>12, <1>13, <1>14, <1>15, ActiveField, MintedRow
  <2>3. CASE "global" \in DOMAIN globalStats
    BY <1>7, <2>1, <2>2, <2>3 DEF Counts
  <2>4. CASE "global" \notin DOMAIN globalStats
    <3>1. ActiveAll = {}
      BY <1>0, <2>4 DEF ActiveAll, TInv, Linked
    <3> QED BY <1>16, <2>1, <2>2, <2>4, <3>1
  <2> QED BY <2>3, <2>4
<1>20. Counts'
  BY <1>10, <1>17, <1>18, <1>19 DEF Counts
<1> QED BY <1>8, <1>20

LEMMA NextActive == AInv /\ [Next]_vars => AInv'
<1> SUFFICES ASSUME AInv, [Next]_vars PROVE AInv'
  OBVIOUS
<1>0. TInv'
  BY NextTyped DEF AInv
<1>1. ASSUME NEW chain \in Chains, NEW id \in PolicyIds, NEW owner \in Owners, NEW risk \in RiskIds,
             PolicyMinted(chain, id, owner, risk)
      PROVE  AInv'
  BY <1>0, <1>1, MintedActive
<1>2. ASSUME NEW chain \in Chains, NEW id \in PolicyIds, PolicyActivated(chain, id)
      PROVE  AInv'
  BY <1>0, <1>2, ActivatedActive
<1>3. ASSUME NEW chain \in Chains, NEW id \in PolicyIds, PolicyExpired(chain, id)
      PROVE  AInv'
  BY <1>0, <1>3, ExpiredActive
<1>4. ASSUME NEW chain \in Chains, NEW id \in PolicyIds, NEW payout \in Amounts,
             ClaimExecuted(chain, id, payout)
      PROVE  AInv'
  BY <1>0, <1>4, ClaimedActive
<1>5. ASSUME NEW chain \in Chains, NEW id \in PolicyIds, ClaimFailed(chain, id)
      PROVE  AInv'
  <2> DEFINE total == [totalClaims |-> 1]
  <2>1. (\A c \in DOMAIN total : total[c] \in Int) /\ Added(total, "activePolicies") = 0
    BY DEF Added
  <2>2. UNCHANGED <<onchain, policyTables>> /\ globalStats' = Update(globalStats, "global", total)
    BY <1>5 DEF ClaimFailed
  <2> HIDE DEF total
  <2> QED BY <1>0, <2>1, <2>2, AsideActive
<1>6. ASSUME NEW amount \in Amounts, Deposited(amount)
      PROVE  AInv'
  <2> DEFINE total == [totalReserveDeposits |-> amount]
  <2>1. (\A c \in DOMAIN total : total[c] \in Int) /\ Added(total, "activePolicies") = 0
    BY PolicyIndexConstants DEF Added
  <2>2. UNCHANGED <<onchain, policyTables>> /\ globalStats' = Update(globalStats, "global", total)
    BY <1>6 DEF Deposited
  <2> HIDE DEF total
  <2> QED BY <1>0, <2>1, <2>2, AsideActive
<1>7. ASSUME NEW amount \in Amounts, Withdrawn(amount)
      PROVE  AInv'
  <2> DEFINE total == [totalReserveWithdrawals |-> amount]
  <2>1. (\A c \in DOMAIN total : total[c] \in Int) /\ Added(total, "activePolicies") = 0
    BY PolicyIndexConstants DEF Added
  <2>2. UNCHANGED <<onchain, policyTables>> /\ globalStats' = Update(globalStats, "global", total)
    BY <1>7 DEF Withdrawn
  <2> HIDE DEF total
  <2> QED BY <1>0, <2>1, <2>2, AsideActive
<1>8. ASSUME UNCHANGED <<onchain, policyTables, statTables>>
      PROVE  AInv'
  <2> DEFINE total == [x \in {} |-> 0]
  <2>1. (\A c \in DOMAIN total : total[c] \in Int) /\ Added(total, "activePolicies") = 0
    BY DEF Added
  <2>2. UNCHANGED <<onchain, policyTables>> /\ globalStats' = globalStats
    BY <1>8 DEF statTables
  <2> HIDE DEF total
  <2> QED BY <1>0, <2>1, <2>2, AsideActive
<1>9. ASSUME NEW user \in Owners, NEW shares \in Amounts, RedemptionQueued(user, shares)
      PROVE  AInv'
  BY <1>8, <1>9 DEF RedemptionQueued
<1>10. CASE NextDay
  BY <1>8, <1>10 DEF NextDay
<1>11. CASE UNCHANGED vars
  BY <1>8, <1>11 DEF vars
<1> QED BY <1>1, <1>2, <1>3, <1>4, <1>5, <1>6, <1>7, <1>9, <1>10, <1>11 DEF Next

\* As long as the ids of two chains have not met, the counts of active policies
\* that five handlers keep by increments are those of the policies' rows: of every
\* holder, of every pool and overall.
THEOREM ActiveCounted == Spec => []ActiveCountsAgree
<1>1. Init => AInv
  BY InitActive
<1>2. AInv /\ [Next]_vars => AInv'
  BY NextActive
<1>3. AInv => ActiveCountsAgree
  BY CountsForm DEF AInv
<1> QED BY <1>1, <1>2, <1>3, PTL DEF Spec
=============================================================================
