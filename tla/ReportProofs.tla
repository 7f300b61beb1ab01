---------------------------- MODULE ReportProofs -----------------------------
(***************************************************************************)
(* What the surfaces say of one ledger is true for every ledger, calendar,  *)
(* rate table, plan and range of integers: prices are exact, reports add    *)
(* up, fees are handed out once, windows that meet add up, and the surfaces *)
(* agree.  The machine itself is simple, and the inductive invariant says   *)
(* what its turns are; the work is in sums over sets of turns, of groups,   *)
(* of days and of billing cycles, for which the first part has the facts.   *)
(***************************************************************************)
EXTENDS Report, FiniteSetTheorems, WellFoundedInduction, TLAPS

------------------------------------------------------------------------------
(* Sums over finite sets.  The library defines them by a choice of a        *)
(* function; every fact about a sum is an induction over the subsets of the *)
(* set.                                                                     *)

\* Induction over a finite set without naming the property: among subsets of a
\* finite set that have it, one has it and no strict subset of it does.
LEMMA SmallestSubset ==
  ASSUME NEW S, IsFiniteSet(S), NEW Q \in SUBSET SUBSET S, Q # {}
  PROVE  \E T \in Q : \A U \in SUBSET T : U # T => U \notin Q
  <1>1. IsWellFoundedOn(StrictSubsetOrdering(S), SUBSET S)
    BY FS_StrictSubsetOrderingWellFounded, FS_FiniteSubsetsOfFinite
  <1>2. \E T \in Q : \A U \in Q : ~ (<<U, T>> \in StrictSubsetOrdering(S))
    BY <1>1, WFMin
  <1> QED BY <1>2 DEF StrictSubsetOrdering

\* The member of a set that a sum takes out first.
First(s) == CHOOSE x \in s : TRUE

\* g holds the sum of f over every subset of T.
Sums(g, f, T) ==
    g = [s \in SUBSET T |-> IF s = {} THEN 0 ELSE f[First(s)] + g[s \ {First(s)}]]

\* The member taken out first is a member.
LEMMA FirstIn == ASSUME NEW s, s # {} PROVE First(s) \in s
  BY DEF First

\* A sum over a set is read off such a function.
LEMMA SumIsChosen ==
  ASSUME NEW f, NEW S
  PROVE  SumFunctionOnSet(f, S) = (CHOOSE g : Sums(g, f, S))[S]
  BY DEF SumFunctionOnSet, FoldFunctionOnSet, MapThenFoldSet, Sums, First

\* One step of such a function.
LEMMA SumsStep ==
  ASSUME NEW f, NEW T, NEW g, Sums(g, f, T), NEW s \in SUBSET T
  PROVE  g[s] = IF s = {} THEN 0 ELSE f[First(s)] + g[s \ {First(s)}]
  BY DEF Sums

\* Two such functions agree where both are defined ...
LEMMA SumsUnique ==
  ASSUME NEW f, NEW T, IsFiniteSet(T), NEW g, Sums(g, f, T), NEW U \in SUBSET T,
         NEW h, Sums(h, f, U)
  PROVE  \A s \in SUBSET U : g[s] = h[s]
  <1> DEFINE Q == {s \in SUBSET U : g[s] # h[s]}
  <1> SUFFICES ASSUME Q # {} PROVE FALSE OBVIOUS
  <1>1. IsFiniteSet(U) BY FS_Subset
  <1>2. PICK s \in Q : \A t \in SUBSET s : t # s => t \notin Q
    <2>1. Q \in SUBSET SUBSET U OBVIOUS
    <2> HIDE DEF Q
    <2> QED BY <1>1, <2>1, SmallestSubset
  <1>3. s \in SUBSET U /\ s \in SUBSET T OBVIOUS
  <1>4. CASE s = {} BY <1>3, <1>4, SumsStep
  <1>5. CASE s # {}
    <2>1. First(s) \in s BY <1>5, FirstIn
    <2>2. g[s \ {First(s)}] = h[s \ {First(s)}] BY <1>2, <1>3, <2>1
    <2>3. g[s] = h[s] BY <1>3, <1>5, <2>2, SumsStep
    <2> QED BY <2>3
  <1> QED BY <1>4, <1>5

\* The recursion that defines a sum has a solution.
LEMMA SumsExist ==
  ASSUME NEW f, NEW S, IsFiniteSet(S)
  PROVE  \E g : Sums(g, f, S)
  <1> DEFINE Q == {T \in SUBSET S : ~ \E g : Sums(g, f, T)}
  <1> SUFFICES ASSUME Q # {} PROVE FALSE OBVIOUS
  <1>1. PICK T \in Q : \A U \in SUBSET T : U # T => U \notin Q
    <2>1. Q \in SUBSET SUBSET S OBVIOUS
    <2> HIDE DEF Q
    <2> QED BY <2>1, SmallestSubset
  <1> DEFINE G(u) == CHOOSE g : Sums(g, f, u)
             h == [s \in SUBSET T |->
                     IF s = {} THEN 0 ELSE f[First(s)] + G(s \ {First(s)})[s \ {First(s)}]]
  <1>2. ASSUME NEW u \in SUBSET T, u # T PROVE Sums(G(u), f, u)
    BY <1>1, <1>2
  <1>3. ASSUME NEW u \in SUBSET T, u # T PROVE h[u] = G(u)[u]
    <2>1. h[u] = IF u = {} THEN 0 ELSE f[First(u)] + G(u \ {First(u)})[u \ {First(u)}]
      OBVIOUS
    <2>2. Sums(G(u), f, u) BY <1>2, <1>3
    <2>3. CASE u = {} BY <2>1, <2>2, <2>3, SumsStep
    <2>4. CASE u # {}
      <3> DEFINE v == u \ {First(u)}
      <3>1. v \in SUBSET u /\ v # T /\ v \in SUBSET T BY <2>4, FirstIn
      <3>2. Sums(G(v), f, v) BY <1>2, <3>1
      <3>3. IsFiniteSet(u) BY FS_Subset
      <3>4. G(u)[v] = G(v)[v]
        <4> HIDE DEF G, v
        <4> QED BY <2>2, <3>1, <3>2, <3>3, SumsUnique
      <3>5. G(u)[u] = f[First(u)] + G(u)[v]
        <4> HIDE DEF G
        <4> QED BY <2>2, <2>4, SumsStep
      <3> QED BY <2>1, <2>4, <3>4, <3>5
    <2> QED BY <2>3, <2>4
  <1>4. ASSUME NEW s \in SUBSET T, s # {} PROVE h[s \ {First(s)}] = G(s \ {First(s)})[s \ {First(s)}]
    <2>1. s \ {First(s)} \in SUBSET T /\ s \ {First(s)} # T BY <1>4, FirstIn
    <2> HIDE DEF G, h
    <2> QED BY <1>3, <2>1
  <1>5. Sums(h, f, T)
    <2>1. h = [s \in SUBSET T |-> IF s = {} THEN 0 ELSE f[First(s)] + h[s \ {First(s)}]]
      <3>1. ASSUME NEW s \in SUBSET T
            PROVE (IF s = {} THEN 0 ELSE f[First(s)] + G(s \ {First(s)})[s \ {First(s)}])
                  = (IF s = {} THEN 0 ELSE f[First(s)] + h[s \ {First(s)}])
        <4> HIDE DEF G, h
        <4> QED BY <1>4
      <3>2. h = [s \in SUBSET T |->
                   IF s = {} THEN 0 ELSE f[First(s)] + G(s \ {First(s)})[s \ {First(s)}]]
        OBVIOUS
      <3> HIDE DEF G, h
      <3> QED BY <3>1, <3>2
    <2> QED BY <2>1 DEF Sums
  <1> QED BY <1>5

\* A sum is nothing, or the first member and the rest.
LEMMA SumFirst ==
  ASSUME NEW f, NEW S, IsFiniteSet(S)
  PROVE  SumFunctionOnSet(f, S) =
           IF S = {} THEN 0 ELSE f[First(S)] + SumFunctionOnSet(f, S \ {First(S)})
  <1> DEFINE R == S \ {First(S)}
             g == CHOOSE k : Sums(k, f, S)
             h == CHOOSE k : Sums(k, f, R)
  <1>1. IsFiniteSet(R) BY FS_Subset
  <1>2. Sums(g, f, S) /\ Sums(h, f, R) BY <1>1, SumsExist
  <1>3. SumFunctionOnSet(f, S) = g[S] /\ SumFunctionOnSet(f, R) = h[R] BY SumIsChosen
  <1>4. R \in SUBSET S /\ R \in SUBSET R OBVIOUS
  <1>5. g[R] = h[R]
    <2> HIDE DEF g, h, R
    <2> QED BY <1>2, <1>4, SumsUnique
  <1>6. g[S] = IF S = {} THEN 0 ELSE f[First(S)] + g[R]
    <2>1. Sums(g, f, S) /\ S \in SUBSET S BY <1>2
    <2> HIDE DEF g
    <2> QED BY <2>1, SumsStep
  <1> QED BY <1>3, <1>5, <1>6

\* The sum over nothing.
LEMMA SumEmpty == ASSUME NEW f PROVE SumFunctionOnSet(f, {}) = 0
  BY SumFirst, FS_EmptySet

\* A sum of integers is an integer.
LEMMA SumInt ==
  ASSUME NEW f, NEW S, IsFiniteSet(S), \A x \in S : f[x] \in Int
  PROVE  SumFunctionOnSet(f, S) \in Int
  <1> DEFINE Q == {T \in SUBSET S : SumFunctionOnSet(f, T) \notin Int}
  <1> SUFFICES ASSUME Q # {} PROVE FALSE OBVIOUS
  <1>1. PICK T \in Q : \A U \in SUBSET T : U # T => U \notin Q
    <2>1. Q \in SUBSET SUBSET S OBVIOUS
    <2> HIDE DEF Q
    <2> QED BY <2>1, SmallestSubset
  <1>2. T # {} BY SumEmpty
  <1>3. IsFiniteSet(T) /\ First(T) \in T BY <1>2, FS_Subset, FirstIn
  <1>4. SumFunctionOnSet(f, T \ {First(T)}) \in Int BY <1>1, <1>3
  <1>5. SumFunctionOnSet(f, T) = f[First(T)] + SumFunctionOnSet(f, T \ {First(T)})
    BY <1>2, <1>3, SumFirst
  <1>6. f[First(T)] \in Int BY <1>3
  <1>7. SumFunctionOnSet(f, T) \in Int BY <1>4, <1>5, <1>6
  <1> QED BY <1>7

\* Any member may be taken out of a sum.
LEMMA SumRemove ==
  ASSUME NEW f, NEW S, IsFiniteSet(S), \A x \in S : f[x] \in Int, NEW a \in S
  PROVE  SumFunctionOnSet(f, S) = f[a] + SumFunctionOnSet(f, S \ {a})
  <1> DEFINE T(t) == SumFunctionOnSet(f, t)
             Q == {t \in SUBSET S : \E x \in t : T(t) # f[x] + T(t \ {x})}
  <1> SUFFICES ASSUME Q # {} PROVE FALSE OBVIOUS
  <1>1. PICK t \in Q : \A U \in SUBSET t : U # t => U \notin Q
    <2>1. Q \in SUBSET SUBSET S OBVIOUS
    <2> HIDE DEF Q
    <2> QED BY <2>1, SmallestSubset
  <1>2. PICK x \in t : T(t) # f[x] + T(t \ {x}) OBVIOUS
  <1> DEFINE c == First(t)
             r == t \ {c}
             s == t \ {x}
  <1>3. c \in t /\ IsFiniteSet(t) BY FirstIn, FS_Subset
  <1>4. T(t) = f[c] + T(r) BY <1>2, <1>3, SumFirst
  <1>5. c # x BY <1>2, <1>4
  <1>6. r \in SUBSET t /\ r # t /\ x \in r /\ s \in SUBSET t /\ s # t /\ c \in s BY <1>3, <1>5
  <1>14. ASSUME NEW u \in SUBSET t, u # t, NEW y \in u PROVE T(u) = f[y] + T(u \ {y})
    <2>1. u \notin Q BY <1>1, <1>14
    <2>2. u \in SUBSET S BY <1>14
    <2> QED BY <2>1, <2>2
  <1>7. T(r) = f[x] + T(r \ {x})
    <2> HIDE DEF T, r, s, c
    <2> QED BY <1>6, <1>14
  <1>8. T(s) = f[c] + T(s \ {c})
    <2> HIDE DEF T, r, s, c
    <2> QED BY <1>6, <1>14
  <1>9. r \ {x} = s \ {c} OBVIOUS
  <1>10. IsFiniteSet(r \ {x}) /\ \A y \in r \ {x} : f[y] \in Int BY FS_Subset
  <1>11. T(r \ {x}) \in Int BY <1>10, SumInt
  <1>12. f[x] \in Int /\ f[c] \in Int BY <1>2, <1>3
  <1> HIDE DEF T, r, s, c
  <1>13. f[c] + (f[x] + T(r \ {x})) = f[x] + (f[c] + T(r \ {x})) BY <1>11, <1>12
  <1> QED BY <1>2, <1>4, <1>7, <1>8, <1>9, <1>13 DEF s

\* A sum looks at a function only on its set.
LEMMA SumSame ==
  ASSUME NEW f, NEW g, NEW S, IsFiniteSet(S), \A x \in S : f[x] = g[x]
  PROVE  SumFunctionOnSet(f, S) = SumFunctionOnSet(g, S)
  <1> DEFINE Q == {T \in SUBSET S : SumFunctionOnSet(f, T) # SumFunctionOnSet(g, T)}
  <1> SUFFICES ASSUME Q # {} PROVE FALSE OBVIOUS
  <1>1. PICK T \in Q : \A U \in SUBSET T : U # T => U \notin Q
    <2>1. Q \in SUBSET SUBSET S OBVIOUS
    <2> HIDE DEF Q
    <2> QED BY <2>1, SmallestSubset
  <1>2. T # {} BY SumEmpty
  <1>3. IsFiniteSet(T) /\ First(T) \in T BY <1>2, FS_Subset, FirstIn
  <1>4. SumFunctionOnSet(f, T \ {First(T)}) = SumFunctionOnSet(g, T \ {First(T)}) BY <1>1, <1>3
  <1>5. f[First(T)] = g[First(T)] BY <1>3
  <1>6. SumFunctionOnSet(f, T) = SumFunctionOnSet(g, T)
    BY <1>2, <1>3, <1>4, <1>5, SumFirst
  <1> QED BY <1>6

\* The sum over one member.
LEMMA SumSingle ==
  ASSUME NEW f, NEW a, f[a] \in Int
  PROVE  SumFunctionOnSet(f, {a}) = f[a]
  <1>1. IsFiniteSet({a}) /\ {a} \ {a} = {} BY FS_Singleton
  <1> QED BY <1>1, SumRemove, SumEmpty

\* Disjoint sets.
LEMMA SumUnion ==
  ASSUME NEW f, NEW A, NEW B, IsFiniteSet(A), IsFiniteSet(B), A \cap B = {},
         \A x \in A \cup B : f[x] \in Int
  PROVE  SumFunctionOnSet(f, A \cup B) = SumFunctionOnSet(f, A) + SumFunctionOnSet(f, B)
  <1> DEFINE T(t) == SumFunctionOnSet(f, t)
             Q == {t \in SUBSET A : T(t \cup B) # T(t) + T(B)}
  <1> SUFFICES ASSUME Q # {} PROVE FALSE
    <2>1. A \notin Q => T(A \cup B) = T(A) + T(B) OBVIOUS
    <2> QED BY <2>1
  <1>1. PICK t \in Q : \A U \in SUBSET t : U # t => U \notin Q
    <2>1. Q \in SUBSET SUBSET A OBVIOUS
    <2> HIDE DEF Q
    <2> QED BY <2>1, SmallestSubset
  <1>2. T(B) \in Int BY SumInt
  <1>3. t # {}
    <2>1. T({}) = 0 /\ {} \cup B = B BY SumEmpty
    <2>2. T({} \cup B) = T({}) + T(B)
      <3> HIDE DEF T
      <3> QED BY <2>1, <1>2
    <2> QED BY <2>2
  <1>4. PICK a \in t : TRUE BY <1>3
  <1> DEFINE r == t \ {a}
  <1>5. r \in SUBSET t /\ r # t /\ r \in SUBSET A /\ a \in A BY <1>4
  <1>6. T(r \cup B) = T(r) + T(B) BY <1>1, <1>5
  <1>7. IsFiniteSet(t) /\ IsFiniteSet(r) /\ IsFiniteSet(t \cup B) BY FS_Subset, FS_Union
  <1>8. T(t) = f[a] + T(r)
    <2>1. \A x \in t : f[x] \in Int OBVIOUS
    <2> QED BY <1>7, <2>1, SumRemove
  <1>9. T(t \cup B) = f[a] + T(r \cup B)
    <2>1. \A x \in t \cup B : f[x] \in Int OBVIOUS
    <2>2. a \in t \cup B /\ (t \cup B) \ {a} = r \cup B BY <1>5
    <2>3. T(t \cup B) = f[a] + T((t \cup B) \ {a}) BY <1>7, <2>1, <2>2, SumRemove
    <2> QED BY <2>2, <2>3
  <1>10. T(r) \in Int /\ f[a] \in Int
    <2>1. \A x \in r : f[x] \in Int OBVIOUS
    <2> QED BY <1>5, <1>7, <2>1, SumInt
  <1>11. T(t \cup B) = T(t) + T(B)
    <2> HIDE DEF T, r
    <2> QED BY <1>2, <1>6, <1>8, <1>9, <1>10
  <1> QED BY <1>11

\* What is zero outside a part sums up to the part.
LEMMA SumZero ==
  ASSUME NEW f, NEW S, IsFiniteSet(S), \A x \in S : f[x] = 0
  PROVE  SumFunctionOnSet(f, S) = 0
  <1> DEFINE Q == {T \in SUBSET S : SumFunctionOnSet(f, T) # 0}
  <1> SUFFICES ASSUME Q # {} PROVE FALSE OBVIOUS
  <1>1. PICK T \in Q : \A U \in SUBSET T : U # T => U \notin Q
    <2>1. Q \in SUBSET SUBSET S OBVIOUS
    <2> HIDE DEF Q
    <2> QED BY <2>1, SmallestSubset
  <1>2. T # {} BY SumEmpty
  <1>3. IsFiniteSet(T) /\ First(T) \in T BY <1>2, FS_Subset, FirstIn
  <1>4. SumFunctionOnSet(f, T \ {First(T)}) = 0 BY <1>1, <1>3
  <1>5. SumFunctionOnSet(f, T) = f[First(T)] + SumFunctionOnSet(f, T \ {First(T)})
    BY <1>2, <1>3, SumFirst
  <1>6. f[First(T)] = 0 BY <1>3
  <1>7. SumFunctionOnSet(f, T) = 0 BY <1>4, <1>5, <1>6
  <1> QED BY <1>7

\* Members that count nothing may be left out.
LEMMA SumSupport ==
  ASSUME NEW f, NEW S, IsFiniteSet(S), NEW A \in SUBSET S,
         \A x \in A : f[x] \in Int, \A x \in S \ A : f[x] = 0
  PROVE  SumFunctionOnSet(f, S) = SumFunctionOnSet(f, A)
  <1>1. IsFiniteSet(A) /\ IsFiniteSet(S \ A) /\ A \cap (S \ A) = {} /\ A \cup (S \ A) = S
    BY FS_Subset, FS_Difference
  <1>2. \A x \in A \cup (S \ A) : f[x] \in Int OBVIOUS
  <1>3. SumFunctionOnSet(f, A \cup (S \ A)) = SumFunctionOnSet(f, A) + SumFunctionOnSet(f, S \ A)
    BY <1>1, <1>2, SumUnion
  <1>4. SumFunctionOnSet(f, S \ A) = 0 BY <1>1, SumZero
  <1>5. SumFunctionOnSet(f, A) \in Int BY <1>1, SumInt
  <1> QED BY <1>1, <1>3, <1>4, <1>5

\* Sums of a pointwise sum.
LEMMA SumPlus ==
  ASSUME NEW f, NEW g, NEW h, NEW S, IsFiniteSet(S),
         \A x \in S : f[x] \in Int /\ g[x] \in Int /\ h[x] = f[x] + g[x]
  PROVE  SumFunctionOnSet(h, S) = SumFunctionOnSet(f, S) + SumFunctionOnSet(g, S)
  <1> DEFINE Q == {T \in SUBSET S : SumFunctionOnSet(h, T)
                                      # SumFunctionOnSet(f, T) + SumFunctionOnSet(g, T)}
  <1> SUFFICES ASSUME Q # {} PROVE FALSE OBVIOUS
  <1>1. PICK T \in Q : \A U \in SUBSET T : U # T => U \notin Q
    <2>1. Q \in SUBSET SUBSET S OBVIOUS
    <2> HIDE DEF Q
    <2> QED BY <2>1, SmallestSubset
  <1>2. T # {}
    <2>1. SumFunctionOnSet(h, {}) = SumFunctionOnSet(f, {}) + SumFunctionOnSet(g, {})
      BY SumEmpty
    <2> QED BY <2>1
  <1> DEFINE c == First(T)
             R == T \ {c}
  <1>3. IsFiniteSet(T) /\ c \in T BY <1>2, FS_Subset, FirstIn
  <1>4. SumFunctionOnSet(h, R) = SumFunctionOnSet(f, R) + SumFunctionOnSet(g, R) BY <1>1, <1>3
  <1>5. /\ SumFunctionOnSet(h, T) = h[c] + SumFunctionOnSet(h, R)
        /\ SumFunctionOnSet(f, T) = f[c] + SumFunctionOnSet(f, R)
        /\ SumFunctionOnSet(g, T) = g[c] + SumFunctionOnSet(g, R)
    BY <1>2, <1>3, SumFirst
  <1>6. f[c] \in Int /\ g[c] \in Int /\ h[c] = f[c] + g[c] BY <1>3
  <1>7. IsFiniteSet(R) /\ \A x \in R : f[x] \in Int /\ g[x] \in Int BY FS_Subset
  <1>8. SumFunctionOnSet(f, R) \in Int /\ SumFunctionOnSet(g, R) \in Int
    <2> HIDE DEF R
    <2> QED BY <1>7, SumInt
  <1>9. SumFunctionOnSet(h, T) = SumFunctionOnSet(f, T) + SumFunctionOnSet(g, T)
    <2> HIDE DEF R, c
    <2> QED BY <1>4, <1>5, <1>6, <1>8
  <1> QED BY <1>9

\* f[x][k] is what x gives k: what each k is given, and what each x gives.
Columns(f, S, K) == [k \in K |-> SumFunctionOnSet([x \in S |-> f[x][k]], S)]
RowSums(f, S, K) == [x \in S |-> SumFunctionOnSet(f[x], K)]

\* Two sums may change places.
LEMMA SumSwap ==
  ASSUME NEW f, NEW S, NEW K, IsFiniteSet(S), IsFiniteSet(K),
         \A x \in S : \A k \in K : f[x][k] \in Int
  PROVE  SumFunctionOnSet(Columns(f, S, K), K) = SumFunctionOnSet(RowSums(f, S, K), S)
  <1> USE DEF Columns, RowSums
  <1> DEFINE Col(k, t) == SumFunctionOnSet([x \in S |-> f[x][k]], t)
             row == [x \in S |-> SumFunctionOnSet(f[x], K)]
             L(t) == SumFunctionOnSet([k \in K |-> Col(k, t)], K)
             Q == {t \in SUBSET S : L(t) # SumFunctionOnSet(row, t)}
  <1> SUFFICES ASSUME Q # {} PROVE FALSE
    <2>1. S \notin Q => L(S) = SumFunctionOnSet(row, S) OBVIOUS
    <2> QED BY <2>1
  <1>1. PICK t \in Q : \A U \in SUBSET t : U # t => U \notin Q
    <2>1. Q \in SUBSET SUBSET S OBVIOUS
    <2> HIDE DEF Q
    <2> QED BY <2>1, SmallestSubset
  <1>2. t # {}
    <2>1. SumFunctionOnSet(row, {}) = 0 BY SumEmpty
    <2>2. \A k \in K : [j \in K |-> Col(j, {})][k] = 0 BY SumEmpty
    <2>3. L({}) = 0
      <3> DEFINE z == [j \in K |-> Col(j, {})]
      <3>1. SumFunctionOnSet(z, K) = 0
        <4> HIDE DEF z
        <4> QED BY <2>2, SumZero DEF z
      <3> QED BY <3>1
    <2> QED BY <2>1, <2>3
  <1>3. PICK a \in t : TRUE BY <1>2
  <1> DEFINE r == t \ {a}
  <1>4. r \in SUBSET t /\ r # t /\ r \in SUBSET S /\ a \in S /\ IsFiniteSet(t) /\ IsFiniteSet(r)
    BY <1>3, FS_Subset
  <1>5. L(r) = SumFunctionOnSet(row, r) BY <1>1, <1>4
  <1>6. \A x \in S : row[x] \in Int
    <2> SUFFICES ASSUME NEW x \in S PROVE SumFunctionOnSet(f[x], K) \in Int OBVIOUS
    <2> QED BY SumInt
  <1>7. SumFunctionOnSet(row, t) = row[a] + SumFunctionOnSet(row, r)
    <2> HIDE DEF row
    <2> QED BY <1>4, <1>6, SumRemove
  <1>8. ASSUME NEW k \in K PROVE Col(k, t) = f[a][k] + Col(k, r) /\ Col(k, r) \in Int
    <2> DEFINE g == [x \in S |-> f[x][k]]
    <2>1. \A x \in S : g[x] \in Int OBVIOUS
    <2>2. g[a] = f[a][k] BY <1>4
    <2>3. SumFunctionOnSet(g, t) = g[a] + SumFunctionOnSet(g, r) /\ SumFunctionOnSet(g, r) \in Int
      <3>1. (\A x \in t : g[x] \in Int) /\ (\A x \in r : g[x] \in Int) BY <2>1
      <3> HIDE DEF g
      <3>2. SumFunctionOnSet(g, t) = g[a] + SumFunctionOnSet(g, r) BY <1>4, <3>1, SumRemove
      <3>3. SumFunctionOnSet(g, r) \in Int
        <4> HIDE DEF r
        <4> QED BY <1>4, <3>1, SumInt
      <3> QED BY <3>2, <3>3
    <2> QED BY <2>2, <2>3
  <1>9. L(t) = SumFunctionOnSet(f[a], K) + L(r)
    <2> DEFINE h == [k \in K |-> Col(k, t)]
               g == [k \in K |-> Col(k, r)]
    <2> HIDE DEF Col
    <2>1. \A k \in K : f[a][k] \in Int /\ g[k] \in Int /\ h[k] = f[a][k] + g[k] BY <1>4, <1>8
    <2>2. SumFunctionOnSet(h, K) = SumFunctionOnSet(f[a], K) + SumFunctionOnSet(g, K)
      <3> HIDE DEF h, g
      <3> QED BY <2>1, SumPlus
    <2> QED BY <2>2
  <1>10. row[a] = SumFunctionOnSet(f[a], K) BY <1>4
  <1>11. L(t) = SumFunctionOnSet(row, t)
    <2> HIDE DEF L, row
    <2> QED BY <1>5, <1>7, <1>9, <1>10
  <1> QED BY <1>11

Members(grp, S, k) == {x \in S : k \in grp[x]}
GroupSum(f, grp, S, k) ==
    SumFunctionOnSet([x \in Members(grp, S, k) |-> f[x][k]], Members(grp, S, k))

\* Group by group or member by member: a member of several groups is in each of
\* their sums with what it gives that group.
LEMMA SumGrouped ==
  ASSUME NEW S, NEW K, IsFiniteSet(S), IsFiniteSet(K), NEW grp \in [S -> SUBSET K],
         NEW f, \A x \in S : \A k \in grp[x] : f[x][k] \in Int
  PROVE  SumFunctionOnSet([k \in K |-> GroupSum(f, grp, S, k)], K)
           = SumFunctionOnSet([x \in S |-> SumFunctionOnSet(f[x], grp[x])], S)
  <1> DEFINE F == [x \in S |-> [k \in K |-> IF k \in grp[x] THEN f[x][k] ELSE 0]]
             In(k) == Members(grp, S, k)
             col(k) == [x \in S |-> F[x][k]]
             part(k) == [x \in In(k) |-> f[x][k]]
  <1>1. \A x \in S : \A k \in K : F[x][k] \in Int OBVIOUS
  <1>2. SumFunctionOnSet(Columns(F, S, K), K) = SumFunctionOnSet(RowSums(F, S, K), S)
    <2> HIDE DEF F
    <2> QED BY <1>1, SumSwap
  <1>3. ASSUME NEW k \in K PROVE SumFunctionOnSet(col(k), S) = SumFunctionOnSet(part(k), In(k))
    <2>1. In(k) \in SUBSET S /\ IsFiniteSet(In(k)) BY FS_Subset DEF Members
    <2>2. /\ \A x \in In(k) : col(k)[x] \in Int /\ col(k)[x] = part(k)[x]
          /\ \A x \in S \ In(k) : col(k)[x] = 0
      BY <1>3 DEF Members
    <2> HIDE DEF In, col, part
    <2>3. SumFunctionOnSet(col(k), S) = SumFunctionOnSet(col(k), In(k)) BY <2>1, <2>2, SumSupport
    <2>4. SumFunctionOnSet(col(k), In(k)) = SumFunctionOnSet(part(k), In(k))
      BY <2>1, <2>2, SumSame
    <2> QED BY <2>3, <2>4
  <1>4. ASSUME NEW x \in S PROVE SumFunctionOnSet(F[x], K) = SumFunctionOnSet(f[x], grp[x])
    <2>1. grp[x] \in SUBSET K /\ IsFiniteSet(grp[x]) BY <1>4, FS_Subset
    <2>2. /\ \A k \in grp[x] : F[x][k] \in Int /\ F[x][k] = f[x][k]
          /\ \A k \in K \ grp[x] : F[x][k] = 0
      BY <1>4, <2>1
    <2> HIDE DEF F
    <2>3. SumFunctionOnSet(F[x], K) = SumFunctionOnSet(F[x], grp[x]) BY <2>1, <2>2, SumSupport
    <2>4. SumFunctionOnSet(F[x], grp[x]) = SumFunctionOnSet(f[x], grp[x])
      BY <2>1, <2>2, SumSame
    <2> QED BY <2>3, <2>4
  <1> HIDE DEF F
  <1>5. Columns(F, S, K) = [k \in K |-> GroupSum(f, grp, S, k)]
    <2>1. Columns(F, S, K) = [k \in K |-> SumFunctionOnSet(col(k), S)] BY DEF Columns
    <2>2. [k \in K |-> GroupSum(f, grp, S, k)] = [k \in K |-> SumFunctionOnSet(part(k), In(k))]
      BY DEF GroupSum
    <2> HIDE DEF col, part, In
    <2> QED BY <1>3, <2>1, <2>2
  <1>6. RowSums(F, S, K) = [x \in S |-> SumFunctionOnSet(f[x], grp[x])]
    BY <1>4 DEF RowSums
  <1> QED BY <1>2, <1>5, <1>6

\* Grouped by one key each: the sums of the groups add up to the sum.
LEMMA SumByKey ==
  ASSUME NEW S, NEW K, IsFiniteSet(S), IsFiniteSet(K), NEW key \in [S -> K],
         NEW v, \A x \in S : v[x] \in Int
  PROVE  SumFunctionOnSet([k \in K |-> SumFunctionOnSet(v, {x \in S : key[x] = k})], K)
           = SumFunctionOnSet(v, S)
  <1> DEFINE grp == [x \in S |-> {key[x]}]
             f == [x \in S |-> [k \in K |-> v[x]]]
             Part(k) == {x \in S : key[x] = k}
  <1>1. grp \in [S -> SUBSET K] /\ \A x \in S : \A k \in grp[x] : f[x][k] \in Int OBVIOUS
  <1>2. SumFunctionOnSet([k \in K |-> GroupSum(f, grp, S, k)], K)
          = SumFunctionOnSet([x \in S |-> SumFunctionOnSet(f[x], grp[x])], S)
    <2> HIDE DEF f, grp
    <2> QED BY <1>1, SumGrouped
  <1>3. ASSUME NEW k \in K PROVE GroupSum(f, grp, S, k) = SumFunctionOnSet(v, Part(k))
    <2> DEFINE g == [x \in Members(grp, S, k) |-> f[x][k]]
    <2>1. Members(grp, S, k) = Part(k) BY DEF Members
    <2>2. IsFiniteSet(Part(k)) BY FS_Subset
    <2>3. \A x \in Part(k) : g[x] = v[x] BY <2>1
    <2>4. SumFunctionOnSet(g, Part(k)) = SumFunctionOnSet(v, Part(k))
      <3> HIDE DEF g, Part
      <3> QED BY <2>2, <2>3, SumSame
    <2> QED BY <2>1, <2>4 DEF GroupSum
  <1>4. ASSUME NEW x \in S PROVE SumFunctionOnSet(f[x], grp[x]) = v[x]
    <2>1. grp[x] = {key[x]} /\ f[x][key[x]] = v[x] OBVIOUS
    <2>2. SumFunctionOnSet(f[x], {key[x]}) = f[x][key[x]]
      <3> HIDE DEF f
      <3> QED BY <2>1, SumSingle
    <2> QED BY <2>1, <2>2
  <1>5. [k \in K |-> GroupSum(f, grp, S, k)] = [k \in K |-> SumFunctionOnSet(v, Part(k))]
    <2> HIDE DEF f, grp, Part
    <2> QED BY <1>3
  <1>6. SumFunctionOnSet([x \in S |-> SumFunctionOnSet(f[x], grp[x])], S) = SumFunctionOnSet(v, S)
    <2> DEFINE g == [x \in S |-> SumFunctionOnSet(f[x], grp[x])]
    <2>1. \A x \in S : g[x] = v[x]
      <3> HIDE DEF f, grp
      <3> QED BY <1>4
    <2> HIDE DEF g
    <2>2. SumFunctionOnSet(g, S) = SumFunctionOnSet(v, S) BY <2>1, SumSame
    <2> QED BY <2>2 DEF g
  <1> QED BY <1>2, <1>5, <1>6

\* The sum of a constant.
LEMMA SumConst ==
  ASSUME NEW f, NEW S, IsFiniteSet(S), NEW c \in Int, \A x \in S : f[x] = c
  PROVE  SumFunctionOnSet(f, S) = c * Cardinality(S)
  <1> DEFINE Q == {T \in SUBSET S : SumFunctionOnSet(f, T) # c * Cardinality(T)}
  <1> SUFFICES ASSUME Q # {} PROVE FALSE OBVIOUS
  <1>1. PICK T \in Q : \A U \in SUBSET T : U # T => U \notin Q
    <2>1. Q \in SUBSET SUBSET S OBVIOUS
    <2> HIDE DEF Q
    <2> QED BY <2>1, SmallestSubset
  <1>2. T # {}
    <2>1. SumFunctionOnSet(f, {}) = c * Cardinality({})
      <3>1. SumFunctionOnSet(f, {}) = 0 /\ Cardinality({}) = 0 BY SumEmpty, FS_EmptySet
      <3> QED BY <3>1
    <2> QED BY <2>1
  <1> DEFINE R == T \ {First(T)}
  <1>3. IsFiniteSet(T) /\ First(T) \in T /\ IsFiniteSet(R) /\ R \in SUBSET T /\ R # T
    BY <1>2, FS_Subset, FirstIn
  <1>4. SumFunctionOnSet(f, R) = c * Cardinality(R) BY <1>1, <1>3
  <1>5. SumFunctionOnSet(f, T) = f[First(T)] + SumFunctionOnSet(f, R) BY <1>2, <1>3, SumFirst
  <1>6. f[First(T)] = c BY <1>3
  <1>7. Cardinality(T) \in Nat /\ Cardinality(R) = Cardinality(T) - 1
    BY <1>3, FS_CardinalityType, FS_RemoveElement
  <1>8. SumFunctionOnSet(f, T) = c * Cardinality(T)
    <2>1. ASSUME NEW n \in Int PROVE c + c * (n - 1) = c * n BY SMT
    <2> HIDE DEF R
    <2> QED BY <1>4, <1>5, <1>6, <1>7, <2>1
  <1> QED BY <1>8

\* A common factor.
LEMMA SumTimes ==
  ASSUME NEW f, NEW g, NEW S, IsFiniteSet(S), NEW c \in Int,
         \A x \in S : f[x] \in Int /\ g[x] = c * f[x]
  PROVE  SumFunctionOnSet(g, S) = c * SumFunctionOnSet(f, S)
  <1> DEFINE Q == {T \in SUBSET S : SumFunctionOnSet(g, T) # c * SumFunctionOnSet(f, T)}
  <1> SUFFICES ASSUME Q # {} PROVE FALSE OBVIOUS
  <1>1. PICK T \in Q : \A U \in SUBSET T : U # T => U \notin Q
    <2>1. Q \in SUBSET SUBSET S OBVIOUS
    <2> HIDE DEF Q
    <2> QED BY <2>1, SmallestSubset
  <1>2. T # {}
    <2>1. SumFunctionOnSet(g, {}) = 0 /\ SumFunctionOnSet(f, {}) = 0 BY SumEmpty
    <2>2. SumFunctionOnSet(g, {}) = c * SumFunctionOnSet(f, {}) BY <2>1
    <2> QED BY <2>2
  <1> DEFINE a == First(T)
             R == T \ {a}
  <1>3. IsFiniteSet(T) /\ a \in T /\ IsFiniteSet(R) /\ R \in SUBSET T /\ R # T
    BY <1>2, FS_Subset, FirstIn
  <1>4. SumFunctionOnSet(g, R) = c * SumFunctionOnSet(f, R) BY <1>1, <1>3
  <1>5. /\ SumFunctionOnSet(g, T) = g[a] + SumFunctionOnSet(g, R)
        /\ SumFunctionOnSet(f, T) = f[a] + SumFunctionOnSet(f, R)
    BY <1>2, <1>3, SumFirst
  <1>6. f[a] \in Int /\ g[a] = c * f[a] BY <1>3
  <1>7. SumFunctionOnSet(f, R) \in Int
    <2>1. \A x \in R : f[x] \in Int OBVIOUS
    <2> HIDE DEF R
    <2> QED BY <1>3, <2>1, SumInt
  <1>8. SumFunctionOnSet(g, T) = c * SumFunctionOnSet(f, T)
    <2>1. ASSUME NEW i \in Int, NEW j \in Int PROVE c * i + c * j = c * (i + j) BY SMT
    <2> HIDE DEF R, a
    <2> QED BY <1>4, <1>5, <1>6, <1>7, <2>1
  <1> QED BY <1>8

\* A sum of naturals is at least each of them.
LEMMA SumNat ==
  ASSUME NEW f, NEW S, IsFiniteSet(S), \A x \in S : f[x] \in Nat
  PROVE  /\ SumFunctionOnSet(f, S) \in Nat
         /\ \A x \in S : f[x] <= SumFunctionOnSet(f, S)
  <1>1. \A T \in SUBSET S : SumFunctionOnSet(f, T) \in Nat
    <2> DEFINE Q == {T \in SUBSET S : SumFunctionOnSet(f, T) \notin Nat}
    <2> SUFFICES ASSUME Q # {} PROVE FALSE OBVIOUS
    <2>1. PICK T \in Q : \A U \in SUBSET T : U # T => U \notin Q
      <3>1. Q \in SUBSET SUBSET S OBVIOUS
      <3> HIDE DEF Q
      <3> QED BY <3>1, SmallestSubset
    <2>2. T # {} BY SumEmpty
    <2>3. IsFiniteSet(T) /\ First(T) \in T BY <2>2, FS_Subset, FirstIn
    <2>4. SumFunctionOnSet(f, T \ {First(T)}) \in Nat BY <2>1, <2>3
    <2>5. SumFunctionOnSet(f, T) = f[First(T)] + SumFunctionOnSet(f, T \ {First(T)})
      BY <2>2, <2>3, SumFirst
    <2>6. f[First(T)] \in Nat BY <2>3
    <2>7. SumFunctionOnSet(f, T) \in Nat BY <2>4, <2>5, <2>6
    <2> QED BY <2>7
  <1>2. ASSUME NEW x \in S PROVE f[x] <= SumFunctionOnSet(f, S)
    <2>1. SumFunctionOnSet(f, S \ {x}) \in Nat BY <1>1
    <2>2. SumFunctionOnSet(f, S) = f[x] + SumFunctionOnSet(f, S \ {x}) BY SumRemove
    <2> QED BY <2>1, <2>2
  <1> QED BY <1>1, <1>2

\* Sums keep an order.
LEMMA SumLeq ==
  ASSUME NEW f, NEW g, NEW S, IsFiniteSet(S),
         \A x \in S : f[x] \in Int /\ g[x] \in Int /\ f[x] <= g[x]
  PROVE  SumFunctionOnSet(f, S) <= SumFunctionOnSet(g, S)
  <1> DEFINE d == [x \in S |-> g[x] - f[x]]
  <1>1. \A x \in S : d[x] \in Nat /\ d[x] \in Int /\ f[x] \in Int /\ g[x] = f[x] + d[x] OBVIOUS
  <1> HIDE DEF d
  <1>2. SumFunctionOnSet(g, S) = SumFunctionOnSet(f, S) + SumFunctionOnSet(d, S) BY <1>1, SumPlus
  <1>3. SumFunctionOnSet(d, S) \in Nat /\ SumFunctionOnSet(f, S) \in Int BY <1>1, SumNat, SumInt
  <1> QED BY <1>2, <1>3

\* The image of a finite set.
LEMMA FiniteImage ==
  ASSUME NEW f, NEW S, IsFiniteSet(S)
  PROVE  IsFiniteSet({f[x] : x \in S}) /\ Cardinality({f[x] : x \in S}) <= Cardinality(S)
  <1> DEFINE T == {f[x] : x \in S}
             g == [x \in S |-> f[x]]
  <1>1. g \in Surjection(S, T) BY DEF Surjection
  <1> HIDE DEF g
  <1> QED BY <1>1, FS_Surjection

\* A finite set that is ordered has a first member.
LEMMA Least ==
  ASSUME NEW S, IsFiniteSet(S), S # {}, NEW R,
         \A x, y \in S : <<x, y>> \in R \/ <<y, x>> \in R,
         \A x, y, z \in S : <<x, y>> \in R /\ <<y, z>> \in R => <<x, z>> \in R
  PROVE  \E x \in S : \A y \in S : <<x, y>> \in R
  <1> DEFINE Has(T) == \E x \in T : \A y \in T : <<x, y>> \in R
             Q == {T \in SUBSET S : T # {} /\ ~ Has(T)}
  <1> SUFFICES ASSUME Q # {} PROVE FALSE
    <2>1. S \notin Q => Has(S) OBVIOUS
    <2> QED BY <2>1
  <1>1. PICK T \in Q : \A U \in SUBSET T : U # T => U \notin Q
    <2>1. Q \in SUBSET SUBSET S OBVIOUS
    <2> HIDE DEF Q
    <2> QED BY <2>1, SmallestSubset
  <1>2. PICK c \in T : TRUE OBVIOUS
  <1>3. c \in S /\ <<c, c>> \in R BY <1>2
  <1> DEFINE U == T \ {c}
  <1>4. CASE U = {} BY <1>3, <1>4
  <1>5. CASE U # {}
    <2>1. Has(U)
      <3>1. U \in SUBSET T /\ U # T /\ U \in SUBSET S BY <1>2
      <3>2. U \notin Q
        <4> HIDE DEF Q, U
        <4> QED BY <1>1, <3>1
      <3> HIDE DEF U, Has
      <3> QED BY <1>5, <3>1, <3>2
    <2>2. PICK x \in U : \A y \in U : <<x, y>> \in R BY <2>1
    <2>3. CASE <<x, c>> \in R BY <2>2, <2>3
    <2>4. CASE <<c, x>> \in R
      <3>1. \A y \in U : <<c, y>> \in R BY <1>3, <2>2, <2>4
      <3> QED BY <1>2, <1>3, <3>1
    <2> QED BY <1>3, <2>3, <2>4
  <1> QED BY <1>4, <1>5

\* The least and the greatest of a finite set of integers.
LEMMA MinMax ==
  ASSUME NEW S \in SUBSET Int, IsFiniteSet(S), S # {}
  PROVE  /\ Min(S) \in S /\ \A y \in S : Min(S) <= y
         /\ Max(S) \in S /\ \A y \in S : Max(S) >= y
  <1>1. \E x \in S : \A y \in S : x =< y
    <2> DEFINE R == {p \in S \X S : p[1] <= p[2]}
    <2>1. \A x, y \in S : <<x, y>> \in R <=> x <= y OBVIOUS
    <2> HIDE DEF R
    <2>2. \A x, y \in S : <<x, y>> \in R \/ <<y, x>> \in R
      <3> SUFFICES ASSUME NEW x \in S, NEW y \in S
                   PROVE  <<x, y>> \in R \/ <<y, x>> \in R
        OBVIOUS
      <3>1. x \in Int /\ y \in Int OBVIOUS
      <3> QED BY <2>1, <3>1
    <2>3. \A x, y, z \in S : <<x, y>> \in R /\ <<y, z>> \in R => <<x, z>> \in R BY <2>1
    <2>4. \E x \in S : \A y \in S : <<x, y>> \in R BY <2>2, <2>3, Least
    <2> QED BY <2>1, <2>4
  <1>2. \E x \in S : \A y \in S : x >= y
    <2> DEFINE R == {p \in S \X S : p[1] >= p[2]}
    <2>1. \A x, y \in S : <<x, y>> \in R <=> x >= y OBVIOUS
    <2> HIDE DEF R
    <2>2. \A x, y \in S : <<x, y>> \in R \/ <<y, x>> \in R
      <3> SUFFICES ASSUME NEW x \in S, NEW y \in S
                   PROVE  <<x, y>> \in R \/ <<y, x>> \in R
        OBVIOUS
      <3>1. x \in Int /\ y \in Int OBVIOUS
      <3> QED BY <2>1, <3>1
    <2>3. \A x, y, z \in S : <<x, y>> \in R /\ <<y, z>> \in R => <<x, z>> \in R BY <2>1
    <2>4. \E x \in S : \A y \in S : <<x, y>> \in R BY <2>2, <2>3, Least
    <2> QED BY <2>1, <2>4
  <1> QED BY <1>1, <1>2 DEF Min, Max

------------------------------------------------------------------------------
(* int64 arithmetic.                                                        *)

Modulus == 2 * (MaxInt64 + 1)

\* Division by a positive number, made explicit.
LEMMA DivMod ==
  ASSUME NEW a \in Int, NEW w \in Nat \ {0}
  PROVE  /\ a \div w \in Int /\ a % w \in 0 .. w - 1
         /\ a = w * (a \div w) + (a % w)
  BY SMT

\* Quotient and remainder are the only ones.
LEMMA DivModUnique ==
  ASSUME NEW w \in Nat \ {0}, NEW q \in Int, NEW r \in 0 .. w - 1,
         NEW p \in Int, NEW s \in 0 .. w - 1, w * q + r = w * p + s
  PROVE  q = p /\ r = s
  <1>1. w * (q - p) = s - r BY SMT
  <1>2. q - p \in Int /\ s - r \in Int /\ s - r < w /\ r - s < w OBVIOUS
  <1>3. ASSUME NEW k \in Int, NEW d \in Int, w * k = d, d < w, -d < w PROVE k = 0
    <2>1. CASE k >= 1
      <3>1. w * k >= w * 1 BY <2>1, SMT
      <3> QED BY <1>3, <3>1
    <2>2. CASE k <= -1
      <3>1. w * (-k) >= w * 1 BY <2>2, SMT
      <3>2. w * (-k) = -d BY <1>3, SMT
      <3> QED BY <1>3, <3>1, <3>2
    <2> QED BY <2>1, <2>2
  <1>4. q - p = 0
    <2>1. -(s - r) < w BY <1>2
    <2> QED BY <1>1, <1>2, <1>3, <2>1
  <1>5. s - r = 0 BY <1>1, <1>4, SMT
  <1> QED BY <1>4, <1>5

\* A multiple of the modulus changes no remainder.
LEMMA ModShift ==
  ASSUME NEW a \in Int, NEW w \in Nat \ {0}, NEW q \in Int
  PROVE  (a + w * q) % w = a % w
  <1> DEFINE b == a + w * q
  <1>1. b \in Int BY SMT
  <1>2. a \div w \in Int /\ a % w \in 0 .. w - 1 /\ a = w * (a \div w) + (a % w) BY DivMod
  <1>3. b \div w \in Int /\ b % w \in 0 .. w - 1 /\ b = w * (b \div w) + (b % w)
    <2> HIDE DEF b
    <2> QED BY <1>1, DivMod
  <1>4. w * (b \div w) + (b % w) = w * ((a \div w) + q) + (a % w)
    <2>1. ASSUME NEW d \in Int, NEW r \in Int, a = w * d + r
          PROVE  a + w * q = w * (d + q) + r
      <3>1. w * (d + q) = w * d + w * q BY SMT
      <3>2. w * d \in Int /\ w * q \in Int BY SMT
      <3> QED BY <2>1, <3>1, <3>2
    <2>2. b = w * ((a \div w) + q) + (a % w) BY <1>2, <2>1
    <2> HIDE DEF b
    <2> QED BY <1>3, <2>2
  <1>5. (a \div w) + q \in Int BY <1>2
  <1>6. b % w = a % w
    <2>1. a % w \in 0 .. w - 1 /\ b % w \in 0 .. w - 1 /\ b \div w \in Int BY <1>2, <1>3
    <2> HIDE DEF b
    <2> QED BY <1>4, <1>5, <2>1, DivModUnique
  <1> QED BY <1>6

\* The modulus of int64.
LEMMA ModulusPositive == Modulus \in Nat \ {0} /\ MaxInt64 \in Nat
  BY PricingAssumption DEF Modulus

\* int64 addition keeps a number up to a multiple of 2^64.
LEMMA WrapShift ==
  ASSUME NEW x \in Int, NEW q \in Int
  PROVE  Wrap(x + Modulus * q) = Wrap(x)
  <1> DEFINE a == x + MaxInt64 + 1
             w == Modulus
  <1>1. a \in Int /\ w \in Nat \ {0} BY ModulusPositive
  <1>2. (a + w * q) % w = a % w
    <2> HIDE DEF a, w
    <2> QED BY <1>1, ModShift
  <1>3. (x + w * q) + MaxInt64 + 1 = a + w * q
    <2>1. w * q \in Int
      <3> HIDE DEF w
      <3> QED BY <1>1, SMT
    <2> HIDE DEF w
    <2> QED BY <2>1, ModulusPositive
  <1>4. Wrap(x) = (a % w) - (MaxInt64 + 1) BY DEF Wrap, Modulus
  <1>5. Wrap(x + w * q) = (((x + w * q) + MaxInt64 + 1) % w) - (MaxInt64 + 1)
    BY DEF Wrap, Modulus
  <1> QED BY <1>2, <1>3, <1>4, <1>5

\* An int64 is a number up to a multiple of the modulus.
LEMMA WrapInt ==
  ASSUME NEW x \in Int
  PROVE  /\ Wrap(x) \in -(MaxInt64 + 1) .. MaxInt64
         /\ \E q \in Int : Wrap(x) = x + Modulus * q
  <1> DEFINE a == x + MaxInt64 + 1
             w == Modulus
  <1>1. a \in Int /\ w \in Nat \ {0} /\ w = 2 * (MaxInt64 + 1) /\ MaxInt64 \in Nat
    BY ModulusPositive DEF Modulus
  <1>2. a \div w \in Int /\ a % w \in 0 .. w - 1 /\ a = w * (a \div w) + (a % w)
    <2> HIDE DEF a, w
    <2> QED BY <1>1, DivMod
  <1>3. Wrap(x) = (a % w) - (MaxInt64 + 1) BY DEF Wrap, Modulus
  <1>4. Wrap(x) \in -(MaxInt64 + 1) .. MaxInt64
    <2> HIDE DEF a, w
    <2> QED BY <1>1, <1>2, <1>3
  <1>5. Wrap(x) = x + w * (-(a \div w))
    <2>1. ASSUME NEW d \in Int, NEW r \in Int, x + MaxInt64 + 1 = w * d + r
          PROVE  r - (MaxInt64 + 1) = x + w * (-d)
      <3>1. w * (-d) = -(w * d) /\ w * d \in Int
        <4> HIDE DEF w
        <4> QED BY <1>1, SMT
      <3> HIDE DEF w
      <3> QED BY <1>1, <2>1, <3>1
    <2>2. x + MaxInt64 + 1 = w * (a \div w) + (a % w) BY <1>2
    <2>3. a \div w \in Int /\ a % w \in Int BY <1>2
    <2> HIDE DEF w, a
    <2> QED BY <1>3, <2>1, <2>2, <2>3
  <1>6. -(a \div w) \in Int BY <1>2
  <1> HIDE DEF a
  <1> QED BY <1>4, <1>5, <1>6

\* A sum of wrapped numbers wraps to what the sum of the numbers does.
LEMMA WrapSum ==
  ASSUME NEW f, NEW g, NEW S, IsFiniteSet(S),
         \A x \in S : f[x] \in Int /\ g[x] = Wrap(f[x])
  PROVE  Wrap(SumFunctionOnSet(g, S)) = Wrap(SumFunctionOnSet(f, S))
  <1> DEFINE d == [x \in S |-> CHOOSE q \in Int : Wrap(f[x]) = f[x] + Modulus * q]
             m == [x \in S |-> Modulus * d[x]]
  <1>1. ASSUME NEW x \in S
        PROVE  d[x] \in Int /\ m[x] \in Int /\ g[x] = f[x] + m[x] /\ g[x] \in Int
    <2>1. \E q \in Int : Wrap(f[x]) = f[x] + Modulus * q BY WrapInt
    <2>2. d[x] \in Int /\ g[x] = f[x] + Modulus * d[x] BY <2>1
    <2> HIDE DEF d
    <2>3. Modulus * d[x] \in Int BY <2>2, ModulusPositive, SMT
    <2> QED BY <2>2, <2>3
  <1> HIDE DEF d
  <1>2. SumFunctionOnSet(g, S) = SumFunctionOnSet(f, S) + SumFunctionOnSet(m, S)
    <2> HIDE DEF m
    <2> QED BY <1>1, SumPlus
  <1>3. SumFunctionOnSet(m, S) = Modulus * SumFunctionOnSet(d, S)
    <2>1. \A x \in S : m[x] = Modulus * d[x] OBVIOUS
    <2> HIDE DEF m
    <2> QED BY <1>1, <2>1, ModulusPositive, SumTimes
  <1>4. SumFunctionOnSet(f, S) \in Int /\ SumFunctionOnSet(d, S) \in Int BY <1>1, SumInt
  <1> QED BY <1>2, <1>3, <1>4, WrapShift

------------------------------------------------------------------------------
(* Prices.                                                                  *)

\* A sum that fits comes through int64 addition unchanged.
LEMMA WrapFits == ASSUME NEW x \in 0 .. MaxInt64 PROVE Wrap(x) = x
  <1>1. MaxInt64 \in Nat \ {0} BY PricingAssumption
  <1> DEFINE w == 2 * (MaxInt64 + 1)
  <1>2. /\ x + MaxInt64 + 1 \in Nat
        /\ x + MaxInt64 + 1 < w
        /\ w \in Nat \ {0}
    BY <1>1
  <1>3. (x + MaxInt64 + 1) % w = x + MaxInt64 + 1
    <2> SUFFICES ASSUME NEW a \in Nat, NEW b \in Nat \ {0}, a < b PROVE a % b = a
      BY <1>2
    <2> QED BY SMT
  <1> QED BY <1>1, <1>3 DEF Wrap

\* A cost is a natural number.
LEMMA ExactNat ==
  ASSUME NEW tokens \in Int, NEW rate \in Int
  PROVE  Exact(tokens, rate) \in Nat
  <1>1. Million \in Nat \ {0} BY PricingAssumption
  <1>2. CASE tokens <= 0 \/ rate <= 0 BY <1>2 DEF Exact
  <1>3. CASE ~(tokens <= 0 \/ rate <= 0)
    <2>1. tokens * rate \in Nat BY <1>3, SMT
    <2>2. ASSUME NEW a \in Nat, NEW b \in Nat \ {0} PROVE a \div b \in Nat BY SMT
    <2> QED BY <1>1, <1>3, <2>1, <2>2 DEF Exact
  <1> QED BY <1>2, <1>3

\* micros is the cost, or the largest amount when the cost is larger.
LEMMA MicrosExact ==
  ASSUME NEW tokens \in Int, NEW rate \in Int, Exact(tokens, rate) <= MaxInt64
  PROVE  Micros(tokens, rate) = Exact(tokens, rate)
  BY ExactNat, PricingAssumption DEF Micros, Exact

\* The two tiers are a split of a cache write.
LEMMA OneHourSplits ==
  ASSUME NEW tk \in [Class -> Int]
  PROVE  /\ OneHour(tk) \in Int
         /\ FiveMin(tk) = tk.cacheWrite - OneHour(tk)
         /\ FiveMin(tk) \in Int
         /\ tk.cacheWrite >= 0 => OneHour(tk) >= 0 /\ OneHour(tk) <= tk.cacheWrite
  BY DEF OneHour, FiveMin, Class

\* The sum Price stores and the sum of the components are one sum, and it is
\* the cost when the cost fits.
LEMMA PriceExact ==
  ASSUME NEW tk \in [Class -> Int], NEW r \in [RateClass -> Nat],
         ExactCost(r, tk) <= MaxInt64, 2 * r.input <= MaxInt64
  PROVE  /\ ApiEquivalent(r, tk) = ExactCost(r, tk)
         /\ ComponentsTotal(Components(r, tk)) = ExactCost(r, tk)
  <1> DEFINE a == Exact(tk.input, r.input)
             b == Exact(tk.output, r.output)
             c == Exact(tk.cacheRead, r.cacheRead)
             d == Exact(FiveMin(tk), r.cacheWrite)
             e == Exact(OneHour(tk), 2 * r.input)
  <1>1. /\ tk.input \in Int /\ tk.output \in Int /\ tk.cacheRead \in Int
        /\ tk.cacheWrite \in Int
        /\ r.input \in Int /\ r.output \in Int /\ r.cacheRead \in Int
        /\ r.cacheWrite \in Int /\ 2 * r.input \in Int
    BY DEF Class, RateClass
  <1>2. OneHour(tk) \in Int /\ FiveMin(tk) \in Int /\ FiveMin(tk) = tk.cacheWrite - OneHour(tk)
    BY OneHourSplits
  <1>3. a \in Nat /\ b \in Nat /\ c \in Nat /\ d \in Nat /\ e \in Nat
    BY <1>1, <1>2, ExactNat
  <1>4. ExactCost(r, tk) = a + b + c + d + e
    BY <1>2 DEF ExactCost
  <1>5. MaxInt64 \in Nat BY PricingAssumption
  <1>6. a + b + c + d + e \in 0 .. MaxInt64
    <2> HIDE DEF a, b, c, d, e
    <2> QED BY <1>3, <1>4, <1>5
  <1>7. a <= MaxInt64 /\ b <= MaxInt64 /\ c <= MaxInt64 /\ d <= MaxInt64 /\ e <= MaxInt64
    <2> HIDE DEF a, b, c, d, e
    <2> QED BY <1>3, <1>5, <1>6
  <1>8. Micros(OneHour(tk), OneHourRate(r)) = e
    <2>1. 2 * r.input \in 0 .. MaxInt64 BY <1>1, <1>5, SMT DEF RateClass, Class
    <2>2. OneHourRate(r) = 2 * r.input BY <2>1, WrapFits DEF OneHourRate
    <2> QED BY <1>1, <1>2, <1>7, <2>2, MicrosExact
  <1>9. /\ Micros(tk.input, r.input) = a
        /\ Micros(tk.output, r.output) = b
        /\ Micros(tk.cacheRead, r.cacheRead) = c
        /\ Micros(FiveMin(tk), r.cacheWrite) = d
    BY <1>1, <1>2, <1>7, MicrosExact
  <1>10. Wrap(a + b + c + d + e) = a + b + c + d + e BY <1>6, WrapFits
  <1>11. ApiEquivalent(r, tk) = Wrap(a + b + c + d + e)
    <2> HIDE DEF a, b, c, d, e
    <2> QED BY <1>8, <1>9 DEF ApiEquivalent
  <1>12. ComponentsTotal(Components(r, tk)) = Wrap(a + b + c + d + e)
    <2> HIDE DEF a, b, c, d, e
    <2> QED BY <1>8, <1>9 DEF ComponentsTotal, Components
  <1> QED BY <1>4, <1>10, <1>11, <1>12

\* The five terms of a price, added as integers.
Terms(r, tk) ==
    Micros(tk.input, r.input) + Micros(tk.output, r.output)
        + Micros(tk.cacheRead, r.cacheRead) + Micros(FiveMin(tk), r.cacheWrite)
        + Micros(OneHour(tk), OneHourRate(r))

\* The cost of a class is a natural number.
LEMMA MicrosNat ==
  ASSUME NEW tokens \in Int, NEW rate \in Int
  PROVE  Micros(tokens, rate) \in Nat
  <1>1. Million \in Nat \ {0} /\ MaxInt64 \in Nat BY PricingAssumption
  <1>2. CASE tokens <= 0 \/ rate <= 0 BY <1>2 DEF Micros
  <1>3. CASE ~(tokens <= 0 \/ rate <= 0)
    <2>1. tokens * rate \in Nat BY <1>3, SMT
    <2>2. (tokens * rate) \div Million \in Nat
      <3>1. ASSUME NEW a \in Nat, NEW b \in Nat \ {0} PROVE a \div b \in Nat BY SMT
      <3> QED BY <1>1, <2>1, <3>1
    <2> QED BY <1>1, <1>3, <2>2 DEF Micros
  <1> QED BY <1>2, <1>3

\* The five terms and the price made of them.
LEMMA TermsNat ==
  ASSUME NEW tk \in [Class -> Int], NEW r \in [RateClass -> Nat]
  PROVE  /\ Components(r, tk) \in [Class -> Nat]
         /\ Terms(r, tk) \in Nat
         /\ ApiEquivalent(r, tk) = Wrap(Terms(r, tk))
         /\ ApiEquivalent(r, tk) \in -(MaxInt64 + 1) .. MaxInt64
         /\ Terms(r, tk) = SumFunctionOnSet(Components(r, tk), Class)
  <1> DEFINE c == Components(r, tk)
  <1>1. /\ tk.input \in Int /\ tk.output \in Int /\ tk.cacheRead \in Int
        /\ r.input \in Int /\ r.output \in Int /\ r.cacheRead \in Int
        /\ r.cacheWrite \in Int /\ 2 * r.input \in Int
    BY DEF Class, RateClass
  <1>2. OneHour(tk) \in Int /\ FiveMin(tk) \in Int BY OneHourSplits
  <1>3. OneHourRate(r) \in Int
    <2>1. Wrap(2 * r.input) \in -(MaxInt64 + 1) .. MaxInt64 BY <1>1, WrapInt
    <2> QED BY <2>1, ModulusPositive DEF OneHourRate
  <1>4. /\ Micros(tk.input, r.input) \in Nat /\ Micros(tk.output, r.output) \in Nat
        /\ Micros(tk.cacheRead, r.cacheRead) \in Nat /\ Micros(FiveMin(tk), r.cacheWrite) \in Nat
        /\ Micros(OneHour(tk), OneHourRate(r)) \in Nat
    BY <1>1, <1>2, <1>3, MicrosNat
  <1>5. c \in [Class -> Nat]
    BY <1>4 DEF Components, Class
  <1>6. Terms(r, tk) \in Nat
    BY <1>4 DEF Terms
  <1>7. Terms(r, tk) = c["input"] + (c["output"] + (c["cacheRead"]
                         + (c["cacheWrite"] + c["cacheWrite1h"])))
    <2>1. Terms(r, tk) = c.input + c.output + c.cacheRead + c.cacheWrite + c.cacheWrite1h
      BY DEF Terms, Components
    <2> HIDE DEF c
    <2> QED BY <1>5, <2>1 DEF Class
  <1>8. SumFunctionOnSet(c, Class) = c["input"] + (c["output"] + (c["cacheRead"]
                         + (c["cacheWrite"] + c["cacheWrite1h"])))
    <2> HIDE DEF c
    <2> DEFINE E == {"cacheWrite1h"}
               D == {"cacheWrite"} \cup E
               C == {"cacheRead"} \cup D
               B == {"output"} \cup C
    <2>1. IsFiniteSet(E) /\ IsFiniteSet(D) /\ IsFiniteSet(C) /\ IsFiniteSet(B)
      BY FS_Singleton, FS_Union
    <2>2. Class = {"input"} \cup B BY DEF Class
    <2>3. ASSUME NEW x \in Class, NEW R \in SUBSET Class, x \notin R, IsFiniteSet(R)
          PROVE  SumFunctionOnSet(c, {x} \cup R) = c[x] + SumFunctionOnSet(c, R)
      <3>1. IsFiniteSet({x} \cup R) /\ ({x} \cup R) \ {x} = R
        BY <2>3, FS_Singleton, FS_Union
      <3>2. \A y \in {x} \cup R : c[y] \in Int BY <1>5
      <3> QED BY <3>1, <3>2, SumRemove
    <2>4. /\ E \in SUBSET Class /\ D \in SUBSET Class /\ C \in SUBSET Class /\ B \in SUBSET Class
          /\ "cacheWrite" \notin E /\ "cacheRead" \notin D /\ "output" \notin C /\ "input" \notin B
          /\ "cacheWrite" \in Class /\ "cacheRead" \in Class /\ "output" \in Class
          /\ "input" \in Class /\ "cacheWrite1h" \in Class
      BY DEF Class
    <2>5. SumFunctionOnSet(c, E) = c["cacheWrite1h"]
      <3>1. c["cacheWrite1h"] \in Int BY <1>5, <2>4
      <3> QED BY <3>1, SumSingle
    <2> HIDE DEF E
    <2>6. SumFunctionOnSet(c, D) = c["cacheWrite"] + SumFunctionOnSet(c, E) BY <2>1, <2>3, <2>4
    <2> HIDE DEF D
    <2>7. SumFunctionOnSet(c, C) = c["cacheRead"] + SumFunctionOnSet(c, D) BY <2>1, <2>3, <2>4
    <2> HIDE DEF C
    <2>8. SumFunctionOnSet(c, B) = c["output"] + SumFunctionOnSet(c, C) BY <2>1, <2>3, <2>4
    <2> HIDE DEF B
    <2>9. SumFunctionOnSet(c, {"input"} \cup B) = c["input"] + SumFunctionOnSet(c, B)
      BY <2>1, <2>3, <2>4
    <2> QED BY <2>2, <2>5, <2>6, <2>7, <2>8, <2>9
  <1>9. ApiEquivalent(r, tk) = Wrap(Terms(r, tk)) BY DEF ApiEquivalent, Terms
  <1>10. ApiEquivalent(r, tk) \in -(MaxInt64 + 1) .. MaxInt64
    BY <1>6, <1>9, WrapInt
  <1> QED BY <1>5, <1>6, <1>7, <1>8, <1>9, <1>10

----------------------------------------------------------------------------
(* What the ledger holds.                                                   *)

------------------------------------------------------------------------------
(* Types: what every state has, and the inductive invariant of this module. *)

\* int64.
Amount == -(MaxInt64 + 1) .. MaxInt64

\* A turn of the ledger.
TurnRecord ==
    [ id : Nat, ts : WorkAt, provider : Provider, model : Int, session : Int, repo : Int,
      files : {s \in Seq(Int) : IsInjective(s)}, tokens : [Class -> Int],
      reported : Int \cup {NoCost}, api : Amount \cup {NoCost},
      method : {"reported", "token_priced", "inferred"} ]

Typed == /\ now \in Moments
         /\ plan \in [Provider -> Plan \cup {ApiPlan}]
         /\ table \in DOMAIN Rates
         /\ IsFiniteSet(ledger) /\ Cardinality(ledger) <= MaxTurns
         /\ ledger \subseteq TurnRecord
         /\ \A e \in ledger : e.ts <= now

\* The moments are instants.
LEMMA Instants == Moments \subseteq Int /\ WorkAt \subseteq Int /\ WorkAt \subseteq Nat
  BY ReportAssumption

\* Pricing changes the cost of a turn and how it was come by, nothing else.
LEMMA PriceTyped ==
  ASSUME NEW t \in DOMAIN Rates, NEW e \in TurnRecord
  PROVE  Price(e, Rates[t]) \in TurnRecord /\ Price(e, Rates[t]).ts = e.ts
  <1> DEFINE total == ApiEquivalent(Rates[t][e.model], e.tokens)
             api == IF e.model \in DOMAIN Rates[t] THEN total ELSE e.api
  <1>1. api \in Amount \cup {NoCost}
    <2>1. CASE e.model \in DOMAIN Rates[t]
      <3>1. Rates[t][e.model] \in [RateClass -> Nat] BY <2>1, ReportAssumption
      <3>2. e.tokens \in [Class -> Int] BY DEF TurnRecord
      <3> QED BY <2>1, <3>1, <3>2, TermsNat DEF Amount
    <2>2. CASE e.model \notin DOMAIN Rates[t] BY <2>2 DEF TurnRecord
    <2> QED BY <2>1, <2>2
  <1> DEFINE method == IF e.reported # NoCost /\ e.reported > 0 THEN "reported"
                       ELSE IF e.model \in DOMAIN Rates[t] THEN "token_priced" ELSE "inferred"
  <1>2. Price(e, Rates[t]) = [e EXCEPT !.api = api, !.method = method]
    BY DEF Price, TurnRecord
  <1>3. method \in {"reported", "token_priced", "inferred"} OBVIOUS
  <1> HIDE DEF api, method
  <1> QED BY <1>1, <1>2, <1>3 DEF TurnRecord

\* The ledger begins empty, priced by one of the tables.
THEOREM TypedInit == Init => Typed
  BY FS_EmptySet, ReportAssumption DEF Init, Typed

\* An import brings a turn of one of the shapes, a refresh prices the turns again.
THEOREM TypedNext == Typed /\ [Next]_vars => Typed'
  <1> SUFFICES ASSUME Typed, [Next]_vars PROVE Typed' OBVIOUS
  <1> USE DEF Typed
  <1>1. CASE Work
    <2> PICK shape \in Shape :
          ledger' = ledger \cup {Price(Turn(Cardinality(ledger) + 1, shape), Rates[table])}
      BY <1>1 DEF Work
    <2> DEFINE turn == Turn(Cardinality(ledger) + 1, shape)
               new == Price(turn, Rates[table])
    <2>1. Cardinality(ledger) \in Nat /\ MaxTurns \in Nat BY FS_CardinalityType, ReportAssumption
    <2>2. turn \in TurnRecord /\ turn.ts = now
      <3>1. now \in WorkAt BY <1>1 DEF Work
      <3>2. /\ shape.provider \in Provider
            /\ shape.model \in Int /\ shape.session \in Int /\ shape.repo \in Int
            /\ shape.files \in {s \in Seq(Int) : IsInjective(s)}
            /\ shape.tokens \in [Class -> Int]
            /\ shape.reported \in Int \cup {NoCost}
        BY ReportAssumption
      <3> QED BY <2>1, <3>1, <3>2 DEF Turn, TurnRecord
    <2>3. new \in TurnRecord /\ new.ts = now
      <3> HIDE DEF turn
      <3> QED BY <2>2, PriceTyped
    <2> HIDE DEF new
    <2>4. IsFiniteSet(ledger') /\ Cardinality(ledger') <= MaxTurns
      <3>1. Cardinality(ledger) < MaxTurns BY <1>1 DEF Work
      <3>2. /\ IsFiniteSet(ledger \cup {new})
            /\ Cardinality(ledger \cup {new})
                 = IF new \in ledger THEN Cardinality(ledger) ELSE Cardinality(ledger) + 1
        BY FS_AddElement
      <3>3. ledger' = ledger \cup {new} BY DEF new
      <3>4. Cardinality(ledger) \in Nat /\ MaxTurns \in Nat
        BY FS_CardinalityType, ReportAssumption DEF Typed
      <3> DEFINE was == Cardinality(ledger)
                 is == Cardinality(ledger \cup {new})
      <3>5. is = was \/ is = was + 1 BY <3>2
      <3>6. was < MaxTurns /\ was \in Nat BY <3>1, <3>4
      <3> HIDE DEF was, is
      <3>7. is <= MaxTurns BY <3>4, <3>5, <3>6
      <3> QED BY <3>2, <3>3, <3>7 DEF is
    <2>5. now \in Int BY ReportAssumption
    <2>6. ledger' = ledger \cup {new} BY DEF new
    <2> QED BY <1>1, <2>3, <2>4, <2>5, <2>6 DEF Work
  <1>2. CASE Pass
    <2>1. PICK t \in Moments : now < t /\ now' = t BY <1>2 DEF Pass
    <2>2. \A e \in ledger : e.ts \in Int
      <3> SUFFICES ASSUME NEW e \in ledger PROVE e.ts \in Int OBVIOUS
      <3>1. e \in TurnRecord OBVIOUS
      <3>2. e.ts \in WorkAt BY <3>1 DEF TurnRecord
      <3> HIDE DEF Typed
      <3> QED BY <3>2, Instants
    <2>3. now \in Int /\ t \in Int BY Instants
    <2> QED BY <1>2, <2>1, <2>2, <2>3 DEF Pass
  <1>3. CASE ChoosePlan BY <1>3 DEF ChoosePlan
  <1>4. CASE Refresh
    <2> PICK t \in DOMAIN Rates : table' = t /\ ledger' = {Price(e, Rates[t]) : e \in ledger}
      BY <1>4 DEF Refresh
    <2> DEFINE again == [e \in ledger |-> Price(e, Rates[t])]
    <2>1. \A e \in ledger : again[e] \in TurnRecord /\ again[e].ts = e.ts
      BY PriceTyped
    <2>2. ledger' = {again[e] : e \in ledger} OBVIOUS
    <2> HIDE DEF again
    <2>3. IsFiniteSet(ledger') /\ Cardinality(ledger') <= Cardinality(ledger)
      <3>1. /\ IsFiniteSet({again[e] : e \in ledger})
            /\ Cardinality({again[e] : e \in ledger}) <= Cardinality(ledger)
        BY FiniteImage
      <3> QED BY <2>2, <3>1
    <2>4. Cardinality(ledger') <= MaxTurns
      BY <2>3, FS_CardinalityType, ReportAssumption
    <2> QED BY <1>4, <2>1, <2>2, <2>3, <2>4 DEF Refresh
  <1>5. CASE RefreshCut BY <1>5 DEF RefreshCut
  <1>6. CASE UNCHANGED vars BY <1>6 DEF vars
  <1> QED BY <1>1, <1>2, <1>3, <1>4, <1>5, <1>6 DEF Next

\* The types of the state, with every cost an int64, for any bounds and any tables.
THEOREM ReportTypeCorrect == Spec => []TypeOK
  <1>1. Typed => TypeOK
    BY DEF Typed, TypeOK, TurnRecord, Amount
  <1> QED BY TypedInit, TypedNext, <1>1, PTL DEF Spec

\* In every state the price of every turn, from the table a surface would load,
\* is exact whenever it fits (pricing.go: Price, Components, micros).
THEOREM PricesAreExact == Spec => []PriceIsExactWhenItFits
  <1>1. Typed => PriceIsExactWhenItFits
    <2> SUFFICES ASSUME Typed, NEW e \in ledger
                 PROVE  /\ e.model \in DOMAIN Rates[table] =>
                              LET r == Rates[table][e.model]
                              IN ExactCost(r, e.tokens) <= MaxInt64 /\ 2 * r.input <= MaxInt64
                                 => /\ ApiEquivalent(r, e.tokens) = ExactCost(r, e.tokens)
                                    /\ ComponentsTotal(Components(r, e.tokens)) = ExactCost(r, e.tokens)
                        /\ e.tokens.cacheWrite >= 0 =>
                              OneHour(e.tokens) >= 0 /\ OneHour(e.tokens) <= e.tokens.cacheWrite
      BY DEF PriceIsExactWhenItFits
    <2>1. e \in TurnRecord /\ table \in DOMAIN Rates BY DEF Typed
    <2>2. e.tokens \in [Class -> Int] BY <2>1 DEF TurnRecord
    <2>3. ASSUME e.model \in DOMAIN Rates[table]
          PROVE  Rates[table][e.model] \in [RateClass -> Nat]
      BY <2>1, <2>3, ReportAssumption
    <2> QED BY <2>2, <2>3, PriceExact, OneHourSplits
  <1> QED BY TypedInit, TypedNext, <1>1, PTL DEF Spec

------------------------------------------------------------------------------
(* Reports: rows, totals and breakdowns.                                    *)

----------------------------------------------------------------------------
(* Sums over turns.                                                         *)

\* The cost of some turns as the sum of a function.
LEMMA CostSum ==
  ASSUME NEW events, NEW view
  PROVE  Cost(events, view)
           = SumFunctionOnSet([e \in Priced(events, view) |-> PickView(e, view)],
                              Priced(events, view))
  BY DEF Cost, MapThenSumSet, SumFunctionOnSet, FoldFunctionOnSet, MapThenFoldSet

\* The priced turns and what they cost.
LEMMA PricedTyped ==
  ASSUME NEW events \in SUBSET TurnRecord, IsFiniteSet(events), NEW view
  PROVE  /\ IsFiniteSet(Priced(events, view)) /\ Priced(events, view) \subseteq events
         /\ \A e \in Priced(events, view) : PickView(e, view) \in Int
  <1>1. Priced(events, view) \in SUBSET events BY DEF Priced
  <1>2. ASSUME NEW e \in Priced(events, view) PROVE PickView(e, view) \in Int
    <2>1. e \in TurnRecord /\ PickView(e, view) # NoCost BY DEF Priced
    <2>2. e.reported \in Int \cup {NoCost} /\ e.api \in Amount \cup {NoCost}
      BY <2>1 DEF TurnRecord
    <2>3. Amount \subseteq Int BY PricingAssumption DEF Amount
    <2> QED BY <2>1, <2>2, <2>3 DEF PickView
  <1> QED BY <1>1, <1>2, FS_Subset

\* A cost is an integer.
LEMMA CostInt ==
  ASSUME NEW events \in SUBSET TurnRecord, IsFiniteSet(events), NEW view
  PROVE  Cost(events, view) \in Int
  <1> DEFINE v == [e \in Priced(events, view) |-> PickView(e, view)]
  <1>1. IsFiniteSet(Priced(events, view)) /\ \A e \in Priced(events, view) : v[e] \in Int
    BY PricedTyped
  <1>2. SumFunctionOnSet(v, Priced(events, view)) \in Int
    <2> HIDE DEF v
    <2> QED BY <1>1, SumInt
  <1> QED BY <1>2, CostSum

\* The distinct files of a turn.
LEMMA FilesOf ==
  ASSUME NEW s \in Seq(Int), IsInjective(s), s # <<>>
  PROVE  /\ IsFiniteSet(Range(s)) /\ Cardinality(Range(s)) = Len(s) /\ Len(s) \in Nat \ {0}
         /\ s[1] \in Range(s)
  <1>1. Len(s) \in Nat \ {0} /\ DOMAIN s = 1 .. Len(s) OBVIOUS
  <1>2. IsFiniteSet(1 .. Len(s)) /\ Cardinality(1 .. Len(s)) = Len(s)
    BY <1>1, FS_Interval
  <1>3. s \in Surjection(1 .. Len(s), Range(s))
    BY <1>1 DEF Surjection, Range
  <1>4. s \in Injection(1 .. Len(s), Range(s))
    BY <1>1, <1>3 DEF Surjection, Injection
  <1>5. IsFiniteSet(Range(s)) /\ Cardinality(Range(s)) = Len(s)
    <2> DEFINE D == 1 .. Len(s)
               T == Range(s)
    <2>1. s \in Surjection(D, T) /\ s \in Injection(D, T) /\ IsFiniteSet(D)
          /\ Cardinality(D) = Len(s)
      BY <1>2, <1>3, <1>4
    <2> HIDE DEF D, T
    <2>2. IsFiniteSet(T) /\ Cardinality(T) = Cardinality(D) BY <2>1, FS_Surjection
    <2> QED BY <2>1, <2>2 DEF T
  <1>6. s[1] \in Range(s)
    <2>1. 1 \in DOMAIN s BY <1>1
    <2> QED BY <2>1 DEF Range
  <1> QED BY <1>1, <1>5, <1>6

\* Go's / gives an integer.
LEMMA QuotInt ==
  ASSUME NEW a \in Int, NEW b \in Int, b > 0
  PROVE  Quot(a, b) \in Int
  BY SMT DEF Quot

\* The groups of a turn.
LEMMA GroupsFinite ==
  ASSUME NEW e \in TurnRecord, NEW by
  PROVE  IsFiniteSet(Groups(e, by)) /\ Groups(e, by) # {}
  <1>1. e.files \in Seq(Int) /\ IsInjective(e.files) BY DEF TurnRecord
  <1>2. CASE by = "file" /\ e.files # <<>>
    BY <1>1, <1>2, FilesOf DEF Groups
  <1>3. CASE ~(by = "file" /\ e.files # <<>>)
    BY <1>3, FS_Singleton DEF Groups
  <1> QED BY <1>2, <1>3

\* What a turn gives its groups is its whole cost.
LEMMA ContributionsAddUp ==
  ASSUME NEW e \in TurnRecord, NEW by \in By, NEW micros \in Int, NEW f,
         \A key \in Groups(e, by) : f[key] = Contribution(e, by, micros, key)
  PROVE  /\ \A key \in Groups(e, by) : f[key] \in Int
         /\ SumFunctionOnSet(f, Groups(e, by)) = micros
  <1>1. e.files \in Seq(Int) /\ IsInjective(e.files) BY DEF TurnRecord
  <1>2. CASE by # "file" \/ e.files = <<>>
    <2>1. PICK k : Groups(e, by) = {k} BY <1>2 DEF Groups
    <2>2. f[k] = micros BY <1>2, <2>1 DEF Contribution
    <2>3. SumFunctionOnSet(f, {k}) = f[k] BY <2>2, SumSingle
    <2> QED BY <2>1, <2>2, <2>3
  <1>3. CASE by = "file" /\ e.files # <<>>
    <2> DEFINE S == Range(e.files)
               n == Len(e.files)
               base == Quot(micros, n)
               a == e.files[1]
               R == S \ {a}
    <2>1. IsFiniteSet(S) /\ Cardinality(S) = n /\ n \in Nat \ {0} /\ a \in S
      BY <1>1, <1>3, FilesOf
    <2>2. base \in Int BY <2>1, QuotInt
    <2>3. Groups(e, by) = S BY <1>3 DEF Groups
    <2>4. ASSUME NEW k \in S PROVE f[k] = IF k = a THEN base + micros - base * n ELSE base
      BY <1>3, <2>3 DEF Contribution
    <2> HIDE DEF S, n, base, a
    <2>5. base * n \in Int BY <2>1, <2>2, SMT
    <2>6. \A k \in S : f[k] \in Int BY <2>2, <2>4, <2>5
    <2>7. SumFunctionOnSet(f, S) = f[a] + SumFunctionOnSet(f, R) BY <2>1, <2>6, SumRemove
    <2>8. IsFiniteSet(R) /\ Cardinality(R) = n - 1 BY <2>1, FS_RemoveElement
    <2>9. SumFunctionOnSet(f, R) = base * (n - 1)
      <3>1. \A k \in R : f[k] = base BY <2>4
      <3> HIDE DEF R
      <3>2. SumFunctionOnSet(f, R) = base * Cardinality(R) BY <2>2, <2>8, <3>1, SumConst
      <3> QED BY <2>8, <3>2
    <2>10. base * (n - 1) = base * n - base BY <2>1, <2>2, SMT
    <2>11. f[a] = base + micros - base * n BY <2>1, <2>4
    <2>12. SumFunctionOnSet(f, S) = micros BY <2>2, <2>5, <2>7, <2>9, <2>10, <2>11
    <2> QED BY <2>3, <2>6, <2>12
  <1> QED BY <1>2, <1>3

\* The groups of some turns.
LEMMA KeysFinite ==
  ASSUME NEW events \in SUBSET TurnRecord, IsFiniteSet(events), NEW by
  PROVE  IsFiniteSet(Keys(events, by))
  <1> DEFINE g == [e \in events |-> Groups(e, by)]
  <1>1. IsFiniteSet({g[e] : e \in events})
    <2> HIDE DEF g
    <2> QED BY FiniteImage
  <1>2. {g[e] : e \in events} = {Groups(e, by) : e \in events} OBVIOUS
  <1>3. \A T \in {Groups(e, by) : e \in events} : IsFiniteSet(T) BY GroupsFinite
  <1>4. IsFiniteSet(UNION {Groups(e, by) : e \in events})
    <2> HIDE DEF g
    <2> QED BY <1>1, <1>2, <1>3, FS_UNION
  <1> QED BY <1>4 DEF Keys

\* The rows of a report add up to its total.
LEMMA RowsSum ==
  ASSUME NEW events \in SUBSET TurnRecord, IsFiniteSet(events), NEW by \in By, NEW view
  PROVE  SumFunction(Rows(events, by, view)) = Cost(events, view)
  <1> DEFINE P == Priced(events, view)
             K == Keys(P, by)
             grp == [e \in P |-> Groups(e, by)]
             f == [e \in P |-> [key \in K |-> Contribution(e, by, PickView(e, view), key)]]
             v == [e \in P |-> PickView(e, view)]
             w == [e \in P |-> SumFunctionOnSet(f[e], grp[e])]
  <1>1. IsFiniteSet(P) /\ P \in SUBSET events /\ P \in SUBSET TurnRecord
        /\ \A e \in P : PickView(e, view) \in Int
    BY PricedTyped
  <1>2. IsFiniteSet(K)
    <2> HIDE DEF P
    <2> QED BY <1>1, KeysFinite
  <1>3. grp \in [P -> SUBSET K]
    <2> HIDE DEF P
    <2> QED BY DEF Keys
  <1>4. ASSUME NEW e \in P
        PROVE  /\ \A key \in grp[e] : f[e][key] \in Int
               /\ SumFunctionOnSet(f[e], grp[e]) = v[e]
    <2>1. e \in TurnRecord /\ PickView(e, view) \in Int BY <1>1, <1>4
    <2>2. grp[e] = Groups(e, by) /\ grp[e] \in SUBSET K BY <1>3, <1>4
    <2>3. v[e] = PickView(e, view) BY <1>4
    <2> DEFINE fe == [key \in K |-> Contribution(e, by, PickView(e, view), key)]
    <2>4. f[e] = fe BY <1>4
    <2>5. \A key \in Groups(e, by) : fe[key] = Contribution(e, by, PickView(e, view), key)
      <3> HIDE DEF P, K
      <3> QED BY <2>2
    <2> HIDE DEF fe, f, grp, v, P
    <2> QED BY <2>1, <2>2, <2>3, <2>4, <2>5, ContributionsAddUp
  <1>5. SumFunctionOnSet([k \in K |-> GroupSum(f, grp, P, k)], K) = SumFunctionOnSet(w, P)
    <2>1. \A e \in P : \A key \in grp[e] : f[e][key] \in Int BY <1>4
    <2> HIDE DEF f, grp, P, K
    <2> QED BY <1>1, <1>2, <1>3, <2>1, SumGrouped
  <1>6. SumFunctionOnSet(w, P) = SumFunctionOnSet(v, P)
    <2>1. \A e \in P : w[e] = v[e]
      <3> HIDE DEF f, grp, P, v
      <3> QED BY <1>4
    <2> HIDE DEF w, v, P
    <2> QED BY <1>1, <2>1, SumSame
  <1>7. Rows(events, by, view) = [k \in K |-> GroupSum(f, grp, P, k)]
    <2> DEFINE M(k) == {e \in P : k \in Groups(e, by)}
               row(k) == MapThenSumSet(LAMBDA e : Contribution(e, by, PickView(e, view), k), M(k))
    <2>1. Rows(events, by, view) = [k \in K |-> row(k)] BY DEF Rows
    <2>2. ASSUME NEW k \in K PROVE row(k) = GroupSum(f, grp, P, k)
      <3>1. Members(grp, P, k) = M(k) BY DEF Members
      <3>2. row(k) = SumFunctionOnSet([e \in M(k) |-> Contribution(e, by, PickView(e, view), k)], M(k))
        <4> HIDE DEF M
        <4> QED BY DEF MapThenSumSet, SumFunctionOnSet, FoldFunctionOnSet, MapThenFoldSet
      <3>3. [e \in M(k) |-> Contribution(e, by, PickView(e, view), k)] = [e \in M(k) |-> f[e][k]]
        BY <2>2
      <3> HIDE DEF f, grp, M, row
      <3> QED BY <3>1, <3>2, <3>3 DEF GroupSum
    <2> HIDE DEF row, f, grp, K, P
    <2> QED BY <2>1, <2>2
  <1>8. DOMAIN Rows(events, by, view) = K BY DEF Rows
  <1> HIDE DEF w, v, f, grp, K
  <1>9. SumFunction(Rows(events, by, view)) = SumFunctionOnSet(v, P)
    BY <1>5, <1>6, <1>7, <1>8 DEF SumFunction
  <1> QED BY <1>9, CostSum DEF v

\* Two things are finitely many.
LEMMA PairFinite == ASSUME NEW a, NEW b PROVE IsFiniteSet({a, b})
  <1>1. {a, b} = {a} \cup {b} OBVIOUS
  <1>2. IsFiniteSet({a}) /\ IsFiniteSet({b}) BY FS_Singleton
  <1>3. IsFiniteSet({a} \cup {b})
    <2> DEFINE A == {a}
               B == {b}
    <2>1. IsFiniteSet(A) /\ IsFiniteSet(B) BY <1>2
    <2> HIDE DEF A, B
    <2>2. IsFiniteSet(A \cup B) BY <2>1, FS_Union
    <2> QED BY <2>2 DEF A, B
  <1> QED BY <1>1, <1>3

\* The token classes are finitely many.
LEMMA ClassFinite == IsFiniteSet(Class)
  <1> DEFINE A == {"input", "input"}
             B == {"output", "cacheRead"}
             C == {"cacheWrite", "cacheWrite1h"}
  <1>1. IsFiniteSet(A) /\ IsFiniteSet(B) /\ IsFiniteSet(C) BY PairFinite
  <1>2. Class = A \cup (B \cup C) BY DEF Class
  <1> HIDE DEF A, B, C
  <1> QED BY <1>1, <1>2, FS_Union

\* A turn priced now has a cost exactly when the table rates its model, and it
\* is what the table says.
LEMMA PricedNowCost ==
  ASSUME table \in DOMAIN Rates, NEW e \in TurnRecord, PricedNow(e), NEW view, view # "reported"
  PROVE  /\ PickView(e, view) = e.api
         /\ e.model \in DOMAIN Rates[table] <=> PickView(e, view) # NoCost
         /\ e.model \in DOMAIN Rates[table] =>
              /\ Rates[table][e.model] \in [RateClass -> Nat]
              /\ e.api = Wrap(Terms(Rates[table][e.model], e.tokens))
  <1> DEFINE r == Rates[table][e.model]
  <1>1. PickView(e, view) = e.api BY DEF PickView
  <1>2. CASE e.model \in DOMAIN Rates[table]
    <2>1. r \in [RateClass -> Nat] BY <1>2, ReportAssumption
    <2>2. e.tokens \in [Class -> Int] BY DEF TurnRecord
    <2>3. e = Price(e, Rates[table]) BY DEF PricedNow
    <2>4. Price(e, Rates[table]).api = ApiEquivalent(r, e.tokens)
      BY <1>2 DEF Price, TurnRecord
    <2> HIDE DEF r
    <2>5. /\ ApiEquivalent(r, e.tokens) = Wrap(Terms(r, e.tokens))
          /\ ApiEquivalent(r, e.tokens) \in -(MaxInt64 + 1) .. MaxInt64
      BY <2>1, <2>2, TermsNat
    <2>6. e.api = ApiEquivalent(r, e.tokens) BY <2>3, <2>4
    <2>7. e.api # NoCost BY <2>5, <2>6, PricingAssumption
    <2> QED BY <1>1, <1>2, <2>1, <2>5, <2>6, <2>7 DEF r
  <1>3. CASE e.model \notin DOMAIN Rates[table] BY <1>1, <1>3 DEF PricedNow
  <1> QED BY <1>2, <1>3

\* The breakdown of turns priced with the table in force adds up to their cost,
\* as int64 sums.
LEMMA BreakdownReconciles ==
  ASSUME table \in DOMAIN Rates, NEW events \in SUBSET TurnRecord, IsFiniteSet(events),
         \A e \in events : PricedNow(e), NEW view, view # "reported"
  PROVE  Wrap(SumFunction(Breakdown(events))) = Wrap(Cost(events, view))
  <1> DEFINE R == Rated(events)
             comp == [e \in R |-> Components(Rates[table][e.model], e.tokens)]
             terms == [e \in R |-> Terms(Rates[table][e.model], e.tokens)]
             v == [e \in R |-> PickView(e, view)]
             w == RowSums(comp, R, Class)
  <1>1. R \in SUBSET events /\ IsFiniteSet(R) /\ R \in SUBSET TurnRecord BY FS_Subset DEF Rated
  <1>2. ASSUME NEW e \in R
        PROVE  /\ comp[e] \in [Class -> Nat] /\ terms[e] \in Nat
               /\ w[e] = terms[e] /\ v[e] = Wrap(terms[e])
    <2> DEFINE r == Rates[table][e.model]
    <2>1. e \in events /\ e \in TurnRecord /\ e.model \in DOMAIN Rates[table] BY <1>1 DEF Rated
    <2>2. /\ r \in [RateClass -> Nat] /\ e.tokens \in [Class -> Int]
          /\ PickView(e, view) = Wrap(Terms(r, e.tokens))
      <3>1. PricedNow(e) BY <2>1
      <3>2. e.tokens \in [Class -> Int] BY <2>1 DEF TurnRecord
      <3>3. /\ PickView(e, view) = e.api
            /\ Rates[table][e.model] \in [RateClass -> Nat]
            /\ e.api = Wrap(Terms(Rates[table][e.model], e.tokens))
        BY <2>1, <3>1, PricedNowCost
      <3> QED BY <3>2, <3>3
    <2>3. /\ Components(r, e.tokens) \in [Class -> Nat] /\ Terms(r, e.tokens) \in Nat
          /\ Terms(r, e.tokens) = SumFunctionOnSet(Components(r, e.tokens), Class)
      <3> HIDE DEF r
      <3> QED BY <2>2, TermsNat
    <2>4. w[e] = SumFunctionOnSet(comp[e], Class)
      <3> HIDE DEF comp, R
      <3> QED BY DEF RowSums
    <2> QED BY <2>2, <2>3, <2>4
  <1>3. Priced(events, view) = R
    BY PricedNowCost DEF Priced, Rated
  <1>4. Cost(events, view) = SumFunctionOnSet(v, R)
    <2> HIDE DEF R
    <2> QED BY <1>3, CostSum
  <1>5. IsFiniteSet(Class) BY ClassFinite
  <1>6. Breakdown(events) = Columns(comp, R, Class)
    <2> DEFINE col(c) == MapThenSumSet(LAMBDA e : Components(Rates[table][e.model], e.tokens)[c], R)
    <2>1. Breakdown(events) = [c \in Class |-> col(c)] BY DEF Breakdown
    <2>2. ASSUME NEW c \in Class
          PROVE  col(c) = SumFunctionOnSet([e \in R |-> comp[e][c]], R)
      <3>1. col(c) = SumFunctionOnSet(
                       [e \in R |-> Components(Rates[table][e.model], e.tokens)[c]], R)
        <4> HIDE DEF R
        <4> QED BY DEF MapThenSumSet, SumFunctionOnSet, FoldFunctionOnSet, MapThenFoldSet
      <3>2. [e \in R |-> Components(Rates[table][e.model], e.tokens)[c]] = [e \in R |-> comp[e][c]]
        OBVIOUS
      <3> HIDE DEF comp, R, col
      <3> QED BY <3>1, <3>2
    <2> HIDE DEF comp, R, col
    <2> QED BY <2>1, <2>2 DEF Columns
  <1>7. SumFunctionOnSet(Breakdown(events), Class) = SumFunctionOnSet(w, R)
    <2>1. \A e \in R : \A c \in Class : comp[e][c] \in Int
      <3> SUFFICES ASSUME NEW e \in R, NEW c \in Class PROVE comp[e][c] \in Int OBVIOUS
      <3> HIDE DEF comp, R
      <3>1. comp[e] \in [Class -> Nat] BY <1>2
      <3> QED BY <3>1
    <2> HIDE DEF comp, R
    <2> QED BY <1>1, <1>5, <1>6, <2>1, SumSwap
  <1>8. SumFunctionOnSet(w, R) = SumFunctionOnSet(terms, R)
    <2> HIDE DEF w, R, terms
    <2> QED BY <1>1, <1>2, SumSame
  <1>9. Wrap(SumFunctionOnSet(v, R)) = Wrap(SumFunctionOnSet(terms, R))
    <2> HIDE DEF v, R, terms
    <2>1. \A e \in R : terms[e] \in Int /\ v[e] = Wrap(terms[e])
      <3> SUFFICES ASSUME NEW e \in R PROVE terms[e] \in Int /\ v[e] = Wrap(terms[e]) OBVIOUS
      <3>1. terms[e] \in Nat /\ v[e] = Wrap(terms[e]) BY <1>2
      <3> QED BY <3>1
    <2> QED BY <1>1, <2>1, WrapSum
  <1>10. SumFunction(Breakdown(events)) = SumFunctionOnSet(Breakdown(events), Class)
    BY DEF SumFunction, Breakdown
  <1> QED BY <1>4, <1>7, <1>8, <1>9, <1>10

\* Every row's figure is the cost of its turns, when turns have one group each.
LEMMA RowIsCost ==
  ASSUME NEW events \in SUBSET TurnRecord, IsFiniteSet(events), NEW by, by # "file", NEW view,
         NEW key \in Keys(Priced(events, view), by),
         NEW own, own = {e \in events : key \in Groups(e, by)}
  PROVE  Rows(events, by, view)[key] = Cost(own, view)
  <1> DEFINE M == {e \in Priced(events, view) : key \in Groups(e, by)}
  <1>1. M = Priced(own, view) BY DEF Priced
  <1>2. Rows(events, by, view)[key]
          = MapThenSumSet(LAMBDA e : Contribution(e, by, PickView(e, view), key), M)
    BY DEF Rows
  <1>3. MapThenSumSet(LAMBDA e : Contribution(e, by, PickView(e, view), key), M)
          = SumFunctionOnSet([e \in M |-> Contribution(e, by, PickView(e, view), key)], M)
    <2> HIDE DEF M
    <2> QED BY DEF MapThenSumSet, SumFunctionOnSet, FoldFunctionOnSet, MapThenFoldSet
  <1>4. [e \in M |-> Contribution(e, by, PickView(e, view), key)] = [e \in M |-> PickView(e, view)]
    BY DEF Contribution
  <1> HIDE DEF M
  <1> QED BY <1>1, <1>2, <1>3, <1>4, CostSum

\* In every state every report adds up: rows to the total, turns with and without
\* a cost to all turns, the breakdown to total and rows when the ledger was priced
\* with the table it is worked out from (report.go: aggregateReport,
\* groupContributions, attachComponents).
THEOREM ReportsAddUp == Spec => []RowsAddUp
  <1>1. Typed => RowsAddUp
    <2> SUFFICES ASSUME Typed,
                        NEW win \in Windows, NEW by \in By, NEW view \in View,
                        NEW events, events = Query(win), NEW agg, agg = AggregateReport(events, by, view)
                 PROVE  /\ SumFunction(agg.rows) = agg.total
                        /\ agg.n + agg.skipped = Cardinality(events)
                        /\ (\A e \in events : PricedNow(e)) /\ view # "reported"
                           => /\ Wrap(SumFunction(TotalComponents(events))) = Wrap(agg.total)
                              /\ \A key \in DOMAIN RowComponents(events, by) :
                                    Wrap(SumFunction(RowComponents(events, by)[key]))
                                      = Wrap(agg.rows[key])
      BY DEF RowsAddUp
    <2>1. events \in SUBSET TurnRecord /\ IsFiniteSet(events)
      <3>1. events \in SUBSET ledger BY DEF Query
      <3> QED BY <3>1, FS_Subset DEF Typed
    <2>2. /\ agg.rows = Rows(events, by, view) /\ agg.total = Cost(events, view)
          /\ agg.n = Cardinality(Priced(events, view))
          /\ agg.skipped = Cardinality(events \ Priced(events, view))
      BY DEF AggregateReport
    <2>3. SumFunction(agg.rows) = agg.total BY <2>1, <2>2, RowsSum
    <2>4. agg.n + agg.skipped = Cardinality(events)
      <3> DEFINE P == Priced(events, view)
      <3>1. P \in SUBSET events /\ events \cap P = P /\ IsFiniteSet(P)
        BY <2>1, FS_Subset DEF Priced
      <3>2. Cardinality(events \ P) = Cardinality(events) - Cardinality(events \cap P)
        BY <2>1, FS_Difference
      <3>3. Cardinality(P) \in Nat /\ Cardinality(events) \in Nat
        BY <2>1, <3>1, FS_CardinalityType
      <3> HIDE DEF P
      <3>4. Cardinality(P) + Cardinality(events \ P) = Cardinality(events)
        BY <3>1, <3>2, <3>3
      <3> QED BY <2>2, <3>4 DEF P
    <2>5. ASSUME \A e \in events : PricedNow(e), view # "reported"
          PROVE  /\ Wrap(SumFunction(TotalComponents(events))) = Wrap(agg.total)
                 /\ \A key \in DOMAIN RowComponents(events, by) :
                       Wrap(SumFunction(RowComponents(events, by)[key])) = Wrap(agg.rows[key])
      <3>1. table \in DOMAIN Rates BY DEF Typed
      <3>2. Wrap(SumFunction(TotalComponents(events))) = Wrap(agg.total)
        BY <2>1, <2>2, <2>5, <3>1, BreakdownReconciles DEF TotalComponents
      <3>3. ASSUME NEW key \in DOMAIN RowComponents(events, by)
            PROVE  Wrap(SumFunction(RowComponents(events, by)[key])) = Wrap(agg.rows[key])
        <4> DEFINE own == {e \in events : key \in Groups(e, by)}
        <4>1. by # "file" /\ key \in Keys(Rated(events), by)
              /\ RowComponents(events, by)[key] = Breakdown(own)
          BY <3>3 DEF RowComponents
        <4>2. own \in SUBSET TurnRecord /\ IsFiniteSet(own) /\ \A e \in own : PricedNow(e)
          BY <2>1, <2>5, FS_Subset
        <4>3. Wrap(SumFunction(Breakdown(own))) = Wrap(Cost(own, view))
          <5> HIDE DEF own
          <5> QED BY <2>5, <3>1, <4>2, BreakdownReconciles
        <4>4. Rated(events) \subseteq Priced(events, view)
          BY <2>1, <2>5, <3>1, PricedNowCost DEF Rated, Priced
        <4>5. key \in Keys(Priced(events, view), by)
          <5>1. PICK e \in Rated(events) : key \in Groups(e, by) BY <4>1 DEF Keys
          <5>2. e \in Priced(events, view) BY <4>4
          <5>3. key \in UNION {Groups(x, by) : x \in Priced(events, view)}
            <6> DEFINE P == Priced(events, view)
            <6> HIDE DEF P
            <6>1. e \in P BY <5>2 DEF P
            <6>2. key \in UNION {Groups(x, by) : x \in P} BY <5>1, <6>1
            <6> QED BY <6>2 DEF P
          <5> QED BY <5>3 DEF Keys
        <4>6. agg.rows[key] = Cost(own, view)
          <5>1. Rows(events, by, view)[key] = Cost(own, view)
            <6>1. own = {e \in events : key \in Groups(e, by)} OBVIOUS
            <6> HIDE DEF own
            <6> QED BY <2>1, <4>1, <4>5, <6>1, RowIsCost
          <5> QED BY <2>2, <5>1
        <4> QED BY <4>1, <4>3, <4>6
      <3> QED BY <3>2, <3>3
    <2> QED BY <2>3, <2>4, <2>5
  <1> QED BY TypedInit, TypedNext, <1>1, PTL DEF Spec

------------------------------------------------------------------------------
(* The calendar.                                                            *)

----------------------------------------------------------------------------
(* The calendar.                                                            *)

\* A month starts after the days of the months before it.
LEMMA MonthStartSum ==
  ASSUME NEW m \in 1 .. Len(MonthLen) + 1
  PROVE  MonthStart[m] = Day * SumFunctionOnSet(MonthLen, 1 .. m - 1)
  <1> DEFINE S == 1 .. m - 1
             g == [i \in S |-> MonthLen[i]]
  <1>1. MonthStart[m] = Day * MapThenSumSet(LAMBDA i : MonthLen[i], S) BY DEF MonthStart
  <1>2. MapThenSumSet(LAMBDA i : MonthLen[i], S) = SumFunctionOnSet(g, S)
    <2> HIDE DEF S
    <2> QED BY DEF MapThenSumSet, SumFunctionOnSet, FoldFunctionOnSet, MapThenFoldSet
  <1>3. SumFunctionOnSet(g, S) = SumFunctionOnSet(MonthLen, S)
    <2>1. \A i \in S : g[i] = MonthLen[i] OBVIOUS
    <2>2. IsFiniteSet(S)
      <3>1. Len(MonthLen) \in Nat BY CalendarAssumption
      <3>2. m - 1 \in Int BY <3>1
      <3> QED BY <3>2, FS_Interval
    <2> HIDE DEF g, S
    <2> QED BY <2>1, <2>2, SumSame
  <1> QED BY <1>1, <1>2, <1>3

\* Months start in order.
LEMMA MonthStartOrdered ==
  /\ Len(MonthLen) \in Nat /\ MonthStart[1] = 0
  /\ \A m \in 1 .. Len(MonthLen) + 1 : MonthStart[m] \in Nat
  /\ \A a \in Month, b \in 1 .. Len(MonthLen) + 1 : a < b => MonthStart[a] < MonthStart[b]
  <1>1. Len(MonthLen) \in Nat /\ Day \in Nat \ {0} BY CalendarAssumption
  <1>2. ASSUME NEW i \in Month PROVE MonthLen[i] \in Nat \ {0}
    BY CalendarAssumption DEF Month
  <1>3. MonthStart[1] = 0
    <2>1. 1 .. 1 - 1 = {} /\ 1 \in 1 .. Len(MonthLen) + 1 BY <1>1
    <2>2. MonthStart[1] = Day * SumFunctionOnSet(MonthLen, 1 .. 1 - 1) BY <2>1, MonthStartSum
    <2> QED BY <1>1, <2>1, <2>2, SumEmpty
  <1>4. ASSUME NEW m \in 1 .. Len(MonthLen) + 1, NEW T \in SUBSET (1 .. m - 1)
        PROVE  /\ IsFiniteSet(T) /\ \A i \in T : MonthLen[i] \in Nat /\ MonthLen[i] > 0
               /\ SumFunctionOnSet(MonthLen, T) \in Nat
               /\ \A i \in T : MonthLen[i] <= SumFunctionOnSet(MonthLen, T)
    <2>1. IsFiniteSet(1 .. m - 1) BY FS_Interval
    <2>2. IsFiniteSet(T) BY <2>1, FS_Subset
    <2>3. \A i \in T : i \in Month BY <1>1 DEF Month
    <2>4. \A i \in T : MonthLen[i] \in Nat /\ MonthLen[i] > 0 BY <1>2, <2>3
    <2> QED BY <2>2, <2>4, SumNat
  <1>5. ASSUME NEW m \in 1 .. Len(MonthLen) + 1 PROVE MonthStart[m] \in Nat
    <2>1. SumFunctionOnSet(MonthLen, 1 .. m - 1) \in Nat BY <1>4
    <2>2. \A x \in Nat : Day * x \in Nat BY <1>1, SMT
    <2> QED BY <2>1, <2>2, MonthStartSum
  <1>6. ASSUME NEW a \in Month, NEW b \in 1 .. Len(MonthLen) + 1, a < b
        PROVE  MonthStart[a] < MonthStart[b]
    <2> DEFINE A == 1 .. a - 1
               B == a .. b - 1
               s(T) == SumFunctionOnSet(MonthLen, T)
    <2>1. A \cup B = 1 .. b - 1 /\ A \cap B = {} /\ a \in B /\ a \in 1 .. Len(MonthLen) + 1
      BY <1>1, <1>6 DEF Month
    <2>2. /\ IsFiniteSet(A) /\ \A i \in A : MonthLen[i] \in Nat
          /\ IsFiniteSet(B) /\ \A i \in B : MonthLen[i] \in Nat /\ MonthLen[i] > 0
          /\ s(A) \in Nat /\ s(B) \in Nat /\ \A i \in B : MonthLen[i] <= s(B)
      <3>1. A \in SUBSET (1 .. b - 1) /\ B \in SUBSET (1 .. b - 1) BY <2>1
      <3> HIDE DEF A, B
      <3> QED BY <1>4, <3>1
    <2>3. MonthStart[a] = Day * s(A) /\ MonthStart[b] = Day * s(A \cup B)
      BY <2>1, MonthStartSum
    <2>4. s(A \cup B) = s(A) + s(B)
      <3> HIDE DEF A, B
      <3> QED BY <2>1, <2>2, SumUnion
    <2>5. s(B) > 0
      <3>1. MonthLen[a] \in Nat /\ MonthLen[a] > 0 /\ MonthLen[a] <= s(B) BY <2>1, <2>2
      <3> HIDE DEF s
      <3> QED BY <2>2, <3>1
    <2>6. ASSUME NEW x \in Nat, NEW y \in Nat, y > 0 PROVE Day * x < Day * (x + y)
      <3>1. Day * (x + y) = Day * x + Day * y BY <1>1, SMT
      <3>2. Day * y > 0 /\ Day * x \in Int /\ Day * y \in Int BY <1>1, <2>6, SMT
      <3> QED BY <3>1, <3>2
    <2> HIDE DEF s, A, B
    <2> QED BY <2>2, <2>3, <2>4, <2>5, <2>6
  <1> QED BY <1>1, <1>3, <1>5, <1>6

\* The month of an instant holds it.
LEMMA MonthOfInstant ==
  ASSUME NEW t \in 0 .. EndOfTime - 1
  PROVE  MonthOf(t) \in Month /\ MonthStart[MonthOf(t)] <= t /\ t < MonthStart[MonthOf(t) + 1]
  <1> DEFINE L == Len(MonthLen)
             S == {m \in 1 .. L + 1 : MonthStart[m] <= t}
  <1>1. L \in Nat /\ \A m \in 1 .. L + 1 : MonthStart[m] \in Nat BY MonthStartOrdered
  <1>2. t \in Int /\ 0 <= t /\ t < EndOfTime /\ EndOfTime \in Nat
    BY <1>1 DEF EndOfTime
  <1>3. IsFiniteSet(S) /\ 1 \in S /\ S \in SUBSET Int
    <2>1. IsFiniteSet(1 .. L + 1) BY <1>1, FS_Interval
    <2> QED BY <1>1, <1>2, <2>1, FS_Subset, MonthStartOrdered
  <1> DEFINE M == Max(S)
  <1>4. M \in S /\ \A y \in S : M >= y
    <2> HIDE DEF S
    <2> QED BY <1>3, MinMax
  <1>5. M \in 1 .. L /\ MonthStart[M] <= t
    <2>1. L + 1 \notin S BY <1>2 DEF EndOfTime
    <2>2. M # L + 1
      <3> HIDE DEF S, L
      <3> QED BY <1>4, <2>1
    <2> HIDE DEF M
    <2> QED BY <1>1, <1>4, <2>2
  <1>6. t < MonthStart[M + 1]
    <2>1. M + 1 \in 1 .. L + 1 /\ ~(M >= M + 1)
      <3> HIDE DEF M, L
      <3> QED BY <1>1, <1>5
    <2>2. M + 1 \notin S
      <3> HIDE DEF M, S
      <3> QED BY <1>4, <2>1
    <2>3. MonthStart[M + 1] \in Nat /\ ~(MonthStart[M + 1] <= t)
      <3> HIDE DEF M
      <3> QED BY <1>1, <2>1, <2>2
    <2> HIDE DEF M
    <2> QED BY <1>2, <2>3
  <1>7. \E m \in Month : MonthStart[m] <= t /\ t < MonthStart[m + 1] BY <1>5, <1>6 DEF Month
  <1>8. MonthOf(t) = CHOOSE m \in Month : MonthStart[m] <= t /\ t < MonthStart[m + 1]
    BY DEF MonthOf, MonthIndex
  <1> QED BY <1>7, <1>8

\* The first instant of a month is in that month.
LEMMA MonthOfStart ==
  ASSUME NEW k \in Month
  PROVE  MonthStart[k] \in 0 .. EndOfTime - 1 /\ MonthOf(MonthStart[k]) = k
  <1> DEFINE L == Len(MonthLen)
             t == MonthStart[k]
             m == MonthOf(t)
  <1>1. L \in Nat /\ k \in 1 .. L /\ k < L + 1 /\ L + 1 \in 1 .. L + 1
    BY MonthStartOrdered DEF Month
  <1>2. t \in Nat /\ t < EndOfTime /\ EndOfTime \in Nat
    BY <1>1, MonthStartOrdered DEF EndOfTime
  <1>3. t \in 0 .. EndOfTime - 1
    <2> HIDE DEF t
    <2> QED BY <1>2
  <1>4. m \in Month /\ MonthStart[m] <= t /\ t < MonthStart[m + 1]
    <2> HIDE DEF t
    <2> QED BY <1>3, MonthOfInstant
  <1>5. m \in 1 .. L /\ MonthStart[m] \in Nat /\ MonthStart[m + 1] \in Nat
    <2>1. m \in 1 .. L BY <1>4 DEF Month
    <2> HIDE DEF m
    <2>2. m \in 1 .. L + 1 /\ m + 1 \in 1 .. L + 1 BY <1>1, <2>1
    <2> QED BY <2>1, <2>2, MonthStartOrdered
  <1>6. ~(k < m)
    <2> SUFFICES ASSUME k < m PROVE FALSE OBVIOUS
    <2>1. m \in 1 .. L + 1
      <3> HIDE DEF m
      <3> QED BY <1>1, <1>5
    <2>2. t < MonthStart[m] BY <2>1, MonthStartOrdered
    <2> HIDE DEF t, m
    <2> QED BY <1>2, <1>4, <1>5, <2>2
  <1>7. ~(m < k)
    <2> SUFFICES ASSUME m < k PROVE FALSE OBVIOUS
    <2>1. m + 1 \in 1 .. L + 1 /\ (m + 1 = k \/ m + 1 < k) /\ (m + 1 < k => m + 1 \in 1 .. L)
      <3> HIDE DEF m
      <3> QED BY <1>1, <1>5
    <2>2. CASE m + 1 = k BY <1>4, <1>2, <2>2
    <2>3. CASE m + 1 < k
      <3>1. m + 1 \in Month /\ k \in 1 .. L + 1 BY <1>1, <2>1, <2>3 DEF Month
      <3>2. MonthStart[m + 1] < t BY <2>3, <3>1, MonthStartOrdered
      <3> HIDE DEF t, m
      <3> QED BY <1>2, <1>4, <1>5, <3>2
    <2> QED BY <2>1, <2>2, <2>3
  <1>8. m = k
    <2> HIDE DEF m
    <2> QED BY <1>1, <1>5, <1>6, <1>7
  <1> QED BY <1>3, <1>8

\* The day and the week of an instant.
LEMMA DayIn == ASSUME NEW t \in Int
  PROVE  /\ StartOfDay(t) \in Int /\ StartOfDay(t) <= t /\ t < StartOfDay(t) + Day
         /\ StartOfWeek(t) \in Int /\ StartOfWeek(t) <= t
         /\ t \div Day \in Int /\ StartOfDay(t) = Day * (t \div Day) /\ Day \in Nat \ {0}
  <1>1. Day \in Nat \ {0} /\ DaysPerWeek \in Nat \ {0} BY CalendarAssumption
  <1>2. t \div Day \in Int /\ t % Day \in 0 .. Day - 1 /\ t = Day * (t \div Day) + (t % Day)
    BY <1>1, DivMod
  <1>3. /\ StartOfDay(t) \in Int /\ StartOfDay(t) <= t /\ t < StartOfDay(t) + Day
        /\ StartOfDay(t) = Day * (t \div Day)
    <2> DEFINE q == t \div Day
               r == t % Day
               p == Day * q
    <2>1. StartOfDay(t) = t - r BY DEF StartOfDay
    <2>2. t = p + r /\ r \in 0 .. Day - 1 BY <1>2
    <2>3. p \in Int
      <3> HIDE DEF q
      <3> QED BY <1>1, <1>2, SMT DEF q
    <2> HIDE DEF q, r, p
    <2>4. StartOfDay(t) = p /\ p <= t /\ t < p + Day BY <1>1, <2>1, <2>2, <2>3
    <2> QED BY <2>3, <2>4 DEF p, q
  <1>4. StartOfWeek(t) \in Int /\ StartOfWeek(t) <= t
    <2> DEFINE d == t \div Day
               e == d % DaysPerWeek
    <2>1. d \in Int BY <1>2
    <2>2. e \in 0 .. DaysPerWeek - 1
      <3> HIDE DEF d
      <3> QED BY <1>1, <2>1, DivMod
    <2>3. StartOfWeek(t) = Day * (d - e) BY DEF StartOfWeek
    <2> HIDE DEF d, e
    <2>4. d - e \in Int BY <2>1, <2>2, <1>1
    <2>5. \A x \in Int : Day * x \in Int BY <1>1, SMT
    <2>6. Day * d <= t BY <1>3 DEF d
    <2>7. Day * (d - e) <= Day * d
      <3>1. e \in Nat BY <1>1, <2>2
      <3>2. Day * (d - e) = Day * d - Day * e BY <1>1, <2>1, <3>1, SMT
      <3>3. Day * e \in Nat BY <1>1, <3>1, SMT
      <3>4. Day * d \in Int BY <2>1, <2>5
      <3> QED BY <3>2, <3>3, <3>4
    <2>8. Day * (d - e) \in Int /\ Day * d \in Int BY <2>1, <2>4, <2>5
    <2> QED BY <2>3, <2>6, <2>7, <2>8
  <1> QED BY <1>1, <1>2, <1>3, <1>4

\* Days are whole.
LEMMA DayCountInt == ASSUME NEW a \in Int, NEW b \in Int PROVE DayCount(a, b) \in Int
  <1>1. Day \in Nat \ {0} /\ b - a \in Int BY CalendarAssumption
  <1> DEFINE x == b - a
  <1>2. x \div Day \in Int
    <2>1. x \in Int BY <1>1
    <2> HIDE DEF x
    <2> QED BY <1>1, <2>1, DivMod
  <1> QED BY <1>2 DEF DayCount

\* The first months of a quarter or a year, and of the one before.
LEMMA FirstMonth ==
  ASSUME NEW m \in Month, NEW n \in Nat \ {0}
  PROVE  /\ m - ((m - 1) % n) \in Month /\ m - ((m - 1) % n) <= m
         /\ (m > MonthsPerYear /\ n \in {MonthsPerQuarter, MonthsPerYear}
             => m - ((m - 1) % n) - n \in Month)
  <1>1. Len(MonthLen) \in Nat /\ m \in 1 .. Len(MonthLen) BY MonthStartOrdered DEF Month
  <1> DEFINE x == m - 1
             q == x \div n
             r == x % n
             p == n * q
  <1>2. q \in Int /\ r \in 0 .. n - 1 /\ x = p + r /\ p \in Int
    <2>1. x \in Int BY <1>1
    <2> HIDE DEF x
    <2>2. q \in Int /\ r \in 0 .. n - 1 /\ x = p + r BY <2>1, DivMod
    <2> HIDE DEF q
    <2> QED BY <2>2, SMT
  <1>3. q >= 0
    <2>1. ASSUME q <= -1 PROVE p <= -n
      <3> HIDE DEF q, r, x
      <3> QED BY <1>2, <2>1, SMT
    <2> HIDE DEF q, r, p
    <2> QED BY <1>1, <1>2, <2>1
  <1>4. p >= 0
    <2> HIDE DEF q, r, x
    <2> QED BY <1>2, <1>3, SMT
  <1>5. m - r = p + 1 /\ p + 1 <= m
    <2> HIDE DEF q, r, p
    <2> QED BY <1>1, <1>2
  <1>6. m - r \in Month /\ m - r <= m
    <2> HIDE DEF q, r, p, x
    <2> QED BY <1>1, <1>2, <1>4, <1>5 DEF Month
  <1>7. ASSUME m > MonthsPerYear, n \in {MonthsPerQuarter, MonthsPerYear}
        PROVE  m - r - n \in Month
    <2>1. MonthsPerYear \in Nat \ {0} /\ MonthsPerQuarter \in Nat \ {0}
          /\ MonthsPerYear % MonthsPerQuarter = 0
      BY CalendarAssumption
    <2>2. n <= MonthsPerYear
      <3>1. CASE n = MonthsPerYear BY <2>1, <3>1
      <3>2. CASE n = MonthsPerQuarter
        <4> SUFFICES ASSUME MonthsPerYear < n PROVE FALSE BY <2>1
        <4>1. MonthsPerYear % n = 0 BY <2>1, <3>2
        <4>2. ASSUME NEW a \in Nat, a < n PROVE a % n = a BY <4>2, SMT
        <4> QED BY <2>1, <4>1, <4>2
      <3> QED BY <1>7, <3>1, <3>2
    <2>3. q >= 1
      <3> SUFFICES ASSUME q = 0 PROVE FALSE
        <4> HIDE DEF q
        <4> QED BY <1>2, <1>3
      <3>1. p = 0 BY SMT
      <3> HIDE DEF q, r, p
      <3> QED BY <1>1, <1>2, <1>7, <2>1, <2>2, <3>1
    <2>4. p >= n
      <3> HIDE DEF q, r, x
      <3> QED BY <1>2, <2>3, SMT
    <2> HIDE DEF q, r, p, x
    <2> QED BY <1>1, <1>2, <1>5, <2>4 DEF Month
  <1> QED BY <1>6, <1>7

\* Every moment is in the calendar, with a year before it.
LEMMA NowInCalendar ==
  ASSUME NEW t \in Moments
  PROVE  t \in 0 .. EndOfTime - 1 /\ MonthOf(t) \in Month /\ MonthOf(t) > MonthsPerYear
         /\ EndOfTime \in Nat /\ t \in Int
  <1>1. EndOfTime \in Nat /\ t \in Nat /\ t < EndOfTime /\ MonthOf(t) > MonthsPerYear
    <2>1. Len(MonthLen) + 1 \in 1 .. Len(MonthLen) + 1 BY MonthStartOrdered
    <2> QED BY <2>1, MonthStartOrdered, ReportAssumption DEF EndOfTime
  <1>2. t \in 0 .. EndOfTime - 1 BY <1>1
  <1> QED BY <1>1, <1>2, MonthOfInstant

\* Where this unit and the last one start.
LEMMA UnitsStart ==
  ASSUME NEW t \in Moments, NEW u \in Unit
  PROVE  /\ StartOf(u, t) \in Int /\ StartOf(u, t) <= t
         /\ StartOfLast(u, StartOf(u, t)) \in Int
         /\ StartOfLast(u, StartOf(u, t)) < StartOf(u, t)
  <1> DEFINE m == MonthOf(t)
  <1>1. m \in Month /\ m > MonthsPerYear /\ t \in Int /\ MonthStart[m] <= t
    BY NowInCalendar, MonthOfInstant
  <1>2. /\ Day \in Nat \ {0} /\ DaysPerWeek \in Nat \ {0}
        /\ MonthsPerYear \in Nat \ {0} /\ MonthsPerQuarter \in Nat \ {0}
    BY CalendarAssumption
  <1>3. /\ Month \subseteq Int
        /\ \A k \in Month : MonthStart[k] \in Int /\ MonthOf(MonthStart[k]) = k
        /\ \A k, l \in Month : k < l => MonthStart[k] < MonthStart[l]
    BY MonthStartOrdered, MonthOfStart DEF Month
  <1>4. CASE u = "day" BY <1>1, <1>2, <1>4, DayIn DEF StartOf, StartOfLast
  <1>5. CASE u = "week"
    <2>1. DaysPerWeek * Day \in Nat \ {0} BY <1>2, SMT
    <2>2. StartOfWeek(t) \in Int /\ StartOfWeek(t) <= t BY <1>1, DayIn
    <2> QED BY <1>5, <2>1, <2>2 DEF StartOf, StartOfLast
  <1>6. CASE u = "month"
    <2>1. StartOf(u, t) = MonthStart[m] BY <1>6 DEF StartOf, StartOfMonth
    <2>2. StartOfLast(u, MonthStart[m]) = MonthStart[m - 1]
      BY <1>1, <1>3, <1>6 DEF StartOfLast, MonthsBefore
    <2>3. m - 1 \in Month /\ m - 1 < m
      <3> HIDE DEF m
      <3> QED BY <1>1, <1>2, MonthStartOrdered DEF Month
    <2> HIDE DEF m
    <2> QED BY <1>1, <1>3, <2>1, <2>2, <2>3
  <1>7. ASSUME NEW n \in {MonthsPerQuarter, MonthsPerYear}, NEW k, k = m - ((m - 1) % n)
        PROVE  /\ k \in Month /\ MonthStart[k] \in Int /\ MonthStart[k] <= t
               /\ k - n \in Month /\ MonthStart[k - n] \in Int /\ MonthStart[k - n] < MonthStart[k]
    <2>1. n \in Nat \ {0} BY <1>2, <1>7
    <2>2. k \in Month /\ k - n \in Month /\ k <= m BY <1>1, <1>7, <2>1, FirstMonth
    <2> HIDE DEF m
    <2>3. k \in Int /\ m \in Int /\ k - n < k BY <1>1, <1>3, <2>1, <2>2
    <2>4. k = m \/ k < m BY <2>2, <2>3
    <2>5. MonthStart[k] \in Int /\ MonthStart[m] \in Int /\ MonthStart[k - n] \in Int
          /\ MonthStart[k - n] < MonthStart[k]
      BY <1>1, <1>3, <2>2, <2>3
    <2>6. MonthStart[k] <= t BY <1>1, <1>3, <2>2, <2>4, <2>5
    <2> QED BY <2>2, <2>5, <2>6
  <1>8. CASE u = "quarter"
    <2> DEFINE k == m - ((m - 1) % MonthsPerQuarter)
    <2>1. /\ k \in Month /\ MonthStart[k] \in Int /\ MonthStart[k] <= t
          /\ k - MonthsPerQuarter \in Month /\ MonthStart[k - MonthsPerQuarter] \in Int
          /\ MonthStart[k - MonthsPerQuarter] < MonthStart[k]
      BY <1>7
    <2>2. StartOf(u, t) = MonthStart[k] BY <1>8 DEF StartOf, StartOfQuarter
    <2> HIDE DEF k
    <2>3. StartOfLast(u, MonthStart[k]) = MonthStart[k - MonthsPerQuarter]
      BY <1>3, <1>8, <2>1 DEF StartOfLast, MonthsBefore
    <2> QED BY <2>1, <2>2, <2>3
  <1>9. CASE u = "year"
    <2> DEFINE k == m - ((m - 1) % MonthsPerYear)
    <2>1. /\ k \in Month /\ MonthStart[k] \in Int /\ MonthStart[k] <= t
          /\ k - MonthsPerYear \in Month /\ MonthStart[k - MonthsPerYear] \in Int
          /\ MonthStart[k - MonthsPerYear] < MonthStart[k]
      BY <1>7
    <2>2. StartOf(u, t) = MonthStart[k] BY <1>9 DEF StartOf, StartOfYear
    <2> HIDE DEF k
    <2>3. StartOfLast(u, MonthStart[k]) = MonthStart[k - MonthsPerYear]
      BY <1>3, <1>9, <2>1 DEF StartOfLast, MonthsBefore
    <2> QED BY <2>1, <2>2, <2>3
  <1> QED BY <1>4, <1>5, <1>6, <1>8, <1>9 DEF Unit

\* The ends of every window are instants, or no bound.
LEMMA WindowsInt ==
  ASSUME now \in Moments, NEW win \in Windows
  PROVE  win.since \in Int /\ win.until \in Int
  <1>1. now \in Int BY NowInCalendar
  <1>2. StartOfDay(now) \in Int /\ Day \in Int BY <1>1, DayIn
  <1>3. CASE \E u \in Unit : win = This(u, now)
    BY <1>1, <1>3, UnitsStart DEF This, Window
  <1>4. CASE \E u \in Unit : win = Last(u, now)
    <2>1. PICK u \in Unit : win = Last(u, now) BY <1>4
    <2>2. StartOf(u, now) \in Int /\ StartOfLast(u, StartOf(u, now)) \in Int BY UnitsStart
    <2> QED BY <2>1, <2>2 DEF Last, Window, LastInstantBefore
  <1>5. CASE win = LastDays(2, now)
    <2>1. win = Window(StartOfDay(now) - Day, now)
      BY <1>2, <1>5 DEF LastDays
    <2> QED BY <1>1, <1>2, <2>1 DEF Window
  <1>6. CASE win = AllTime(now) BY <1>1, <1>6 DEF AllTime, Window, ZeroTime
  <1>7. CASE win = Between(StartOfDay(now) - Day, StartOfDay(now))
    BY <1>1, <1>2, <1>7 DEF Between, Window, NoWindow, ZeroTime, LastInstantBefore
  <1> QED BY <1>3, <1>4, <1>5, <1>6, <1>7 DEF Windows

------------------------------------------------------------------------------
(* Fees: the cycles of a plan, and the fee handed out.                      *)

----------------------------------------------------------------------------
(* Fees.                                                                    *)

\* The lesser and the greater of two.
LEMMA MinMaxOfTwo ==
  ASSUME NEW a \in Int, NEW b \in Int
  PROVE  /\ Min({a, b}) = IF a <= b THEN a ELSE b
         /\ Max({a, b}) = IF a <= b THEN b ELSE a
  <1> DEFINE S == {a, b}
  <1>1. IsFiniteSet(S) /\ S # {} /\ S \in SUBSET Int BY PairFinite
  <1>2. Min(S) \in S /\ (\A y \in S : Min(S) <= y) /\ Max(S) \in S /\ \A y \in S : Max(S) >= y
    <2> HIDE DEF S
    <2> QED BY <1>1, MinMax
  <1>3. /\ (Min(S) = a \/ Min(S) = b) /\ Min(S) <= a /\ Min(S) <= b
        /\ (Max(S) = a \/ Max(S) = b) /\ Max(S) >= a /\ Max(S) >= b
    BY <1>2
  <1> HIDE DEF S
  <1>4. Min(S) = (IF a <= b THEN a ELSE b) /\ Max(S) = IF a <= b THEN b ELSE a
    BY <1>3
  <1> QED BY <1>4 DEF S

\* Anchors of a plan, as far as the calendar goes.
LEMMA AnchorInt ==
  ASSUME NEW t \in 0 .. EndOfTime - 1, NEW n \in Nat, MonthOf(t) + n \in Month
  PROVE  AddMonthsClamped(t, n) \in Int
  <1> DEFINE m == MonthOf(t) + n
             d == DayCount(StartOfMonth(t), t)
             l == MonthLen[m] - 1
  <1>1. m \in Month OBVIOUS
  <1>2. MonthStart[m] \in Int /\ l \in Int
    <2> HIDE DEF m
    <2>1. MonthLen[m] \in Nat BY <1>1, CalendarAssumption DEF Month
    <2>2. m \in 1 .. Len(MonthLen) + 1 BY <1>1, MonthStartOrdered DEF Month
    <2> QED BY <2>1, <2>2, MonthStartOrdered
  <1>3. d \in Int
    <2>1. MonthOf(t) \in Month BY MonthOfInstant
    <2>2. StartOfMonth(t) \in Int
      <3>1. MonthOf(t) \in 1 .. Len(MonthLen) + 1 BY <2>1, MonthStartOrdered DEF Month
      <3> QED BY <3>1, MonthStartOrdered DEF StartOfMonth
    <2>3. t \in Int BY MonthStartOrdered
    <2> QED BY <2>2, <2>3, DayCountInt
  <1>4. Min({d, l}) \in Int
    <2> HIDE DEF d, l
    <2> QED BY <1>2, <1>3, MinMaxOfTwo
  <1>5. AddMonthsClamped(t, n) = MonthStart[m] + Day * Min({d, l}) BY DEF AddMonthsClamped
  <1>6. \A x \in Int : Day * x \in Int BY CalendarAssumption, SMT
  <1> HIDE DEF m, d, l
  <1> QED BY <1>2, <1>4, <1>5, <1>6

\* What a cycle charges is a whole number.
LEMMA ChargeInt ==
  ASSUME NEW fee \in Int, NEW days \in Int, NEW len \in Int
  PROVE  Charge(fee, days, len) \in Int
  <1>1. CASE days > 0 /\ len > 0
    <2>1. fee * days \in Int BY SMT
    <2>2. (fee * days) \div len \in Int
      <3> DEFINE x == fee * days
      <3>1. x \in Int /\ len \in Nat \ {0} BY <1>1, <2>1
      <3> HIDE DEF x
      <3>2. x \div len \in Int BY <3>1, DivMod
      <3> QED BY <3>2 DEF x
    <2> QED BY <1>1, <2>2 DEF Charge
  <1>2. CASE ~(days > 0 /\ len > 0) BY <1>2 DEF Charge
  <1> QED BY <1>1, <1>2

\* The cycles that the calendar holds.
LEMMA CycleInt ==
  ASSUME NEW pl \in Plan \cup {ApiPlan}, pl.start # ZeroTime,
         NEW n \in 0 .. CyclesAfter(pl.start), NEW from \in Int, NEW until \in Int
  PROVE  /\ pl.start \in 0 .. EndOfTime - 1 /\ pl.start \in Int /\ pl.fee \in Nat
         /\ n \in Nat /\ MonthOf(pl.start) + n \in Month /\ MonthOf(pl.start) + (n + 1) \in Month
         /\ AddMonthsClamped(pl.start, n) \in Int /\ AddMonthsClamped(pl.start, n + 1) \in Int
         /\ CycleCharge(pl, n, from, until) \in Int
  <1> DEFINE s == pl.start
             m == MonthOf(s)
             cs == AddMonthsClamped(s, n)
             ce == AddMonthsClamped(s, n + 1)
  <1>1. s \in 0 .. EndOfTime - 1 /\ s \in Int /\ pl.fee \in Nat
    BY MonthStartOrdered, ReportAssumption DEF ApiPlan
  <1>2. m \in Month /\ Len(MonthLen) \in Nat BY <1>1, MonthOfInstant, MonthStartOrdered
  <1>3. n \in Nat /\ m + n \in Month /\ m + (n + 1) \in Month
    <2>1. n \in 0 .. Len(MonthLen) - m - 1 BY DEF CyclesAfter
    <2> HIDE DEF m
    <2> QED BY <1>2, <2>1 DEF Month
  <1>4. cs \in Int /\ ce \in Int
    <2>1. n + 1 \in Nat BY <1>3
    <2> QED BY <1>1, <1>3, <2>1, AnchorInt
  <1>5. CycleCharge(pl, n, from, until) \in Int
    <2>1. CycleCharge(pl, n, from, until)
            = Charge(pl.fee, DayCount(Max({cs, from}), Min({ce, until})), DayCount(cs, ce))
      BY DEF CycleCharge
    <2> HIDE DEF cs, ce
    <2>2. Max({cs, from}) \in Int /\ Min({ce, until}) \in Int BY <1>4, MinMaxOfTwo
    <2> DEFINE d == DayCount(Max({cs, from}), Min({ce, until}))
               l == DayCount(cs, ce)
    <2>3. d \in Int /\ l \in Int /\ pl.fee \in Int
      <3>1. DayCount(Max({cs, from}), Min({ce, until})) \in Int BY <2>2, DayCountInt
      <3>2. DayCount(cs, ce) \in Int BY <1>4, DayCountInt
      <3> QED BY <1>1, <3>1, <3>2
    <2>4. Charge(pl.fee, d, l) \in Int
      <3> HIDE DEF d, l
      <3> QED BY <2>3, ChargeInt
    <2> QED BY <2>1, <2>4
  <1> QED BY <1>1, <1>3, <1>4, <1>5

\* So is the fee of a window, if there is one.
LEMMA FeeInt ==
  ASSUME NEW pl \in Plan \cup {ApiPlan}, NEW since \in Int, NEW until \in Int, NEW days \in Int
  PROVE  ProratePlan(pl, since, until, days) \in Int \cup {NoFee}
  <1>1. pl.fee \in Nat /\ pl.start \in {ZeroTime} \cup (0 .. EndOfTime - 1)
    BY ReportAssumption DEF ApiPlan
  <1>2. CASE pl.start = ZeroTime
    <2> DEFINE x == pl.fee * days
    <2>1. x \in Int BY <1>1, SMT
    <2>2. x \div 30 \in Int
      <3> HIDE DEF x
      <3> QED BY <2>1, DivMod
    <2> QED BY <1>2, <2>2 DEF ProratePlan, ProratedFee
  <1>3. CASE pl.start # ZeroTime
    <2> DEFINE s == pl.start
               m == MonthOf(s)
               from == Max({since, s})
               C == {n \in 0 .. CyclesAfter(s) : AddMonthsClamped(s, n) < until}
               v == [n \in C |-> CycleCharge(pl, n, from, until)]
               total == MapThenSumSet(LAMBDA n : CycleCharge(pl, n, from, until), C)
    <2>1. s \in 0 .. EndOfTime - 1 /\ s \in Int BY <1>1, <1>3, MonthStartOrdered
    <2>2. m \in Month /\ Len(MonthLen) \in Nat BY <2>1, MonthOfInstant, MonthStartOrdered
    <2>3. from \in Int
      <3> HIDE DEF s
      <3> QED BY <2>1, MinMaxOfTwo
    <2>4. CyclesAfter(s) = Len(MonthLen) - m - 1 BY DEF CyclesAfter
    <2>5. ASSUME NEW n \in C PROVE CycleCharge(pl, n, from, until) \in Int
      <3>1. n \in 0 .. CyclesAfter(pl.start) BY <2>5
      <3> HIDE DEF from
      <3> QED BY <1>3, <2>3, <3>1, CycleInt
    <2>6. total = SumFunctionOnSet(v, C)
      <3> HIDE DEF C, from
      <3> QED BY DEF MapThenSumSet, SumFunctionOnSet, FoldFunctionOnSet, MapThenFoldSet
    <2>7. IsFiniteSet(C)
      <3>1. CyclesAfter(s) \in Int
        <4> HIDE DEF m
        <4> QED BY <2>2, <2>4 DEF Month
      <3>2. IsFiniteSet(0 .. CyclesAfter(s)) BY <3>1, FS_Interval
      <3> QED BY <3>2, FS_Subset
    <2>8. total \in Int
      <3>1. \A n \in C : v[n] \in Int BY <2>5
      <3> HIDE DEF v, C, total
      <3> QED BY <2>6, <2>7, <3>1, SumInt
    <2>9. ProratePlan(pl, since, until, days)
            = IF pl.kind # "subscription" \/ s = ZeroTime \/ until <= from THEN NoFee
              ELSE OrNoFee(total)
      BY <1>3 DEF ProratePlan, AmortizeSubscription
    <2> HIDE DEF total
    <2> QED BY <2>8, <2>9 DEF OrNoFee
  <1> QED BY <1>2, <1>3

\* What a provider is charged for a window is a whole number, or nothing.
LEMMA ProviderFeeInt ==
  ASSUME Typed, NEW win \in Windows, NEW events \in SUBSET ledger, NEW p \in Provider
  PROVE  ProviderFee(events, win, p) \in Int \cup {NoFee}
  <1>1. win.since \in Int /\ win.until \in Int BY WindowsInt DEF Typed
  <1>2. SpanStart(events) \in Int /\ SpanDays(events) \in Int
    <2> DEFINE T == Times(events)
               ts == [e \in events |-> e.ts]
    <2>1. IsFiniteSet(T) /\ T \in SUBSET Int
      <3>1. IsFiniteSet(events) BY FS_Subset DEF Typed
      <3>2. T = {ts[e] : e \in events} BY DEF Times
      <3>3. \A e \in events : e.ts \in Int
        <4> SUFFICES ASSUME NEW e \in events PROVE e.ts \in Int OBVIOUS
        <4>1. e \in TurnRecord BY DEF Typed
        <4>2. e.ts \in WorkAt BY <4>1 DEF TurnRecord
        <4> QED BY <4>2, Instants
      <3>4. T \in SUBSET Int BY <3>3 DEF Times
      <3> HIDE DEF ts, T
      <3> QED BY <3>1, <3>2, <3>4, FiniteImage
    <2>2. CASE events = {} BY <2>2 DEF SpanStart, SpanDays, ZeroTime
    <2>3. CASE events # {}
      <3>1. T # {} BY <2>3 DEF Times
      <3>2. Min(T) \in Int /\ Max(T) \in Int
        <4> HIDE DEF T
        <4> QED BY <2>1, <3>1, MinMax
      <3>3. DayCount(Min(T), Max(T)) \in Int
        <4> HIDE DEF T
        <4> QED BY <3>2, DayCountInt
      <3> HIDE DEF T
      <3>4. DayCount(Min(T), Max(T)) + 1 \in Int BY <3>3
      <3> QED BY <2>3, <3>2, <3>4 DEF SpanStart, SpanDays, T
    <2> QED BY <2>2, <2>3
  <1>3. WinSince(events, win) \in Int BY <1>1, <1>2 DEF WinSince
  <1>4. LegacyDays(events, win) \in Int
    <2> DEFINE d == DayCount(win.since, win.until)
    <2>1. d \in Int BY <1>1, DayCountInt
    <2>2. Max({0, d}) \in Int
      <3> HIDE DEF d
      <3>1. 0 \in Int OBVIOUS
      <3>2. Max({0, d}) = IF 0 <= d THEN d ELSE 0 BY <2>1, <3>1, MinMaxOfTwo
      <3> QED BY <2>1, <3>2
    <2> QED BY <1>2, <2>2 DEF LegacyDays
  <1>5. plan[p] \in Plan \cup {ApiPlan} BY DEF Typed
  <1> QED BY <1>1, <1>3, <1>4, <1>5, FeeInt DEF ProviderFee

\* A fee handed out in proportion is handed out whole, as long as there is
\* something to hand it out by; otherwise nothing is.
LEMMA AllocateAddsUp ==
  ASSUME NEW total \in Int, NEW basis, NEW D, D = DOMAIN basis, IsFiniteSet(D),
         D \in SUBSET Int, \A k \in D : basis[k] \in Int
  PROVE  /\ DOMAIN Allocate(total, basis) = D
         /\ \A k \in D : Allocate(total, basis)[k] \in Int
         /\ SumFunction(basis) \in Int /\ SumFunction(basis) = SumFunctionOnSet(basis, D)
         /\ SumFunctionOnSet(Allocate(total, basis), D)
              = IF SumFunction(basis) > 0 THEN total ELSE 0
  <1> DEFINE sum == SumFunction(basis)
             share == [k \in D |-> Quot(total * basis[k], sum)]
             largest == CHOOSE k \in D :
                          \A j \in D \ {k} :
                             \/ basis[j] < basis[k]
                             \/ basis[j] = basis[k] /\ k < j
             out == Allocate(total, basis)
  <1>1. sum = SumFunctionOnSet(basis, D) /\ sum \in Int BY SumInt DEF SumFunction
  <1>2. CASE sum <= 0
    <2>1. out = [k \in D |-> 0] BY <1>2 DEF Allocate
    <2>2. SumFunctionOnSet(out, D) = 0
      <3>1. \A k \in D : out[k] = 0 BY <2>1
      <3> HIDE DEF out
      <3> QED BY <3>1, SumZero
    <2>3. ~(sum > 0)
      <3> HIDE DEF sum
      <3> QED BY <1>1, <1>2
    <2> QED BY <1>1, <2>1, <2>2, <2>3
  <1>3. CASE sum > 0
    <2>1. D # {}
      <3> SUFFICES ASSUME D = {} PROVE FALSE OBVIOUS
      <3>1. SumFunctionOnSet(basis, D) = 0 BY SumEmpty
      <3> HIDE DEF sum
      <3> QED BY <1>1, <1>3, <3>1
    <2>2. largest \in D
      <3> DEFINE R == {q \in D \X D : basis[q[2]] < basis[q[1]]
                                        \/ (basis[q[1]] = basis[q[2]] /\ q[1] <= q[2])}
      <3>1. \A x, y \in D : <<x, y>> \in R <=> (basis[y] < basis[x]
                                                  \/ (basis[x] = basis[y] /\ x <= y))
        OBVIOUS
      <3> HIDE DEF R
      <3>2. \A x, y \in D : <<x, y>> \in R \/ <<y, x>> \in R
        <4> SUFFICES ASSUME NEW x \in D, NEW y \in D PROVE <<x, y>> \in R \/ <<y, x>> \in R
          OBVIOUS
        <4>1. x \in Int /\ y \in Int /\ basis[x] \in Int /\ basis[y] \in Int OBVIOUS
        <4> QED BY <3>1, <4>1
      <3>3. \A x, y, z \in D : <<x, y>> \in R /\ <<y, z>> \in R => <<x, z>> \in R
        <4> SUFFICES ASSUME NEW x \in D, NEW y \in D, NEW z \in D,
                            <<x, y>> \in R, <<y, z>> \in R
                     PROVE  <<x, z>> \in R
          OBVIOUS
        <4>1. /\ x \in Int /\ y \in Int /\ z \in Int
              /\ basis[x] \in Int /\ basis[y] \in Int /\ basis[z] \in Int
          OBVIOUS
        <4> QED BY <3>1, <4>1
      <3>4. PICK k \in D : \A y \in D : <<k, y>> \in R BY <2>1, <3>2, <3>3, Least
      <3>5. ASSUME NEW j \in D \ {k}
            PROVE  basis[j] < basis[k] \/ (basis[j] = basis[k] /\ k < j)
        <4>1. j \in Int /\ k \in Int /\ basis[j] \in Int /\ basis[k] \in Int /\ j # k OBVIOUS
        <4>2. basis[j] < basis[k] \/ (basis[k] = basis[j] /\ k <= j) BY <3>1, <3>4
        <4> QED BY <4>1, <4>2
      <3> QED BY <3>5
    <2>3. out = [share EXCEPT ![largest] = share[largest] + total - SumFunction(share)]
      BY <1>3, <1>1 DEF Allocate
    <2>4. \A k \in D : share[k] \in Int
      <3> SUFFICES ASSUME NEW k \in D PROVE Quot(total * basis[k], sum) \in Int OBVIOUS
      <3>1. total * basis[k] \in Int
        <4>1. basis[k] \in Int OBVIOUS
        <4> QED BY <4>1, SMT
      <3> HIDE DEF sum
      <3> QED BY <1>1, <1>3, <3>1, QuotInt
    <2> DEFINE S == SumFunctionOnSet(share, D)
               T == D \ {largest}
    <2>5. SumFunction(share) = S BY DEF SumFunction
    <2> HIDE DEF share, largest
    <2>6. S \in Int /\ S = share[largest] + SumFunctionOnSet(share, T)
      BY <2>2, <2>4, SumInt, SumRemove
    <2>7. IsFiniteSet(T) /\ SumFunctionOnSet(share, T) \in Int
      <3>1. IsFiniteSet(T) /\ \A k \in T : share[k] \in Int BY <2>4, FS_Subset
      <3> HIDE DEF T
      <3> QED BY <3>1, SumInt
    <2>8. /\ DOMAIN out = D /\ out[largest] = share[largest] + total - S
          /\ \A k \in T : out[k] = share[k]
      BY <2>2, <2>3, <2>5 DEF share
    <2>9. share[largest] \in Int BY <2>2, <2>4
    <2> HIDE DEF out, S
    <2>10. \A k \in D : out[k] \in Int BY <2>4, <2>6, <2>8, <2>9
    <2>11. SumFunctionOnSet(out, D) = out[largest] + SumFunctionOnSet(out, T)
      BY <2>2, <2>10, SumRemove
    <2>12. SumFunctionOnSet(out, T) = SumFunctionOnSet(share, T)
      <3> HIDE DEF T
      <3> QED BY <2>7, <2>8, SumSame
    <2>13. SumFunctionOnSet(out, D) = total
      <3> DEFINE X == SumFunctionOnSet(share, T)
      <3>1. X \in Int /\ S = share[largest] + X BY <2>6, <2>7
      <3>2. SumFunctionOnSet(out, D) = (share[largest] + total - S) + X BY <2>8, <2>11, <2>12
      <3> HIDE DEF X, T
      <3> QED BY <2>6, <2>9, <3>1, <3>2
    <2> QED BY <1>1, <1>3, <2>8, <2>10, <2>13 DEF out
  <1> HIDE DEF sum
  <1>4. sum <= 0 \/ sum > 0 BY <1>1
  <1> QED BY <1>2, <1>3, <1>4

\* What is handed out is the fees of the covered providers, whole.
LEMMA HandOutAddsUp ==
  ASSUME NEW fee, NEW basis,
         \A p \in Provider : /\ fee[p] \in Int \cup {NoFee}
                             /\ IsFiniteSet(DOMAIN basis[p]) /\ DOMAIN basis[p] \in SUBSET Int
                             /\ \A k \in DOMAIN basis[p] : basis[p][k] \in Int
  PROVE  SharesOfReport(HandOut(fee, basis))
  <1> DEFINE covered == {p \in Provider : fee[p] # NoFee /\ SumFunction(basis[p]) > 0}
             share == [p \in covered |-> Allocate(fee[p], basis[p])]
             K == UNION {DOMAIN basis[p] : p \in Provider}
             grp == [p \in covered |-> DOMAIN basis[p]]
             paid == [p \in covered |-> fee[p]]
             w == [p \in covered |-> SumFunctionOnSet(share[p], grp[p])]
             rows == [g \in K |-> MapThenSumSet(LAMBDA p : share[p][g],
                                     {p \in covered : g \in DOMAIN basis[p]})]
             total == MapThenSumSet(LAMBDA p : fee[p], covered)
  <1>1. HandOut(fee, basis) = [total |-> total, rows |-> rows] BY DEF HandOut
  <1>2. covered \in SUBSET Provider /\ IsFiniteSet(covered)
    BY ReportAssumption, FS_Subset
  <1>3. IsFiniteSet(K)
    <2> DEFINE dom == [p \in Provider |-> DOMAIN basis[p]]
    <2>1. IsFiniteSet({dom[p] : p \in Provider})
      <3>1. IsFiniteSet(Provider) BY ReportAssumption
      <3> HIDE DEF dom
      <3> QED BY <3>1, FiniteImage
    <2>2. {dom[p] : p \in Provider} = {DOMAIN basis[p] : p \in Provider} OBVIOUS
    <2> DEFINE D == {DOMAIN basis[p] : p \in Provider}
    <2>3. IsFiniteSet(D) /\ \A T \in D : IsFiniteSet(T) BY <2>1, <2>2
    <2> HIDE DEF D
    <2>4. IsFiniteSet(UNION D) BY <2>3, FS_UNION
    <2> QED BY <2>4 DEF D
  <1>4. grp \in [covered -> SUBSET K] BY <1>2
  <1>5. ASSUME NEW p \in covered
        PROVE  /\ \A g \in grp[p] : share[p][g] \in Int
               /\ paid[p] \in Int /\ w[p] = paid[p]
    <2>1. /\ fee[p] \in Int /\ SumFunction(basis[p]) > 0
          /\ grp[p] = DOMAIN basis[p] /\ share[p] = Allocate(fee[p], basis[p])
          /\ paid[p] = fee[p] /\ w[p] = SumFunctionOnSet(share[p], grp[p])
          /\ p \in Provider
      BY <1>5
    <2>2. /\ IsFiniteSet(DOMAIN basis[p]) /\ DOMAIN basis[p] \in SUBSET Int
          /\ \A k \in DOMAIN basis[p] : basis[p][k] \in Int
      BY <2>1
    <2> HIDE DEF covered, share, grp, paid, w
    <2> DEFINE D == DOMAIN basis[p]
    <2>3. /\ \A k \in D : Allocate(fee[p], basis[p])[k] \in Int
          /\ SumFunctionOnSet(Allocate(fee[p], basis[p]), D) = fee[p]
      <3>1. D = DOMAIN basis[p] OBVIOUS
      <3> HIDE DEF D
      <3> QED BY <2>1, <2>2, <3>1, AllocateAddsUp
    <2> QED BY <2>1, <2>3
  <1>6. total = SumFunctionOnSet(paid, covered)
    <2> HIDE DEF covered
    <2> QED BY ONLY DEF total, paid, MapThenSumSet, SumFunctionOnSet, FoldFunctionOnSet, MapThenFoldSet
  <1>7. rows = [g \in K |-> GroupSum(share, grp, covered, g)]
    <2> DEFINE M(g) == {p \in covered : g \in DOMAIN basis[p]}
               row(g) == MapThenSumSet(LAMBDA p : share[p][g], M(g))
    <2>1. rows = [g \in K |-> row(g)] OBVIOUS
    <2>2. ASSUME NEW g \in K PROVE row(g) = GroupSum(share, grp, covered, g)
      <3>1. Members(grp, covered, g) = M(g) BY DEF Members
      <3>2. row(g) = SumFunctionOnSet([p \in M(g) |-> share[p][g]], M(g))
        <4> HIDE DEF M, share, covered, grp, paid, w, rows, total, K
        <4> QED BY DEF MapThenSumSet, SumFunctionOnSet, FoldFunctionOnSet, MapThenFoldSet
      <3> HIDE DEF share, grp, M, row, covered
      <3> QED BY <3>1, <3>2 DEF GroupSum
    <2> HIDE DEF rows, row, share, grp, K, covered
    <2> QED BY <2>1, <2>2
  <1>8. SumFunctionOnSet([g \in K |-> GroupSum(share, grp, covered, g)], K)
          = SumFunctionOnSet(w, covered)
    <2> HIDE DEF share, grp, K, covered
    <2>1. \A p \in covered : \A g \in grp[p] : share[p][g] \in Int BY <1>5
    <2> QED BY <1>2, <1>3, <1>4, <2>1, SumGrouped
  <1>9. SumFunctionOnSet(w, covered) = SumFunctionOnSet(paid, covered)
    <2> HIDE DEF w, paid, covered
    <2> QED BY <1>2, <1>5, SumSame
  <1>10. SumFunction(rows) = SumFunctionOnSet(rows, K) BY DEF SumFunction
  <1> HIDE DEF rows, share, grp, K, covered, w, paid, total
  <1> QED BY <1>1, <1>6, <1>7, <1>8, <1>9, <1>10 DEF SharesOfReport

\* The basis a provider's fee is handed out by.
LEMMA BasisInt ==
  ASSUME NEW events \in SUBSET TurnRecord, IsFiniteSet(events), NEW prov, NEW by
  PROVE  /\ IsFiniteSet(DOMAIN Basis(events, prov, by))
         /\ DOMAIN Basis(events, prov, by) \in SUBSET Int
         /\ \A k \in DOMAIN Basis(events, prov, by) : Basis(events, prov, by)[k] \in Int
  <1> DEFINE own == {e \in Priced(events, "api_equivalent") : e.provider = prov}
             D == {GroupKey(e, by) : e \in own}
             key == [e \in own |-> GroupKey(e, by)]
             Part(g) == {e \in own : GroupKey(e, by) = g}
  <1>1. Basis(events, prov, by) = [g \in D |-> Cost(Part(g), "api_equivalent")] BY DEF Basis
  <1>2. own \in SUBSET TurnRecord /\ IsFiniteSet(own)
    <2>1. own \in SUBSET events BY DEF Priced
    <2> HIDE DEF own
    <2> QED BY <2>1, FS_Subset
  <1> HIDE DEF own
  <1>3. IsFiniteSet(D)
    <2>1. D = {key[e] : e \in own} OBVIOUS
    <2> HIDE DEF key, D
    <2> QED BY <1>2, <2>1, FiniteImage
  <1>4. D \in SUBSET Int
    <2> SUFFICES ASSUME NEW e \in own PROVE GroupKey(e, by) \in Int OBVIOUS
    <2>1. e \in TurnRecord BY <1>2
    <2>2. e.provider \in Int /\ e.model \in Int /\ e.session \in Int /\ e.repo \in Int
      BY <2>1, ReportAssumption DEF TurnRecord
    <2> QED BY <2>2 DEF GroupKey
  <1>5. ASSUME NEW g \in D PROVE Cost(Part(g), "api_equivalent") \in Int
    <2>1. Part(g) \in SUBSET TurnRecord /\ IsFiniteSet(Part(g)) BY <1>2, FS_Subset
    <2> HIDE DEF Part
    <2> QED BY <2>1, CostInt
  <1> HIDE DEF D, Part
  <1> QED BY <1>1, <1>3, <1>4, <1>5

\* Cut into rows by session and day, turns keep their cost.
LEMMA RowsOfSessions ==
  ASSUME NEW events \in SUBSET TurnRecord, IsFiniteSet(events),
         NEW own \in SUBSET SessionRows(events), NEW view
  PROVE  /\ IsFiniteSet(SessionRows(events)) /\ IsFiniteSet(own) /\ own \in SUBSET Int
         /\ \A r \in own : Cost(TurnsOf(events, r), view) \in Int
         /\ SumFunctionOnSet([r \in own |-> Cost(TurnsOf(events, r), view)], own)
              = Cost(UNION {TurnsOf(events, r) : r \in own}, view)
  <1> DEFINE E == {x \in events : x.session # Unknown}
             all == [e \in E |-> SessionRow(e)]
             U == UNION {TurnsOf(events, r) : r \in own}
             P == Priced(U, view)
             key == [e \in P |-> SessionRow(e)]
             v == [e \in P |-> PickView(e, view)]
             Part(r) == {e \in P : key[e] = r}
  <1>1. IsFiniteSet(SessionRows(events)) /\ IsFiniteSet(own)
    <2>1. IsFiniteSet(E) BY FS_Subset
    <2>2. SessionRows(events) = {all[e] : e \in E} BY DEF SessionRows
    <2> HIDE DEF E, all
    <2>3. IsFiniteSet({all[e] : e \in E}) BY ONLY <2>1, FiniteImage
    <2>4. IsFiniteSet(SessionRows(events)) BY ONLY <2>2, <2>3
    <2> QED BY <2>4, FS_Subset
  <1>2. SessionRows(events) \in SUBSET Int
    <2> SUFFICES ASSUME NEW e \in events PROVE SessionRow(e) \in Int BY DEF SessionRows
    <2>1. e \in TurnRecord OBVIOUS
    <2>2. e.session \in Int /\ e.ts \in Int BY <2>1, Instants DEF TurnRecord
    <2>3. EndOfTime \in Int
      <3>1. Len(MonthLen) + 1 \in 1 .. Len(MonthLen) + 1 BY MonthStartOrdered
      <3> QED BY <3>1, MonthStartOrdered DEF EndOfTime
    <2>4. StartOfDay(e.ts) \in Int BY <2>2, DayIn
    <2>5. e.session * EndOfTime \in Int BY <2>2, <2>3, SMT
    <2> QED BY <2>4, <2>5 DEF SessionRow
  <1>3. U \in SUBSET events /\ IsFiniteSet(U)
    <2>1. U \in SUBSET events BY DEF TurnsOf
    <2> HIDE DEF U
    <2> QED BY <2>1, FS_Subset
  <1>4. IsFiniteSet(P) /\ P \in SUBSET U /\ \A e \in P : v[e] \in Int
    <2> HIDE DEF U
    <2> QED BY <1>3, PricedTyped
  <1>5. key \in [P -> own]
    <2> SUFFICES ASSUME NEW e \in P PROVE SessionRow(e) \in own OBVIOUS
    <2>1. e \in U BY <1>4
    <2> QED BY <2>1 DEF TurnsOf
  <1>6. SumFunctionOnSet([r \in own |-> SumFunctionOnSet(v, {e \in P : key[e] = r})], own)
          = SumFunctionOnSet(v, P)
    <2> HIDE DEF P, key, v
    <2> QED BY <1>1, <1>4, <1>5, SumByKey
  <1>7. ASSUME NEW r \in own
        PROVE  /\ SumFunctionOnSet(v, Part(r)) = Cost(TurnsOf(events, r), view)
               /\ Cost(TurnsOf(events, r), view) \in Int
    <2> DEFINE T == Priced(TurnsOf(events, r), view)
               vr == [e \in T |-> PickView(e, view)]
    <2>1. Part(r) = T
      <3>1. ASSUME NEW e \in T PROVE e \in Part(r)
        <4>1. e \in TurnsOf(events, r) /\ PickView(e, view) # NoCost BY DEF Priced
        <4>2. e \in P BY <4>1 DEF Priced
        <4>3. SessionRow(e) = r BY <4>1 DEF TurnsOf
        <4> HIDE DEF P
        <4> QED BY <4>2, <4>3
      <3>2. ASSUME NEW e \in Part(r) PROVE e \in T
        <4>1. e \in P /\ SessionRow(e) = r OBVIOUS
        <4>2. e \in U /\ PickView(e, view) # NoCost BY <4>1 DEF Priced
        <4>3. e \in TurnsOf(events, r) BY <4>1, <4>2 DEF TurnsOf
        <4> QED BY <4>2, <4>3 DEF Priced
      <3> HIDE DEF P, T
      <3> QED BY <3>1, <3>2
    <2>2. TurnsOf(events, r) \in SUBSET TurnRecord /\ IsFiniteSet(TurnsOf(events, r))
      BY FS_Subset DEF TurnsOf
    <2>3. Cost(TurnsOf(events, r), view) = SumFunctionOnSet(vr, T)
          /\ Cost(TurnsOf(events, r), view) \in Int
      BY <2>2, CostSum, CostInt
    <2>4. IsFiniteSet(T) BY <2>2, PricedTyped
    <2>5. \A e \in T : v[e] = vr[e] BY <2>1
    <2> HIDE DEF T, v, vr, Part
    <2>6. SumFunctionOnSet(v, T) = SumFunctionOnSet(vr, T) BY <2>4, <2>5, SumSame
    <2> QED BY <2>1, <2>3, <2>6
  <1>8. [r \in own |-> SumFunctionOnSet(v, {e \in P : key[e] = r})]
          = [r \in own |-> Cost(TurnsOf(events, r), view)]
    <2> HIDE DEF P, key, v
    <2> QED BY <1>7
  <1>9. SumFunctionOnSet(v, P) = Cost(U, view)
    <2> HIDE DEF U
    <2> QED BY CostSum
  <1>10. own \in SUBSET Int BY <1>2
  <1> HIDE DEF P, key, v, U
  <1> QED BY <1>1, <1>6, <1>7, <1>8, <1>9, <1>10 DEF U

\* The explorer's sessions of a provider share its fee.
LEMMA ExplorerSharesFee ==
  ASSUME NEW events \in SUBSET TurnRecord, IsFiniteSet(events),
         NEW amortized, \A p \in DOMAIN amortized : amortized[p] \in Int
  PROVE  SharesOfExplorer(events, amortized, ExplorerRows(events, amortized))
  <1> DEFINE Own(p) == {r \in SessionRows(events) : RowProvider(events, r) = p}
             basis(p) == [r \in Own(p) |-> Cost(TurnsOf(events, r), "api_equivalent")]
             share == [p \in DOMAIN amortized |-> Allocate(amortized[p], basis(p))]
             rows == ExplorerRows(events, amortized)
  <1>1. rows = [r \in SessionRows(events) |->
                  IF RowProvider(events, r) \in DOMAIN amortized
                  THEN share[RowProvider(events, r)][r] ELSE 0]
    BY DEF ExplorerRows
  <1>2. DOMAIN rows = SessionRows(events) BY <1>1
  <1>3. ASSUME NEW p \in DOMAIN amortized
        PROVE  SumFunctionOnSet(rows, Own(p))
                 = IF Cost(UNION {TurnsOf(events, r) : r \in Own(p)}, "api_equivalent") > 0
                   THEN amortized[p] ELSE 0
    <2> DEFINE O == Own(p)
               b == basis(p)
               spent == Cost(UNION {TurnsOf(events, r) : r \in O}, "api_equivalent")
    <2>1. O \in SUBSET SessionRows(events) OBVIOUS
    <2>2. /\ IsFiniteSet(O) /\ O \in SUBSET Int
          /\ \A r \in O : Cost(TurnsOf(events, r), "api_equivalent") \in Int
          /\ SumFunctionOnSet([r \in O |-> Cost(TurnsOf(events, r), "api_equivalent")], O) = spent
      <3> HIDE DEF O
      <3> QED BY <2>1, RowsOfSessions
    <2>3. DOMAIN b = O /\ SumFunctionOnSet(b, O) = spent /\ \A r \in O : b[r] \in Int
      BY <2>2
    <2>4. amortized[p] \in Int BY <1>3
    <2>5. share[p] = Allocate(amortized[p], b) BY <1>3
    <2>6. \A r \in O : rows[r] = share[p][r]
      <3> SUFFICES ASSUME NEW r \in O PROVE rows[r] = share[p][r] OBVIOUS
      <3>1. r \in SessionRows(events) /\ RowProvider(events, r) = p OBVIOUS
      <3> HIDE DEF share, rows
      <3> QED BY <1>1, <1>3, <3>1
    <2> HIDE DEF O, b, share, rows, spent
    <2>7. /\ SumFunction(b) = SumFunctionOnSet(b, O)
          /\ SumFunctionOnSet(Allocate(amortized[p], b), O)
               = IF SumFunction(b) > 0 THEN amortized[p] ELSE 0
      <3>1. O = DOMAIN b /\ IsFiniteSet(O) /\ O \in SUBSET Int /\ \A k \in O : b[k] \in Int
        BY <2>2, <2>3
      <3> QED BY ONLY <2>4, <3>1, AllocateAddsUp
    <2>8. SumFunctionOnSet(rows, O) = SumFunctionOnSet(share[p], O) BY <2>2, <2>6, SumSame
    <2>9. SumFunctionOnSet(rows, O) = IF spent > 0 THEN amortized[p] ELSE 0
      BY <2>3, <2>5, <2>7, <2>8
    <2> QED BY <2>9 DEF O, spent
  <1>4. \A p \in DOMAIN amortized : {r \in DOMAIN rows : RowProvider(events, r) = p} = Own(p)
    BY <1>2
  <1> HIDE DEF rows
  <1> QED BY <1>3, <1>4 DEF SharesOfExplorer, rows

\* A fee is handed out once and whole, in the report's amortized view and in the
\* explorer's lens (cli.go: renderAllocated; tui.go: buildRows; pricing.go: Allocate).
THEOREM FeesHandedOutOnce == Spec => []FeeHandedOutOnce
  <1>1. Typed => FeeHandedOutOnce
    <2> SUFFICES ASSUME Typed, NEW win \in Windows, NEW events \in {Query(win)} \ {{}}
                 PROVE  /\ \A by \in By \ {"file"} : SharesOfReport(AllocatedRows(events, win, by))
                        /\ \A amortized \in {AmortizedByProvider(events, win)} :
                              SharesOfExplorer(events, amortized, ExplorerRows(events, amortized))
      BY DEF FeeHandedOutOnce
    <2>1. events \in SUBSET ledger /\ events \in SUBSET TurnRecord /\ IsFiniteSet(events)
      <3>1. events \in SUBSET ledger BY DEF Query
      <3> QED BY <3>1, FS_Subset DEF Typed
    <2>2. ASSUME NEW p \in Provider PROVE ProviderFee(events, win, p) \in Int \cup {NoFee}
      BY <2>1, ProviderFeeInt
    <2>3. ASSUME NEW by \in By \ {"file"} PROVE SharesOfReport(AllocatedRows(events, win, by))
      <3> DEFINE fee == [p \in Provider |-> ProviderFee(events, win, p)]
                 basis == [p \in Provider |-> Basis(events, p, by)]
      <3>1. \A p \in Provider : /\ fee[p] \in Int \cup {NoFee}
                                /\ IsFiniteSet(DOMAIN basis[p]) /\ DOMAIN basis[p] \in SUBSET Int
                                /\ \A k \in DOMAIN basis[p] : basis[p][k] \in Int
        <4> SUFFICES ASSUME NEW p \in Provider
                     PROVE  /\ fee[p] \in Int \cup {NoFee}
                            /\ IsFiniteSet(DOMAIN basis[p]) /\ DOMAIN basis[p] \in SUBSET Int
                            /\ \A k \in DOMAIN basis[p] : basis[p][k] \in Int
          OBVIOUS
        <4>1. fee[p] = ProviderFee(events, win, p) /\ basis[p] = Basis(events, p, by) OBVIOUS
        <4> HIDE DEF fee, basis
        <4> QED BY <2>1, <2>2, <4>1, BasisInt
      <3>2. SharesOfReport(HandOut(fee, basis))
        <4> HIDE DEF fee, basis
        <4> QED BY <3>1, HandOutAddsUp
      <3> QED BY <3>2 DEF AllocatedRows
    <2>4. ASSUME NEW amortized \in {AmortizedByProvider(events, win)}
          PROVE  SharesOfExplorer(events, amortized, ExplorerRows(events, amortized))
      <3>1. \A p \in DOMAIN amortized : amortized[p] \in Int
        <4> SUFFICES ASSUME NEW p \in DOMAIN amortized PROVE amortized[p] \in Int OBVIOUS
        <4> DEFINE A == {q \in {e.provider : e \in events} :
                            win.since # ZeroTime \/ plan[q].start # ZeroTime}
                   fee == [q \in A |-> ProviderFee(events, win, q)]
        <4>1. amortized = Restrict(fee, {q \in DOMAIN fee : fee[q] \notin {NoFee, 0}})
          BY <2>4 DEF AmortizedByProvider, Charging
        <4>2. p \in A /\ fee[p] \notin {NoFee, 0} /\ amortized[p] = fee[p]
          BY <4>1 DEF Restrict
        <4>3. p \in Provider
          <5>1. PICK e \in events : p = e.provider BY <4>2
          <5>2. e \in TurnRecord BY <2>1
          <5> QED BY <5>1, <5>2 DEF TurnRecord
        <4>4. fee[p] = ProviderFee(events, win, p) BY <4>2
        <4> HIDE DEF A, fee
        <4> QED BY <2>2, <4>2, <4>3, <4>4
      <3> QED BY <2>1, <3>1, ExplorerSharesFee
    <2> QED BY <2>3, <2>4
  <1> QED BY TypedInit, TypedNext, <1>1, PTL DEF Spec

------------------------------------------------------------------------------
(* Hours, pace, trend, savings and the days of the explorer.                *)

\* Cut by any key, the costs of the parts add up to the cost.
LEMMA CostByKey ==
  ASSUME NEW events \in SUBSET TurnRecord, IsFiniteSet(events), NEW view,
         NEW K, IsFiniteSet(K), NEW key \in [events -> K],
         NEW part, \A k \in K : part[k] = {e \in events : key[e] = k}
  PROVE  SumFunctionOnSet([k \in K |-> Cost(part[k], view)], K) = Cost(events, view)
  <1> DEFINE P == Priced(events, view)
             own == [e \in P |-> key[e]]
             v == [e \in P |-> PickView(e, view)]
             Mine(k) == {e \in P : own[e] = k}
  <1>1. IsFiniteSet(P) /\ P \in SUBSET events /\ \A e \in P : v[e] \in Int
    BY PricedTyped
  <1>2. own \in [P -> K] BY <1>1
  <1>3. SumFunctionOnSet([k \in K |-> SumFunctionOnSet(v, {e \in P : own[e] = k})], K)
          = SumFunctionOnSet(v, P)
    <2> HIDE DEF P, own, v
    <2> QED BY <1>1, <1>2, SumByKey
  <1>4. ASSUME NEW k \in K
        PROVE  SumFunctionOnSet(v, Mine(k)) = Cost(part[k], view)
    <2> DEFINE T == Priced(part[k], view)
               vk == [e \in T |-> PickView(e, view)]
    <2>1. Mine(k) = T BY <1>4 DEF Priced
    <2>2. Cost(part[k], view) = SumFunctionOnSet(vk, T) BY CostSum
    <2>3. IsFiniteSet(Mine(k))
      <3> HIDE DEF P, own
      <3> QED BY <1>1, FS_Subset
    <2>4. \A e \in Mine(k) : v[e] = vk[e]
      <3> SUFFICES ASSUME NEW e \in Mine(k) PROVE v[e] = vk[e] OBVIOUS
      <3>1. e \in P /\ e \in T BY <2>1
      <3> HIDE DEF P, T
      <3> QED BY <3>1
    <2> HIDE DEF T, v, vk, Mine
    <2>5. SumFunctionOnSet(v, Mine(k)) = SumFunctionOnSet(vk, Mine(k)) BY <2>3, <2>4, SumSame
    <2> QED BY <2>1, <2>2, <2>5
  <1>5. [k \in K |-> SumFunctionOnSet(v, {e \in P : own[e] = k})] = [k \in K |-> Cost(part[k], view)]
    <2> HIDE DEF P, own, v
    <2> QED BY <1>4
  <1>6. SumFunctionOnSet(v, P) = Cost(events, view) BY CostSum
  <1> HIDE DEF P, own, v
  <1> QED BY <1>3, <1>5, <1>6

\* Division keeps the order ...
LEMMA DivMonotone ==
  ASSUME NEW a \in Int, NEW b \in Int, NEW w \in Nat \ {0}, a <= b
  PROVE  a \div w \in Int /\ b \div w \in Int /\ a \div w <= b \div w
  <1> DEFINE q == a \div w
             p == b \div w
             r == a % w
             s == b % w
  <1>1. q \in Int /\ p \in Int /\ r \in 0 .. w - 1 /\ s \in 0 .. w - 1
        /\ a = w * q + r /\ b = w * p + s
    BY DivMod
  <1> HIDE DEF q, p, r, s
  <1>2. ~(p < q)
    <2> SUFFICES ASSUME p < q PROVE FALSE OBVIOUS
    <2>1. w * q >= w * (p + 1)
      <3>1. p + 1 <= q BY <1>1
      <3>2. w * (q - (p + 1)) >= 0
        <4>1. q - (p + 1) \in Nat BY <1>1, <3>1
        <4> QED BY <4>1, SMT
      <3>3. w * (q - (p + 1)) = w * q - w * (p + 1) BY <1>1, SMT
      <3>4. w * q \in Int /\ w * (p + 1) \in Int BY <1>1, SMT
      <3> QED BY <3>2, <3>3, <3>4
    <2>2. w * (p + 1) = w * p + w BY <1>1, SMT
    <2>3. w * p \in Int /\ w * q \in Int BY <1>1, SMT
    <2> QED BY <1>1, <2>1, <2>2, <2>3
  <1> QED BY <1>1, <1>2 DEF q, p

\* ... and undoes multiplication.
LEMMA DivTimes ==
  ASSUME NEW q \in Int, NEW w \in Nat \ {0}
  PROVE  (w * q) \div w = q
  <1> DEFINE a == w * q
             p == a \div w
             s == a % w
  <1>1. a \in Int BY SMT
  <1>2. p \in Int /\ s \in 0 .. w - 1 /\ a = w * p + s
    <2> HIDE DEF a
    <2> QED BY <1>1, DivMod
  <1>3. w * q + 0 = w * p + s
    <2> HIDE DEF p, s
    <2> QED BY <1>1, <1>2
  <1>4. 0 \in 0 .. w - 1 OBVIOUS
  <1>5. q = p
    <2> HIDE DEF a, p, s
    <2> QED BY ONLY <1>2, <1>3, <1>4, w \in Nat \ {0}, q \in Int, DivModUnique
  <1> QED BY <1>5

\* ZeroTime is before every instant: no bound is a bound, too.
LEMMA WindowOf ==
  ASSUME NEW t \in Nat, NEW win, win.since \in Int, win.until \in Int
  PROVE  InWindow(t, win) <=> win.since <= t /\ t <= win.until
  BY DEF InWindow, ZeroTime

\* When the turns of the ledger were recorded.
LEMMA TurnTimes ==
  ASSUME Typed, NEW e \in ledger
  PROVE  /\ e \in TurnRecord /\ e.ts \in Nat /\ e.ts \in Int /\ e.ts <= now /\ e.ts < EndOfTime
         /\ now \in Int /\ now \in Nat /\ EndOfTime \in Nat /\ e.provider \in Provider
  <1>1. e \in TurnRecord BY DEF Typed
  <1>2. e.ts \in WorkAt /\ e.provider \in Provider BY <1>1 DEF TurnRecord
  <1>3. e.ts \in Moments /\ now \in Moments /\ e.ts \in Nat /\ now \in Nat
    BY <1>2, ReportAssumption DEF Typed
  <1>4. e.ts \in 0 .. EndOfTime - 1 /\ EndOfTime \in Nat BY <1>3, NowInCalendar
  <1> QED BY <1>1, <1>2, <1>3, <1>4 DEF Typed

\* What a window reads from the ledger.
LEMMA QueryTyped ==
  ASSUME Typed, NEW win
  PROVE  Query(win) \in SUBSET ledger /\ Query(win) \in SUBSET TurnRecord /\ IsFiniteSet(Query(win))
  <1>1. Query(win) \in SUBSET ledger BY DEF Query
  <1> QED BY <1>1, FS_Subset DEF Typed

----------------------------------------------------------------------------
(* The parts of SurfacesAgree.                                              *)

\* Today and this month as windows.
LEMMA NowTyped ==
  ASSUME Typed
  PROVE  /\ now \in Nat /\ now \in Int /\ Day \in Nat \ {0}
         /\ StartOfDay(now) \in Nat /\ StartOfDay(now) <= now
         /\ This("day", now) = Window(StartOfDay(now), now)
         /\ This("month", now) = Window(StartOfMonth(now), now)
  <1>1. now \in Nat BY ReportAssumption DEF Typed
  <1>2. /\ StartOfDay(now) \in Int /\ StartOfDay(now) <= now
        /\ now \div Day \in Int /\ StartOfDay(now) = Day * (now \div Day) /\ Day \in Nat \ {0}
    BY <1>1, DayIn
  <1>3. now \div Day >= 0
    <2> DEFINE q == now \div Day
               r == now % Day
    <2>1. r \in 0 .. Day - 1 /\ now = Day * q + r /\ q \in Int BY <1>1, <1>2, DivMod
    <2> HIDE DEF q, r
    <2>2. ASSUME q <= -1 PROVE FALSE
      <3>1. Day * q <= -Day BY <1>2, <2>1, <2>2, SMT
      <3>2. Day * q \in Int BY <1>2, <2>1, SMT
      <3> QED BY <1>1, <1>2, <2>1, <3>1, <3>2
    <2>3. q >= 0 BY <2>1, <2>2
    <2> QED BY <2>3 DEF q
  <1>4. StartOfDay(now) \in Nat
    <2> DEFINE q == now \div Day
    <2>1. q \in Nat BY <1>2, <1>3
    <2> HIDE DEF q
    <2>2. Day * q \in Nat BY <1>2, <2>1, SMT
    <2> QED BY <1>2, <2>2 DEF q
  <1> QED BY <1>1, <1>2, <1>4 DEF This, StartOf

\* The hours of today add up to today.
LEMMA HoursAddUp ==
  ASSUME Typed
  PROVE  SumFunction(HourlyBuckets(Query(This("day", now))))
           = Cost(Query(This("day", now)), "api_equivalent")
  <1> DEFINE events == Query(This("day", now))
             s == StartOfDay(now)
             h(t) == (t + Zone) \div Hour
             start == TruncHour(s)
             n == (TruncHour(now) - start) \div Hour + 1
             K == 1 .. n
             at(e) == (TruncHour(e.ts) - start) \div Hour
             key == [e \in events |-> at(e) + 1]
             part == [k \in K |-> {e \in events : at(e) = k - 1}]
  <1>1. Hour \in Nat \ {0} /\ Zone \in Int BY ReportAssumption
  <1>2. s \in Nat /\ s <= now /\ now \in Int BY NowTyped
  <1>3. ASSUME NEW t \in Int, s <= t
        PROVE  /\ (TruncHour(t) - start) \div Hour = h(t) - h(s)
               /\ h(t) \in Int /\ h(s) \in Int /\ h(s) <= h(t)
    <2>1. s + Zone \in Int /\ t + Zone \in Int /\ s + Zone <= t + Zone BY <1>1, <1>2, <1>3
    <2>2. h(t) \in Int /\ h(s) \in Int /\ h(s) <= h(t)
      <3> DEFINE a == s + Zone
                 b == t + Zone
      <3> HIDE DEF a, b
      <3>1. a \in Int /\ b \in Int /\ a <= b BY <2>1 DEF a, b
      <3>2. a \div Hour \in Int /\ b \div Hour \in Int /\ a \div Hour <= b \div Hour
        BY <1>1, <3>1, DivMonotone
      <3> QED BY <3>2 DEF a, b
    <2>3. TruncHour(t) - start = Hour * (h(t) - h(s))
      <3>1. TruncHour(t) = Hour * h(t) - Zone /\ start = Hour * h(s) - Zone BY DEF TruncHour
      <3> HIDE DEF h, start
      <3>2. Hour * h(t) \in Int /\ Hour * h(s) \in Int
            /\ Hour * (h(t) - h(s)) = Hour * h(t) - Hour * h(s)
        BY <1>1, <2>2, SMT
      <3> QED BY <1>1, <3>1, <3>2
    <2>4. (Hour * (h(t) - h(s))) \div Hour = h(t) - h(s)
      <3> DEFINE d == h(t) - h(s)
      <3>1. d \in Int BY <2>2
      <3> HIDE DEF d
      <3>2. (Hour * d) \div Hour = d BY <1>1, <3>1, DivTimes
      <3> QED BY <3>2 DEF d
    <2> QED BY <2>2, <2>3, <2>4
  <1>4. n = h(now) - h(s) + 1 /\ h(now) \in Int /\ h(s) \in Int BY <1>2, <1>3
  <1>5. ASSUME NEW e \in events PROVE at(e) \in Int /\ at(e) + 1 \in K
    <2>1. e \in ledger /\ InWindow(e.ts, Window(s, now)) BY NowTyped DEF Query
    <2>2. e.ts \in Nat /\ e.ts <= now BY <2>1, TurnTimes
    <2>3. s <= e.ts BY <1>2, <2>1, <2>2, WindowOf DEF Window
    <2>4. e.ts \in Int BY <2>2
    <2>5. at(e) = h(e.ts) - h(s) /\ h(e.ts) \in Int /\ h(s) <= h(e.ts) BY <1>3, <2>3, <2>4
    <2>6. h(e.ts) <= h(now)
      <3> DEFINE a == e.ts + Zone
                 b == now + Zone
      <3>1. a \in Int /\ b \in Int /\ a <= b BY <1>1, <1>2, <2>2, <2>4
      <3> HIDE DEF a, b
      <3>2. a \div Hour <= b \div Hour BY <1>1, <3>1, DivMonotone
      <3> QED BY <3>2 DEF a, b
    <2> HIDE DEF h, at, n
    <2> QED BY <1>4, <2>5, <2>6
  <1>6. events \in SUBSET TurnRecord /\ IsFiniteSet(events) BY QueryTyped
  <1>7. n \in Int
    <2> HIDE DEF n, h
    <2> QED BY <1>4
  <1>8. IsFiniteSet(K)
    <2> HIDE DEF n
    <2> QED BY <1>7, FS_Interval
  <1>9. key \in [events -> K]
    <2> HIDE DEF at, K, events
    <2> QED BY <1>5
  <1>10. \A k \in K : part[k] = {e \in events : key[e] = k}
    <2> SUFFICES ASSUME NEW k \in K, NEW e \in events PROVE at(e) = k - 1 <=> at(e) + 1 = k
      <3> HIDE DEF at, K, events
      <3> QED OBVIOUS
    <2>1. k \in Int /\ at(e) \in Int
      <3> HIDE DEF at, events, n
      <3> QED BY <1>5, <1>7
    <2> HIDE DEF at
    <2> QED BY <2>1
  <1>11. HourlyBuckets(events) = [k \in K |-> Cost(part[k], "api_equivalent")]
    <2>1. HourlyBuckets(events)
            = [i \in 1 .. n |-> Cost({e \in events : at(e) = i - 1}, "api_equivalent")]
      BY DEF HourlyBuckets
    <2> HIDE DEF events, at, n
    <2> QED BY <2>1
  <1> HIDE DEF events, K, key, part
  <1>12. SumFunctionOnSet([k \in K |-> Cost(part[k], "api_equivalent")], K)
           = Cost(events, "api_equivalent")
    BY <1>6, <1>8, <1>9, <1>10, CostByKey
  <1>13. SumFunction(HourlyBuckets(events)) = Cost(events, "api_equivalent")
    BY <1>11, <1>12 DEF SumFunction
  <1> QED BY <1>13 DEF events

\* The run rate is never below what was spent.
LEMMA PaceKeepsUp ==
  ASSUME Typed, NEW spent \in Int, BudgetLimit > 0, spent > BudgetLimit
  PROVE  OverPace(ComputePace(BudgetLimit, spent, MonthBounds(now).start, MonthBounds(now).end))
  <1> DEFINE m == MonthOf(now)
             s == MonthStart[m]
             f == MonthStart[m + 1]
             el == now - s
             D == f - s
  <1>1. now \in Moments /\ BudgetLimit \in Nat BY ReportAssumption DEF Typed
  <1>2. now \in 0 .. EndOfTime - 1 /\ m \in Month /\ now \in Int BY <1>1, NowInCalendar
  <1>3. s <= now /\ now < f BY <1>2, MonthOfInstant
  <1>4. s \in Nat /\ f \in Nat
    <2>1. m \in 1 .. Len(MonthLen) + 1 /\ m + 1 \in 1 .. Len(MonthLen) + 1
      <3> HIDE DEF m
      <3> QED BY <1>2, MonthStartOrdered DEF Month
    <2> QED BY <2>1, MonthStartOrdered
  <1>5. MonthBounds(now) = [start |-> s, end |-> f] BY DEF MonthBounds, StartOfMonth
  <1>6. el \in Nat /\ D \in Nat /\ D >= el + 1
    <2> HIDE DEF s, f
    <2> QED BY <1>2, <1>3, <1>4
  <1> DEFINE num == 2 * spent * D + el
  <1>7. CASE el = 0
    <2>1. ComputePace(BudgetLimit, spent, s, f)
            = [spent |-> spent, limit |-> BudgetLimit, projected |-> spent]
      BY <1>7 DEF ComputePace
    <2> HIDE DEF s, f
    <2> QED BY <1>5, <2>1 DEF OverPace
  <1>8. CASE el > 0
    <2>1. ComputePace(BudgetLimit, spent, s, f)
            = [spent |-> spent, limit |-> BudgetLimit, projected |-> Quot(num, 2 * el)]
      <3> HIDE DEF s, f, m
      <3> QED BY <1>2, <1>4, <1>8 DEF ComputePace
    <2>2. spent \in Nat /\ spent >= BudgetLimit + 1 BY <1>1
    <2>3. num \in Int /\ (2 * el) * spent <= num
      <3> HIDE DEF el, D
      <3>1. 2 * spent * D \in Int BY <1>6, <2>2, SMT
      <3>2. spent * el <= spent * D
        <4>1. spent * (D - el) >= 0
          <5>1. D - el \in Nat BY <1>6
          <5> QED BY <2>2, <5>1, SMT
        <4>2. spent * (D - el) = spent * D - spent * el BY <1>6, <2>2, SMT
        <4>3. spent * D \in Int /\ spent * el \in Int BY <1>6, <2>2, SMT
        <4> QED BY <4>1, <4>2, <4>3
      <3>3. (2 * el) * spent = 2 * (spent * el) /\ 2 * spent * D = 2 * (spent * D)
        BY <1>6, <2>2, SMT
      <3>4. spent * D \in Int /\ spent * el \in Int BY <1>6, <2>2, SMT
      <3> QED BY <1>6, <3>1, <3>2, <3>3, <3>4
    <2> DEFINE w == 2 * el
    <2>4. w \in Nat \ {0} /\ w * spent \in Nat
      <3>1. w \in Nat \ {0}
        <4> HIDE DEF el
        <4> QED BY <1>6, <1>8
      <3> HIDE DEF w
      <3> QED BY <2>2, <3>1, SMT
    <2>5. (w * spent) \div w = spent
      <3> HIDE DEF w
      <3> QED BY <2>4, DivTimes
    <2>6. Quot(num, w) = num \div w
      <3> HIDE DEF num, w
      <3>1. num >= 0 BY <2>3, <2>4 DEF w
      <3> QED BY <3>1 DEF Quot
    <2>7. (w * spent) \div w <= num \div w /\ num \div w \in Int
      <3> DEFINE a == w * spent
      <3>1. a \in Int /\ a <= num BY <2>3, <2>4
      <3> HIDE DEF a, w, num
      <3>2. a \div w <= num \div w /\ num \div w \in Int BY <2>3, <2>4, <3>1, DivMonotone
      <3> QED BY <3>2 DEF a
    <2>8. Quot(num, w) > BudgetLimit
      <3> HIDE DEF num, w
      <3> QED BY <1>1, <2>2, <2>5, <2>6, <2>7
    <2> HIDE DEF s, f, num, el
    <2> QED BY <1>5, <2>1, <2>8 DEF OverPace, w
  <1> HIDE DEF el
  <1> QED BY <1>6, <1>7, <1>8

\* The turns of one provider among a day's.
LEMMA TodaysTurns ==
  ASSUME Typed, NEW p
  PROVE  TurnsToday(p) = {e \in Query(This("day", now)) : e.provider = p}
  <1>1. StartOfDay(now) \in Nat /\ Day \in Nat \ {0} /\ now \in Int BY NowTyped
  <1>2. TrendSince \in Int /\ TrendSince <= StartOfDay(now)
    <2>1. TrendDays - 1 \in Nat BY ReportAssumption
    <2>2. (TrendDays - 1) * Day \in Nat BY <1>1, <2>1, SMT
    <2> QED BY <1>1, <2>2 DEF TrendSince
  <1>3. ASSUME NEW e \in ledger
        PROVE  InWindow(e.ts, Window(TrendSince, now)) /\ e.ts >= StartOfDay(now)
                 <=> InWindow(e.ts, This("day", now))
    <2>1. e.ts \in Nat BY TurnTimes
    <2>2. InWindow(e.ts, Window(TrendSince, now)) <=> TrendSince <= e.ts /\ e.ts <= now
      BY <1>1, <1>2, <2>1, WindowOf DEF Window
    <2>3. InWindow(e.ts, This("day", now)) <=> StartOfDay(now) <= e.ts /\ e.ts <= now
      BY <1>1, <2>1, NowTyped, WindowOf DEF Window
    <2> QED BY <1>1, <1>2, <2>1, <2>2, <2>3
  <1> QED BY <1>3 DEF TurnsToday, Query

\* A row of the report by provider is the cost of the provider's turns.
LEMMA ProviderRow ==
  ASSUME NEW events \in SUBSET TurnRecord, IsFiniteSet(events), NEW p, NEW view,
         NEW rows, rows = Rows(events, "provider", view),
         NEW own, own = {e \in events : e.provider = p}
  PROVE  Cost(own, view) = IF p \in DOMAIN rows THEN rows[p] ELSE 0
  <1>1. \A e \in events : Groups(e, "provider") = {e.provider} BY DEF Groups, GroupKey
  <1>2. own = {e \in events : p \in Groups(e, "provider")} BY <1>1
  <1>3. DOMAIN rows = Keys(Priced(events, view), "provider") BY DEF Rows
  <1>4. CASE p \in DOMAIN rows BY <1>2, <1>3, <1>4, RowIsCost
  <1>5. CASE p \notin DOMAIN rows
    <2>1. Priced(own, view) = {}
      <3> SUFFICES ASSUME NEW e \in Priced(own, view) PROVE FALSE OBVIOUS
      <3>1. e \in own /\ e \in Priced(events, view) /\ e \in events BY DEF Priced
      <3>2. p \in Groups(e, "provider") BY <1>2, <3>1
      <3>3. p \in UNION {Groups(x, "provider") : x \in Priced(events, view)}
        <4> DEFINE P == Priced(events, view)
        <4> HIDE DEF P
        <4>1. e \in P BY <3>1 DEF P
        <4>2. p \in UNION {Groups(x, "provider") : x \in P} BY <3>2, <4>1
        <4> QED BY <4>2 DEF P
      <3> QED BY <1>3, <1>5, <3>3 DEF Keys
    <2>2. Cost(own, view) = 0 BY <2>1, CostSum, SumEmpty
    <2> QED BY <1>5, <2>2
  <1> QED BY <1>4, <1>5

\* The trend's buckets: every turn of the window in one, today's in the last.
LEMMA TrendAddsUp ==
  ASSUME Typed, NEW p
  PROVE  /\ SumFunction(Trend(p))
              = Cost({e \in Query(Window(TrendSince, now)) : e.provider = p}, "api_equivalent")
         /\ Trend(p)[TrendDays] = SpendToday(p)
  <1> DEFINE own == {e \in Query(Window(TrendSince, now)) : e.provider = p}
             x(e) == DayCount(TrendSince, StartOfDay(e.ts))
             last == TrendDays - 1
             day(e) == Min({last, Max({0, x(e)})})
             K == 1 .. TrendDays
             key == [e \in own |-> day(e) + 1]
             part == [k \in K |-> {e \in own : day(e) = k - 1}]
  <1>1. last \in Nat /\ last \in Int /\ TrendDays \in Nat \ {0} /\ TrendDays = last + 1
    BY ReportAssumption
  <1>2. StartOfDay(now) \in Nat /\ Day \in Nat \ {0} /\ now \in Int BY NowTyped
  <1>3. StartOfDay(now) = Day * (now \div Day) /\ now \div Day \in Int BY <1>2, DayIn
  <1>4. ASSUME NEW e \in own
        PROVE  /\ x(e) \in Int
               /\ day(e) = IF x(e) <= 0 THEN 0 ELSE IF last <= x(e) THEN last ELSE x(e)
               /\ x(e) >= last <=> e.ts >= StartOfDay(now)
               /\ last = 0 => e.ts >= StartOfDay(now)
    <2>1. e \in ledger /\ InWindow(e.ts, Window(TrendSince, now)) BY <1>4 DEF Query
    <2>2. e.ts \in Nat BY <2>1, TurnTimes
    <2> DEFINE q == now \div Day
               t == e.ts \div Day
    <2>3. /\ StartOfDay(e.ts) = Day * t /\ t \in Int /\ StartOfDay(e.ts) <= e.ts
          /\ e.ts < StartOfDay(e.ts) + Day
      <3> DEFINE ts == e.ts
      <3>1. ts \in Int BY <2>2
      <3> HIDE DEF ts
      <3>2. /\ StartOfDay(ts) = Day * (ts \div Day) /\ ts \div Day \in Int
            /\ StartOfDay(ts) <= ts /\ ts < StartOfDay(ts) + Day
        BY <3>1, DayIn
      <3> QED BY <3>2 DEF ts
    <2>4. StartOfDay(now) = Day * q /\ q \in Int BY <1>3
    <2> HIDE DEF q, t, last
    <2>5. TrendSince = Day * (q - last)
      <3>1. TrendSince = Day * q - last * Day BY <1>1, <2>4 DEF TrendSince, last
      <3>2. Day * (q - last) = Day * q - last * Day BY <1>1, <1>2, <2>4, SMT
      <3> QED BY <3>1, <3>2
    <2>6. x(e) = t - q + last /\ x(e) \in Int
      <3> DEFINE d == t - q + last
      <3>1. d \in Int BY <1>1, <2>3, <2>4
      <3>2. StartOfDay(e.ts) - TrendSince = Day * d
        <4>1. Day * t - Day * (q - last) = Day * d BY <1>1, <1>2, <2>3, <2>4, SMT
        <4> QED BY <2>3, <2>5, <4>1
      <3> HIDE DEF d
      <3>3. (Day * d) \div Day = d BY <1>2, <3>1, DivTimes
      <3> QED BY <3>1, <3>2, <3>3 DEF DayCount, d
    <2> HIDE DEF x
    <2>7. day(e) = IF x(e) <= 0 THEN 0 ELSE IF last <= x(e) THEN last ELSE x(e)
      <3> DEFINE y == Max({0, x(e)})
      <3>1. 0 \in Int OBVIOUS
      <3>2. y = IF 0 <= x(e) THEN x(e) ELSE 0 BY <2>6, <3>1, MinMaxOfTwo
      <3> HIDE DEF y
      <3>3. y \in Int BY <2>6, <3>2
      <3>4. Min({last, y}) = IF last <= y THEN last ELSE y BY <1>1, <3>3, MinMaxOfTwo
      <3>5. day(e) = Min({last, y}) BY DEF y
      <3> HIDE DEF day
      <3> QED BY <1>1, <2>6, <3>2, <3>4, <3>5
    <2>8. x(e) >= last <=> e.ts >= StartOfDay(now)
      <3>1. x(e) >= last <=> q <= t BY <1>1, <2>3, <2>4, <2>6
      <3>2. ASSUME NEW i \in Int, NEW j \in Int PROVE i <= j => Day * i <= Day * j
        <4>1. ASSUME i <= j PROVE Day * i <= Day * j
          <5>1. j - i \in Nat BY <4>1
          <5>2. Day * (j - i) \in Nat BY <1>2, <5>1, SMT
          <5>3. Day * (j - i) = Day * j - Day * i /\ Day * i \in Int /\ Day * j \in Int
            BY <1>2, SMT
          <5> QED BY <5>2, <5>3
        <4> QED BY <4>1
      <3>3. Day * (t + 1) = Day * t + Day /\ Day * t \in Int /\ Day * q \in Int
        BY <1>2, <2>3, <2>4, SMT
      <3>4. q <= t => Day * q <= Day * t BY <2>3, <2>4, <3>2
      <3>5. ~(q <= t) => Day * (t + 1) <= Day * q
        <4>1. ~(q <= t) => t + 1 <= q BY <2>3, <2>4
        <4>2. t + 1 \in Int BY <2>3
        <4> QED BY <2>4, <3>2, <4>1, <4>2
      <3>6. e.ts \in Int BY <2>2
      <3>7. q <= t <=> e.ts >= Day * q
        <4>1. q <= t => e.ts >= Day * q BY <2>3, <3>3, <3>4, <3>6
        <4>2. ~(q <= t) => ~(e.ts >= Day * q) BY <1>2, <2>3, <3>3, <3>5, <3>6
        <4> QED BY <4>1, <4>2
      <3> QED BY <2>4, <3>1, <3>7
    <2>9. last = 0 => e.ts >= StartOfDay(now)
      <3> SUFFICES ASSUME last = 0 PROVE e.ts >= StartOfDay(now) OBVIOUS
      <3>1. TrendSince = StartOfDay(now) BY <2>4, <2>5
      <3>2. StartOfDay(now) <= e.ts BY <1>2, <2>1, <2>2, <3>1, WindowOf DEF Window
      <3> QED BY <1>2, <2>2, <3>2
    <2> QED BY <2>6, <2>7, <2>8, <2>9
  <1>5. ASSUME NEW e \in own PROVE day(e) \in 0 .. last
    <2>1. x(e) \in Int /\ day(e) = IF x(e) <= 0 THEN 0 ELSE IF last <= x(e) THEN last ELSE x(e)
      BY <1>4
    <2> HIDE DEF day, x, last
    <2> QED BY <1>1, <2>1
  <1>6. own \in SUBSET TurnRecord /\ IsFiniteSet(own)
    <2>1. own \in SUBSET Query(Window(TrendSince, now)) OBVIOUS
    <2> HIDE DEF own
    <2> QED BY <2>1, QueryTyped, FS_Subset
  <1>7. IsFiniteSet(K) BY <1>1, FS_Interval
  <1>8. key \in [own -> K]
    <2> HIDE DEF day, own
    <2> QED BY <1>1, <1>5
  <1>9. \A k \in K : part[k] = {e \in own : key[e] = k}
    <2> SUFFICES ASSUME NEW k \in K, NEW e \in own PROVE day(e) = k - 1 <=> day(e) + 1 = k
      <3> HIDE DEF day, own
      <3> QED OBVIOUS
    <2>1. day(e) \in 0 .. last BY <1>5
    <2> HIDE DEF day, last
    <2> QED BY <1>1, <2>1
  <1>10. Trend(p) = [k \in K |-> Cost(part[k], "api_equivalent")]
    <2>1. Trend(p) = [i \in K |-> Cost({e \in own : day(e) = i - 1}, "api_equivalent")]
      BY DEF Trend
    <2> HIDE DEF own, day, K
    <2> QED BY <2>1
  <1>11. SumFunction(Trend(p)) = Cost(own, "api_equivalent")
    <2> HIDE DEF own, K, key, part
    <2>1. SumFunctionOnSet([k \in K |-> Cost(part[k], "api_equivalent")], K)
            = Cost(own, "api_equivalent")
      BY <1>6, <1>7, <1>8, <1>9, CostByKey
    <2> QED BY <1>10, <2>1 DEF SumFunction
  <1>12. Trend(p)[TrendDays] = SpendToday(p)
    <2>1. TrendDays \in K BY <1>1
    <2>2. part[TrendDays] = {e \in own : day(e) = last} BY <1>1, <2>1
    <2>3. ASSUME NEW e \in own PROVE day(e) = last <=> e.ts >= StartOfDay(now)
      <3>1. /\ x(e) \in Int
            /\ day(e) = IF x(e) <= 0 THEN 0 ELSE IF last <= x(e) THEN last ELSE x(e)
            /\ x(e) >= last <=> e.ts >= StartOfDay(now)
            /\ last = 0 => e.ts >= StartOfDay(now)
        BY <1>4
      <3> HIDE DEF day, x, last
      <3> QED BY <1>1, <3>1
    <2>4. {e \in own : day(e) = last} = TurnsToday(p)
      <3> HIDE DEF day, last
      <3> QED BY <2>3 DEF TurnsToday
    <2>5. Trend(p)[TrendDays] = Cost(part[TrendDays], "api_equivalent")
      <3> HIDE DEF part, K
      <3> QED BY <1>10, <2>1
    <2> QED BY <2>2, <2>4, <2>5 DEF SpendToday
  <1> QED BY <1>11, <1>12

\* The bill without a cache as the sum of a function.
LEMMA WithoutSum ==
  ASSUME NEW events
  PROVE  Without(events)
           = SumFunctionOnSet([e \in Rated(events) |-> WithoutCache(Rates[table][e.model], e.tokens)],
                              Rated(events))
  BY DEF Without, MapThenSumSet, SumFunctionOnSet, FoldFunctionOnSet, MapThenFoldSet

\* The bill without a cache, provider by provider.
LEMMA WithoutAddsUp ==
  ASSUME Typed, NEW events \in SUBSET TurnRecord, IsFiniteSet(events),
         \A e \in events : e.provider \in Provider,
         NEW part, \A p \in Provider : part[p] = {e \in events : e.provider = p}
  PROVE  /\ \A p \in Provider : Without(part[p]) \in Int
         /\ SumFunctionOnSet([p \in Provider |-> Without(part[p])], Provider) = Without(events)
  <1> DEFINE R == Rated(events)
             v == [e \in R |-> WithoutCache(Rates[table][e.model], e.tokens)]
             key == [e \in R |-> e.provider]
             Mine(p) == {e \in R : key[e] = p}
  <1>1. R \in SUBSET events /\ IsFiniteSet(R) BY FS_Subset DEF Rated
  <1>2. \A e \in R : v[e] \in Int
    <2> SUFFICES ASSUME NEW e \in R
                 PROVE  WithoutCache(Rates[table][e.model], e.tokens) \in Int
      OBVIOUS
    <2> DEFINE r == Rates[table][e.model]
               tk == e.tokens
    <2>1. r \in [RateClass -> Nat]
      <3>1. table \in DOMAIN Rates /\ e.model \in DOMAIN Rates[table] BY DEF Typed, Rated
      <3> QED BY <3>1, ReportAssumption
    <2>2. tk \in [Class -> Int]
      <3>1. e \in TurnRecord BY <1>1
      <3> QED BY <3>1 DEF TurnRecord
    <2> HIDE DEF r, tk
    <2>3. /\ r.input \in Int /\ r.output \in Int
          /\ tk.input \in Int /\ tk.cacheRead \in Int /\ tk.cacheWrite \in Int /\ tk.output \in Int
      BY <2>1, <2>2 DEF RateClass, Class
    <2>4. MaxInt64 \in Int BY PricingAssumption
    <2>5. ASSUME NEW a \in Int, NEW b \in Int PROVE AddSat(a, b) \in Int BY <2>4 DEF AddSat
    <2> DEFINE t == AddSat(AddSat(tk.input, tk.cacheRead), tk.cacheWrite)
    <2>6. t \in Int BY <2>3, <2>5
    <2> HIDE DEF t
    <2>7. Micros(t, r.input) \in Nat /\ Micros(tk.output, r.output) \in Nat
      BY <2>3, <2>6, MicrosNat
    <2>8. WithoutCache(r, tk) = Wrap(Micros(t, r.input) + Micros(tk.output, r.output))
      BY DEF WithoutCache, t
    <2>9. \A x \in -(MaxInt64 + 1) .. MaxInt64 : x \in Int BY <2>4
    <2> DEFINE sum == Micros(t, r.input) + Micros(tk.output, r.output)
    <2>10. sum \in Int BY <2>7
    <2> HIDE DEF sum
    <2>11. Wrap(sum) \in Int BY <2>9, <2>10, WrapInt
    <2> QED BY <2>8, <2>11 DEF r, tk, sum
  <1>3. key \in [R -> Provider] BY <1>1
  <1>4. SumFunctionOnSet([p \in Provider |-> SumFunctionOnSet(v, {e \in R : key[e] = p})], Provider)
          = SumFunctionOnSet(v, R)
    <2>1. IsFiniteSet(Provider) BY ReportAssumption
    <2> HIDE DEF R, v, key
    <2> QED BY <1>1, <1>2, <1>3, <2>1, SumByKey
  <1>5. ASSUME NEW p \in Provider
        PROVE  SumFunctionOnSet(v, Mine(p)) = Without(part[p]) /\ Without(part[p]) \in Int
    <2> DEFINE T == Rated(part[p])
               vp == [e \in T |-> WithoutCache(Rates[table][e.model], e.tokens)]
    <2>1. Mine(p) = T BY <1>5 DEF Rated
    <2>2. Without(part[p]) = SumFunctionOnSet(vp, T) BY WithoutSum
    <2>3. IsFiniteSet(Mine(p))
      <3> HIDE DEF R, key
      <3> QED BY <1>1, FS_Subset
    <2>4. \A e \in Mine(p) : v[e] = vp[e] /\ v[e] \in Int
      <3> SUFFICES ASSUME NEW e \in Mine(p) PROVE v[e] = vp[e] /\ v[e] \in Int OBVIOUS
      <3>1. e \in R /\ e \in T BY <2>1
      <3>2. v[e] \in Int BY <1>2, <3>1
      <3> HIDE DEF R, T
      <3> QED BY <3>1, <3>2
    <2> HIDE DEF T, v, vp, Mine
    <2>5. SumFunctionOnSet(v, Mine(p)) = SumFunctionOnSet(vp, Mine(p)) BY <2>3, <2>4, SumSame
    <2>6. SumFunctionOnSet(v, Mine(p)) \in Int BY <2>3, <2>4, SumInt
    <2> QED BY <2>1, <2>2, <2>5, <2>6
  <1>6. [p \in Provider |-> SumFunctionOnSet(v, {e \in R : key[e] = p})]
          = [p \in Provider |-> Without(part[p])]
    <2> HIDE DEF R, v, key
    <2> QED BY <1>5
  <1>7. SumFunctionOnSet(v, R) = Without(events) BY WithoutSum
  <1> HIDE DEF R, v, key
  <1> QED BY <1>4, <1>5, <1>6, <1>7

\* When every card shows a saving, the savings add up to the day's.
LEMMA SavingsAddUp ==
  ASSUME Typed, DOMAIN Cards = Provider, \A p \in DOMAIN Cards : Cards[p].saved > 0
  PROVE  CacheSaved(Without(Query(This("day", now))), TodayTotal)
           = MapThenSumSet(LAMBDA p : Cards[p].saved, DOMAIN Cards)
  <1> DEFINE events == Query(This("day", now))
             part == [p \in Provider |-> {e \in events : e.provider = p}]
             out == [p \in Provider |-> Without(part[p])]
             in == [p \in Provider |-> Cost(part[p], "api_equivalent")]
             saved == [p \in Provider |-> Cards[p].saved]
             key == [e \in events |-> e.provider]
             O == SumFunctionOnSet(out, Provider)
             I == SumFunctionOnSet(in, Provider)
             S == SumFunctionOnSet(saved, Provider)
  <1>1. /\ events \in SUBSET TurnRecord /\ IsFiniteSet(events)
        /\ \A e \in events : e.provider \in Provider
    <2>1. events \in SUBSET TurnRecord /\ IsFiniteSet(events) BY QueryTyped
    <2>2. \A e \in events : e.provider \in Provider
      <3> SUFFICES ASSUME NEW e \in events PROVE e.provider \in Provider OBVIOUS
      <3>1. e \in TurnRecord BY <2>1
      <3> QED BY <3>1 DEF TurnRecord
    <2> QED BY <2>1, <2>2
  <1>2. IsFiniteSet(Provider) BY ReportAssumption
  <1>3. \A p \in Provider : part[p] = {e \in events : e.provider = p} OBVIOUS
  <1>4. O = Without(events) /\ \A p \in Provider : out[p] \in Int
    <2> HIDE DEF events, part
    <2> QED BY <1>1, <1>3, WithoutAddsUp
  <1>5. I = TodayTotal /\ \A p \in Provider : in[p] \in Int
    <2>1. key \in [events -> Provider] BY <1>1
    <2>2. \A p \in Provider : part[p] = {e \in events : key[e] = p}
      <3> HIDE DEF events
      <3> QED OBVIOUS
    <2>3. ASSUME NEW p \in Provider PROVE in[p] \in Int
      <3>1. part[p] \in SUBSET TurnRecord /\ IsFiniteSet(part[p])
        <4> HIDE DEF events
        <4> QED BY <1>1, FS_Subset
      <3> HIDE DEF part
      <3> QED BY <3>1, CostInt
    <2>4. TodayTotal = Cost(events, "api_equivalent") BY DEF TodayTotal
    <2> HIDE DEF events, part, key
    <2>5. I = Cost(events, "api_equivalent") BY <1>1, <1>2, <2>1, <2>2, CostByKey
    <2> QED BY <2>3, <2>4, <2>5
  <1>6. ASSUME NEW p \in Provider
        PROVE  /\ saved[p] \in Nat /\ saved[p] > 0
               /\ out[p] = saved[p] + in[p] /\ in[p] > 0
    <2>1. Cards[p].saved = CacheSaved(Without(TurnsToday(p)), SpendToday(p)) /\ SpendToday(p) > 0
      BY DEF Cards, Card
    <2>2. TurnsToday(p) = part[p] BY TodaysTurns
    <2>3. out[p] = Without(TurnsToday(p)) /\ in[p] = SpendToday(p)
      BY <2>2 DEF SpendToday
    <2>4. saved[p] = CacheSaved(out[p], in[p]) /\ saved[p] > 0 /\ in[p] > 0
      <3>1. Cards[p].saved > 0 OBVIOUS
      <3> HIDE DEF out, in
      <3> QED BY <2>1, <2>3, <3>1
    <2>5. out[p] \in Int /\ in[p] \in Int BY <1>4, <1>5
    <2> HIDE DEF out, in, saved
    <2> QED BY <2>4, <2>5 DEF CacheSaved
  <1>7. MapThenSumSet(LAMBDA p : Cards[p].saved, DOMAIN Cards) = S
    <2>1. MapThenSumSet(LAMBDA p : Cards[p].saved, DOMAIN Cards)
            = SumFunctionOnSet([p \in DOMAIN Cards |-> Cards[p].saved], DOMAIN Cards)
      BY ONLY DEF MapThenSumSet, SumFunctionOnSet, FoldFunctionOnSet, MapThenFoldSet
    <2>2. DOMAIN Cards = Provider OBVIOUS
    <2>3. SumFunctionOnSet([p \in DOMAIN Cards |-> Cards[p].saved], DOMAIN Cards)
            = SumFunctionOnSet([p \in Provider |-> Cards[p].saved], Provider)
      BY ONLY <2>2
    <2> QED BY <2>1, <2>3
  <1> HIDE DEF out, in, saved
  <1>8. O = S + I
    <2>1. \A p \in Provider : saved[p] \in Int /\ in[p] \in Int /\ out[p] = saved[p] + in[p]
      BY <1>5, <1>6
    <2> QED BY <1>2, <2>1, SumPlus
  <1>9. S \in Nat /\ I \in Nat /\ (Provider # {} => S > 0) /\ (Provider = {} => S = 0 /\ I = 0)
    <2>1. \A p \in Provider : in[p] \in Nat BY <1>5, <1>6
    <2>2. S \in Nat /\ I \in Nat BY <1>2, <1>6, <2>1, SumNat
    <2>3. Provider # {} => S > 0
      <3> SUFFICES ASSUME NEW p \in Provider PROVE S > 0 OBVIOUS
      <3>1. saved[p] <= S BY <1>2, <1>6, SumNat
      <3>2. saved[p] \in Nat /\ saved[p] > 0 BY <1>6
      <3> HIDE DEF S
      <3> QED BY <2>2, <3>1, <3>2
    <2>4. Provider = {} => S = 0 /\ I = 0 BY SumEmpty
    <2> QED BY <2>2, <2>3, <2>4
  <1>10. CacheSaved(O, I) = S
    <2> HIDE DEF O, I, S
    <2>1. CASE Provider = {} BY <1>8, <1>9, <2>1 DEF CacheSaved
    <2>2. CASE Provider # {} BY <1>8, <1>9, <2>2 DEF CacheSaved
    <2> QED BY <2>1, <2>2
  <1> HIDE DEF O, I, S, events
  <1> QED BY <1>4, <1>5, <1>7, <1>10 DEF events

\* The row of the explorer that a turn is in, and its day.
LEMMA RowDayOf ==
  ASSUME Typed, NEW e \in ledger
  PROVE  RowDay(SessionRow(e)) = StartOfDay(e.ts)
  <1>1. e.ts \in Nat /\ e.ts \in Int /\ e.ts < EndOfTime /\ EndOfTime \in Nat BY TurnTimes
  <1>2. e.session \in Int
    <2>1. e \in TurnRecord BY DEF Typed
    <2> QED BY <2>1 DEF TurnRecord
  <1> DEFINE d == StartOfDay(e.ts)
             q == e.session
             w == EndOfTime
  <1>3. d \in Nat /\ d <= e.ts
    <2> DEFINE ts == e.ts
               k == ts \div Day
    <2>1. ts \in Int /\ 0 <= ts BY <1>1
    <2> HIDE DEF ts
    <2>2. StartOfDay(ts) = Day * k /\ k \in Int /\ StartOfDay(ts) <= ts /\ Day \in Nat \ {0}
      BY <2>1, DayIn
    <2>3. 0 \div Day = 0
      <3>1. (Day * 0) \div Day = 0 BY <2>2, DivTimes
      <3>2. Day * 0 = 0 BY <2>2, SMT
      <3> QED BY <3>1, <3>2
    <2>4. 0 \div Day <= k BY <2>1, <2>2, DivMonotone
    <2> HIDE DEF k
    <2>5. k \in Nat BY <2>2, <2>3, <2>4
    <2>6. Day * k \in Nat BY <2>2, <2>5, SMT
    <2> QED BY <2>2, <2>6 DEF ts
  <1>4. d \in 0 .. w - 1 /\ w \in Nat \ {0} /\ d < w
    <2> HIDE DEF d
    <2> QED BY <1>1, <1>3
  <1>5. SessionRow(e) = d + w * q
    <2>1. SessionRow(e) = q * w + d BY DEF SessionRow
    <2>2. q * w = w * q BY <1>2, <1>4, SMT
    <2>3. w * q \in Int BY <1>2, <1>4, SMT
    <2> HIDE DEF q, w, d
    <2> QED BY <1>3, <2>1, <2>2, <2>3
  <1> HIDE DEF d, q, w
  <1>6. (d + w * q) % w = d % w
    <2>1. d \in Int /\ q \in Int BY <1>2, <1>3 DEF q
    <2> QED BY <1>4, <2>1, ModShift
  <1>7. d % w = d
    <2> SUFFICES ASSUME NEW a \in Nat, NEW b \in Nat \ {0}, a < b PROVE a % b = a
      BY <1>3, <1>4
    <2> QED BY SMT
  <1> QED BY <1>5, <1>6, <1>7 DEF RowDay, d, w

\* A day's subtotal does not depend on the window it is read in.
LEMMA DaySubtotalIsTheDay ==
  ASSUME Typed, NEW d \in Int, NEW view, NEW w1 \in Windows, NEW w2 \in Windows,
         w1.since <= d, d + Day - 1 <= w1.until, w2.since <= d, d + Day - 1 <= w2.until
  PROVE  DaySubtotal(Query(w1), d, view) = DaySubtotal(Query(w2), d, view)
  <1> DEFINE D == {e \in ledger : StartOfDay(e.ts) = d}
             rows(w) == {row \in SessionRows(Query(w)) : RowDay(row) = d}
  <1>1. Day \in Nat \ {0} BY CalendarAssumption
  <1>2. ASSUME NEW w \in Windows, w.since <= d, d + Day - 1 <= w.until, NEW e \in D
        PROVE  e \in Query(w)
    <2>1. e.ts \in Nat /\ e.ts \in Int BY TurnTimes
    <2> DEFINE ts == e.ts
    <2> HIDE DEF ts
    <2>2. StartOfDay(ts) <= ts /\ ts < StartOfDay(ts) + Day BY <2>1, DayIn DEF ts
    <2>3. w.since \in Int /\ w.until \in Int BY <1>2, WindowsInt DEF Typed
    <2>4. StartOfDay(ts) = d BY <1>2 DEF ts
    <2>5. w.since <= ts /\ ts <= w.until BY <1>1, <1>2, <2>1, <2>2, <2>3, <2>4 DEF ts
    <2>6. InWindow(ts, w) BY <2>1, <2>3, <2>5, WindowOf DEF ts
    <2> QED BY <2>6 DEF Query, ts
  <1>3. ASSUME NEW w \in Windows, w.since <= d, d + Day - 1 <= w.until
        PROVE  /\ rows(w) = {SessionRow(e) : e \in {x \in D : x.session # Unknown}}
               /\ \A row \in rows(w) : TurnsOf(Query(w), row) = TurnsOf(D, row)
    <2>1. D \in SUBSET Query(w) /\ Query(w) \in SUBSET ledger BY <1>2, <1>3 DEF Query
    <2>2. \A e \in ledger : RowDay(SessionRow(e)) = d <=> e \in D BY RowDayOf
    <2> DEFINE Q == Query(w)
    <2> HIDE DEF Q, D
    <2>3. D \in SUBSET Q /\ Q \in SUBSET ledger BY <2>1 DEF Q
    <2>4. {row \in SessionRows(Q) : RowDay(row) = d}
             = {SessionRow(e) : e \in {x \in D : x.session # Unknown}}
      BY <2>2, <2>3 DEF SessionRows
    <2>5. ASSUME NEW row, RowDay(row) = d PROVE TurnsOf(Q, row) = TurnsOf(D, row)
      BY <2>2, <2>3, <2>5 DEF TurnsOf
    <2> QED BY <2>4, <2>5 DEF Q
  <1>4. rows(w1) = rows(w2) BY <1>3
  <1>5. \A row \in rows(w1) : TurnsOf(Query(w1), row) = TurnsOf(Query(w2), row)
    <2> SUFFICES ASSUME NEW row \in rows(w1)
                 PROVE TurnsOf(Query(w1), row) = TurnsOf(Query(w2), row)
      OBVIOUS
    <2>1. row \in rows(w2) BY <1>4
    <2> HIDE DEF rows
    <2> QED BY <1>3, <2>1
  <1> DEFINE f1 == [row \in rows(w1) |-> Cost(TurnsOf(Query(w1), row), view)]
             f2 == [row \in rows(w2) |-> Cost(TurnsOf(Query(w2), row), view)]
  <1>6. /\ DaySubtotal(Query(w1), d, view) = SumFunctionOnSet(f1, rows(w1))
        /\ DaySubtotal(Query(w2), d, view) = SumFunctionOnSet(f2, rows(w2))
    BY DEF DaySubtotal, MapThenSumSet, SumFunctionOnSet, FoldFunctionOnSet, MapThenFoldSet
  <1>7. f1 = f2
    <2> HIDE DEF rows
    <2> QED BY <1>4, <1>5
  <1> HIDE DEF rows, f1, f2
  <1> QED BY <1>4, <1>6, <1>7

\* Every surface tells the same story of one ledger (today.go, usage.go,
\* session_list.go, budget.go).
THEOREM SurfacesTellOneStory == Spec => []SurfacesAgree
  <1>1. Typed => SurfacesAgree
    <2> SUFFICES ASSUME Typed PROVE SurfacesAgree OBVIOUS
    <2> DEFINE day == AggregateReport(Query(This("day", now)), "provider", "api_equivalent")
               month == AggregateReport(Query(This("month", now)), "model", "api_equivalent")
               days == AggregateReport(Query(LastDays(TrendDays, now)), "provider", "api_equivalent")
    <2>1. TodayTotal = day.total BY DEF TodayTotal, AggregateReport
    <2>2. SumFunction(HourlyBuckets(Query(This("day", now)))) = day.total
      BY HoursAddUp DEF AggregateReport
    <2>3. BudgetPace.spent = month.total
      BY NowTyped DEF BudgetPace, ComputePace, AggregateReport, MonthBounds
    <2>4. ASSUME BudgetLimit > 0, month.total > BudgetLimit PROVE OverPace(BudgetPace)
      <3> DEFINE spent == Cost(Query(Window(MonthBounds(now).start, now)), "api_equivalent")
      <3>1. month.total = spent BY NowTyped DEF AggregateReport, MonthBounds
      <3>2. spent \in Int
        <4> DEFINE Q == Query(Window(MonthBounds(now).start, now))
        <4>1. Q \in SUBSET TurnRecord /\ IsFiniteSet(Q) BY QueryTyped
        <4> HIDE DEF Q
        <4>2. Cost(Q, "api_equivalent") \in Int BY <4>1, CostInt
        <4> QED BY <4>2 DEF Q
      <3>3. BudgetPace = ComputePace(BudgetLimit, spent, MonthBounds(now).start, MonthBounds(now).end)
        BY DEF BudgetPace
      <3> HIDE DEF spent, month
      <3> QED BY <2>4, <3>1, <3>2, <3>3, PaceKeepsUp
    <2>5. ASSUME \A p \in DOMAIN Cards : Cards[p].saved > 0, DOMAIN Cards = Provider
          PROVE  CacheSaved(Without(Query(This("day", now))), TodayTotal)
                   = MapThenSumSet(LAMBDA p : Cards[p].saved, DOMAIN Cards)
      BY <2>5, SavingsAddUp
    <2>6. ASSUME NEW p \in Provider
          PROVE  /\ SpendToday(p) = (IF p \in DOMAIN day.rows THEN day.rows[p] ELSE 0)
                 /\ SumFunction(Trend(p)) = (IF p \in DOMAIN days.rows THEN days.rows[p] ELSE 0)
                 /\ Trend(p)[TrendDays] = SpendToday(p)
      <3> DEFINE Q == Query(This("day", now))
                 T == Query(LastDays(TrendDays, now))
                 q == {e \in Q : e.provider = p}
                 t == {e \in T : e.provider = p}
      <3>1. /\ Q \in SUBSET TurnRecord /\ IsFiniteSet(Q)
            /\ T \in SUBSET TurnRecord /\ IsFiniteSet(T)
        BY QueryTyped
      <3>2. day.rows = Rows(Q, "provider", "api_equivalent")
            /\ days.rows = Rows(T, "provider", "api_equivalent")
        BY DEF AggregateReport
      <3>3. SpendToday(p) = Cost(q, "api_equivalent") BY TodaysTurns DEF SpendToday
      <3>4. SumFunction(Trend(p)) = Cost(t, "api_equivalent") /\ Trend(p)[TrendDays] = SpendToday(p)
        <4>1. LastDays(TrendDays, now) = Window(TrendSince, now)
          <5>1. TrendDays \in Nat \ {0} BY ReportAssumption
          <5>2. ~(TrendDays < 1) BY <5>1
          <5> QED BY <5>2 DEF LastDays, TrendSince
        <4> QED BY <4>1, TrendAddsUp
      <3>5. q = {e \in Q : e.provider = p} /\ t = {e \in T : e.provider = p} OBVIOUS
      <3> HIDE DEF Q, T, q, t, day, days
      <3>6. Cost(q, "api_equivalent") = (IF p \in DOMAIN day.rows THEN day.rows[p] ELSE 0)
        BY <3>1, <3>2, <3>5, ProviderRow
      <3>7. Cost(t, "api_equivalent") = (IF p \in DOMAIN days.rows THEN days.rows[p] ELSE 0)
        BY <3>1, <3>2, <3>5, ProviderRow
      <3> QED BY <3>3, <3>4, <3>6, <3>7
    <2>7. ASSUME NEW d \in {StartOfDay(e.ts) : e \in ledger}, NEW view \in View,
                 NEW w1 \in {w \in Windows : w.since <= d /\ d + Day - 1 <= w.until},
                 NEW w2 \in {w \in Windows : w.since <= d /\ d + Day - 1 <= w.until}
          PROVE  DaySubtotal(Query(w1), d, view) = DaySubtotal(Query(w2), d, view)
      <3>1. d \in Int
        <4>1. PICK e \in ledger : d = StartOfDay(e.ts) BY <2>7
        <4>2. e.ts \in Int BY TurnTimes
        <4> QED BY <4>1, <4>2, DayIn
      <3> QED BY <3>1, DaySubtotalIsTheDay
    <2> HIDE DEF day, month, days
    <2> QED BY <2>1, <2>2, <2>3, <2>4, <2>5, <2>6, <2>7 DEF SurfacesAgree, day, month, days
  <1> QED BY TypedInit, TypedNext, <1>1, PTL DEF Spec

------------------------------------------------------------------------------
(* Windows that meet.                                                       *)

\* Dividing a sum, with a carry of at most one.
LEMMA DivAdd ==
  ASSUME NEW x \in Int, NEW y \in Int, NEW c \in {0, 1}, NEW w \in Nat \ {0}
  PROVE  /\ x \div w \in Int /\ y \div w \in Int /\ (x + y + c) \div w \in Int
         /\ (x \div w) + (y \div w) <= (x + y + c) \div w
         /\ (x + y + c) \div w <= (x \div w) + (y \div w) + 1
  <1> DEFINE q == x \div w
             p == y \div w
             r == x % w
             s == y % w
             z == x + y + c
             k == z \div w
             t == z % w
  <1>1. /\ q \in Int /\ r \in 0 .. w - 1 /\ x = w * q + r
        /\ p \in Int /\ s \in 0 .. w - 1 /\ y = w * p + s
    BY DivMod
  <1>2. k \in Int /\ t \in 0 .. w - 1 /\ z = w * k + t
    <2>1. z \in Int OBVIOUS
    <2> HIDE DEF z
    <2> QED BY <2>1, DivMod
  <1> HIDE DEF q, p, r, s, k, t
  <1>3. w * q \in Int /\ w * p \in Int /\ w * (q + p) = w * q + w * p
        /\ w * (q + p + 1) = w * q + w * p + w
    BY <1>1, SMT
  <1>4. CASE r + s + c < w
    <2>1. w * (q + p) + (r + s + c) = w * k + t BY <1>1, <1>2, <1>3
    <2>2. q + p \in Int /\ r + s + c \in 0 .. w - 1 BY <1>1, <1>4
    <2> DEFINE i == q + p
               j == r + s + c
    <2>3. i \in Int /\ j \in 0 .. w - 1 /\ w * i + j = w * k + t BY <2>1, <2>2
    <2> HIDE DEF i, j
    <2>4. i = k BY ONLY <1>2, <2>3, w \in Nat \ {0}, DivModUnique
    <2>5. q + p = k BY <2>4 DEF i
    <2>6. q + p <= k /\ k <= q + p + 1 BY <1>1, <2>5
    <2> QED BY <1>1, <1>2, <2>6 DEF q, p, k
  <1>5. CASE r + s + c >= w
    <2>1. w * (q + p + 1) + (r + s + c - w) = w * k + t BY <1>1, <1>2, <1>3
    <2>2. q + p + 1 \in Int /\ r + s + c - w \in 0 .. w - 1 BY <1>1, <1>5
    <2> DEFINE i == q + p + 1
               j == r + s + c - w
    <2>3. i \in Int /\ j \in 0 .. w - 1 /\ w * i + j = w * k + t BY <2>1, <2>2
    <2> HIDE DEF i, j
    <2>4. i = k BY ONLY <1>2, <2>3, w \in Nat \ {0}, DivModUnique
    <2>5. q + p + 1 = k BY <2>4 DEF i
    <2>6. q + p <= k /\ k <= q + p + 1 BY <1>1, <2>5
    <2> QED BY <1>1, <1>2, <2>6 DEF q, p, k
  <1>6. r + s + c < w \/ r + s + c >= w BY <1>1
  <1> QED BY <1>4, <1>5, <1>6

\* A fee charged in two parts, with at most one unit left out between them.
LEMMA FeeInParts ==
  ASSUME NEW fee \in Nat, NEW len \in Nat \ {0}, NEW i \in Nat, NEW j \in Nat, NEW k \in Nat,
         i + j <= k, k <= i + j + 1
  PROVE  /\ (fee * i) \div len \in Int /\ (fee * j) \div len \in Int /\ (fee * k) \div len \in Int
         /\ fee \div len \in Nat
         /\ (fee * i) \div len + (fee * j) \div len <= (fee * k) \div len
         /\ (fee * k) \div len <= ((fee * i) \div len) + ((fee * j) \div len) + (fee \div len) + 2
  <1> DEFINE x == fee * i
             y == fee * j
             z == fee * k
             two == x + y
             three == x + y + fee
  <1>1. x \in Int /\ y \in Int /\ z \in Int /\ two <= z /\ z <= three
    <2>1. x \in Nat /\ y \in Nat /\ z \in Nat BY SMT
    <2>2. k = i + j \/ k = i + j + 1 OBVIOUS
    <2>3. fee * (i + j) = fee * i + fee * j /\ fee * (i + j + 1) = fee * i + fee * j + fee BY SMT
    <2> QED BY <2>1, <2>2, <2>3
  <1> HIDE DEF x, y, z
  <1>2. /\ x \div len \in Int /\ y \div len \in Int /\ two \div len \in Int
        /\ (x \div len) + (y \div len) <= two \div len
        /\ two \div len <= (x \div len) + (y \div len) + 1
    <2>1. 0 \in {0, 1} /\ x + y + 0 = two BY <1>1
    <2> HIDE DEF two
    <2> QED BY <1>1, <2>1, DivAdd
  <1>3. /\ fee \div len \in Int /\ three \div len \in Int
        /\ three \div len <= (two \div len) + (fee \div len) + 1
    <2>1. 0 \in {0, 1} /\ two + fee + 0 = three /\ two \in Int /\ fee \in Int BY <1>1
    <2> HIDE DEF two, three
    <2>2. /\ fee \div len \in Int /\ (two + fee + 0) \div len \in Int
          /\ (two + fee + 0) \div len <= (two \div len) + (fee \div len) + 1
      BY ONLY <2>1, len \in Nat \ {0}, DivAdd
    <2> QED BY <2>1, <2>2
  <1>4. two \div len <= z \div len /\ z \div len \in Int /\ z \div len <= three \div len
    <2>1. two \in Int /\ three \in Int /\ two <= z /\ z <= three BY <1>1
    <2> HIDE DEF two, three
    <2> QED BY <1>1, <2>1, DivMonotone
  <1>5. fee \div len \in Nat BY SMT
  <1> DEFINE a == x \div len
             b == y \div len
             c == z \div len
             d == two \div len
             e == three \div len
             f == fee \div len
  <1>6. /\ a \in Int /\ b \in Int /\ c \in Int /\ d \in Int /\ e \in Int /\ f \in Nat
        /\ a + b <= d /\ d <= a + b + 1 /\ e <= d + f + 1 /\ d <= c /\ c <= e
    BY <1>2, <1>3, <1>4, <1>5
  <1> HIDE DEF a, b, c, d, e, f
  <1>7. a + b <= c /\ c <= a + b + f + 2 BY <1>6
  <1> QED BY <1>6, <1>7 DEF a, b, c, f, x, y, z

\* A month ends where the next begins.
LEMMA NextMonth ==
  ASSUME NEW k \in Month
  PROVE  /\ MonthLen[k] \in Nat \ {0} /\ MonthStart[k] \in Nat /\ MonthStart[k + 1] \in Nat
         /\ MonthStart[k + 1] = MonthStart[k] + Day * MonthLen[k]
  <1> DEFINE S == 1 .. k - 1
             T == 1 .. (k + 1) - 1
  <1>1. /\ Len(MonthLen) \in Nat /\ k \in 1 .. Len(MonthLen)
        /\ k \in 1 .. Len(MonthLen) + 1 /\ k + 1 \in 1 .. Len(MonthLen) + 1
    BY MonthStartOrdered DEF Month
  <1>2. MonthLen[k] \in Nat \ {0} BY <1>1, CalendarAssumption
  <1>3. S = T \ {k} /\ k \in T /\ IsFiniteSet(T) /\ \A i \in T : MonthLen[i] \in Int
    <2>1. T = 1 .. k BY <1>1
    <2>2. IsFiniteSet(1 .. k) BY <1>1, FS_Interval
    <2>3. \A i \in 1 .. k : MonthLen[i] \in Int
      <3> SUFFICES ASSUME NEW i \in 1 .. k PROVE MonthLen[i] \in Int OBVIOUS
      <3>1. i \in 1 .. Len(MonthLen) BY <1>1
      <3>2. MonthLen[i] \in Nat BY <3>1, CalendarAssumption
      <3> QED BY <3>2
    <2> QED BY <1>1, <2>1, <2>2, <2>3
  <1>4. SumFunctionOnSet(MonthLen, T) = MonthLen[k] + SumFunctionOnSet(MonthLen, S)
    <2>1. SumFunctionOnSet(MonthLen, T) = MonthLen[k] + SumFunctionOnSet(MonthLen, T \ {k})
      <3> HIDE DEF T
      <3> QED BY <1>3, SumRemove
    <2> QED BY <1>3, <2>1
  <1>5. SumFunctionOnSet(MonthLen, S) \in Int
    <2>1. IsFiniteSet(S) /\ \A i \in S : MonthLen[i] \in Int BY <1>3, FS_Subset
    <2> HIDE DEF S
    <2> QED BY <2>1, SumInt
  <1>6. /\ MonthStart[k] = Day * SumFunctionOnSet(MonthLen, S)
        /\ MonthStart[k + 1] = Day * SumFunctionOnSet(MonthLen, T)
    BY <1>1, MonthStartSum
  <1>7. ASSUME NEW a \in Int, NEW b \in Int PROVE Day * (a + b) = Day * b + Day * a
    BY CalendarAssumption, SMT
  <1>8. MonthStart[k] \in Nat /\ MonthStart[k + 1] \in Nat BY <1>1, MonthStartOrdered
  <1> DEFINE A == SumFunctionOnSet(MonthLen, S)
             B == MonthLen[k]
  <1>9. A \in Int /\ B \in Int /\ MonthStart[k] = Day * A /\ MonthStart[k + 1] = Day * (B + A)
    BY <1>2, <1>4, <1>5, <1>6
  <1> HIDE DEF A, B
  <1>10. Day * (B + A) = Day * A + Day * B BY <1>7, <1>9
  <1>11. MonthStart[k + 1] = MonthStart[k] + Day * B BY <1>9, <1>10
  <1> QED BY <1>2, <1>8, <1>11 DEF B

\* How far into its month a plan's anchor is.
Offset(t, k) == Min({DayCount(StartOfMonth(t), t), MonthLen[k] - 1})

\* A billing anchor is a day of its own month.
LEMMA AnchorPlace ==
  ASSUME NEW t \in 0 .. EndOfTime - 1, NEW n \in Nat, NEW k \in Month, k = MonthOf(t) + n,
         NEW d, d = DayCount(StartOfMonth(t), t)
  PROVE  /\ AddMonthsClamped(t, n) = MonthStart[k] + Day * Offset(t, k)
         /\ AddMonthsClamped(t, n) \in Int
         /\ d \in Nat
         /\ Offset(t, k) = IF d <= MonthLen[k] - 1 THEN d ELSE MonthLen[k] - 1
         /\ Offset(t, k) \in 0 .. MonthLen[k] - 1
         /\ MonthStart[k] <= AddMonthsClamped(t, n) /\ AddMonthsClamped(t, n) < MonthStart[k + 1]
  <1> DEFINE o == Offset(t, k)
             l == MonthLen[k] - 1
             a == AddMonthsClamped(t, n)
  <1>1. a = MonthStart[k] + Day * o BY DEF AddMonthsClamped, Offset
  <1>2. /\ MonthLen[k] \in Nat \ {0} /\ MonthStart[k] \in Nat /\ MonthStart[k + 1] \in Nat
        /\ MonthStart[k + 1] = MonthStart[k] + Day * MonthLen[k]
    BY NextMonth
  <1>3. Day \in Nat \ {0} BY CalendarAssumption
  <1>4. d \in Nat
    <2> DEFINE s == StartOfMonth(t)
               x == t - s
    <2>1. MonthOf(t) \in Month /\ MonthStart[MonthOf(t)] <= t BY MonthOfInstant
    <2>2. s \in Nat /\ s <= t /\ t \in Int
      <3>1. MonthStart[MonthOf(t)] \in Nat BY <2>1, NextMonth
      <3> QED BY <2>1, <3>1, MonthStartOrdered DEF StartOfMonth
    <2>3. x \in Int /\ 0 <= x
      <3> HIDE DEF s
      <3> QED BY <2>2
    <2> HIDE DEF x
    <2>4. 0 \div Day = 0
      <3>1. (Day * 0) \div Day = 0 BY <1>3, DivTimes
      <3>2. Day * 0 = 0 BY <1>3, SMT
      <3> QED BY <3>1, <3>2
    <2>5. 0 \div Day <= x \div Day /\ x \div Day \in Int BY <1>3, <2>3, DivMonotone
    <2>6. x \div Day \in Nat BY <2>4, <2>5
    <2> QED BY <2>6 DEF DayCount, x
  <1>5. o = IF d <= l THEN d ELSE l
    <2>1. l \in Int /\ d \in Int BY <1>2, <1>4
    <2>2. o = Min({d, l}) BY DEF Offset
    <2> HIDE DEF o, l
    <2> QED BY <2>1, <2>2, MinMaxOfTwo
  <1>6. o \in 0 .. l
    <2> HIDE DEF o
    <2> QED BY <1>2, <1>4, <1>5
  <1>7. a \in Int /\ MonthStart[k] <= a /\ a < MonthStart[k + 1]
    <2> HIDE DEF o, a
    <2>1. o \in Nat /\ MonthLen[k] - o \in Nat \ {0} BY <1>2, <1>6
    <2>2. Day * o \in Nat BY <1>3, <2>1, SMT
    <2>3. Day * (MonthLen[k] - o) > 0 BY <1>3, <2>1, SMT
    <2>4. Day * (MonthLen[k] - o) = Day * MonthLen[k] - Day * o BY <1>2, <1>3, <2>1, SMT
    <2>5. Day * MonthLen[k] \in Int BY <1>2, <1>3, SMT
    <2> QED BY <1>1, <1>2, <2>2, <2>3, <2>4, <2>5
  <1> HIDE DEF o, a, l
  <1> QED BY <1>1, <1>4, <1>5, <1>6, <1>7 DEF o, a, l

ShortestMonth == Min(Range(MonthLen))

\* No month is shorter than the shortest.
LEMMA Shortest ==
  ASSUME NEW k \in Month
  PROVE  ShortestMonth \in Nat \ {0} /\ ShortestMonth <= MonthLen[k]
  <1> DEFINE S == Range(MonthLen)
  <1>1. Len(MonthLen) \in Nat /\ DOMAIN MonthLen = Month /\ IsFiniteSet(Month)
    <2>1. Len(MonthLen) \in Nat BY CalendarAssumption
    <2> QED BY <2>1, CalendarAssumption, FS_Interval DEF Month
  <1>2. IsFiniteSet(S)
    <2>1. S = {MonthLen[x] : x \in Month} BY <1>1 DEF Range
    <2> QED BY <1>1, <2>1, FiniteImage
  <1>3. S \in SUBSET (Nat \ {0}) /\ MonthLen[k] \in S
    <2>1. \A x \in Month : MonthLen[x] \in Nat \ {0} BY NextMonth
    <2> QED BY <1>1, <2>1 DEF Range
  <1> HIDE DEF S
  <1>4. S \in SUBSET Int /\ S # {} BY <1>3
  <1>5. Min(S) \in S /\ \A y \in S : Min(S) <= y BY <1>2, <1>4, MinMax
  <1> QED BY <1>3, <1>5 DEF ShortestMonth, S

\* A cycle is at least as long as the shortest month, and cycles do not overlap.
LEMMA CycleLength ==
  ASSUME NEW t \in 0 .. EndOfTime - 1, NEW n \in Nat,
         MonthOf(t) + n \in Month, MonthOf(t) + (n + 1) \in Month,
         NEW cs, cs = AddMonthsClamped(t, n), NEW ce, ce = AddMonthsClamped(t, n + 1)
  PROVE  /\ cs \in Int /\ ce \in Int /\ cs < ce
         /\ DayCount(cs, ce) \in Nat \ {0} /\ ShortestMonth <= DayCount(cs, ce)
  <1> DEFINE k == MonthOf(t) + n
             j == MonthOf(t) + (n + 1)
             d == DayCount(StartOfMonth(t), t)
             x == MonthLen[k]
             y == MonthLen[j]
             o == Offset(t, k)
             p == Offset(t, j)
             len == x + p - o
  <1>1. k \in Month /\ j \in Month /\ n + 1 \in Nat /\ j = k + 1
    <2>1. MonthOf(t) \in Int BY MonthOfInstant, MonthStartOrdered DEF Month
    <2> QED BY <2>1
  <1>2. /\ cs = MonthStart[k] + Day * o /\ cs \in Int /\ d \in Nat
        /\ o = IF d <= x - 1 THEN d ELSE x - 1
    <2> HIDE DEF o
    <2>1. k \in Month BY <1>1
    <2> HIDE DEF j
    <2> QED BY <2>1, AnchorPlace DEF o
  <1>3. /\ ce = MonthStart[j] + Day * p /\ ce \in Int
        /\ p = IF d <= y - 1 THEN d ELSE y - 1
    <2> HIDE DEF p
    <2>1. j \in Month /\ n + 1 \in Nat BY <1>1
    <2> HIDE DEF k
    <2> QED BY <2>1, AnchorPlace DEF p
  <1>4. /\ x \in Nat \ {0} /\ y \in Nat \ {0} /\ MonthStart[k] \in Nat
        /\ MonthStart[j] = MonthStart[k] + Day * x
        /\ ShortestMonth \in Nat \ {0} /\ ShortestMonth <= x /\ ShortestMonth <= y
    <2>1. k \in Month /\ j \in Month /\ j = k + 1 BY <1>1
    <2> HIDE DEF k, j
    <2> QED BY <2>1, NextMonth, Shortest
  <1>5. o \in Int /\ p \in Int /\ len \in Int /\ len >= ShortestMonth
    <2> HIDE DEF x, y, o, p, d
    <2> QED BY <1>2, <1>3, <1>4
  <1>6. ce - cs = Day * len
    <2> HIDE DEF x, y, o, p, d, k, j
    <2>1. Day * len = Day * x + Day * p - Day * o /\ Day * x \in Int /\ Day * p \in Int
          /\ Day * o \in Int
      BY <1>4, <1>5, CalendarAssumption, SMT
    <2> QED BY <1>2, <1>3, <1>4, <2>1
  <1>7. Day \in Nat \ {0} BY CalendarAssumption
  <1> HIDE DEF len
  <1>8. DayCount(cs, ce) = len BY <1>5, <1>6, <1>7, DivTimes DEF DayCount
  <1>9. len \in Nat \ {0} BY <1>4, <1>5
  <1>10. Day * len > 0 /\ Day * len \in Int BY <1>7, <1>9, SMT
  <1>11. cs < ce BY <1>2, <1>3, <1>6, <1>10
  <1> QED BY <1>2, <1>3, <1>5, <1>8, <1>9, <1>11

\* Days between instants are counted forward.
LEMMA DayCountSign ==
  ASSUME NEW a \in Int, NEW b \in Int
  PROVE  /\ DayCount(a, b) \in Int
         /\ b <= a => DayCount(a, b) <= 0
         /\ a <= b => DayCount(a, b) \in Nat
  <1> DEFINE x == b - a
  <1>1. Day \in Nat \ {0} BY CalendarAssumption
  <1>2. x \in Int /\ (b <= a => x <= 0) /\ (a <= b => 0 <= x) OBVIOUS
  <1> HIDE DEF x
  <1>3. 0 \div Day = 0
    <2>1. (Day * 0) \div Day = 0 BY <1>1, DivTimes
    <2>2. Day * 0 = 0 BY <1>1, SMT
    <2> QED BY <2>1, <2>2
  <1>4. x <= 0 => x \div Day <= 0 BY <1>1, <1>2, <1>3, DivMonotone
  <1>5. 0 <= x => 0 <= x \div Day BY <1>1, <1>2, <1>3, DivMonotone
  <1>6. x \div Day \in Int BY <1>1, <1>2, DivMod
  <1> QED BY <1>2, <1>4, <1>5, <1>6 DEF DayCount, x

\* A larger divisor leaves less.
LEMMA DivAntitone ==
  ASSUME NEW a \in Nat, NEW v \in Nat \ {0}, NEW w \in Nat \ {0}, v <= w
  PROVE  a \div w \in Nat /\ a \div v \in Nat /\ a \div w <= a \div v
  <1> DEFINE q == a \div w
             r == a % w
  <1>1. q \in Nat /\ a \div v \in Nat BY SMT
  <1>2. r \in 0 .. w - 1 /\ a = w * q + r BY DivMod
  <1> HIDE DEF q, r
  <1>3. v * q \in Int /\ v * q <= a
    <2>1. (w - v) * q \in Nat
      <3>1. w - v \in Nat OBVIOUS
      <3> QED BY <1>1, <3>1, SMT
    <2>2. (w - v) * q = w * q - v * q /\ w * q \in Int /\ v * q \in Int BY <1>1, SMT
    <2> QED BY <1>2, <2>1, <2>2
  <1>4. (v * q) \div v = q BY <1>1, DivTimes
  <1> DEFINE z == v * q
  <1>5. z \in Int /\ z <= a /\ z \div v = q BY <1>3, <1>4
  <1> HIDE DEF z
  <1>6. q <= a \div v BY <1>5, DivMonotone
  <1> QED BY <1>1, <1>6 DEF q

\* What a cycle charges when its days and its length are known.
LEMMA ChargeOf ==
  ASSUME NEW fee \in Nat, NEW days \in Int, NEW len \in Nat \ {0}
  PROVE  /\ Charge(fee, days, len) = IF days > 0 THEN (fee * days) \div len ELSE 0
         /\ days = 0 => (fee * days) \div len = 0
  <1>1. days = 0 => (fee * days) \div len = 0
    <2>1. fee * 0 = 0 /\ len * 0 = 0 BY SMT
    <2>2. (len * 0) \div len = 0 BY DivTimes
    <2> QED BY <2>1, <2>2
  <1>2. len > 0 OBVIOUS
  <1> QED BY <1>1, <1>2 DEF Charge

\* One cycle over two windows that meet at B, and over both.
LEMMA CycleMeets ==
  ASSUME NEW pl \in Plan \cup {ApiPlan}, pl.start # ZeroTime,
         NEW n \in 0 .. CyclesAfter(pl.start),
         NEW L \in Int, NEW B \in Int, NEW N \in Int, L < B, B <= N,
         NEW cs, cs = AddMonthsClamped(pl.start, n),
         NEW ce, ce = AddMonthsClamped(pl.start, n + 1),
         NEW c1, c1 = CycleCharge(pl, n, Max({L, pl.start}), B - 1),
         NEW c2, c2 = CycleCharge(pl, n, Max({B, pl.start}), N),
         NEW c, c = CycleCharge(pl, n, Max({L, pl.start}), N)
  PROVE  /\ cs \in Int /\ ce \in Int /\ c1 \in Int /\ c2 \in Int /\ c \in Int
         /\ c1 + c2 <= c
         /\ c <= c1 + c2 + (IF cs < B /\ B <= ce THEN (pl.fee \div ShortestMonth) + 2 ELSE 0)
         /\ pl.fee \div ShortestMonth \in Nat
  <1> DEFINE s == pl.start
             fee == pl.fee
             f1 == Max({L, s})
             f2 == Max({B, s})
             a1 == Max({cs, f1})
             a2 == Max({cs, f2})
             b1 == Min({ce, B - 1})
             b2 == Min({ce, N})
             len == DayCount(cs, ce)
             d1 == DayCount(a1, b1)
             d2 == DayCount(a2, b2)
             d == DayCount(a1, b2)
  <1>1. /\ s \in 0 .. EndOfTime - 1 /\ s \in Int /\ fee \in Nat
        /\ n \in Nat /\ MonthOf(s) + n \in Month /\ MonthOf(s) + (n + 1) \in Month
    BY CycleInt
  <1>2. /\ cs \in Int /\ ce \in Int /\ cs < ce /\ len \in Nat \ {0} /\ ShortestMonth <= len
        /\ ShortestMonth \in Nat \ {0}
    <2> HIDE DEF s
    <2>1. cs = AddMonthsClamped(s, n) /\ ce = AddMonthsClamped(s, n + 1) BY DEF s
    <2> QED BY <1>1, <2>1, CycleLength, Shortest
  <1>3. /\ c1 = Charge(fee, d1, len) /\ c2 = Charge(fee, d2, len) /\ c = Charge(fee, d, len)
    BY DEF CycleCharge
  <1> HIDE DEF s, fee, len
  <1>4. /\ f1 = (IF L <= s THEN s ELSE L) /\ f1 \in Int
        /\ f2 = (IF B <= s THEN s ELSE B) /\ f2 \in Int
    <2>1. f1 = (IF L <= s THEN s ELSE L) /\ f2 = (IF B <= s THEN s ELSE B)
      BY <1>1, MinMaxOfTwo
    <2> HIDE DEF f1, f2
    <2> QED BY <1>1, <2>1
  <1> HIDE DEF f1, f2
  <1>5. /\ a1 = (IF cs <= f1 THEN f1 ELSE cs) /\ a2 = (IF cs <= f2 THEN f2 ELSE cs)
        /\ b1 = (IF ce <= B - 1 THEN ce ELSE B - 1) /\ b2 = (IF ce <= N THEN ce ELSE N)
        /\ a1 \in Int /\ a2 \in Int /\ b1 \in Int /\ b2 \in Int
    <2>1. a1 = (IF cs <= f1 THEN f1 ELSE cs) /\ a2 = (IF cs <= f2 THEN f2 ELSE cs)
      BY <1>2, <1>4, MinMaxOfTwo
    <2>2. b2 = (IF ce <= N THEN ce ELSE N) BY <1>2, MinMaxOfTwo
    <2>3. b1 = (IF ce <= B - 1 THEN ce ELSE B - 1)
      <3> DEFINE x == B - 1
      <3>1. x \in Int OBVIOUS
      <3> HIDE DEF x
      <3>2. Min({ce, x}) = IF ce <= x THEN ce ELSE x BY <1>2, <3>1, MinMaxOfTwo
      <3> QED BY <3>2 DEF x
    <2> HIDE DEF a1, a2, b1, b2
    <2> QED BY <1>2, <1>4, <2>1, <2>2, <2>3
  <1> HIDE DEF a1, a2, b1, b2
  <1>6. /\ d1 \in Int /\ (b1 <= a1 => d1 <= 0) /\ (a1 <= b1 => d1 \in Nat)
        /\ d2 \in Int /\ (b2 <= a2 => d2 <= 0) /\ (a2 <= b2 => d2 \in Nat)
        /\ d \in Int
    BY <1>5, DayCountSign
  <1> DEFINE X == fee \div ShortestMonth
  <1>7. X \in Nat /\ fee \div len \in Nat /\ fee \div len <= X BY <1>1, <1>2, DivAntitone
  <1>8. \A days \in Int : /\ Charge(fee, days, len)
                               = (IF days > 0 THEN (fee * days) \div len ELSE 0)
                          /\ days = 0 => (fee * days) \div len = 0
    BY <1>1, <1>2, ChargeOf
  <1>9. c1 \in Int /\ c2 \in Int /\ c \in Int
    <2>1. fee \in Int /\ len \in Int BY <1>1, <1>2
    <2> HIDE DEF d1, d2, d
    <2> QED BY <1>3, <1>6, <2>1, ChargeInt
  \* The cycle is over before the second window starts.
  <1>10. CASE ce < B
    <2>1. b1 = ce /\ b2 = ce /\ b2 <= a2 BY <1>2, <1>4, <1>5, <1>10, <1>1
    <2>2. c = c1 /\ ~(d2 > 0)
      <3>1. c = c1 BY <1>3, <2>1
      <3> HIDE DEF d2
      <3> QED BY <1>6, <2>1, <3>1
    <2>3. c2 = 0
      <3> HIDE DEF d2
      <3> QED BY <1>3, <1>6, <1>8, <2>2
    <2>4. ~(B <= ce) BY <1>2, <1>10
    <2> HIDE DEF X
    <2> QED BY <1>2, <1>7, <1>9, <2>2, <2>3, <2>4 DEF X, fee
  \* The cycle, or the plan, starts in the second window.
  <1>11. CASE B <= ce /\ (B <= cs \/ B <= s)
    <2>1. a1 = a2 /\ b1 <= a1 BY <1>1, <1>2, <1>4, <1>5, <1>11
    <2>2. c = c2 /\ ~(d1 > 0)
      <3>1. c = c2 BY <1>3, <2>1
      <3> HIDE DEF d1
      <3> QED BY <1>6, <2>1, <3>1
    <2>3. c1 = 0
      <3> HIDE DEF d1
      <3> QED BY <1>3, <1>6, <1>8, <2>2
    <2> HIDE DEF X
    <2> QED BY <1>2, <1>7, <1>9, <2>2, <2>3 DEF X, fee
  \* The windows meet inside the cycle.
  <1>12. CASE B <= ce /\ cs < B /\ s < B
    <2>1. a2 = B /\ a1 \in Int /\ a1 < B /\ b1 = B - 1 /\ B <= b2
      BY <1>1, <1>2, <1>4, <1>5, <1>12
    <2> DEFINE x == (B - 1) - a1
               y == b2 - B
               w == Day
    <2>2. x \in Int /\ y \in Int /\ x + y + 1 = b2 - a1 /\ w \in Nat \ {0}
      <3>1. w \in Nat \ {0} BY CalendarAssumption
      <3> HIDE DEF w
      <3>2. a1 \in Int /\ b2 \in Int /\ B \in Int BY <1>5
      <3> QED BY ONLY <3>1, <3>2 DEF x, y
    <2>3. d1 = x \div w /\ d2 = y \div w /\ d = (x + y + 1) \div w
      BY <2>1, <2>2 DEF DayCount
    <2>4. d1 \in Nat /\ d2 \in Nat
      <3> HIDE DEF d1, d2
      <3> QED BY <1>5, <1>6, <2>1
    <2> HIDE DEF x, y, w
    <2>5. d1 + d2 <= d /\ d <= d1 + d2 + 1 /\ d \in Int
      <3>1. 1 \in {0, 1} OBVIOUS
      <3>2. /\ (x \div w) + (y \div w) <= (x + y + 1) \div w
            /\ (x + y + 1) \div w <= (x \div w) + (y \div w) + 1
            /\ (x + y + 1) \div w \in Int
        BY ONLY <2>2, <3>1, DivAdd
      <3> HIDE DEF d1, d2, d
      <3> QED BY <2>3, <3>2
    <2> HIDE DEF d1, d2, d
    <2>6. d \in Nat BY <2>4, <2>5
    <2>7. /\ c1 = (fee * d1) \div len /\ c2 = (fee * d2) \div len /\ c = (fee * d) \div len
      <3>1. (d1 > 0 \/ d1 = 0) /\ (d2 > 0 \/ d2 = 0) /\ (d > 0 \/ d = 0) BY <2>4, <2>6
      <3>2. ASSUME NEW days \in Int, days > 0 \/ days = 0
            PROVE  Charge(fee, days, len) = (fee * days) \div len
        <4>1. CASE days > 0 BY <1>8, <4>1
        <4>2. CASE days = 0 BY <1>8, <4>2
        <4> QED BY <3>2, <4>1, <4>2
      <3> QED BY <1>3, <1>6, <3>1, <3>2
    <2>8. /\ c1 + c2 <= c
          /\ c <= c1 + c2 + (fee \div len) + 2
      <3>1. fee \in Nat /\ len \in Nat \ {0} BY <1>1, <1>2
      <3>2. /\ ((fee * d1) \div len) + ((fee * d2) \div len) <= (fee * d) \div len
            /\ (fee * d) \div len
                 <= ((fee * d1) \div len) + ((fee * d2) \div len) + (fee \div len) + 2
        BY ONLY <2>4, <2>5, <2>6, <3>1, FeeInParts
      <3> QED BY ONLY <2>7, <3>2
    <2> DEFINE v == fee \div len
    <2>9. v \in Nat /\ v <= X /\ c <= c1 + c2 + v + 2 BY <1>7, <2>8
    <2> HIDE DEF X, v
    <2>10. c <= c1 + c2 + (X + 2) BY <1>7, <1>9, <2>9
    <2> QED BY <1>2, <1>7, <1>9, <1>12, <2>8, <2>10 DEF X, fee
  <1> QED BY <1>1, <1>2, <1>10, <1>11, <1>12

\* At most one cycle is cut by an instant.
LEMMA OneCycleIsCut ==
  ASSUME NEW pl \in Plan \cup {ApiPlan}, pl.start # ZeroTime, NEW B \in Int,
         NEW n \in 0 .. CyclesAfter(pl.start), NEW m \in 0 .. CyclesAfter(pl.start), n < m,
         B <= AddMonthsClamped(pl.start, n + 1)
  PROVE  ~(AddMonthsClamped(pl.start, m) < B)
  <1> DEFINE s == pl.start
             j == MonthOf(s) + (n + 1)
             k == MonthOf(s) + m
             e == AddMonthsClamped(s, n + 1)
             a == AddMonthsClamped(s, m)
  <1>1. /\ s \in 0 .. EndOfTime - 1 /\ n \in Nat /\ m \in Nat
        /\ j \in Month /\ k \in Month /\ e \in Int /\ a \in Int
    BY CycleInt
  <1>2. MonthOf(s) \in Int BY <1>1, MonthOfInstant, MonthStartOrdered DEF Month
  <1>3. e <= a
    <2>1. CASE m = n + 1 BY <1>1, <2>1
    <2>2. CASE m # n + 1
      <3>1. j < k /\ j + 1 <= k /\ n + 1 \in Nat BY <1>1, <1>2, <2>2
      <3>2. MonthStart[j + 1] <= MonthStart[k]
        <4> HIDE DEF j, k
        <4>1. j \in Int /\ k \in Int /\ Len(MonthLen) \in Nat /\ k \in 1 .. Len(MonthLen)
              /\ j \in 1 .. Len(MonthLen)
          BY <1>1, MonthStartOrdered DEF Month
        <4>2. CASE j + 1 = k BY <1>1, <4>2, NextMonth
        <4>3. CASE j + 1 < k
          <5>1. j + 1 \in Month /\ k \in 1 .. Len(MonthLen) + 1 BY <4>1, <4>3 DEF Month
          <5>2. MonthStart[j + 1] < MonthStart[k] BY <4>3, <5>1, MonthStartOrdered
          <5>3. MonthStart[j + 1] \in Nat /\ MonthStart[k] \in Nat BY <1>1, <5>1, NextMonth
          <5> QED BY <5>2, <5>3
        <4> QED BY <3>1, <4>1, <4>2, <4>3
      <3>3. e < MonthStart[j + 1]
        <4> HIDE DEF s
        <4>1. j = MonthOf(s) + (n + 1) OBVIOUS
        <4> HIDE DEF j
        <4> QED BY <1>1, <3>1, <4>1, AnchorPlace
      <3>4. MonthStart[k] <= a
        <4> HIDE DEF s
        <4>1. k = MonthOf(s) + m OBVIOUS
        <4> HIDE DEF k
        <4> QED BY <1>1, <4>1, AnchorPlace
      <3>5. MonthStart[j + 1] \in Int /\ MonthStart[k] \in Int
        <4> HIDE DEF j, k
        <4> QED BY <1>1, NextMonth
      <3> HIDE DEF e, a
      <3> QED BY <1>1, <3>2, <3>3, <3>4, <3>5
    <2> QED BY <2>1, <2>2
  <1>4. B <= e BY DEF e
  <1> HIDE DEF e, a
  <1>5. ~(a < B) BY <1>1, <1>3, <1>4
  <1> QED BY <1>5 DEF a

\* A cycle that is over, or not begun, charges nothing.
LEMMA NoDaysNoCharge ==
  ASSUME NEW pl \in Plan \cup {ApiPlan}, pl.start # ZeroTime,
         NEW n \in 0 .. CyclesAfter(pl.start), NEW from \in Int, NEW until \in Int,
         until <= from \/ until <= AddMonthsClamped(pl.start, n)
  PROVE  CycleCharge(pl, n, from, until) = 0
  <1> DEFINE cs == AddMonthsClamped(pl.start, n)
             ce == AddMonthsClamped(pl.start, n + 1)
             a == Max({cs, from})
             b == Min({ce, until})
             d == DayCount(a, b)
             len == DayCount(cs, ce)
  <1>1. cs \in Int /\ ce \in Int BY CycleInt
  <1>2. CycleCharge(pl, n, from, until) = Charge(pl.fee, d, len) BY DEF CycleCharge
  <1>3. until <= from \/ until <= cs OBVIOUS
  <1> HIDE DEF cs, ce
  <1>4. /\ a = (IF cs <= from THEN from ELSE cs)
        /\ b = (IF ce <= until THEN ce ELSE until)
    BY <1>1, MinMaxOfTwo
  <1> HIDE DEF a, b
  <1>5. a \in Int /\ b \in Int /\ b <= a BY <1>1, <1>3, <1>4
  <1>6. d \in Int /\ d <= 0 BY <1>5, DayCountSign
  <1> HIDE DEF d, len
  <1>7. ~(d > 0) BY <1>6
  <1> QED BY <1>2, <1>7 DEF Charge

\* The charges of every cycle of the calendar, in a window.
Charges(pl, since, until) ==
    [n \in 0 .. CyclesAfter(pl.start) |-> CycleCharge(pl, n, Max({since, pl.start}), until)]

\* The fee of a window is the sum of them.
LEMMA FeeOverCycles ==
  ASSUME NEW pl \in Plan \cup {ApiPlan}, pl.start # ZeroTime, pl.kind = "subscription",
         NEW since \in Int, NEW until \in Int
  PROVE  /\ IsFiniteSet(0 .. CyclesAfter(pl.start))
         /\ Max({since, pl.start}) \in Int
         /\ \A n \in 0 .. CyclesAfter(pl.start) : Charges(pl, since, until)[n] \in Int
         /\ FeeIn(pl, Window(since, until))
              = SumFunctionOnSet(Charges(pl, since, until), 0 .. CyclesAfter(pl.start))
  <1> DEFINE s == pl.start
             from == Max({since, s})
             N == 0 .. CyclesAfter(s)
             v == Charges(pl, since, until)
             C == {n \in N : AddMonthsClamped(s, n) < until}
             w == [n \in C |-> CycleCharge(pl, n, from, until)]
             total == MapThenSumSet(LAMBDA n : CycleCharge(pl, n, from, until), C)
  <1>1. s \in 0 .. EndOfTime - 1 /\ s \in Int
    <2>1. pl.start \in {ZeroTime} \cup (0 .. EndOfTime - 1) BY ReportAssumption DEF ApiPlan
    <2> QED BY <2>1, MonthStartOrdered
  <1>2. from \in Int
    <2> HIDE DEF s
    <2> QED BY <1>1, MinMaxOfTwo
  <1>3. IsFiniteSet(N)
    <2>1. MonthOf(s) \in Month /\ Len(MonthLen) \in Nat BY <1>1, MonthOfInstant, MonthStartOrdered
    <2>2. CyclesAfter(s) \in Int
      <3> DEFINE m == MonthOf(s)
      <3>1. CyclesAfter(s) = Len(MonthLen) - m - 1 BY DEF CyclesAfter
      <3> HIDE DEF m
      <3> QED BY <2>1, <3>1 DEF Month, m
    <2> QED BY <2>2, FS_Interval
  <1>4. ASSUME NEW n \in N
        PROVE  v[n] = CycleCharge(pl, n, from, until) /\ v[n] \in Int
    <2>1. v[n] = CycleCharge(pl, n, from, until) BY DEF Charges
    <2>2. n \in 0 .. CyclesAfter(pl.start) BY <1>4
    <2> HIDE DEF from
    <2>3. CycleCharge(pl, n, from, until) \in Int BY <1>2, <2>2, CycleInt
    <2> QED BY <2>1, <2>3
  <1>5. total = SumFunctionOnSet(v, N)
    <2>1. total = SumFunctionOnSet(w, C)
      <3> HIDE DEF C, from, v, N
      <3> QED BY ONLY DEF w, total, MapThenSumSet, SumFunctionOnSet, FoldFunctionOnSet, MapThenFoldSet
    <2>2. C \in SUBSET N /\ IsFiniteSet(C) BY <1>3, FS_Subset
    <2>3. \A n \in C : w[n] = v[n]
      <3> HIDE DEF v, from
      <3> QED BY <1>4
    <2>4. \A n \in C : v[n] \in Int BY <1>4
    <2>5. ASSUME NEW n \in N \ C PROVE v[n] = 0
      <3>1. n \in 0 .. CyclesAfter(pl.start) /\ AddMonthsClamped(s, n) \in Int
        BY <1>2, CycleInt
      <3>2. until <= AddMonthsClamped(pl.start, n)
        <4> DEFINE a == AddMonthsClamped(s, n)
        <4>1. ~(a < until) BY <2>5
        <4> HIDE DEF a
        <4>2. until <= a BY <3>1, <4>1 DEF a
        <4> QED BY <4>2 DEF a
      <3>3. v[n] = CycleCharge(pl, n, from, until) BY <1>4
      <3> HIDE DEF from, v
      <3>4. CycleCharge(pl, n, from, until) = 0 BY <1>2, <3>1, <3>2, NoDaysNoCharge
      <3> QED BY <3>3, <3>4
    <2> HIDE DEF v, w, C, N
    <2>6. SumFunctionOnSet(w, C) = SumFunctionOnSet(v, C) BY <2>2, <2>3, SumSame
    <2>7. SumFunctionOnSet(v, N) = SumFunctionOnSet(v, C) BY <1>3, <2>2, <2>4, <2>5, SumSupport
    <2> QED BY <2>1, <2>6, <2>7
  <1>6. AmortizeSubscription(pl, since, until)
          = IF until <= from THEN NoFee ELSE OrNoFee(total)
    BY DEF AmortizeSubscription
  <1>7. FeeIn(pl, Window(since, until))
          = IF until <= from THEN 0 ELSE OrZero(OrNoFee(total))
    BY <1>6 DEF FeeIn, Window, OrZero
  <1>8. SumFunctionOnSet(v, N) \in Int
    <2> HIDE DEF v, N
    <2> QED BY <1>3, <1>4, SumInt
  <1>9. until <= from => SumFunctionOnSet(v, N) = 0
    <2> HAVE until <= from
    <2>1. ASSUME NEW n \in N PROVE v[n] = 0
      <3>1. n \in 0 .. CyclesAfter(pl.start) /\ until <= from BY <2>1
      <3>3. v[n] = CycleCharge(pl, n, from, until) BY <1>4
      <3> HIDE DEF from, v
      <3>4. CycleCharge(pl, n, from, until) = 0 BY <1>2, <3>1, NoDaysNoCharge
      <3> QED BY <3>3, <3>4
    <2> HIDE DEF v, N
    <2> QED BY <1>3, <2>1, SumZero
  <1>10. OrZero(OrNoFee(total)) = total
    <2>1. total \in Int BY <1>5, <1>8
    <2> HIDE DEF total
    <2>2. total # NoFee BY <2>1, PricingAssumption
    <2> QED BY <2>2 DEF OrZero, OrNoFee
  <1> HIDE DEF total, v
  <1>11. FeeIn(pl, Window(since, until)) = SumFunctionOnSet(v, N)
    BY <1>5, <1>7, <1>9, <1>10
  <1>12. \A n \in N : v[n] \in Int BY <1>4
  <1> QED BY <1>2, <1>3, <1>11, <1>12 DEF v

\* The fees of two windows that meet at B, beside the fee of both.
LEMMA FeesMeet ==
  ASSUME NEW pl \in Plan \cup {ApiPlan}, NEW L \in Int, NEW B \in Int, NEW N \in Int,
         L < B, B <= N, ShortestMonth \in Nat \ {0},
         NEW f1, f1 = FeeIn(pl, Window(L, B - 1)),
         NEW f2, f2 = FeeIn(pl, Window(B, N)),
         NEW f, f = FeeIn(pl, Window(L, N))
  PROVE  /\ f1 + f2 <= f
         /\ f <= f1 + f2 + (pl.fee \div ShortestMonth) + 4
  <1>0. pl.fee \in Nat /\ pl.fee \div ShortestMonth \in Nat
    <2>1. pl.fee \in Nat BY ReportAssumption DEF ApiPlan
    <2> QED BY <2>1, DivAntitone
  <1>1. CASE pl.kind # "subscription" \/ pl.start = ZeroTime
    <2>1. f1 = 0 /\ f2 = 0 /\ f = 0
      BY <1>1 DEF FeeIn, AmortizeSubscription, OrZero, Window
    <2> QED BY <1>0, <2>1
  <1>2. CASE pl.kind = "subscription" /\ pl.start # ZeroTime
    <2> DEFINE K == 0 .. CyclesAfter(pl.start)
               X == pl.fee \div ShortestMonth
               before == B - 1
               v1 == Charges(pl, L, before)
               v2 == Charges(pl, B, N)
               v == Charges(pl, L, N)
               cut(n) == AddMonthsClamped(pl.start, n) < B /\ B <= AddMonthsClamped(pl.start, n + 1)
               slack == [n \in K |-> IF cut(n) THEN X + 2 ELSE 0]
               both == [n \in K |-> v1[n] + v2[n]]
               more == [n \in K |-> both[n] + slack[n]]
    <2>1. before \in Int /\ X \in Nat BY <1>0
    <2>2. /\ IsFiniteSet(K) /\ \A n \in K : v1[n] \in Int
          /\ f1 = SumFunctionOnSet(v1, K)
      <3>1. f1 = FeeIn(pl, Window(L, before)) OBVIOUS
      <3> HIDE DEF before
      <3> QED BY <1>2, <2>1, <3>1, FeeOverCycles
    <2>3. (\A n \in K : v2[n] \in Int) /\ f2 = SumFunctionOnSet(v2, K)
      BY <1>2, FeeOverCycles
    <2>4. (\A n \in K : v[n] \in Int) /\ f = SumFunctionOnSet(v, K)
      BY <1>2, FeeOverCycles
    <2>5. ASSUME NEW n \in K
          PROVE  /\ both[n] = v1[n] + v2[n] /\ both[n] <= v[n]
                 /\ v[n] <= both[n] + slack[n]
                 /\ slack[n] = IF cut(n) THEN X + 2 ELSE 0
      <3>1. /\ v1[n] = CycleCharge(pl, n, Max({L, pl.start}), B - 1)
            /\ v2[n] = CycleCharge(pl, n, Max({B, pl.start}), N)
            /\ v[n] = CycleCharge(pl, n, Max({L, pl.start}), N)
        BY <2>5 DEF Charges
      <3>2. n \in 0 .. CyclesAfter(pl.start) /\ pl.start # ZeroTime BY <1>2, <2>5
      <3>3. slack[n] = (IF cut(n) THEN X + 2 ELSE 0) /\ both[n] = v1[n] + v2[n] BY <2>5
      <3>4. /\ v1[n] + v2[n] <= v[n]
            /\ v[n] <= v1[n] + v2[n] + (IF cut(n) THEN X + 2 ELSE 0)
        <4> HIDE DEF v1, v2, v
        <4> QED BY <3>1, <3>2, CycleMeets
      <3> HIDE DEF slack, both, v1, v2, v, cut, X
      <3> QED BY <3>3, <3>4
    <2>6. \A n \in K : slack[n] \in Int /\ both[n] \in Int /\ more[n] = both[n] + slack[n]
                        /\ more[n] \in Int
      <3> HIDE DEF v1, v2, X
      <3> SUFFICES ASSUME NEW n \in K
                   PROVE  slack[n] \in Int /\ both[n] \in Int /\ more[n] = both[n] + slack[n]
                          /\ more[n] \in Int
        OBVIOUS
      <3>1. X + 2 \in Int /\ v1[n] \in Int /\ v2[n] \in Int BY <2>1, <2>2, <2>3
      <3>2. slack[n] \in Int
        <4> HIDE DEF cut
        <4> QED BY <3>1
      <3>3. both[n] \in Int BY <3>1
      <3>4. more[n] = both[n] + slack[n] OBVIOUS
      <3> HIDE DEF slack, both
      <3> QED BY <3>2, <3>3, <3>4
    <2>7. ASSUME NEW n \in K, NEW m \in K, cut(n), cut(m) PROVE n = m
      <3>2. n \in 0 .. CyclesAfter(pl.start) /\ m \in 0 .. CyclesAfter(pl.start)
            /\ pl.start # ZeroTime
        BY <1>2
      <3>3. n \in Int /\ m \in Int BY <3>2
      <3>4. ~(n < m) BY <2>7, <3>2, OneCycleIsCut
      <3>5. ~(m < n) BY <2>7, <3>2, OneCycleIsCut
      <3> QED BY <3>3, <3>4, <3>5
    <2>8. SumFunctionOnSet(slack, K) \in Int /\ SumFunctionOnSet(slack, K) <= X + 2
      <3>1. CASE \E n \in K : cut(n)
        <4>1. PICK n \in K : cut(n) BY <3>1
        <4>2. slack[n] = X + 2 /\ slack[n] \in Int BY <2>5, <2>6, <4>1
        <4>3. ASSUME NEW m \in K \ {n} PROVE slack[m] = 0
          <5>1. ~cut(m)
            <6> HIDE DEF cut
            <6> QED BY <2>7, <4>1
          <5>2. slack[m] = IF cut(m) THEN X + 2 ELSE 0 BY <2>5
          <5> HIDE DEF slack, cut
          <5> QED BY <5>1, <5>2
        <4> HIDE DEF slack, K, X
        <4>4. SumFunctionOnSet(slack, K) = SumFunctionOnSet(slack, {n})
          <5>1. {n} \in SUBSET K /\ \A x \in {n} : slack[x] \in Int BY <4>2
          <5> QED BY <2>2, <4>3, <5>1, SumSupport
        <4>5. SumFunctionOnSet(slack, {n}) = slack[n] BY <4>2, SumSingle
        <4> QED BY <2>1, <4>2, <4>4, <4>5
      <3>2. CASE \A n \in K : ~cut(n)
        <4>1. \A n \in K : slack[n] = 0
          <5> HIDE DEF cut
          <5> QED BY <3>2
        <4> HIDE DEF slack, K, X
        <4>2. SumFunctionOnSet(slack, K) = 0 BY <2>2, <4>1, SumZero
        <4> QED BY <2>1, <4>2
      <3> HIDE DEF cut
      <3> QED BY <3>1, <3>2
    <2> HIDE DEF K, X, v1, v2, v, slack, both, cut
    <2>9. SumFunctionOnSet(both, K) = f1 + f2
      <3>1. \A n \in K : v1[n] \in Int /\ v2[n] \in Int /\ both[n] = v1[n] + v2[n]
        BY <2>2, <2>3, <2>5
      <3> QED BY <2>2, <2>3, <3>1, SumPlus
    <2>10. f1 \in Int /\ f2 \in Int /\ f \in Int BY <2>2, <2>3, <2>4, SumInt
    <2>11. f1 + f2 <= f
      <3>1. \A n \in K : both[n] \in Int /\ v[n] \in Int /\ both[n] <= v[n]
        BY <2>4, <2>5, <2>6
      <3>2. SumFunctionOnSet(both, K) <= SumFunctionOnSet(v, K) BY <2>2, <3>1, SumLeq
      <3> QED BY <2>4, <2>9, <3>2
    <2>12. f <= f1 + f2 + SumFunctionOnSet(slack, K)
      <3>1. \A n \in K : both[n] \in Int /\ slack[n] \in Int /\ more[n] = both[n] + slack[n]
        BY <2>6
      <3>2. \A n \in K : v[n] \in Int /\ more[n] \in Int /\ v[n] <= more[n]
        BY <2>4, <2>5, <2>6
      <3> HIDE DEF more
      <3>3. SumFunctionOnSet(more, K)
              = SumFunctionOnSet(both, K) + SumFunctionOnSet(slack, K)
        BY <2>2, <3>1, SumPlus
      <3>4. SumFunctionOnSet(v, K) <= SumFunctionOnSet(more, K) BY <2>2, <3>2, SumLeq
      <3> QED BY <2>4, <2>9, <3>3, <3>4
    <2>13. f <= f1 + f2 + X + 4 BY <2>1, <2>8, <2>10, <2>12
    <2> QED BY <2>11, <2>13 DEF X
  <1> QED BY <1>1, <1>2

\* A cost of turns in two parts.
LEMMA CostInParts ==
  ASSUME NEW a \in SUBSET TurnRecord, NEW b \in SUBSET TurnRecord, IsFiniteSet(a), IsFiniteSet(b),
         a \cap b = {}, NEW view
  PROVE  Cost(a, view) + Cost(b, view) = Cost(a \cup b, view)
  <1> DEFINE both == a \cup b
             pa == Priced(a, view)
             pb == Priced(b, view)
             p == Priced(both, view)
             v == [e \in p |-> PickView(e, view)]
             va == [e \in pa |-> PickView(e, view)]
             vb == [e \in pb |-> PickView(e, view)]
  <1>1. p = pa \cup pb /\ pa \cap pb = {} BY DEF Priced
  <1>2. /\ IsFiniteSet(pa) /\ IsFiniteSet(pb)
        /\ \A e \in pa \cup pb : PickView(e, view) \in Int
    BY PricedTyped
  <1>3. /\ Cost(a, view) = SumFunctionOnSet(va, pa)
        /\ Cost(b, view) = SumFunctionOnSet(vb, pb)
        /\ Cost(both, view) = SumFunctionOnSet(v, p)
    BY CostSum
  <1>4. /\ \A e \in pa : va[e] = v[e]
        /\ \A e \in pb : vb[e] = v[e]
        /\ \A e \in pa \cup pb : v[e] \in Int
    <2> HIDE DEF pa, pb, p
    <2> QED BY <1>1, <1>2
  <1> HIDE DEF pa, pb, p, v, va, vb
  <1>5. SumFunctionOnSet(va, pa) = SumFunctionOnSet(v, pa) BY <1>2, <1>4, SumSame
  <1>6. SumFunctionOnSet(vb, pb) = SumFunctionOnSet(v, pb) BY <1>2, <1>4, SumSame
  <1>7. SumFunctionOnSet(v, pa \cup pb)
          = SumFunctionOnSet(v, pa) + SumFunctionOnSet(v, pb)
    BY <1>1, <1>2, <1>4, SumUnion
  <1> QED BY <1>1, <1>3, <1>5, <1>6, <1>7

\* In every state, whatever the calendar, the ledger and the plans: the last
\* unit and this one meet, in cost exactly and in fee up to a day's share
\* (internal/cli/period.go: parsePeriod; internal/pricing: AmortizeSubscription).
THEOREM WindowsThatMeet == Spec => []AdjacentWindowsAddUp
  <1>1. Typed => AdjacentWindowsAddUp
    <2> SUFFICES ASSUME Typed, NEW u \in Unit
                 PROVE  Meet(Last(u, now), This(u, now), SinceDay(Last(u, now).since, now))
      BY DEF AdjacentWindowsAddUp
    <2> DEFINE B == StartOf(u, now)
               L == StartOfLast(u, B)
               last == Window(L, B - 1)
               this == Window(B, now)
               both == Window(L, now)
    <2>1. /\ Last(u, now) = last /\ This(u, now) = this
          /\ SinceDay(Last(u, now).since, now) = both
      BY DEF Last, This, SinceDay, Window, LastInstantBefore
    <2>2. now \in Moments /\ now \in Int BY NowTyped DEF Typed
    <2>3. B \in Int /\ L \in Int /\ L < B /\ B <= now BY <2>2, UnitsStart
    <2>4. /\ last.since = L /\ last.until = B - 1 /\ this.since = B /\ this.until = now
          /\ both.since = L /\ both.until = now
      BY DEF Window
    <2> HIDE DEF B, L, last, this, both
    <2>5. Query(both) = Query(last) \cup Query(this) /\ Query(last) \cap Query(this) = {}
      <3>1. last.until \in Int BY <2>3, <2>4
      <3>2. ASSUME NEW e \in ledger
            PROVE  /\ e.ts \in Int
                   /\ InWindow(e.ts, last) <=> L <= e.ts /\ e.ts <= B - 1
                   /\ InWindow(e.ts, this) <=> B <= e.ts /\ e.ts <= now
                   /\ InWindow(e.ts, both) <=> L <= e.ts /\ e.ts <= now
        BY <2>2, <2>3, <2>4, <3>1, <3>2, TurnTimes, WindowOf
      <3>3. ASSUME NEW e \in ledger
            PROVE  /\ InWindow(e.ts, both) <=> InWindow(e.ts, last) \/ InWindow(e.ts, this)
                   /\ ~(InWindow(e.ts, last) /\ InWindow(e.ts, this))
        BY ONLY <2>2, <2>3, <3>2, <3>3
      <3> QED BY <3>3 DEF Query
    <2>6. ASSUME NEW view \in View
          PROVE  Cost(Query(last), view) + Cost(Query(this), view) = Cost(Query(both), view)
      <3> DEFINE a == Query(last)
                 b == Query(this)
      <3>1. /\ a \in SUBSET TurnRecord /\ b \in SUBSET TurnRecord
            /\ IsFiniteSet(a) /\ IsFiniteSet(b)
        BY QueryTyped
      <3>2. Query(both) = a \cup b /\ a \cap b = {} BY <2>5
      <3> HIDE DEF a, b
      <3>3. Cost(a, view) + Cost(b, view) = Cost(a \cup b, view) BY <3>1, <3>2, CostInParts
      <3> QED BY <3>2, <3>3 DEF a, b
    <2>7. ASSUME NEW pl \in Range(plan),
                 NEW parts \in {FeeIn(pl, last) + FeeIn(pl, this)},
                 NEW whole \in {FeeIn(pl, both)}
          PROVE  parts <= whole /\ whole <= parts + pl.fee \div Min(Range(MonthLen)) + 4
      <3>1. pl \in Plan \cup {ApiPlan} BY <2>7 DEF Range, Typed
      <3>2. ShortestMonth \in Nat \ {0}
        <4>1. MonthOf(now) \in Month BY <2>2, NowInCalendar
        <4> QED BY <4>1, Shortest
      <3> DEFINE f1 == FeeIn(pl, last)
                 f2 == FeeIn(pl, this)
                 f == FeeIn(pl, both)
      <3>3. f1 = FeeIn(pl, Window(L, B - 1)) /\ f2 = FeeIn(pl, Window(B, now))
            /\ f = FeeIn(pl, Window(L, now))
        BY DEF last, this, both
      <3>4. parts = f1 + f2 /\ whole = f BY <2>7
      <3> HIDE DEF f1, f2, f
      <3>5. f1 + f2 <= f /\ f <= f1 + f2 + (pl.fee \div ShortestMonth) + 4
        BY ONLY <2>2, <2>3, <3>1, <3>2, <3>3, FeesMeet
      <3> QED BY <3>4, <3>5 DEF ShortestMonth
    <2> QED BY <2>1, <2>6, <2>7 DEF Meet
  <1> QED BY <1>1, TypedInit, TypedNext, PTL DEF Spec

==============================================================================
