------------------------------ MODULE BudgetSums ------------------------------
(* What SumFunctionOnSet(f, S), the sum of f[x] for x in a finite set S,      *)
(* computes, whatever order its recursion picks the elements in; and what     *)
(* opening and settling a reservation does to the sums of its budgets.        *)
EXTENDS BudgetTerms, FiniteSetTheorems, TLAPS

\* The element the recursion takes out of s, and the recursion itself.
Pick(s) == CHOOSE x \in s : TRUE

Iterates(f, S, g) ==
    g = [s \in SUBSET S |-> IF s = {} THEN 0 ELSE f[Pick(s)] + g[s \ {Pick(s)}]]

LEMMA SumIterates ==
    ASSUME NEW f, NEW S, NEW h, Iterates(f, S, h)
    PROVE  \E g : Iterates(f, S, g) /\ SumFunctionOnSet(f, S) = g[S]
<1> DEFINE g == CHOOSE g : Iterates(f, S, g)
<1>1. Iterates(f, S, g)
    OBVIOUS
<1>2. SumFunctionOnSet(f, S) = g[S]
    BY DEF SumFunctionOnSet, FoldFunctionOnSet, MapThenFoldSet, Iterates, Pick
<1> QED BY <1>1, <1>2

LEMMA PickedElement ==
    ASSUME NEW s, s # {}
    PROVE  Pick(s) \in s
    BY DEF Pick

\* A nonempty family of subsets of a finite set has a member that contains no other.
LEMMA Smallest ==
    ASSUME NEW S, IsFiniteSet(S), NEW F \in SUBSET SUBSET S, F # {}
    PROVE  \E s \in F : \A t \in F : t \subseteq s => t = s
<1>1. IsWellFoundedOn(StrictSubsetOrdering(S), SUBSET S)
    BY FS_StrictSubsetOrderingWellFounded, FS_FiniteSubsetsOfFinite
<1>2. PICK s \in F : \A t \in F : <<t, s>> \notin StrictSubsetOrdering(S)
    BY <1>1, WFMin
<1> QED BY <1>2 DEF StrictSubsetOrdering
-----------------------------------------------------------------------------
(* The recursion over the subsets of a finite set has exactly one solution.  *)

LEMMA IteratesAgree ==
    ASSUME NEW f, NEW S, IsFiniteSet(S), NEW T \in SUBSET S,
           NEW g, Iterates(f, S, g), NEW h, Iterates(f, T, h)
    PROVE  \A s \in SUBSET T : g[s] = h[s]
<1> DEFINE F == {s \in SUBSET T : g[s] # h[s]}
<1>1. SUFFICES ASSUME F # {} PROVE FALSE
    OBVIOUS
<1>2. PICK s \in F : \A t \in F : t \subseteq s => t = s
    <2>1. F \in SUBSET SUBSET S
        OBVIOUS
    <2> HIDE DEF F
    <2> QED BY <1>1, <2>1, Smallest
<1>3. s \in SUBSET T /\ s \in SUBSET S
    OBVIOUS
<1>4. CASE s = {}
    BY <1>3, <1>4 DEF Iterates
<1>5. CASE s # {}
    <2> DEFINE rest == s \ {Pick(s)}
    <2>1. rest \in SUBSET T /\ rest \subseteq s /\ rest # s
        BY <1>3, <1>5, PickedElement
    <2>2. g[rest] = h[rest]
        BY <1>2, <2>1
    <2>3. g[s] = f[Pick(s)] + g[rest] /\ h[s] = f[Pick(s)] + h[rest]
        BY <1>3, <1>5 DEF Iterates
    <2> QED BY <2>2, <2>3
<1> QED BY <1>4, <1>5

LEMMA IteratesRestricts ==
    ASSUME NEW f, NEW S, NEW T \in SUBSET S, NEW g, Iterates(f, S, g)
    PROVE  Iterates(f, T, [s \in SUBSET T |-> g[s]])
<1>1. ASSUME NEW s \in SUBSET T, s # {}
      PROVE  s \ {Pick(s)} \in SUBSET T /\ g[s] = f[Pick(s)] + g[s \ {Pick(s)}]
    BY <1>1 DEF Iterates
<1>2. {} \in SUBSET S /\ g[{}] = 0
    BY DEF Iterates
<1> QED BY <1>1, <1>2 DEF Iterates

LEMMA SumUnfolds ==
    ASSUME NEW f, NEW S, IsFiniteSet(S), NEW h, Iterates(f, S, h), S # {}
    PROVE  SumFunctionOnSet(f, S) = f[Pick(S)] + SumFunctionOnSet(f, S \ {Pick(S)})
<1> DEFINE rest == S \ {Pick(S)}
<1>1. PICK g : Iterates(f, S, g) /\ SumFunctionOnSet(f, S) = g[S]
    BY SumIterates
<1>2. rest \in SUBSET S
    OBVIOUS
<1>3. PICK k : Iterates(f, rest, k) /\ SumFunctionOnSet(f, rest) = k[rest]
    BY <1>1, <1>2, IteratesRestricts, SumIterates
<1>4. g[rest] = k[rest]
    <2> HIDE DEF rest
    <2> QED BY <1>1, <1>2, <1>3, IteratesAgree
<1>5. g[S] = f[Pick(S)] + g[rest]
    BY <1>1 DEF Iterates
<1> QED BY <1>1, <1>3, <1>4, <1>5

LEMMA IterationExists ==
    ASSUME NEW f, NEW S, IsFiniteSet(S)
    PROVE  \E g : Iterates(f, S, g)
<1> DEFINE F == {T \in SUBSET S : ~ \E g : Iterates(f, T, g)}
<1>1. SUFFICES ASSUME F # {} PROVE FALSE
    OBVIOUS
<1>2. PICK T \in F : \A U \in F : U \subseteq T => U = T
    <2>1. F \in SUBSET SUBSET S
        OBVIOUS
    <2> HIDE DEF F
    <2> QED BY <1>1, <2>1, Smallest
<1>3. \A U \in SUBSET T : U # T => IsFiniteSet(U) /\ \E g : Iterates(f, U, g)
    BY <1>2, FS_Subset
<1>4. T # {}
    <2>1. Iterates(f, {}, [s \in SUBSET {} |-> 0])
        BY DEF Iterates
    <2> QED BY <2>1
<1> DEFINE Sum(U) == SumFunctionOnSet(f, U)
           p == Pick(T)
           g == [s \in SUBSET T |-> IF s = T THEN f[p] + Sum(T \ {p}) ELSE Sum(s)]
<1>5. p \in T
    BY <1>4, PickedElement
<1>6. ASSUME NEW s \in SUBSET T
      PROVE  g[s] = IF s = {} THEN 0 ELSE f[Pick(s)] + g[s \ {Pick(s)}]
    <2>1. CASE s = T
        <3>1. T \ {p} \in SUBSET T /\ T \ {p} # T
            BY <1>5
        <3> QED BY <1>4, <2>1, <3>1
    <2>2. CASE s # T /\ s # {}
        <3>1. s \ {Pick(s)} \in SUBSET T /\ s \ {Pick(s)} # T
            BY <2>2
        <3>2. Sum(s) = f[Pick(s)] + Sum(s \ {Pick(s)})
            BY <1>3, <2>2, SumUnfolds
        <3> HIDE DEF Sum
        <3> QED BY <2>2, <3>1, <3>2
    <2>3. CASE s # T /\ s = {}
        <3>1. PICK h : Iterates(f, {}, h) /\ Sum({}) = h[{}]
            BY <1>3, <2>3, SumIterates
        <3>2. h[{}] = 0
            BY <3>1 DEF Iterates
        <3> HIDE DEF Sum
        <3> QED BY <2>3, <3>1, <3>2
    <2> QED BY <2>1, <2>2, <2>3
<1>7. Iterates(f, T, g)
    <2>1. g = [s \in SUBSET T |-> g[s]]
        OBVIOUS
    <2> HIDE DEF g
    <2> QED BY <1>6, <2>1 DEF Iterates
<1> QED BY <1>7
-----------------------------------------------------------------------------
(* The facts about sums that the budget proofs cite.                         *)

LEMMA SumEmpty ==
    ASSUME NEW f
    PROVE  SumFunctionOnSet(f, {}) = 0
<1>1. PICK g : Iterates(f, {}, g) /\ SumFunctionOnSet(f, {}) = g[{}]
    BY IterationExists, SumIterates, FS_EmptySet
<1> QED BY <1>1 DEF Iterates

LEMMA SumPicks ==
    ASSUME NEW f, NEW S, IsFiniteSet(S), S # {}
    PROVE  SumFunctionOnSet(f, S) = f[Pick(S)] + SumFunctionOnSet(f, S \ {Pick(S)})
    BY IterationExists, SumUnfolds

LEMMA SumNat ==
    ASSUME NEW f, NEW S, IsFiniteSet(S), \A x \in S : f[x] \in Nat
    PROVE  SumFunctionOnSet(f, S) \in Nat
<1> DEFINE F == {T \in SUBSET S : SumFunctionOnSet(f, T) \notin Nat}
<1>1. SUFFICES ASSUME F # {} PROVE FALSE
    OBVIOUS
<1>2. PICK T \in F : \A U \in F : U \subseteq T => U = T
    <2>1. F \in SUBSET SUBSET S
        OBVIOUS
    <2> HIDE DEF F
    <2> QED BY <1>1, <2>1, Smallest
<1>3. T # {}
    BY SumEmpty
<1>4. Pick(T) \in T /\ IsFiniteSet(T)
    BY <1>3, PickedElement, FS_Subset
<1>5. SumFunctionOnSet(f, T \ {Pick(T)}) \in Nat
    BY <1>2, <1>4
<1> QED BY <1>3, <1>4, <1>5, SumPicks

\* Any element may be taken out first.
LEMMA SumRemove ==
    ASSUME NEW f, NEW S, IsFiniteSet(S), \A x \in S : f[x] \in Nat, NEW e \in S
    PROVE  SumFunctionOnSet(f, S) = f[e] + SumFunctionOnSet(f, S \ {e})
<1> DEFINE Sum(U) == SumFunctionOnSet(f, U)
           F == {T \in SUBSET S : \E x \in T : Sum(T) # f[x] + Sum(T \ {x})}
<1>1. SUFFICES ASSUME F # {} PROVE FALSE
    OBVIOUS
<1>2. PICK T \in F : \A U \in F : U \subseteq T => U = T
    <2>1. F \in SUBSET SUBSET S
        OBVIOUS
    <2> HIDE DEF F
    <2> QED BY <1>1, <2>1, Smallest
<1>3. PICK x \in T : Sum(T) # f[x] + Sum(T \ {x})
    OBVIOUS
<1> DEFINE p == Pick(T)
<1>4. IsFiniteSet(T) /\ T # {} /\ p \in T
    BY FS_Subset, PickedElement
<1>5. \A U \in SUBSET T : U # T => IsFiniteSet(U) /\ Sum(U) \in Nat /\ U \notin F
    BY <1>2, <1>4, FS_Subset, SumNat
<1>6. Sum(T) = f[p] + Sum(T \ {p})
    BY <1>4, SumPicks
<1>7. x # p
    BY <1>3, <1>6
<1>8. Sum(T \ {p}) = f[x] + Sum((T \ {p}) \ {x})
    BY <1>4, <1>5, <1>7
<1>9. Sum(T \ {x}) = f[p] + Sum((T \ {x}) \ {p})
    BY <1>4, <1>5, <1>7
<1>10. (T \ {p}) \ {x} = (T \ {x}) \ {p}
    OBVIOUS
<1>11. /\ f[x] \in Nat /\ f[p] \in Nat
       /\ Sum((T \ {p}) \ {x}) \in Nat
    BY <1>4, <1>5
<1> HIDE DEF Sum, p, F
<1> QED BY <1>3, <1>6, <1>8, <1>9, <1>10, <1>11

LEMMA SumAdd ==
    ASSUME NEW f, NEW S, IsFiniteSet(S), NEW e, e \notin S,
           f[e] \in Nat, \A x \in S : f[x] \in Nat
    PROVE  SumFunctionOnSet(f, S \cup {e}) = f[e] + SumFunctionOnSet(f, S)
<1>1. IsFiniteSet(S \cup {e})
    BY FS_AddElement
<1>2. (S \cup {e}) \ {e} = S
    OBVIOUS
<1>3. SumFunctionOnSet(f, S \cup {e}) = f[e] + SumFunctionOnSet(f, (S \cup {e}) \ {e})
    BY <1>1, SumRemove
<1> QED BY <1>2, <1>3

\* A sum depends only on the function's values on the set, and grows with them.
LEMMA SumMonotone ==
    ASSUME NEW f, NEW g, NEW S, IsFiniteSet(S),
           \A x \in S : f[x] \in Nat /\ g[x] \in Nat /\ f[x] <= g[x]
    PROVE  SumFunctionOnSet(f, S) <= SumFunctionOnSet(g, S)
<1> DEFINE F == {T \in SUBSET S : ~ SumFunctionOnSet(f, T) <= SumFunctionOnSet(g, T)}
<1>1. SUFFICES ASSUME F # {} PROVE FALSE
    OBVIOUS
<1>2. PICK T \in F : \A U \in F : U \subseteq T => U = T
    <2>1. F \in SUBSET SUBSET S
        OBVIOUS
    <2> HIDE DEF F
    <2> QED BY <1>1, <2>1, Smallest
<1>3. T # {}
    BY SumEmpty
<1> DEFINE p == Pick(T)  rest == T \ {p}
<1>4. p \in T /\ IsFiniteSet(T) /\ IsFiniteSet(rest)
    BY <1>3, PickedElement, FS_Subset
<1>5. SumFunctionOnSet(f, rest) <= SumFunctionOnSet(g, rest)
    BY <1>2, <1>4
<1>6. SumFunctionOnSet(f, rest) \in Nat /\ SumFunctionOnSet(g, rest) \in Nat
    BY <1>4, SumNat
<1>7. /\ SumFunctionOnSet(f, T) = f[p] + SumFunctionOnSet(f, rest)
      /\ SumFunctionOnSet(g, T) = g[p] + SumFunctionOnSet(g, rest)
    BY <1>3, <1>4, SumPicks
<1> HIDE DEF p, rest
<1> QED BY <1>4, <1>5, <1>6, <1>7

LEMMA SumAgree ==
    ASSUME NEW f, NEW g, NEW S, IsFiniteSet(S), \A x \in S : f[x] \in Nat /\ f[x] = g[x]
    PROVE  SumFunctionOnSet(f, S) = SumFunctionOnSet(g, S)
<1>1. /\ SumFunctionOnSet(f, S) \in Nat
      /\ SumFunctionOnSet(g, S) \in Nat
    BY SumNat
<1>2. /\ SumFunctionOnSet(f, S) <= SumFunctionOnSet(g, S)
      /\ SumFunctionOnSet(g, S) <= SumFunctionOnSet(f, S)
    BY SumMonotone
<1> QED BY <1>1, <1>2

\* A set's sum is that of two parts of it, and no less than that of one.
LEMMA SumUnion ==
    ASSUME NEW f, NEW S, IsFiniteSet(S), NEW R, IsFiniteSet(R), R \cap S = {},
           \A x \in R \cup S : f[x] \in Nat
    PROVE  SumFunctionOnSet(f, R \cup S) = SumFunctionOnSet(f, R) + SumFunctionOnSet(f, S)
<1> DEFINE Sum(U) == SumFunctionOnSet(f, U)
           F == {T \in SUBSET S : Sum(R \cup T) # Sum(R) + Sum(T)}
<1>1. SUFFICES ASSUME F # {} PROVE FALSE
    OBVIOUS
<1>2. PICK T \in F : \A U \in F : U \subseteq T => U = T
    <2>1. F \in SUBSET SUBSET S
        OBVIOUS
    <2> HIDE DEF F
    <2> QED BY <1>1, <2>1, Smallest
<1>3. Sum(R) \in Nat
    BY SumNat
<1>4. T # {}
    <2>1. R \cup {} = R /\ Sum({}) = 0
        BY SumEmpty
    <2>2. Sum(R) = Sum(R) + 0
        <3> HIDE DEF Sum
        <3> QED BY <1>3
    <2>3. Sum(R \cup {}) = Sum(R) + Sum({})
        BY <2>1, <2>2
    <2> QED BY <1>2, <2>3
<1> DEFINE p == Pick(T)  rest == T \ {p}
<1>5. p \in T /\ IsFiniteSet(T) /\ IsFiniteSet(rest)
    BY <1>4, PickedElement, FS_Subset
<1>6. Sum(R \cup rest) = Sum(R) + Sum(rest)
    BY <1>2, <1>5
<1>7. Sum(T) = f[p] + Sum(rest)
    BY <1>4, <1>5, SumPicks
<1>8. Sum(R \cup T) = f[p] + Sum(R \cup rest)
    <2>1. IsFiniteSet(R \cup rest) /\ p \notin R \cup rest /\ (R \cup rest) \cup {p} = R \cup T
        BY <1>5, FS_Union
    <2>2. f[p] \in Nat /\ \A x \in R \cup rest : f[x] \in Nat
        BY <1>5
    <2> QED BY <2>1, <2>2, SumAdd
<1>9. Sum(rest) \in Nat /\ f[p] \in Nat
    BY <1>5, SumNat
<1>10. Sum(R \cup T) # Sum(R) + Sum(T)
    BY <1>2
<1> HIDE DEF p, rest, F, Sum
<1> QED BY <1>3, <1>6, <1>7, <1>8, <1>9, <1>10

LEMMA SumSubset ==
    ASSUME NEW f, NEW S, IsFiniteSet(S), NEW R \in SUBSET S, \A x \in S : f[x] \in Nat
    PROVE  SumFunctionOnSet(f, R) <= SumFunctionOnSet(f, S)
<1>1. /\ IsFiniteSet(R) /\ IsFiniteSet(S \ R)
      /\ R \cap (S \ R) = {} /\ R \cup (S \ R) = S
    BY FS_Subset
<1>2. SumFunctionOnSet(f, S) = SumFunctionOnSet(f, R) + SumFunctionOnSet(f, S \ R)
    <2>1. SumFunctionOnSet(f, R \cup (S \ R)) = SumFunctionOnSet(f, R) + SumFunctionOnSet(f, S \ R)
        BY <1>1, SumUnion
    <2> QED BY <1>1, <2>1
<1>3. SumFunctionOnSet(f, R) \in Nat /\ SumFunctionOnSet(f, S \ R) \in Nat
    BY <1>1, SumNat
<1> QED BY <1>2, <1>3
-----------------------------------------------------------------------------
(* What opening and settling a reservation does to the sums.                 *)

OpenOn(r, b) == {c \in Commands : r[c].state = "reserved" /\ b \in Rows(c)}

SettledOn(r, b) == {c \in Commands : r[c].state \in Settled /\ b \in Rows(c)}

ActualOf(r) == [c \in Commands |-> r[c].actual]

UsedOf(r) == [c \in Commands |-> Min({r[c].actual, Estimate[c]})]

\* What the settled reservations on b used of their estimates.
UsedOn(r, b) == SumFunctionOnSet(UsedOf(r), SettledOn(r, b))

\* The sums of BudgetTerms, over the named sets and summands.
LEMMA SumsNamed ==
    ASSUME NEW r, NEW b
    PROVE  /\ HeldOn(r, b) = SumFunctionOnSet(Estimate, OpenOn(r, b))
           /\ SpentOn(r, b) = SumFunctionOnSet(ActualOf(r), SettledOn(r, b))
    BY DEF HeldOn, SpentOn, OpenOn, SettledOn, ActualOf

\* Min of two naturals is one of them and bounded by both.
LEMMA MinOfTwo ==
    ASSUME NEW m \in Nat, NEW n \in Nat
    PROVE  Min({m, n}) \in Nat /\ Min({m, n}) <= m /\ Min({m, n}) <= n
<1>1. \E x \in {m, n} : \A y \in {m, n} : x <= y
    <2>1. CASE m <= n
        BY <2>1
    <2>2. CASE n <= m
        BY <2>2
    <2> QED BY <2>1, <2>2
<1>2. Min({m, n}) \in {m, n} /\ \A y \in {m, n} : Min({m, n}) <= y
    BY <1>1 DEF Min
<1> QED BY <1>2

\* The summands are natural numbers, the sets summed over finite.
LEMMA Summands ==
    ASSUME NEW r \in [Commands -> Reservation], NEW b
    PROVE  /\ \A c \in Commands : /\ Estimate[c] \in Nat
                                  /\ ActualOf(r)[c] \in Nat
                                  /\ UsedOf(r)[c] \in Nat
                                  /\ UsedOf(r)[c] <= ActualOf(r)[c]
                                  /\ UsedOf(r)[c] <= Estimate[c]
           /\ IsFiniteSet(OpenOn(r, b)) /\ OpenOn(r, b) \subseteq Commands
           /\ IsFiniteSet(SettledOn(r, b)) /\ SettledOn(r, b) \subseteq Commands
<1>1. ASSUME NEW c \in Commands
      PROVE  /\ Estimate[c] \in Nat
             /\ ActualOf(r)[c] \in Nat
             /\ UsedOf(r)[c] \in Nat
             /\ UsedOf(r)[c] <= ActualOf(r)[c]
             /\ UsedOf(r)[c] <= Estimate[c]
    <2>1. Estimate[c] \in Nat /\ r[c].actual \in Nat
        <3>1. Estimate[c] \in Nat /\ Actuals \cup {0} \subseteq Nat
            BY BudgetAssumption
        <3>2. r[c].actual \in Actuals \cup {0}
            BY DEF Reservation
        <3> QED BY <3>1, <3>2
    <2>2. ActualOf(r)[c] = r[c].actual /\ UsedOf(r)[c] = Min({r[c].actual, Estimate[c]})
        BY DEF ActualOf, UsedOf
    <2> QED BY <2>1, <2>2, MinOfTwo
<1>2. OpenOn(r, b) \subseteq Commands /\ SettledOn(r, b) \subseteq Commands
    BY DEF OpenOn, SettledOn
<1> QED BY <1>1, <1>2, FS_Subset, BudgetAssumption

\* The sums are natural numbers; what was used of the estimates was spent.
LEMMA SumTypes ==
    ASSUME NEW r \in [Commands -> Reservation], NEW b
    PROVE  /\ HeldOn(r, b) \in Nat /\ SpentOn(r, b) \in Nat /\ UsedOn(r, b) \in Nat
           /\ UsedOn(r, b) <= SpentOn(r, b)
<1>1. HeldOn(r, b) \in Nat
    BY Summands, SumNat, SumsNamed
<1>2. SpentOn(r, b) \in Nat /\ UsedOn(r, b) \in Nat
    BY Summands, SumNat, SumsNamed DEF UsedOn
<1>3. UsedOn(r, b) <= SpentOn(r, b)
    BY Summands, SumMonotone, SumsNamed DEF UsedOn
<1> QED BY <1>1, <1>2, <1>3

\* Opening reservation c adds its estimate to what is held on its budgets.
LEMMA OpeningSums ==
    ASSUME NEW r \in [Commands -> Reservation], NEW s \in [Commands -> Reservation],
           NEW c \in Commands, r[c].state = "none", s[c].state = "reserved",
           \A d \in Commands : d # c => s[d] = r[d],
           NEW b
    PROVE  /\ HeldOn(s, b) = HeldOn(r, b) + (IF b \in Rows(c) THEN Estimate[c] ELSE 0)
           /\ SpentOn(s, b) = SpentOn(r, b)
           /\ UsedOn(s, b) = UsedOn(r, b)
<1>1. c \notin OpenOn(r, b) /\ OpenOn(s, b) = IF b \in Rows(c) THEN OpenOn(r, b) \cup {c}
                                                              ELSE OpenOn(r, b)
    BY DEF OpenOn
<1>2. HeldOn(s, b) = HeldOn(r, b) + (IF b \in Rows(c) THEN Estimate[c] ELSE 0)
    <2>1. HeldOn(r, b) \in Nat /\ Estimate[c] \in Nat
        BY SumTypes, Summands
    <2>2. CASE b \in Rows(c)
        <3>1. SumFunctionOnSet(Estimate, OpenOn(r, b) \cup {c})
                = Estimate[c] + SumFunctionOnSet(Estimate, OpenOn(r, b))
            BY <1>1, Summands, SumAdd
        <3>2. HeldOn(s, b) = Estimate[c] + HeldOn(r, b)
            BY <1>1, <2>2, <3>1, SumsNamed
        <3> QED BY <2>1, <2>2, <3>2
    <2>3. CASE b \notin Rows(c)
        <3>1. HeldOn(s, b) = HeldOn(r, b)
            BY <1>1, <2>3, SumsNamed
        <3> QED BY <2>1, <2>3, <3>1
    <2> QED BY <2>2, <2>3
<1>3. SettledOn(s, b) = SettledOn(r, b) /\ c \notin SettledOn(r, b)
    BY DEF SettledOn, Settled
<1>4. \A d \in SettledOn(r, b) :
        ActualOf(s)[d] = ActualOf(r)[d] /\ UsedOf(s)[d] = UsedOf(r)[d]
    BY <1>3, Summands DEF ActualOf, UsedOf
<1>5. SpentOn(s, b) = SpentOn(r, b)
    BY <1>3, <1>4, Summands, SumAgree, SumsNamed
<1>6. UsedOn(s, b) = UsedOn(r, b)
    BY <1>3, <1>4, Summands, SumAgree DEF UsedOn
<1> QED BY <1>2, <1>5, <1>6

\* Settling it takes the estimate off again and adds the actual cost.
LEMMA SettlingSums ==
    ASSUME NEW r \in [Commands -> Reservation], NEW s \in [Commands -> Reservation],
           NEW c \in Commands, r[c].state = "reserved", s[c].state \in Settled,
           \A d \in Commands : d # c => s[d] = r[d],
           NEW b
    PROVE  IF b \in Rows(c)
             THEN /\ HeldOn(r, b) = HeldOn(s, b) + Estimate[c]
                  /\ SpentOn(s, b) = SpentOn(r, b) + s[c].actual
                  /\ UsedOn(s, b) <= UsedOn(r, b) + Estimate[c]
             ELSE /\ HeldOn(s, b) = HeldOn(r, b)
                  /\ SpentOn(s, b) = SpentOn(r, b)
                  /\ UsedOn(s, b) = UsedOn(r, b)
<1>1. c \notin OpenOn(s, b) /\ OpenOn(r, b) = IF b \in Rows(c) THEN OpenOn(s, b) \cup {c}
                                                              ELSE OpenOn(s, b)
    BY DEF OpenOn, Settled
<1>2. c \notin SettledOn(r, b) /\ SettledOn(s, b) = IF b \in Rows(c) THEN SettledOn(r, b) \cup {c}
                                                                    ELSE SettledOn(r, b)
    BY DEF SettledOn, Settled
<1>3. \A d \in SettledOn(r, b) :
        ActualOf(s)[d] = ActualOf(r)[d] /\ UsedOf(s)[d] = UsedOf(r)[d]
    BY <1>2, Summands DEF ActualOf, UsedOf
<1>4. /\ SumFunctionOnSet(ActualOf(s), SettledOn(r, b)) = SpentOn(r, b)
      /\ SumFunctionOnSet(UsedOf(s), SettledOn(r, b)) = UsedOn(r, b)
    BY <1>3, Summands, SumAgree, SumsNamed DEF UsedOn
<1>5. CASE b \in Rows(c)
    <2>1. HeldOn(s, b) \in Nat /\ SpentOn(r, b) \in Nat /\ UsedOn(r, b) \in Nat
        BY SumTypes
    <2>2. /\ Estimate[c] \in Nat
          /\ ActualOf(s)[c] \in Nat
          /\ UsedOf(s)[c] \in Nat
          /\ UsedOf(s)[c] <= Estimate[c]
        BY Summands
    <2>3. SumFunctionOnSet(Estimate, OpenOn(s, b) \cup {c})
            = Estimate[c] + SumFunctionOnSet(Estimate, OpenOn(s, b))
        BY <1>1, Summands, SumAdd
    <2>4. HeldOn(r, b) = HeldOn(s, b) + Estimate[c]
        <3>1. HeldOn(r, b) = Estimate[c] + HeldOn(s, b)
            BY <1>1, <1>5, <2>3, SumsNamed
        <3> QED BY <2>1, <2>2, <3>1
    <2>5. SumFunctionOnSet(ActualOf(s), SettledOn(r, b) \cup {c})
            = ActualOf(s)[c] + SumFunctionOnSet(ActualOf(s), SettledOn(r, b))
        BY <1>2, Summands, SumAdd
    <2>6. ActualOf(s)[c] = s[c].actual
        BY DEF ActualOf
    <2>7. SpentOn(s, b) = SpentOn(r, b) + s[c].actual
        <3>1. SpentOn(s, b) = ActualOf(s)[c] + SpentOn(r, b)
            BY <1>2, <1>4, <1>5, <2>5, SumsNamed
        <3> QED BY <2>1, <2>2, <2>6, <3>1
    <2>8. SumFunctionOnSet(UsedOf(s), SettledOn(r, b) \cup {c})
            = UsedOf(s)[c] + SumFunctionOnSet(UsedOf(s), SettledOn(r, b))
        BY <1>2, Summands, SumAdd
    <2>9. UsedOn(s, b) = UsedOf(s)[c] + UsedOn(r, b)
        BY <1>2, <1>4, <1>5, <2>8 DEF UsedOn
    <2> QED BY <1>5, <2>1, <2>2, <2>4, <2>7, <2>9
<1>6. CASE b \notin Rows(c)
    BY <1>1, <1>2, <1>4, <1>6, SumsNamed DEF UsedOn
<1> QED BY <1>5, <1>6
=============================================================================
