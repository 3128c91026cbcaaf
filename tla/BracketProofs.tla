--------------------------- MODULE BracketProofs ----------------------------
(***************************************************************************)
(* Proofs about Bracket, for every set of athletes, every size of the        *)
(* bracket and every order of the commands.  The first half is about the     *)
(* generator: whatever valid placements it is given, its graph is a single   *)
(* elimination.  The second half follows the outcomes through that graph.    *)
(***************************************************************************)
EXTENDS Bracket, FiniteSetTheorems, WellFoundedInduction, TLAPS

-----------------------------------------------------------------------------
(* Induction over the rounds, by the least counterexample.                  *)

Below == {p \in Nat \X Nat : p[1] < p[2]}

\* A set of naturals that has 0 and every successor of its members has them all.
LEMMA SetInduction ==
    ASSUME NEW S, 0 \in S, \A n \in Nat : n \in S => n + 1 \in S
    PROVE  Nat \subseteq S
  <1> SUFFICES ASSUME Nat \ S # {} PROVE FALSE  OBVIOUS
  <1>1. IsWellFoundedOn(Below, Nat)
    <2>1. Below \cap (Nat \X Nat) \subseteq OpToRel(<, Nat)  BY DEF Below, OpToRel
    <2> QED  BY <2>1, NatLessThanWellFounded, IsWellFoundedOnSubrelation
  <1>2. PICK x \in Nat \ S : \A y \in Nat \ S : <<y, x>> \notin Below
    BY <1>1, WFMin
  <1>3. x # 0 /\ x - 1 \in Nat /\ x - 1 + 1 = x  OBVIOUS
  <1>4. x - 1 \in Nat \ S  BY <1>3
  <1>5. <<x - 1, x>> \in Below  BY <1>3 DEF Below
  <1> QED  BY <1>2, <1>4, <1>5

\* The loop of nextPowerOfTwo up to its n-th doubling.
Doublings(n, g) == g = [k \in 0 .. n |-> IF k = 0 THEN 1 ELSE 2 * g[k - 1]]

LEMMA DoublingsExist == ASSUME NEW n \in Nat PROVE \E g : Doublings(n, g)
  <1> DEFINE S == {m \in Nat : \E g : Doublings(m, g)}
  <1>1. 0 \in S
    <2>1. Doublings(0, [k \in 0 .. 0 |-> 1])  BY DEF Doublings
    <2> QED  BY <2>1
  <1>2. ASSUME NEW m \in Nat, m \in S PROVE m + 1 \in S
    <2>1. PICK g : Doublings(m, g)  BY <1>2
    <2> DEFINE h == [k \in 0 .. m + 1 |-> IF k = m + 1 THEN 2 * g[m] ELSE g[k]]
    <2>2. ASSUME NEW k \in 0 .. m + 1 PROVE h[k] = IF k = 0 THEN 1 ELSE 2 * h[k - 1]
      <3>1. CASE k = m + 1  BY <3>1
      <3>2. CASE k \in 0 .. m  BY <2>1, <3>2 DEF Doublings
      <3> QED  BY <3>1, <3>2
    <2>3. Doublings(m + 1, h)  BY <2>2 DEF Doublings
    <2> QED  BY <2>3
  <1> HIDE DEF S
  <1>3. Nat \subseteq S  BY <1>1, <1>2, SetInduction
  <1> QED  BY <1>3 DEF S

LEMMA DoublingsAgree ==
    ASSUME NEW n \in Nat, NEW m \in Nat, NEW g, NEW h, Doublings(n, g), Doublings(m, h),
           NEW k \in Nat, k <= n, k <= m
    PROVE  g[k] = h[k]
  <1> DEFINE S == {j \in Nat : j <= n /\ j <= m => g[j] = h[j]}
  <1>1. 0 \in S  BY DEF Doublings
  <1>2. ASSUME NEW j \in Nat, j \in S PROVE j + 1 \in S
    <2> SUFFICES ASSUME j + 1 <= n, j + 1 <= m PROVE g[j + 1] = h[j + 1]  OBVIOUS
    <2>1. g[j + 1] = 2 * g[j] /\ h[j + 1] = 2 * h[j]  BY DEF Doublings
    <2> QED  BY <1>2, <2>1
  <1> HIDE DEF S
  <1>3. Nat \subseteq S  BY <1>1, <1>2, SetInduction
  <1> QED  BY <1>3 DEF S

\* What Power computes.
LEMMA PowerDoubles ==
    /\ Power[0] = 1
    /\ \A k \in Nat : Power[k + 1] = 2 * Power[k]
    /\ \A k \in Nat : Power[k] \in Nat /\ Power[k] >= 1
  <1> DEFINE first(n) == CHOOSE g : Doublings(n, g)
             P == [k \in Nat |-> first(k)[k]]
  <1>1. ASSUME NEW n \in Nat PROVE Doublings(n, first(n))  BY DoublingsExist
  <1> HIDE DEF first
  <1>2. ASSUME NEW k \in Nat PROVE P[k] = IF k = 0 THEN 1 ELSE 2 * P[k - 1]
    <2>1. CASE k = 0  BY <1>1, <2>1 DEF Doublings
    <2>2. CASE k # 0
      <3>1. k - 1 \in Nat  BY <2>2
      <3>2. first(k)[k] = 2 * first(k)[k - 1]  BY <1>1, <2>2 DEF Doublings
      <3>3. first(k)[k - 1] = first(k - 1)[k - 1]
        <4>1. Doublings(k, first(k)) /\ Doublings(k - 1, first(k - 1))  BY <1>1, <3>1
        <4>2. k - 1 <= k /\ k - 1 <= k - 1  BY <3>1
        <4> QED  BY <3>1, <4>1, <4>2, DoublingsAgree
      <3> QED  BY <2>2, <3>1, <3>2, <3>3
    <2> QED  BY <2>1, <2>2
  <1>3. P = [k \in Nat |-> IF k = 0 THEN 1 ELSE 2 * P[k - 1]]  BY <1>2
  <1> HIDE DEF P
  <1>4. Power = [k \in Nat |-> IF k = 0 THEN 1 ELSE 2 * Power[k - 1]]  BY <1>3 DEF Power
  <1>5. Power[0] = 1 /\ \A k \in Nat : Power[k + 1] = 2 * Power[k]  BY <1>4
  <1>6. \A k \in Nat : Power[k] \in Nat /\ Power[k] >= 1
    <2> DEFINE S == {k \in Nat : Power[k] \in Nat /\ Power[k] >= 1}
    <2>1. 0 \in S /\ \A k \in Nat : k \in S => k + 1 \in S  BY <1>5
    <2> HIDE DEF S
    <2>2. Nat \subseteq S  BY <2>1, SetInduction
    <2> QED  BY <2>2 DEF S
  <1> QED  BY <1>5, <1>6

-----------------------------------------------------------------------------
(* The loop over the rounds.                                                *)

\* The placements that buildSingleEliminationBracket accepts, for K rounds.
Drawn(draw, R, K) ==
    /\ K \in Nat \ {0}
    /\ DOMAIN draw = 1 .. Power[K]
    /\ \A a \in R : \E p \in DOMAIN draw : draw[p] = a
    /\ \A p, q \in DOMAIN draw : draw[p] = draw[q] /\ draw[p] # Nobody => p = q
    /\ \A p \in DOMAIN draw : draw[p] \in R \cup {Nobody}
    /\ \A i \in Halved(draw) : draw[2 * i - 1] # Nobody \/ draw[2 * i] # Nobody
    /\ R \subseteq Athletes
    /\ \E a, b \in R : a # b

LEMMA ValidIsDrawn ==
    ASSUME NEW draw, ValidPlacements(draw), roster \subseteq Athletes
    PROVE  Drawn(draw, roster, RoundCount(Cardinality(DOMAIN draw)))
  <1> DEFINE K == RoundCount(Cardinality(DOMAIN draw))
  <1>1. PICK k \in 1 .. MaxSize : DOMAIN draw = 1 .. Power[k]
    BY DEF ValidPlacements, Powers
  <1>2. MaxSize \in Nat /\ k \in Nat /\ Power[k] \in Nat /\ Power[k] >= 1
    <2>1. MaxSize \in Nat  BY BracketAssumption
    <2>2. k \in Nat  BY <2>1
    <2> QED  BY <2>1, <2>2, PowerDoubles
  <1>3. Cardinality(DOMAIN draw) = Power[k] /\ IsFiniteSet(DOMAIN draw)
    <2>1. 1 \in Int /\ Power[k] \in Int  BY <1>2
    <2>2. IsFiniteSet(1 .. Power[k])
           /\ Cardinality(1 .. Power[k]) = IF 1 > Power[k] THEN 0 ELSE Power[k] - 1 + 1
      BY <2>1, FS_Interval
    <2> QED  BY <1>1, <1>2, <2>2
  <1>4. K \in 1 .. MaxSize /\ Power[K] = Power[k]  BY <1>3 DEF RoundCount
  <1> HIDE DEF K
  <1>5. K \in Nat \ {0} /\ DOMAIN draw = 1 .. Power[K]  BY <1>1, <1>2, <1>4
  <1>6. ASSUME NEW a \in roster
        PROVE  \E p : {q \in DOMAIN draw : draw[q] = a} = {p}
    <2>1. IsFiniteSet({q \in DOMAIN draw : draw[q] = a})  BY <1>3, FS_Subset
    <2>2. Cardinality({q \in DOMAIN draw : draw[q] = a}) = 1  BY DEF ValidPlacements
    <2> QED  BY <2>1, <2>2, FS_Singleton
  <1>7. \A a \in roster : \E p \in DOMAIN draw : draw[p] = a
    <2> TAKE a \in roster
    <2>1. PICK p : {q \in DOMAIN draw : draw[q] = a} = {p}  BY <1>6
    <2> QED  BY <2>1
  <1>8. ASSUME NEW p \in DOMAIN draw, NEW q \in DOMAIN draw, draw[p] = draw[q], draw[p] # Nobody
        PROVE  p = q
    <2>1. draw[p] \in roster  BY <1>8 DEF ValidPlacements
    <2>2. PICK o : {x \in DOMAIN draw : draw[x] = draw[p]} = {o}  BY <1>6, <2>1
    <2> QED  BY <1>8, <2>2
  <1>9. \E a, b \in roster : a # b
    <2>1. IsFiniteSet(roster)  BY BracketAssumption, FS_Subset
    <2>2. Cardinality(roster) \in 2 .. MaxSize  BY DEF ValidPlacements, ValidAthletes
    <2>3. roster # {}  BY <1>2, <2>2, FS_EmptySet
    <2>4. ASSUME NEW x PROVE roster # {x}
      <3>1. Cardinality({x}) = 1  BY FS_Singleton
      <3> QED  BY <1>2, <2>2, <3>1
    <2> QED  BY <2>3, <2>4
  <1> QED  BY <1>5, <1>7, <1>8, <1>9 DEF Drawn, ValidPlacements, K

\* The loop, as far as round n.
Rounds(draw, n, adv) == adv = [r \in 0 .. n |-> IF r = 0 THEN draw ELSE Round(adv[r - 1], r)]

LEMMA RoundsExist == ASSUME NEW draw, NEW n \in Nat PROVE \E adv : Rounds(draw, n, adv)
  <1> DEFINE S == {m \in Nat : \E adv : Rounds(draw, m, adv)}
  <1>1. 0 \in S
    <2>1. Rounds(draw, 0, [r \in 0 .. 0 |-> draw])  BY DEF Rounds
    <2> QED  BY <2>1
  <1>2. ASSUME NEW m \in Nat, m \in S PROVE m + 1 \in S
    <2>1. PICK g : Rounds(draw, m, g)  BY <1>2
    <2> DEFINE h == [r \in 0 .. m + 1 |-> IF r = m + 1 THEN Round(g[m], m + 1) ELSE g[r]]
    <2>2. ASSUME NEW r \in 0 .. m + 1
          PROVE  h[r] = IF r = 0 THEN draw ELSE Round(h[r - 1], r)
      <3>1. CASE r = m + 1
        <4>1. h[m] = g[m]  OBVIOUS
        <4> QED  BY <3>1, <4>1
      <3>2. CASE r \in 0 .. m  BY <2>1, <3>2 DEF Rounds
      <3> QED  BY <3>1, <3>2
    <2>3. Rounds(draw, m + 1, h)  BY <2>2 DEF Rounds
    <2> QED  BY <2>3
  <1> HIDE DEF S
  <1>3. Nat \subseteq S  BY <1>1, <1>2, SetInduction
  <1> QED  BY <1>3 DEF S

LEMMA AdvancementUnfolds ==
    ASSUME NEW draw, NEW K \in Nat
    PROVE  /\ DOMAIN Advancement(draw, K) = 0 .. K
           /\ Advancement(draw, K)[0] = draw
           /\ \A r \in 1 .. K :
                  Advancement(draw, K)[r] = Round(Advancement(draw, K)[r - 1], r)
  <1>1. Rounds(draw, K, Advancement(draw, K))  BY RoundsExist DEF Rounds, Advancement
  <1> HIDE DEF Advancement
  <1> QED  BY <1>1 DEF Rounds

\* Every round halves the positions of the one below.
LEMMA TreeShape ==
    ASSUME NEW draw, NEW R, NEW K, Drawn(draw, R, K), NEW adv, adv = Advancement(draw, K)
    PROVE  \A r \in 0 .. K : DOMAIN adv[r] = 1 .. Power[K - r] /\ DOMAIN adv[r] \subseteq DOMAIN draw
  <1> DEFINE S == {n \in Nat : n <= K => /\ DOMAIN adv[n] = 1 .. Power[K - n]
                                         /\ DOMAIN adv[n] \subseteq DOMAIN draw}
  <1>1. K \in Nat \ {0} /\ DOMAIN draw = 1 .. Power[K]  BY DEF Drawn
  <1>2. adv[0] = draw /\ \A r \in 1 .. K : adv[r] = Round(adv[r - 1], r)
    BY <1>1, AdvancementUnfolds
  <1>3. 0 \in S
    <2>1. K - 0 = K /\ adv[0] = draw  BY <1>1, <1>2
    <2> QED  BY <1>1, <2>1
  <1>4. ASSUME NEW n \in Nat, n \in S PROVE n + 1 \in S
    <2> SUFFICES ASSUME n + 1 <= K
                 PROVE  /\ DOMAIN adv[n + 1] = 1 .. Power[K - (n + 1)]
                        /\ DOMAIN adv[n + 1] \subseteq DOMAIN draw
      OBVIOUS
    <2>1. DOMAIN adv[n] = 1 .. Power[K - n] /\ DOMAIN adv[n] \subseteq DOMAIN draw
      BY <1>1, <1>4
    <2>2. adv[n + 1] = Round(adv[n], n + 1)  BY <1>1, <1>2
    <2>3. DOMAIN adv[n + 1] = Halved(adv[n])  BY <2>2 DEF Round
    <2>4. PICK m \in Nat : m = K - (n + 1)  BY <1>1
    <2>5. Power[K - n] = 2 * Power[m] /\ Power[m] \in Nat
      <3>1. K - n = m + 1  BY <1>1, <2>4
      <3> QED  BY <3>1, PowerDoubles
    <2>6. Halved(adv[n]) = 1 .. Power[m]  BY <2>1, <2>5 DEF Halved
    <2>7. Halved(adv[n]) \subseteq DOMAIN adv[n]  BY DEF Halved
    <2> QED  BY <2>1, <2>3, <2>4, <2>6, <2>7
  <1> HIDE DEF S
  <1>5. Nat \subseteq S  BY <1>3, <1>4, SetInduction
  <1> QED  BY <1>1, <1>5 DEF S

\* A position and the two it is fed from.
LEMMA TreeStep ==
    ASSUME NEW draw, NEW R, NEW K, Drawn(draw, R, K), NEW adv, adv = Advancement(draw, K),
           NEW r \in 1 .. K, NEW i \in DOMAIN adv[r]
    PROVE  /\ i \in Nat \ {0} /\ r - 1 \in 0 .. K
           /\ 2 * i \in DOMAIN adv[r - 1] /\ 2 * i - 1 \in DOMAIN adv[r - 1]
           /\ adv[r][i] = IF adv[r - 1][2 * i - 1] = Nobody THEN adv[r - 1][2 * i]
                          ELSE IF adv[r - 1][2 * i] = Nobody THEN adv[r - 1][2 * i - 1]
                          ELSE <<r, i>>
  <1>1. K \in Nat \ {0}  BY DEF Drawn
  <1>2. adv[r] = Round(adv[r - 1], r)  BY <1>1, AdvancementUnfolds
  <1>3. i \in Halved(adv[r - 1])  BY <1>2 DEF Round
  <1>4. r - 1 \in 0 .. K /\ K - (r - 1) \in Nat  BY <1>1
  <1>5. DOMAIN adv[r - 1] = 1 .. Power[K - (r - 1)]  BY <1>4, TreeShape
  <1>6. Power[K - (r - 1)] \in Nat  BY <1>4, PowerDoubles
  <1>7. i \in 1 .. Power[K - (r - 1)] /\ 2 * i \in 1 .. Power[K - (r - 1)]
    BY <1>3, <1>5 DEF Halved
  <1>8. 2 * i - 1 \in 1 .. Power[K - (r - 1)]  BY <1>6, <1>7
  <1>9. adv[r][i] = IF adv[r - 1][2 * i - 1] = Nobody THEN adv[r - 1][2 * i]
                    ELSE IF adv[r - 1][2 * i] = Nobody THEN adv[r - 1][2 * i - 1]
                    ELSE <<r, i>>
    BY <1>2, <1>3 DEF Round
  <1> QED  BY <1>4, <1>5, <1>6, <1>7, <1>8, <1>9

\* Two positions of one round that feed the same position are its two sides; every
\* position below feeds one.
LEMMA TreeParent ==
    ASSUME NEW draw, NEW R, NEW K, Drawn(draw, R, K), NEW adv, adv = Advancement(draw, K),
           NEW r \in 1 .. K, NEW p \in DOMAIN adv[r - 1]
    PROVE  \E i \in DOMAIN adv[r] : p = 2 * i - 1 \/ p = 2 * i
  <1>1. K \in Nat \ {0}  BY DEF Drawn
  <1>2. r \in 0 .. K /\ r - 1 \in 0 .. K /\ K - r \in Nat /\ K - (r - 1) = (K - r) + 1  BY <1>1
  <1>3. DOMAIN adv[r - 1] = 1 .. Power[K - (r - 1)] /\ DOMAIN adv[r] = 1 .. Power[K - r]
    BY <1>2, TreeShape
  <1>4. Power[K - (r - 1)] = 2 * Power[K - r] /\ Power[K - r] \in Nat  BY <1>2, PowerDoubles
  <1>5. PICK m \in Nat : m = Power[K - r]  BY <1>4
  <1>6. p \in 1 .. 2 * m  BY <1>3, <1>4, <1>5
  <1>7. PICK i \in Int : p = 2 * i - 1 \/ p = 2 * i
    <2>1. p \in Int  BY <1>6
    <2>2. PICK h \in Int : h = p \div 2  BY <2>1
    <2>3. p = 2 * h \/ p = 2 * h + 1  BY <2>1, <2>2
    <2>4. h + 1 \in Int /\ (p = 2 * h + 1 => p = 2 * (h + 1) - 1)  BY <2>1
    <2> QED  BY <2>3, <2>4
  <1>8. i \in 1 .. m  BY <1>6, <1>7
  <1> QED  BY <1>3, <1>5, <1>7, <1>8

\* Above the first round nobody is missing and every position has its fixture.
LEMMA TreeValues ==
    ASSUME NEW draw, NEW R, NEW K, Drawn(draw, R, K), NEW adv, adv = Advancement(draw, K)
    PROVE  \A r \in 1 .. K : \A i \in DOMAIN adv[r] :
               adv[r][i] # Nobody /\ (r > 1 => adv[r][i] = <<r, i>>)
  <1> DEFINE S == {n \in Nat : n + 1 <= K => \A i \in DOMAIN adv[n + 1] :
                       adv[n + 1][i] # Nobody /\ (n + 1 > 1 => adv[n + 1][i] = <<n + 1, i>>)}
  <1>1. K \in Nat \ {0} /\ adv[0] = draw  BY AdvancementUnfolds DEF Drawn
  <1>2. 0 \in S
    <2> SUFFICES ASSUME NEW i \in DOMAIN adv[1] PROVE adv[1][i] # Nobody  BY <1>1
    <2>1. 1 \in 1 .. K /\ 1 - 1 = 0  BY <1>1
    <2>2. /\ i \in Nat \ {0} /\ 2 * i \in DOMAIN draw /\ 2 * i - 1 \in DOMAIN draw
          /\ adv[1][i] = IF draw[2 * i - 1] = Nobody THEN draw[2 * i]
                         ELSE IF draw[2 * i] = Nobody THEN draw[2 * i - 1] ELSE <<1, i>>
      BY <1>1, <2>1, TreeStep
    <2>3. i \in Halved(draw)
      <3>1. 1 \in 0 .. K  BY <1>1
      <3>2. i \in DOMAIN draw  BY <3>1, TreeShape
      <3> QED  BY <2>2, <3>2 DEF Halved
    <2>4. draw[2 * i - 1] # Nobody \/ draw[2 * i] # Nobody  BY <2>3 DEF Drawn
    <2>5. <<1, i>> # Nobody  BY <2>2, NamesAssumption
    <2> QED  BY <2>2, <2>4, <2>5
  <1>3. ASSUME NEW n \in Nat, n \in S PROVE n + 1 \in S
    <2> SUFFICES ASSUME n + 2 <= K, NEW i \in DOMAIN adv[n + 2]
                 PROVE  adv[n + 2][i] # Nobody /\ adv[n + 2][i] = <<n + 2, i>>
      BY n + 1 + 1 = n + 2
    <2>1. n + 2 \in 1 .. K /\ n + 1 \in 1 .. K /\ n + 2 - 1 = n + 1  BY <1>1
    <2>2. /\ i \in Nat \ {0}
          /\ 2 * i \in DOMAIN adv[n + 1] /\ 2 * i - 1 \in DOMAIN adv[n + 1]
          /\ adv[n + 2][i] = IF adv[n + 1][2 * i - 1] = Nobody THEN adv[n + 1][2 * i]
                             ELSE IF adv[n + 1][2 * i] = Nobody THEN adv[n + 1][2 * i - 1]
                             ELSE <<n + 2, i>>
      BY <2>1, TreeStep
    <2>3. \A j \in DOMAIN adv[n + 1] : adv[n + 1][j] # Nobody  BY <1>1, <1>3
    <2>4. <<n + 2, i>> # Nobody  BY <2>2, NamesAssumption
    <2> QED  BY <2>2, <2>3, <2>4
  <1> HIDE DEF S
  <1>4. Nat \subseteq S  BY <1>2, <1>3, SetInduction
  <1>5. ASSUME NEW r \in 1 .. K, NEW i \in DOMAIN adv[r]
        PROVE  adv[r][i] # Nobody /\ (r > 1 => adv[r][i] = <<r, i>>)
    <2>1. r - 1 \in Nat /\ r - 1 + 1 = r /\ r <= K  BY <1>1
    <2>2. r - 1 \in S  BY <1>4, <2>1
    <2> QED  BY <2>1, <2>2 DEF S
  <1> QED  BY <1>5

-----------------------------------------------------------------------------
(* The fixtures of the tree.                                                *)

\* What stands at a position: its own fixture, or an athlete who starts there or
\* has come through a bye; nobody stands only in the draw itself.
LEMMA TreePosition ==
    ASSUME NEW draw, NEW R, NEW K, Drawn(draw, R, K), NEW adv, adv = Advancement(draw, K),
           NEW s \in 0 .. K, NEW p \in DOMAIN adv[s], adv[s][p] # Nobody
    PROVE  \/ s > 0 /\ adv[s][p] = <<s, p>>
           \/ s = 0 /\ adv[s][p] \in R /\ adv[s][p] = draw[p]
           \/ /\ s = 1 /\ adv[s][p] \in R
              /\ 2 * p \in DOMAIN draw /\ 2 * p - 1 \in DOMAIN draw
              /\ \/ adv[s][p] = draw[2 * p] /\ draw[2 * p - 1] = Nobody
                 \/ adv[s][p] = draw[2 * p - 1] /\ draw[2 * p] = Nobody
  <1>1. K \in Nat \ {0} /\ adv[0] = draw  BY AdvancementUnfolds DEF Drawn
  <1>2. CASE s = 0  BY <1>1, <1>2 DEF Drawn
  <1>3. CASE s > 1
    <2>1. s \in 1 .. K  BY <1>1, <1>3
    <2> QED  BY <1>3, <2>1, TreeValues
  <1>4. CASE s = 1
    <2>1. 1 \in 1 .. K /\ 1 - 1 = 0  BY <1>1
    <2>2. /\ 2 * p \in DOMAIN draw /\ 2 * p - 1 \in DOMAIN draw
          /\ adv[1][p] = IF draw[2 * p - 1] = Nobody THEN draw[2 * p]
                         ELSE IF draw[2 * p] = Nobody THEN draw[2 * p - 1] ELSE <<1, p>>
      BY <1>1, <1>4, <2>1, TreeStep
    <2>3. draw[2 * p] \in R \cup {Nobody} /\ draw[2 * p - 1] \in R \cup {Nobody}
      BY <2>2 DEF Drawn
    <2> QED  BY <1>4, <2>2, <2>3
  <1> QED  BY <1>1, <1>2, <1>3, <1>4

\* Athletes and fixtures are told apart.
LEMMA NamesDiffer ==
    ASSUME NEW draw, NEW R, NEW K, Drawn(draw, R, K), NEW x \in R, NEW r \in Nat, NEW i \in Nat
    PROVE  x # <<r, i>> /\ x # Nobody /\ <<r, i>> # Nobody
  BY NamesAssumption DEF Drawn

\* A pair that met: a position of the tree, with somebody on both sides below.
LEMMA PairHasBothSides ==
    ASSUME NEW draw, NEW R, NEW K, Drawn(draw, R, K), NEW adv, adv = Advancement(draw, K),
           NEW f \in Pairs(adv)
    PROVE  /\ f = <<f[1], f[2]>> /\ f[1] \in 1 .. K /\ f[1] \in Nat \ {0} /\ f[1] - 1 \in 0 .. K
           /\ f[2] \in Nat \ {0} /\ f[2] \in DOMAIN adv[f[1]] /\ f[2] \in DOMAIN draw
           /\ 2 * f[2] \in DOMAIN adv[f[1] - 1] /\ 2 * f[2] - 1 \in DOMAIN adv[f[1] - 1]
           /\ adv[f[1] - 1][2 * f[2]] # Nobody /\ adv[f[1] - 1][2 * f[2] - 1] # Nobody
  <1>1. /\ K \in Nat \ {0} /\ adv[0] = draw /\ DOMAIN adv = 0 .. K
    BY AdvancementUnfolds DEF Drawn
  <1>2. f \in (DOMAIN adv \ {0}) \X DOMAIN adv[0] /\ f[2] \in DOMAIN adv[f[1]]
         /\ adv[f[1]][f[2]] = f
    BY DEF Pairs
  <1>3. PICK r \in 1 .. K, i \in DOMAIN draw : f = <<r, i>>
    <2>1. DOMAIN adv \ {0} = 1 .. K  BY <1>1
    <2> QED  BY <1>1, <1>2, <2>1
  <1>4. f[1] = r /\ f[2] = i  BY <1>3
  <1>5. i \in DOMAIN adv[r] /\ adv[r][i] = <<r, i>>  BY <1>2, <1>3, <1>4
  <1>6. /\ i \in Nat \ {0} /\ r - 1 \in 0 .. K
        /\ 2 * i \in DOMAIN adv[r - 1] /\ 2 * i - 1 \in DOMAIN adv[r - 1]
        /\ adv[r][i] = IF adv[r - 1][2 * i - 1] = Nobody THEN adv[r - 1][2 * i]
                       ELSE IF adv[r - 1][2 * i] = Nobody THEN adv[r - 1][2 * i - 1]
                       ELSE <<r, i>>
    BY <1>5, TreeStep
  <1>7. adv[r - 1][2 * i] # Nobody /\ adv[r - 1][2 * i - 1] # Nobody
    <2>1. CASE r > 1
      <3>1. r - 1 \in 1 .. K  BY <1>1, <2>1
      <3> QED  BY <1>6, <3>1, TreeValues
    <2>2. CASE r = 1
      <3>1. 2 * i \in DOMAIN draw /\ 2 * i - 1 \in DOMAIN draw /\ adv[r - 1] = draw
        BY <1>1, <1>6, <2>2
      <3>2. draw[2 * i] \in R \cup {Nobody} /\ draw[2 * i - 1] \in R \cup {Nobody}
        BY <3>1 DEF Drawn
      <3>3. \A x \in R \cup {Nobody} : x # <<r, i>>  BY <1>6, <2>2, NamesDiffer, NamesAssumption
      <3> QED  BY <1>5, <1>6, <3>1, <3>2, <3>3
    <2> QED  BY <1>1, <2>1, <2>2
  <1>8. r \in Nat \ {0}  BY <1>1
  <1> HIDE <1>2
  <1> QED  BY <1>3, <1>4, <1>5, <1>6, <1>7, <1>8

\* A position with its own name is a pair that met.
LEMMA PairAt ==
    ASSUME NEW draw, NEW R, NEW K, Drawn(draw, R, K), NEW adv, adv = Advancement(draw, K),
           NEW r \in 1 .. K, NEW i \in DOMAIN adv[r], adv[r][i] = <<r, i>>
    PROVE  <<r, i>> \in Pairs(adv)
  <1>1. K \in Nat \ {0} /\ adv[0] = draw /\ DOMAIN adv = 0 .. K
    BY AdvancementUnfolds DEF Drawn
  <1>2. r \in 0 .. K /\ r # 0  BY <1>1
  <1>3. i \in DOMAIN adv[0]  BY <1>1, <1>2, TreeShape
  <1> QED  BY <1>1, <1>2, <1>3 DEF Pairs

\* Where a slot of a pair is fed from.
LEMMA SourceIsPosition ==
    ASSUME NEW draw, NEW R, NEW K, Drawn(draw, R, K), NEW adv, adv = Advancement(draw, K),
           NEW f \in Pairs(adv), NEW c \in Colours
    PROVE  \E p \in DOMAIN adv[f[1] - 1] :
               /\ Sources(adv, f)[c] = adv[f[1] - 1][p] /\ adv[f[1] - 1][p] # Nobody
               /\ p \in Nat \ {0}
               /\ \/ c = "RED" /\ p = 2 * f[2] - 1
                  \/ c = "BLUE" /\ p = 2 * f[2]
  <1>1. /\ f[2] \in Nat \ {0}
        /\ 2 * f[2] \in DOMAIN adv[f[1] - 1] /\ 2 * f[2] - 1 \in DOMAIN adv[f[1] - 1]
        /\ adv[f[1] - 1][2 * f[2]] # Nobody /\ adv[f[1] - 1][2 * f[2] - 1] # Nobody
    BY PairHasBothSides
  <1>2. CASE c = "RED"
    <2>1. 2 * f[2] - 1 \in Nat \ {0}  BY <1>1
    <2> QED  BY <1>1, <1>2, <2>1 DEF Sources
  <1>3. CASE c = "BLUE"
    <2>1. 2 * f[2] \in Nat \ {0}  BY <1>1
    <2> QED  BY <1>1, <1>3, <2>1 DEF Sources
  <1> QED  BY <1>2, <1>3 DEF Colours

\* Nobody starts twice and no winner goes two ways: no two slots have one source.
LEMMA SourcesDiffer ==
    ASSUME NEW draw, NEW R, NEW K, Drawn(draw, R, K), NEW adv, adv = Advancement(draw, K),
           NEW f \in Pairs(adv), NEW c \in Colours, NEW g \in Pairs(adv), NEW d \in Colours,
           Sources(adv, f)[c] = Sources(adv, g)[d]
    PROVE  f = g /\ c = d
  <1>1. K \in Nat \ {0} /\ adv[0] = draw  BY AdvancementUnfolds DEF Drawn
  <1>2. /\ f = <<f[1], f[2]>> /\ f[1] \in Nat \ {0} /\ f[2] \in Nat \ {0} /\ f[1] - 1 \in 0 .. K
        /\ g = <<g[1], g[2]>> /\ g[1] \in Nat \ {0} /\ g[2] \in Nat \ {0} /\ g[1] - 1 \in 0 .. K
    BY PairHasBothSides
  <1>3. PICK s \in 0 .. K, t \in 0 .. K : s = f[1] - 1 /\ t = g[1] - 1  BY <1>2
  <1>4. PICK p \in DOMAIN adv[s] :
            /\ Sources(adv, f)[c] = adv[s][p] /\ adv[s][p] # Nobody /\ p \in Nat \ {0}
            /\ \/ c = "RED" /\ p = 2 * f[2] - 1
               \/ c = "BLUE" /\ p = 2 * f[2]
    BY <1>3, SourceIsPosition
  <1>5. PICK q \in DOMAIN adv[t] :
            /\ Sources(adv, g)[d] = adv[t][q] /\ adv[t][q] # Nobody /\ q \in Nat \ {0}
            /\ \/ d = "RED" /\ q = 2 * g[2] - 1
               \/ d = "BLUE" /\ q = 2 * g[2]
    BY <1>3, SourceIsPosition
  <1>6. PICK x : x = adv[s][p] /\ x = adv[t][q]  BY <1>4, <1>5
  <1>7. ASSUME s = t, p = q PROVE f = g /\ c = d
    <2>1. f[1] = g[1]  BY <1>2, <1>3, <1>7
    <2>2. f[2] = g[2] /\ c = d  BY <1>2, <1>4, <1>5, <1>7
    <2> QED  BY <1>2, <2>1, <2>2
  <1>8. \/ s > 0 /\ x = <<s, p>>
        \/ s = 0 /\ x \in R /\ x = draw[p]
        \/ /\ s = 1 /\ x \in R /\ 2 * p \in DOMAIN draw /\ 2 * p - 1 \in DOMAIN draw
           /\ \/ x = draw[2 * p] /\ draw[2 * p - 1] = Nobody
              \/ x = draw[2 * p - 1] /\ draw[2 * p] = Nobody
    <2>1. adv[s][p] # Nobody /\ x = adv[s][p]  BY <1>4, <1>6
    <2> HIDE <1>4, <1>5, <1>6
    <2> QED  BY <2>1, TreePosition
  <1>9. \/ t > 0 /\ x = <<t, q>>
        \/ t = 0 /\ x \in R /\ x = draw[q]
        \/ /\ t = 1 /\ x \in R /\ 2 * q \in DOMAIN draw /\ 2 * q - 1 \in DOMAIN draw
           /\ \/ x = draw[2 * q] /\ draw[2 * q - 1] = Nobody
              \/ x = draw[2 * q - 1] /\ draw[2 * q] = Nobody
    <2>1. adv[t][q] # Nobody /\ x = adv[t][q]  BY <1>5, <1>6
    <2> HIDE <1>4, <1>5, <1>6
    <2> QED  BY <2>1, TreePosition
  <1>10. s \in Nat /\ t \in Nat /\ p \in Nat \ {0} /\ q \in Nat \ {0}  BY <1>1, <1>4, <1>5
  <1>11. CASE x = <<s, p>>
    <2>1. x \notin R  BY <1>10, <1>11, NamesDiffer
    <2> QED  BY <1>7, <1>9, <1>11, <2>1
  <1>12. CASE x = <<t, q>>
    <2>1. x \notin R  BY <1>10, <1>12, NamesDiffer
    <2> QED  BY <1>7, <1>8, <1>12, <2>1
  <1>13. \A m, n \in DOMAIN draw : draw[m] = x /\ draw[n] = x => m = n
    BY <1>4, <1>6 DEF Drawn
  <1>14. CASE s = 0 /\ t = 0 /\ x = draw[p] /\ x = draw[q]
    BY <1>1, <1>7, <1>13, <1>14
  <1>15. CASE s = 1 /\ t = 1 /\ x # <<s, p>> /\ x # <<t, q>>
    <2>1. PICK m \in DOMAIN draw : x = draw[m] /\ (m = 2 * p \/ m = 2 * p - 1)
      BY <1>8, <1>15
    <2>2. PICK n \in DOMAIN draw : x = draw[n] /\ (n = 2 * q \/ n = 2 * q - 1)
      BY <1>9, <1>15
    <2>3. m = n  BY <1>13, <2>1, <2>2
    <2>4. p = q  BY <1>10, <2>1, <2>2, <2>3
    <2> QED  BY <1>7, <1>15, <2>4
  <1>16. CASE s = 0 /\ t = 1 /\ x # <<t, q>>
    <2>1. PICK n \in DOMAIN draw, b \in DOMAIN draw :
              x = draw[n] /\ draw[b] = Nobody /\ ((n = 2 * q /\ b = 2 * q - 1)
                                                  \/ (n = 2 * q - 1 /\ b = 2 * q))
      BY <1>9, <1>16
    <2>2. p = n  BY <1>1, <1>6, <1>13, <1>16, <2>1
    <2>3. draw[2 * f[2]] # Nobody /\ draw[2 * f[2] - 1] # Nobody
      BY <1>1, <1>3, <1>16, PairHasBothSides
    <2>4. p = 2 * f[2] - 1 \/ p = 2 * f[2]  BY <1>4
    <2>5. f[2] = q  BY <1>2, <1>10, <2>1, <2>2, <2>4
    <2> QED  BY <2>1, <2>3, <2>5
  <1>17. CASE s = 1 /\ t = 0 /\ x # <<s, p>>
    <2>1. PICK n \in DOMAIN draw, b \in DOMAIN draw :
              x = draw[n] /\ draw[b] = Nobody /\ ((n = 2 * p /\ b = 2 * p - 1)
                                                  \/ (n = 2 * p - 1 /\ b = 2 * p))
      BY <1>8, <1>17
    <2>2. q = n  BY <1>1, <1>6, <1>13, <1>17, <2>1
    <2>3. draw[2 * g[2]] # Nobody /\ draw[2 * g[2] - 1] # Nobody
      BY <1>1, <1>3, <1>17, PairHasBothSides
    <2>4. q = 2 * g[2] - 1 \/ q = 2 * g[2]  BY <1>5
    <2>5. g[2] = p  BY <1>2, <1>10, <2>1, <2>2, <2>4
    <2> QED  BY <2>1, <2>3, <2>5
  <1> QED  BY <1>8, <1>9, <1>11, <1>12, <1>14, <1>15, <1>16, <1>17

\* A position that a pair of the next round looks at feeds a slot of it.
LEMMA PositionFeeds ==
    ASSUME NEW draw, NEW R, NEW K, Drawn(draw, R, K), NEW adv, adv = Advancement(draw, K),
           NEW r \in 1 .. K, NEW i \in DOMAIN adv[r], adv[r][i] = <<r, i>>,
           NEW p, p = 2 * i - 1 \/ p = 2 * i
    PROVE  \E f \in Pairs(adv), c \in Colours : Sources(adv, f)[c] = adv[r - 1][p]
  <1>1. <<r, i>> \in Pairs(adv)  BY PairAt
  <1>2. CASE p = 2 * i - 1
    <2>1. Sources(adv, <<r, i>>)["RED"] = adv[r - 1][p]  BY <1>2 DEF Sources, Colours
    <2> QED  BY <1>1, <2>1 DEF Colours
  <1>3. CASE p = 2 * i
    <2>1. Sources(adv, <<r, i>>)["BLUE"] = adv[r - 1][p]  BY <1>3 DEF Sources, Colours
    <2> QED  BY <1>1, <2>1 DEF Colours
  <1> QED  BY <1>2, <1>3

-----------------------------------------------------------------------------
(* The graph of a draw is a single elimination.                             *)

\* W gives every fixture the sources of its slots, R are the athletes.
SingleElimination(W, R, K) ==
    /\ DOMAIN W \subseteq Nat \X Nat /\ IsFiniteSet(DOMAIN W)
    /\ R \subseteq Athletes
    /\ \A f \in DOMAIN W, c \in Colours : W[f][c] \in R \cup DOMAIN W
    /\ \A f, g \in DOMAIN W, c, d \in Colours : W[f][c] = W[g][d] => f = g /\ c = d
    /\ \A a \in R : \E f \in DOMAIN W, c \in Colours : W[f][c] = a
    /\ \A f \in DOMAIN W : f[1] # K => \E g \in DOMAIN W, c \in Colours : W[g][c] = f
    /\ \A f, g \in DOMAIN W, c \in Colours : W[g][c] = f => f[1] < g[1] /\ f[1] # K
    /\ \E last : {f \in DOMAIN W : f[1] = K} = {last}

\* Every athlete of the draw starts in some slot: in the first round against an
\* opponent, in the second after a bye.
LEMMA AthletesStart ==
    ASSUME NEW draw, NEW R, NEW K, Drawn(draw, R, K), NEW adv, adv = Advancement(draw, K),
           NEW a \in R
    PROVE  \E f \in Pairs(adv), c \in Colours : Sources(adv, f)[c] = a
  <1>1. K \in Nat \ {0} /\ adv[0] = draw  BY AdvancementUnfolds DEF Drawn
  <1>2. PICK q \in DOMAIN draw : draw[q] = a  BY DEF Drawn
  <1>3. 1 \in 1 .. K /\ 1 - 1 = 0  BY <1>1
  <1>4. PICK i \in DOMAIN adv[1] : q = 2 * i - 1 \/ q = 2 * i
    BY <1>1, <1>2, <1>3, TreeParent
  <1>5. i \in Nat \ {0} /\ 2 * i \in DOMAIN draw /\ 2 * i - 1 \in DOMAIN draw
         /\ adv[1][i] = IF draw[2 * i - 1] = Nobody THEN draw[2 * i]
                        ELSE IF draw[2 * i] = Nobody THEN draw[2 * i - 1] ELSE <<1, i>>
    BY <1>1, <1>3, <1>4, TreeStep
  <1>6. a # Nobody  BY NamesAssumption DEF Drawn
  <1>7. CASE adv[1][i] = <<1, i>>  BY <1>1, <1>2, <1>3, <1>4, <1>7, PositionFeeds
  <1>8. CASE adv[1][i] # <<1, i>>
    <2>1. adv[1][i] = a  BY <1>2, <1>4, <1>5, <1>6, <1>8
    <2>2. CASE K = 1
      <3>1. Power[1] = 2 /\ DOMAIN draw = 1 .. 2
        <4>1. Power[0 + 1] = 2 * Power[0] /\ Power[0] = 1  BY PowerDoubles
        <4> QED  BY <2>2, <4>1 DEF Drawn
      <3>2. i = 1  BY <1>5, <3>1
      <3>3. draw[1] = Nobody \/ draw[2] = Nobody  BY <1>5, <1>8, <3>2
      <3>4. ASSUME NEW x \in R, NEW y \in R PROVE x = y
        <4>1. PICK m \in 1 .. 2 : draw[m] = x  BY <3>1 DEF Drawn
        <4>2. PICK n \in 1 .. 2 : draw[n] = y  BY <3>1 DEF Drawn
        <4>3. x # Nobody /\ y # Nobody  BY NamesAssumption DEF Drawn
        <4> QED  BY <3>3, <4>1, <4>2, <4>3
      <3> QED  BY <3>4 DEF Drawn
    <2>3. CASE K > 1
      <3>1. 2 \in 1 .. K /\ 2 - 1 = 1  BY <1>1, <2>3
      <3>2. PICK j \in DOMAIN adv[2] : i = 2 * j - 1 \/ i = 2 * j
        BY <1>4, <3>1, TreeParent
      <3>3. adv[2][j] = <<2, j>>  BY <3>1, TreeValues
      <3> QED  BY <2>1, <3>1, <3>2, <3>3, PositionFeeds
    <2> QED  BY <1>1, <2>2, <2>3
  <1> QED  BY <1>7, <1>8

\* The last round has one position, and its pair met.
LEMMA OneFinal ==
    ASSUME NEW draw, NEW R, NEW K, Drawn(draw, R, K), NEW adv, adv = Advancement(draw, K)
    PROVE  {f \in Pairs(adv) : f[1] = K} = {<<K, 1>>}
  <1>1. K \in Nat \ {0} /\ K \in 1 .. K /\ K \in 0 .. K /\ K - K = 0  BY DEF Drawn
  <1>2. DOMAIN adv[K] = {1}
    <2>1. DOMAIN adv[K] = 1 .. Power[0]  BY <1>1, TreeShape
    <2> QED  BY <2>1, PowerDoubles
  <1>3. ASSUME NEW f \in Pairs(adv), f[1] = K PROVE f = <<K, 1>>
    BY <1>2, <1>3, PairHasBothSides
  <1>4. <<K, 1>> \in Pairs(adv)
    <2>1. CASE adv[K][1] = <<K, 1>>  BY <1>1, <1>2, <2>1, PairAt
    <2>2. CASE adv[K][1] # <<K, 1>>
      <3>1. ASSUME NEW x \in R, NEW f \in Pairs(adv) PROVE FALSE
        <4>1. f[1] \in 1 .. K /\ f = <<f[1], f[2]>> /\ f[2] \in DOMAIN adv[f[1]]
          BY PairHasBothSides
        <4>2. K = 1  BY <1>1, <1>2, <2>2, TreeValues
        <4>3. f[1] = K /\ f[2] = 1  BY <1>2, <4>1, <4>2
        <4>4. adv[f[1]][f[2]] = f  BY DEF Pairs
        <4> QED  BY <2>2, <4>1, <4>3, <4>4
      <3>2. PICK a \in R : TRUE  BY DEF Drawn
      <3> QED  BY <3>1, <3>2, AthletesStart
    <2> QED  BY <2>1, <2>2
  <1> QED  BY <1>3, <1>4

\* Whatever valid placements the generator is given, its graph is a single elimination.
LEMMA GraphOfDraw ==
    ASSUME NEW draw, NEW R, NEW K, Drawn(draw, R, K), K = RoundCount(Cardinality(DOMAIN draw))
    PROVE  SingleElimination(Graph(draw), R, K)
  <1> DEFINE adv == Advancement(draw, K)
             W == Graph(draw)
  <1>1. K \in Nat \ {0} /\ DOMAIN adv = 0 .. K /\ adv[0] = draw
    BY AdvancementUnfolds DEF Drawn
  <1>2. W = [f \in Pairs(adv) |-> Sources(adv, f)]  BY DEF Graph
  <1> HIDE DEF adv, W
  <1>3. DOMAIN W = Pairs(adv) /\ \A f \in Pairs(adv) : W[f] = Sources(adv, f)  BY <1>2
  <1>4. DOMAIN W \subseteq Nat \X Nat /\ IsFiniteSet(DOMAIN W)
    <2>1. Pairs(adv) \subseteq (1 .. K) \X DOMAIN draw
      <3>1. DOMAIN adv \ {0} = 1 .. K  BY <1>1
      <3> QED  BY <1>1, <3>1 DEF Pairs
    <2>2. Power[K] \in Nat /\ DOMAIN draw = 1 .. Power[K]  BY <1>1, PowerDoubles DEF Drawn
    <2>3. IsFiniteSet(1 .. K) /\ IsFiniteSet(1 .. Power[K])
      <3>1. 1 \in Int /\ K \in Int /\ Power[K] \in Int  BY <1>1, <2>2
      <3> QED  BY <3>1, FS_Interval
    <2>4. IsFiniteSet((1 .. K) \X DOMAIN draw)  BY <2>2, <2>3, FS_Product
    <2>5. IsFiniteSet(Pairs(adv))  BY <2>1, <2>4, FS_Subset
    <2>6. 1 .. K \subseteq Nat /\ 1 .. Power[K] \subseteq Nat  BY <1>1, <2>2
    <2>7. Pairs(adv) \subseteq Nat \X Nat  BY <2>1, <2>2, <2>6
    <2> QED  BY <1>3, <2>5, <2>7
  <1>5. ASSUME NEW f \in Pairs(adv), NEW c \in Colours
        PROVE  \/ Sources(adv, f)[c] \in R
               \/ /\ Sources(adv, f)[c] \in Pairs(adv)
                  /\ Sources(adv, f)[c][1] = f[1] - 1
    <2>1. f[1] - 1 \in 0 .. K  BY PairHasBothSides DEF adv
    <2>2. PICK s \in 0 .. K : s = f[1] - 1  BY <2>1
    <2>3. PICK p \in DOMAIN adv[s] : Sources(adv, f)[c] = adv[s][p] /\ adv[s][p] # Nobody
      BY <2>2, SourceIsPosition DEF adv
    <2>4. adv[s][p] \in R \/ (s > 0 /\ adv[s][p] = <<s, p>>)  BY <2>3, TreePosition DEF adv
    <2>5. CASE s > 0 /\ adv[s][p] = <<s, p>>
      <3>1. s \in 1 .. K  BY <1>1, <2>5
      <3>2. <<s, p>> \in Pairs(adv)  BY <2>5, <3>1, PairAt DEF adv
      <3> QED  BY <2>2, <2>3, <2>5, <3>2
    <2> QED  BY <2>3, <2>4, <2>5
  <1>6. ASSUME NEW f \in Pairs(adv), f[1] # K
        PROVE  \E g \in Pairs(adv), c \in Colours : Sources(adv, g)[c] = f
    <2>1. f = <<f[1], f[2]>> /\ f[1] \in 1 .. K /\ f[2] \in DOMAIN adv[f[1]]
      BY PairHasBothSides DEF adv
    <2>2. adv[f[1]][f[2]] = f  BY DEF Pairs
    <2>3. PICK r : r = f[1] + 1  OBVIOUS
    <2>4. r \in 1 .. K /\ r - 1 = f[1] /\ r > 1  BY <1>1, <1>6, <2>1, <2>3
    <2>5. PICK i \in DOMAIN adv[r] : f[2] = 2 * i - 1 \/ f[2] = 2 * i
      BY <2>1, <2>4, TreeParent DEF adv
    <2>6. adv[r][i] = <<r, i>>  BY <2>4, TreeValues DEF adv
    <2>7. \E g \in Pairs(adv), c \in Colours : Sources(adv, g)[c] = adv[r - 1][f[2]]
      BY <2>4, <2>5, <2>6, PositionFeeds DEF adv
    <2> QED  BY <2>2, <2>4, <2>7
  <1>7. ASSUME NEW f \in Pairs(adv), NEW g \in Pairs(adv), NEW c \in Colours,
               Sources(adv, g)[c] = f
        PROVE  f[1] < g[1] /\ f[1] # K
    <2>1. f = <<f[1], f[2]>> /\ f[1] \in Nat /\ f[2] \in Nat /\ g[1] \in 1 .. K
      BY PairHasBothSides DEF adv
    <2>2. f \notin R  BY <2>1, NamesDiffer
    <2>3. f[1] = g[1] - 1  BY <1>5, <1>7, <2>2
    <2> QED  BY <1>1, <2>1, <2>3
  <1>8. ASSUME NEW f \in Pairs(adv), NEW c \in Colours, NEW g \in Pairs(adv), NEW d \in Colours,
               Sources(adv, f)[c] = Sources(adv, g)[d]
        PROVE  f = g /\ c = d
    BY <1>8, SourcesDiffer DEF adv
  <1>9. \A a \in R : \E f \in Pairs(adv), c \in Colours : Sources(adv, f)[c] = a
    BY AthletesStart DEF adv
  <1>10. {f \in Pairs(adv) : f[1] = K} = {<<K, 1>>}  BY OneFinal DEF adv
  <1>11. R \subseteq Athletes  BY DEF Drawn
  <1>12. /\ \A f \in DOMAIN W, c \in Colours : W[f][c] \in R \cup DOMAIN W
         /\ \A f, g \in DOMAIN W, c, d \in Colours : W[f][c] = W[g][d] => f = g /\ c = d
         /\ \A a \in R : \E f \in DOMAIN W, c \in Colours : W[f][c] = a
    BY <1>3, <1>5, <1>8, <1>9
  <1>13. /\ \A f \in DOMAIN W : f[1] # K => \E g \in DOMAIN W, c \in Colours : W[g][c] = f
         /\ \A f, g \in DOMAIN W, c \in Colours : W[g][c] = f => f[1] < g[1] /\ f[1] # K
    BY <1>3, <1>6, <1>7
  <1>14. \E last : {f \in DOMAIN W : f[1] = K} = {last}
    <2>1. {f \in DOMAIN W : f[1] = K} = {<<K, 1>>}  BY <1>3, <1>10
    <2> QED  BY <2>1
  <1> QED  BY <1>4, <1>11, <1>12, <1>13, <1>14 DEF SingleElimination, W

\* Every fixture eliminates one athlete, and only the champion is left.
LEMMA EliminationCounts ==
    ASSUME NEW W, NEW R, NEW K, SingleElimination(W, R, K)
    PROVE  Cardinality(DOMAIN W) + 1 = Cardinality(R)
  <1> DEFINE F == DOMAIN W
  <1>1. PICK last : {f \in F : f[1] = K} = {last}  BY DEF SingleElimination
  <1> DEFINE T == R \cup (F \ {last})
             source == [s \in F \X Colours |-> W[s[1]][s[2]]]
  <1>2. last \in F /\ IsFiniteSet(F) /\ IsFiniteSet(R) /\ R \cap F = {}
    <2>1. last \in F  BY <1>1
    <2>2. R \subseteq Athletes /\ F \subseteq Nat \X Nat /\ IsFiniteSet(F)
      BY DEF SingleElimination
    <2>3. IsFiniteSet(R)  BY <2>2, BracketAssumption, FS_Subset
    <2> QED  BY <2>1, <2>2, <2>3, NamesAssumption
  <1>3. source \in Bijection(F \X Colours, T)
    <2>1. ASSUME NEW f \in F, NEW c \in Colours PROVE W[f][c] \in T
      <3>1. W[f][c] \in R \cup F  BY DEF SingleElimination
      <3>2. last[1] = K  BY <1>1
      <3>3. W[f][c] # last  BY <1>2, <3>2 DEF SingleElimination
      <3> QED  BY <3>1, <3>3
    <2>2. source \in [F \X Colours -> T]  BY <2>1
    <2>3. ASSUME NEW s \in F \X Colours, NEW t \in F \X Colours, source[s] = source[t]
          PROVE  s = t
      <3>1. PICK f \in F, c \in Colours : s = <<f, c>>  OBVIOUS
      <3>2. PICK g \in F, d \in Colours : t = <<g, d>>  OBVIOUS
      <3>3. W[f][c] = W[g][d]  BY <2>3, <3>1, <3>2
      <3>4. f = g /\ c = d  BY <3>3 DEF SingleElimination
      <3> QED  BY <3>1, <3>2, <3>4
    <2>4. ASSUME NEW x \in T PROVE \E s \in F \X Colours : source[s] = x
      <3>1. PICK f \in F, c \in Colours : W[f][c] = x
        <4>1. CASE x \in R  BY <4>1 DEF SingleElimination
        <4>2. CASE x \in F \ {last}
          <5>1. x[1] # K  BY <1>1, <4>2
          <5> QED  BY <4>2, <5>1 DEF SingleElimination
        <4> QED  BY <4>1, <4>2
      <3>2. source[<<f, c>>] = x  BY <3>1
      <3> QED  BY <3>2
    <2> HIDE DEF F, T, source
    <2>5. source \in Injection(F \X Colours, T)  BY <2>2, <2>3 DEF Injection, IsInjective
    <2>6. source \in Surjection(F \X Colours, T)  BY <2>2, <2>4 DEF Surjection
    <2> QED  BY <2>5, <2>6 DEF Bijection
  <1>4. IsFiniteSet(Colours) /\ Cardinality(Colours) = 2
    <2>1. Cardinality({"RED"}) = 1 /\ IsFiniteSet({"RED"})  BY FS_Singleton
    <2>2. Colours = {"RED"} \cup {"BLUE"} /\ "BLUE" \notin {"RED"}  BY DEF Colours
    <2> QED  BY <2>1, <2>2, FS_AddElement
  <1> HIDE DEF F, T, source
  <1>5. IsFiniteSet(F \X Colours) /\ Cardinality(F \X Colours) = Cardinality(F) * 2
    BY <1>2, <1>4, FS_Product
  <1>6. Cardinality(T) = Cardinality(F \X Colours)
    <2>1. ExistsBijection(F \X Colours, T)  BY <1>3 DEF ExistsBijection
    <2> QED  BY <1>5, <2>1, FS_Bijection
  <1>7. Cardinality(F \ {last}) = Cardinality(F) - 1 /\ IsFiniteSet(F \ {last})
    BY <1>2, FS_RemoveElement
  <1>8. Cardinality(T) = Cardinality(R) + Cardinality(F \ {last})
    <2>1. R \cap (F \ {last}) = {}  BY <1>2
    <2>2. Cardinality(R \cap (F \ {last})) = 0  BY <2>1, FS_EmptySet
    <2>3. Cardinality(T) = Cardinality(R) + Cardinality(F \ {last}) - Cardinality(R \cap (F \ {last}))
      BY <1>2, <1>7, FS_Union DEF T
    <2>4. Cardinality(R) \in Nat /\ Cardinality(F \ {last}) \in Nat
      BY <1>2, <1>7, FS_CardinalityType
    <2> QED  BY <2>2, <2>3, <2>4
  <1>9. Cardinality(F) \in Nat /\ Cardinality(R) \in Nat  BY <1>2, FS_CardinalityType
  <1> QED  BY <1>5, <1>6, <1>7, <1>8, <1>9 DEF F

-----------------------------------------------------------------------------
(* The invariant: outcomes on a single elimination.                         *)

Slot == [Colours -> Athletes \cup {Nobody}]

FixtureRecord ==
    [src : [Colours -> Athletes \cup (Nat \X Nat)],
     slot : Slot,
     winner : Athletes \cup {Nobody},
     by : {"NOBODY", "RULES", "ADMIN_TIEBREAK", "WITHDRAWAL_OR_INJURY"},
     status : {"PENDING_PARTICIPANTS", "READY", "MATCH_PREPARED", "AWAITING_WINNER", "COMPLETED"},
     match : [state : {"NONE", "OPEN", "FINISHED", "RESET"}, athlete : Slot,
              codes : BOOLEAN, totals : Results]]

BracketRecord ==
    [status : {"NONE", "ACTIVE", "COMPLETED", "CANCELLED"}, cancelled : BOOLEAN,
     rounds : Nat, champion : Athletes \cup {Nobody}]

BracketTyped ==
    /\ roster \subseteq Athletes
    /\ bracket \in BracketRecord
    /\ DOMAIN fixture \subseteq Nat \X Nat
    /\ fixture \in [DOMAIN fixture -> FixtureRecord]

\* The sources of the slots, which no outcome changes.
Wiring(fx) == [f \in DOMAIN fx |-> fx[f].src]
EntrantsOf(W) == {a \in Athletes : \E f \in DOMAIN W, c \in Colours : W[f][c] = a}

\* A slot shows the winner of its source; a prepared match has the two athletes of
\* its fixture; a winner who fought was there, and his match is over.
Consistent(fx) ==
    \A f \in DOMAIN fx :
        /\ \A g \in DOMAIN fx, c \in Colours :
               fx[g].src[c] = f => fx[g].slot[c] = fx[f].winner
        /\ fx[f].match.state # "NONE" =>
               fx[f].match.athlete = fx[f].slot /\ Filled(fx[f].slot)
        /\ fx[f].by \in {"RULES", "ADMIN_TIEBREAK"} =>
               /\ \E c \in Colours : fx[f].slot[c] = fx[f].winner
               /\ fx[f].match.state = "FINISHED"
        /\ fx[f].winner = Nobody => fx[f].by = "NOBODY"

\* The champion is the winner of the final and completes the bracket.
Crowned(fx, b) ==
    \A f \in DOMAIN fx : f[1] = b.rounds =>
        /\ b.champion = fx[f].winner
        /\ b.status \in {"ACTIVE", "COMPLETED"} =>
               (b.status = "COMPLETED" <=> b.champion # Nobody)

BracketInv ==
    /\ BracketTyped
    /\ IF bracket.status = "NONE" THEN DOMAIN fixture = {}
       ELSE SingleElimination(Wiring(fixture), EntrantsOf(Wiring(fixture)), bracket.rounds)
    /\ bracket.status = "CANCELLED" => bracket.cancelled
    /\ Consistent(fixture)
    /\ Crowned(fixture, bracket)
    /\ EntrantsAreTheRoster

\* On a single elimination nothing feeds itself.
LEMMA NothingFeedsItself ==
    ASSUME NEW fx, NEW R, NEW K, SingleElimination(Wiring(fx), R, K),
           NEW f \in DOMAIN fx, NEW c \in Colours
    PROVE  fx[f].src[c] # f
  <1>1. DOMAIN Wiring(fx) = DOMAIN fx /\ Wiring(fx)[f] = fx[f].src  BY DEF Wiring
  <1>2. f[1] \in Nat  BY <1>1 DEF SingleElimination
  <1>3. fx[f].src[c] = f => f[1] < f[1]  BY <1>1 DEF SingleElimination
  <1> QED  BY <1>2, <1>3

\* What the run checks, of the state.
LEMMA EliminationIsSound ==
    ASSUME BracketTyped,
           bracket.status # "NONE" =>
               SingleElimination(Wiring(fixture), EntrantsOf(Wiring(fixture)), bracket.rounds)
    PROVE  GraphIsSound
  <1> SUFFICES ASSUME bracket.status # "NONE"
               PROVE  /\ Cardinality(DOMAIN fixture) + 1 = Cardinality(Entrants)
                      /\ \A a \in Entrants : Cardinality(SlotsFrom(a)) = 1
                      /\ Cardinality(Final) = 1
                      /\ \A f \in (DOMAIN fixture) \ Final : Cardinality(SlotsFrom(f)) = 1
                      /\ \A f \in DOMAIN fixture : \A g \in Fed(f) : f[1] < g[1]
    BY DEF GraphIsSound
  <1> DEFINE W == Wiring(fixture)
             K == bracket.rounds
  <1>1. DOMAIN W = DOMAIN fixture /\ \A f \in DOMAIN fixture : W[f] = fixture[f].src
    BY DEF Wiring
  <1>2. Entrants = EntrantsOf(W)  BY <1>1 DEF Entrants, EntrantsOf
  <1>3. SingleElimination(W, Entrants, K)  BY <1>2
  <1> HIDE DEF W, K
  <1>4. ASSUME NEW x, \E f \in DOMAIN W, c \in Colours : W[f][c] = x
        PROVE  Cardinality(SlotsFrom(x)) = 1
    <2>1. PICK f \in DOMAIN W, c \in Colours : W[f][c] = x  BY <1>4
    <2>2. \A g \in DOMAIN W, d \in Colours : W[g][d] = x => g = f /\ d = c
      BY <1>3, <2>1 DEF SingleElimination
    <2>3. SlotsFrom(x) = {<<f, c>>}  BY <1>1, <2>1, <2>2 DEF SlotsFrom
    <2> QED  BY <2>3, FS_Singleton
  <1>5. Cardinality(DOMAIN fixture) + 1 = Cardinality(Entrants)  BY <1>1, <1>3, EliminationCounts
  <1>6. \A a \in Entrants : Cardinality(SlotsFrom(a)) = 1
    BY <1>3, <1>4 DEF SingleElimination
  <1>7. Cardinality(Final) = 1
    <2>1. Final = {f \in DOMAIN W : f[1] = K}  BY <1>1 DEF Final, K
    <2>2. \E last : Final = {last}  BY <1>3, <2>1 DEF SingleElimination
    <2> QED  BY <2>2, FS_Singleton
  <1>8. ASSUME NEW f \in (DOMAIN fixture) \ Final PROVE Cardinality(SlotsFrom(f)) = 1
    <2>1. f \in DOMAIN W /\ f[1] # K  BY <1>1 DEF Final, K
    <2>2. \E g \in DOMAIN W, c \in Colours : W[g][c] = f  BY <1>3, <2>1 DEF SingleElimination
    <2> QED  BY <1>4, <2>2
  <1>9. \A f \in DOMAIN fixture : \A g \in Fed(f) : f[1] < g[1]
    BY <1>1, <1>3 DEF Fed, SingleElimination
  <1> QED  BY <1>5, <1>6, <1>7, <1>8, <1>9

-----------------------------------------------------------------------------
(* A step of the outcomes.                                                  *)

Bys == {"NOBODY", "RULES", "ADMIN_TIEBREAK", "WITHDRAWAL_OR_INJURY"}

\* The fixture f gets the winner w, decided by by, and its match the state m; the
\* slots that f feeds show w, and everything else stays.
Moved(old, new, f, w, by, m) ==
    /\ new \in [DOMAIN old -> FixtureRecord]
    /\ \A g \in DOMAIN old :
          /\ new[g].src = old[g].src
          /\ g # f => /\ new[g].winner = old[g].winner /\ new[g].by = old[g].by
                      /\ new[g].match = old[g].match
          /\ \A c \in Colours : new[g].slot[c] = IF old[g].src[c] = f THEN w ELSE old[g].slot[c]
    /\ new[f].winner = w /\ new[f].by = by /\ new[f].match.state = m

\* Such a step keeps the fixtures consistent if no prepared match is fed another
\* athlete, and if f itself is left as Consistent wants it.
LEMMA MovedIsConsistent ==
    ASSUME NEW old, NEW new, NEW f \in DOMAIN old, NEW w, NEW by, NEW m,
           old \in [DOMAIN old -> FixtureRecord], Consistent(old),
           \A g \in DOMAIN old, c \in Colours : g = f => old[g].src[c] # f,
           Moved(old, new, f, w, by, m),
           \A g \in DOMAIN old, c \in Colours :
               old[g].src[c] = f => old[g].match.state = "NONE" \/ old[g].slot[c] = w,
           m # "NONE" => new[f].match.athlete = old[f].slot /\ Filled(old[f].slot),
           by \in {"RULES", "ADMIN_TIEBREAK"} =>
               m = "FINISHED" /\ \E c \in Colours : old[f].slot[c] = w,
           w = Nobody => by = "NOBODY"
    PROVE  Consistent(new)
  <1>1. DOMAIN new = DOMAIN old /\ \A g \in DOMAIN old : new[g] \in FixtureRecord /\ old[g] \in FixtureRecord
    BY DEF Moved
  <1>2. ASSUME NEW g \in DOMAIN old PROVE new[g].slot \in Slot /\ old[g].slot \in Slot
    BY <1>1 DEF FixtureRecord
  <1>3. ASSUME NEW g \in DOMAIN old,
               g = f \/ old[g].match.state # "NONE"
        PROVE  new[g].slot = old[g].slot
    <2>1. \A c \in Colours : new[g].slot[c] = old[g].slot[c]  BY <1>3 DEF Moved
    <2> QED  BY <1>2, <2>1 DEF Slot
  <1>4. ASSUME NEW h \in DOMAIN old, NEW g \in DOMAIN old, NEW c \in Colours, new[g].src[c] = h
        PROVE  new[g].slot[c] = new[h].winner
    <2>1. old[g].src[c] = h  BY <1>4 DEF Moved
    <2>2. CASE h = f  BY <2>1, <2>2 DEF Moved
    <2>3. CASE h # f
      <3>1. new[g].slot[c] = old[g].slot[c] /\ new[h].winner = old[h].winner
        BY <2>1, <2>3 DEF Moved
      <3> QED  BY <2>1, <3>1 DEF Consistent
    <2> QED  BY <2>2, <2>3
  <1>5. ASSUME NEW g \in DOMAIN old
        PROVE  /\ new[g].match.state # "NONE" =>
                      new[g].match.athlete = new[g].slot /\ Filled(new[g].slot)
               /\ new[g].by \in {"RULES", "ADMIN_TIEBREAK"} =>
                      /\ \E c \in Colours : new[g].slot[c] = new[g].winner
                      /\ new[g].match.state = "FINISHED"
               /\ new[g].winner = Nobody => new[g].by = "NOBODY"
    <2>1. CASE g = f
      <3>1. new[f].slot = old[f].slot  BY <1>3
      <3>2. new[f].winner = w /\ new[f].by = by /\ new[f].match.state = m  BY DEF Moved
      <3> QED  BY <2>1, <3>1, <3>2
    <2>2. CASE g # f
      <3>1. new[g].winner = old[g].winner /\ new[g].by = old[g].by /\ new[g].match = old[g].match
        BY <2>2 DEF Moved
      <3>2. /\ old[g].match.state # "NONE" =>
                   old[g].match.athlete = old[g].slot /\ Filled(old[g].slot)
            /\ old[g].by \in {"RULES", "ADMIN_TIEBREAK"} =>
                   /\ \E c \in Colours : old[g].slot[c] = old[g].winner
                   /\ old[g].match.state = "FINISHED"
            /\ old[g].winner = Nobody => old[g].by = "NOBODY"
        BY DEF Consistent
      <3>3. CASE old[g].match.state = "NONE"  BY <3>1, <3>2, <3>3
      <3>4. CASE old[g].match.state # "NONE"
        <4>1. new[g].slot = old[g].slot  BY <1>3, <3>4
        <4> QED  BY <3>1, <3>2, <4>1
      <3> QED  BY <3>3, <3>4
    <2> QED  BY <2>1, <2>2
  <1> QED  BY <1>1, <1>4, <1>5 DEF Consistent

\* A move that the invariant allows: no prepared match is fed another athlete, the
\* match of f has the athletes of its slots, and only the final touches the bracket.
MayMove(f, w, by, m) ==
    /\ w \in Athletes \cup {Nobody}
    /\ Moved(fixture, fixture', f, w, by, m)
    /\ \A g \in DOMAIN fixture, c \in Colours :
           fixture[g].src[c] = f => fixture[g].match.state = "NONE" \/ fixture[g].slot[c] = w
    /\ m # "NONE" => fixture'[f].match.athlete = fixture[f].slot /\ Filled(fixture[f].slot)
    /\ by \in {"RULES", "ADMIN_TIEBREAK"} =>
           m = "FINISHED" /\ \E c \in Colours : fixture[f].slot[c] = w
    /\ w = Nobody => by = "NOBODY"
    /\ UNCHANGED <<roster, offered>>
    /\ \/ bracket' = bracket /\ (f \notin Final \/ w = fixture[f].winner)
       \/ /\ f \in Final /\ w \in Athletes
          /\ bracket' = [bracket EXCEPT !.status = "COMPLETED", !.champion = w]
       \/ /\ f \in Final /\ w = Nobody
          /\ bracket' = [bracket EXCEPT !.status = "ACTIVE", !.champion = Nobody]

LEMMA MovedKeepsInv ==
    ASSUME BracketInv, NEW f \in DOMAIN fixture, NEW w, NEW by, NEW m, MayMove(f, w, by, m)
    PROVE  BracketInv'
  <1> USE DEF MayMove
  <1>1. bracket.status # "NONE"
         /\ SingleElimination(Wiring(fixture), EntrantsOf(Wiring(fixture)), bracket.rounds)
    BY DEF BracketInv
  <1>2. /\ bracket' \in BracketRecord
        /\ bracket'.rounds = bracket.rounds /\ bracket'.cancelled = bracket.cancelled
        /\ bracket'.status # "NONE"
        /\ bracket'.status = "CANCELLED" => bracket.status = "CANCELLED"
    BY <1>1 DEF BracketInv, BracketTyped, BracketRecord
  <1>3. DOMAIN fixture' = DOMAIN fixture /\ fixture' \in [DOMAIN fixture -> FixtureRecord]
    BY DEF Moved
  <1>4. Wiring(fixture') = Wiring(fixture)  BY <1>3 DEF Wiring, Moved
  <1>5. Consistent(fixture')
    <2>1. \A g \in DOMAIN fixture, c \in Colours : g = f => fixture[g].src[c] # f
      BY <1>1, NothingFeedsItself
    <2>2. fixture \in [DOMAIN fixture -> FixtureRecord] /\ Consistent(fixture)
      BY DEF BracketInv, BracketTyped
    <2> QED  BY <2>1, <2>2, MovedIsConsistent
  <1>6. Crowned(fixture', bracket')
    <2> SUFFICES ASSUME NEW g \in DOMAIN fixture, g[1] = bracket.rounds
                 PROVE  /\ bracket'.champion = fixture'[g].winner
                        /\ bracket'.status \in {"ACTIVE", "COMPLETED"} =>
                               (bracket'.status = "COMPLETED" <=> bracket'.champion # Nobody)
      BY <1>2, <1>3 DEF Crowned
    <2>1. /\ bracket.champion = fixture[g].winner
          /\ bracket.status \in {"ACTIVE", "COMPLETED"} =>
                 (bracket.status = "COMPLETED" <=> bracket.champion # Nobody)
      BY DEF BracketInv, Crowned
    <2>2. fixture'[f].winner = w /\ (g # f => fixture'[g].winner = fixture[g].winner)
      BY DEF Moved
    <2>3. CASE bracket' = bracket /\ (f \notin Final \/ w = fixture[f].winner)
      <3>1. f \notin Final => g # f  BY DEF Final
      <3> QED  BY <2>1, <2>2, <2>3, <3>1
    <2>4. CASE ~(bracket' = bracket /\ (f \notin Final \/ w = fixture[f].winner))
      <3>1. g = f
        <4>1. DOMAIN Wiring(fixture) = DOMAIN fixture  BY DEF Wiring
        <4>2. PICK last : {x \in DOMAIN fixture : x[1] = bracket.rounds} = {last}
          BY <1>1, <4>1 DEF SingleElimination
        <4> QED  BY <2>4, <4>2 DEF Final
      <3>2. w \in Athletes => w # Nobody  BY NamesAssumption
      <3>3. bracket'.champion = w
             /\ \/ w # Nobody /\ bracket'.status = "COMPLETED"
                \/ w = Nobody /\ bracket'.status = "ACTIVE"
        BY <2>4, <3>2 DEF BracketInv, BracketTyped, BracketRecord
      <3> QED  BY <2>2, <3>1, <3>3
    <2> QED  BY <2>1, <2>2, <2>3, <2>4
  <1>7. EntrantsAreTheRoster'
    <2> SUFFICES ASSUME Current', ~bracket'.cancelled PROVE Entrants' = roster /\ offered
      BY DEF EntrantsAreTheRoster
    <2>1. bracket.status \in {"ACTIVE", "COMPLETED"}
      BY <1>1, <1>2 DEF BracketInv, BracketTyped, BracketRecord
    <2>2. Entrants = roster /\ offered  BY <1>2, <2>1 DEF BracketInv, EntrantsAreTheRoster, Current
    <2>3. Entrants' = Entrants  BY <1>3 DEF Entrants, Moved
    <2> QED  BY <2>2, <2>3
  <1>8. BracketTyped'  BY <1>2, <1>3 DEF BracketTyped, BracketInv
  <1> QED  BY <1>1, <1>2, <1>4, <1>5, <1>6, <1>7, <1>8 DEF BracketInv

-----------------------------------------------------------------------------
(* The operations on the fixtures are such steps.                           *)

\* Of a record of a fixture, what another one with the same fields may change.
SameBut(new, old, winner, by, slot) ==
    /\ new \in FixtureRecord
    /\ new.src = old.src /\ new.match = old.match
    /\ new.winner = winner /\ new.by = by /\ new.slot = slot

LEMMA AdvanceMoves ==
    ASSUME NEW D, NEW fx \in [D -> FixtureRecord], NEW f \in D, NEW w \in Athletes, NEW by \in Bys,
           NEW A, A = Advance(fx, f, w, by), NEW g \in D
    PROVE  /\ DOMAIN A = D
           /\ SameBut(A[g], fx[g], IF g = f THEN w ELSE fx[g].winner,
                      IF g = f THEN by ELSE fx[g].by,
                      IF g = f THEN fx[g].slot
                      ELSE [c \in Colours |-> IF fx[g].src[c] = f THEN w ELSE fx[g].slot[c]])
  <1>1. DOMAIN A = D  BY DEF Advance
  <1>2. fx[g] \in FixtureRecord  OBVIOUS
  <1>3. CASE g = f
    <2>1. A[g] = [fx[f] EXCEPT !.winner = w, !.by = by, !.status = "COMPLETED"]
      BY <1>3 DEF Advance
    <2> QED  BY <1>1, <1>2, <1>3, <2>1 DEF SameBut, FixtureRecord, Bys
  <1>4. CASE g # f
    <2> DEFINE slot == [c \in Colours |-> IF fx[g].src[c] = f THEN w ELSE fx[g].slot[c]]
    <2>1. slot \in Slot  BY <1>2 DEF FixtureRecord, Slot
    <2>2. PICK u \in {"READY", fx[g].status} :
              A[g] = [fx[g] EXCEPT !.slot = slot, !.status = u]
      BY <1>4 DEF Advance
    <2> HIDE DEF slot
    <2>3. SameBut(A[g], fx[g], fx[g].winner, fx[g].by, slot)
      BY <1>2, <2>1, <2>2 DEF SameBut, FixtureRecord
    <2> QED  BY <1>1, <1>4, <2>3 DEF slot
  <1> QED  BY <1>3, <1>4

LEMMA RetractedMoves ==
    ASSUME NEW D, NEW fx \in [D -> FixtureRecord], NEW f \in D,
           NEW A, A = Retracted(fx, f), NEW g \in D
    PROVE  /\ DOMAIN A = D
           /\ SameBut(A[g], fx[g], IF g = f THEN Nobody ELSE fx[g].winner,
                      IF g = f THEN "NOBODY" ELSE fx[g].by,
                      IF g = f THEN fx[g].slot
                      ELSE [c \in Colours |-> IF fx[g].src[c] = f THEN Nobody ELSE fx[g].slot[c]])
  <1>1. DOMAIN A = D  BY DEF Retracted
  <1>2. fx[g] \in FixtureRecord  OBVIOUS
  <1>3. CASE g = f
    <2>1. A[g] = [fx[f] EXCEPT !.winner = Nobody, !.by = "NOBODY", !.status = "MATCH_PREPARED"]
      BY <1>3 DEF Retracted
    <2> QED  BY <1>1, <1>2, <1>3, <2>1 DEF SameBut, FixtureRecord
  <1>4. CASE g # f
    <2> DEFINE slot == [c \in Colours |-> IF fx[g].src[c] = f THEN Nobody ELSE fx[g].slot[c]]
    <2>1. slot \in Slot  BY <1>2 DEF FixtureRecord, Slot
    <2>2. PICK u \in {"PENDING_PARTICIPANTS", fx[g].status} :
              A[g] = [fx[g] EXCEPT !.slot = slot, !.status = u]
      BY <1>4 DEF Retracted
    <2> HIDE DEF slot
    <2>3. SameBut(A[g], fx[g], fx[g].winner, fx[g].by, slot)
      BY <1>2, <2>1, <2>2 DEF SameBut, FixtureRecord
    <2> QED  BY <1>1, <1>4, <2>3 DEF slot
  <1> QED  BY <1>3, <1>4

\* A match whose row changed its state, nothing else of the fixtures.
Rematched(old, new, f, m) ==
    /\ new \in [DOMAIN old -> FixtureRecord]
    /\ \A g \in DOMAIN old : g # f => new[g] = old[g]
    /\ new[f].src = old[f].src /\ new[f].slot = old[f].slot
    /\ new[f].winner = old[f].winner /\ new[f].by = old[f].by
    /\ new[f].match.state = m /\ new[f].match.athlete = old[f].match.athlete

LEMMA FinishedRematches ==
    ASSUME BracketTyped, NEW f \in DOMAIN fixture, NEW totals \in Results
    PROVE  Rematched(fixture, Finished(f, totals), f, "FINISHED")
  <1> DEFINE r == fixture[f]
             n == [r EXCEPT !.match.state = "FINISHED", !.match.totals = totals]
  <1>1. Finished(f, totals) = [fixture EXCEPT ![f] = n]  BY DEF Finished
  <1>2. r \in FixtureRecord  BY DEF BracketTyped
  <1>3. n = [r EXCEPT !.match = [r.match EXCEPT !.state = "FINISHED", !.totals = totals]]
    BY <1>2 DEF FixtureRecord
  <1> HIDE DEF r, n
  <1>4. n \in FixtureRecord /\ n.src = r.src /\ n.slot = r.slot /\ n.winner = r.winner /\ n.by = r.by
         /\ n.match.state = "FINISHED" /\ n.match.athlete = r.match.athlete
    BY <1>2, <1>3 DEF FixtureRecord
  <1> QED  BY <1>1, <1>4 DEF Rematched, BracketTyped, r

LEMMA ReopenedRematches ==
    ASSUME BracketTyped, NEW f \in DOMAIN fixture
    PROVE  Rematched(fixture, [fixture EXCEPT ![f].match.state = "RESET"], f, "RESET")
  <1> DEFINE r == fixture[f]
             n == [r EXCEPT !.match.state = "RESET"]
  <1>1. [fixture EXCEPT ![f].match.state = "RESET"] = [fixture EXCEPT ![f] = n]  OBVIOUS
  <1>2. r \in FixtureRecord  BY DEF BracketTyped
  <1>3. n = [r EXCEPT !.match = [r.match EXCEPT !.state = "RESET"]]
    BY <1>2 DEF FixtureRecord
  <1> HIDE DEF r, n
  <1>4. n \in FixtureRecord /\ n.src = r.src /\ n.slot = r.slot /\ n.winner = r.winner /\ n.by = r.by
         /\ n.match.state = "RESET" /\ n.match.athlete = r.match.athlete
    BY <1>2, <1>3 DEF FixtureRecord
  <1> QED  BY <1>1, <1>4 DEF Rematched, BracketTyped, r

LEMMA RematchedIsMoved ==
    ASSUME BracketInv, NEW f \in DOMAIN fixture, NEW new, NEW m, Rematched(fixture, new, f, m)
    PROVE  Moved(fixture, new, f, fixture[f].winner, fixture[f].by, m)
  <1>1. ASSUME NEW g \in DOMAIN fixture, NEW c \in Colours
        PROVE  new[g].slot[c] = IF fixture[g].src[c] = f THEN fixture[f].winner
                                ELSE fixture[g].slot[c]
    <2>1. new[g].slot = fixture[g].slot  BY DEF Rematched
    <2>2. fixture[g].src[c] = f => fixture[g].slot[c] = fixture[f].winner
      BY DEF BracketInv, Consistent
    <2> QED  BY <2>1, <2>2
  <1> QED  BY <1>1 DEF Rematched, Moved

\* A decision and a retraction, after the row of the match has been written.
LEMMA RedecidedIsMoved ==
    ASSUME BracketInv, NEW f \in DOMAIN fixture, NEW fx, NEW m, Rematched(fixture, fx, f, m),
           NEW w, NEW by, NEW A, DOMAIN A = DOMAIN fixture,
           \A g \in DOMAIN fixture :
               SameBut(A[g], fx[g], IF g = f THEN w ELSE fx[g].winner,
                       IF g = f THEN by ELSE fx[g].by,
                       IF g = f THEN fx[g].slot
                       ELSE [c \in Colours |-> IF fx[g].src[c] = f THEN w ELSE fx[g].slot[c]]),
           \E D, B : A = [g \in D |-> B[g]]
    PROVE  /\ Moved(fixture, A, f, w, by, m)
           /\ A[f].match.athlete = fixture[f].match.athlete
  <1>1. A \in [DOMAIN fixture -> FixtureRecord]  BY DEF SameBut
  <1>2. ASSUME NEW g \in DOMAIN fixture
        PROVE  /\ A[g].src = fixture[g].src
               /\ g # f => /\ A[g].winner = fixture[g].winner /\ A[g].by = fixture[g].by
                           /\ A[g].match = fixture[g].match
    BY DEF SameBut, Rematched
  <1>3. ASSUME NEW g \in DOMAIN fixture, NEW c \in Colours
        PROVE  A[g].slot[c] = IF fixture[g].src[c] = f THEN w ELSE fixture[g].slot[c]
    <2>1. CASE g = f
      <3>1. bracket.status # "NONE" /\ fixture[f].src[c] # f
        BY NothingFeedsItself DEF BracketInv
      <3> QED  BY <2>1, <3>1 DEF SameBut, Rematched
    <2>2. CASE g # f
      <3>1. fx[g] = fixture[g]  BY <2>2 DEF Rematched
      <3>2. A[g].slot = [d \in Colours |-> IF fx[g].src[d] = f THEN w ELSE fx[g].slot[d]]
        BY <2>2 DEF SameBut
      <3> QED  BY <3>1, <3>2
    <2> QED  BY <2>1, <2>2
  <1>4. A[f].winner = w /\ A[f].by = by /\ A[f].match = fx[f].match  BY DEF SameBut
  <1>5. A[f].match.state = m /\ A[f].match.athlete = fixture[f].match.athlete
    BY <1>4 DEF Rematched
  <1> QED  BY <1>1, <1>2, <1>3, <1>4, <1>5 DEF Moved

LEMMA AdvanceIsMoved ==
    ASSUME BracketInv, NEW f \in DOMAIN fixture, NEW fx, NEW m, Rematched(fixture, fx, f, m),
           NEW w \in Athletes, NEW by \in Bys
    PROVE  /\ Moved(fixture, Advance(fx, f, w, by), f, w, by, m)
           /\ Advance(fx, f, w, by)[f].match.athlete = fixture[f].match.athlete
  <1> DEFINE A == Advance(fx, f, w, by)
  <1>1. fx \in [DOMAIN fixture -> FixtureRecord]  BY DEF Rematched
  <1>2. \E D, B : A = [g \in D |-> B[g]]
    <2>1. A = [g \in DOMAIN A |-> A[g]]  BY DEF Advance
    <2> QED  BY <2>1
  <1>3. DOMAIN A = DOMAIN fixture  BY <1>1 DEF Advance
  <1>4. \A g \in DOMAIN fixture :
            SameBut(A[g], fx[g], IF g = f THEN w ELSE fx[g].winner,
                    IF g = f THEN by ELSE fx[g].by,
                    IF g = f THEN fx[g].slot
                    ELSE [c \in Colours |-> IF fx[g].src[c] = f THEN w ELSE fx[g].slot[c]])
    BY <1>1, AdvanceMoves
  <1> HIDE DEF A
  <1>5. Moved(fixture, A, f, w, by, m) /\ A[f].match.athlete = fixture[f].match.athlete
    BY <1>2, <1>3, <1>4, RedecidedIsMoved
  <1> QED  BY <1>5 DEF A

LEMMA RetractedIsMoved ==
    ASSUME BracketInv, NEW f \in DOMAIN fixture, NEW fx, NEW m, Rematched(fixture, fx, f, m)
    PROVE  /\ Moved(fixture, Retracted(fx, f), f, Nobody, "NOBODY", m)
           /\ Retracted(fx, f)[f].match.athlete = fixture[f].match.athlete
  <1> DEFINE A == Retracted(fx, f)
  <1>1. fx \in [DOMAIN fixture -> FixtureRecord]  BY DEF Rematched
  <1>2. \E D, B : A = [g \in D |-> B[g]]
    <2>1. A = [g \in DOMAIN A |-> A[g]]  BY DEF Retracted
    <2> QED  BY <2>1
  <1>3. DOMAIN A = DOMAIN fixture  BY <1>1 DEF Retracted
  <1>4. \A g \in DOMAIN fixture :
            SameBut(A[g], fx[g], IF g = f THEN Nobody ELSE fx[g].winner,
                    IF g = f THEN "NOBODY" ELSE fx[g].by,
                    IF g = f THEN fx[g].slot
                    ELSE [c \in Colours |-> IF fx[g].src[c] = f THEN Nobody ELSE fx[g].slot[c]])
    BY <1>1, RetractedMoves
  <1> HIDE DEF A
  <1>5. Moved(fixture, A, f, Nobody, "NOBODY", m) /\ A[f].match.athlete = fixture[f].match.athlete
    BY <1>2, <1>3, <1>4, RedecidedIsMoved
  <1> QED  BY <1>5 DEF A

\* A fixture without a winner feeds no prepared match: a prepared match has both
\* of its athletes.
LEMMA UndecidedFeedsNoMatch ==
    ASSUME BracketInv, NEW f \in DOMAIN fixture, fixture[f].winner = Nobody,
           NEW g \in DOMAIN fixture, NEW c \in Colours, fixture[g].src[c] = f
    PROVE  fixture[g].match.state = "NONE"
  BY DEF BracketInv, Consistent, Filled

LEMMA ProcessFinishedKeepsInv ==
    ASSUME BracketInv, NEW f \in DOMAIN fixture, NEW totals \in Results, NEW result,
           fixture[f].match.state # "NONE",
           ProcessFinished(Finished(f, totals), f, result), UNCHANGED <<roster, offered>>
    PROVE  BracketInv'
  <1> DEFINE fx == Finished(f, totals)
  <1>1. BracketTyped /\ fixture[f] \in FixtureRecord  BY DEF BracketInv, BracketTyped
  <1>2. Rematched(fixture, fx, f, "FINISHED")  BY <1>1, FinishedRematches
  <1>3. fixture[f].match.athlete = fixture[f].slot /\ Filled(fixture[f].slot)
    BY DEF BracketInv, Consistent
  <1> HIDE DEF fx
  <1>4. ASSUME Rematched(fixture, fixture', f, "FINISHED"), UNCHANGED bracket PROVE BracketInv'
    <2>1. PICK w, by : w \in Athletes \cup {Nobody} /\ w = fixture[f].winner /\ by = fixture[f].by
      BY <1>1 DEF FixtureRecord
    <2>2. Moved(fixture, fixture', f, w, by, "FINISHED")
      BY <1>4, <2>1, RematchedIsMoved
    <2>3. fixture'[f].match.athlete = fixture[f].slot  BY <1>3, <1>4 DEF Rematched
    <2>4. \A g \in DOMAIN fixture, c \in Colours :
              fixture[g].src[c] = f =>
                  fixture[g].match.state = "NONE" \/ fixture[g].slot[c] = w
      BY <2>1 DEF BracketInv, Consistent
    <2>5. /\ by \in {"RULES", "ADMIN_TIEBREAK"} =>
                 \E c \in Colours : fixture[f].slot[c] = w
          /\ w = Nobody => by = "NOBODY"
      BY <2>1 DEF BracketInv, Consistent
    <2>6. bracket' = bracket /\ (f \notin Final \/ w = fixture[f].winner)  BY <1>4, <2>1
    <2>7. MayMove(f, w, by, "FINISHED")
      BY <1>3, <2>1, <2>2, <2>3, <2>4, <2>5, <2>6 DEF MayMove
    <2> QED  BY <2>7, MovedKeepsInv
  <1>5. CASE HasOutcome(f) /\ fixture' = fx /\ UNCHANGED bracket  BY <1>2, <1>4, <1>5
  <1>6. CASE /\ ~HasOutcome(f) /\ result = "TIE"
             /\ fixture' = [fx EXCEPT ![f].status = "AWAITING_WINNER"] /\ UNCHANGED bracket
    <2> DEFINE n == [fx[f] EXCEPT !.status = "AWAITING_WINNER"]
    <2>1. fx \in [DOMAIN fixture -> FixtureRecord] /\ fx[f] \in FixtureRecord
      BY <1>2 DEF Rematched
    <2>2. /\ n \in FixtureRecord /\ n.src = fx[f].src /\ n.slot = fx[f].slot
          /\ n.winner = fx[f].winner /\ n.by = fx[f].by /\ n.match = fx[f].match
      BY <2>1 DEF FixtureRecord
    <2>3. fixture' = [fx EXCEPT ![f] = n]  BY <1>6
    <2> HIDE DEF n
    <2>4. Rematched(fixture, fixture', f, "FINISHED")
      BY <1>2, <2>1, <2>2, <2>3 DEF Rematched
    <2> QED  BY <1>4, <1>6, <2>4
  <1>7. ASSUME ~HasOutcome(f), result \in Colours, NEW w, w = fx[f].match.athlete[result],
               fixture' = Advance(fx, f, w, "RULES"), Crown(f, w)
        PROVE  BracketInv'
    <2>1. w = fixture[f].slot[result] /\ w \in Athletes
      <3>1. w = fixture[f].slot[result]  BY <1>2, <1>3, <1>7 DEF Rematched
      <3>2. fixture[f].slot[result] \in Athletes \cup {Nobody}
        BY <1>1, <1>7 DEF FixtureRecord, Slot
      <3> QED  BY <1>3, <1>7, <3>1, <3>2 DEF Filled
    <2>2. Moved(fixture, fixture', f, w, "RULES", "FINISHED")
           /\ fixture'[f].match.athlete = fixture[f].slot
      BY <1>2, <1>3, <1>7, <2>1, AdvanceIsMoved DEF Bys
    <2>3. \A g \in DOMAIN fixture, c \in Colours :
              fixture[g].src[c] = f => fixture[g].match.state = "NONE"
      BY <1>7, UndecidedFeedsNoMatch DEF HasOutcome
    <2>4. w # Nobody /\ w \in Athletes \cup {Nobody}  BY <2>1, NamesAssumption
    <2>5. \/ bracket' = bracket /\ (f \notin Final \/ w = fixture[f].winner)
          \/ /\ f \in Final /\ w \in Athletes
             /\ bracket' = [bracket EXCEPT !.status = "COMPLETED", !.champion = w]
      BY <1>7, <2>1 DEF Crown
    <2>6. \E c \in Colours : fixture[f].slot[c] = w  BY <1>7, <2>1
    <2>7. MayMove(f, w, "RULES", "FINISHED")
      BY <1>3, <2>2, <2>3, <2>4, <2>5, <2>6 DEF MayMove
    <2> QED  BY <2>7, MovedKeepsInv
  <1> QED  BY <1>5, <1>6, <1>7 DEF ProcessFinished, fx

-----------------------------------------------------------------------------
(* Every action keeps the invariant.                                        *)

LEMMA PrepareMatchKeepsInv ==
    ASSUME BracketInv, NEW f \in DOMAIN fixture, NEW codes \in BOOLEAN, PrepareMatch(f, codes)
    PROVE  BracketInv'
  <1> DEFINE r == fixture[f]
             match == [state |-> "OPEN", athlete |-> r.slot, codes |-> codes, totals |-> "TIE"]
             n == [r EXCEPT !.match = match, !.status = "MATCH_PREPARED"]
  <1>1. r \in FixtureRecord /\ fixture \in [DOMAIN fixture -> FixtureRecord]
    BY DEF BracketInv, BracketTyped
  <1>2. fixture' = [fixture EXCEPT ![f] = n]  BY DEF PrepareMatch
  <1>3. r.match.state = "NONE" /\ Filled(r.slot)  BY DEF PrepareMatch, Prepared
  <1>4. match \in [state : {"NONE", "OPEN", "FINISHED", "RESET"}, athlete : Slot,
                   codes : BOOLEAN, totals : Results]
    BY <1>1 DEF FixtureRecord, Results
  <1> HIDE DEF match
  <1>5. n \in FixtureRecord /\ n.src = r.src /\ n.slot = r.slot /\ n.winner = r.winner /\ n.by = r.by
         /\ n.match = match
    BY <1>1, <1>4 DEF FixtureRecord
  <1> HIDE DEF n
  <1>6. fixture' \in [DOMAIN fixture -> FixtureRecord] /\ fixture'[f] = n
         /\ \A g \in DOMAIN fixture : g # f => fixture'[g] = fixture[g]
    BY <1>1, <1>2, <1>5
  <1>7. PICK w, by : w \in Athletes \cup {Nobody} /\ w = r.winner /\ by = r.by
    BY <1>1 DEF FixtureRecord
  <1>8. \A g \in DOMAIN fixture, c \in Colours :
            fixture[g].src[c] = f => fixture[g].slot[c] = w
    BY <1>7 DEF BracketInv, Consistent
  <1>9. Moved(fixture, fixture', f, w, by, "OPEN")
    <2>1. ASSUME NEW g \in DOMAIN fixture
          PROVE  fixture'[g].src = fixture[g].src /\ fixture'[g].slot = fixture[g].slot
      BY <1>5, <1>6
    <2>2. fixture'[f].winner = w /\ fixture'[f].by = by /\ fixture'[f].match.state = "OPEN"
      BY <1>5, <1>6, <1>7 DEF match
    <2> QED  BY <1>6, <1>8, <2>1, <2>2 DEF Moved
  <1>10. by \notin {"RULES", "ADMIN_TIEBREAK"} /\ (w = Nobody => by = "NOBODY")
    BY <1>3, <1>7 DEF BracketInv, Consistent
  <1>11. fixture'[f].match.athlete = fixture[f].slot  BY <1>5, <1>6 DEF match
  <1>12. bracket' = bracket /\ UNCHANGED <<roster, offered>>  BY DEF PrepareMatch, rosterVars
  <1>13. MayMove(f, w, by, "OPEN")
    BY <1>3, <1>7, <1>8, <1>9, <1>10, <1>11, <1>12 DEF MayMove
  <1> QED  BY <1>13, MovedKeepsInv

LEMMA FinishMatchKeepsInv ==
    ASSUME BracketInv, NEW f \in DOMAIN fixture, NEW result \in Results, NEW totals \in Results,
           FinishMatch(f, result, totals)
    PROVE  BracketInv'
  <1>1. fixture[f].match.state # "NONE" /\ ProcessFinished(Finished(f, totals), f, result)
         /\ UNCHANGED <<roster, offered>>
    BY DEF FinishMatch, rosterVars
  <1> QED  BY <1>1, ProcessFinishedKeepsInv

LEMMA UndoCancellationKeepsInv ==
    ASSUME BracketInv, NEW f \in DOMAIN fixture, UndoCancellation(f) PROVE BracketInv'
  <1>1. PICK totals : totals = fixture[f].match.totals  OBVIOUS
  <1>2. totals \in Results  BY <1>1 DEF BracketInv, BracketTyped, FixtureRecord
  <1>3. fixture[f].match.state # "NONE" /\ ProcessFinished(Finished(f, totals), f, totals)
         /\ UNCHANGED <<roster, offered>>
    BY <1>1 DEF UndoCancellation, rosterVars
  <1> QED  BY <1>2, <1>3, ProcessFinishedKeepsInv

LEMMA CancelResultKeepsInv ==
    ASSUME BracketInv, NEW f \in DOMAIN fixture, CancelResult(f) PROVE BracketInv'
  <1> DEFINE reopened == [fixture EXCEPT ![f].match.state = "RESET"]
  <1>1. Rematched(fixture, reopened, f, "RESET")  BY ReopenedRematches DEF BracketInv
  <1>2. fixture[f].match.athlete = fixture[f].slot /\ Filled(fixture[f].slot)
    BY DEF CancelResult, BracketInv, Consistent
  <1>3. /\ Retractable(f) /\ UNCHANGED <<roster, offered>>
        /\ fixture' = IF HasOutcome(f) THEN Retracted(reopened, f) ELSE reopened
        /\ bracket' = IF HasOutcome(f) /\ f \in Final
                      THEN [bracket EXCEPT !.status = "ACTIVE", !.champion = Nobody] ELSE bracket
    BY DEF CancelResult, rosterVars
  <1> HIDE DEF reopened
  <1>4. Nobody \in Athletes \cup {Nobody}  OBVIOUS
  <1>5. CASE HasOutcome(f)
    <2>1. Moved(fixture, fixture', f, Nobody, "NOBODY", "RESET")
           /\ fixture'[f].match.athlete = fixture[f].match.athlete
      BY <1>1, <1>3, <1>5, RetractedIsMoved
    <2>2. \A g \in DOMAIN fixture, c \in Colours :
              fixture[g].src[c] = f => fixture[g].match.state = "NONE"
      BY <1>3, <1>5 DEF Retractable, Fed, Prepared
    <2>3. MayMove(f, Nobody, "NOBODY", "RESET")
      BY <1>2, <1>3, <1>4, <1>5, <2>1, <2>2 DEF MayMove
    <2> QED  BY <2>3, MovedKeepsInv
  <1>6. CASE ~HasOutcome(f)
    <2>1. fixture[f].winner = Nobody /\ fixture[f].by = "NOBODY"
      BY <1>6 DEF HasOutcome, BracketInv, Consistent
    <2>2. fixture' = reopened /\ bracket' = bracket  BY <1>3, <1>6
    <2>3. Moved(fixture, fixture', f, Nobody, "NOBODY", "RESET")
      BY <1>1, <2>1, <2>2, RematchedIsMoved
    <2>4. fixture'[f].match.athlete = fixture[f].slot  BY <1>1, <1>2, <2>2 DEF Rematched
    <2>5. \A g \in DOMAIN fixture, c \in Colours :
              fixture[g].src[c] = f => fixture[g].match.state = "NONE"
      BY <2>1, UndecidedFeedsNoMatch
    <2>6. MayMove(f, Nobody, "NOBODY", "RESET")
      BY <1>2, <1>3, <1>4, <2>1, <2>2, <2>3, <2>4, <2>5 DEF MayMove
    <2> QED  BY <2>6, MovedKeepsInv
  <1> QED  BY <1>5, <1>6

LEMMA ManuallyDecideKeepsInv ==
    ASSUME BracketInv, NEW f \in DOMAIN fixture, NEW w \in Athletes,
           NEW type \in {"ADMIN_TIEBREAK", "WITHDRAWAL_OR_INJURY"}, ManuallyDecide(f, w, type)
    PROVE  BracketInv'
  <1>1. UNCHANGED <<roster, offered>> /\ Filled(fixture[f].slot)
         /\ \E c \in Colours : fixture[f].slot[c] = w
    BY DEF ManuallyDecide, rosterVars
  <1>2. fixture[f] \in FixtureRecord /\ fixture \in [DOMAIN fixture -> FixtureRecord]
    BY DEF BracketInv, BracketTyped
  <1>3. CASE UNCHANGED <<bracket, fixture>>
    BY <1>1, <1>3 DEF BracketInv, BracketTyped, EntrantsAreTheRoster, Entrants, Current
  <1>4. CASE /\ fixture[f].winner = Nobody
             /\ fixture' = Advance(fixture, f, w, type) /\ Crown(f, w)
    <2>1. PICK m : m = fixture[f].match.state  OBVIOUS
    <2>2. Rematched(fixture, fixture, f, m)  BY <1>2, <2>1 DEF Rematched
    <2>3. Moved(fixture, fixture', f, w, type, m)
           /\ fixture'[f].match.athlete = fixture[f].match.athlete
      BY <1>4, <2>2, AdvanceIsMoved DEF Bys
    <2>4. \A g \in DOMAIN fixture, c \in Colours :
              fixture[g].src[c] = f => fixture[g].match.state = "NONE"
      BY <1>4, UndecidedFeedsNoMatch
    <2>5. m # "NONE" => fixture'[f].match.athlete = fixture[f].slot
      BY <2>1, <2>3 DEF BracketInv, Consistent
    <2>6. type = "ADMIN_TIEBREAK" => m = "FINISHED"
      BY <2>1 DEF ManuallyDecide, Decidable
    <2>7. w # Nobody /\ w \in Athletes \cup {Nobody}  BY NamesAssumption
    <2>8. \/ bracket' = bracket /\ f \notin Final
          \/ f \in Final /\ bracket' = [bracket EXCEPT !.status = "COMPLETED", !.champion = w]
      BY <1>4 DEF Crown
    <2>9. MayMove(f, w, type, m)
      BY <1>1, <2>3, <2>4, <2>5, <2>6, <2>7, <2>8 DEF MayMove
    <2> QED  BY <2>9, MovedKeepsInv
  <1> QED  BY <1>3, <1>4 DEF ManuallyDecide


\* The confirmation: the graph of the draw, with nothing decided.
LEMMA ConfirmBracketKeepsInv ==
    ASSUME BracketInv, NEW t, ConfirmBracket(t) PROVE BracketInv'
  <1> DEFINE draw == t.draw
             K == RoundCount(Cardinality(DOMAIN draw))
             W == Graph(draw)
  <1>1. roster \subseteq Athletes  BY DEF BracketInv, BracketTyped
  <1>2. offered /\ ValidPlacements(draw)  BY DEF ConfirmBracket, Confirmable
  <1>3. Drawn(draw, roster, K)  BY <1>1, <1>2, ValidIsDrawn
  <1>4. SingleElimination(W, roster, K) /\ K \in Nat  BY <1>3, GraphOfDraw DEF Drawn
  <1>5. /\ fixture' = [f \in DOMAIN W |-> NewFixture(W[f])]
        /\ bracket' = [status |-> "ACTIVE", cancelled |-> FALSE, champion |-> Nobody, rounds |-> K]
        /\ roster' = roster /\ offered' = offered
    BY DEF ConfirmBracket, rosterVars
  <1>6. ASSUME NEW f \in DOMAIN W PROVE W[f] \in [Colours -> Athletes \cup (Nat \X Nat)]
    <2>1. \A c \in Colours : W[f][c] \in Athletes \cup (Nat \X Nat)
      BY <1>4 DEF SingleElimination
    <2>2. W[f] = [c \in Colours |-> W[f][c]]  BY DEF Graph, Sources
    <2> HIDE DEF W
    <2>3. PICK F : F = W[f]  OBVIOUS
    <2> QED  BY <2>1, <2>2, <2>3
  <1> HIDE DEF W, K, draw
  <1>7. ASSUME NEW f \in DOMAIN W
        PROVE  /\ fixture'[f] \in FixtureRecord /\ fixture'[f].src = W[f]
               /\ fixture'[f].winner = Nobody /\ fixture'[f].by = "NOBODY"
               /\ fixture'[f].match.state = "NONE"
               /\ \A c \in Colours :
                     fixture'[f].slot[c] = IF W[f][c] \in Athletes THEN W[f][c] ELSE Nobody
    <2> DEFINE slot == [c \in Colours |-> IF W[f][c] \in Athletes THEN W[f][c] ELSE Nobody]
    <2>1. slot \in Slot  BY DEF Slot
    <2>2. NoMatch \in [state : {"NONE", "OPEN", "FINISHED", "RESET"}, athlete : Slot,
                       codes : BOOLEAN, totals : Results] /\ NoMatch.state = "NONE"
      BY DEF NoMatch, Slot, Results
    <2>3. PICK u \in {"READY", "PENDING_PARTICIPANTS"} :
              fixture'[f] = [src |-> W[f], slot |-> slot, winner |-> Nobody, by |-> "NOBODY",
                             match |-> NoMatch, status |-> u]
      BY <1>5 DEF NewFixture
    <2>4. \A c \in Colours : slot[c] = IF W[f][c] \in Athletes THEN W[f][c] ELSE Nobody
      OBVIOUS
    <2> HIDE DEF slot
    <2> QED  BY <1>6, <2>1, <2>2, <2>3, <2>4 DEF FixtureRecord
  <1>8. DOMAIN fixture' = DOMAIN W /\ fixture' \in [DOMAIN W -> FixtureRecord]
    BY <1>5, <1>7
  <1>9. DOMAIN W \subseteq Nat \X Nat  BY <1>4 DEF SingleElimination
  <1>10. BracketTyped'
    BY <1>1, <1>4, <1>5, <1>8, <1>9 DEF BracketTyped, BracketRecord
  <1>11. Wiring(fixture') = W
    <2>1. W = [f \in DOMAIN W |-> W[f]]  BY DEF W, Graph
    <2> QED  BY <1>7, <1>8, <2>1 DEF Wiring
  <1>12. EntrantsOf(W) = roster
    <2>1. \A x \in DOMAIN W : x \notin Athletes  BY <1>9, NamesAssumption
    <2> QED  BY <1>1, <1>4, <2>1 DEF EntrantsOf, SingleElimination
  <1>13. Consistent(fixture')
    <2>1. \A f \in DOMAIN W : f \notin Athletes  BY <1>9, NamesAssumption
    <2> QED  BY <1>7, <1>8, <2>1 DEF Consistent
  <1>14. Crowned(fixture', bracket')  BY <1>5, <1>7, <1>8 DEF Crowned
  <1>15. Entrants' = roster
    BY <1>7, <1>8, <1>12 DEF Entrants, EntrantsOf
  <1>16. bracket'.status = "ACTIVE" /\ bracket'.rounds = K  BY <1>5
  <1> QED  BY <1>2, <1>4, <1>5, <1>10, <1>11, <1>12, <1>13, <1>14, <1>15, <1>16
         DEF BracketInv, EntrantsAreTheRoster

\* Before the first bracket, and after a forced cancellation.
NoBracket ==
    /\ roster \subseteq Athletes /\ fixture = <<>>
    /\ bracket = [status |-> "NONE", cancelled |-> FALSE, rounds |-> 0, champion |-> Nobody]

LEMMA NoBracketIsFine == NoBracket => BracketInv
  <1> SUFFICES ASSUME NoBracket PROVE BracketInv  OBVIOUS
  <1> USE DEF NoBracket
  <1>1. DOMAIN fixture = {}  OBVIOUS
  <1>2. fixture \in [DOMAIN fixture -> FixtureRecord]  BY <1>1
  <1>3. bracket \in BracketRecord /\ bracket.status = "NONE"  BY DEF BracketRecord
  <1> QED  BY <1>1, <1>2, <1>3
         DEF BracketInv, BracketTyped, Consistent, Crowned, EntrantsAreTheRoster, Current

LEMMA CancelBracketKeepsInv ==
    ASSUME BracketInv, NEW force \in BOOLEAN, CancelBracket(force) PROVE BracketInv'
  <1>1. roster \subseteq Athletes /\ UNCHANGED <<roster, offered>>
    BY DEF BracketInv, BracketTyped, CancelBracket, rosterVars
  <1>2. CASE /\ bracket' = [status |-> "NONE", cancelled |-> FALSE, rounds |-> 0, champion |-> Nobody]
             /\ fixture' = <<>>
    <2>1. NoBracket'  BY <1>1, <1>2 DEF NoBracket
    <2> QED  BY <2>1, NoBracketIsFine, PTL
  <1>3. CASE /\ bracket' = [bracket EXCEPT !.status = "CANCELLED", !.cancelled = TRUE]
             /\ UNCHANGED fixture
    <2>1. /\ bracket' \in BracketRecord /\ bracket'.status = "CANCELLED" /\ bracket'.cancelled
          /\ bracket'.rounds = bracket.rounds /\ bracket'.champion = bracket.champion
      BY <1>3 DEF BracketInv, BracketTyped, BracketRecord
    <2>2. bracket.status # "NONE"  BY DEF CancelBracket, Current
    <2>3. Crowned(fixture', bracket')  BY <1>3, <2>1 DEF BracketInv, Crowned
    <2>4. EntrantsAreTheRoster'  BY <2>1 DEF EntrantsAreTheRoster
    <2>5. BracketTyped'  BY <1>1, <1>3, <2>1 DEF BracketInv, BracketTyped
    <2> QED  BY <1>3, <2>1, <2>2, <2>3, <2>4, <2>5 DEF BracketInv
  <1> QED  BY <1>2, <1>3 DEF CancelBracket

\* A step that leaves the bracket alone has only the roster to answer for.
LEMMA RosterKeepsInv ==
    ASSUME BracketInv, UNCHANGED <<bracket, fixture>>, roster' \subseteq Athletes,
           Current /\ ~bracket.cancelled => roster' = roster /\ offered' = offered
    PROVE  BracketInv'
  <1>1. EntrantsAreTheRoster'
    BY DEF BracketInv, EntrantsAreTheRoster, Current, Entrants
  <1>2. BracketTyped'  BY DEF BracketInv, BracketTyped
  <1> QED  BY <1>1, <1>2 DEF BracketInv

LEMMA RosterNextKeepsInv == ASSUME BracketInv, RosterNext PROVE BracketInv'
  <1>1. roster \subseteq Athletes /\ (Current /\ ~bracket.cancelled => Entrants = roster /\ offered)
    BY DEF BracketInv, BracketTyped, EntrantsAreTheRoster
  <1>2. ASSUME NEW a \in Athletes, NEW seed \in BOOLEAN, EnterAthlete(a, seed) PROVE BracketInv'
    <2>1. UNCHANGED <<bracket, fixture>> /\ ~Current /\ roster' = roster \cup {a}
      BY <1>2 DEF EnterAthlete, ClassTakesAthletes, Edited
    <2> QED  BY <1>1, <2>1, RosterKeepsInv
  <1>3. ASSUME NEW a \in Athletes, NEW seed \in BOOLEAN, EditAthlete(a, seed) PROVE BracketInv'
    <2>1. UNCHANGED <<bracket, fixture>> /\ roster' = roster /\ offered' = offered
      BY <1>3 DEF EditAthlete, Edited
    <2> QED  BY <1>1, <2>1, RosterKeepsInv
  <1>4. ASSUME NEW rows \in SUBSET Athletes, ImportAthletes(rows) PROVE BracketInv'
    <2>1. UNCHANGED <<bracket, fixture>> /\ ~Current /\ roster' = roster \cup Eligible(rows)
      BY <1>4 DEF ImportAthletes, ClassTakesAthletes, Edited
    <2>2. Eligible(rows) \subseteq Athletes  BY DEF Eligible
    <2> QED  BY <1>1, <2>1, <2>2, RosterKeepsInv
  <1>5. ASSUME NEW a \in Athletes, WithdrawAthlete(a) PROVE BracketInv'
    <2>1. /\ UNCHANGED <<bracket, fixture>> /\ roster' = roster \ {a} /\ a \in roster
          /\ ~(Current /\ a \in Entrants)
      BY <1>5 DEF WithdrawAthlete, Edited
    <2>2. ~(Current /\ ~bracket.cancelled)  BY <1>1, <2>1
    <2> QED  BY <1>1, <2>1, <2>2, RosterKeepsInv
  <1>6. CASE EditOrganization
    <2>1. UNCHANGED <<bracket, fixture>> /\ roster' = roster /\ offered' = offered
      BY <1>6 DEF EditOrganization, Edited
    <2> QED  BY <1>1, <2>1, RosterKeepsInv
  <1>7. CASE UpdateWeightClass
    <2>1. UNCHANGED <<bracket, fixture, roster>> /\ (offered => ~Current)
      BY <1>7 DEF UpdateWeightClass
    <2> QED  BY <1>1, <2>1, RosterKeepsInv
  <1>8. CASE ArchiveTournament
    <2>1. UNCHANGED <<bracket, fixture>> /\ roster' = roster /\ offered' = offered
      BY <1>8 DEF ArchiveTournament, rosterVars
    <2> QED  BY <1>1, <2>1, RosterKeepsInv
  <1> QED  BY <1>2, <1>3, <1>4, <1>5, <1>6, <1>7, <1>8 DEF RosterNext

LEMMA DrawNextKeepsInv == ASSUME BracketInv, DrawNext PROVE BracketInv'
  <1>1. UNCHANGED <<bracket, fixture>> /\ roster' = roster /\ offered' = offered
    BY DEF DrawNext, DrawSetup, Preview, SwapPreview, TokenExpires, rosterVars
  <1>2. roster \subseteq Athletes  BY DEF BracketInv, BracketTyped
  <1> QED  BY <1>1, <1>2, RosterKeepsInv

LEMMA BracketNextKeepsInv == ASSUME BracketInv, BracketNext PROVE BracketInv'
  BY ConfirmBracketKeepsInv, CancelBracketKeepsInv, PrepareMatchKeepsInv, FinishMatchKeepsInv,
     CancelResultKeepsInv, UndoCancellationKeepsInv, ManuallyDecideKeepsInv DEF BracketNext

LEMMA BracketInvHolds == Spec => []BracketInv
  <1>1. Init => BracketInv
    <2> SUFFICES ASSUME Init PROVE BracketInv  OBVIOUS
    <2>1. NoBracket  BY DEF Init, NoBracket
    <2> QED  BY <2>1, NoBracketIsFine
  <1>2. BracketInv /\ [Next]_vars => BracketInv'
    <2> SUFFICES ASSUME BracketInv, [Next]_vars PROVE BracketInv'  OBVIOUS
    <2>1. CASE UNCHANGED vars
      <3>1. UNCHANGED <<bracket, fixture>> /\ roster' = roster /\ offered' = offered
        BY <2>1 DEF vars
      <3>2. roster \subseteq Athletes  BY DEF BracketInv, BracketTyped
      <3> QED  BY <3>1, <3>2, RosterKeepsInv
    <2> QED  BY <2>1, RosterNextKeepsInv, DrawNextKeepsInv, BracketNextKeepsInv DEF Next
  <1> QED  BY <1>1, <1>2, PTL DEF Spec

-----------------------------------------------------------------------------
(* The theorems.                                                            *)

\* The confirmed graph is a single elimination for any number of athletes and any
\* valid placements: buildSingleEliminationBracket loses nobody through a bye, lets
\* nobody start twice, and leaves one fixture fewer than athletes, one of them last.
THEOREM BracketsAreSound == Spec => []GraphIsSound
  <1>1. BracketInv => GraphIsSound  BY EliminationIsSound DEF BracketInv
  <1> QED  BY <1>1, BracketInvHolds, PTL

\* While a bracket is current its entrants are the active roster of an active class,
\* whatever tokens were issued, swapped or outdated before it was confirmed.
THEOREM EntrantsStayTheRoster == Spec => []EntrantsAreTheRoster
  <1>1. BracketInv => EntrantsAreTheRoster  BY DEF BracketInv
  <1> QED  BY <1>1, BracketInvHolds, PTL

\* Through decisions, repeated decisions, retractions and their undo a slot shows the
\* winner of the fixture that feeds it, and the champion is the winner of the final.
THEOREM SlotsKeepFollowing == Spec => []SlotsFollowWinners
  <1>1. BracketInv => SlotsFollowWinners
    BY DEF BracketInv, Consistent, Crowned, SlotsFollowWinners, Fed, Final, Current
  <1> QED  BY <1>1, BracketInvHolds, PTL

\* No decision and no retraction changes the athletes of a prepared match: the two of
\* them are those of the slots of its fixture.
THEOREM MatchesStayFrozen == Spec => []MatchesAreFrozen
  <1>1. BracketInv => MatchesAreFrozen
    BY DEF BracketInv, Consistent, MatchesAreFrozen, Prepared
  <1> QED  BY <1>1, BracketInvHolds, PTL

\* Whoever won by the rules or by a tie-break stood in the fixture, and its match is
\* finished; no reset leaves such a winner behind.
THEOREM WinnersHaveFought == Spec => []WinnersFought
  <1>1. BracketInv => WinnersFought  BY DEF BracketInv, Consistent, WinnersFought
  <1> QED  BY <1>1, BracketInvHolds, PTL

=============================================================================
