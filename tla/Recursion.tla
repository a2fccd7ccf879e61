------------------------------- MODULE Recursion -------------------------------
(***************************************************************************)
(* Induction over natural numbers and sequences, and recursion over them.  *)
(* The property to be proved by induction is given as the set of what has  *)
(* it, so that the rules are facts about sets.                             *)
(***************************************************************************)
EXTENDS Integers, Selection, FiniteSetTheorems, SequenceTheorems, TLAPS

-----------------------------------------------------------------------------
(* Natural numbers                                                         *)

LEMMA LeastNumber ==
  ASSUME NEW T \in SUBSET Nat, T # {}
  PROVE  \E n \in T : \A m \in T : n <= m
<1> DEFINE R == StrictSubsetOrdering(Nat)
           Starts == {0..n : n \in T}
<1>1. IsWellFoundedOn(R, FiniteSubsetsOf(Nat))
  BY FS_StrictSubsetOrderingWellFounded
<1>2. Starts \subseteq FiniteSubsetsOf(Nat) /\ Starts # {}
  <2>1. \A n \in Nat : 0..n \in FiniteSubsetsOf(Nat)
    <3>1. \A n \in Nat : IsFiniteSet(0..n) /\ 0..n \subseteq Nat
      BY FS_Interval
    <3> QED BY <3>1 DEF FiniteSubsetsOf
  <2> QED BY <2>1
<1>3. PICK start \in Starts : \A other \in Starts : ~(<<other, start>> \in R)
  <2> HIDE DEF Starts, R
  <2> QED BY <1>1, <1>2, WFMin
<1>4. PICK n \in T : start = 0..n
  OBVIOUS
<1>5. ASSUME NEW m \in T
      PROVE  n <= m
  <2>1. ~(<<0..m, 0..n>> \in R)
    BY <1>3, <1>4
  <2>2. m < n => 0..m \subseteq 0..n /\ n \in 0..n /\ n \notin 0..m
    OBVIOUS
  <2> QED BY <2>1, <2>2 DEF StrictSubsetOrdering
<1> QED BY <1>5

\* Induction up to a number, the property given as the set of what has it.
LEMMA Induction ==
  ASSUME NEW n \in Nat, NEW T \in SUBSET (0..n), 0 \in T,
         \A k \in 1..n : k - 1 \in T => k \in T
  PROVE  T = 0..n
<1> DEFINE Others == (0..n) \ T
<1>1. SUFFICES ASSUME Others # {} PROVE FALSE
  OBVIOUS
<1>2. PICK k \in Others : \A m \in Others : k <= m
  <2> HIDE DEF Others
  <2>1. Others \in SUBSET Nat
    BY DEF Others
  <2> QED BY <1>1, <2>1, LeastNumber
<1>3. k \in 1..n /\ k - 1 \notin Others /\ k - 1 \in 0..n
  BY <1>2
<1> QED BY <1>2, <1>3

LEMMA GreatestNumber ==
  ASSUME NEW n \in Nat, NEW T \in SUBSET (0..n), T # {}
  PROVE  Max(T) \in T /\ \A m \in T : m <= Max(T)
<1> DEFINE Left == {n - m : m \in T}
<1>1. Left \in SUBSET Nat /\ Left # {}
  <2>1. \A m \in T : n - m \in Nat
    OBVIOUS
  <2> QED BY <2>1
<1>2. PICK left \in Left : \A m \in Left : left <= m
  <2> HIDE DEF Left
  <2> QED BY <1>1, LeastNumber
<1>3. PICK k \in T : left = n - k
  OBVIOUS
<1>4. \A m \in T : k >= m
  BY <1>2, <1>3
<1> QED BY <1>4 DEF Max

-----------------------------------------------------------------------------
(* Recursion                                                               *)

\* at[k] is what the first k steps make of base.
Steps(n, base, G, at) == at[0] = base /\ \A k \in 1..n : at[k] = G[k][at[k-1]]

\* A step for each number takes a value from a set to one of the same set.
LEMMA Iterates ==
  ASSUME NEW n \in Nat, NEW V, NEW base \in V, NEW G \in [1..n -> [V -> V]]
  PROVE  \E at \in [0..n -> V] : Steps(n, base, G, at)
<1> DEFINE Way(k, at) == at[0] = base /\ \A i \in 1..k : at[i] = G[i][at[i-1]]
           T == {k \in 0..n : \E at \in [0..k -> V] : Way(k, at)}
<1>1. 0 \in T
  <2> DEFINE at == [k \in 0..0 |-> base]
  <2>1. at \in [0..0 -> V] /\ at[0] = base /\ 1..0 = {} /\ 0 \in 0..n
    OBVIOUS
  <2> HIDE DEF at
  <2>2. Way(0, at)
    BY <2>1
  <2> HIDE DEF Way
  <2> QED BY <2>1, <2>2
<1>2. ASSUME NEW k \in 1..n, k - 1 \in T
      PROVE  k \in T
  <2>1. PICK at \in [0..k-1 -> V] : Way(k - 1, at)
    BY <1>2
  <2> DEFINE on == [i \in 0..k |-> IF i = k THEN G[k][at[k-1]] ELSE at[i]]
  <2>2. G[k][at[k-1]] \in V
    <3>1. k - 1 \in 0..k-1
      OBVIOUS
    <3>2. at[k-1] \in V /\ G[k] \in [V -> V]
      BY <2>1, <3>1
    <3> QED BY <3>2
  <2>3. \A i \in 0..k : i = k \/ i \in 0..k-1
    OBVIOUS
  <2>4. on \in [0..k -> V]
    BY <2>1, <2>2, <2>3
  <2>5. ASSUME NEW i \in 1..k
        PROVE  on[i] = G[i][on[i-1]]
    <3>1. i \in 0..k /\ i - 1 \in 0..k /\ i - 1 # k /\ (i # k => i \in 1..k-1)
      OBVIOUS
    <3>2. on[i-1] = at[i-1]
      BY <3>1
    <3>3. on[i] = IF i = k THEN G[k][at[k-1]] ELSE at[i]
      BY <3>1
    <3>4. i # k => at[i] = G[i][at[i-1]]
      BY <2>1, <3>1
    <3> HIDE DEF on
    <3> QED BY <3>2, <3>3, <3>4
  <2>6. on[0] = base
    <3>1. 0 \in 0..k /\ 0 # k
      OBVIOUS
    <3> QED BY <2>1, <3>1
  <2> HIDE DEF on
  <2>7. Way(k, on)
    BY <2>5, <2>6
  <2>8. k \in 0..n
    OBVIOUS
  <2> QED BY <2>4, <2>7, <2>8
<1>3. T \in SUBSET (0..n)
  OBVIOUS
<1>4. n \in T
  <2> HIDE DEF T
  <2>1. T = 0..n
    BY <1>1, <1>2, <1>3, Induction
  <2> QED BY <2>1
<1> QED BY <1>4 DEF Steps

Agree(n, f, g) == \A k \in 1..n : f[k] = g[k]

\* The same steps lead to the same.
LEMMA SameSteps ==
  ASSUME NEW n \in Nat, NEW base, NEW G, NEW H, Agree(n, G, H),
         NEW a, NEW b, Steps(n, base, G, a), Steps(n, base, H, b)
  PROVE  \A k \in 0..n : a[k] = b[k]
<1> DEFINE T == {k \in 0..n : a[k] = b[k]}
<1>1. 0 \in T
  BY DEF Steps
<1>2. ASSUME NEW k \in 1..n, k - 1 \in T
      PROVE  k \in T
  <2>1. a[k] = G[k][a[k-1]] /\ b[k] = H[k][b[k-1]] /\ G[k] = H[k] /\ a[k-1] = b[k-1]
    BY <1>2 DEF Steps, Agree
  <2> QED BY <2>1
<1>3. T \in SUBSET (0..n)
  OBVIOUS
<1>4. T = 0..n
  <2> HIDE DEF T
  <2> QED BY <1>1, <1>2, <1>3, Induction
<1> QED BY <1>4

-----------------------------------------------------------------------------
(* Sequences                                                               *)

LEMMA SequenceInduction ==
  ASSUME NEW X, NEW T \in SUBSET Seq(X), <<>> \in T,
         \A s \in T : \A x \in X : Append(s, x) \in T
  PROVE  T = Seq(X)
<1> SUFFICES ASSUME NEW s \in Seq(X)
             PROVE  s \in T
  OBVIOUS
<1> DEFINE n == Len(s)
           Part(k) == SubSeq(s, 1, k)
           U == {k \in 0..n : Part(k) \in T}
<1>0. n \in Nat /\ Part(n) = s
  BY SubSeqFull
<1>1. 0 \in U
  <2>1. Part(0) = <<>> /\ 0 \in 0..n
    BY <1>0, SubSeqEmpty
  <2> HIDE DEF Part
  <2> QED BY <2>1
<1>2. ASSUME NEW k \in 1..n, k - 1 \in U
      PROVE  k \in U
  <2>1. k \in 0..n /\ s[k] \in X /\ 1 \in 1..n /\ k \in 1..Len(s)
    BY <1>0
  <2>2. Part(k) = Part(k - 1) \o <<s[k]>>
    BY <2>1, SubSeqRecursiveSecond
  <2>3. Part(k - 1) \in T
    BY <1>2
  <2> HIDE DEF Part
  <2>4. Part(k) = Append(Part(k - 1), s[k])
    BY <2>1, <2>2, <2>3, AppendIsConcat
  <2> QED BY <2>1, <2>3, <2>4
<1>3. U \in SUBSET (0..n)
  OBVIOUS
<1>4. n \in U
  <2> HIDE DEF U
  <2>1. U = 0..n
    BY <1>0, <1>1, <1>2, <1>3, Induction
  <2> QED BY <1>0, <2>1
<1> QED BY <1>0, <1>4

-----------------------------------------------------------------------------
(* What is among a sequence                                               *)

\* What each element of a sequence adds to what is among its set.
Keeping(seq, S, X) ==
  [k \in 1..Len(seq) |-> [t \in Seq(X) |-> IF seq[k] \in S THEN Append(t, seq[k]) ELSE t]]

LEMMA AmongSteps ==
  ASSUME NEW X, NEW seq \in Seq(X), NEW S
  PROVE  \E at \in [0..Len(seq) -> Seq(X)] :
           Steps(Len(seq), <<>>, Keeping(seq, S, X), at) /\ Among(seq, S) = at[Len(seq)]
<1> DEFINE n == Len(seq)
           Upto(f) == f = [k \in 0..n |-> IF k = 0 THEN <<>>
                                          ELSE IF seq[k] \in S THEN Append(f[k-1], seq[k])
                                          ELSE f[k-1]]
           chosen == CHOOSE f : Upto(f)
           G == Keeping(seq, S, X)
<1>1. n \in Nat /\ \A k \in 1..n : seq[k] \in X
  OBVIOUS
<1>2. Among(seq, S) = chosen[n]
  BY DEF Among
<1>3. \A k \in 1..n : G[k] = [t \in Seq(X) |-> IF seq[k] \in S THEN Append(t, seq[k]) ELSE t]
  BY DEF Keeping
<1>4. G \in [1..n -> [Seq(X) -> Seq(X)]]
  BY <1>1 DEF Keeping
<1> HIDE DEF n, G
<1>5. PICK at \in [0..n -> Seq(X)] : Steps(n, <<>>, G, at)
  <2>1. <<>> \in Seq(X)
    OBVIOUS
  <2> QED BY ONLY <1>1, <1>4, <2>1, Iterates
<1>6. at[0] = <<>> /\ \A k \in 1..n : at[k] = IF seq[k] \in S THEN Append(at[k-1], seq[k]) ELSE at[k-1]
  <2>1. at[0] = <<>> /\ \A k \in 1..n : at[k] = G[k][at[k-1]]
    BY <1>5 DEF Steps
  <2>2. ASSUME NEW k \in 1..n
        PROVE  G[k][at[k-1]] = IF seq[k] \in S THEN Append(at[k-1], seq[k]) ELSE at[k-1]
    <3>1. k - 1 \in 0..n
      BY <1>1
    <3>2. at[k-1] \in Seq(X)
      BY <1>5, <3>1
    <3>3. G[k] = [t \in Seq(X) |-> IF seq[k] \in S THEN Append(t, seq[k]) ELSE t]
      BY <1>3
    <3> QED BY <3>2, <3>3
  <2> QED BY <2>1, <2>2
<1>7. Upto(at)
  <2>1. \A k \in 0..n : k = 0 \/ k \in 1..n
    BY <1>1
  <2>2. \A k \in 0..n : at[k] = IF k = 0 THEN <<>>
                                ELSE IF seq[k] \in S THEN Append(at[k-1], seq[k])
                                ELSE at[k-1]
    BY <1>1, <1>6, <2>1
  <2> QED BY <1>5, <2>2
<1>8. Upto(chosen)
  <2> HIDE DEF Upto
  <2> QED BY <1>7
<1> HIDE DEF chosen
<1>9. chosen[0] = <<>> /\ \A k \in 1..n : chosen[k] = IF seq[k] \in S THEN Append(chosen[k-1], seq[k]) ELSE chosen[k-1]
  <2>1. \A k \in 0..n : chosen[k] = IF k = 0 THEN <<>>
                                    ELSE IF seq[k] \in S THEN Append(chosen[k-1], seq[k])
                                    ELSE chosen[k-1]
    BY <1>8
  <2>2. 0 \in 0..n /\ \A k \in 1..n : k \in 0..n /\ k # 0
    BY <1>1
  <2> QED BY <2>1, <2>2
<1>10. chosen \in [0..n -> Seq(X)] /\ chosen = at
  <2> DEFINE T == {k \in 0..n : chosen[k] = at[k]}
  <2>1. 0 \in T
    BY <1>1, <1>6, <1>9
  <2>2. ASSUME NEW k \in 1..n, k - 1 \in T
        PROVE  k \in T
    <3>1. chosen[k-1] = at[k-1] /\ k \in 0..n
      BY <1>1, <2>2
    <3>2. at[k] = IF seq[k] \in S THEN Append(at[k-1], seq[k]) ELSE at[k-1]
      BY <1>6
    <3>3. chosen[k] = IF seq[k] \in S THEN Append(chosen[k-1], seq[k]) ELSE chosen[k-1]
      BY <1>9
    <3>4. chosen[k] = at[k]
      BY <3>1, <3>2, <3>3
    <3> QED BY <3>1, <3>4
  <2>3. T \in SUBSET (0..n)
    OBVIOUS
  <2>4. T = 0..n
    <3> HIDE DEF T
    <3> QED BY <1>1, <2>1, <2>2, <2>3, Induction
  <2>5. \A k \in 0..n : chosen[k] = at[k]
    BY <2>4
  <2>6. chosen = [k \in 0..n |-> chosen[k]]
    BY <1>8
  <2> HIDE DEF T, Upto
  <2> QED BY <1>5, <2>5, <2>6
<1> QED BY <1>2, <1>5, <1>10 DEF n, G

LEMMA AmongNothing ==
  ASSUME NEW S
  PROVE  Among(<<>>, S) = <<>>
<1> DEFINE X == {}
<1>1. <<>> \in Seq(X) /\ Len(<<>>) = 0
  OBVIOUS
<1>2. PICK none \in [0..0 -> Seq(X)] :
        Steps(0, <<>>, Keeping(<<>>, S, X), none) /\ Among(<<>>, S) = none[0]
  <2> HIDE DEF X
  <2> QED BY <1>1, AmongSteps
<1> QED BY <1>2 DEF Steps

LEMMA AmongSeq ==
  ASSUME NEW X, NEW seq \in Seq(X), NEW S
  PROVE  Among(seq, S) \in Seq(X)
<1>1. Len(seq) \in 0..Len(seq)
  OBVIOUS
<1> QED BY <1>1, AmongSteps

LEMMA AmongGrows ==
  ASSUME NEW X, NEW seq \in Seq(X), NEW x \in X, NEW S
  PROVE  Among(Append(seq, x), S) = IF x \in S THEN Append(Among(seq, S), x) ELSE Among(seq, S)
<1> DEFINE n == Len(seq)
           more == Append(seq, x)
           G == Keeping(seq, S, X)
           H == Keeping(more, S, X)
<1>1. /\ more \in Seq(X) /\ Len(more) = n + 1 /\ n \in Nat
      /\ \A k \in 1..n : more[k] = seq[k]
      /\ more[n+1] = x
  OBVIOUS
<1>2. PICK at : Steps(n, <<>>, G, at) /\ Among(seq, S) = at[n]
  BY AmongSteps
<1> HIDE DEF more, n
<1>3. PICK on : Steps(n + 1, <<>>, H, on) /\ Among(more, S) = on[n+1]
  BY <1>1, AmongSteps
<1>4. \A k \in 1..n : G[k] = H[k]
  <2>1. \A k \in 1..n : k \in 1..Len(seq) /\ k \in 1..Len(more) /\ more[k] = seq[k]
    BY <1>1 DEF n
  <2> QED BY <2>1 DEF Keeping
<1>5. H[n+1] = [t \in Seq(X) |-> IF x \in S THEN Append(t, x) ELSE t]
  <2>1. n + 1 \in 1..Len(more)
    BY <1>1
  <2> QED BY <1>1, <2>1 DEF Keeping
<1> HIDE DEF G, H
<1>6. Steps(n, <<>>, H, on)
  <2>1. \A k \in 1..n : k \in 1..n+1
    BY <1>1
  <2> QED BY <1>3, <2>1 DEF Steps
<1>7. at[n] = on[n]
  <2>1. PICK none : Steps(n, none, G, at) /\ Steps(n, none, H, on)
    BY <1>2, <1>6
  <2>2. Agree(n, G, H)
    BY <1>4 DEF Agree
  <2>3. n \in Nat
    BY <1>1
  <2>4. \A k \in 0..n : at[k] = on[k]
    BY ONLY <2>1, <2>2, <2>3, SameSteps
  <2> QED BY <2>3, <2>4
<1>8. on[n+1] = H[n+1][on[n]]
  <2>1. n + 1 \in 1..n+1 /\ (n + 1) - 1 = n
    BY <1>1
  <2> QED BY <1>3, <2>1 DEF Steps
<1>9. Among(seq, S) \in Seq(X)
  BY AmongSeq
<1>10. on[n+1] = IF x \in S THEN Append(Among(seq, S), x) ELSE Among(seq, S)
  BY <1>2, <1>5, <1>7, <1>8, <1>9
<1> QED BY <1>3, <1>10 DEF more

LEMMA AmongSame ==
  ASSUME NEW X, NEW S, NEW R, \A x \in X : x \in S <=> x \in R
  PROVE  \A seq \in Seq(X) : Among(seq, S) = Among(seq, R)
<1> DEFINE T == {seq \in Seq(X) : Among(seq, S) = Among(seq, R)}
<1>1. <<>> \in T
  <2>1. <<>> \in Seq(X)
    OBVIOUS
  <2> QED BY <2>1, AmongNothing
<1>2. ASSUME NEW seq \in T, NEW x \in X
      PROVE  Append(seq, x) \in T
  <2>1. seq \in Seq(X) /\ Append(seq, x) \in Seq(X) /\ Among(seq, S) = Among(seq, R)
    OBVIOUS
  <2>2. Among(Append(seq, x), S) = IF x \in S THEN Append(Among(seq, S), x) ELSE Among(seq, S)
    BY <2>1, AmongGrows
  <2>3. Among(Append(seq, x), R) = IF x \in R THEN Append(Among(seq, R), x) ELSE Among(seq, R)
    BY <2>1, AmongGrows
  <2> QED BY <2>1, <2>2, <2>3
<1>3. T = Seq(X)
  <2>1. T \in SUBSET Seq(X)
    OBVIOUS
  <2> HIDE DEF T
  <2> QED BY <1>1, <1>2, <2>1, SequenceInduction
<1> QED BY <1>3

LEMMA AmongTyped ==
  ASSUME NEW X, NEW S
  PROVE  \A seq \in Seq(X) : Among(seq, S) \in Seq(X \cap S)
<1> DEFINE T == {seq \in Seq(X) : Among(seq, S) \in Seq(X \cap S)}
<1>1. <<>> \in T
  <2>1. <<>> \in Seq(X) /\ <<>> \in Seq(X \cap S)
    OBVIOUS
  <2> QED BY <2>1, AmongNothing
<1>2. ASSUME NEW seq \in T, NEW x \in X
      PROVE  Append(seq, x) \in T
  <2>1. seq \in Seq(X) /\ Append(seq, x) \in Seq(X) /\ Among(seq, S) \in Seq(X \cap S)
    OBVIOUS
  <2>2. Among(Append(seq, x), S) = IF x \in S THEN Append(Among(seq, S), x) ELSE Among(seq, S)
    BY <2>1, AmongGrows
  <2>3. x \in S => x \in X \cap S
    OBVIOUS
  <2>4. x \in S => Append(Among(seq, S), x) \in Seq(X \cap S)
    BY <2>1, <2>3
  <2> QED BY <2>1, <2>2, <2>4
<1>3. T = Seq(X)
  <2>1. T \in SUBSET Seq(X)
    OBVIOUS
  <2> HIDE DEF T
  <2> QED BY <1>1, <1>2, <2>1, SequenceInduction
<1> QED BY <1>3

LEMMA ConcatAppend ==
  ASSUME NEW X, NEW s \in Seq(X), NEW t \in Seq(X), NEW x \in X
  PROVE  s \o Append(t, x) = Append(s \o t, x)
OBVIOUS

LEMMA AmongConcat ==
  ASSUME NEW X, NEW S, NEW s \in Seq(X)
  PROVE  \A t \in Seq(X) : Among(s \o t, S) = Among(s, S) \o Among(t, S)
<1> DEFINE T == {t \in Seq(X) : Among(s \o t, S) = Among(s, S) \o Among(t, S)}
<1>1. <<>> \in T
  <2>1. <<>> \in Seq(X) /\ s \o <<>> = s
    OBVIOUS
  <2>2. Among(<<>>, S) = <<>> /\ Among(s, S) \in Seq(X)
    BY <2>1, AmongNothing, AmongSeq
  <2>3. Among(s, S) \o <<>> = Among(s, S)
    BY <2>2
  <2> QED BY <2>1, <2>2, <2>3
<1>2. ASSUME NEW t \in T, NEW x \in X
      PROVE  Append(t, x) \in T
  <2>1. /\ t \in Seq(X) /\ Append(t, x) \in Seq(X) /\ s \o t \in Seq(X)
        /\ Among(s \o t, S) = Among(s, S) \o Among(t, S)
    OBVIOUS
  <2>2. Among(Append(t, x), S) = IF x \in S THEN Append(Among(t, S), x) ELSE Among(t, S)
    BY <2>1, AmongGrows
  <2>3. Among(Append(s \o t, x), S)
          = IF x \in S THEN Append(Among(s \o t, S), x) ELSE Among(s \o t, S)
    <3> DEFINE both == s \o t
    <3>1. both \in Seq(X)
      BY <2>1
    <3> HIDE DEF both
    <3>2. Among(Append(both, x), S) = IF x \in S THEN Append(Among(both, S), x) ELSE Among(both, S)
      BY <3>1, AmongGrows
    <3> QED BY <3>2 DEF both
  <2>4. Among(s, S) \in Seq(X) /\ Among(t, S) \in Seq(X)
    BY <2>1, AmongSeq
  <2>5. Among(s, S) \o Append(Among(t, S), x) = Append(Among(s, S) \o Among(t, S), x)
    BY <2>4, ConcatAppend
  <2>6. s \o Append(t, x) = Append(s \o t, x)
    BY <2>1, ConcatAppend
  <2> QED BY <2>1, <2>2, <2>3, <2>5, <2>6
<1>3. T = Seq(X)
  <2>1. T \in SUBSET Seq(X)
    OBVIOUS
  <2> HIDE DEF T
  <2> QED BY <1>1, <1>2, <2>1, SequenceInduction
<1> QED BY <1>3

LEMMA AmongAll ==
  ASSUME NEW X, NEW S, X \subseteq S
  PROVE  \A s \in Seq(X) : Among(s, S) = s
<1> DEFINE T == {s \in Seq(X) : Among(s, S) = s}
<1>1. <<>> \in T
  <2>1. <<>> \in Seq(X)
    OBVIOUS
  <2> QED BY <2>1, AmongNothing
<1>2. ASSUME NEW s \in T, NEW x \in X
      PROVE  Append(s, x) \in T
  <2>1. s \in Seq(X) /\ Append(s, x) \in Seq(X) /\ Among(s, S) = s /\ x \in S
    OBVIOUS
  <2>2. Among(Append(s, x), S) = IF x \in S THEN Append(Among(s, S), x) ELSE Among(s, S)
    BY <2>1, AmongGrows
  <2> QED BY <2>1, <2>2
<1>3. T = Seq(X)
  <2>1. T \in SUBSET Seq(X)
    OBVIOUS
  <2> HIDE DEF T
  <2> QED BY <1>1, <1>2, <2>1, SequenceInduction
<1> QED BY <1>3

\* What is recorded of lines is the lines, and of the rest nothing.

=============================================================================
