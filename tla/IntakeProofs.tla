---------------------------- MODULE IntakeProofs ----------------------------
(***************************************************************************)
(* Theorems of a detection pass, for any rules, source, advisories and     *)
(* signatures, any lists the tools print and any number of harnesses.      *)
(* Deduplication and the choice of the outermost matches go through a list *)
(* by recursion; as in TransportProofs, the inductions are over sets of    *)
(* natural numbers, each of which has a least element.                     *)
(***************************************************************************)
EXTENDS Intake, Recursion

-----------------------------------------------------------------------------
(* Deduplication                                                           *)

SastIds == {SastFinding(m).id : m \in Match}
OtherIds == {<<"sca", a>> : a \in Advisories} \cup {<<"fuzz", s>> : s \in Signatures}
Ids == SastIds \cup OtherIds

Finding == [id : Ids, severity : 0..4]
OtherFinding == [id : OtherIds, severity : 0..4]

\* What a list deduplicates to.
FindingMap == {m \in UNION {[D -> 0..4] : D \in SUBSET Ids} : IsFiniteSet(DOMAIN m)}

\* A map has the finding, at least as severe.
Covers(byId, finding) ==
  finding.id \in DOMAIN byId /\ byId[finding.id] >= finding.severity

LEMMA NothingIsAMap == Nothing \in FindingMap /\ DOMAIN Nothing = {}
BY FS_EmptySet DEF Nothing, FindingMap

LEMMA MapShape ==
  ASSUME NEW byId
  PROVE  byId \in FindingMap <=> /\ byId \in [DOMAIN byId -> 0..4]
                                 /\ DOMAIN byId \subseteq Ids /\ IsFiniteSet(DOMAIN byId)
BY DEF FindingMap

\* One more finding: its id is there, and nothing that was covered is lost.
LEMMA KeepCovers ==
  ASSUME NEW byId \in FindingMap, NEW finding \in Finding
  PROVE  /\ Keep(byId, finding) \in FindingMap
         /\ DOMAIN Keep(byId, finding) = DOMAIN byId \cup {finding.id}
         /\ Covers(Keep(byId, finding), finding)
         /\ \A f \in Finding : Covers(byId, f) => Covers(Keep(byId, finding), f)
<1> DEFINE D == DOMAIN byId
           new == [id \in D \cup {finding.id} |->
                     IF id = finding.id THEN finding.severity ELSE byId[id]]
<1>1. byId \in [D -> 0..4] /\ D \subseteq Ids /\ IsFiniteSet(D)
  BY MapShape
<1>2. finding.id \in Ids /\ finding.severity \in 0..4
  BY DEF Finding
<1>3. CASE finding.id \in D /\ finding.severity <= byId[finding.id]
  <2>1. Keep(byId, finding) = byId /\ D \cup {finding.id} = D
    BY <1>3 DEF Keep
  <2>2. byId[finding.id] >= finding.severity
    BY <1>1, <1>2, <1>3
  <2> QED BY <1>3, <2>1, <2>2 DEF Covers
<1>4. CASE ~(finding.id \in D /\ finding.severity <= byId[finding.id])
  <2>1. Keep(byId, finding) = new
    BY <1>4 DEF Keep
  <2>2. /\ DOMAIN new = D \cup {finding.id} /\ new[finding.id] = finding.severity
        /\ \A id \in D : id # finding.id => new[id] = byId[id]
    OBVIOUS
  <2>3. new \in [D \cup {finding.id} -> 0..4]
    BY <1>1, <1>2
  <2> HIDE DEF new
  <2>4. new \in FindingMap
    <3>1. IsFiniteSet(D \cup {finding.id})
      BY <1>1, FS_AddElement
    <3> QED BY <1>1, <1>2, <2>2, <2>3, <3>1, MapShape
  <2>5. Covers(new, finding)
    BY <1>2, <2>2 DEF Covers
  <2>6. ASSUME NEW f \in Finding, Covers(byId, f)
        PROVE  Covers(new, f)
    <3>1. f.id \in D /\ byId[f.id] >= f.severity /\ f.severity \in 0..4
      BY <2>6 DEF Covers, Finding
    <3>2. CASE f.id # finding.id
      BY <2>2, <3>1, <3>2 DEF Covers
    <3>3. CASE f.id = finding.id
      <4>1. ~(finding.severity <= byId[finding.id]) /\ byId[finding.id] \in 0..4
        BY <1>1, <1>4, <3>1, <3>3
      <4>2. finding.severity >= f.severity
        BY <1>2, <3>1, <3>3, <4>1
      <4> QED BY <2>2, <3>3, <4>2 DEF Covers
    <3> QED BY <3>2, <3>3
  <2> QED BY <2>1, <2>2, <2>4, <2>5, <2>6
<1> QED BY <1>3, <1>4

\* A deduplicated list has the ids of the list, each as severe as any report of it.
LEMMA DedupeCovers ==
  ASSUME NEW findings \in Seq(Finding)
  PROVE  /\ DedupeFindings(findings) \in FindingMap
         /\ DOMAIN DedupeFindings(findings) = {f.id : f \in ToSet(findings)}
         /\ \A f \in ToSet(findings) : Covers(DedupeFindings(findings), f)
<1> DEFINE n == Len(findings)
           Upto(f) == f = [k \in 0..n |-> IF k = 0 THEN Nothing ELSE Keep(f[k-1], findings[k])]
           chosen == CHOOSE f : Upto(f)
           G == [k \in 1..n |-> [byId \in FindingMap |-> Keep(byId, findings[k])]]
<1>1. n \in Nat /\ \A k \in 1..n : findings[k] \in Finding
  OBVIOUS
<1>2. DedupeFindings(findings) = chosen[n]
  BY DEF DedupeFindings
<1>3. ToSet(findings) = {findings[i] : i \in 1..n}
  BY DEF ToSet
<1> HIDE DEF n
<1>4. PICK at \in [0..n -> FindingMap] : Steps(n, Nothing, G, at)
  <2>1. \A k \in 1..n : G[k] \in [FindingMap -> FindingMap]
    BY <1>1, KeepCovers
  <2>2. G \in [1..n -> [FindingMap -> FindingMap]]
    BY <2>1
  <2> HIDE DEF G
  <2>3. n \in Nat /\ Nothing \in FindingMap
    BY <1>1, NothingIsAMap
  <2> QED BY ONLY <2>2, <2>3, Iterates
<1>5. \A k \in 1..n : k - 1 \in 0..n /\ k \in 0..n /\ k # 0
  BY <1>1
<1>6. at[0] = Nothing /\ \A k \in 1..n : at[k] = Keep(at[k-1], findings[k])
  BY <1>4, <1>5 DEF Steps
<1>7. Upto(at)
  <2>1. \A k \in 0..n : k = 0 \/ k \in 1..n
    BY <1>1
  <2>2. \A k \in 0..n : at[k] = IF k = 0 THEN Nothing ELSE Keep(at[k-1], findings[k])
    BY <1>6, <2>1
  <2> HIDE DEF G
  <2> QED BY <1>4, <2>2
<1>8. Upto(chosen)
  <2> HIDE DEF Upto
  <2> QED BY <1>7
<1> HIDE DEF chosen, G
<1>9. chosen[0] = Nothing /\ \A k \in 1..n : chosen[k] = Keep(chosen[k-1], findings[k])
  <2>1. \A k \in 0..n : chosen[k] = IF k = 0 THEN Nothing ELSE Keep(chosen[k-1], findings[k])
    BY <1>8
  <2>2. 0 \in 0..n
    BY <1>1
  <2> QED BY <1>5, <2>1, <2>2
<1> HIDE DEF Upto
<1> DEFINE Good(k) == /\ chosen[k] \in FindingMap
                      /\ DOMAIN chosen[k] = {findings[i].id : i \in 1..k}
                      /\ \A i \in 1..k : Covers(chosen[k], findings[i])
           T == {k \in 0..n : Good(k)}
<1>10. 0 \in T
  <2>1. 0 \in 0..n /\ 1..0 = {}
    BY <1>1
  <2> QED BY <1>9, <2>1, NothingIsAMap
<1>11. ASSUME NEW k \in 1..n, k - 1 \in T
       PROVE  k \in T
  <2>1. Good(k - 1) /\ chosen[k] = Keep(chosen[k-1], findings[k]) /\ findings[k] \in Finding
    BY <1>1, <1>9, <1>11
  <2>2. /\ chosen[k] \in FindingMap
        /\ DOMAIN chosen[k] = DOMAIN chosen[k-1] \cup {findings[k].id}
        /\ Covers(chosen[k], findings[k])
        /\ \A f \in Finding : Covers(chosen[k-1], f) => Covers(chosen[k], f)
    BY <2>1, KeepCovers
  <2>3. 1..k = (1..k-1) \cup {k} /\ 1..k \subseteq 1..n
    BY <1>1
  <2>4. {findings[i].id : i \in 1..k} = {findings[i].id : i \in 1..k-1} \cup {findings[k].id}
    BY <2>3
  <2>5. \A i \in 1..k : Covers(chosen[k], findings[i])
    BY <1>1, <2>1, <2>2, <2>3
  <2>6. Good(k)
    BY <2>1, <2>2, <2>4, <2>5
  <2> QED BY <1>5, <2>6
<1>12. Good(n)
  <2>1. T \in SUBSET (0..n)
    OBVIOUS
  <2>2. T = 0..n
    <3> HIDE DEF T
    <3> QED BY <1>1, <1>10, <1>11, <2>1, Induction
  <2> QED BY <1>1, <2>2
<1>13. {f.id : f \in ToSet(findings)} = {findings[i].id : i \in 1..n}
  BY <1>3
<1> QED BY <1>2, <1>3, <1>12, <1>13

-----------------------------------------------------------------------------
(* Lists of sets and of maps                                               *)

LEMMA SetAsList ==
  ASSUME NEW S, IsFiniteSet(S)
  PROVE  SetToSeq(S) \in Seq(S) /\ ToSet(SetToSeq(S)) = S
<1> DEFINE n == Cardinality(S)
           Lists(f) == f \in [1..n -> S] /\ IsInjective(f)
           list == CHOOSE f : Lists(f)
<1>1. n \in Nat /\ ExistsBijection(1..n, S)
  BY FS_CardinalityType
<1>2. PICK b \in Bijection(1..n, S) : TRUE
  BY <1>1 DEF ExistsBijection
<1>3. b \in Injection(1..n, S)
  BY <1>2 DEF Bijection
<1>4. Lists(b)
  BY <1>3 DEF Injection, IsInjective
<1>5. SetToSeq(S) = CHOOSE f \in [1..n -> S] : IsInjective(f)
  BY DEF SetToSeq
<1> HIDE DEF n
<1>6. SetToSeq(S) \in [1..n -> S] /\ IsInjective(SetToSeq(S))
  BY <1>4, <1>5
<1> DEFINE l == SetToSeq(S)
<1>7. l \in Injection(1..n, S)
  BY <1>6 DEF Injection, IsInjective
<1>8. IsFiniteSet(1..n) /\ Cardinality(1..n) = Cardinality(S)
  BY <1>1, FS_Interval DEF n
<1>9. l \in Surjection(1..n, S)
  BY <1>7, <1>8, FS_Injection
<1>10. \A x \in S : \E i \in 1..n : l[i] = x
  BY <1>9 DEF Surjection
<1>11. l \in Seq(S) /\ DOMAIN l = 1..n
  BY <1>1, <1>6
<1> QED BY <1>10, <1>6, <1>11 DEF ToSet

\* The list of a map has a finding for each id.
LEMMA MapAsList ==
  ASSUME NEW byId \in FindingMap
  PROVE  /\ ListOf(byId) \in Seq(Finding)
         /\ ToSet(ListOf(byId)) = {[id |-> i, severity |-> byId[i]] : i \in DOMAIN byId}
<1> DEFINE D == DOMAIN byId
           S == {[id |-> i, severity |-> byId[i]] : i \in D}
           f == [i \in D |-> [id |-> i, severity |-> byId[i]]]
<1>1. byId \in [D -> 0..4] /\ D \subseteq Ids /\ IsFiniteSet(D)
  BY MapShape
<1>2. S \subseteq Finding
  BY <1>1 DEF Finding
<1>3. f \in Surjection(D, S)
  BY DEF Surjection
<1>4. IsFiniteSet(S)
  BY <1>1, <1>3, FS_Surjection
<1>5. ListOf(byId) = SetToSeq(S)
  BY DEF ListOf
<1> HIDE DEF S
<1>6. ListOf(byId) \in Seq(S) /\ ToSet(ListOf(byId)) = S
  BY <1>4, <1>5, SetAsList
<1>7. ListOf(byId) \in Seq(Finding)
  BY <1>2, <1>6
<1> QED BY <1>6, <1>7 DEF S

LEMMA EmptyList == <<>> \in Seq(Finding) /\ ToSet(<<>>) = {}
BY EmptySeq DEF ToSet

LEMMA JoinedLists ==
  ASSUME NEW S, NEW s \in Seq(S), NEW t \in Seq(S)
  PROVE  s \o t \in Seq(S) /\ ToSet(s \o t) = ToSet(s) \cup ToSet(t)
<1>1. s \o t \in Seq(S) /\ Len(s \o t) = Len(s) + Len(t)
  BY ConcatProperties
<1>2. ToSet(s \o t) \subseteq ToSet(s) \cup ToSet(t)
  <2> SUFFICES ASSUME NEW i \in 1..Len(s) + Len(t)
               PROVE  (s \o t)[i] \in ToSet(s) \cup ToSet(t)
    BY <1>1 DEF ToSet
  <2>1. CASE i <= Len(s)
    <3>1. (s \o t)[i] = s[i] /\ i \in 1..Len(s)
      BY <2>1, ConcatProperties
    <3> QED BY <3>1 DEF ToSet
  <2>2. CASE i > Len(s)
    <3>1. (s \o t)[i] = t[i - Len(s)] /\ i - Len(s) \in 1..Len(t)
      BY <2>2, ConcatProperties
    <3> QED BY <3>1 DEF ToSet
  <2> QED BY <2>1, <2>2
<1>3. ToSet(s) \subseteq ToSet(s \o t)
  <2>1. \A i \in 1..Len(s) : i \in 1..Len(s) + Len(t) /\ (s \o t)[i] = s[i]
    BY ConcatProperties
  <2> QED BY <1>1, <2>1 DEF ToSet
<1>4. ToSet(t) \subseteq ToSet(s \o t)
  <2>1. \A i \in 1..Len(t) : /\ i + Len(s) \in 1..Len(s) + Len(t)
                             /\ (s \o t)[i + Len(s)] = t[i]
    BY ConcatProperties
  <2>2. \A i \in 1..Len(t) : t[i] \in ToSet(s \o t)
    <3> SUFFICES ASSUME NEW i \in 1..Len(t)
                 PROVE  t[i] \in ToSet(s \o t)
      OBVIOUS
    <3>1. i + Len(s) \in DOMAIN (s \o t) /\ (s \o t)[i + Len(s)] = t[i]
      BY <1>1, <2>1
    <3> QED BY <3>1 DEF ToSet
  <2> QED BY <2>2 DEF ToSet
<1> QED BY <1>1, <1>2, <1>3, <1>4

-----------------------------------------------------------------------------
(* The outermost matches                                                   *)

LEMMA SpanShape ==
  ASSUME NEW m \in Match
  PROVE  /\ Len(Source) \in Nat /\ m.rule \in Rules
         /\ \/ m.from = NoOffset /\ m.to = NoOffset
            \/ /\ m.from \in 0..Len(Source) /\ m.to \in 0..Len(Source)
               /\ m.from < m.to /\ m.from # NoOffset
BY IntakeAssumption DEF Match, NoOffset

LEMMA InsideIsTransitive ==
  ASSUME NEW a \in Match, NEW b \in Match, NEW c \in Match, Inside(a, b), Inside(b, c)
  PROVE  Inside(a, c)
BY SpanShape DEF Inside, Encloses, NoOffset

\* Every match is outermost or inside one that is.
LEMMA SomeOutermost ==
  ASSUME NEW results \in Seq(Match), NEW i \in DOMAIN results
  PROVE  \E j \in DOMAIN results :
           /\ j = i \/ Inside(results[i], results[j])
           /\ Outermost(results[j], results)
<1> DEFINE D == DOMAIN results
           length == Len(Source)
           Around == {j \in D : j = i \/ Inside(results[i], results[j])}
           Rest(j) == IF results[j].from = NoOffset THEN length + 1
                      ELSE length - (results[j].to - results[j].from)
           T == {Rest(j) : j \in Around}
<1>1. \A j \in D : results[j] \in Match
  OBVIOUS
<1>2. length \in Nat /\ \A j \in D : Rest(j) \in Nat
  BY <1>1, SpanShape
<1>3. i \in Around /\ T \in SUBSET Nat /\ T # {}
  BY <1>2
<1>4. PICK least \in T : \A other \in T : least <= other
  <2> HIDE DEF T
  <2> QED BY <1>3, LeastNumber
<1>5. PICK j \in Around : \A k \in Around : Rest(j) <= Rest(k)
  BY <1>4
<1>6. ASSUME NEW k \in D, Inside(results[j], results[k])
      PROVE  FALSE
  <2>1. k \in Around
    <3>1. CASE j = i
      BY <1>6, <3>1
    <3>2. CASE Inside(results[i], results[j])
      <4>1. Inside(results[i], results[k])
        BY <1>1, <1>6, <3>2, InsideIsTransitive
      <4> QED BY <4>1
    <3> QED BY <3>1, <3>2
  <2>2. Rest(j) <= Rest(k)
    BY <1>5, <2>1
  <2>3. /\ results[j].from # NoOffset /\ results[k].from # NoOffset
        /\ results[k].from <= results[j].from /\ results[j].to <= results[k].to
        /\ results[k].from # results[j].from \/ results[j].to # results[k].to
    BY <1>6 DEF Inside, Encloses
  <2>4. results[j].to - results[j].from < results[k].to - results[k].from
    <3>1. results[j] \in Match /\ results[k] \in Match
      BY <1>1
    <3>2. /\ results[j].from \in Int /\ results[j].to \in Int
          /\ results[k].from \in Int /\ results[k].to \in Int
      BY <3>1, SpanShape DEF NoOffset
    <3> QED BY <2>3, <3>2
  <2>5. /\ results[j].from \in Int /\ results[j].to \in Int
        /\ results[k].from \in Int /\ results[k].to \in Int
    BY <1>1, SpanShape DEF NoOffset
  <2> QED BY <1>2, <2>2, <2>3, <2>4, <2>5
<1> QED BY <1>5, <1>6 DEF Outermost

\* The filter keeps the outermost matches, all of them and no other.
LEMMA OutermostAreKept ==
  ASSUME NEW results \in Seq(Match)
  PROVE  /\ OutermostMatches(results) \in Seq(Match)
         /\ ToSet(OutermostMatches(results)) =
              {m \in ToSet(results) : Outermost(m, results)}
<1> DEFINE n == Len(results)
           Filtered(kept, k) == IF Outermost(results[k], results)
                             THEN Append(kept, results[k]) ELSE kept
           Unfolds(f) == f = [k \in 0..n |->
                              IF k = 0 THEN <<>>
                              ELSE IF Outermost(results[k], results)
                                   THEN Append(f[k-1], results[k]) ELSE f[k-1]]
           chosen == CHOOSE f : Unfolds(f)
           G == [k \in 1..n |-> [kept \in Seq(Match) |-> Filtered(kept, k)]]
<1>1. n \in Nat /\ \A k \in 1..n : results[k] \in Match
  OBVIOUS
<1>2. OutermostMatches(results) = chosen[n]
  BY DEF OutermostMatches
<1>3. ToSet(results) = {results[i] : i \in 1..n}
  BY DEF ToSet
<1> HIDE DEF n
<1>4. PICK at \in [0..n -> Seq(Match)] : Steps(n, <<>>, G, at)
  <2>1. \A k \in 1..n : G[k] \in [Seq(Match) -> Seq(Match)]
    BY <1>1, AppendProperties
  <2>2. G \in [1..n -> [Seq(Match) -> Seq(Match)]]
    BY <2>1
  <2> HIDE DEF G
  <2>3. n \in Nat /\ <<>> \in Seq(Match)
    BY <1>1, EmptySeq
  <2> QED BY ONLY <2>2, <2>3, Iterates
<1>5. \A k \in 1..n : k - 1 \in 0..n /\ k \in 0..n /\ k # 0
  BY <1>1
<1>6. at[0] = <<>> /\ \A k \in 1..n : at[k] = Filtered(at[k-1], k)
  BY <1>4, <1>5 DEF Steps
<1>7. Unfolds(at)
  <2>1. \A k \in 0..n : k = 0 \/ k \in 1..n
    BY <1>1
  <2>2. \A k \in 0..n : at[k] = IF k = 0 THEN <<>> ELSE Filtered(at[k-1], k)
    BY <1>6, <2>1
  <2> HIDE DEF G
  <2> QED BY <1>4, <2>2
<1>8. Unfolds(chosen)
  <2> HIDE DEF Unfolds
  <2> QED BY <1>7
<1> HIDE DEF chosen, G
<1>9. chosen[0] = <<>> /\ \A k \in 1..n : chosen[k] = Filtered(chosen[k-1], k)
  <2>1. \A k \in 0..n : chosen[k] = IF k = 0 THEN <<>> ELSE Filtered(chosen[k-1], k)
    BY <1>8
  <2>2. 0 \in 0..n
    BY <1>1
  <2> QED BY <1>5, <2>1, <2>2
<1> HIDE DEF Unfolds
<1> DEFINE Good(k) ==
             /\ chosen[k] \in Seq(Match)
             /\ ToSet(chosen[k]) =
                  {m \in {results[i] : i \in 1..k} : Outermost(m, results)}
           T == {k \in 0..n : Good(k)}
<1>10. 0 \in T
  <2>1. 0 \in 0..n /\ 1..0 = {} /\ ToSet(<<>>) = {}
    BY <1>1 DEF ToSet
  <2> QED BY <1>9, <2>1, EmptySeq
<1>11. ASSUME NEW k \in 1..n, k - 1 \in T
       PROVE  k \in T
  <2>1. Good(k - 1) /\ chosen[k] = Filtered(chosen[k-1], k) /\ results[k] \in Match
    BY <1>1, <1>9, <1>11
  <2>2. 1..k = (1..k-1) \cup {k}
    BY <1>1
  <2>3. {results[i] : i \in 1..k} = {results[i] : i \in 1..k-1} \cup {results[k]}
    BY <2>2
  <2>4. CASE Outermost(results[k], results)
    <3>1. chosen[k] = chosen[k-1] \o <<results[k]>> /\ <<results[k]>> \in Seq(Match)
      BY <2>1, <2>4, AppendIsConcat
    <3>2. ToSet(<<results[k]>>) = {results[k]}
      BY DEF ToSet
    <3>3. chosen[k] \in Seq(Match) /\ ToSet(chosen[k]) = ToSet(chosen[k-1]) \cup {results[k]}
      <4>1. \A s, t \in Seq(Match) :
              s \o t \in Seq(Match) /\ ToSet(s \o t) = ToSet(s) \cup ToSet(t)
        BY JoinedLists
      <4>2. chosen[k-1] \in Seq(Match)
        BY <2>1
      <4> QED BY <3>1, <3>2, <4>1, <4>2
    <3> QED BY <1>5, <2>1, <2>3, <2>4, <3>3
  <2>5. CASE ~Outermost(results[k], results)
    BY <1>5, <2>1, <2>3, <2>5
  <2> QED BY <2>4, <2>5
<1>12. Good(n)
  <2>1. T \in SUBSET (0..n)
    OBVIOUS
  <2>2. T = 0..n
    <3> HIDE DEF T
    <3> QED BY <1>1, <1>10, <1>11, <2>1, Induction
  <2>3. n \in T
    <3> HIDE DEF T
    <3> QED BY <1>1, <2>2
  <2> HIDE DEF Good
  <2> QED BY <2>3
<1> QED BY <1>2, <1>3, <1>12

-----------------------------------------------------------------------------
(* Where a finding is on its way through a pass                            *)

\* What the tools reported, and the filter of matches let by.
Reported ==
  raw \cup {SastFinding(m) : m \in {k \in ToSet(matches) : Outermost(k, matches)}}

Scanning == {"semgrep", "osv", "collapse scans"}

IntakeTyped ==
  /\ collected \in Seq(Finding)
  /\ {scanned, fuzzed, found} \subseteq FindingMap
  /\ matches \in Seq(Match)
  /\ raw \subseteq OtherFinding
  /\ harness \in Nat \ {0}

\* What a stage has not come to yet is empty: a layer that returns replaces nothing.
StageInv ==
  /\ stage = "semgrep" => matches = <<>>
  /\ stage \in Scanning => scanned = Nothing
  /\ stage \notin {"merge", "returned"} => fuzzed = Nothing
  /\ stage # "returned" => found = Nothing
  /\ (stage = "merge" \/ (stage = "fuzz" /\ harness = 1)) => collected = <<>>
  /\ pass = "refuzz" => stage \notin Scanning /\ scanned = Nothing /\ matches = <<>>

\* A reported finding is in the running layer's list or in what a layer returned.
Held ==
  \A f \in Reported :
    IF stage # "returned"
    THEN f \in ToSet(collected) \/ Covers(scanned, f) \/ Covers(fuzzed, f)
    ELSE Covers(found, f) \/ (pass = "refuzz" /\ f.id \in OpenIds)

\* And no list or map has a finding that was not.
Sourced ==
  /\ ToSet(collected) \subseteq Reported
  /\ DOMAIN scanned \cup DOMAIN fuzzed \cup DOMAIN found \subseteq {f.id : f \in Reported}

IntakeInv == IntakeTyped /\ StageInv /\ Held /\ Sourced

LEMMA SastShape ==
  ASSUME NEW m \in Match
  PROVE  SastFinding(m) \in Finding
<1>1. SastFinding(m).id \in Ids
  BY DEF Ids, SastIds
<1>2. RuleSeverity[m.rule] \in 0..4
  BY IntakeAssumption, SpanShape
<1> QED BY <1>1, <1>2 DEF SastFinding, Finding

LEMMA OtherShape == OtherFinding \subseteq Finding
BY DEF OtherFinding, Finding, Ids

LEMMA OsvShape == OsvFindings \subseteq OtherFinding
<1> SUFFICES ASSUME NEW a \in Advisories, NEW s \in AdvisorySeverities
             PROVE  ScaFinding(a, s) \in OtherFinding
  BY DEF OsvFindings
<1>1. <<"sca", a>> \in OtherIds
  BY DEF OtherIds
<1> QED BY <1>1, IntakeAssumption DEF ScaFinding, OtherFinding

LEMMA FuzzShape ==
  ASSUME NEW s \in Signatures
  PROVE  FuzzFinding(s) \in OtherFinding
<1>1. <<"fuzz", s>> \in OtherIds
  BY DEF OtherIds
<1> QED BY <1>1, IntakeAssumption DEF FuzzFinding, OtherFinding

LEMMA ReportedTyped == IntakeTyped => Reported \subseteq Finding
<1> SUFFICES ASSUME IntakeTyped PROVE Reported \subseteq Finding
  OBVIOUS
<1>1. ToSet(matches) \subseteq Match
  BY DEF IntakeTyped, ToSet
<1> QED BY <1>1, SastShape, OtherShape DEF IntakeTyped, Reported

\* A tool's findings go onto the list of its layer.
LEMMA RecordedFindings ==
  ASSUME IntakeTyped, NEW findings \in Seq(Finding), NEW detector, NEW status,
         Recorded(detector, status, findings)
  PROVE  /\ collected' \in Seq(Finding)
         /\ ToSet(collected') = ToSet(collected) \cup ToSet(findings)
BY JoinedLists DEF Recorded, IntakeTyped

\* A tool with nothing to report leaves everything as it was.
LEMMA FailureStep ==
  ASSUME IntakeInv, NEW detector, NEW status, Recorded(detector, status, <<>>)
  PROVE  collected' = collected
BY DEF IntakeInv, IntakeTyped, Recorded

LEMMA SemgrepStep ==
  ASSUME IntakeInv, NEW results \in Seq(Match), SemgrepReports(results)
  PROVE  IntakeInv'
<1> DEFINE kept == OutermostMatches(results)
           findings == [i \in DOMAIN kept |-> SastFinding(kept[i])]
<1>1. /\ kept \in Seq(Match)
      /\ ToSet(kept) = {m \in ToSet(results) : Outermost(m, results)}
  BY OutermostAreKept
<1>2. stage = "semgrep" /\ stage' = "osv" /\ matches = <<>> /\ matches' = results
  BY DEF SemgrepReports, IntakeInv, StageInv
<1>3. findings \in Seq(Finding) /\ ToSet(findings) = {SastFinding(m) : m \in ToSet(kept)}
  <2> HIDE DEF kept
  <2>1. Len(kept) \in Nat /\ DOMAIN kept = 1..Len(kept) /\ \A i \in DOMAIN kept : kept[i] \in Match
    BY <1>1
  <2>2. findings \in [1..Len(kept) -> Finding]
    BY <2>1, SastShape
  <2>3. findings \in Seq(Finding) /\ DOMAIN findings = DOMAIN kept
    BY <2>1, <2>2
  <2> QED BY <2>3 DEF ToSet
<1>4. Recorded("semgrep", "ok", findings)
  BY DEF SemgrepReports
<1> HIDE DEF findings
<1>5. /\ collected' \in Seq(Finding)
      /\ ToSet(collected') = ToSet(collected) \cup ToSet(findings)
  BY <1>3, <1>4, RecordedFindings DEF IntakeInv
<1>6. Reported = raw /\ Reported' = raw \cup ToSet(findings)
  <2>1. ToSet(<<>>) = {}
    BY DEF ToSet
  <2>2. raw' = raw
    BY DEF SemgrepReports
  <2>3. Reported = raw
    BY <1>2, <2>1 DEF Reported
  <2>4. Reported' = raw \cup {SastFinding(m) : m \in {k \in ToSet(results) : Outermost(k, results)}}
    BY <1>2, <2>2 DEF Reported
  <2> QED BY <1>1, <1>3, <2>3, <2>4
<1>7. /\ UNCHANGED <<pass, harness, scanned, fuzzed, found, raw>>
  BY DEF SemgrepReports
<1>8. IntakeTyped'
  BY <1>2, <1>5, <1>7 DEF IntakeInv, IntakeTyped
<1>9. StageInv'
  BY <1>2, <1>7 DEF IntakeInv, StageInv, Scanning
<1>10. Held'
  BY <1>2, <1>5, <1>6, <1>7 DEF IntakeInv, Held, Covers
<1>11. Sourced'
  BY <1>5, <1>6, <1>7 DEF IntakeInv, Sourced
<1> QED BY <1>8, <1>9, <1>10, <1>11 DEF IntakeInv

\* The steps that record what a tool reported as it is.
LEMMA ReportStep ==
  ASSUME IntakeInv, NEW findings \in Seq(OtherFinding), NEW detector, NEW status,
         Recorded(detector, status, findings), stage # "returned",
         raw' = raw \cup ToSet(findings),
         UNCHANGED <<scanned, fuzzed, found, matches>>,
         harness' \in Nat \ {0}, stage' # "returned", StageInv'
  PROVE  IntakeInv'
<1>1. /\ collected' \in Seq(Finding)
      /\ ToSet(collected') = ToSet(collected) \cup ToSet(findings)
  <2>1. findings \in Seq(Finding)
    BY OtherShape
  <2> QED BY <2>1, RecordedFindings DEF IntakeInv
<1>2. ToSet(findings) \subseteq OtherFinding
  BY DEF ToSet
<1>3. Reported' = Reported \cup ToSet(findings)
  BY DEF Reported
<1>4. Held'
  <2> SUFFICES ASSUME NEW f \in Reported'
               PROVE  \/ f \in ToSet(collected')
                      \/ Covers(scanned, f) \/ Covers(fuzzed, f)
    BY DEF Held, Covers
  <2> QED BY <1>1, <1>3 DEF Held, IntakeInv
<1>5. Sourced'
  BY <1>1, <1>3 DEF Sourced, IntakeInv
<1>6. IntakeTyped'
  BY <1>1, <1>2 DEF IntakeInv, IntakeTyped
<1> QED BY <1>4, <1>5, <1>6 DEF IntakeInv

\* A tool with nothing to report.
LEMMA FailStep ==
  ASSUME IntakeInv, NEW detector, NEW status,
         Recorded(detector, status, <<>>), stage # "returned",
         UNCHANGED <<scanned, fuzzed, found, matches, raw>>,
         harness' \in Nat \ {0}, stage' # "returned", StageInv'
  PROVE  IntakeInv'
<1>1. <<>> \in Seq(OtherFinding) /\ ToSet(<<>>) = {}
  BY EmptySeq, EmptyList
<1> QED BY <1>1, ReportStep

\* A layer returns what its list deduplicates to.
LEMMA LayerCovers ==
  ASSUME IntakeInv
  PROVE  /\ DedupeFindings(collected) \in FindingMap
         /\ \A f \in ToSet(collected) : Covers(DedupeFindings(collected), f)
         /\ DOMAIN DedupeFindings(collected) \subseteq {f.id : f \in Reported}
<1>1. collected \in Seq(Finding) /\ ToSet(collected) \subseteq Reported
  BY DEF IntakeInv, IntakeTyped, Sourced
<1>2. /\ DedupeFindings(collected) \in FindingMap
      /\ DOMAIN DedupeFindings(collected) = {f.id : f \in ToSet(collected)}
      /\ \A f \in ToSet(collected) : Covers(DedupeFindings(collected), f)
  BY <1>1, DedupeCovers
<1> QED BY <1>1, <1>2

LEMMA CollapseScansStep ==
  ASSUME IntakeInv, CollapseScans
  PROVE  IntakeInv'
<1> DEFINE byId == DedupeFindings(collected)
<1>1. /\ byId \in FindingMap /\ \A f \in ToSet(collected) : Covers(byId, f)
      /\ DOMAIN byId \subseteq {f.id : f \in Reported}
  BY LayerCovers
<1>2. /\ stage = "collapse scans" /\ scanned' = byId /\ collected' = <<>>
      /\ stage' = IF pass = "detect" THEN "fuzz" ELSE "merge"
      /\ UNCHANGED <<pass, harness, fuzzed, found, matches, raw>>
  BY DEF CollapseScans
<1> HIDE DEF byId
<1>3. scanned = Nothing /\ DOMAIN scanned = {} /\ pass # "refuzz"
  BY <1>2, NothingIsAMap DEF IntakeInv, StageInv, Scanning
<1>4. Reported' = Reported
  BY <1>2 DEF Reported
<1>5. IntakeTyped'
  BY <1>1, <1>2, EmptySeq DEF IntakeInv, IntakeTyped
<1>6. StageInv'
  BY <1>2, <1>3 DEF IntakeInv, StageInv, Scanning
<1>7. Held'
  <2> SUFFICES ASSUME NEW f \in Reported
               PROVE  Covers(byId, f) \/ Covers(fuzzed, f)
    BY <1>2, <1>4 DEF Held, Covers
  <2>1. f \in ToSet(collected) \/ Covers(scanned, f) \/ Covers(fuzzed, f)
    BY <1>2 DEF IntakeInv, Held
  <2>2. ~Covers(scanned, f)
    BY <1>3 DEF Covers
  <2> QED BY <1>1, <2>1, <2>2
<1>8. Sourced'
  <2>1. ToSet(<<>>) = {} /\ collected' = <<>>
    BY <1>2, EmptyList
  <2> QED BY <1>1, <1>2, <1>4, <2>1 DEF IntakeInv, Sourced
<1> QED BY <1>5, <1>6, <1>7, <1>8 DEF IntakeInv

LEMMA CollapseCrashesStep ==
  ASSUME IntakeInv, CollapseCrashes
  PROVE  IntakeInv'
<1> DEFINE byId == DedupeFindings(collected)
<1>1. /\ byId \in FindingMap /\ \A f \in ToSet(collected) : Covers(byId, f)
      /\ DOMAIN byId \subseteq {f.id : f \in Reported}
  BY LayerCovers
<1>2. /\ stage = "fuzz" /\ stage' = "merge" /\ fuzzed' = byId /\ collected' = <<>>
      /\ UNCHANGED <<pass, harness, scanned, found, matches, raw>>
  BY DEF CollapseCrashes
<1> HIDE DEF byId
<1>3. fuzzed = Nothing /\ DOMAIN fuzzed = {}
  BY <1>2, NothingIsAMap DEF IntakeInv, StageInv
<1>4. Reported' = Reported
  BY <1>2 DEF Reported
<1>5. IntakeTyped'
  BY <1>1, <1>2, EmptySeq DEF IntakeInv, IntakeTyped
<1>6. StageInv'
  BY <1>2 DEF IntakeInv, StageInv, Scanning
<1>7. Held'
  <2> SUFFICES ASSUME NEW f \in Reported
               PROVE  Covers(scanned, f) \/ Covers(byId, f)
    BY <1>2, <1>4 DEF Held, Covers
  <2>1. f \in ToSet(collected) \/ Covers(scanned, f) \/ Covers(fuzzed, f)
    BY <1>2 DEF IntakeInv, Held
  <2>2. ~Covers(fuzzed, f)
    BY <1>3 DEF Covers
  <2> QED BY <1>1, <2>1, <2>2
<1>8. Sourced'
  <2>1. ToSet(<<>>) = {} /\ collected' = <<>>
    BY <1>2, EmptyList
  <2> QED BY <1>1, <1>2, <1>4, <2>1 DEF IntakeInv, Sourced
<1> QED BY <1>5, <1>6, <1>7, <1>8 DEF IntakeInv

\* The third deduplication, of the two layers' lists together.
LEMMA MergeCovers ==
  ASSUME NEW a \in FindingMap, NEW b \in FindingMap
  PROVE  LET all == DedupeFindings(ListOf(a) \o ListOf(b))
         IN  /\ all \in FindingMap /\ DOMAIN all = DOMAIN a \cup DOMAIN b
             /\ \A f \in Finding : Covers(a, f) \/ Covers(b, f) => Covers(all, f)
<1> DEFINE list == ListOf(a) \o ListOf(b)
           all == DedupeFindings(list)
           In(byId) == {[id |-> i, severity |-> byId[i]] : i \in DOMAIN byId}
<1>1. list \in Seq(Finding) /\ ToSet(list) = In(a) \cup In(b)
  <2>1. /\ ListOf(a) \in Seq(Finding) /\ ToSet(ListOf(a)) = In(a)
        /\ ListOf(b) \in Seq(Finding) /\ ToSet(ListOf(b)) = In(b)
    BY MapAsList
  <2> HIDE DEF In
  <2> QED BY <2>1, JoinedLists
<1> HIDE DEF list
<1>2. /\ all \in FindingMap /\ DOMAIN all = {f.id : f \in ToSet(list)}
      /\ \A f \in ToSet(list) : Covers(all, f)
  BY <1>1, DedupeCovers
<1> HIDE DEF all
<1>3. DOMAIN all = DOMAIN a \cup DOMAIN b
  <2>1. {f.id : f \in In(a)} = DOMAIN a /\ {f.id : f \in In(b)} = DOMAIN b
    <3>1. ASSUME NEW byId
          PROVE  {f.id : f \in In(byId)} = DOMAIN byId
      <4>1. \A f \in In(byId) : f.id \in DOMAIN byId
        OBVIOUS
      <4>2. ASSUME NEW i \in DOMAIN byId
            PROVE  \E f \in In(byId) : f.id = i
        <5>1. /\ [id |-> i, severity |-> byId[i]] \in In(byId)
              /\ [id |-> i, severity |-> byId[i]].id = i
          OBVIOUS
        <5> HIDE DEF In
        <5> QED BY <5>1
      <4> HIDE DEF In
      <4> QED BY <4>1, <4>2
    <3> HIDE DEF In
    <3> QED BY <3>1
  <2> QED BY <1>1, <1>2, <2>1
<1>4. ASSUME NEW byId \in FindingMap, In(byId) \subseteq ToSet(list),
             NEW f \in Finding, Covers(byId, f)
      PROVE  Covers(all, f)
  <2> DEFINE g == [id |-> f.id, severity |-> byId[f.id]]
  <2>1. g \in In(byId) /\ byId[f.id] >= f.severity
    BY <1>4 DEF Covers
  <2>2. Covers(all, g)
    BY <1>2, <1>4, <2>1
  <2>3. f.id \in DOMAIN all /\ all[f.id] >= byId[f.id]
    BY <2>2 DEF Covers
  <2>4. all[f.id] \in 0..4 /\ byId[f.id] \in 0..4 /\ f.severity \in 0..4
    BY <1>2, <1>4, <2>3, MapShape DEF Covers, Finding
  <2> QED BY <2>1, <2>3, <2>4 DEF Covers
<1>5. \A f \in Finding : Covers(a, f) \/ Covers(b, f) => Covers(all, f)
  BY <1>1, <1>4
<1> QED BY <1>2, <1>3, <1>5 DEF all, list

LEMMA ReturnStep ==
  ASSUME IntakeInv, Return
  PROVE  IntakeInv'
<1>1. /\ stage = "merge" /\ stage' = "returned"
      /\ UNCHANGED <<pass, harness, collected, scanned, fuzzed, matches, raw>>
  BY DEF Return
<1>2. /\ collected = <<>> /\ ToSet(collected) = {}
      /\ scanned \in FindingMap /\ fuzzed \in FindingMap
      /\ \A f \in Reported : f \in Finding /\ (Covers(scanned, f) \/ Covers(fuzzed, f))
      /\ DOMAIN scanned \cup DOMAIN fuzzed \subseteq {f.id : f \in Reported}
  <2>1. collected = <<>> /\ ToSet(collected) = {}
    BY <1>1 DEF IntakeInv, StageInv, ToSet
  <2> QED BY <1>1, <2>1, ReportedTyped DEF IntakeInv, IntakeTyped, Held, Sourced
<1>3. Reported' = Reported
  BY <1>1 DEF Reported
<1>4. /\ found' \in FindingMap /\ DOMAIN found' \subseteq DOMAIN scanned \cup DOMAIN fuzzed
      /\ \A f \in Reported : Covers(found', f) \/ (pass = "refuzz" /\ f.id \in OpenIds)
  <2>1. CASE pass # "refuzz"
    <3>1. found' = DedupeFindings(ListOf(scanned) \o ListOf(fuzzed))
      BY <2>1 DEF Return
    <3> QED BY <1>2, <3>1, MergeCovers
  <2>2. CASE pass = "refuzz"
    <3> DEFINE news == {id \in DOMAIN fuzzed : id \notin OpenIds}
    <3>1. found' = [id \in news |-> fuzzed[id]]
      BY <2>2 DEF Return
    <3>2. /\ fuzzed \in [DOMAIN fuzzed -> 0..4] /\ DOMAIN fuzzed \subseteq Ids
          /\ IsFiniteSet(DOMAIN fuzzed)
      BY <1>2, MapShape
    <3>3. IsFiniteSet(news) /\ news \subseteq DOMAIN fuzzed
      BY <3>2, FS_Subset
    <3>4. found' \in FindingMap /\ DOMAIN found' = news
      <4> HIDE DEF news
      <4>1. found' \in [news -> 0..4] /\ DOMAIN found' = news
        BY <3>1, <3>2, <3>3
      <4> QED BY <3>2, <3>3, <4>1, MapShape
    <3>5. ASSUME NEW f \in Reported, f.id \notin OpenIds
          PROVE  Covers(found', f)
      <4>1. DOMAIN scanned = {}
        BY <2>2, NothingIsAMap DEF IntakeInv, StageInv
      <4>2. Covers(fuzzed, f)
        BY <1>2, <4>1 DEF Covers
      <4>3. f.id \in news
        BY <3>5, <4>2 DEF Covers
      <4> QED BY <3>1, <4>2, <4>3 DEF Covers
    <3> QED BY <2>2, <3>3, <3>4, <3>5
  <2> QED BY <2>1, <2>2
<1>5. IntakeTyped'
  BY <1>1, <1>4 DEF IntakeInv, IntakeTyped
<1>6. StageInv'
  BY <1>1 DEF IntakeInv, StageInv, Scanning
<1>7. Held'
  BY <1>1, <1>3, <1>4 DEF Held, Covers
<1>8. Sourced'
  BY <1>1, <1>2, <1>3, <1>4 DEF Sourced
<1> QED BY <1>5, <1>6, <1>7, <1>8 DEF IntakeInv

-----------------------------------------------------------------------------
(* The theorems                                                            *)

LEMMA IntakeInit ==
  ASSUME Init
  PROVE  IntakeInv
<1>1. /\ harness = 1 /\ collected = <<>> /\ scanned = Nothing /\ fuzzed = Nothing
      /\ found = Nothing /\ matches = <<>> /\ raw = {}
      /\ stage = IF pass = "refuzz" THEN "fuzz" ELSE "semgrep"
  BY DEF Init
<1>2. Reported = {} /\ ToSet(collected) = {}
  BY <1>1, EmptyList DEF Reported
<1>3. IntakeTyped
  BY <1>1, EmptySeq, NothingIsAMap DEF IntakeTyped
<1>4. StageInv
  BY <1>1 DEF StageInv, Scanning
<1>5. Held /\ Sourced
  BY <1>1, <1>2, NothingIsAMap DEF Held, Sourced
<1> QED BY <1>3, <1>4, <1>5 DEF IntakeInv

LEMMA IntakeStep ==
  ASSUME IntakeInv, [Next]_vars
  PROVE  IntakeInv'
<1>0. CASE UNCHANGED vars
  BY <1>0 DEF vars, IntakeInv, IntakeTyped, StageInv, Held, Sourced, Covers, Reported
<1>1. ASSUME NEW status, SemgrepFails(status)
      PROVE  IntakeInv'
  <2>1. StageInv' /\ harness' \in Nat \ {0}
    BY <1>1 DEF SemgrepFails, IntakeInv, IntakeTyped, StageInv, Scanning
  <2> QED BY <1>1, <2>1, FailStep DEF SemgrepFails
<1>2. ASSUME NEW status, OsvFails(status)
      PROVE  IntakeInv'
  <2>1. StageInv' /\ harness' \in Nat \ {0}
    BY <1>2 DEF OsvFails, IntakeInv, IntakeTyped, StageInv, Scanning
  <2> QED BY <1>2, <2>1, FailStep DEF OsvFails
<1>3. ASSUME NEW results \in BoundedSeq(Match, MaxMatches), SemgrepReports(results)
      PROVE  IntakeInv'
  <2>1. results \in Seq(Match)
    BY DEF BoundedSeq, SeqOf
  <2> QED BY <1>3, <2>1, SemgrepStep
<1>4. ASSUME NEW findings \in BoundedSeq(OsvFindings, MaxAdvisories), OsvReports(findings)
      PROVE  IntakeInv'
  <2>1. findings \in Seq(OtherFinding)
    <3>1. findings \in Seq(OsvFindings)
      BY DEF BoundedSeq, SeqOf
    <3> QED BY <3>1, OsvShape
  <2>2. StageInv' /\ harness' \in Nat \ {0}
    BY <1>4 DEF OsvReports, IntakeInv, IntakeTyped, StageInv, Scanning
  <2> QED BY <1>4, <2>1, <2>2, ReportStep DEF OsvReports
<1>5. CASE FuzzDisabled
  <2>1. collected = <<>> /\ collected' = collected
    BY <1>5, FailureStep DEF FuzzDisabled, IntakeInv, StageInv
  <2>2. StageInv' /\ harness' \in Nat \ {0}
    BY <1>5, <2>1 DEF FuzzDisabled, IntakeInv, IntakeTyped, StageInv, Scanning
  <2> QED BY <1>5, <2>2, FailStep DEF FuzzDisabled
<1>6. CASE HarnessFails
  <2>1. harness' \in Nat \ {0} /\ harness' # 1
    BY <1>6 DEF HarnessFails, IntakeInv, IntakeTyped
  <2>2. StageInv'
    BY <1>6, <2>1 DEF HarnessFails, IntakeInv, StageInv, Scanning
  <2> QED BY <1>6, <2>1, <2>2, FailStep DEF HarnessFails
<1>7. ASSUME NEW signatures \in SUBSET Signatures, HarnessReports(signatures)
      PROVE  IntakeInv'
  <2> DEFINE findings == {FuzzFinding(s) : s \in signatures}
             f == [s \in signatures |-> FuzzFinding(s)]
  <2>1. findings \subseteq OtherFinding
    BY FuzzShape
  <2>2. IsFiniteSet(findings)
    <3>1. IsFiniteSet(signatures)
      BY FS_Subset, IntakeAssumption
    <3>2. f \in Surjection(signatures, findings)
      BY DEF Surjection
    <3> QED BY <3>1, <3>2, FS_Surjection
  <2>3. Recorded("fuzz", "ok", SetToSeq(findings)) /\ raw' = raw \cup findings
    BY <1>7 DEF HarnessReports
  <2> HIDE DEF findings
  <2>4. SetToSeq(findings) \in Seq(OtherFinding) /\ ToSet(SetToSeq(findings)) = findings
    <3>1. SetToSeq(findings) \in Seq(findings) /\ ToSet(SetToSeq(findings)) = findings
      BY <2>2, SetAsList
    <3> QED BY <2>1, <3>1
  <2>5. harness' \in Nat \ {0} /\ harness' # 1
    BY <1>7 DEF HarnessReports, IntakeInv, IntakeTyped
  <2>6. /\ stage = "fuzz" /\ stage' = "fuzz"
        /\ UNCHANGED <<pass, scanned, fuzzed, found, matches>>
    BY <1>7 DEF HarnessReports
  <2>7. StageInv'
    BY <2>5, <2>6 DEF IntakeInv, StageInv, Scanning
  <2> QED BY <2>3, <2>4, <2>5, <2>6, <2>7, ReportStep
<1> QED
  BY <1>0, <1>1, <1>2, <1>3, <1>4, <1>5, <1>6, <1>7,
     CollapseScansStep, CollapseCrashesStep, ReturnStep DEF Next

\* Whatever a tool printed is among the pass's findings, at least as severe: three
\* deduplications and the filter of matches lose nothing, for any lists, nesting and
\* repetition.
THEOREM ReportsAreNotLost == Spec => []NothingReportedIsLost
<1>1. IntakeInv => NothingReportedIsLost
  <2> SUFFICES ASSUME IntakeInv, Returned
               PROVE  /\ \A f \in raw : Covers(found, f) \/ (pass = "refuzz" /\ f.id \in OpenIds)
                      /\ \A i \in DOMAIN matches : \E j \in DOMAIN matches :
                           /\ j = i \/ Inside(matches[i], matches[j])
                           /\ Covers(found, SastFinding(matches[j]))
    BY DEF NothingReportedIsLost, Covers
  <2>1. \A f \in Reported : Covers(found, f) \/ (pass = "refuzz" /\ f.id \in OpenIds)
    BY DEF IntakeInv, Held, Returned
  <2>2. \A f \in raw : Covers(found, f) \/ (pass = "refuzz" /\ f.id \in OpenIds)
    BY <2>1 DEF Reported
  <2>3. ASSUME NEW i \in DOMAIN matches
        PROVE  \E j \in DOMAIN matches :
                 /\ j = i \/ Inside(matches[i], matches[j])
                 /\ Covers(found, SastFinding(matches[j]))
    <3>1. matches \in Seq(Match) /\ pass # "refuzz"
      BY DEF IntakeInv, IntakeTyped, StageInv
    <3>2. PICK j \in DOMAIN matches : /\ j = i \/ Inside(matches[i], matches[j])
                                      /\ Outermost(matches[j], matches)
      BY <3>1, SomeOutermost
    <3>3. SastFinding(matches[j]) \in Reported
      BY <3>2 DEF Reported, ToSet
    <3> QED BY <2>1, <3>1, <3>2, <3>3
  <2> QED BY <2>2, <2>3
<1> QED BY <1>1, IntakeInit, IntakeStep, PTL DEF Spec

\* The id of a match with a place says which rule and how many words it flagged, and
\* no other tool gives out such an id.
LEMMA SastIdOf ==
  ASSUME NEW m \in Match, m.from # NoOffset, NEW id, id = SastFinding(m).id
  PROVE  /\ id \notin OtherIds
         /\ \A n \in Match : SastFinding(n).id = id => n.rule = m.rule /\ n.from # NoOffset
<1>1. id = <<"sast", m.rule, FlaggedSource(m)>>
  BY DEF SastFinding
<1>2. id \notin OtherIds
  BY <1>1 DEF OtherIds
<1>3. ASSUME NEW n \in Match, SastFinding(n).id = id
      PROVE  n.rule = m.rule /\ n.from # NoOffset
  <2>1. <<"sast", n.rule, FlaggedSource(n)>> = <<"sast", m.rule, FlaggedSource(m)>>
    BY <1>1, <1>3 DEF SastFinding
  <2>2. n.rule = m.rule /\ FlaggedSource(n) = FlaggedSource(m)
    BY <2>1
  <2>3. FlaggedSource(m) # <<>>
    <3>1. m.from \in 0..Len(Source) /\ m.to \in 0..Len(Source) /\ m.from < m.to
      BY SpanShape
    <3>2. FlaggedSource(m) = SubSeq(Source, m.from + 1, m.to)
      BY DEF FlaggedSource
    <3>3. Len(SubSeq(Source, m.from + 1, m.to)) = m.to - m.from
      BY <3>1, IntakeAssumption
    <3>4. m.to - m.from # 0
      BY <3>1
    <3> QED BY <3>2, <3>3, <3>4, EmptySeq
  <2>4. n.from = NoOffset => FlaggedSource(n) = <<>>
    BY DEF FlaggedSource
  <2> QED BY <2>2, <2>3, <2>4
<1> QED BY <1>2, <1>3

\* A construct that a rule flags with others inside it is one finding: the id of a
\* match inside another of its rule is among the findings only where the same source is
\* also flagged with nothing around it.
THEOREM ConstructsAreOne == Spec => []OneConstructOneFinding
<1>1. IntakeInv => OneConstructOneFinding
  <2> DEFINE Words(m) == m.from + 1 .. m.to
             Within(m, n) == /\ m.rule = n.rule /\ n.from # NoOffset
                             /\ Words(m) \subseteq Words(n) /\ Words(m) # Words(n)
  <2> SUFFICES ASSUME IntakeInv, Returned, NEW m \in ToSet(matches),
                      m.from # NoOffset, SastFinding(m).id \in DOMAIN found
               PROVE  \E n \in ToSet(matches) :
                        /\ SastFinding(n).id = SastFinding(m).id
                        /\ ~\E o \in ToSet(matches) : Within(n, o)
    BY DEF OneConstructOneFinding
  <2>1. ToSet(matches) \subseteq Match /\ raw \subseteq OtherFinding
    BY DEF IntakeInv, IntakeTyped, ToSet
  <2>2. PICK f \in Reported : f.id = SastFinding(m).id
    BY DEF IntakeInv, Sourced
  <2>3. f \notin raw
    <3>1. f.id \notin OtherIds
      BY <2>1, <2>2, SastIdOf
    <3> QED BY <2>1, <3>1 DEF OtherFinding
  <2>4. PICK n \in ToSet(matches) : Outermost(n, matches) /\ f = SastFinding(n)
    BY <2>3 DEF Reported
  <2>5. n \in Match /\ n.from # NoOffset
    BY <2>1, <2>2, <2>4, SastIdOf
  <2>6. ASSUME NEW o \in ToSet(matches), Within(n, o)
        PROVE  FALSE
    <3>1. o \in Match /\ n.rule = o.rule /\ o.from # NoOffset
      BY <2>1, <2>6
    <3>2. /\ n.from \in 0..Len(Source) /\ n.to \in 0..Len(Source) /\ n.from < n.to
          /\ o.from \in 0..Len(Source) /\ o.to \in 0..Len(Source) /\ o.from < o.to
          /\ Len(Source) \in Nat
      BY <2>5, <3>1, SpanShape
    <3>3. n.from + 1 \in Words(o) /\ n.to \in Words(o)
      <4>1. n.from + 1 \in Words(n) /\ n.to \in Words(n)
        BY <3>2
      <4> QED BY <2>6, <4>1
    <3>4. o.from <= n.from /\ n.to <= o.to
      BY <3>2, <3>3
    <3>5. <<o.from, o.to>> # <<n.from, n.to>>
      BY <2>6
    <3>6. Inside(n, o)
      BY <2>5, <3>1, <3>4, <3>5 DEF Inside, Encloses
    <3>7. PICK i \in DOMAIN matches : o = matches[i]
      BY DEF ToSet
    <3> QED BY <2>4, <3>6, <3>7 DEF Outermost
  <2> QED BY <2>2, <2>4, <2>6
<1> QED BY <1>1, IntakeInit, IntakeStep, PTL DEF Spec

=============================================================================
