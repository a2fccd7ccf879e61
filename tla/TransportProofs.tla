-------------------------- MODULE TransportProofs --------------------------
(***************************************************************************)
(* Theorems of the path scope and of the handlers that ask it, for every   *)
(* file system, every list of exclusions, every request and any number of  *)
(* turns; and of the tap and its transcript, for every stream of messages  *)
(* and every way to cut it into chunks.  Where a path leads and what the   *)
(* tap makes of a stream are defined by recursion; the inductions are      *)
(* those of Recursion, over a set of numbers or of sequences.              *)
(***************************************************************************)
EXTENDS Transport, Recursion

-----------------------------------------------------------------------------
(* Where a path leads                                                      *)

Name == STRING
Place == Seq(Name)

FsInv ==
  /\ Places \subseteq exists /\ exists \subseteq Place
  /\ \A name \in DOMAIN links : links[name] \in Place

\* The places on the way along the first n names of a path.
Along(path, n, at) ==
  /\ at[0] = <<>>
  /\ \A k \in 1..n : at[k] = Follow(Append(at[k-1], path[k]))

LEMMA FollowedPlace ==
  ASSUME FsInv, NEW place \in Place
  PROVE  Follow(place) \in Place
BY DEF FsInv, Follow

LEMMA SameWay ==
  ASSUME NEW n \in Nat, NEW path, NEW other, \A k \in 1..n : path[k] = other[k],
         NEW a, NEW b, Along(path, n, a), Along(other, n, b)
  PROVE  \A k \in 0..n : a[k] = b[k]
<1> DEFINE T == {k \in 0..n : a[k] = b[k]}
<1>1. 0 \in T
  BY DEF Along
<1>2. ASSUME NEW k \in 1..n, k - 1 \in T
      PROVE  k \in T
  <2>1. a[k] = Follow(Append(a[k-1], path[k])) /\ b[k] = Follow(Append(b[k-1], other[k]))
    BY DEF Along
  <2> QED BY <1>2, <2>1
<1>3. T \in SUBSET (0..n)
  OBVIOUS
<1>4. T = 0..n
  <2> HIDE DEF T
  <2> QED BY <1>1, <1>2, <1>3, Induction
<1> QED BY <1>4

LEMMA WayExists ==
  ASSUME FsInv, NEW path \in Place
  PROVE  \E at \in [0..Len(path) -> Place] : Along(path, Len(path), at)
<1> DEFINE n == Len(path)
           T == {k \in 0..n : \E at \in [0..k -> Place] : Along(path, k, at)}
<1>0. n \in Nat /\ \A k \in 1..n : path[k] \in Name
  BY DEF Place
<1> HIDE DEF n
<1>1. 0 \in T
  <2> DEFINE at == [k \in 0..0 |-> <<>>]
  <2>1. at \in [0..0 -> Place] /\ at[0] = <<>>
    BY EmptySeq DEF Place
  <2>2. 0 \in 0..n
    BY <1>0
  <2>3. Along(path, 0, at)
    BY <2>1 DEF Along
  <2> QED BY <2>1, <2>2, <2>3
<1>2. ASSUME NEW k \in 1..n, k - 1 \in T
      PROVE  k \in T
  <2>1. PICK at \in [0..k-1 -> Place] : Along(path, k-1, at)
    BY <1>2
  <2> DEFINE next == Follow(Append(at[k-1], path[k]))
             on == [i \in 0..k |-> IF i = k THEN next ELSE at[i]]
  <2>2. next \in Place
    <3>1. k - 1 \in 0..k-1
      BY <1>0
    <3>2. Append(at[k-1], path[k]) \in Place
      BY <1>0, <2>1, <3>1 DEF Place
    <3> QED BY <3>2, FollowedPlace
  <2> HIDE DEF next
  <2>3. \A i \in 0..k : i = k \/ i \in 0..k-1
    BY <1>0
  <2>4. on \in [0..k -> Place]
    BY <2>1, <2>2, <2>3
  <2>5. ASSUME NEW i \in 1..k
        PROVE  on[i] = Follow(Append(on[i-1], path[i]))
    <3>1. i \in 0..k /\ i - 1 \in 0..k /\ i - 1 # k
      BY <1>0
    <3>2. on[i-1] = at[i-1]
      BY <3>1
    <3>3. CASE i = k
      BY <3>1, <3>2, <3>3 DEF next
    <3>4. CASE i # k
      <4>1. i \in 1..k-1
        BY <1>0, <3>4
      <4>2. at[i] = Follow(Append(at[i-1], path[i])) /\ on[i] = at[i]
        BY <2>1, <3>1, <3>4, <4>1 DEF Along
      <4> QED BY <3>2, <4>2
    <3> QED BY <3>3, <3>4
  <2>6. on[0] = <<>>
    BY <1>0, <2>1 DEF Along
  <2>7. Along(path, k, on)
    <3> HIDE DEF on
    <3> QED BY <2>5, <2>6 DEF Along
  <2>8. k \in 0..n
    BY <1>0
  <2> QED BY <2>4, <2>7, <2>8
<1>3. T \in SUBSET (0..n)
  OBVIOUS
<1>4. T = 0..n
  <2> HIDE DEF T
  <2> QED BY <1>0, <1>1, <1>2, <1>3, Induction
<1>5. n \in T
  BY <1>0, <1>4
<1> QED BY <1>5 DEF n

\* The definition by recursion gives what the names, taken one by one, lead to.
LEMMA RealIsTheEnd ==
  ASSUME NEW path \in Place, NEW at \in [0..Len(path) -> Place], Along(path, Len(path), at)
  PROVE  Real(path) = at[Len(path)]
<1> DEFINE n == Len(path)
           Walks(f) == f = [k \in 0..n |-> IF k = 0 THEN <<>> ELSE Follow(Append(f[k-1], path[k]))]
           chosen == CHOOSE f : Walks(f)
<1>0. n \in Nat
  BY DEF Place
<1>1. Real(path) = chosen[n]
  BY DEF Real
<1> HIDE DEF n
<1>2. Walks(at)
  <2>1. at \in [0..n -> Place] /\ Along(path, n, at)
    BY DEF n
  <2>2. \A k \in 0..n : k = 0 \/ k \in 1..n
    BY <1>0
  <2>3. \A k \in 0..n : at[k] = IF k = 0 THEN <<>> ELSE Follow(Append(at[k-1], path[k]))
    BY <2>1, <2>2 DEF Along
  <2> QED BY <2>1, <2>3
<1>3. Walks(chosen)
  <2> HIDE DEF Walks
  <2> QED BY <1>2
<1> HIDE DEF chosen
<1>4. Along(path, n, chosen)
  <2>1. \A k \in 0..n : chosen[k] = IF k = 0 THEN <<>> ELSE Follow(Append(chosen[k-1], path[k]))
    BY <1>3
  <2>2. 0 \in 0..n /\ \A k \in 1..n : k \in 0..n /\ k # 0
    BY <1>0
  <2> QED BY <2>1, <2>2 DEF Along
<1>5. \A k \in 0..n : chosen[k] = at[k]
  BY <1>0, <1>4, SameWay DEF n
<1> QED BY <1>0, <1>1, <1>5 DEF n

\* The way along a path goes through where its parts lead.
LEMMA WayOf ==
  ASSUME FsInv, NEW path \in Place
  PROVE  \E at \in [0..Len(path) -> Place] :
           /\ Along(path, Len(path), at)
           /\ \A k \in 0..Len(path) : Real(SubSeq(path, 1, k)) = at[k]
<1>1. PICK at \in [0..Len(path) -> Place] : Along(path, Len(path), at)
  BY WayExists
<1>2. ASSUME NEW k \in 0..Len(path)
      PROVE  Real(SubSeq(path, 1, k)) = at[k]
  <2> DEFINE part == SubSeq(path, 1, k)
  <2>1. part \in Place /\ Len(part) = k /\ k \in Nat /\ \A i \in 1..k : part[i] = path[i]
    BY DEF Place
  <2> HIDE DEF part
  <2>2. PICK way \in [0..k -> Place] : Along(part, k, way)
    BY <2>1, WayExists
  <2>3. Real(part) = way[k]
    BY <2>1, <2>2, RealIsTheEnd
  <2>4. Along(path, k, at)
    <3>1. \A i \in 1..k : i \in 1..Len(path)
      BY <2>1 DEF Place
    <3> QED BY <1>1, <3>1 DEF Along
  <2>5. \A i \in 0..k : way[i] = at[i]
    <3>1. /\ k \in Nat /\ \A i \in 1..k : part[i] = path[i]
          /\ Along(part, k, way) /\ Along(path, k, at)
      BY <2>1, <2>2, <2>4
    <3> QED BY ONLY <3>1, SameWay
  <2> QED BY <2>1, <2>3, <2>5 DEF part
<1> QED BY <1>1, <1>2

LEMMA AppendToConcat ==
  ASSUME NEW s \in Seq(Name), NEW t \in Seq(Name), NEW x \in Name
  PROVE  Append(s \o t, x) = s \o Append(t, x)
<1>1. s \o t \in Seq(Name) /\ <<x>> \in Seq(Name)
  BY ConcatProperties
<1>2. Append(s \o t, x) = (s \o t) \o <<x>>
  BY <1>1, AppendIsConcat
<1>3. Append(t, x) = t \o <<x>>
  BY AppendIsConcat
<1>4. (s \o t) \o <<x>> = s \o (t \o <<x>>)
  BY <1>1, ConcatAssociative
<1> QED BY <1>2, <1>3, <1>4

\* Where links lead exists, so from the last part of a path that exists on no name is
\* a link, and each is added as it is spelled.
LEMMA RestIsSpelled ==
  ASSUME FsInv, NEW path \in Place, NEW at \in [0..Len(path) -> Place],
         Along(path, Len(path), at),
         \A k \in 1..Len(path) :
           LET name == Append(at[k-1], path[k]) IN name \in DOMAIN links => links[name] \in exists,
         NEW n \in 0..Len(path), \A k \in n+1..Len(path) : at[k] \notin exists
  PROVE  at[Len(path)] = at[n] \o SubSeq(path, n + 1, Len(path))
<1> DEFINE length == Len(path)
           Spelled(k) == SubSeq(path, n + 1, n + k)
           T == {k \in 0..length - n : at[n + k] = at[n] \o Spelled(k)}
<1>0. /\ length \in Nat /\ n \in Nat /\ length - n \in Nat
      /\ at[n] \in Place /\ \A k \in 1..length : path[k] \in Name
  BY DEF Place
<1>1. 0 \in T
  <2>1. Spelled(0) = <<>> /\ n + 0 = n
    BY <1>0, SubSeqEmpty
  <2>2. at[n] \o <<>> = at[n]
    BY <1>0 DEF Place
  <2> HIDE DEF Spelled
  <2>3. at[n + 0] = at[n] \o Spelled(0)
    BY <2>1, <2>2
  <2>4. 0 \in 0..length - n
    BY <1>0
  <2> QED BY <2>3, <2>4
<1>2. ASSUME NEW k \in 1..length - n, k - 1 \in T
      PROVE  k \in T
  <2>1. /\ n + k \in 1..length /\ n + k \in n+1..length /\ (n + k) - 1 = n + (k - 1)
        /\ k \in 0..length - n
    BY <1>0
  <2>2. at[n + k] = Follow(Append(at[n + (k - 1)], path[n + k]))
    BY <2>1 DEF Along
  <2>3. at[n + k] \notin exists
    BY <2>1
  <2>4. at[n + k] = Append(at[n + (k - 1)], path[n + k])
    <3>1. LET name == Append(at[n + (k - 1)], path[n + k])
          IN  name \in DOMAIN links => links[name] \in exists
      BY <2>1
    <3> QED BY <2>2, <2>3, <3>1 DEF Follow
  <2>5. at[n + (k - 1)] = at[n] \o Spelled(k - 1)
    BY <1>2
  <2>6. Spelled(k) = Append(Spelled(k - 1), path[n + k]) /\ Spelled(k - 1) \in Place
    <3>1. /\ Spelled(k) \in Place /\ Len(Spelled(k)) = k
          /\ \A i \in 1..k : Spelled(k)[i] = path[n + i]
      BY <1>0, <2>1 DEF Place
    <3>2. /\ Spelled(k - 1) \in Place /\ Len(Spelled(k - 1)) = k - 1
          /\ \A i \in 1..k-1 : Spelled(k - 1)[i] = path[n + i]
      BY <1>0, <2>1 DEF Place
    <3> HIDE DEF Spelled
    <3>3. /\ Append(Spelled(k - 1), path[n + k]) \in Place
          /\ Len(Append(Spelled(k - 1), path[n + k])) = k
          /\ \A i \in 1..k : Append(Spelled(k - 1), path[n + k])[i] = path[n + i]
      BY <1>0, <2>1, <3>2 DEF Place
    <3>4. Spelled(k) = Append(Spelled(k - 1), path[n + k])
      <4> DEFINE last == Append(Spelled(k - 1), path[n + k])
      <4>1. /\ Spelled(k) \in Seq(Name) /\ last \in Seq(Name) /\ Len(Spelled(k)) = Len(last)
            /\ \A i \in 1 .. Len(Spelled(k)) : Spelled(k)[i] = last[i]
        BY <3>1, <3>3 DEF Place
      <4> HIDE DEF last
      <4>2. Spelled(k) = last
        BY ONLY <4>1, SeqEqual
      <4> QED BY <4>2 DEF last
    <3> QED BY <3>2, <3>4
  <2>7. Append(at[n] \o Spelled(k - 1), path[n + k]) = at[n] \o Append(Spelled(k - 1), path[n + k])
    <3> HIDE DEF Spelled
    <3>1. path[n + k] \in Name
      BY <1>0, <2>1
    <3>2. at[n] \in Seq(Name) /\ Spelled(k - 1) \in Seq(Name)
      BY <1>0, <2>6 DEF Place
    <3> QED BY <3>1, <3>2, AppendToConcat
  <2> QED BY <2>1, <2>4, <2>5, <2>6, <2>7
<1>3. T \in SUBSET (0..length - n)
  OBVIOUS
<1>4. T = 0..length - n
  <2> HIDE DEF T
  <2> QED BY <1>0, <1>1, <1>2, <1>3, Induction
<1> HIDE DEF length
<1>5. at[n + (length - n)] = at[n] \o Spelled(length - n)
  <2> HIDE DEF Spelled
  <2>1. length - n \in T
    <3> HIDE DEF T
    <3> QED BY <1>0, <1>4
  <2> QED BY <2>1
<1>6. n + (length - n) = length
  BY <1>0
<1> QED BY <1>5, <1>6 DEF length

\* exclusions.ts, realPathOfNearestExisting: the longest part of a path that exists,
\* resolved, with the rest as it is spelled, is where the path leads, if no link on
\* the path leads to what does not exist.
THEOREM NearestExistingIsReal ==
  ASSUME FsInv, TransportAssumption, NEW path \in Place, ~Dangles(path)
  PROVE  RealPathOfNearestExisting(path) = Real(path)
<1> DEFINE length == Len(path)
           There == {k \in 0..length : Exists(SubSeq(path, 1, k))}
<1>0. length \in Nat
  BY DEF Place
<1>1. PICK at \in [0..length -> Place] :
        /\ Along(path, length, at)
        /\ \A k \in 0..length : Real(SubSeq(path, 1, k)) = at[k]
  BY WayOf
<1>2. There \in SUBSET (0..length) /\ 0 \in There
  <2>1. at[0] = <<>> /\ <<>> \in exists
    BY <1>1 DEF Along, FsInv, TransportAssumption
  <2> QED BY <1>0, <1>1, <2>1 DEF Exists
<1>3. Max(There) \in There /\ \A k \in There : k <= Max(There)
  <2> HIDE DEF There
  <2> QED BY <1>0, <1>2, GreatestNumber
<1> DEFINE n == Max(There)
<1> HIDE DEF length
<1>4. n \in 0..length /\ \A k \in n+1..length : at[k] \notin exists
  <2>1. n \in 0..length
    BY <1>3
  <2>2. ASSUME NEW k \in n+1..length
        PROVE  at[k] \notin exists
    <3>1. k \in 0..length /\ ~(k <= n)
      BY <1>0, <2>1, <2>2
    <3>2. ~Exists(SubSeq(path, 1, k))
      BY <1>3, <3>1
    <3> QED BY <1>1, <3>1, <3>2 DEF Exists
  <2> QED BY <2>1, <2>2
<1> HIDE DEF n, There
<1>5. at[length] = at[n] \o SubSeq(path, n + 1, length)
  <2>1. ASSUME NEW k \in 1..length, Append(at[k-1], path[k]) \in DOMAIN links
        PROVE  links[Append(at[k-1], path[k])] \in exists
    <3>1. k \in DOMAIN path /\ k - 1 \in 0..length
      BY <1>0 DEF length, Place
    <3>2. Real(SubSeq(path, 1, k - 1)) = at[k-1]
      BY <1>1, <3>1
    <3> QED BY <2>1, <3>1, <3>2 DEF Dangles
  <2> QED BY <1>1, <1>4, <2>1, RestIsSpelled DEF length
<1>6. Real(SubSeq(path, 1, n)) = at[n] /\ Real(path) = at[length]
  BY <1>0, <1>1, <1>4, RealIsTheEnd DEF length
<1>7. RealPathOfNearestExisting(path) = Real(SubSeq(path, 1, n)) \o SubSeq(path, n + 1, length)
  BY DEF RealPathOfNearestExisting, n, There, length
<1> QED BY <1>5, <1>6, <1>7

LEMMA RealIsPlace ==
  ASSUME FsInv, NEW path \in Place
  PROVE  Real(path) \in Place
<1>1. PICK at \in [0..Len(path) -> Place] : Along(path, Len(path), at)
  BY WayExists
<1>2. Len(path) \in 0..Len(path)
  BY DEF Place
<1> QED BY <1>1, <1>2, RealIsTheEnd

LEMMA FromIsPlace ==
  ASSUME NEW dir \in Place, NEW path \in Place
  PROVE  From(dir, path) \in Place
<1>1. CASE path # <<>>
  <2>1. Tail(path) \in Place
    BY <1>1 DEF Place
  <2>2. dir \o Tail(path) \in Place
    BY <2>1 DEF Place
  <2> QED BY <2>2 DEF From
<1> QED BY <1>1 DEF From

\* The scope of a plain path is decided on where it leads.
LEMMA ScopeIsOfReal ==
  ASSUME FsInv, NEW dir, NEW path \in Place, Lands(dir, path).plain, NEW patterns
  PROVE  InScope(path, patterns) <=>
           ~Outside(Lands(dir, path).at) /\ ~Excludes(patterns, Lands(dir, path).at)
<1> DEFINE judged == From(Root, path)
<1>1. /\ Lands(dir, path).at = Real(From(dir, path))
      /\ From(dir, path) = judged /\ ~Dangles(judged)
  BY DEF Lands
<1>2. judged \in Place
  <2>1. Root \in Place
    BY TransportAssumption DEF Place, Name
  <2> QED BY <2>1, FromIsPlace
<1>3. InScope(path, patterns) <=>
        LET place == RealPathOfNearestExisting(judged)
        IN  ~Outside(place) /\ ~Excludes(patterns, place)
  BY DEF InScope, IsExcluded, Excludes, Under
<1> HIDE DEF judged
<1>4. RealPathOfNearestExisting(judged) = Real(judged)
  BY <1>1, <1>2, NearestExistingIsReal, TransportAssumption
<1> QED BY <1>1, <1>3, <1>4

-----------------------------------------------------------------------------
(* The handlers                                                            *)

ActInv == TouchedPlacesAreInScope /\ OnlyFixTurnsWrite /\ RefusalsAreJustified

\* What requests carry are paths.
LEMMA RequestPaths ==
  ASSUME NEW m \in Requests
  PROVE  /\ m.method # "permission" => m.path \in Place
         /\ m.method = "permission" => m.paths \subseteq Place
BY TransportAssumption DEF Place, Name

LEMMA WritersFix == MayWrite(Agent) <=> subtask \in {"fix", "refactor", "test-repair"}
BY DEF MayWrite, Agent, RouteSubtask, FixSubtasks

\* What is granted to an agent is in scope, and what is refused it is not, or is a
\* write by one that may not.
LEMMA Grants ==
  ASSUME FsInv, NEW paths \in SUBSET Place, NEW op, NEW dir,
         \A path \in paths : InScope(path, AgentExclusions),
         op = "write" => MayWrite(Agent), Touch(op, dir, paths), subtask # "detection"
  PROVE  ActInv'
<1>1. ASSUME NEW path \in paths, Lands(dir, path).plain
      PROVE  Usable(Lands(dir, path).at)
  BY <1>1, ScopeIsOfReal DEF Usable, AgentExclusions, Outside, Under
<1>2. /\ act'.what = "touched" /\ act'.for = subtask /\ act'.op = op
      /\ act'.places = {Lands(dir, path) : path \in paths}
  BY DEF Touch, Act
<1>3. \A place \in act'.places : place.plain => Usable(place.at)
  <2> HIDE DEF Lands
  <2> QED BY <1>1, <1>2
<1> QED BY <1>2, <1>3, WritersFix
        DEF ActInv, TouchedPlacesAreInScope, OnlyFixTurnsWrite, RefusalsAreJustified, Usable, Excludes

\* What a refusal of a path may be for.
Refusable(place) ==
  \/ ~Usable(place.at) \/ ~place.plain
  \/ \E name \in DottedNames : IsPrefix(Append(Root, name), place.at)

LEMMA Refusals ==
  ASSUME FsInv, NEW paths \in SUBSET Place, NEW op, NEW dir, NEW m, NEW response,
         \/ \E path \in paths : ~InScope(path, AgentExclusions)
         \/ op = "write" /\ ~MayWrite(Agent),
         Refuse(m, op, dir, paths, response)
  PROVE  ActInv'
<1>1. ASSUME NEW path \in paths, ~InScope(path, AgentExclusions)
      PROVE  Refusable(Lands(dir, path))
  BY <1>1, ScopeIsOfReal DEF Refusable, Usable, AgentExclusions, Outside, Under
<1>2. /\ act'.what = "refused" /\ act'.for = subtask /\ act'.op = op
      /\ act'.places = {Lands(dir, path) : path \in paths}
  BY DEF Refuse, Act
<1>3. \/ \E place \in act'.places : Refusable(place)
      \/ op = "write" /\ ~MayWrite(Agent)
  BY <1>1, <1>2
<1> QED BY <1>2, <1>3, WritersFix
        DEF ActInv, TouchedPlacesAreInScope, OnlyFixTurnsWrite, RefusalsAreJustified, Refusable,
            Usable, Excludes

SubtaskInv == subtask \in Turned

LEMMA ActStays ==
  ASSUME ActInv, act' = act
  PROVE  ActInv'
BY DEF ActInv, TouchedPlacesAreInScope, OnlyFixTurnsWrite, RefusalsAreJustified, Usable, Excludes

LEMMA FilesStay ==
  ASSUME FsInv, UNCHANGED fs_vars
  PROVE  FsInv'
BY DEF FsInv, fs_vars

LEMMA HandlerStep ==
  ASSUME FsInv, SubtaskInv, ActInv, NEW m \in Requests,
         ReadTextFile(m) \/ WriteTextFile(m) \/ RequestPermission(m)
  PROVE  FsInv' /\ SubtaskInv' /\ ActInv'
<1>0. subtask # "detection"
  BY TransportAssumption DEF SubtaskInv, Subtasks
<1>1. SubtaskInv'
  BY DEF SubtaskInv, ReadTextFile, WriteTextFile, RequestPermission, Take, run_vars
<1>2. CASE ReadTextFile(m)
  <2>1. {m.path} \in SUBSET Place /\ links' = links
    BY <1>2, RequestPaths DEF ReadTextFile, Take
  <2>2. CASE ReadFile(Agent, m.path) /\ Touch("read", Cwd, {m.path}) /\ exists' = exists
    <3>1. \A path \in {m.path} : InScope(path, AgentExclusions)
      BY <2>2 DEF ReadFile
    <3>2. ActInv'
      BY <1>0, <2>1, <2>2, <3>1, Grants
    <3> QED BY <1>1, <2>1, <2>2, <3>2, FilesStay DEF fs_vars
  <2>3. CASE UNCHANGED <<exists, act>>
    BY <1>1, <2>1, <2>3, ActStays, FilesStay DEF fs_vars
  <2>4. CASE ~ReadFile(Agent, m.path) /\ Refuse(m, "read", Cwd, {m.path}, "denied")
    <3>1. ActInv'
      BY <2>1, <2>4, Refusals DEF ReadFile
    <3>2. UNCHANGED fs_vars
      BY <2>1, <2>4 DEF Refuse, fs_vars
    <3> QED BY <1>1, <3>1, <3>2, FilesStay
  <2> QED BY <1>2, <2>2, <2>3, <2>4 DEF ReadTextFile
<1>3. CASE WriteTextFile(m)
  <2>1. {m.path} \in SUBSET Place /\ m.path \in Place /\ links' = links
    BY <1>3, RequestPaths DEF WriteTextFile, Take
  <2>2. CASE /\ WriteFile(Agent, m.path) /\ Touch("write", Cwd, {m.path})
             /\ exists' = exists \cup {Real(From(Cwd, m.path))}
    <3>1. \A path \in {m.path} : InScope(path, AgentExclusions)
      BY <2>2 DEF WriteFile
    <3>2. ActInv'
      BY <1>0, <2>1, <2>2, <3>1, Grants DEF WriteFile
    <3>3. FsInv'
      <4>1. Cwd \in Place
        BY TransportAssumption DEF Place, Name
      <4>2. Real(From(Cwd, m.path)) \in Place
        BY <2>1, <4>1, FromIsPlace, RealIsPlace
      <4> QED BY <2>1, <2>2, <4>2 DEF FsInv
    <3> QED BY <1>1, <3>2, <3>3
  <2>3. CASE UNCHANGED <<exists, act>>
    BY <1>1, <2>1, <2>3, ActStays, FilesStay DEF fs_vars
  <2>4. CASE ~WriteFile(Agent, m.path) /\ Refuse(m, "write", Cwd, {m.path}, "denied")
    <3>1. ActInv'
      BY <2>1, <2>4, Refusals DEF WriteFile
    <3>2. UNCHANGED fs_vars
      BY <2>1, <2>4 DEF Refuse, fs_vars
    <3> QED BY <1>1, <3>1, <3>2, FilesStay
  <2> QED BY <1>3, <2>2, <2>3, <2>4 DEF WriteTextFile
<1>4. CASE RequestPermission(m)
  <2>1. m.paths \in SUBSET Place /\ links' = links
    BY <1>4, RequestPaths DEF RequestPermission, Take
  <2>2. exists' = exists
    BY <1>4 DEF RequestPermission, Refuse
  <2>3. FsInv'
    BY <2>1, <2>2, FilesStay DEF fs_vars
  <2>4. CASE ToolCall(Agent, m.kind, m.paths) /\ Touch(ToolAccessOf(m.kind), Root, m.paths)
    <3> DEFINE op == ToolAccessOf(m.kind)
    <3>1. /\ \A path \in m.paths : InScope(path, AgentExclusions)
          /\ op = "write" => MayWrite(Agent)
          /\ Touch(op, Root, m.paths)
      BY <2>4 DEF ToolCall
    <3> HIDE DEF op
    <3> QED BY <1>0, <1>1, <2>1, <2>3, <3>1, Grants
  <2>5. CASE act' = act
    BY <1>1, <2>3, <2>5, ActStays
  <2>6. CASE /\ ~ToolCall(Agent, m.kind, m.paths)
             /\ Refuse(m, ToolAccessOf(m.kind), Root, m.paths, Select("reject_once", m.options))
    <3> DEFINE op == ToolAccessOf(m.kind)
               response == Select("reject_once", m.options)
    <3>1. /\ \/ \E path \in m.paths : ~InScope(path, AgentExclusions)
             \/ op = "write" /\ ~MayWrite(Agent)
          /\ Refuse(m, op, Root, m.paths, response)
      BY <2>6 DEF ToolCall
    <3> HIDE DEF op, response
    <3> QED BY <1>1, <2>1, <2>3, <3>1, Refusals
  <2> QED BY <1>4, <2>4, <2>5, <2>6 DEF RequestPermission
<1> QED BY <1>2, <1>3, <1>4

LEMMA TransportStep ==
  ASSUME FsInv, SubtaskInv, ActInv, [Next]_vars
  PROVE  FsInv' /\ SubtaskInv' /\ ActInv'
<1>1. ASSUME UNCHANGED <<fs_vars, act>>, subtask' \in Turned
      PROVE  FsInv' /\ SubtaskInv' /\ ActInv'
  BY <1>1, ActStays, FilesStay DEF SubtaskInv
<1>2. ASSUME NEW path \in Configured, DetectorOpens(path)
      PROVE  FsInv' /\ SubtaskInv' /\ ActInv'
  <2>1. path \in Place
    BY TransportAssumption DEF Place, Name
  <2> DEFINE place == Lands(Root, path)
  <2>2. ASSUME place.plain
        PROVE  Usable(place.at) /\ ~Excludes(ScanExcluded, place.at)
    <3>1. ~Outside(place.at) /\ ~Excludes(DetectorExclusions, place.at)
      BY <1>2, <2>1, <2>2, ScopeIsOfReal DEF DetectorOpens
    <3> HIDE DEF place
    <3> QED BY <3>1 DEF Usable, Excludes, DetectorExclusions, Outside, Under
  <2>3. /\ act'.what = "touched" /\ act'.op = "read" /\ act'.places = {place}
    BY <1>2 DEF DetectorOpens, Act
  <2> HIDE DEF place
  <2>4. ActInv'
    BY <2>2, <2>3 DEF ActInv, TouchedPlacesAreInScope, OnlyFixTurnsWrite,
                      RefusalsAreJustified, Usable, Excludes
  <2>5. UNCHANGED fs_vars /\ subtask' = subtask
    BY <1>2 DEF DetectorOpens, run_vars
  <2> QED BY <2>4, <2>5, FilesStay DEF SubtaskInv
<1>3. ASSUME NEW for \in Turned, StartTurn(for)
      PROVE  FsInv' /\ SubtaskInv' /\ ActInv'
  <2>1. UNCHANGED fs_vars /\ subtask' = for /\ act' = Nothing
    BY <1>3 DEF StartTurn
  <2>2. ActInv'
    BY <2>1 DEF Nothing, ActInv, TouchedPlacesAreInScope, OnlyFixTurnsWrite, RefusalsAreJustified
  <2> QED BY <2>1, <2>2, FilesStay DEF SubtaskInv
<1>4. ASSUME NEW name \in LinkNames, NEW target \in LinkTargets, ToolLinks(name, target)
      PROVE  FsInv' /\ SubtaskInv' /\ ActInv'
  <2>1. target \in Place
    BY TransportAssumption DEF Place, Name
  <2>2. /\ exists' = exists /\ act' = act /\ subtask' = subtask
        /\ links' = [place \in DOMAIN links \cup {name} |->
                       IF place = name THEN target ELSE links[place]]
    BY <1>4 DEF ToolLinks, run_vars, handler_vars
  <2>3. FsInv'
    BY <2>1, <2>2 DEF FsInv
  <2> QED BY <2>2, <2>3, ActStays DEF SubtaskInv
<1>5. CASE UNCHANGED vars
  BY <1>1, <1>5 DEF vars, run_vars, handler_vars, SubtaskInv
<1>6. CASE CloseTurn \/ RunEnds \/ StreamEnds \/ Respond
  BY <1>1, <1>6 DEF CloseTurn, RunEnds, StreamEnds, Respond, run_vars, handler_vars, SubtaskInv
<1>7. ASSUME NEW bytes, AgentWrites(bytes) \/ AgentDies(bytes)
      PROVE  FsInv' /\ SubtaskInv' /\ ActInv'
  BY <1>1, <1>7 DEF AgentWrites, AgentDies, run_vars, handler_vars, SubtaskInv
<1>8. ASSUME NEW n, Deliver(n)
      PROVE  FsInv' /\ SubtaskInv' /\ ActInv'
  BY <1>1, <1>8 DEF Deliver, run_vars, SubtaskInv
<1> QED BY <1>2, <1>3, <1>4, <1>5, <1>6, <1>7, <1>8, HandlerStep DEF Next

LEMMA HandlersStay == Spec => []ActInv
<1>1. Init => FsInv /\ SubtaskInv /\ ActInv
  <2> SUFFICES ASSUME Init PROVE FsInv /\ SubtaskInv /\ ActInv
    OBVIOUS
  <2>1. FsInv
    BY TransportAssumption DEF Init, FsInv, Place, Name
  <2>2. SubtaskInv /\ act.what = "nothing"
    BY DEF Init, SubtaskInv, Nothing
  <2> QED BY <2>1, <2>2 DEF ActInv, TouchedPlacesAreInScope, OnlyFixTurnsWrite, RefusalsAreJustified
<1>2. ASSUME FsInv, SubtaskInv, ActInv, [Next]_vars
      PROVE  FsInv' /\ SubtaskInv' /\ ActInv'
  BY <1>2, TransportStep
<1> QED BY <1>1, <1>2, PTL DEF Spec

\* exclusions.ts:56: what is touched, by an agent or a detector, resolves inside the
\* repository and is not excluded for it, whatever links are made meanwhile, unless
\* a link on the path leads to nowhere, or the path is relative and opened elsewhere.
THEOREM TouchedPlacesStayInScope == Spec => []TouchedPlacesAreInScope
<1>1. ActInv => TouchedPlacesAreInScope
  BY DEF ActInv
<1> QED BY <1>1, HandlersStay, PTL

\* README.md:78: what is written, and which write tools are granted, is for the
\* subtasks that fix.
THEOREM OnlyFixTurnsEverWrite == Spec => []OnlyFixTurnsWrite
<1>1. ActInv => OnlyFixTurnsWrite
  BY DEF ActInv
<1> QED BY <1>1, HandlersStay, PTL

\* schema.ts:96: an agent is refused only what is outside or excluded for agents, or
\* a write that is not its to make; what only scans leave out is not refused.  Paths
\* that are not plain, and names with two dots first, are excepted by the property.
THEOREM RefusalsStayJustified == Spec => []RefusalsAreJustified
<1>1. ActInv => RefusalsAreJustified
  BY DEF ActInv
<1> QED BY <1>1, HandlersStay, PTL

-----------------------------------------------------------------------------
(* Bytes, and the splitter they are fed to                                 *)

Message == Requests \cup {Noise}
Byte == {NL, WS} \cup {<<1, m>> : m \in Message} \cup {<<2, m>> : m \in Message}
Glyph == Byte \cup {Garbled}

LEMMA Bytes ==
  ASSUME NEW b \in Byte
  PROVE  /\ b[1] \in {0, 1, 2, 3}
         /\ b = NL <=> b[1] = 0
         /\ b = WS <=> b[1] = 3
         /\ b[1] \in {1, 2} => b[2] \in Message /\ b = <<b[1], b[2]>>
BY DEF Byte, NL, WS

LEMMA LeastGreatest ==
  ASSUME NEW n \in Nat, NEW S \in SUBSET (1..n), S # {}
  PROVE  Min(S) \in S /\ Max(S) \in S
<1>1. S \in SUBSET Nat /\ S \in SUBSET (0..n)
  OBVIOUS
<1>2. PICK k \in S : \A m \in S : k <= m
  BY <1>1, LeastNumber
<1>3. Min(S) \in S
  BY <1>2 DEF Min
<1> QED BY <1>1, <1>3, GreatestNumber

LEMMA Trims ==
  ASSUME NEW text \in Seq(Glyph)
  PROVE  Trim(text) \in Seq(Glyph) /\ Handed(text) \in Seq(Seq(Glyph))
<1> DEFINE solid == {i \in DOMAIN text : text[i] # WS}
<1>1. solid \in SUBSET (1..Len(text)) /\ Len(text) \in Nat
  OBVIOUS
<1>2. Trim(text) = IF solid = {} THEN <<>> ELSE SubSeq(text, Min(solid), Max(solid))
  BY DEF Trim
<1>3. solid # {} => Min(solid) \in 1..Len(text) /\ Max(solid) \in 1..Len(text)
  <2> HIDE DEF solid
  <2> QED BY <1>1, LeastGreatest
<1> HIDE DEF solid
<1>4. Trim(text) \in Seq(Glyph)
  BY <1>2, <1>3
<1> QED BY <1>4 DEF Handed

Fed == [half : Seq(Byte), buffered : Seq(Glyph), lines : Seq(Seq(Glyph))]

Splitter(half, buffered, lns) == [half |-> half, buffered |-> buffered, lines |-> lns]

LEMMA FeedCases ==
  ASSUME NEW half, NEW buffered, NEW lns, NEW b \in Byte
  PROVE  LET s == Splitter(half, buffered, lns) IN
         /\ b[1] = 0 => Feed(s, b) = Splitter(half, <<>>, lns \o Handed(buffered))
         /\ b[1] = 3 => Feed(s, b) = Splitter(half, Append(buffered, WS), lns)
         /\ b[1] = 1 => Feed(s, b) = Splitter(<<b>>, buffered, lns)
         /\ b[1] = 2 => Feed(s, b) = Splitter(<<>>, Append(buffered, IF half = <<>> THEN Garbled ELSE b), lns)
<1> DEFINE s == Splitter(half, buffered, lns)
<1>1. s.half = half /\ s.buffered = buffered /\ s.lines = lns
  BY DEF Splitter
<1>2. /\ b[1] \in {0, 1, 2, 3}
      /\ b = NL <=> b[1] = 0
      /\ b = WS <=> b[1] = 3
  BY Bytes
<1>3. b[1] = 0 => Feed(s, b) = [s EXCEPT !.buffered = <<>>, !.lines = @ \o Handed(s.buffered)]
  BY <1>2 DEF Feed
<1>4. b[1] = 3 => Feed(s, b) = [s EXCEPT !.buffered = Append(@, WS)]
  BY <1>2 DEF Feed
<1>5. b[1] = 1 => Feed(s, b) = [s EXCEPT !.half = <<b>>]
  BY <1>2 DEF Feed
<1>6. b[1] = 2 => Feed(s, b) = [s EXCEPT !.half = <<>>,
                                         !.buffered = Append(@, IF s.half = <<>> THEN Garbled ELSE b)]
  BY <1>2 DEF Feed
<1>7. ASSUME NEW t
      PROVE  [s EXCEPT !.buffered = t] = Splitter(half, t, lns)
  BY DEF Splitter
<1>8. ASSUME NEW h
      PROVE  [s EXCEPT !.half = h] = Splitter(h, buffered, lns)
  BY DEF Splitter
<1>9. ASSUME NEW t, NEW l
      PROVE  [s EXCEPT !.buffered = t, !.lines = l] = Splitter(half, t, l)
  <2>1. [s EXCEPT !.buffered = t, !.lines = l] = [Splitter(half, t, lns) EXCEPT !.lines = l]
    BY <1>7
  <2> QED BY <2>1 DEF Splitter
<1>10. ASSUME NEW h, NEW t
      PROVE  [s EXCEPT !.half = h, !.buffered = t] = Splitter(h, t, lns)
  <2>1. [s EXCEPT !.half = h, !.buffered = t] = [Splitter(h, buffered, lns) EXCEPT !.buffered = t]
    BY <1>8
  <2> QED BY <2>1 DEF Splitter
<1>11. b[1] = 0 => Feed(s, b) = Splitter(half, <<>>, lns \o Handed(buffered))
  BY <1>1, <1>3, <1>9
<1>12. b[1] = 3 => Feed(s, b) = Splitter(half, Append(buffered, WS), lns)
  BY <1>1, <1>4, <1>7
<1>13. b[1] = 1 => Feed(s, b) = Splitter(<<b>>, buffered, lns)
  BY <1>1, <1>5, <1>8
<1>14. b[1] = 2 => Feed(s, b) = Splitter(<<>>, Append(buffered, IF half = <<>> THEN Garbled ELSE b), lns)
  BY <1>1, <1>6, <1>10
<1> QED BY <1>11, <1>12, <1>13, <1>14

LEMMA FeedTyped ==
  ASSUME NEW s \in Fed, NEW b \in Byte
  PROVE  Feed(s, b) \in Fed
<1>1. PICK half \in Seq(Byte), buffered \in Seq(Glyph), lns \in Seq(Seq(Glyph)) :
        s = Splitter(half, buffered, lns)
  BY DEF Fed, Splitter
<1>2. b \in Glyph /\ Garbled \in Glyph /\ WS \in Glyph
  BY DEF Glyph, Byte
<1>3. lns \o Handed(buffered) \in Seq(Seq(Glyph))
  BY Trims
<1>4. \A h \in Seq(Byte), t \in Seq(Glyph), l \in Seq(Seq(Glyph)) : Splitter(h, t, l) \in Fed
  BY DEF Splitter, Fed
<1>5. /\ <<b>> \in Seq(Byte) /\ <<>> \in Seq(Byte) /\ <<>> \in Seq(Glyph)
      /\ Append(buffered, WS) \in Seq(Glyph)
      /\ Append(buffered, IF half = <<>> THEN Garbled ELSE b) \in Seq(Glyph)
  BY <1>2
<1>6. /\ b[1] = 0 => Feed(s, b) = Splitter(half, <<>>, lns \o Handed(buffered))
      /\ b[1] = 3 => Feed(s, b) = Splitter(half, Append(buffered, WS), lns)
      /\ b[1] = 1 => Feed(s, b) = Splitter(<<b>>, buffered, lns)
      /\ b[1] = 2 => Feed(s, b) = Splitter(<<>>, Append(buffered, IF half = <<>> THEN Garbled ELSE b), lns)
  BY <1>1, FeedCases
<1>7. b[1] \in {0, 1, 2, 3}
  BY Bytes
<1>8. CASE b[1] = 0
  BY <1>3, <1>4, <1>5, <1>6, <1>8
<1>9. CASE b[1] = 3
  BY <1>4, <1>5, <1>6, <1>9
<1>10. CASE b[1] = 1
  BY <1>4, <1>5, <1>6, <1>10
<1>11. CASE b[1] = 2
  BY <1>4, <1>5, <1>6, <1>11
<1> QED BY <1>7, <1>8, <1>9, <1>10, <1>11

LEMMA FeedingSteps ==
  ASSUME NEW s \in Fed, NEW chunk \in Seq(Byte)
  PROVE  \E at : /\ Feeding(s, chunk) = at[Len(chunk)] /\ at \in [0..Len(chunk) -> Fed]
                 /\ at[0] = s /\ \A k \in 1..Len(chunk) : at[k] = Feed(at[k-1], chunk[k])
<1> DEFINE n == Len(chunk)
           Upto(f) == f = [k \in 0..n |-> IF k = 0 THEN s ELSE Feed(f[k-1], chunk[k])]
           chosen == CHOOSE f : Upto(f)
           G == [k \in 1..n |-> [t \in Fed |-> Feed(t, chunk[k])]]
<1>1. n \in Nat /\ \A k \in 1..n : chunk[k] \in Byte
  OBVIOUS
<1>2. Feeding(s, chunk) = chosen[n]
  BY DEF Feeding
<1> HIDE DEF n
<1>3. PICK at \in [0..n -> Fed] : Steps(n, s, G, at)
  <2>1. \A k \in 1..n : G[k] \in [Fed -> Fed]
    BY <1>1, FeedTyped
  <2>2. G \in [1..n -> [Fed -> Fed]]
    BY <2>1
  <2> HIDE DEF G
  <2> QED BY ONLY <1>1, <2>2, s \in Fed, Iterates
<1>4. \A k \in 1..n : k - 1 \in 0..n /\ k \in 0..n /\ k # 0
  BY <1>1
<1>5. at[0] = s /\ \A k \in 1..n : at[k] = Feed(at[k-1], chunk[k])
  BY <1>3, <1>4 DEF Steps
<1>6. Upto(at)
  <2>1. \A k \in 0..n : k = 0 \/ k \in 1..n
    BY <1>1
  <2>2. \A k \in 0..n : at[k] = IF k = 0 THEN s ELSE Feed(at[k-1], chunk[k])
    BY <1>5, <2>1
  <2> HIDE DEF G
  <2> QED BY <1>3, <2>2
<1>7. Upto(chosen)
  <2> HIDE DEF Upto
  <2> QED BY <1>6
<1> HIDE DEF chosen, G
<1>8. chosen[0] = s /\ \A k \in 1..n : chosen[k] = Feed(chosen[k-1], chunk[k])
  <2>1. \A k \in 0..n : chosen[k] = IF k = 0 THEN s ELSE Feed(chosen[k-1], chunk[k])
    BY <1>7
  <2>2. 0 \in 0..n
    BY <1>1
  <2> QED BY <1>4, <2>1, <2>2
<1>9. \A k \in 0..n : chosen[k] \in Fed
  <2> DEFINE T == {k \in 0..n : chosen[k] \in Fed}
  <2>1. 0 \in T
    BY <1>1, <1>8
  <2>2. ASSUME NEW k \in 1..n, k - 1 \in T
        PROVE  k \in T
    <3>1. chosen[k-1] \in Fed /\ chunk[k] \in Byte /\ k \in 0..n
      BY <1>1, <1>4, <2>2
    <3>2. chosen[k] \in Fed
      BY <1>8, <3>1, FeedTyped
    <3> QED BY <3>1, <3>2
  <2>3. T \in SUBSET (0..n)
    OBVIOUS
  <2>4. T = 0..n
    <3> HIDE DEF T
    <3> QED BY <1>1, <2>1, <2>2, <2>3, Induction
  <2> QED BY <2>4
<1>10. chosen \in [0..n -> Fed]
  <2>1. chosen = [k \in 0..n |-> chosen[k]]
    BY <1>7
  <2> HIDE DEF Upto
  <2> QED BY <1>9, <2>1
<1> QED BY <1>2, <1>8, <1>10 DEF n

LEMMA FeedingGrows ==
  ASSUME NEW s \in Fed, NEW chunk \in Seq(Byte)
  PROVE  /\ Feeding(s, chunk) \in Fed
         /\ Feeding(s, <<>>) = s
         /\ \A b \in Byte : Feeding(s, Append(chunk, b)) = Feed(Feeding(s, chunk), b)
<1> DEFINE n == Len(chunk)
<1>1. PICK at : /\ Feeding(s, chunk) = at[n] /\ at \in [0..n -> Fed]
                /\ at[0] = s /\ \A k \in 1..n : at[k] = Feed(at[k-1], chunk[k])
  BY FeedingSteps
<1>2. Feeding(s, chunk) \in Fed
  BY <1>1
<1>3. Feeding(s, <<>>) = s
  <2>1. <<>> \in Seq(Byte) /\ Len(<<>>) = 0
    OBVIOUS
  <2>2. PICK none : Feeding(s, <<>>) = none[Len(<<>>)] /\ none[0] = s
    BY <2>1, FeedingSteps
  <2> QED BY <2>1, <2>2
<1>4. ASSUME NEW b \in Byte
      PROVE  Feeding(s, Append(chunk, b)) = Feed(Feeding(s, chunk), b)
  <2> DEFINE more == Append(chunk, b)
  <2>1. /\ more \in Seq(Byte) /\ Len(more) = n + 1 /\ n \in Nat
        /\ \A k \in 1..n : more[k] = chunk[k]
        /\ more[n+1] = b
    OBVIOUS
  <2> HIDE DEF more, n
  <2>2. PICK on : /\ Feeding(s, more) = on[n+1]
                  /\ on[0] = s /\ \A k \in 1..n+1 : on[k] = Feed(on[k-1], more[k])
    BY <2>1, FeedingSteps
  <2> DEFINE T == {k \in 0..n : on[k] = at[k]}
  <2>3. 0 \in T
    BY <1>1, <2>1, <2>2
  <2>4. ASSUME NEW k \in 1..n, k - 1 \in T
        PROVE  k \in T
    <3>1. on[k-1] = at[k-1] /\ k \in 0..n /\ k \in 1..n+1 /\ more[k] = chunk[k]
      BY <2>1, <2>4
    <3>2. on[k] = Feed(on[k-1], more[k]) /\ at[k] = Feed(at[k-1], chunk[k])
      BY <1>1, <2>2, <3>1
    <3>3. on[k] = at[k]
      BY <3>1, <3>2
    <3> QED BY <3>1, <3>3
  <2>5. n \in T
    <3>1. T \in SUBSET (0..n)
      OBVIOUS
    <3> HIDE DEF T
    <3>2. T = 0..n
      BY <2>1, <2>3, <2>4, <3>1, Induction
    <3> QED BY <2>1, <3>2
  <2>6. on[n+1] = Feed(on[n], b)
    <3>1. n + 1 \in 1..n+1 /\ (n + 1) - 1 = n
      BY <2>1
    <3>2. on[n+1] = Feed(on[(n+1)-1], more[n+1])
      BY <2>2, <3>1
    <3> QED BY <2>1, <3>1, <3>2
  <2> QED BY <1>1, <2>2, <2>5, <2>6 DEF more
<1> QED BY <1>2, <1>3, <1>4

-----------------------------------------------------------------------------
(* The lines of a stream                                                   *)

Line == Seq(Byte)
SolidByte == {b \in Byte : b[1] \in {0, 2}}

LEMMA SolidGrows ==
  ASSUME NEW bytes \in Seq(Byte)
  PROVE  /\ Solid(bytes) \in Seq(Byte)
         /\ Solid(<<>>) = <<>>
         /\ \A b \in Byte : Solid(Append(bytes, b)) = IF b[1] \in {0, 2} THEN Append(Solid(bytes), b)
                                                      ELSE Solid(bytes)
<1>1. ASSUME NEW s \in Seq(Byte)
      PROVE  Solid(s) = Among(s, SolidByte)
  <2> DEFINE X == ToSet(s)
             S == {b \in X : b[1] \in {0, 2}}
  <2>1. s \in Seq(X) /\ X \subseteq Byte
    BY DEF ToSet
  <2>2. \A b \in X : b \in S <=> b \in SolidByte
    BY <2>1 DEF SolidByte
  <2> HIDE DEF S, X
  <2>3. Among(s, S) = Among(s, SolidByte)
    BY <2>1, <2>2, AmongSame
  <2> QED BY <2>3 DEF S, X, Solid
<1>2. <<>> \in Seq(Byte)
  OBVIOUS
<1>3. Solid(bytes) \in Seq(Byte) /\ Solid(<<>>) = <<>>
  BY <1>1, <1>2, AmongSeq, AmongNothing
<1>4. ASSUME NEW b \in Byte
      PROVE  Solid(Append(bytes, b)) = IF b[1] \in {0, 2} THEN Append(Solid(bytes), b)
                                       ELSE Solid(bytes)
  <2>1. Append(bytes, b) \in Seq(Byte)
    OBVIOUS
  <2>2. Among(Append(bytes, b), SolidByte) = IF b \in SolidByte THEN Append(Among(bytes, SolidByte), b)
                                             ELSE Among(bytes, SolidByte)
    BY AmongGrows
  <2>3. b \in SolidByte <=> b[1] \in {0, 2}
    BY DEF SolidByte
  <2> QED BY <1>1, <2>1, <2>2, <2>3
<1> QED BY <1>3, <1>4

\* What a text has after its last newline.
Remainder(text) == SubSeq(text, Ends(text)[Len(Ends(text))] + 1, Len(text))

Positions(text) == [i \in DOMAIN text |-> i]
Newlines(text) == {i \in DOMAIN text : text[i] = NL}

LEMMA EndsGrow ==
  ASSUME NEW text \in Seq(Byte)
  PROVE  /\ Ends(text) \in Seq(0..Len(text)) /\ Ends(text) # <<>>
         /\ Ends(<<>>) = <<0>>
         /\ \A b \in Byte : Ends(Append(text, b)) = IF b = NL THEN Append(Ends(text), Len(text) + 1)
                                                    ELSE Ends(text)
<1> DEFINE n == Len(text)
<1>1. n \in Nat /\ Positions(text) \in Seq(1..n)
  BY DEF Positions
<1>2. Ends(text) = <<0>> \o Among(Positions(text), Newlines(text))
  BY DEF Ends, Positions, Newlines
<1>3. Among(Positions(text), Newlines(text)) \in Seq(1..n)
  BY <1>1, AmongSeq
<1>4. Ends(text) \in Seq(0..n) /\ Ends(text) # <<>>
  <2>1. Among(Positions(text), Newlines(text)) \in Seq(0..n)
    <3>1. 1..n \subseteq 0..n
      BY <1>1
    <3> QED BY <1>3, <3>1, SeqMonotonic
  <2>2. <<0>> \in Seq(0..n)
    BY <1>1
  <2> DEFINE found == Among(Positions(text), Newlines(text))
  <2> HIDE DEF n, found
  <2>3. <<0>> \o found \in Seq(0..n) /\ Len(<<0>> \o found) = 1 + Len(found) /\ Len(found) \in Nat
    BY <2>1, <2>2, ConcatProperties DEF found
  <2> QED BY <1>2, <2>3 DEF found
<1>5. Ends(<<>>) = <<0>>
  <2>1. Positions(<<>>) = <<>>
    BY DEF Positions
  <2>2. Ends(<<>>) = <<0>> \o Among(Positions(<<>>), Newlines(<<>>))
    BY DEF Ends, Positions, Newlines
  <2> QED BY <2>1, <2>2, AmongNothing
<1>6. ASSUME NEW b \in Byte
      PROVE  Ends(Append(text, b)) = IF b = NL THEN Append(Ends(text), n + 1) ELSE Ends(text)
  <2> DEFINE more == Append(text, b)
  <2>1. Ends(more) = <<0>> \o Among(Positions(more), Newlines(more))
    BY DEF Ends, Positions, Newlines
  <2>2. Positions(more) = Append(Positions(text), n + 1)
    BY <1>1 DEF Positions
  <2>3. n + 1 \in Newlines(more) <=> b = NL
    BY <1>1 DEF Newlines
  <2>4. Among(Positions(text), Newlines(more)) = Among(Positions(text), Newlines(text))
    <3>1. \A i \in 1..n : i \in Newlines(more) <=> i \in Newlines(text)
      BY <1>1 DEF Newlines
    <3> HIDE DEF more, n
    <3> QED BY <1>1, <3>1, AmongSame
  <2> HIDE DEF more
  <2>5. Among(Positions(more), Newlines(more))
          = IF b = NL THEN Append(Among(Positions(text), Newlines(text)), n + 1)
            ELSE Among(Positions(text), Newlines(text))
    <3>1. 1..n \subseteq Nat /\ n + 1 \in Nat
      BY <1>1
    <3> HIDE DEF n
    <3>2. Positions(text) \in Seq(Nat)
      BY <1>1, <3>1, SeqMonotonic
    <3> DEFINE next == n + 1
    <3> HIDE DEF next
    <3>3. Among(Append(Positions(text), next), Newlines(more))
            = IF next \in Newlines(more) THEN Append(Among(Positions(text), Newlines(more)), next)
              ELSE Among(Positions(text), Newlines(more))
      <4>1. next \in Nat
        BY <3>1 DEF next
      <4> QED BY ONLY <3>2, <4>1, AmongGrows
    <3> QED BY <2>2, <2>3, <2>4, <3>3 DEF next
  <2>6. <<0>> \o Append(Among(Positions(text), Newlines(text)), n + 1)
          = Append(<<0>> \o Among(Positions(text), Newlines(text)), n + 1)
    BY <1>1, <1>3
  <2> QED BY <1>2, <2>1, <2>5, <2>6 DEF more
<1> QED BY <1>4, <1>5, <1>6

LEMMA Parts ==
  ASSUME NEW X, NEW s \in Seq(X), NEW a \in 1..Len(s)+1, NEW x \in X
  PROVE  /\ \A b \in 0..Len(s) : /\ SubSeq(s, a, b) \in Seq(X)
                                 /\ SubSeq(Append(s, x), a, b) = SubSeq(s, a, b)
         /\ SubSeq(Append(s, x), a, Len(s) + 1) = Append(SubSeq(s, a, Len(s)), x)
         /\ SubSeq(s, Len(s) + 1, Len(s)) = <<>>
<1>1. ASSUME NEW b \in 0..Len(s)
      PROVE  SubSeq(s, a, b) \in Seq(X) /\ SubSeq(Append(s, x), a, b) = SubSeq(s, a, b)
  OBVIOUS
<1>2. SubSeq(Append(s, x), a, Len(s) + 1) = Append(SubSeq(s, a, Len(s)), x)
  OBVIOUS
<1>3. SubSeq(s, Len(s) + 1, Len(s)) = <<>>
  OBVIOUS
<1> QED BY <1>1, <1>2, <1>3

LEMMA CutGrows ==
  ASSUME NEW text \in Seq(Byte)
  PROVE  /\ Cut(text) \in Seq(Line) /\ Remainder(text) \in Line
         /\ Cut(<<>>) = <<>> /\ Remainder(<<>>) = <<>>
         /\ \A b \in Byte :
              /\ Cut(Append(text, b)) = IF b = NL THEN Append(Cut(text), Remainder(text)) ELSE Cut(text)
              /\ Remainder(Append(text, b)) = IF b = NL THEN <<>> ELSE Append(Remainder(text), b)
<1> DEFINE n == Len(text)
           ends == Ends(text)
           m == Len(ends)
<1>1. /\ n \in Nat /\ m \in Nat /\ m >= 1
      /\ \A k \in 1..m : ends[k] \in 0..n
      /\ ends \in Seq(0..n)
  <2>1. ends \in Seq(0..n) /\ ends # <<>>
    BY EndsGrow
  <2>2. n \in Nat
    OBVIOUS
  <2> HIDE DEF n, ends
  <2> QED BY <2>1, <2>2
<1>2. \A k \in 1..m-1 : SubSeq(text, ends[k] + 1, ends[k+1] - 1) \in Line
  <2> SUFFICES ASSUME NEW k \in 1..m-1
               PROVE  SubSeq(text, ends[k] + 1, ends[k+1] - 1) \in Line
    OBVIOUS
  <2>1. ends[k] \in 0..n /\ ends[k+1] \in 0..n
    BY <1>1
  <2>2. \A x \in 0..n, y \in 0..n : SubSeq(text, x + 1, y - 1) \in Seq(Byte)
    OBVIOUS
  <2> HIDE DEF ends, m, n
  <2> QED BY <2>1, <2>2 DEF Line
<1>3. Cut(text) = [k \in 1..m-1 |-> SubSeq(text, ends[k] + 1, ends[k+1] - 1)]
  BY DEF Cut
<1>4. Cut(text) \in Seq(Line) /\ Len(Cut(text)) = m - 1
  <2> HIDE DEF m, ends
  <2> QED BY <1>1, <1>2, <1>3
<1>5. ends[m] + 1 \in 1..n+1
  <2> HIDE DEF m, n, ends
  <2> QED BY <1>1
<1>6. Remainder(text) = SubSeq(text, ends[m] + 1, n)
  BY DEF Remainder
<1>7. Remainder(text) \in Line
  <2>1. NL \in Byte /\ n \in 0..n
    BY <1>1 DEF Byte
  <2> QED BY <1>5, <1>6, <2>1, Parts DEF Line
<1>8. Cut(<<>>) = <<>> /\ Remainder(<<>>) = <<>>
  <2>1. Ends(<<>>) = <<0>>
    BY EndsGrow
  <2>2. Cut(<<>>) = [k \in 1..Len(<<0>>)-1 |-> SubSeq(<<>>, <<0>>[k] + 1, <<0>>[k+1] - 1)]
    BY <2>1 DEF Cut
  <2>3. Remainder(<<>>) = SubSeq(<<>>, <<0>>[Len(<<0>>)] + 1, Len(<<>>))
    BY <2>1 DEF Remainder
  <2>4. Len(<<0>>) = 1 /\ <<0>>[1] = 0 /\ 1..0 = {} /\ Len(<<>>) = 0
    OBVIOUS
  <2>5. SubSeq(<<>>, 1, 0) = <<>>
    OBVIOUS
  <2>6. [k \in 1..Len(<<0>>)-1 |-> SubSeq(<<>>, <<0>>[k] + 1, <<0>>[k+1] - 1)] = <<>>
    BY <2>4
  <2> QED BY <2>2, <2>3, <2>4, <2>5, <2>6
<1>9. ASSUME NEW b \in Byte
      PROVE  /\ Cut(Append(text, b)) = IF b = NL THEN Append(Cut(text), Remainder(text)) ELSE Cut(text)
             /\ Remainder(Append(text, b)) = IF b = NL THEN <<>> ELSE Append(Remainder(text), b)
  <2> DEFINE more == Append(text, b)
             on == Ends(more)
  <2>1. more \in Seq(Byte) /\ Len(more) = n + 1
    OBVIOUS
  <2>2. on = IF b = NL THEN Append(ends, n + 1) ELSE ends
    BY EndsGrow
  <2>3. Cut(more) = [k \in 1..Len(on)-1 |-> SubSeq(more, on[k] + 1, on[k+1] - 1)]
    BY DEF Cut
  <2>4. Remainder(more) = SubSeq(more, on[Len(on)] + 1, n + 1)
    BY <2>1 DEF Remainder
  <2>5. \A x \in 0..n, y \in 0..n+1 : SubSeq(more, x + 1, y - 1) = SubSeq(text, x + 1, y - 1)
    OBVIOUS
  <2>6. /\ SubSeq(more, ends[m] + 1, n + 1) = Append(SubSeq(text, ends[m] + 1, n), b)
        /\ SubSeq(more, (n + 1) + 1, n + 1) = <<>>
    <3>1. SubSeq(more, ends[m] + 1, n + 1) = Append(SubSeq(text, ends[m] + 1, n), b)
      BY <1>5, Parts
    <3>2. SubSeq(more, (n + 1) + 1, n + 1) = <<>>
      <4>1. Len(more) + 1 \in 1..Len(more) + 1
        BY <1>1, <2>1
      <4> HIDE DEF more
      <4> QED BY <2>1, <4>1, Parts
    <3> QED BY <3>1, <3>2
  <2> HIDE DEF more, on, ends, m, n
  <2>7. CASE b # NL
    <3>1. on = ends
      BY <2>2, <2>7
    <3>2. \A k \in 1..m-1 : SubSeq(more, ends[k] + 1, ends[k+1] - 1)
                              = SubSeq(text, ends[k] + 1, ends[k+1] - 1)
      <4>1. \A k \in 1..m-1 : ends[k] \in 0..n /\ ends[k+1] \in 0..n+1
        BY <1>1
      <4> QED BY <2>5, <4>1
    <3>3. Cut(more) = Cut(text)
      BY <1>3, <2>3, <3>1, <3>2 DEF m
    <3>4. Remainder(more) = Append(Remainder(text), b)
      BY <1>6, <2>4, <2>6, <3>1 DEF m
    <3> QED BY <2>7, <3>3, <3>4 DEF more
  <2>8. CASE b = NL
    <3>1. on = Append(ends, n + 1)
      BY <2>2, <2>8
    <3>2. /\ Len(on) = m + 1 /\ on[m+1] = n + 1
          /\ \A k \in 1..m : on[k] = ends[k]
      BY <1>1, <3>1 DEF m
    <3>3. Remainder(more) = <<>>
      BY <2>4, <2>6, <3>2
    <3>4. \A k \in 1..m-1 : SubSeq(more, on[k] + 1, on[k+1] - 1)
                              = SubSeq(text, ends[k] + 1, ends[k+1] - 1)
      <4>1. \A k \in 1..m-1 : /\ ends[k] \in 0..n /\ ends[k+1] \in 0..n+1
                              /\ on[k] = ends[k] /\ on[k+1] = ends[k+1]
        BY <1>1, <3>2
      <4> QED BY <2>5, <4>1
    <3>5. SubSeq(more, on[m] + 1, on[m+1] - 1) = Remainder(text)
      <4>1. m \in 1..m /\ on[m] = ends[m] /\ on[m+1] = n + 1 /\ ends[m] \in 0..n /\ n + 1 \in 0..n+1
        BY <1>1, <3>2
      <4>2. (n + 1) - 1 = n
        BY <1>1
      <4>3. SubSeq(more, ends[m] + 1, (n + 1) - 1) = SubSeq(text, ends[m] + 1, (n + 1) - 1)
        BY <2>5, <4>1
      <4> QED BY <1>6, <4>1, <4>2, <4>3
    <3>6. Cut(more) = [k \in 1..m |-> SubSeq(more, on[k] + 1, on[k+1] - 1)]
      <4>1. Len(on) - 1 = m
        BY <1>1, <3>2
      <4> QED BY <2>3, <4>1
    <3>7. Cut(more) = Append(Cut(text), Remainder(text))
      <4>1. \A k \in 1..m-1 : Cut(more)[k] = Cut(text)[k]
        <5>1. \A k \in 1..m-1 : k \in 1..m
          BY <1>1
        <5>2. \A k \in 1..m-1 : Cut(more)[k] = SubSeq(more, on[k] + 1, on[k+1] - 1)
          BY <3>6, <5>1
        <5>3. \A k \in 1..m-1 : Cut(text)[k] = SubSeq(text, ends[k] + 1, ends[k+1] - 1)
          BY <1>3
        <5> QED BY <3>4, <5>2, <5>3
      <4>2. Cut(more)[m] = Remainder(text)
        BY <1>1, <3>5, <3>6
      <4>3. Cut(more) \in Seq(Line) /\ Len(Cut(more)) = m
        <5>1. \A k \in 1..m : SubSeq(more, on[k] + 1, on[k+1] - 1) \in Line
          <6>1. \A k \in 1..m : k = m \/ k \in 1..m-1
            BY <1>1
          <6> QED BY <1>2, <1>7, <3>4, <3>5, <6>1
        <5> QED BY <1>1, <3>6, <5>1
      <4> DEFINE cut == Cut(text)
                 longer == Cut(more)
                 rest == Remainder(text)
      <4>4. Append(cut, rest) \in Seq(Line) /\ Len(Append(cut, rest)) = m
        BY <1>1, <1>4, <1>7
      <4>5. \A k \in 1..m : longer[k] = Append(cut, rest)[k]
        <5> HIDE DEF cut, longer, rest
        <5>1. \A k \in 1..m-1 : Append(cut, rest)[k] = cut[k]
          BY <1>1, <1>4, <1>7 DEF cut, rest
        <5>2. Append(cut, rest)[m] = rest
          BY <1>1, <1>4, <1>7 DEF cut, rest
        <5>3. \A k \in 1..m : k = m \/ k \in 1..m-1
          BY <1>1
        <5> QED BY <4>1, <4>2, <5>1, <5>2, <5>3 DEF cut, longer, rest
      <4> HIDE DEF cut, longer, rest
      <4>6. longer = Append(cut, rest)
        BY <4>3, <4>4, <4>5, SeqEqual DEF longer
      <4> QED BY <4>6 DEF cut, longer, rest
    <3> QED BY <2>8, <3>3, <3>7 DEF more
  <2> QED BY <2>7, <2>8
<1> QED BY <1>4, <1>7, <1>8, <1>9

\* The solid text a stream has after its last newline.
Unended(bytes) == Remainder(Solid(bytes))

LEMMA LinesGrow ==
  ASSUME NEW bytes \in Seq(Byte)
  PROVE  /\ LinesOf(bytes) \in Seq(Line) /\ Unended(bytes) \in Line
         /\ LinesOf(<<>>) = <<>> /\ Unended(<<>>) = <<>>
         /\ \A b \in Byte :
              /\ LinesOf(Append(bytes, b))
                   = IF b = NL /\ Unended(bytes) # <<>> THEN Append(LinesOf(bytes), Unended(bytes))
                     ELSE LinesOf(bytes)
              /\ Unended(Append(bytes, b)) = IF b = NL THEN <<>>
                                             ELSE IF b[1] = 2 THEN Append(Unended(bytes), b)
                                             ELSE Unended(bytes)
<1> DEFINE Full == Line \ {<<>>}
<1>1. ASSUME NEW s \in Seq(Byte)
      PROVE  LinesOf(s) = Among(Cut(Solid(s)), Full)
  <2> DEFINE cut == Cut(Solid(s))
             X == ToSet(cut)
             S == X \ {<<>>}
  <2>1. cut \in Seq(Line)
    BY SolidGrows, CutGrows
  <2>2. LinesOf(s) = Among(cut, S)
    BY DEF LinesOf
  <2> HIDE DEF cut
  <2>3. cut \in Seq(X) /\ X \subseteq Line
    BY <2>1 DEF ToSet
  <2>4. \A l \in X : l \in S <=> l \in Full
    BY <2>3
  <2> HIDE DEF S, X, Full
  <2>5. Among(cut, S) = Among(cut, Full)
    BY <2>3, <2>4, AmongSame
  <2> QED BY <2>2, <2>5 DEF cut
<1>2. <<>> \in Seq(Byte) /\ NL \in Byte
  BY DEF Byte
<1>3. Solid(bytes) \in Seq(Byte) /\ Solid(<<>>) = <<>>
  BY SolidGrows
<1> HIDE DEF Full
<1>4. /\ Cut(Solid(bytes)) \in Seq(Line) /\ Unended(bytes) \in Line
      /\ Cut(<<>>) = <<>> /\ Remainder(<<>>) = <<>>
  BY <1>3, CutGrows DEF Unended
<1>5. LinesOf(bytes) \in Seq(Line)
  BY <1>1, <1>4, AmongSeq
<1>6. LinesOf(<<>>) = <<>> /\ Unended(<<>>) = <<>>
  BY <1>1, <1>2, <1>3, <1>4, AmongNothing DEF Unended
<1>7. ASSUME NEW b \in Byte
      PROVE  /\ LinesOf(Append(bytes, b))
                  = IF b = NL /\ Unended(bytes) # <<>> THEN Append(LinesOf(bytes), Unended(bytes))
                    ELSE LinesOf(bytes)
             /\ Unended(Append(bytes, b)) = IF b = NL THEN <<>>
                                            ELSE IF b[1] = 2 THEN Append(Unended(bytes), b)
                                            ELSE Unended(bytes)
  <2> DEFINE more == Append(bytes, b)
             text == Solid(bytes)
  <2>1. more \in Seq(Byte)
    OBVIOUS
  <2>2. Solid(more) = IF b[1] \in {0, 2} THEN Append(text, b) ELSE text
    BY SolidGrows
  <2>3. b[1] \in {0, 1, 2, 3} /\ (b = NL <=> b[1] = 0)
    BY Bytes
  <2>4. LinesOf(more) = Among(Cut(Solid(more)), Full)
    BY <1>1, <2>1
  <2> HIDE DEF more, text
  <2>5. /\ Cut(Append(text, b)) = IF b = NL THEN Append(Cut(text), Remainder(text)) ELSE Cut(text)
        /\ Remainder(Append(text, b)) = IF b = NL THEN <<>> ELSE Append(Remainder(text), b)
    BY <1>3, CutGrows DEF text
  <2>6. Cut(Solid(more)) = IF b = NL THEN Append(Cut(text), Remainder(text)) ELSE Cut(text)
    BY <2>2, <2>3, <2>5
  <2>7. Among(Append(Cut(text), Remainder(text)), Full)
          = IF Remainder(text) # <<>> THEN Append(Among(Cut(text), Full), Remainder(text))
            ELSE Among(Cut(text), Full)
    <3> DEFINE cut == Cut(text)
               rest == Remainder(text)
    <3>1. cut \in Seq(Line) /\ rest \in Line
      BY <1>4 DEF text, Unended
    <3> HIDE DEF cut, rest
    <3>2. Among(Append(cut, rest), Full) = IF rest \in Full THEN Append(Among(cut, Full), rest)
                                           ELSE Among(cut, Full)
      BY <3>1, AmongGrows
    <3> QED BY <3>1, <3>2 DEF Full, cut, rest
  <2>8. LinesOf(bytes) = Among(Cut(text), Full) /\ Unended(bytes) = Remainder(text)
    BY <1>1 DEF text, Unended
  <2>9. LinesOf(more) = IF b = NL /\ Unended(bytes) # <<>> THEN Append(LinesOf(bytes), Unended(bytes))
                        ELSE LinesOf(bytes)
    BY <2>4, <2>6, <2>7, <2>8
  <2>10. Unended(more) = IF b = NL THEN <<>>
                         ELSE IF b[1] = 2 THEN Append(Unended(bytes), b) ELSE Unended(bytes)
    BY <2>2, <2>3, <2>5, <2>8 DEF Unended
  <2> QED BY <2>9, <2>10 DEF more
<1> QED BY <1>4, <1>5, <1>6, <1>7

-----------------------------------------------------------------------------
(* What the tap makes of it                                                *)

LastByte(bytes) == IF bytes = <<>> THEN NL ELSE bytes[Len(bytes)]

\* What an agent writes after a byte: messages and blank lines, each ended.
Follows(b, next) ==
  \/ b[1] = 0 /\ next[1] \in {1, 3}
  \/ b[1] = 1 /\ next[1] = 2
  \/ b[1] \in {2, 3} /\ next[1] = 0

WellFormed(bytes) ==
  \A i \in 1..Len(bytes) : Follows(IF i = 1 THEN NL ELSE bytes[i-1], bytes[i])

\* The splitter after a byte: what it holds back, and what it has of a line.
After(b, lns) == Splitter(IF b[1] = 1 THEN <<b>> ELSE <<>>,
                          IF b[1] \in {2, 3} THEN <<b>> ELSE <<>>, lns)

LEMMA WellFormedGrows ==
  ASSUME NEW bytes \in Seq(Byte), NEW b \in Byte
  PROVE  /\ LastByte(bytes) \in Byte /\ LastByte(Append(bytes, b)) = b
         /\ WellFormed(Append(bytes, b)) <=> WellFormed(bytes) /\ Follows(LastByte(bytes), b)
<1> DEFINE n == Len(bytes)
           more == Append(bytes, b)
<1>1. /\ n \in Nat /\ Len(more) = n + 1 /\ more[n+1] = b /\ more # <<>>
      /\ \A i \in 1..n : more[i] = bytes[i] /\ bytes[i] \in Byte
      /\ bytes = <<>> <=> n = 0
  OBVIOUS
<1>2. NL \in Byte
  BY DEF Byte
<1> HIDE DEF n, more
<1>3. LastByte(bytes) \in Byte /\ LastByte(more) = b
  BY <1>1, <1>2 DEF LastByte, n
<1>4. LastByte(bytes) = IF n + 1 = 1 THEN NL ELSE more[(n+1)-1]
  BY <1>1 DEF LastByte, n
<1>5. WellFormed(more) <=> \A i \in 1..n+1 : Follows(IF i = 1 THEN NL ELSE more[i-1], more[i])
  BY <1>1 DEF WellFormed
<1>6. WellFormed(bytes) <=> \A i \in 1..n : Follows(IF i = 1 THEN NL ELSE more[i-1], more[i])
  <2>1. \A i \in 1..n : i = 1 \/ i - 1 \in 1..n
    BY <1>1
  <2>2. \A i \in 1..n : (IF i = 1 THEN NL ELSE more[i-1]) = (IF i = 1 THEN NL ELSE bytes[i-1])
    BY <1>1, <2>1
  <2> QED BY <1>1, <2>2 DEF WellFormed, n
<1>7. \A i \in 1..n+1 : i \in 1..n \/ i = n + 1
  BY <1>1
<1>8. 1..n \subseteq 1..n+1 /\ n + 1 \in 1..n+1
  BY <1>1
<1>9. WellFormed(more) <=> WellFormed(bytes) /\ Follows(LastByte(bytes), b)
  BY <1>1, <1>4, <1>5, <1>6, <1>7, <1>8
<1> QED BY <1>3, <1>9 DEF more

LEMMA HandedAfter ==
  ASSUME NEW b \in Byte
  PROVE  /\ Handed(<<>>) = <<>>
         /\ b[1] = 3 => Handed(<<b>>) = <<>>
         /\ b[1] = 2 => Handed(<<b>>) = <<<<b>>>>
<1>1. Handed(<<>>) = <<>>
  <2>1. Trim(<<>>) = <<>>
    BY DEF Trim
  <2> QED BY <2>1 DEF Handed
<1>2. b = WS <=> b[1] = 3
  BY Bytes
<1>3. b[1] = 3 => Handed(<<b>>) = <<>>
  <2> SUFFICES ASSUME b = WS
               PROVE  Handed(<<b>>) = <<>>
    BY <1>2
  <2>1. {i \in DOMAIN <<b>> : <<b>>[i] # WS} = {}
    OBVIOUS
  <2>2. Trim(<<b>>) = <<>>
    BY <2>1 DEF Trim
  <2> QED BY <2>2 DEF Handed
<1>4. b[1] = 2 => Handed(<<b>>) = <<<<b>>>>
  <2> SUFFICES ASSUME b # WS
               PROVE  Handed(<<b>>) = <<<<b>>>>
    BY <1>2
  <2>1. {i \in DOMAIN <<b>> : <<b>>[i] # WS} = {1}
    OBVIOUS
  <2>2. Min({1}) = 1 /\ Max({1}) = 1
    BY DEF Min, Max
  <2>3. Trim(<<b>>) = SubSeq(<<b>>, 1, 1)
    BY <2>1, <2>2 DEF Trim
  <2>4. <<b>> \in Seq(Byte) /\ Len(<<b>>) = 1 /\ <<b>> # <<>>
    OBVIOUS
  <2>5. SubSeq(<<b>>, 1, Len(<<b>>)) = <<b>>
    BY <2>4, SubSeqFull
  <2> QED BY <2>3, <2>4, <2>5 DEF Handed
<1> QED BY <1>1, <1>3, <1>4

LEMMA FeedAfter ==
  ASSUME NEW a \in Byte, NEW b \in Byte, Follows(a, b), NEW lns \in Seq(Line)
  PROVE  Feed(After(a, lns), b) = After(b, IF a[1] = 2 THEN Append(lns, <<a>>) ELSE lns)
<1> DEFINE half == IF a[1] = 1 THEN <<a>> ELSE <<>>
           buffered == IF a[1] \in {2, 3} THEN <<a>> ELSE <<>>
<1>1. After(a, lns) = Splitter(half, buffered, lns)
  BY DEF After
<1>2. /\ b[1] = 0 => Feed(After(a, lns), b) = Splitter(half, <<>>, lns \o Handed(buffered))
      /\ b[1] = 3 => Feed(After(a, lns), b) = Splitter(half, Append(buffered, WS), lns)
      /\ b[1] = 1 => Feed(After(a, lns), b) = Splitter(<<b>>, buffered, lns)
      /\ b[1] = 2 => Feed(After(a, lns), b) = Splitter(<<>>, Append(buffered, IF half = <<>> THEN Garbled ELSE b), lns)
  <2> HIDE DEF half, buffered
  <2> QED BY <1>1, FeedCases
<1>3. a[1] \in {0, 1, 2, 3} /\ b[1] \in {0, 1, 2, 3} /\ (b = WS <=> b[1] = 3)
  BY Bytes
<1>4. /\ a[1] = 0 => half = <<>> /\ buffered = <<>>
      /\ a[1] = 1 => half = <<a>> /\ buffered = <<>>
      /\ a[1] \in {2, 3} => half = <<>> /\ buffered = <<a>>
  OBVIOUS
<1>5. /\ b[1] = 0 => \A l : After(b, l) = Splitter(<<>>, <<>>, l)
      /\ b[1] = 1 => \A l : After(b, l) = Splitter(<<b>>, <<>>, l)
      /\ b[1] \in {2, 3} => \A l : After(b, l) = Splitter(<<>>, <<b>>, l)
  BY DEF After
<1> HIDE DEF half, buffered
<1>6. CASE b[1] = 0
  <2>1. a[1] \in {2, 3}
    BY <1>6 DEF Follows
  <2>2. lns \o Handed(buffered) = IF a[1] = 2 THEN Append(lns, <<a>>) ELSE lns
    <3>1. Handed(buffered) = IF a[1] = 2 THEN <<<<a>>>> ELSE <<>>
      BY <1>4, <2>1, HandedAfter
    <3>2. <<a>> \in Line
      BY DEF Line
    <3> DEFINE line == <<a>>
    <3> HIDE DEF line
    <3>3. lns \o <<line>> = Append(lns, line) /\ lns \o <<>> = lns
      BY <3>2 DEF line
    <3> QED BY <3>1, <3>3 DEF line
  <2> QED BY <1>2, <1>4, <1>5, <1>6, <2>1, <2>2
<1>7. CASE b[1] = 3
  <2>1. a[1] = 0 /\ b = WS
    BY <1>3, <1>7 DEF Follows
  <2>2. Append(<<>>, WS) = <<WS>>
    OBVIOUS
  <2> QED BY <1>2, <1>4, <1>5, <1>7, <2>1, <2>2
<1>8. CASE b[1] = 1
  <2>1. a[1] = 0
    BY <1>8 DEF Follows
  <2> QED BY <1>2, <1>4, <1>5, <1>8, <2>1
<1>9. CASE b[1] = 2
  <2>1. a[1] = 1
    BY <1>9 DEF Follows
  <2>2. Append(<<>>, b) = <<b>> /\ <<a>> # <<>>
    OBVIOUS
  <2> QED BY <1>2, <1>4, <1>5, <1>9, <2>1, <2>2
<1> QED BY <1>3, <1>6, <1>7, <1>8, <1>9

LEMMA UnendedIs ==
  \A s \in Seq(Byte) :
    WellFormed(s) => Unended(s) = IF LastByte(s)[1] = 2 THEN <<LastByte(s)>> ELSE <<>>
<1> DEFINE Good(s) == WellFormed(s) =>
                        Unended(s) = IF LastByte(s)[1] = 2 THEN <<LastByte(s)>> ELSE <<>>
           T == {s \in Seq(Byte) : Good(s)}
<1>1. <<>> \in T
  <2>1. <<>> \in Seq(Byte) /\ Unended(<<>>) = <<>>
    <3>1. <<>> \in Seq(Byte)
      OBVIOUS
    <3> QED BY <3>1, LinesGrow
  <2>2. LastByte(<<>>)[1] # 2
    BY DEF LastByte, NL
  <2> QED BY <2>1, <2>2
<1>2. ASSUME NEW s \in T, NEW b \in Byte
      PROVE  Append(s, b) \in T
  <2>1. s \in Seq(Byte) /\ Append(s, b) \in Seq(Byte) /\ Good(s)
    OBVIOUS
  <2>2. SUFFICES ASSUME WellFormed(Append(s, b))
                 PROVE  Unended(Append(s, b)) = IF b[1] = 2 THEN <<b>> ELSE <<>>
    BY <2>1, WellFormedGrows
  <2>3. WellFormed(s) /\ Follows(LastByte(s), b) /\ LastByte(s) \in Byte
    BY <2>1, <2>2, WellFormedGrows
  <2>4. Unended(s) = IF LastByte(s)[1] = 2 THEN <<LastByte(s)>> ELSE <<>>
    BY <2>1, <2>3
  <2>5. Unended(Append(s, b)) = IF b = NL THEN <<>>
                                ELSE IF b[1] = 2 THEN Append(Unended(s), b) ELSE Unended(s)
    BY <2>1, LinesGrow
  <2>6. b[1] \in {0, 1, 2, 3} /\ (b = NL <=> b[1] = 0)
    BY Bytes
  <2>7. b[1] \in {1, 2, 3} => Unended(s) = <<>>
    BY <2>3, <2>4 DEF Follows
  <2>8. Append(<<>>, b) = <<b>>
    OBVIOUS
  <2> HIDE DEF Good, T
  <2>9. CASE b[1] = 0
    BY <2>5, <2>6, <2>9
  <2>10. CASE b[1] = 2
    BY <2>5, <2>6, <2>7, <2>8, <2>10
  <2>11. CASE b[1] \in {1, 3}
    BY <2>5, <2>6, <2>7, <2>11
  <2> QED BY <2>6, <2>9, <2>10, <2>11
<1>3. T = Seq(Byte)
  <2>1. T \in SUBSET Seq(Byte)
    OBVIOUS
  <2> HIDE DEF T
  <2> QED BY <1>1, <1>2, <2>1, SequenceInduction
<1> QED BY <1>3

\* However a stream is cut into chunks, a chunk completes the lines it adds.
LEMMA TapFollows ==
  ASSUME NEW s \in Seq(Byte)
  PROVE  \A chunk \in Seq(Byte) :
           WellFormed(s \o chunk) =>
             \E lns \in Seq(Line) :
               /\ Feeding(After(LastByte(s), <<>>), chunk) = After(LastByte(s \o chunk), lns)
               /\ LinesOf(s \o chunk) = LinesOf(s) \o lns
<1> DEFINE Good(chunk) == WellFormed(s \o chunk) =>
             \E lns \in Seq(Line) :
               /\ Feeding(After(LastByte(s), <<>>), chunk) = After(LastByte(s \o chunk), lns)
               /\ LinesOf(s \o chunk) = LinesOf(s) \o lns
           T == {chunk \in Seq(Byte) : Good(chunk)}
           fed == After(LastByte(s), <<>>)
<1>1. fed \in Fed
  <2>1. LastByte(s) \in Byte /\ Byte \subseteq Glyph
    BY DEF LastByte, Byte, Glyph
  <2> DEFINE last == LastByte(s)
             half == IF last[1] = 1 THEN <<last>> ELSE <<>>
             buffered == IF last[1] \in {2, 3} THEN <<last>> ELSE <<>>
  <2>2. half \in Seq(Byte) /\ buffered \in Seq(Glyph) /\ <<>> \in Seq(Seq(Glyph))
    BY <2>1
  <2>3. fed = Splitter(half, buffered, <<>>)
    BY DEF After
  <2> HIDE DEF half, buffered, fed
  <2> QED BY <2>2, <2>3 DEF Splitter, Fed
<1>2. <<>> \in T
  <2>1. /\ <<>> \in Seq(Byte) /\ s \o <<>> = s /\ <<>> \in Seq(Line)
    OBVIOUS
  <2>2. LinesOf(s) \o <<>> = LinesOf(s)
    <3>1. LinesOf(s) \in Seq(Line)
      BY LinesGrow
    <3> QED BY <3>1
  <2> HIDE DEF fed
  <2>3. Feeding(fed, <<>>) = fed
    BY <1>1, <2>1, FeedingGrows
  <2> QED BY <2>1, <2>2, <2>3 DEF fed
<1>3. ASSUME NEW chunk \in T, NEW b \in Byte
      PROVE  Append(chunk, b) \in T
  <2> DEFINE t == s \o chunk
             last == LastByte(t)
  <2>1. /\ chunk \in Seq(Byte) /\ Append(chunk, b) \in Seq(Byte) /\ Good(chunk)
        /\ t \in Seq(Byte) /\ s \o Append(chunk, b) = Append(t, b)
    <3>1. chunk \in Seq(Byte) /\ Good(chunk)
      <4> HIDE DEF Good
      <4> QED OBVIOUS
    <3> HIDE DEF Good, T
    <3> QED BY <3>1, ConcatAppend
  <2> HIDE DEF t
  <2>2. SUFFICES ASSUME WellFormed(Append(t, b))
                 PROVE  \E lns \in Seq(Line) :
                          /\ Feeding(fed, Append(chunk, b)) = After(b, lns)
                          /\ LinesOf(Append(t, b)) = LinesOf(s) \o lns
    <3> HIDE DEF fed
    <3>1. LastByte(Append(t, b)) = b
      BY <2>1, WellFormedGrows
    <3> QED BY <2>1, <3>1 DEF fed
  <2>3. WellFormed(t) /\ Follows(last, b) /\ last \in Byte
    BY <2>1, <2>2, WellFormedGrows
  <2>4. PICK lns \in Seq(Line) : /\ Feeding(fed, chunk) = After(last, lns)
                                 /\ LinesOf(t) = LinesOf(s) \o lns
    BY <2>1, <2>3 DEF t
  <2> DEFINE more == IF last[1] = 2 THEN Append(lns, <<last>>) ELSE lns
  <2>5. more \in Seq(Line)
    BY <2>3 DEF Line
  <2> HIDE DEF last, fed
  <2>6. Feeding(fed, Append(chunk, b)) = Feed(Feeding(fed, chunk), b)
    BY <1>1, <2>1, FeedingGrows
  <2>7. Feed(After(last, lns), b) = After(b, more)
    BY <2>3, FeedAfter
  <2>8. LinesOf(Append(t, b)) = IF b = NL /\ Unended(t) # <<>> THEN Append(LinesOf(t), Unended(t))
                                ELSE LinesOf(t)
    BY <2>1, LinesGrow
  <2>9. Unended(t) = IF last[1] = 2 THEN <<last>> ELSE <<>>
    BY <2>1, <2>3, UnendedIs DEF last
  <2>10. last[1] = 2 => b = NL
    <3>1. b = NL <=> b[1] = 0
      BY Bytes
    <3> QED BY <2>3, <3>1 DEF Follows
  <2>11. LinesOf(Append(t, b)) = LinesOf(s) \o more
    <3>1. LinesOf(s) \in Seq(Line)
      BY LinesGrow
    <3>2. CASE last[1] = 2
      <4> DEFINE line == <<last>>
      <4>1. line \in Line /\ line # <<>>
        BY <2>3 DEF Line
      <4>2. LinesOf(Append(t, b)) = Append(LinesOf(s) \o lns, line)
        BY <2>4, <2>8, <2>9, <2>10, <3>2, <4>1
      <4>3. more = Append(lns, line)
        BY <3>2
      <4> HIDE DEF line, more
      <4>4. LinesOf(s) \o Append(lns, line) = Append(LinesOf(s) \o lns, line)
        BY <3>1, <4>1, ConcatAppend
      <4> QED BY <4>2, <4>3, <4>4
    <3>3. CASE last[1] # 2
      BY <2>4, <2>8, <2>9, <3>3
    <3> QED BY <3>2, <3>3
  <2> HIDE DEF more
  <2> QED BY <2>4, <2>5, <2>6, <2>7, <2>11
<1>4. T = Seq(Byte)
  <2>1. T \in SUBSET Seq(Byte)
    OBVIOUS
  <2> HIDE DEF T
  <2> QED BY <1>2, <1>3, <2>1, SequenceInduction
<1> QED BY <1>4

-----------------------------------------------------------------------------
(* Requests and records                                                    *)

Maps(X, Y) == [X -> Y]
Mapped(f, s) == [i \in DOMAIN s |-> f[s[i]]]

LEMMA MappedTyped ==
  ASSUME NEW X, NEW Y, NEW f \in Maps(X, Y), NEW s \in Seq(X)
  PROVE  Mapped(f, s) \in Seq(Y)
BY DEF Mapped, Maps

LEMMA MappedGrows ==
  ASSUME NEW X, NEW Y, NEW f \in Maps(X, Y), NEW s \in Seq(X), NEW x \in X
  PROVE  /\ Mapped(f, s) \in Seq(Y) /\ Mapped(f, <<>>) = <<>> /\ f[x] \in Y
         /\ Mapped(f, Append(s, x)) = Append(Mapped(f, s), f[x])
<1>1. f[x] \in Y /\ Mapped(f, <<>>) = <<>>
  BY DEF Mapped, Maps
<1>2. Mapped(f, s) \in Seq(Y) /\ Len(Mapped(f, s)) = Len(s) /\ \A i \in 1..Len(s) : Mapped(f, s)[i] = f[s[i]]
  BY DEF Mapped, Maps
<1> DEFINE more == Append(s, x)
           a == Mapped(f, more)
           b == Append(Mapped(f, s), f[x])
<1>3. /\ more \in Seq(X) /\ Len(more) = Len(s) + 1 /\ Len(s) \in Nat
      /\ \A i \in 1..Len(s) : more[i] = s[i]
      /\ more[Len(s)+1] = x
  OBVIOUS
<1>4. a \in Seq(Y) /\ Len(a) = Len(s) + 1 /\ \A i \in 1..Len(s)+1 : a[i] = f[more[i]]
  <2>1. DOMAIN more = 1..Len(s)+1 /\ \A i \in 1..Len(s)+1 : more[i] \in X
    BY <1>3
  <2> HIDE DEF more
  <2> QED BY <1>3, <2>1 DEF Mapped, Maps
<1>5. /\ b \in Seq(Y) /\ Len(b) = Len(s) + 1 /\ b[Len(s)+1] = f[x]
      /\ \A i \in 1..Len(s) : b[i] = f[s[i]]
  <2> DEFINE image == Mapped(f, s)
             y == f[x]
  <2> HIDE DEF image, y
  <2>1. /\ Append(image, y) \in Seq(Y) /\ Len(Append(image, y)) = Len(s) + 1
        /\ Append(image, y)[Len(s)+1] = y
        /\ \A i \in 1..Len(s) : Append(image, y)[i] = image[i]
    BY <1>1, <1>2 DEF image, y
  <2> QED BY <1>2, <2>1 DEF image, y
<1>6. \A i \in 1..Len(s)+1 : i = Len(s) + 1 \/ i \in 1..Len(s)
  BY <1>3
<1> HIDE DEF more, a, b
<1>7. \A i \in 1..Len(s)+1 : a[i] = b[i]
  BY <1>3, <1>4, <1>5, <1>6
<1>8. a = b
  BY <1>4, <1>5, <1>7, SeqEqual
<1> QED BY <1>1, <1>2, <1>8 DEF a, b, more

LEMMA MappedConcat ==
  ASSUME NEW X, NEW Y, NEW f \in Maps(X, Y), NEW s \in Seq(X)
  PROVE  \A t \in Seq(X) : Mapped(f, s \o t) = Mapped(f, s) \o Mapped(f, t)
<1> DEFINE T == {t \in Seq(X) : Mapped(f, s \o t) = Mapped(f, s) \o Mapped(f, t)}
<1>0. Mapped(f, s) \in Seq(Y)
  BY MappedTyped
<1>1. <<>> \in T
  <2>1. <<>> \in Seq(X) /\ s \o <<>> = s /\ Mapped(f, <<>>) = <<>>
    BY DEF Mapped
  <2>2. Mapped(f, s) \o <<>> = Mapped(f, s)
    BY <1>0
  <2> QED BY <2>1, <2>2
<1>2. ASSUME NEW t \in T, NEW x \in X
      PROVE  Append(t, x) \in T
  <2>1. /\ t \in Seq(X) /\ Append(t, x) \in Seq(X)
        /\ Mapped(f, s \o t) = Mapped(f, s) \o Mapped(f, t)
    OBVIOUS
  <2>2. Mapped(f, Append(t, x)) = Append(Mapped(f, t), f[x]) /\ Mapped(f, t) \in Seq(Y) /\ f[x] \in Y
    BY <2>1, MappedGrows
  <2>3. s \o Append(t, x) = Append(s \o t, x)
    BY <2>1, ConcatAppend
  <2>4. Mapped(f, Append(s \o t, x)) = Append(Mapped(f, s \o t), f[x])
    <3> DEFINE both == s \o t
    <3>1. both \in Seq(X)
      BY <2>1
    <3> HIDE DEF both
    <3>2. Mapped(f, Append(both, x)) = Append(Mapped(f, both), f[x])
      BY <3>1, MappedGrows
    <3> QED BY <3>2 DEF both
  <2>5. Mapped(f, s) \o Append(Mapped(f, t), f[x]) = Append(Mapped(f, s) \o Mapped(f, t), f[x])
    BY <1>0, <2>2, ConcatAppend
  <2> QED BY <2>1, <2>2, <2>3, <2>4, <2>5
<1>3. T = Seq(X)
  <2>1. T \in SUBSET Seq(X)
    OBVIOUS
  <2> HIDE DEF T
  <2> QED BY <1>1, <1>2, <2>1, SequenceInduction
<1> QED BY <1>3

Whole == {line \in Line : Len(line) = 1 /\ line[1][1] = 2}
MessageIn == [line \in Whole |-> line[1][2]]

LEMMA FirstElement ==
  ASSUME NEW X, NEW s \in Seq(X), Len(s) = 1
  PROVE  s[1] \in X
<1>1. 1 \in 1..Len(s)
  OBVIOUS
<1> QED BY <1>1

LEMMA MessagesConcat ==
  ASSUME NEW s \in Seq(Line), NEW t \in Seq(Line)
  PROVE  /\ MessagesOf(s) \in Seq(Message)
         /\ MessagesOf(s \o t) = MessagesOf(s) \o MessagesOf(t)
<1>1. MessageIn \in Maps(Whole, Message)
  <2>1. ASSUME NEW line \in Whole
        PROVE  line[1][2] \in Message
    <3>1. line \in Seq(Byte) /\ Len(line) = 1
      BY DEF Whole, Line
    <3>2. line[1][1] = 2
      BY DEF Whole
    <3>3. line[1] \in Byte
      BY <3>1, FirstElement
    <3> QED BY <3>2, <3>3, Bytes
  <2> QED BY <2>1 DEF MessageIn, Maps
<1>2. ASSUME NEW u \in Seq(Line)
      PROVE  /\ Among(u, Whole) \in Seq(Whole)
             /\ MessagesOf(u) = Mapped(MessageIn, Among(u, Whole))
  <2> DEFINE X == ToSet(u)
             S == {line \in X : Len(line) = 1 /\ line[1][1] = 2}
             whole == Among(u, Whole)
  <2>1. u \in Seq(X) /\ X \subseteq Line
    BY DEF ToSet
  <2>2. \A line \in X : line \in S <=> line \in Whole
    BY <2>1 DEF Whole
  <2>3. MessagesOf(u) = [i \in DOMAIN Among(u, S) |-> Among(u, S)[i][1][2]]
    BY DEF MessagesOf
  <2> HIDE DEF S, X
  <2>4. Among(u, S) = Among(u, Whole)
    BY <2>1, <2>2, AmongSame
  <2>5. whole \in Seq(Whole)
    <3>1. Among(u, Whole) \in Seq(Line \cap Whole)
      BY AmongTyped
    <3>2. Line \cap Whole = Whole
      BY DEF Whole
    <3> QED BY <3>1, <3>2
  <2>6. MessagesOf(u) = [i \in DOMAIN whole |-> whole[i][1][2]]
    BY <2>3, <2>4
  <2> HIDE DEF whole
  <2>7. \A i \in DOMAIN whole : whole[i][1][2] = MessageIn[whole[i]]
    BY <2>5 DEF MessageIn
  <2>8. MessagesOf(u) = Mapped(MessageIn, whole)
    BY <2>6, <2>7 DEF Mapped
  <2> QED BY <2>5, <2>8 DEF whole
<1> DEFINE a == Among(s, Whole)
           b == Among(t, Whole)
<1>3. s \o t \in Seq(Line) /\ Among(s \o t, Whole) = a \o b
  BY AmongConcat
<1> HIDE DEF a, b
<1>4. MessagesOf(s \o t) = Mapped(MessageIn, a \o b)
  BY <1>2, <1>3
<1>5. /\ MessagesOf(s) = Mapped(MessageIn, a) /\ a \in Seq(Whole)
      /\ MessagesOf(t) = Mapped(MessageIn, b) /\ b \in Seq(Whole)
  BY <1>2 DEF a, b
<1>6. Mapped(MessageIn, a \o b) = Mapped(MessageIn, a) \o Mapped(MessageIn, b)
  BY <1>1, <1>5, MappedConcat
<1>7. Mapped(MessageIn, a) \in Seq(Message)
  BY <1>1, <1>5, MappedTyped
<1> QED BY <1>4, <1>5, <1>6, <1>7

LEMMA RequestsConcat ==
  ASSUME NEW s \in Seq(Line), NEW t \in Seq(Line)
  PROVE  /\ RequestsIn(s) \in Seq(Requests)
         /\ RequestsIn(s \o t) = RequestsIn(s) \o RequestsIn(t)
<1>1. MessagesOf(s) \in Seq(Message) /\ MessagesOf(t) \in Seq(Message)
  BY MessagesConcat
<1>2. MessagesOf(s \o t) = MessagesOf(s) \o MessagesOf(t)
  BY MessagesConcat
<1>3. Message \cap Requests = Requests
  BY DEF Message
<1>4. Among(MessagesOf(s), Requests) \in Seq(Message \cap Requests)
  BY <1>1, AmongTyped
<1>5. Among(MessagesOf(s) \o MessagesOf(t), Requests)
        = Among(MessagesOf(s), Requests) \o Among(MessagesOf(t), Requests)
  BY <1>1, AmongConcat
<1> QED BY <1>2, <1>3, <1>4, <1>5 DEF RequestsIn

Response == {"content", "written", "error", "denied", "cancelled", "allow_once", "reject_once"}
Heard == {In(line) : line \in Line}
Entry == Heard \cup {Out(response) : response \in Response} \cup {Denied(m) : m \in Requests}

LEMMA Entries ==
  /\ \A line \in Line : In(line).kind = "in" /\ In(line).line = line
  /\ \A r \in Entry : r.kind = "in" <=> r \in Heard
BY DEF Entry, Heard, In, Out, Denied

LineIn == [r \in Heard |-> r.line]
LinesIn(records) == Mapped(LineIn, Among(records, Heard))

LEMMA LinesInConcat ==
  ASSUME NEW s \in Seq(Entry), NEW t \in Seq(Entry)
  PROVE  /\ LinesIn(s) \in Seq(Line)
         /\ LinesIn(s \o t) = LinesIn(s) \o LinesIn(t)
<1>1. LineIn \in Maps(Heard, Line)
  <2>1. \A r \in Heard : r.line \in Line
    BY Entries DEF Heard
  <2> QED BY <2>1 DEF LineIn, Maps
<1> DEFINE a == Among(s, Heard)
           b == Among(t, Heard)
<1>2. a \in Seq(Heard) /\ b \in Seq(Heard)
  <2>1. Entry \cap Heard = Heard
    BY DEF Entry
  <2>2. a \in Seq(Entry \cap Heard) /\ b \in Seq(Entry \cap Heard)
    BY AmongTyped
  <2> QED BY <2>1, <2>2
<1>3. Among(s \o t, Heard) = a \o b
  BY AmongConcat
<1> HIDE DEF a, b
<1>4. Mapped(LineIn, a \o b) = Mapped(LineIn, a) \o Mapped(LineIn, b)
  BY <1>1, <1>2, MappedConcat
<1>5. Mapped(LineIn, a) \in Seq(Line)
  BY <1>1, <1>2, MappedTyped
<1> QED BY <1>3, <1>4, <1>5 DEF LinesIn, a, b

\* Transcribed, of any transcript.
TranscribedOf(records) ==
  LET heard == Among(records, {record \in ToSet(records) : record.kind = "in"})
  IN  [i \in DOMAIN heard |-> heard[i].line]

LEMMA TranscribedIs ==
  ASSUME NEW records \in Seq(Entry)
  PROVE  TranscribedOf(records) = LinesIn(records)
<1> DEFINE X == ToSet(records)
           S == {record \in X : record.kind = "in"}
           heard == Among(records, Heard)
<1>1. records \in Seq(X) /\ X \subseteq Entry
  BY DEF ToSet
<1>2. \A r \in X : r \in S <=> r \in Heard
  BY <1>1, Entries
<1>3. TranscribedOf(records) = [i \in DOMAIN Among(records, S) |-> Among(records, S)[i].line]
  BY DEF TranscribedOf
<1> HIDE DEF X, S
<1>4. Among(records, S) = heard
  BY <1>1, <1>2, AmongSame
<1>5. heard \in Seq(Heard)
  <2>1. heard \in Seq(Entry \cap Heard)
    BY AmongTyped
  <2>2. Entry \cap Heard = Heard
    BY DEF Entry
  <2> QED BY <2>1, <2>2
<1> HIDE DEF heard
<1>6. \A i \in DOMAIN heard : heard[i].line = LineIn[heard[i]]
  BY <1>5 DEF LineIn
<1>7. TranscribedOf(records) = Mapped(LineIn, heard)
  BY <1>3, <1>4, <1>6 DEF Mapped
<1> QED BY <1>7 DEF LinesIn, heard

LEMMA RecordedLines ==
  /\ \A lns \in Seq(Line) : Received(lns) \in Seq(Entry) /\ LinesIn(Received(lns)) = lns
  /\ \A r \in Entry : r \notin Heard => LinesIn(<<r>>) = <<>>
  /\ LinesIn(<<>>) = <<>>
<1>1. ASSUME NEW lns \in Seq(Line)
      PROVE  Received(lns) \in Seq(Entry) /\ LinesIn(Received(lns)) = lns
  <2> DEFINE heard == Received(lns)
  <2>1. /\ heard \in Seq(Heard) /\ DOMAIN heard = DOMAIN lns
        /\ \A i \in DOMAIN lns : heard[i] = In(lns[i]) /\ lns[i] \in Line
    BY DEF Received, Heard
  <2> HIDE DEF heard
  <2>2. heard \in Seq(Entry)
    BY <2>1, SeqMonotonic DEF Entry
  <2>3. Among(heard, Heard) = heard
    BY <2>1, AmongAll
  <2>4. LinesIn(heard) = [i \in DOMAIN heard |-> LineIn[heard[i]]]
    BY <2>3 DEF LinesIn, Mapped
  <2>5. \A i \in DOMAIN lns : LineIn[heard[i]] = lns[i]
    BY <2>1, Entries DEF LineIn, Heard
  <2>6. LinesIn(heard) = [i \in DOMAIN lns |-> lns[i]]
    BY <2>1, <2>4, <2>5
  <2>7. [i \in DOMAIN lns |-> lns[i]] = lns
    OBVIOUS
  <2> QED BY <2>2, <2>6, <2>7 DEF heard
<1>2. LinesIn(<<>>) = <<>>
  <2>1. Among(<<>>, Heard) = <<>>
    BY AmongNothing
  <2>2. LinesIn(<<>>) = [i \in DOMAIN <<>> |-> LineIn[<<>>[i]]]
    BY <2>1 DEF LinesIn, Mapped
  <2> QED BY <2>2
<1>3. ASSUME NEW r \in Entry, r \notin Heard
      PROVE  LinesIn(<<r>>) = <<>>
  <2>1. <<>> \in Seq(Entry) /\ Append(<<>>, r) = <<r>>
    OBVIOUS
  <2>2. Among(Append(<<>>, r), Heard) = Among(<<>>, Heard)
    BY <1>3, <2>1, AmongGrows
  <2>3. LinesIn(<<r>>) = LinesIn(<<>>)
    BY <2>1, <2>2 DEF LinesIn
  <2> QED BY <1>2, <2>3
<1> QED BY <1>1, <1>2, <1>3

-----------------------------------------------------------------------------
(* Prefixes                                                                *)

LEMMA PrefixIs ==
  ASSUME NEW X, NEW s \in Seq(X), NEW t \in Seq(X)
  PROVE  IsPrefix(s, t) <=> Len(s) <= Len(t) /\ \A i \in 1..Len(s) : s[i] = t[i]
<1> SUFFICES ASSUME Len(s) <= Len(t)
             PROVE  SubSeq(s, 1, Len(s)) = SubSeq(t, 1, Len(s)) <=> \A i \in 1..Len(s) : s[i] = t[i]
  BY DEF IsPrefix
<1>1. SubSeq(s, 1, Len(s)) = s
  BY SubSeqFull
<1> DEFINE part == SubSeq(t, 1, Len(s))
<1>2. part \in Seq(X) /\ Len(part) = Len(s) /\ \A i \in 1..Len(s) : part[i] = t[i]
  OBVIOUS
<1> HIDE DEF part
<1>3. s = part <=> \A i \in 1..Len(s) : s[i] = t[i]
  BY <1>2, SeqEqual
<1> QED BY <1>1, <1>3 DEF part

LEMMA PrefixOfItself ==
  ASSUME NEW X, NEW a \in Seq(X)
  PROVE  IsPrefix(a, a)
<1>1. Len(a) \in Nat
  OBVIOUS
<1>2. Len(a) <= Len(a)
  BY <1>1
<1> QED BY <1>2 DEF IsPrefix

LEMMA ShorterPrefix ==
  ASSUME NEW X, NEW a \in Seq(X), NEW b \in Seq(X), NEW c \in Seq(X), IsPrefix(a \o b, c)
  PROVE  IsPrefix(a, c)
<1> DEFINE ab == a \o b
<1>1. /\ ab \in Seq(X) /\ Len(ab) = Len(a) + Len(b) /\ \A i \in 1..Len(a) : ab[i] = a[i]
      /\ Len(a) \in Nat /\ Len(b) \in Nat
  BY ConcatProperties
<1>2. IsPrefix(ab, c)
  OBVIOUS
<1> HIDE DEF ab
<1>3. Len(ab) <= Len(c) /\ \A i \in 1..Len(ab) : ab[i] = c[i]
  BY <1>1, <1>2, PrefixIs
<1>4. Len(c) \in Nat /\ \A i \in 1..Len(a) : i \in 1..Len(ab)
  BY <1>1
<1>5. Len(a) <= Len(c) /\ \A i \in 1..Len(a) : a[i] = c[i]
  BY <1>1, <1>3, <1>4
<1> QED BY <1>5, PrefixIs

LEMMA LongerPrefixed ==
  ASSUME NEW X, NEW a \in Seq(X), NEW b \in Seq(X), NEW c \in Seq(X), IsPrefix(a, c)
  PROVE  IsPrefix(a, c \o b)
<1> DEFINE cb == c \o b
<1>1. /\ cb \in Seq(X) /\ Len(cb) = Len(c) + Len(b) /\ \A i \in 1..Len(c) : cb[i] = c[i]
      /\ Len(c) \in Nat /\ Len(b) \in Nat /\ Len(a) \in Nat
  BY ConcatProperties
<1> HIDE DEF cb
<1>2. Len(a) <= Len(c) /\ \A i \in 1..Len(a) : a[i] = c[i]
  BY PrefixIs
<1>3. Len(a) <= Len(cb) /\ \A i \in 1..Len(a) : a[i] = cb[i]
  BY <1>1, <1>2
<1>4. IsPrefix(a, cb)
  BY <1>1, <1>3, PrefixIs
<1> QED BY <1>4 DEF cb

LEMMA Associates ==
  ASSUME NEW X, NEW a \in Seq(X), NEW b \in Seq(X), NEW c \in Seq(X)
  PROVE  (a \o b) \o c = a \o (b \o c) /\ a \o b \in Seq(X)
OBVIOUS

LEMMA Rests ==
  ASSUME NEW X, NEW a \in Seq(X), NEW b \in Seq(X)
  PROVE  SubSeq(a \o b, Len(a) + 1, Len(a \o b)) = b
OBVIOUS

LEMMA Parted ==
  ASSUME NEW X, NEW s \in Seq(X), NEW n \in 1..Len(s)
  PROVE  /\ SubSeq(s, 1, n) \in Seq(X) /\ SubSeq(s, n + 1, Len(s)) \in Seq(X)
         /\ SubSeq(s, 1, n) \o SubSeq(s, n + 1, Len(s)) = s
OBVIOUS

LEMMA HeadFirst ==
  ASSUME NEW X, NEW a \in Seq(X), NEW b \in Seq(X), b # <<>>
  PROVE  /\ Head(b) \in X /\ Tail(b) \in Seq(X)
         /\ Append(a, Head(b)) \in Seq(X) /\ Append(a, Head(b)) \o Tail(b) = a \o b
OBVIOUS

-----------------------------------------------------------------------------
(* What agents write                                                       *)

LEMMA WellFormedPart ==
  ASSUME NEW s \in Seq(Byte), NEW t \in Seq(Byte), WellFormed(s \o t)
  PROVE  WellFormed(s)
<1> DEFINE both == s \o t
<1>1. /\ Len(both) = Len(s) + Len(t) /\ Len(s) \in Nat /\ Len(t) \in Nat
      /\ \A i \in 1..Len(s) : both[i] = s[i]
  BY ConcatProperties
<1> HIDE DEF both
<1>2. \A i \in 1..Len(both) : Follows(IF i = 1 THEN NL ELSE both[i-1], both[i])
  BY DEF both, WellFormed
<1>3. \A i \in 1..Len(s) : /\ i \in 1..Len(both)
                           /\ i # 1 => i - 1 \in 1..Len(s)
  BY <1>1
<1>4. \A i \in 1..Len(s) : Follows(IF i = 1 THEN NL ELSE s[i-1], s[i])
  BY <1>1, <1>2, <1>3
<1> QED BY <1>4 DEF WellFormed

LEMMA Written3 ==
  ASSUME NEW s \in Seq(Byte), WellFormed(s), LastByte(s)[1] = 0
  PROVE  /\ \A bytes \in Written : /\ bytes \in Seq(Byte) /\ WellFormed(s \o bytes)
                                   /\ LastByte(s \o bytes)[1] = 0
         /\ \A bytes \in CutShort : bytes \in Seq(Byte) /\ WellFormed(s \o bytes)
<1>0. NL \in Byte /\ WS \in Byte /\ NL[1] = 0 /\ WS[1] = 3
  BY DEF Byte, NL, WS
<1>1. ASSUME NEW m \in Message
      PROVE  \E b \in Byte, c \in Byte :
               /\ Encode(m) = <<b, c, NL>>
               /\ WellFormed(Append(s, b)) /\ WellFormed(Append(Append(s, b), c))
               /\ WellFormed(Append(Append(Append(s, b), c), NL))
               /\ LastByte(Append(Append(Append(s, b), c), NL))[1] = 0
  <2> DEFINE b == <<1, m>>
             c == <<2, m>>
  <2>1. Encode(m) = <<b, c, NL>> /\ b \in Byte /\ c \in Byte /\ b[1] = 1 /\ c[1] = 2
    BY DEF Encode, Byte
  <2> HIDE DEF b, c
  <2>2. Append(s, b) \in Seq(Byte) /\ Append(Append(s, b), c) \in Seq(Byte)
    BY <2>1
  <2>3. WellFormed(Append(s, b)) /\ LastByte(Append(s, b)) = b
    BY <2>1, WellFormedGrows DEF Follows
  <2>4. WellFormed(Append(Append(s, b), c)) /\ LastByte(Append(Append(s, b), c)) = c
    BY <2>1, <2>2, <2>3, WellFormedGrows DEF Follows
  <2>5. /\ WellFormed(Append(Append(Append(s, b), c), NL))
        /\ LastByte(Append(Append(Append(s, b), c), NL)) = NL
    BY <1>0, <2>1, <2>2, <2>4, WellFormedGrows DEF Follows
  <2> QED BY <1>0, <2>1, <2>3, <2>4, <2>5
<1>2. \A x \in Byte, y \in Byte, z \in Byte :
        /\ <<x>> \in Seq(Byte) /\ <<x, y>> \in Seq(Byte) /\ <<x, y, z>> \in Seq(Byte)
        /\ s \o <<x>> = Append(s, x) /\ s \o <<x, y>> = Append(Append(s, x), y)
        /\ s \o <<x, y, z>> = Append(Append(Append(s, x), y), z)
  <2> SUFFICES ASSUME NEW x \in Byte, NEW y \in Byte, NEW z \in Byte
               PROVE  /\ <<x>> \in Seq(Byte) /\ <<x, y>> \in Seq(Byte) /\ <<x, y, z>> \in Seq(Byte)
                      /\ s \o <<x>> = Append(s, x) /\ s \o <<x, y>> = Append(Append(s, x), y)
                      /\ s \o <<x, y, z>> = Append(Append(Append(s, x), y), z)
    OBVIOUS
  <2>1. <<x>> \in Seq(Byte) /\ <<x, y>> \in Seq(Byte) /\ <<x, y, z>> \in Seq(Byte)
    OBVIOUS
  <2>2. s \o <<x>> = Append(s, x)
    OBVIOUS
  <2>3. s \o <<x, y>> = Append(Append(s, x), y)
    OBVIOUS
  <2>4. s \o <<x, y, z>> = Append(Append(Append(s, x), y), z)
    OBVIOUS
  <2> QED BY <2>1, <2>2, <2>3, <2>4
<1>3. ASSUME NEW m \in Message
      PROVE  /\ Encode(m) \in Seq(Byte) /\ WellFormed(s \o Encode(m))
             /\ LastByte(s \o Encode(m))[1] = 0
  <2>1. PICK b \in Byte, c \in Byte :
          /\ Encode(m) = <<b, c, NL>>
          /\ WellFormed(Append(Append(Append(s, b), c), NL))
          /\ LastByte(Append(Append(Append(s, b), c), NL))[1] = 0
    BY <1>1
  <2>2. <<b, c, NL>> \in Seq(Byte) /\ s \o <<b, c, NL>> = Append(Append(Append(s, b), c), NL)
    BY <1>0, <1>2
  <2> QED BY <2>1, <2>2
<1>4. /\ BlankLine \in Seq(Byte) /\ WellFormed(s \o BlankLine)
      /\ LastByte(s \o BlankLine)[1] = 0
  <2>1. Append(s, WS) \in Seq(Byte)
    BY <1>0
  <2>2. WellFormed(Append(s, WS)) /\ LastByte(Append(s, WS)) = WS
    BY <1>0, WellFormedGrows DEF Follows
  <2>3. WellFormed(Append(Append(s, WS), NL)) /\ LastByte(Append(Append(s, WS), NL)) = NL
    BY <1>0, <2>1, <2>2, WellFormedGrows DEF Follows
  <2>4. BlankLine = <<WS, NL>>
    BY DEF BlankLine
  <2> QED BY <1>0, <1>2, <2>3, <2>4
<1>5. ASSUME NEW k \in 0..2
      PROVE  /\ SubSeq(Encode(Noise), 1, k) \in Seq(Byte)
             /\ WellFormed(s \o SubSeq(Encode(Noise), 1, k))
  <2>1. PICK b \in Byte, c \in Byte :
          /\ Encode(Noise) = <<b, c, NL>>
          /\ WellFormed(Append(s, b)) /\ WellFormed(Append(Append(s, b), c))
    <3>1. Noise \in Message
      BY DEF Message
    <3> QED BY <1>1, <3>1
  <2> DEFINE t == <<b, c, NL>>
  <2>2. t \in Seq(Byte) /\ Len(t) = 3 /\ t[1] = b /\ t[2] = c
    BY <1>0
  <2>3. SubSeq(t, 1, 0) = <<>> /\ s \o <<>> = s /\ <<>> \in Seq(Byte)
    OBVIOUS
  <2> HIDE DEF t
  <2>4. SubSeq(t, 1, 1) = <<b>>
    <3>1. SubSeq(t, 1, 1) \in Seq(Byte) /\ Len(SubSeq(t, 1, 1)) = 1 /\ SubSeq(t, 1, 1)[1] = b
      BY <2>2
    <3> DEFINE u == SubSeq(t, 1, 1)
               v == <<b>>
    <3>2. v \in Seq(Byte) /\ Len(v) = 1 /\ v[1] = b
      OBVIOUS
    <3> HIDE DEF u, v
    <3>3. \A i \in 1..1 : u[i] = v[i]
      BY <3>1, <3>2 DEF u
    <3>4. u = v
      BY <3>1, <3>2, <3>3, SeqEqual DEF u
    <3> QED BY <3>4 DEF u, v
  <2>5. SubSeq(t, 1, 2) = <<b, c>>
    <3>1. /\ SubSeq(t, 1, 2) \in Seq(Byte) /\ Len(SubSeq(t, 1, 2)) = 2
          /\ SubSeq(t, 1, 2)[1] = b /\ SubSeq(t, 1, 2)[2] = c
      BY <2>2
    <3> DEFINE u == SubSeq(t, 1, 2)
               v == <<b, c>>
    <3>2. v \in Seq(Byte) /\ Len(v) = 2 /\ v[1] = b /\ v[2] = c
      OBVIOUS
    <3> HIDE DEF u, v
    <3>3. \A i \in 1..2 : u[i] = v[i]
      BY <3>1, <3>2 DEF u
    <3>4. u = v
      BY <3>1, <3>2, <3>3, SeqEqual DEF u
    <3> QED BY <3>4 DEF u, v
  <2>6. /\ <<b>> \in Seq(Byte) /\ s \o <<b>> = Append(s, b)
        /\ <<b, c>> \in Seq(Byte) /\ s \o <<b, c>> = Append(Append(s, b), c)
    BY <1>2
  <2>7. Encode(Noise) = t
    BY <2>1 DEF t
  <2>8. CASE k = 0
    BY <2>3, <2>7, <2>8
  <2>9. CASE k = 1
    BY <2>1, <2>4, <2>6, <2>7, <2>9
  <2>10. CASE k = 2
    BY <2>1, <2>5, <2>6, <2>7, <2>10
  <2> QED BY <2>8, <2>9, <2>10
<1>6. \A bytes \in Written : (\E m \in Message : bytes = Encode(m)) \/ bytes = BlankLine
  BY DEF Written, Message
<1>7. \A bytes \in CutShort : \E k \in 0..2 : bytes = SubSeq(Encode(Noise), 1, k)
  BY DEF CutShort
<1> QED BY <1>3, <1>4, <1>5, <1>6, <1>7

-----------------------------------------------------------------------------
(* The inductive invariant of a connection                                 *)

TapTyped ==
  /\ inbox \in Seq(Requests) /\ handled \in Seq(Requests) /\ outbox \in Seq(Response)
  /\ log \in Seq(Entry) /\ wire \in Seq(Byte) /\ delivered \in Seq(Byte)

\* The splitter holds what the stream that passed ends in the middle of.
SplitterInv == splitter = Rest(After(LastByte(delivered), <<>>))

\* What passed and what is to come is a stream an agent writes, which is between
\* lines while the agent is up.
StreamInv ==
  /\ WellFormed(delivered)
  /\ ~failed => /\ WellFormed(delivered \o wire)
                /\ child = "up" => LastByte(delivered \o wire)[1] = 0

\* The handlers have been given the requests of the transcript, and no others.
ServedInv ==
  /\ IsPrefix(handled \o inbox, RequestsIn(LinesIn(log)))
  /\ conn = "up" => handled \o inbox = RequestsIn(LinesIn(log))

TapInv == TapTyped /\ SplitterInv /\ StreamInv /\ ServedInv /\ TranscriptIsTheStream

LEMMA RecordIs ==
  ASSUME log \in Seq(Entry)
  PROVE  /\ Transcribed = LinesIn(log)
         /\ TranscriptIsTheStream <=>
              /\ conn = "up" => LinesIn(log) = LinesOf(delivered)
              /\ (conn = "ended" /\ run = "open") => LinesIn(log) = LinesOf(Append(delivered, NL))
<1>1. Transcribed = TranscribedOf(log)
  BY DEF Transcribed, TranscribedOf
<1>2. TranscribedOf(log) = LinesIn(log)
  BY TranscribedIs
<1> QED BY <1>1, <1>2 DEF TranscriptIsTheStream

LEMMA RecordWillBe ==
  ASSUME log' \in Seq(Entry)
  PROVE  TranscriptIsTheStream' <=>
           /\ conn' = "up" => LinesIn(log') = LinesOf(delivered')
           /\ (conn' = "ended" /\ run' = "open") => LinesIn(log') = LinesOf(Append(delivered', NL))
<1>1. Transcribed' = TranscribedOf(log')
  BY DEF Transcribed, TranscribedOf
<1>2. TranscribedOf(log') = LinesIn(log')
  BY TranscribedIs
<1> QED BY <1>1, <1>2 DEF TranscriptIsTheStream

LEMMA TapInit == Init => TapInv
<1> SUFFICES ASSUME Init PROVE TapInv
  OBVIOUS
<1>1. /\ inbox = <<>> /\ handled = <<>> /\ outbox = <<>> /\ log = <<>> /\ wire = <<>>
      /\ delivered = <<>> /\ splitter = EmptySplitter /\ conn = "none" /\ child = "gone"
  BY DEF Init
<1>2. TapTyped
  BY <1>1 DEF TapTyped
<1>3. SplitterInv
  BY <1>1 DEF SplitterInv, EmptySplitter, Rest, After, Splitter, LastByte, NL
<1>4. <<>> \o <<>> = <<>> /\ Len(<<>>) = 0
  OBVIOUS
<1>5. StreamInv
  BY <1>1, <1>4 DEF StreamInv, WellFormed
<1>6. ServedInv
  <2>1. RequestsIn(LinesIn(log)) \in Seq(Requests) /\ <<>> \in Seq(Requests)
    <3>1. <<>> \in Seq(Line) /\ <<>> \in Seq(Requests)
      OBVIOUS
    <3>2. LinesIn(log) = <<>>
      BY <1>1, RecordedLines
    <3>3. RequestsIn(<<>>) \in Seq(Requests)
      BY <3>1, RequestsConcat
    <3> QED BY <3>1, <3>2, <3>3
  <2>3. IsPrefix(<<>>, RequestsIn(LinesIn(log)))
    <3> DEFINE all == RequestsIn(LinesIn(log))
    <3>1. all \in Seq(Requests) /\ <<>> \in Seq(Requests) /\ Len(<<>>) = 0 /\ Len(all) \in Nat
      BY <2>1
    <3> HIDE DEF all
    <3>2. Len(<<>>) <= Len(all) /\ \A i \in 1..Len(<<>>) : <<>>[i] = all[i]
      BY <3>1
    <3> QED BY <3>1, <3>2, PrefixIs DEF all
  <2> QED BY <1>1, <1>4, <2>3 DEF ServedInv
<1> QED BY <1>1, <1>2, <1>3, <1>5, <1>6 DEF TapInv, TranscriptIsTheStream

LEMMA AsideRecorded ==
  ASSUME TapInv, log' = log \/ \E r \in Entry \ Heard : log' = log \o <<r>>
  PROVE  log' \in Seq(Entry) /\ LinesIn(log') = LinesIn(log)
<1>1. log \in Seq(Entry)
  BY DEF TapInv, TapTyped
<1>2. ASSUME NEW r \in Entry \ Heard
      PROVE  log \o <<r>> \in Seq(Entry) /\ LinesIn(log \o <<r>>) = LinesIn(log)
  <2>1. <<r>> \in Seq(Entry) /\ log \o <<r>> \in Seq(Entry)
    BY <1>1
  <2>2. LinesIn(log \o <<r>>) = LinesIn(log) \o LinesIn(<<r>>) /\ LinesIn(log) \in Seq(Line)
    BY <1>1, <2>1, LinesInConcat
  <2>3. LinesIn(<<r>>) = <<>>
    BY RecordedLines
  <2>4. LinesIn(log) \o <<>> = LinesIn(log)
    BY <2>2
  <2> QED BY <2>1, <2>2, <2>3, <2>4
<1>3. CASE log' = log
  BY <1>1, <1>3
<1>4. CASE \E r \in Entry \ Heard : log' = log \o <<r>>
  <2>1. PICK r \in Entry \ Heard : log' = log \o <<r>>
    BY <1>4
  <2> QED BY <1>2, <2>1
<1> QED BY <1>3, <1>4

\* A step that leaves the connection, the stream and the handlers alone, and may
\* record what is not a line of the agent's.
LEMMA AsideStep ==
  ASSUME TapInv, conn' = conn, run' \in {run, "over"},
         UNCHANGED <<splitter, failed, delivered, wire, child, inbox, handled>>,
         outbox' \in Seq(Response),
         log' = log \/ \E r \in Entry \ Heard : log' = log \o <<r>>
  PROVE  TapInv'
<1>1. log' \in Seq(Entry) /\ LinesIn(log') = LinesIn(log)
  BY AsideRecorded
<1>2. TapTyped'
  BY <1>1 DEF TapInv, TapTyped
<1>3. SplitterInv' /\ StreamInv'
  BY DEF TapInv, SplitterInv, StreamInv
<1>4. ServedInv'
  BY <1>1 DEF TapInv, ServedInv
<1>5. TranscriptIsTheStream'
  <2>1. log \in Seq(Entry) /\ TranscriptIsTheStream
    BY DEF TapInv, TapTyped
  <2> QED BY <1>1, <2>1, RecordIs, RecordWillBe
<1> QED BY <1>2, <1>3, <1>4, <1>5 DEF TapInv

LEMMA StartStep ==
  ASSUME NEW for, StartTurn(for)
  PROVE  TapInv'
<1>1. /\ inbox' = <<>> /\ handled' = <<>> /\ outbox' = <<>> /\ log' = <<>> /\ wire' = <<>>
      /\ delivered' = <<>> /\ splitter' = EmptySplitter /\ conn' = "up"
  BY DEF StartTurn
<1>2. TapTyped'
  BY <1>1 DEF TapTyped
<1>3. SplitterInv'
  BY <1>1 DEF SplitterInv, EmptySplitter, Rest, After, Splitter, LastByte, NL
<1>4. <<>> \o <<>> = <<>> /\ Len(<<>>) = 0
  OBVIOUS
<1>5. StreamInv'
  <2>1. LastByte(<<>>)[1] = 0
    BY DEF LastByte, NL
  <2> QED BY <1>1, <1>4, <2>1 DEF StreamInv, WellFormed
<1>6. LinesIn(<<>>) = <<>> /\ LinesOf(<<>>) = <<>>
  <2>1. <<>> \in Seq(Byte)
    OBVIOUS
  <2> QED BY <2>1, RecordedLines, LinesGrow
<1>7. RequestsIn(<<>>) = <<>>
  <2>1. MessagesOf(<<>>) = <<>>
    <3>1. ToSet(<<>>) = {}
      BY EmptySeq DEF ToSet
    <3>2. \A S : Among(<<>>, S) = <<>>
      BY AmongNothing
    <3> QED BY <3>2 DEF MessagesOf
  <2> QED BY <2>1, AmongNothing DEF RequestsIn
<1>8. IsPrefix(<<>>, <<>>)
  <2>1. <<>> \in Seq(Requests)
    OBVIOUS
  <2> QED BY <2>1, PrefixOfItself
<1>9. ServedInv'
  BY <1>1, <1>4, <1>6, <1>7, <1>8 DEF ServedInv
<1>10. TranscriptIsTheStream'
  <2>1. log' \in Seq(Entry)
    BY <1>2 DEF TapTyped
  <2> QED BY <1>1, <1>6, <2>1, RecordWillBe
<1> QED BY <1>2, <1>3, <1>5, <1>9, <1>10 DEF TapInv

LEMMA CloseStep ==
  ASSUME TapInv, CloseTurn
  PROVE  TapInv'
<1>1. /\ conn' = "none" /\ child' = "gone" /\ wire' = <<>> /\ inbox' = <<>> /\ outbox' = <<>>
      /\ UNCHANGED <<splitter, failed, delivered, handled, log>>
  BY DEF CloseTurn, tap_vars
<1>2. TapTyped /\ SplitterInv /\ StreamInv /\ ServedInv
  BY DEF TapInv
<1>3. TapTyped'
  BY <1>1, <1>2 DEF TapTyped
<1>4. delivered \o <<>> = delivered /\ handled \o <<>> = handled
  BY <1>2 DEF TapTyped
<1>5. SplitterInv' /\ StreamInv'
  BY <1>1, <1>2, <1>4 DEF SplitterInv, StreamInv
<1>6. ServedInv'
  <2>1. RequestsIn(LinesIn(log)) \in Seq(Requests) /\ handled \in Seq(Requests) /\ inbox \in Seq(Requests)
    <3>1. log \in Seq(Entry)
      BY <1>2 DEF TapTyped
    <3>2. LinesIn(log) \in Seq(Line)
      BY <3>1, LinesInConcat
    <3>3. RequestsIn(LinesIn(log)) \in Seq(Requests)
      BY <3>2, RequestsConcat
    <3> QED BY <1>2, <3>3 DEF TapTyped
  <2>2. IsPrefix(handled \o inbox, RequestsIn(LinesIn(log)))
    BY <1>2 DEF ServedInv
  <2>3. IsPrefix(handled, RequestsIn(LinesIn(log)))
    BY <2>1, <2>2, ShorterPrefix
  <2> QED BY <1>1, <1>4, <2>3 DEF ServedInv
<1>7. TranscriptIsTheStream'
  <2>1. log' \in Seq(Entry)
    BY <1>3 DEF TapTyped
  <2> QED BY <1>1, <2>1, RecordWillBe
<1> QED BY <1>3, <1>5, <1>6, <1>7 DEF TapInv

LEMMA WriteStep ==
  ASSUME TapInv, NEW bytes,
         \/ bytes \in Written /\ AgentWrites(bytes)
         \/ bytes \in CutShort /\ AgentDies(bytes)
  PROVE  TapInv'
<1>1. /\ child = "up" /\ wire' = wire \o bytes
      /\ UNCHANGED <<conn, run, splitter, failed, delivered, inbox, handled, outbox, log>>
  BY DEF AgentWrites, AgentDies, tap_vars, handler_vars, run_vars
<1>2. TapTyped /\ SplitterInv /\ StreamInv /\ ServedInv /\ TranscriptIsTheStream
  BY DEF TapInv
<1>3. wire \in Seq(Byte) /\ delivered \in Seq(Byte) /\ delivered \o wire \in Seq(Byte) /\ log \in Seq(Entry)
  BY <1>2 DEF TapTyped
<1>4. bytes \in Seq(Byte)
  <2>1. <<>> \in Seq(Byte) /\ LastByte(<<>>)[1] = 0 /\ WellFormed(<<>>)
    <3>1. Len(<<>>) = 0
      OBVIOUS
    <3> QED BY <3>1 DEF LastByte, NL, WellFormed
  <2> QED BY <2>1, Written3
<1>5. TapTyped'
  BY <1>1, <1>2, <1>3, <1>4 DEF TapTyped
<1>6. StreamInv'
  <2>1. WellFormed(delivered')
    BY <1>1, <1>2 DEF StreamInv
  <2>2. ASSUME ~failed'
        PROVE  /\ WellFormed(delivered' \o wire')
               /\ child' = "up" => LastByte(delivered' \o wire')[1] = 0
    <3> DEFINE s == delivered \o wire
    <3>1. s \in Seq(Byte) /\ WellFormed(s) /\ LastByte(s)[1] = 0
      BY <1>1, <1>2, <1>3, <2>2 DEF StreamInv
    <3>2. delivered' \o wire' = s \o bytes
      BY <1>1, <1>3, <1>4, Associates
    <3> HIDE DEF s
    <3>3. CASE bytes \in Written
      BY <3>1, <3>2, <3>3, Written3
    <3>4. CASE bytes \in CutShort /\ AgentDies(bytes)
      <4>1. child' # "up"
        BY <3>4 DEF AgentDies
      <4> QED BY <3>1, <3>2, <3>4, <4>1, Written3
    <3> QED BY <3>3, <3>4
  <2> QED BY <2>1, <2>2 DEF StreamInv
<1>7. SplitterInv' /\ ServedInv'
  BY <1>1, <1>2 DEF SplitterInv, ServedInv
<1>8. TranscriptIsTheStream'
  <2>1. log' \in Seq(Entry)
    BY <1>1, <1>3
  <2> QED BY <1>1, <1>2, <1>3, <2>1, RecordIs, RecordWillBe
<1> QED BY <1>5, <1>6, <1>7, <1>8 DEF TapInv

\* A connection over which nothing passes any more.
LEMMA FailedStep ==
  ASSUME TapInv, failed', wire' = <<>>,
         UNCHANGED <<conn, run, splitter, delivered, child, inbox, handled, outbox, log>>
  PROVE  TapInv'
<1>1. TapTyped /\ SplitterInv /\ StreamInv /\ ServedInv /\ TranscriptIsTheStream
  BY DEF TapInv
<1>2. TapTyped'
  BY <1>1 DEF TapTyped
<1>3. SplitterInv' /\ StreamInv' /\ ServedInv'
  BY <1>1 DEF SplitterInv, StreamInv, ServedInv
<1>4. TranscriptIsTheStream'
  <2>1. log \in Seq(Entry) /\ log' \in Seq(Entry)
    BY <1>1 DEF TapTyped
  <2> QED BY <1>1, <2>1, RecordIs, RecordWillBe
<1> QED BY <1>2, <1>3, <1>4 DEF TapInv

\* What the tap makes of a chunk: the lines the stream has gained.
LEMMA ChunkTaken ==
  ASSUME TapInv, NEW chunk \in Seq(Byte), WellFormed(delivered \o chunk)
  PROVE  \E lns \in Seq(Line) :
           /\ Push(splitter, chunk).lines = lns
           /\ Rest(Push(splitter, chunk)) = Rest(After(LastByte(delivered \o chunk), <<>>))
           /\ LinesOf(delivered \o chunk) = LinesOf(delivered) \o lns
           /\ Arrived(chunk) = RequestsIn(lns)
<1>1. delivered \in Seq(Byte) /\ SplitterInv
  BY DEF TapInv, TapTyped
<1>2. Push(splitter, chunk) = Feeding(After(LastByte(delivered), <<>>), chunk)
  BY <1>1 DEF SplitterInv, Push, Rest, After, Splitter
<1>3. PICK lns \in Seq(Line) :
        /\ Feeding(After(LastByte(delivered), <<>>), chunk) = After(LastByte(delivered \o chunk), lns)
        /\ LinesOf(delivered \o chunk) = LinesOf(delivered) \o lns
  BY <1>1, TapFollows
<1>4. /\ Push(splitter, chunk).lines = lns
      /\ Rest(Push(splitter, chunk)) = Rest(After(LastByte(delivered \o chunk), <<>>))
  BY <1>2, <1>3 DEF After, Splitter, Rest
<1>5. Arrived(chunk) = RequestsIn(lns)
  <2>1. LinesOf(delivered) \in Seq(Line)
    BY <1>1, LinesGrow
  <2>2. SubSeq(LinesOf(delivered) \o lns, Len(LinesOf(delivered)) + 1,
               Len(LinesOf(delivered) \o lns)) = lns
    BY <2>1, Rests
  <2> QED BY <1>3, <2>2 DEF Arrived
<1> QED BY <1>3, <1>4, <1>5

LEMMA DeliverStep ==
  ASSUME TapInv, NEW n, Deliver(n)
  PROVE  TapInv'
<1> DEFINE chunk == SubSeq(wire, 1, n)
           pushed == Push(splitter, chunk)
           left == SubSeq(wire, n + 1, Len(wire))
<1>1. /\ conn = "up" /\ ~failed /\ n \in DOMAIN wire
      /\ UNCHANGED <<conn, run, child, outbox, handled>>
  BY DEF Deliver, run_vars
<1>2. CASE run = "over" /\ pushed.lines # <<>>
  <2>1. /\ failed' /\ wire' = <<>> /\ UNCHANGED <<splitter, delivered, inbox, log>>
    BY <1>2 DEF Deliver
  <2> QED BY <1>1, <2>1, FailedStep
<1>3. CASE ~(run = "over" /\ pushed.lines # <<>>)
  <2>1. /\ splitter' = Rest(pushed) /\ log' = log \o Received(pushed.lines)
        /\ delivered' = delivered \o chunk /\ inbox' = inbox \o Arrived(chunk)
        /\ wire' = left /\ UNCHANGED failed
    BY <1>3 DEF Deliver, Record
  <2>2. TapTyped /\ StreamInv /\ ServedInv /\ TranscriptIsTheStream
    BY DEF TapInv
  <2>3. /\ inbox \in Seq(Requests) /\ handled \in Seq(Requests) /\ outbox \in Seq(Response)
        /\ log \in Seq(Entry) /\ wire \in Seq(Byte) /\ delivered \in Seq(Byte)
    BY <2>2 DEF TapTyped
  <2>4. chunk \in Seq(Byte) /\ left \in Seq(Byte) /\ chunk \o left = wire
    <3>1. n \in 1..Len(wire)
      BY <1>1, <2>3
    <3> QED BY <2>3, <3>1, Parted
  <2> HIDE DEF chunk, left
  <2>5. delivered \o chunk \in Seq(Byte) /\ (delivered \o chunk) \o left = delivered \o wire
    <3>1. delivered \in Seq(Byte) /\ chunk \in Seq(Byte) /\ left \in Seq(Byte)
      BY <2>3, <2>4
    <3>2. delivered \o chunk \in Seq(Byte) /\ (delivered \o chunk) \o left = delivered \o (chunk \o left)
      BY ONLY <3>1, Associates
    <3> QED BY <2>4, <3>2
  <2>6. WellFormed(delivered \o chunk)
    <3>1. WellFormed(delivered \o wire)
      BY <1>1, <2>2 DEF StreamInv
    <3> QED BY <2>4, <2>5, <3>1, WellFormedPart
  <2>7. PICK lns \in Seq(Line) :
           /\ pushed.lines = lns
           /\ Rest(pushed) = Rest(After(LastByte(delivered \o chunk), <<>>))
           /\ LinesOf(delivered \o chunk) = LinesOf(delivered) \o lns
           /\ Arrived(chunk) = RequestsIn(lns)
    BY <2>4, <2>6, ChunkTaken
  <2> HIDE DEF pushed
  <2>8. log' \in Seq(Entry) /\ LinesIn(log') = LinesIn(log) \o lns /\ LinesIn(log) \in Seq(Line)
    <3>1. Received(lns) \in Seq(Entry) /\ LinesIn(Received(lns)) = lns
      BY RecordedLines
    <3>2. log \o Received(lns) \in Seq(Entry)
      BY <2>3, <3>1
    <3>3. /\ LinesIn(log) \in Seq(Line)
          /\ LinesIn(log \o Received(lns)) = LinesIn(log) \o LinesIn(Received(lns))
      BY <2>3, <3>1, LinesInConcat
    <3> QED BY <2>1, <2>7, <3>1, <3>2, <3>3
  <2>9. /\ RequestsIn(LinesIn(log)) \in Seq(Requests) /\ RequestsIn(lns) \in Seq(Requests)
        /\ RequestsIn(LinesIn(log')) = RequestsIn(LinesIn(log)) \o RequestsIn(lns)
    BY <2>7, <2>8, RequestsConcat
  <2>10. TapTyped'
    <3>1. inbox' \in Seq(Requests)
      BY <2>1, <2>3, <2>7, <2>9
    <3> QED BY <1>1, <2>1, <2>3, <2>4, <2>5, <2>8, <3>1 DEF TapTyped
  <2>11. SplitterInv' /\ StreamInv'
    BY <1>1, <2>1, <2>2, <2>5, <2>6, <2>7 DEF SplitterInv, StreamInv
  <2>12. ServedInv'
    <3>1. handled \o inbox = RequestsIn(LinesIn(log))
      BY <1>1, <2>2 DEF ServedInv
    <3>2. handled' \o inbox' = (handled \o inbox) \o RequestsIn(lns)
      <4> DEFINE new == RequestsIn(lns)
      <4>1. handled \in Seq(Requests) /\ inbox \in Seq(Requests) /\ new \in Seq(Requests)
        BY <2>3, <2>9
      <4>2. (handled \o inbox) \o new = handled \o (inbox \o new)
        <5> HIDE DEF new
        <5> QED BY ONLY <4>1, Associates
      <4>3. handled' = handled /\ inbox' = inbox \o RequestsIn(lns)
        BY <1>1, <2>1, <2>7
      <4> QED BY <4>2, <4>3
    <3>3. handled' \o inbox' = RequestsIn(LinesIn(log'))
      BY <2>9, <3>1, <3>2
    <3>4. RequestsIn(LinesIn(log')) \in Seq(Requests)
      BY <2>9
    <3>5. IsPrefix(RequestsIn(LinesIn(log')), RequestsIn(LinesIn(log')))
      BY <3>4, PrefixOfItself
    <3> QED BY <3>3, <3>5 DEF ServedInv
  <2>13. TranscriptIsTheStream'
    <3>1. LinesIn(log) = LinesOf(delivered)
      BY <1>1, <2>2, <2>3, RecordIs
    <3>2. LinesIn(log') = LinesOf(delivered')
      BY <2>1, <2>7, <2>8, <3>1
    <3> QED BY <1>1, <2>8, <3>2, RecordWillBe
  <2> QED BY <2>10, <2>11, <2>12, <2>13 DEF TapInv
<1> QED BY <1>2, <1>3

LEMMA StreamEndsStep ==
  ASSUME TapInv, StreamEnds
  PROVE  TapInv'
<1>1. /\ conn = "up" /\ conn' = "ended" /\ wire = <<>> /\ ~failed
      /\ UNCHANGED <<run, splitter, failed, delivered, wire, child, inbox, handled, outbox>>
  BY DEF StreamEnds, run_vars, agent_vars, tap_vars, handler_vars
<1>2. TapTyped /\ SplitterInv /\ StreamInv /\ ServedInv /\ TranscriptIsTheStream
  BY DEF TapInv
<1>3. /\ inbox \in Seq(Requests) /\ handled \in Seq(Requests)
      /\ log \in Seq(Entry) /\ delivered \in Seq(Byte)
  BY <1>2 DEF TapTyped
<1>4. SplitterInv' /\ StreamInv'
  BY <1>1, <1>2 DEF SplitterInv, StreamInv
<1>5. LinesIn(log) = LinesOf(delivered) /\ LinesIn(log) \in Seq(Line)
  BY <1>1, <1>2, <1>3, RecordIs, LinesInConcat
<1>6. handled \o inbox = RequestsIn(LinesIn(log)) /\ RequestsIn(LinesIn(log)) \in Seq(Requests)
  BY <1>1, <1>2, <1>5, RequestsConcat DEF ServedInv
<1>7. CASE run = "open"
  <2> DEFINE b == LastByte(delivered)
             rest == Handed(splitter.buffered)
  <2>1. b \in Byte /\ WellFormed(delivered)
    <3>1. NL \in Byte
      BY DEF Byte
    <3> QED BY <1>2, <1>3, <3>1, WellFormedGrows DEF StreamInv
  <2>2. splitter.buffered = IF b[1] \in {2, 3} THEN <<b>> ELSE <<>>
    BY <1>2 DEF SplitterInv, Rest, After, Splitter
  <2>3. Unended(delivered) = IF b[1] = 2 THEN <<b>> ELSE <<>>
    BY <1>3, <2>1, UnendedIs
  <2>4. LinesOf(Append(delivered, NL))
          = IF Unended(delivered) # <<>> THEN Append(LinesOf(delivered), Unended(delivered))
            ELSE LinesOf(delivered)
    <3>1. NL \in Byte
      BY DEF Byte
    <3> QED BY <1>3, <3>1, LinesGrow
  <2> HIDE DEF b
  <2>5. rest \in Seq(Line) /\ LinesOf(Append(delivered, NL)) = LinesOf(delivered) \o rest
    <3>1. LinesOf(delivered) \in Seq(Line)
      BY <1>3, LinesGrow
    <3>2. CASE b[1] = 2
      <4>1. rest = <<<<b>>>>
        BY <2>1, <2>2, <3>2, HandedAfter
      <4>2. <<b>> \in Line /\ <<b>> # <<>>
        BY <2>1 DEF Line
      <4>3. <<<<b>>>> \in Seq(Line)
        BY <4>2
      <4>4. LinesOf(Append(delivered, NL)) = Append(LinesOf(delivered), <<b>>)
        BY <2>3, <2>4, <3>2, <4>2
      <4>5. Append(LinesOf(delivered), <<b>>) = LinesOf(delivered) \o <<<<b>>>>
        BY <3>1, <4>2
      <4> QED BY <4>1, <4>3, <4>4, <4>5
    <3>3. CASE b[1] # 2
      <4>1. rest = <<>>
        BY <2>1, <2>2, <3>3, HandedAfter
      <4>2. LinesOf(Append(delivered, NL)) = LinesOf(delivered)
        BY <2>3, <2>4, <3>3
      <4>3. LinesOf(delivered) \o <<>> = LinesOf(delivered) /\ <<>> \in Seq(Line)
        BY <3>1
      <4> QED BY <4>1, <4>2, <4>3
    <3> QED BY <3>2, <3>3
  <2>6. log' = log \o Received(rest)
    BY <1>7 DEF StreamEnds, Record, Flush
  <2> HIDE DEF rest
  <2>7. log' \in Seq(Entry) /\ LinesIn(log') = LinesIn(log) \o rest
    <3>1. Received(rest) \in Seq(Entry) /\ LinesIn(Received(rest)) = rest
      BY <2>5, RecordedLines
    <3>2. log \o Received(rest) \in Seq(Entry)
      BY <1>3, <3>1
    <3>3. LinesIn(log \o Received(rest)) = LinesIn(log) \o LinesIn(Received(rest))
      BY <1>3, <3>1, LinesInConcat
    <3> QED BY <2>6, <3>1, <3>2, <3>3
  <2>8. TapTyped'
    BY <1>1, <1>2, <2>7 DEF TapTyped
  <2>9. ServedInv'
    <3>1. /\ RequestsIn(LinesIn(log')) = RequestsIn(LinesIn(log)) \o RequestsIn(rest)
          /\ RequestsIn(rest) \in Seq(Requests)
      BY <1>5, <2>5, <2>7, RequestsConcat
    <3>2. IsPrefix(RequestsIn(LinesIn(log)), RequestsIn(LinesIn(log)))
      BY <1>6, PrefixOfItself
    <3>3. IsPrefix(RequestsIn(LinesIn(log)), RequestsIn(LinesIn(log)) \o RequestsIn(rest))
      BY <1>6, <3>1, <3>2, LongerPrefixed
    <3> QED BY <1>1, <1>6, <3>1, <3>3 DEF ServedInv
  <2>10. TranscriptIsTheStream'
    BY <1>1, <1>5, <2>5, <2>7, RecordWillBe
  <2> QED BY <1>4, <2>8, <2>9, <2>10 DEF TapInv
<1>8. CASE run # "open"
  <2>1. log' = log
    BY <1>8 DEF StreamEnds
  <2>2. TapTyped'
    BY <1>1, <1>2, <2>1 DEF TapTyped
  <2>3. ServedInv'
    <3>1. IsPrefix(RequestsIn(LinesIn(log)), RequestsIn(LinesIn(log)))
      BY <1>6, PrefixOfItself
    <3> QED BY <1>1, <1>6, <2>1, <3>1 DEF ServedInv
  <2>4. TranscriptIsTheStream'
    BY <1>1, <1>3, <1>8, <2>1, RecordWillBe
  <2> QED BY <1>4, <2>2, <2>3, <2>4 DEF TapInv
<1> QED BY <1>7, <1>8

\* A step of a handler, which takes the next request and answers it.
LEMMA HandlerTook ==
  ASSUME TapInv, inbox # <<>>, inbox' = Tail(inbox), handled' = Append(handled, Head(inbox)),
         UNCHANGED <<conn, run, splitter, failed, delivered, wire, child>>,
         outbox' \in Seq(Response),
         log' = log \/ \E r \in Entry \ Heard : log' = log \o <<r>>
  PROVE  TapInv'
<1>1. log' \in Seq(Entry) /\ LinesIn(log') = LinesIn(log)
  BY AsideRecorded
<1>2. TapTyped /\ SplitterInv /\ StreamInv /\ ServedInv /\ TranscriptIsTheStream
  BY DEF TapInv
<1>3. inbox \in Seq(Requests) /\ handled \in Seq(Requests) /\ log \in Seq(Entry)
  BY <1>2 DEF TapTyped
<1>4. /\ inbox' \in Seq(Requests) /\ handled' \in Seq(Requests)
      /\ handled' \o inbox' = handled \o inbox
  BY <1>3, HeadFirst
<1>5. TapTyped'
  BY <1>1, <1>2, <1>4 DEF TapTyped
<1>6. SplitterInv' /\ StreamInv'
  BY <1>2 DEF SplitterInv, StreamInv
<1>7. ServedInv'
  BY <1>1, <1>2, <1>4 DEF ServedInv
<1>8. TranscriptIsTheStream'
  BY <1>1, <1>2, <1>3, RecordIs, RecordWillBe
<1> QED BY <1>5, <1>6, <1>7, <1>8 DEF TapInv

LEMMA DeniedIsAside ==
  \A m \in Requests : Denied(m) \in Entry \ Heard
BY DEF Entry, Heard, In, Denied

LEMMA OutIsAside ==
  \A response \in Response : Out(response) \in Entry \ Heard
BY DEF Entry, Heard, In, Out

LEMMA TookStep ==
  ASSUME TapInv, NEW m \in Requests,
         ReadTextFile(m) \/ WriteTextFile(m) \/ RequestPermission(m)
  PROVE  TapInv'
<1>1. \E method : Take(m, method)
  BY DEF ReadTextFile, WriteTextFile, RequestPermission
<1>2. /\ inbox # <<>> /\ inbox' = Tail(inbox) /\ handled' = Append(handled, Head(inbox))
      /\ UNCHANGED <<conn, run, splitter, failed, delivered, wire, child>>
  BY <1>1 DEF Take, run_vars, agent_vars, tap_vars
<1>3. \E response \in Response : Answer(response)
  <2>1. "error" \in Response /\ "denied" \in Response
    BY DEF Response
  <2>2. ASSUME NEW op, NEW dir, NEW paths, NEW response \in Response,
               Refuse(m, op, dir, paths, response)
        PROVE  \E r \in Response : Answer(r)
    BY <2>1, <2>2 DEF Refuse
  <2>3. CASE ReadTextFile(m)
    BY <2>1, <2>2, <2>3 DEF ReadTextFile, Response
  <2>4. CASE WriteTextFile(m)
    BY <2>1, <2>2, <2>4 DEF WriteTextFile, Response
  <2>5. CASE RequestPermission(m)
    <3>1. \A option \in {"allow_once", "reject_once"} : Select(option, m.options) \in Response
      BY DEF Select, Response
    <3> QED BY <2>2, <2>5, <3>1 DEF RequestPermission
  <2> QED BY <2>3, <2>4, <2>5
<1>4. outbox' \in Seq(Response)
  <2>1. outbox \in Seq(Response)
    BY DEF TapInv, TapTyped
  <2> QED BY <1>3, <2>1 DEF Answer
<1>5. log' = log \/ log' = log \o <<Denied(m)>>
  <2>1. ASSUME NEW op, NEW dir, NEW paths, NEW response, Refuse(m, op, dir, paths, response)
        PROVE  log' = log \/ log' = log \o <<Denied(m)>>
    BY <2>1 DEF Refuse, Record
  <2>2. CASE ReadTextFile(m)
    BY <2>1, <2>2 DEF ReadTextFile
  <2>3. CASE WriteTextFile(m)
    BY <2>1, <2>3 DEF WriteTextFile
  <2>4. CASE RequestPermission(m)
    BY <2>1, <2>4 DEF RequestPermission
  <2> QED BY <2>2, <2>3, <2>4
<1>6. log' = log \/ \E r \in Entry \ Heard : log' = log \o <<r>>
  BY <1>5, DeniedIsAside
<1> QED BY <1>2, <1>4, <1>6, HandlerTook

LEMMA RespondStep ==
  ASSUME TapInv, Respond
  PROVE  TapInv'
<1>1. /\ outbox # <<>> /\ UNCHANGED <<conn, splitter, failed, delivered, wire, child, inbox, handled>>
      /\ run' = run
  BY DEF Respond, run_vars, agent_vars, tap_vars, handler_vars
<1>2. outbox \in Seq(Response)
  BY DEF TapInv, TapTyped
<1>3. Head(outbox) \in Response /\ Tail(outbox) \in Seq(Response)
  BY <1>1, <1>2
<1>4. outbox' \in Seq(Response)
  <2>1. outbox' = Tail(outbox) \/ outbox' = <<>>
    BY DEF Respond
  <2>2. <<>> \in Seq(Response)
    OBVIOUS
  <2> QED BY <1>3, <2>1, <2>2
<1>5. log' = log \/ \E r \in Entry \ Heard : log' = log \o <<r>>
  <2>1. Out(Head(outbox)) \in Entry \ Heard
    BY <1>3, OutIsAside
  <2>2. log' = log \/ log' = log \o <<Out(Head(outbox))>>
    BY DEF Respond, Record
  <2> QED BY <2>1, <2>2
<1> QED BY <1>1, <1>4, <1>5, AsideStep

\* What has nothing to do with the connection.
LEMMA ElsewhereStep ==
  ASSUME TapInv,
         \/ \E path \in Configured : DetectorOpens(path)
         \/ RunEnds
         \/ \E name \in LinkNames, target \in LinkTargets : ToolLinks(name, target)
         \/ UNCHANGED vars
  PROVE  TapInv'
<1>1. outbox \in Seq(Response)
  BY DEF TapInv, TapTyped
<1>2. /\ UNCHANGED <<conn, splitter, failed, delivered, wire, child, inbox, handled, outbox, log>>
      /\ run' \in {run, "over"}
  <2>1. CASE \E path \in Configured : DetectorOpens(path)
    BY <2>1 DEF DetectorOpens, run_vars, agent_vars, tap_vars
  <2>2. CASE RunEnds
    BY <2>2 DEF RunEnds, run_vars, agent_vars, tap_vars, handler_vars
  <2>3. CASE \E name \in LinkNames, target \in LinkTargets : ToolLinks(name, target)
    BY <2>3 DEF ToolLinks, run_vars, agent_vars, tap_vars, handler_vars
  <2>4. CASE UNCHANGED vars
    BY <2>4 DEF vars, run_vars, agent_vars, tap_vars, handler_vars
  <2> QED BY <2>1, <2>2, <2>3, <2>4
<1> QED BY <1>1, <1>2, AsideStep

LEMMA TapStep == TapInv /\ [Next]_vars => TapInv'
<1> SUFFICES ASSUME TapInv, [Next]_vars
             PROVE  TapInv'
  OBVIOUS
<1>1. CASE \/ \E path \in Configured : DetectorOpens(path)
           \/ RunEnds
           \/ \E name \in LinkNames, target \in LinkTargets : ToolLinks(name, target)
           \/ UNCHANGED vars
  BY <1>1, ElsewhereStep
<1>2. CASE \E for \in Turned : StartTurn(for)
  BY <1>2, StartStep
<1>3. CASE CloseTurn
  BY <1>3, CloseStep
<1>4. CASE \E bytes \in Written : AgentWrites(bytes)
  BY <1>4, WriteStep
<1>5. CASE \E bytes \in CutShort : AgentDies(bytes)
  BY <1>5, WriteStep
<1>6. CASE \E n \in 1..Len(wire) : Deliver(n)
  BY <1>6, DeliverStep
<1>7. CASE StreamEnds
  BY <1>7, StreamEndsStep
<1>8. CASE Respond
  BY <1>8, RespondStep
<1>9. CASE \E m \in Requests : ReadTextFile(m) \/ WriteTextFile(m) \/ RequestPermission(m)
  BY <1>9, TookStep
<1> QED BY <1>1, <1>2, <1>3, <1>4, <1>5, <1>6, <1>7, <1>8, <1>9 DEF Next

LEMMA TapStays == Spec => []TapInv
<1>1. Init => TapInv
  BY TapInit
<1>2. TapInv /\ [Next]_vars => TapInv'
  BY TapStep
<1> QED BY <1>1, <1>2, PTL DEF Spec

LEMMA ServedAreRecorded == TapInv => NothingOffTheRecord
<1> SUFFICES ASSUME TapInv PROVE NothingOffTheRecord
  OBVIOUS
<1>1. /\ inbox \in Seq(Requests) /\ handled \in Seq(Requests) /\ log \in Seq(Entry)
      /\ IsPrefix(handled \o inbox, RequestsIn(LinesIn(log)))
  BY DEF TapInv, TapTyped, ServedInv
<1>2. LinesIn(log) \in Seq(Line) /\ Transcribed = LinesIn(log)
  BY <1>1, LinesInConcat, RecordIs
<1>3. RequestsIn(LinesIn(log)) \in Seq(Requests)
  BY <1>2, RequestsConcat
<1>4. IsPrefix(handled, RequestsIn(LinesIn(log)))
  BY <1>1, <1>3, ShorterPrefix
<1> QED BY <1>2, <1>4 DEF NothingOffTheRecord

\* The transcript of a turn has exactly the lines of the stream the tap let
\* through (tap.ts, transform and flush), for every stream agents write, of any
\* number of messages, and for every way it can be cut into chunks.
THEOREM TranscriptStaysTheStream == Spec => []TranscriptIsTheStream
<1>1. TapInv => TranscriptIsTheStream
  BY DEF TapInv
<1> QED BY <1>1, TapStays, PTL

\* No request is ever handled that is not in the transcript: transform records
\* the lines of a chunk before it passes the chunk on, and a closed transcript
\* stops both.
THEOREM NothingEverOffTheRecord == Spec => []NothingOffTheRecord
BY ServedAreRecorded, TapStays, PTL

=============================================================================
