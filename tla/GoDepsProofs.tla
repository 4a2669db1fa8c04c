---------------------------- MODULE GoDepsProofs ----------------------------
(***************************************************************************)
(* Proofs about GoDeps, for any modules, versions, selections and releases *)
(* of a starter that meets the assumptions of the module.                  *)
(***************************************************************************)
EXTENDS GoDeps, TLAPS

-----------------------------------------------------------------------------
(***************************************************************************)
(* The sort key of versions follows the order of Go.                       *)
(***************************************************************************)
LEMMA KeyLength ==
  ASSUME NEW v, Semver(v), Parses(v)
  PROVE  /\ Len(v.pre) \in Nat
         /\ v.release \in [1 .. 3 -> Nat]
         /\ Len(SemverKey(v)) = 4 + 2 * Len(v.pre)
<1>1. Len(v.pre) \in Nat /\ v.pre \in [1 .. Len(v.pre) -> [1 .. 2 -> Nat]]
  BY DEF Semver
<1>2. v.release \in [1 .. 3 -> Nat]
  BY DEF Semver, Parses
<1> DEFINE n == 4 + 2 * Len(v.pre)
<1>3. n \in Nat
  BY <1>1
<1>4. \A i \in 1 .. n : SemverKey(v)[i] \in Nat
  <2> SUFFICES ASSUME NEW i \in 1 .. n PROVE SemverKey(v)[i] \in Nat
    OBVIOUS
  <2>1. CASE i <= 3
    BY <2>1, <1>2 DEF SemverKey
  <2>2. CASE i = 4
    BY <2>2 DEF SemverKey
  <2>3. CASE i > 4
    <3>1. (i - 3) \div 2 \in 1 .. Len(v.pre) /\ 1 + ((i - 3) % 2) \in 1 .. 2
      BY <2>3, <1>1, <1>3
    <3>2. v.pre[(i - 3) \div 2][1 + ((i - 3) % 2)] \in Nat
      BY <3>1, <1>1
    <3> QED BY <3>2, <2>3 DEF SemverKey
  <2> QED BY <2>1, <2>2, <2>3, <1>3
<1>5. SemverKey(v) \in [1 .. n -> Nat]
  BY <1>4 DEF SemverKey
<1>6. SemverKey(v) \in Seq(Nat)
  BY <1>3, <1>5
<1> QED BY <1>1, <1>2, <1>3, <1>5, <1>6

\* The places of a key: the release, its rank, two for each identifier.
LEMMA KeyPlaces ==
  ASSUME NEW v, Semver(v), Parses(v)
  PROVE  /\ \A i \in 1 .. 3 : SemverKey(v)[i] = v.release[i]
         /\ SemverKey(v)[4] = IF v.pre = <<>> THEN 1 ELSE 0
         /\ \A i \in 1 .. Len(v.pre) :
                /\ SemverKey(v)[3 + 2 * i] = v.pre[i][1]
                /\ SemverKey(v)[4 + 2 * i] = v.pre[i][2]
<1>1. Len(v.pre) \in Nat
  BY KeyLength
<1>2. ASSUME NEW i \in 1 .. Len(v.pre)
      PROVE  /\ SemverKey(v)[3 + 2 * i] = v.pre[i][1]
             /\ SemverKey(v)[4 + 2 * i] = v.pre[i][2]
  <2>1. /\ 3 + 2 * i \in 1 .. 4 + 2 * Len(v.pre) /\ 3 + 2 * i > 4
        /\ 4 + 2 * i \in 1 .. 4 + 2 * Len(v.pre) /\ 4 + 2 * i > 4
    BY <1>1
  <2>2. ((3 + 2 * i) - 3) \div 2 = i /\ 1 + (((3 + 2 * i) - 3) % 2) = 1
    OBVIOUS
  <2>3. ((4 + 2 * i) - 3) \div 2 = i /\ 1 + (((4 + 2 * i) - 3) % 2) = 2
    OBVIOUS
  <2> QED BY <2>1, <2>2, <2>3 DEF SemverKey
<1> QED BY <1>1, <1>2 DEF SemverKey

LEMMA KeyFollowsOrder ==
  ASSUME NEW v, NEW w, Semver(v), Parses(v), Semver(w), Parses(w), Precedes(v, w)
  PROVE  TupleLess(SemverKey(v), SemverKey(w))
<1> DEFINE a == SemverKey(v)
           b == SemverKey(w)
<1>1. /\ Len(v.pre) \in Nat /\ Len(w.pre) \in Nat
      /\ Len(a) = 4 + 2 * Len(v.pre) /\ Len(b) = 4 + 2 * Len(w.pre)
      /\ v.release \in [1 .. 3 -> Nat] /\ w.release \in [1 .. 3 -> Nat]
  BY KeyLength
<1>2. /\ \A i \in 1 .. 3 : a[i] = v.release[i] /\ b[i] = w.release[i]
      /\ a[4] = IF v.pre = <<>> THEN 1 ELSE 0
      /\ b[4] = IF w.pre = <<>> THEN 1 ELSE 0
      /\ \A i \in 1 .. Len(v.pre) : a[3 + 2 * i] = v.pre[i][1] /\ a[4 + 2 * i] = v.pre[i][2]
      /\ \A i \in 1 .. Len(w.pre) : b[3 + 2 * i] = w.pre[i][1] /\ b[4 + 2 * i] = w.pre[i][2]
  BY KeyPlaces
<1>3. /\ v.pre = <<>> <=> Len(v.pre) = 0
      /\ w.pre = <<>> <=> Len(w.pre) = 0
  BY DEF Semver
<1> HIDE DEF a, b
<1> SUFFICES \E i \in 1 .. Len(b) :
                /\ \A j \in 1 .. i - 1 : j <= Len(a) /\ a[j] = b[j]
                /\ i > Len(a) \/ a[i] < b[i]
  BY DEF TupleLess, a, b
<1>4. CASE \E i \in 1 .. 3 : SameUpTo(v.release, w.release, i - 1) /\ v.release[i] < w.release[i]
  <2>1. PICK i \in 1 .. 3 : SameUpTo(v.release, w.release, i - 1) /\ v.release[i] < w.release[i]
    BY <1>4
  <2>2. i \in 1 .. Len(b) /\ a[i] < b[i]
    <3>1. i \in 1 .. Len(b)
      <4>1. Len(b) \in Nat /\ 3 <= Len(b)
        BY <1>1
      <4> QED BY <4>1
    <3>2. a[i] = v.release[i] /\ b[i] = w.release[i]
      BY <2>1, <1>2
    <3> QED BY <2>1, <3>1, <3>2
  <2>3. ASSUME NEW j \in 1 .. i - 1 PROVE j <= Len(a) /\ a[j] = b[j]
    <3>1. j \in 1 .. 3 /\ v.release[j] = w.release[j]
      BY <2>1 DEF SameUpTo
    <3>2. a[j] = b[j]
      BY <3>1, <1>2
    <3>3. j <= Len(a)
      BY <3>1, <1>1
    <3> QED BY <3>2, <3>3
  <2> QED BY <2>2, <2>3
<1>5. CASE v.release = w.release /\ v.pre # <<>> /\ w.pre = <<>>
  <2>1. a[4] < b[4] /\ \A j \in 1 .. 3 : a[j] = b[j]
    BY <1>5, <1>2
  <2>4. Len(a) \in Nat /\ 4 <= Len(a) /\ Len(b) \in Nat /\ 4 <= Len(b)
    BY <1>1
  <2>2. \A j \in 1 .. 4 - 1 : j <= Len(a) /\ a[j] = b[j]
    BY <2>1, <2>4
  <2>3. 4 \in 1 .. Len(b)
    BY <2>4
  <2> QED BY <2>1, <2>2, <2>3
\* Keys of prereleases of one release agree as far as their identifiers do.
<1>6. ASSUME v.release = w.release, v.pre # <<>>, w.pre # <<>>,
             NEW n \in Nat, n <= Len(v.pre), n <= Len(w.pre), SameUpTo(v.pre, w.pre, n)
      PROVE  \A j \in 1 .. 4 + 2 * n : j <= Len(a) /\ a[j] = b[j]
  <2> SUFFICES ASSUME NEW j \in 1 .. 4 + 2 * n PROVE j <= Len(a) /\ a[j] = b[j]
    OBVIOUS
  <2>1. CASE j <= 4
    <3>1. j \in 1 .. 3 \/ j = 4
      BY <2>1
    <3>2. j <= Len(a)
      BY <3>1, <1>1
    <3>3. a[j] = b[j]
      BY <3>1, <1>6, <1>2
    <3> QED BY <3>2, <3>3
  <2>2. CASE j > 4
    <3>1. PICK i \in 1 .. n : j = 3 + 2 * i \/ j = 4 + 2 * i
      <4>1. (j - 3) \div 2 \in 1 .. n /\ (j = 3 + 2 * ((j - 3) \div 2) \/ j = 4 + 2 * ((j - 3) \div 2))
        BY <2>2
      <4> QED BY <4>1
    <3>2. v.pre[i] = w.pre[i] /\ i \in 1 .. Len(v.pre) /\ i \in 1 .. Len(w.pre)
      BY <1>6, <1>1 DEF SameUpTo
    <3>3. a[j] = b[j]
      <4>1. a[3 + 2 * i] = v.pre[i][1] /\ a[4 + 2 * i] = v.pre[i][2]
        BY <3>2, <1>2
      <4>2. b[3 + 2 * i] = w.pre[i][1] /\ b[4 + 2 * i] = w.pre[i][2]
        BY <3>2, <1>2
      <4>3. v.pre[i][1] = w.pre[i][1] /\ v.pre[i][2] = w.pre[i][2]
        BY <3>2
      <4>4. CASE j = 3 + 2 * i
        BY <4>1, <4>2, <4>3, <4>4
      <4>5. CASE j = 4 + 2 * i
        BY <4>1, <4>2, <4>3, <4>5
      <4> QED BY <3>1, <4>4, <4>5
    <3>4. j <= Len(a)
      BY <3>1, <3>2, <1>1, SMTT(30)
    <3> QED BY <3>3, <3>4
  <2> QED BY <2>1, <2>2
<1>7. CASE /\ v.release = w.release
           /\ Len(v.pre) < Len(w.pre) /\ v.pre # <<>> /\ SameUpTo(v.pre, w.pre, Len(v.pre))
  <2>1. w.pre # <<>>
    BY <1>7, <1>1, <1>3
  <2>2. \A j \in 1 .. 4 + 2 * Len(v.pre) : j <= Len(a) /\ a[j] = b[j]
    <3>1. Len(v.pre) <= Len(v.pre) /\ Len(v.pre) <= Len(w.pre)
      BY <1>1, <1>7
    <3> QED BY <3>1, <1>6, <1>7, <2>1, <1>1
  <2>3. 5 + 2 * Len(v.pre) \in 1 .. Len(b) /\ 5 + 2 * Len(v.pre) > Len(a)
    BY <1>1, <1>7
  <2>4. 4 + 2 * Len(v.pre) = (5 + 2 * Len(v.pre)) - 1
    BY <1>1
  <2> QED BY <2>2, <2>3, <2>4
<1>8. CASE /\ v.release = w.release
           /\ \E i \in 1 .. Len(v.pre) :
                i <= Len(w.pre) /\ SameUpTo(v.pre, w.pre, i - 1) /\ IdPrecedes(v.pre[i], w.pre[i])
  <2>1. PICK i \in 1 .. Len(v.pre) :
                i <= Len(w.pre) /\ SameUpTo(v.pre, w.pre, i - 1) /\ IdPrecedes(v.pre[i], w.pre[i])
    BY <1>8
  <2>2. v.pre # <<>> /\ w.pre # <<>>
    BY <2>1, <1>1, <1>3
  <2>3. \A j \in 1 .. 4 + 2 * (i - 1) : j <= Len(a) /\ a[j] = b[j]
    <3>1. i - 1 \in Nat /\ i - 1 <= Len(v.pre) /\ i - 1 <= Len(w.pre)
      BY <2>1, <1>1, SMTT(30)
    <3> QED BY <3>1, <1>6, <1>8, <2>1, <2>2
  <2>4. /\ a[3 + 2 * i] = v.pre[i][1] /\ a[4 + 2 * i] = v.pre[i][2]
        /\ b[3 + 2 * i] = w.pre[i][1] /\ b[4 + 2 * i] = w.pre[i][2]
    BY <2>1, <1>1, <1>2
  <2>5. CASE v.pre[i][1] < w.pre[i][1]
    <3>1. 3 + 2 * i \in 1 .. Len(b) /\ 4 + 2 * (i - 1) = (3 + 2 * i) - 1
      BY <2>1, <1>1
    <3>2. \A j \in 1 .. (3 + 2 * i) - 1 : j <= Len(a) /\ a[j] = b[j]
      BY <3>1, <2>3
    <3>3. a[3 + 2 * i] < b[3 + 2 * i]
      BY <2>4, <2>5
    <3> QED BY <3>1, <3>2, <3>3
  <2>6. CASE v.pre[i][1] = w.pre[i][1] /\ v.pre[i][2] < w.pre[i][2]
    <3>1. /\ 4 + 2 * i \in 1 .. Len(b) /\ 3 + 2 * i <= Len(a)
          /\ \A j \in 1 .. (4 + 2 * i) - 1 : j = 3 + 2 * i \/ j \in 1 .. 4 + 2 * (i - 1)
      BY <2>1, <1>1, SMTT(30)
    <3>2. \A j \in 1 .. (4 + 2 * i) - 1 : j <= Len(a) /\ a[j] = b[j]
      BY <3>1, <2>3, <2>4, <2>6
    <3>3. a[4 + 2 * i] < b[4 + 2 * i]
      BY <2>4, <2>6
    <3> QED BY <3>1, <3>2, <3>3
  <2> QED BY <2>1, <2>5, <2>6 DEF IdPrecedes
<1> QED BY <1>4, <1>5, <1>7, <1>8 DEF Precedes, PrePrecedes

LEMMA NothingPrecedesItself ==
  ASSUME NEW v, Semver(v), Parses(v)
  PROVE  ~Precedes(v, v)
<1>1. v.release \in [1 .. 3 -> Nat] /\ Len(v.pre) \in Nat /\ v.pre \in [1 .. Len(v.pre) -> [1 .. 2 -> Nat]]
  BY KeyLength DEF Semver
<1>2. ASSUME NEW i \in 1 .. 3 PROVE ~(v.release[i] < v.release[i])
  BY <1>1
<1>3. ASSUME NEW i \in 1 .. Len(v.pre) PROVE ~IdPrecedes(v.pre[i], v.pre[i])
  BY <1>1 DEF IdPrecedes
<1>4. ~(Len(v.pre) < Len(v.pre))
  BY <1>1
<1> QED BY <1>2, <1>3, <1>4 DEF Precedes, PrePrecedes

-----------------------------------------------------------------------------
(***************************************************************************)
(* The invariant.  A name that has lost its requirement is one that the    *)
(* release in use names, or was lost before it came; and what a careful    *)
(* user's file was when it was read, it is when the merge is written.      *)
(***************************************************************************)
ModInv == pc \in {"names", "asknames"} /\ whole => Required(Rendered) \subseteq Required(mod)
SumInv == pc \in {"mod", "askmod"} => StarterSums[release] \subseteq sums
NameInv == names \ Required(mod) \subseteq behind \cup StarterNames[release][Everything]
ReadInv == (pc = "askmod" => read = mod) /\ (pc = "asknames" => readNames = names)
IInv == TypeOK /\ YoursStay /\ SumsCover /\ InStep /\ ModInv /\ SumInv /\ NameInv /\ ReadInv

LEMMA KeyFacts ==
  ASSUME NEW m \in Modules
  PROVE  /\ Require(m) \in Keys /\ Require(m)[1] = "require"
         /\ Require(m) # Go /\ Require(m) # Path
         /\ \A n \in Modules : Require(m) = Require(n) => m = n
         /\ \A n \in Modules : Require(m) # Replace(n)
         /\ EntriesOf(Require(m)) = [arg : Semvers, indirect : BOOLEAN]
BY DEF Require, Keys, Go, Path, Replace, EntriesOf

LEMMA StarterFacts ==
  ASSUME NEW r \in Releases, NEW s \in Selections
  PROVE  /\ IsGoMod(Starter[r][s])
         /\ StarterNames[r][s] \subseteq Required(Starter[r][s])
         /\ StarterNames[r][s] \subseteq Modules
         /\ StarterNames[r][s] \subseteq StarterNames[r][Everything]
         /\ Required(Starter[r][s]) \subseteq Required(Starter[r][Everything])
         /\ DOMAIN Starter[r][s] \subseteq DOMAIN Starter[r][Everything]
         /\ \A m \in Required(Starter[r][s]) : <<m, Starter[r][s][Require(m)].arg>> \in StarterSums[r]
         /\ StarterSums[r] \subseteq Modules \X Semvers
BY StarterAssumption DEF Required

LEMMA FoldType ==
  ASSUME NEW k \in Keys, NEW ours \in EntriesOf(k), NEW theirs \in EntriesOf(k)
  PROVE  /\ Fold(k, ours, theirs) \in EntriesOf(k)
         /\ \A m \in Modules : k = Require(m) =>
                /\ Fold(k, ours, theirs).indirect = (ours.indirect /\ theirs.indirect)
                /\ Fold(k, ours, theirs).arg = IF Higher(theirs.arg, ours.arg) THEN theirs.arg ELSE ours.arg
<1>1. CASE k = Path
  BY <1>1, KeyFacts DEF Fold, EntriesOf, Path, Go
<1>2. CASE k = Go
  BY <1>2, KeyFacts DEF Fold, EntriesOf, Path, Go
<1>3. CASE k # Path /\ k # Go /\ k[1] = "require"
  <2>1. Fold(k, ours, theirs) =
            [arg |-> IF Higher(theirs.arg, ours.arg) THEN theirs.arg ELSE ours.arg,
             indirect |-> ours.indirect /\ theirs.indirect]
    BY <1>3 DEF Fold
  <2>2. EntriesOf(k) = [arg : Semvers, indirect : BOOLEAN]
    BY <1>3 DEF EntriesOf
  <2> QED BY <2>1, <2>2
<1>4. CASE k # Path /\ k # Go /\ k[1] # "require"
  BY <1>4, KeyFacts DEF Fold
<1> QED BY <1>1, <1>2, <1>3, <1>4

LEMMA MergeFacts ==
  ASSUME NEW rendered, NEW existing, NEW shippable,
         IsGoMod(rendered), IsGoMod(existing), DOMAIN rendered \subseteq DOMAIN shippable
  PROVE  LET merged == MergeGoMod(rendered, existing, shippable)
         IN  /\ IsGoMod(merged)
             /\ Required(rendered) \subseteq Required(merged)
             /\ Required(existing) \ Required(merged) \subseteq Required(shippable) \ Required(rendered)
             /\ \A m \in Required(existing) \ Required(shippable) :
                    m \in Required(merged) /\ merged[Require(m)] = existing[Require(m)]
             /\ \A m \in Required(merged) :
                    \/ /\ m \in Required(rendered) /\ m \notin Required(existing)
                       /\ merged[Require(m)] = rendered[Require(m)]
                    \/ /\ m \in Required(existing) /\ m \notin Required(rendered)
                       /\ merged[Require(m)] = existing[Require(m)]
                    \/ /\ m \in Required(existing) /\ m \in Required(rendered)
                       /\ merged[Require(m)] = Fold(Require(m), rendered[Require(m)], existing[Require(m)])
<1> DEFINE merged == MergeGoMod(rendered, existing, shippable)
<1>1. DOMAIN merged = DOMAIN rendered \cup (DOMAIN existing \ DOMAIN shippable)
  BY DEF MergeGoMod
<1>2. ASSUME NEW k \in DOMAIN merged
      PROVE  merged[k] = IF k \notin DOMAIN rendered THEN existing[k]
                         ELSE IF k \in DOMAIN existing THEN Fold(k, rendered[k], existing[k])
                         ELSE rendered[k]
  BY <1>2, <1>1 DEF MergeGoMod
<1>3. merged = [k \in DOMAIN merged |-> merged[k]]
  BY DEF MergeGoMod
<1> HIDE DEF merged
<1>4. IsGoMod(merged)
  <2>1. ASSUME NEW k \in DOMAIN merged PROVE merged[k] \in EntriesOf(k)
    <3>1. k \in Keys /\ (k \in DOMAIN rendered => rendered[k] \in EntriesOf(k))
          /\ (k \in DOMAIN existing => existing[k] \in EntriesOf(k))
      BY <1>1 DEF IsGoMod
    <3>2. k \in DOMAIN rendered /\ k \in DOMAIN existing => Fold(k, rendered[k], existing[k]) \in EntriesOf(k)
      BY <3>1, FoldType
    <3> QED BY <1>1, <1>2, <3>1, <3>2
  <2> QED BY <2>1, <1>1, <1>3 DEF IsGoMod
<1>5. ASSUME NEW m \in Required(merged)
      PROVE  \/ /\ m \in Required(rendered) /\ m \notin Required(existing)
                /\ merged[Require(m)] = rendered[Require(m)]
             \/ /\ m \in Required(existing) /\ m \notin Required(rendered)
                /\ merged[Require(m)] = existing[Require(m)]
             \/ /\ m \in Required(existing) /\ m \in Required(rendered)
                /\ merged[Require(m)] = Fold(Require(m), rendered[Require(m)], existing[Require(m)])
  BY <1>1, <1>2 DEF Required
<1>6. \A m \in Required(existing) \ Required(shippable) :
            m \in Required(merged) /\ merged[Require(m)] = existing[Require(m)]
  BY <1>1, <1>2 DEF Required
<1>7. /\ Required(rendered) \subseteq Required(merged)
      /\ Required(existing) \ Required(merged) \subseteq Required(shippable) \ Required(rendered)
  BY <1>1 DEF Required
<1> QED BY <1>4, <1>5, <1>6, <1>7 DEF merged

-----------------------------------------------------------------------------
\* What one entry of a requirement, set or added, changes.
LEMMA SetFacts ==
  ASSUME NEW m \in Modules, NEW e \in [arg : Semvers, indirect : BOOLEAN], IsGoMod(mod),
         mod' = [k \in DOMAIN mod \cup {Require(m)} |-> IF k = Require(m) THEN e ELSE mod[k]]
  PROVE  /\ IsGoMod(mod)'
         /\ Required(mod') = Required(mod) \cup {m}
         /\ mod'[Require(m)] = e
         /\ \A n \in Required(mod) : n # m => mod'[Require(n)] = mod[Require(n)]
<1>1. DOMAIN mod' = DOMAIN mod \cup {Require(m)}
  OBVIOUS
<1>2. \A k \in DOMAIN mod' : mod'[k] = IF k = Require(m) THEN e ELSE mod[k]
  OBVIOUS
<1>3. IsGoMod(mod)'
  <2>1. Require(m) \in Keys /\ e \in EntriesOf(Require(m))
    BY KeyFacts
  <2>2. mod' = [k \in DOMAIN mod' |-> mod'[k]]
    BY <1>1
  <2>3. DOMAIN mod' \subseteq Keys
    BY <1>1, <2>1 DEF IsGoMod
  <2>4. ASSUME NEW k \in DOMAIN mod' PROVE mod'[k] \in EntriesOf(k)
    BY <1>1, <1>2, <2>1 DEF IsGoMod
  <2> QED BY <2>2, <2>3, <2>4 DEF IsGoMod
<1>4. Required(mod') = Required(mod) \cup {m}
  BY <1>1, KeyFacts DEF Required
<1> QED BY <1>1, <1>2, <1>3, <1>4, KeyFacts DEF Required

\* Types, whatever the user does and whenever.
LEMMA RenderedFacts ==
  ASSUME TypeOK
  PROVE  /\ release \in Releases /\ selection \in Selections /\ Everything \in Selections
         /\ IsGoMod(Rendered) /\ DOMAIN Rendered \subseteq DOMAIN Shippable
<1>1. release \in Releases /\ selection \in Selections /\ Everything \in Selections
  BY ReleaseAssumption DEF TypeOK
<1> QED BY <1>1, StarterFacts DEF Rendered, Shippable

LEMMA NoModFacts == IsGoMod(NoMod) /\ DOMAIN NoMod = {}
BY DEF NoMod, IsGoMod

LEMMA TypeStep == TypeOK /\ [Next]_vars => TypeOK'
<1> SUFFICES ASSUME TypeOK, [Next]_vars PROVE TypeOK'
  OBVIOUS
<1>1. ASSUME NEW m \in Modules, NEW v \in Semvers, Get(m, v) PROVE TypeOK'
  <2> DEFINE e == [arg |-> v, indirect |-> FALSE]
  <2>1. IsGoMod(mod)'
    <3>1. mod' = [k \in DOMAIN mod \cup {Require(m)} |-> IF k = Require(m) THEN e ELSE mod[k]]
      BY <1>1 DEF Get
    <3>2. IsGoMod(mod) /\ e \in [arg : Semvers, indirect : BOOLEAN]
      BY DEF TypeOK
    <3> HIDE DEF e
    <3> QED BY <3>1, <3>2, SetFacts
  <2>2. DOMAIN asked' = DOMAIN asked \cup {m} /\ \A n \in DOMAIN asked' : asked'[n] = IF n = m THEN v ELSE asked[n]
    BY <1>1 DEF Get
  <2> QED BY <1>1, <2>1, <2>2 DEF TypeOK, Get, reads
<1>2. ASSUME NEW m \in Modules, NEW v \in Semvers, Bring(m, v) PROVE TypeOK'
  <2> DEFINE e == [arg |-> v, indirect |-> m \notin Direct(mod)]
  <2>1. IsGoMod(mod)'
    <3>1. mod' = [k \in DOMAIN mod \cup {Require(m)} |-> IF k = Require(m) THEN e ELSE mod[k]]
      BY <1>2 DEF Bring
    <3>2. IsGoMod(mod) /\ e \in [arg : Semvers, indirect : BOOLEAN]
      BY DEF TypeOK
    <3> HIDE DEF e
    <3> QED BY <3>1, <3>2, SetFacts
  <2> QED BY <1>2, <2>1 DEF TypeOK, Bring, reads, ghosts
<1>3. ASSUME NEW m \in Modules, Drop(m) PROVE TypeOK'
  <2>1. mod' = [k \in DOMAIN mod \ {Require(m), Replace(m)} |-> mod[k]]
    BY <1>3 DEF Drop
  <2>2. /\ DOMAIN mod' = DOMAIN mod \ {Require(m), Replace(m)}
        /\ \A k \in DOMAIN mod' : mod'[k] = mod[k]
    BY <2>1
  <2>3. IsGoMod(mod)'
    BY <2>1, <2>2 DEF TypeOK, IsGoMod
  <2>4. DOMAIN asked' = DOMAIN asked \ {m} /\ \A n \in DOMAIN asked' : asked'[n] = asked[n]
    BY <1>3 DEF Drop
  <2> QED BY <1>3, <2>3, <2>4 DEF TypeOK, Drop, reads
<1>4. CASE Tidy
  BY <1>4 DEF TypeOK, Tidy, reads, ghosts
<1>5. ASSUME NEW k \in Edited, NEW e, Edit(k, e) PROVE TypeOK'
  <2>1. mod' = [l \in DOMAIN mod \cup {k} |-> IF l = k THEN e ELSE mod[l]] /\ e \in EntriesOf(k)
    BY <1>5 DEF Edit
  <2>2. k \in Keys
    BY EditedAssumption
  <2>3. /\ DOMAIN mod' = DOMAIN mod \cup {k}
        /\ \A l \in DOMAIN mod' : mod'[l] = IF l = k THEN e ELSE mod[l]
    BY <2>1
  <2>4. IsGoMod(mod)'
    BY <2>1, <2>2, <2>3 DEF TypeOK, IsGoMod
  <2> QED BY <1>5, <2>4 DEF TypeOK, Edit, reads, ghosts
<1>6. CASE Update
  <2>1. release' \in Releases
    BY <1>6, ReleaseAssumption DEF Update, TypeOK, Releases
  <2> QED BY <1>6, <2>1 DEF Update, TypeOK, files, reads
<1>7. ASSUME NEW s \in Selections, Start(s) PROVE TypeOK'
  BY <1>7 DEF Start, TypeOK, files, reads, ghosts
<1>8. CASE WriteSums
  <2>1. StarterSums[release] \subseteq Modules \X Semvers
    BY StarterAssumption DEF TypeOK
  <2> QED BY <1>8, <2>1 DEF WriteSums, MergeGoSum, TypeOK, reads, ghosts
<1>9. CASE ReadMod \/ ReadNames
  BY <1>9 DEF ReadMod, ReadNames, TypeOK, files, ghosts
<1>10. ASSUME NEW kept \in BOOLEAN, WriteMod(kept) PROVE TypeOK'
  <2>1. IsGoMod(MergeGoMod(Rendered, read, Shippable))
    BY RenderedFacts, MergeFacts DEF TypeOK
  <2>2. IsGoMod(mod)'
    BY <1>10, <2>1 DEF WriteMod, TypeOK
  <2>3. IsGoMod(read)'
    BY <1>10, NoModFacts DEF WriteMod
  <2> QED BY <1>10, <2>2, <2>3 DEF WriteMod, TypeOK, ghosts
<1>11. ASSUME NEW kept \in BOOLEAN, WriteNames(kept) PROVE TypeOK'
  <2>1. StarterNames[release][selection] \subseteq Modules
    BY RenderedFacts, StarterFacts
  <2> QED BY <1>11, <2>1 DEF WriteNames, MergeGoUseRepo, TypeOK, ghosts
<1>12. CASE Stop
  <2>1. IsGoMod(read)'
    BY <1>12, NoModFacts DEF Stop
  <2> QED BY <1>12, <2>1 DEF Stop, TypeOK, files, ghosts
<1>13. CASE UNCHANGED vars
  BY <1>13 DEF TypeOK, vars, files, reads, ghosts
<1> QED BY <1>1, <1>2, <1>3, <1>4, <1>5, <1>6, <1>7, <1>8, <1>9, <1>10, <1>11, <1>12, <1>13
           DEF Next, User, RunStep

\* The variables keep their types: a merge of two go.mod files is one.
THEOREM TypeCorrect == Spec => []TypeOK
<1>1. Init => TypeOK
  <2> SUFFICES ASSUME Init PROVE TypeOK
    OBVIOUS
  <2>1. IsGoMod(mod) /\ IsGoMod(read)
    BY NoModFacts DEF Init
  <2>2. DOMAIN asked = {} /\ release \in Releases
    BY ReleaseAssumption DEF Init, Releases
  <2> QED BY <2>1, <2>2 DEF Init, TypeOK
<1> QED BY <1>1, TypeStep, PTL DEF Spec

-----------------------------------------------------------------------------
LEMMA InitHolds == Init => IInv
<1> SUFFICES ASSUME Init PROVE IInv
  OBVIOUS
<1>1. DOMAIN mod = {} /\ IsGoMod(mod)
  BY NoModFacts DEF Init
<1>2. Required(mod) = {}
  BY <1>1 DEF Required
<1>3. TypeOK
  <2>1. DOMAIN asked = {}
    BY DEF Init
  <2>2. release \in Releases
    BY ReleaseAssumption DEF Init, Releases
  <2> QED BY <1>1, <2>1, <2>2, NoModFacts DEF Init, TypeOK
<1>4. YoursStay
  BY DEF Init, YoursStay, Own
<1>5. SumsCover /\ InStep /\ ModInv /\ SumInv /\ NameInv /\ ReadInv
  BY <1>2 DEF Init, SumsCover, InStep, ModInv, SumInv, NameInv, ReadInv
<1> QED BY <1>3, <1>4, <1>5 DEF IInv

LEMMA UpdateStep == IInv /\ TypeOK' /\ Update => IInv'
<1> SUFFICES ASSUME IInv, TypeOK', Update PROVE IInv'
  OBVIOUS
<1> USE DEF IInv
<1>1. /\ pc = "idle" /\ release' = release + 1 /\ behind' = names \ Required(mod)
      /\ UNCHANGED <<mod, sums, names, pc, read, readNames, whole, asked>>
  BY DEF Update, files, reads
<1>2. Required(mod') = Required(mod) /\ Direct(mod') = Direct(mod)
  BY <1>1 DEF Required, Direct
<1>3. YoursStay'
  <2>1. Own' \subseteq Own
    BY <1>1, ReleaseAssumption DEF Own, TypeOK, Releases
  <2> QED BY <2>1, <1>1, <1>2 DEF YoursStay
<1>4. SumsCover'
  BY <1>1, <1>2 DEF SumsCover
<1>5. InStep' /\ ModInv' /\ SumInv' /\ NameInv' /\ ReadInv'
  BY <1>1, <1>2 DEF InStep, ModInv, SumInv, NameInv, ReadInv
<1> QED BY <1>3, <1>4, <1>5

LEMMA GetStep ==
  ASSUME NEW m \in Modules, NEW v \in Semvers, IInv, Careful, TypeOK', Get(m, v)
  PROVE  IInv'
<1> USE DEF IInv
<1> DEFINE e == [arg |-> v, indirect |-> FALSE]
<1>1. mod' = [k \in DOMAIN mod \cup {Require(m)} |-> IF k = Require(m) THEN e ELSE mod[k]]
  BY DEF Get
<1>2. IsGoMod(mod) /\ e \in [arg : Semvers, indirect : BOOLEAN]
  BY DEF TypeOK
<1> HIDE DEF e
<1>3. /\ IsGoMod(mod)'
      /\ Required(mod') = Required(mod) \cup {m}
      /\ mod'[Require(m)] = e
      /\ \A n \in Required(mod) : n # m => mod'[Require(n)] = mod[Require(n)]
  BY <1>1, <1>2, SetFacts
<1>4. e.arg = v /\ e.indirect = FALSE
  BY DEF e
<1>5. DOMAIN asked' = DOMAIN asked \cup {m} /\ \A n \in DOMAIN asked' : asked'[n] = IF n = m THEN v ELSE asked[n]
  BY DEF Get
<1>6. sums' = sums \cup {<<m, v>>} /\ names' = names \cup {m}
      /\ pc # "askmod" /\ pc # "asknames"
      /\ UNCHANGED <<release, selection, pc, read, readNames, whole, behind>>
  BY DEF Get, ModOpen, NamesOpen, reads
<1>8. YoursStay'
  <2> SUFFICES ASSUME NEW n \in Own'
               PROVE  /\ n \in Direct(mod') /\ mod'[Require(n)].arg = asked'[n]
                      /\ <<n, asked'[n]>> \in sums'
                      /\ n \in names'
    BY DEF YoursStay
  <2>1. CASE n = m
    BY <2>1, <1>3, <1>4, <1>5, <1>6 DEF Direct
  <2>2. CASE n # m
    <3>1. n \in Own
      BY <2>2, <1>5, <1>6 DEF Own
    <3> QED BY <3>1, <2>2, <1>3, <1>5, <1>6 DEF YoursStay, Direct, Own
  <2> QED BY <2>1, <2>2
<1>9. SumsCover'
  BY <1>3, <1>4, <1>6 DEF SumsCover
<1>10. InStep' /\ ModInv' /\ SumInv' /\ NameInv' /\ ReadInv'
  <2>1. Shippable' = Shippable /\ Rendered' = Rendered
    BY <1>6 DEF Shippable, Rendered
  <2>2. Required(Shippable') = Required(Shippable) /\ Required(Rendered') = Required(Rendered)
    BY <2>1
  <2> QED BY <2>2, <1>3, <1>6 DEF InStep, ModInv, SumInv, NameInv, ReadInv
<1> QED BY <1>8, <1>9, <1>10

LEMMA BringStep ==
  ASSUME NEW m \in Modules, NEW v \in Semvers, IInv, Careful, TypeOK', Bring(m, v)
  PROVE  IInv'
<1> USE DEF IInv
<1> DEFINE e == [arg |-> v, indirect |-> m \notin Direct(mod)]
<1>1. mod' = [k \in DOMAIN mod \cup {Require(m)} |-> IF k = Require(m) THEN e ELSE mod[k]]
  BY DEF Bring
<1>2. IsGoMod(mod) /\ e \in [arg : Semvers, indirect : BOOLEAN] /\ e.arg = v
  BY DEF TypeOK
<1> HIDE DEF e
<1>3. /\ IsGoMod(mod)'
      /\ Required(mod') = Required(mod) \cup {m}
      /\ mod'[Require(m)] = e
      /\ \A n \in Required(mod) : n # m => mod'[Require(n)] = mod[Require(n)]
  BY <1>1, <1>2, SetFacts
<1>4. /\ sums' = sums \cup {<<m, v>>} /\ m \notin DOMAIN asked /\ pc # "askmod"
      /\ UNCHANGED <<names, release, selection, pc, read, readNames, whole, asked, behind>>
  BY DEF Bring, ModOpen, reads, ghosts
<1>6. YoursStay'
  <2> SUFFICES ASSUME NEW n \in Own'
               PROVE  /\ n \in Direct(mod') /\ mod'[Require(n)].arg = asked'[n]
                      /\ <<n, asked'[n]>> \in sums'
                      /\ n \in names'
    BY DEF YoursStay
  <2>1. n \in Own /\ n # m
    BY <1>4 DEF Own
  <2> QED BY <2>1, <1>3, <1>4 DEF YoursStay, Direct, Own
<1>7. SumsCover'
  BY <1>2, <1>3, <1>4 DEF SumsCover
<1>8. InStep' /\ ModInv' /\ SumInv' /\ NameInv' /\ ReadInv'
  <2>1. Shippable' = Shippable /\ Rendered' = Rendered
    BY <1>4 DEF Shippable, Rendered
  <2>2. Required(Shippable') = Required(Shippable) /\ Required(Rendered') = Required(Rendered)
    BY <2>1
  <2> QED BY <2>2, <1>3, <1>4 DEF InStep, ModInv, SumInv, NameInv, ReadInv
<1> QED BY <1>6, <1>7, <1>8

LEMMA DropStep ==
  ASSUME NEW m \in Modules, IInv, TypeOK', Drop(m)
  PROVE  IInv'
<1> USE DEF IInv
<1>1. /\ mod' = [k \in DOMAIN mod \ {Require(m), Replace(m)} |-> mod[k]]
      /\ names' = names \ {m} /\ pc = "idle"
      /\ UNCHANGED <<sums, release, selection, pc, read, readNames, whole, behind>>
  BY DEF Drop, reads
<1>2. DOMAIN asked' = DOMAIN asked \ {m} /\ \A n \in DOMAIN asked' : asked'[n] = asked[n]
  BY DEF Drop
<1>3. /\ DOMAIN mod' = DOMAIN mod \ {Require(m), Replace(m)}
      /\ \A k \in DOMAIN mod' : mod'[k] = mod[k]
  BY <1>1
<1>5. Required(mod') = Required(mod) \ {m} /\ \A n \in Required(mod') : mod'[Require(n)] = mod[Require(n)]
  BY <1>3, KeyFacts DEF Required
<1>7. YoursStay'
  <2> SUFFICES ASSUME NEW n \in Own'
               PROVE  /\ n \in Direct(mod') /\ mod'[Require(n)].arg = asked'[n]
                      /\ <<n, asked'[n]>> \in sums'
                      /\ n \in names'
    BY DEF YoursStay
  <2>1. n \in Own /\ n # m
    BY <1>1, <1>2 DEF Own
  <2>2. n \in Required(mod')
    BY <2>1, <1>5 DEF YoursStay, Direct
  <2>3. n \in DOMAIN asked'
    BY DEF Own
  <2>4. mod'[Require(n)] = mod[Require(n)] /\ asked'[n] = asked[n]
    BY <2>2, <2>3, <1>5, <1>2
  <2> QED BY <2>1, <2>2, <2>4, <1>1 DEF YoursStay, Direct
<1>8. SumsCover'
  BY <1>1, <1>5 DEF SumsCover
<1>9. InStep' /\ ModInv' /\ SumInv' /\ NameInv' /\ ReadInv'
  <2>1. Shippable' = Shippable
    BY <1>1 DEF Shippable
  <2>2. Required(Shippable') = Required(Shippable)
    BY <2>1
  <2> QED BY <2>2, <1>1, <1>5 DEF InStep, ModInv, SumInv, NameInv, ReadInv
<1> QED BY <1>7, <1>8, <1>9

LEMMA EditStep ==
  ASSUME NEW k \in Edited, NEW e, IInv, Careful, TypeOK', Edit(k, e)
  PROVE  IInv'
<1> USE DEF IInv
<1>1. /\ mod' = [l \in DOMAIN mod \cup {k} |-> IF l = k THEN e ELSE mod[l]]
      /\ e \in EntriesOf(k) /\ pc # "askmod"
      /\ UNCHANGED <<sums, names, release, selection, pc, read, readNames, whole, asked, behind>>
  BY DEF Edit, ModOpen, reads, ghosts
<1>2. k \in Keys /\ \A m \in Modules : k # Require(m)
  BY EditedAssumption, KeyFacts
<1>3. /\ DOMAIN mod' = DOMAIN mod \cup {k}
      /\ \A l \in DOMAIN mod' : mod'[l] = IF l = k THEN e ELSE mod[l]
  BY <1>1
<1>5. Required(mod') = Required(mod) /\ \A n \in Required(mod) : mod'[Require(n)] = mod[Require(n)]
  BY <1>2, <1>3 DEF Required
<1>6. Direct(mod') = Direct(mod)
  BY <1>5 DEF Direct
<1>8. YoursStay' /\ SumsCover'
  <2>1. SumsCover'
    BY <1>1, <1>5 DEF SumsCover
  <2>2. Own' = Own
    BY <1>1 DEF Own
  <2>3. \A n \in Own : n \in Required(mod)
    BY DEF YoursStay, Direct
  <2> QED BY <1>1, <1>5, <1>6, <2>1, <2>2, <2>3 DEF YoursStay
<1>9. InStep' /\ ModInv' /\ SumInv' /\ NameInv' /\ ReadInv'
  <2>1. Shippable' = Shippable /\ Rendered' = Rendered
    BY <1>1 DEF Shippable, Rendered
  <2>2. Required(Shippable') = Required(Shippable) /\ Required(Rendered') = Required(Rendered)
    BY <2>1
  <2> QED BY <2>2, <1>1, <1>5 DEF InStep, ModInv, SumInv, NameInv, ReadInv
<1> QED BY <1>8, <1>9

LEMMA TidyStep ==
  ASSUME IInv, Careful, TypeOK', Tidy
  PROVE  IInv'
<1> USE DEF IInv
<1>1. /\ sums' = {<<m, mod[Require(m)].arg>> : m \in Required(mod)} \cap sums
      /\ pc \notin {"mod", "askmod"}
      /\ UNCHANGED <<mod, names, release, selection, pc, read, readNames, whole, asked, behind>>
  BY DEF Tidy, reads, ghosts
<1>2. Required(mod') = Required(mod) /\ Direct(mod') = Direct(mod)
  BY <1>1 DEF Required, Direct
<1>3. Required(Rendered') = Required(Rendered)
  BY <1>1 DEF Rendered
<1>4. SumsCover'
  BY <1>1, <1>2 DEF SumsCover
<1>5. YoursStay'
  <2> SUFFICES ASSUME NEW n \in Own PROVE <<n, asked[n]>> \in sums'
    BY <1>1, <1>2 DEF YoursStay, Own
  <2>1. n \in Required(mod) /\ mod[Require(n)].arg = asked[n] /\ <<n, asked[n]>> \in sums
    BY DEF YoursStay, Direct
  <2> QED BY <2>1, <1>1
<1>6. InStep' /\ ModInv' /\ SumInv' /\ NameInv' /\ ReadInv'
  BY <1>1, <1>2, <1>3 DEF InStep, ModInv, SumInv, NameInv, ReadInv
<1> QED BY <1>4, <1>5, <1>6

LEMMA UserStep == IInv /\ Careful /\ TypeOK' /\ User => IInv'
BY GetStep, BringStep, DropStep, EditStep, TidyStep DEF User

-----------------------------------------------------------------------------
\* Steps of a run that leave the files alone.
LEMMA QuietStep ==
  ASSUME IInv, TypeOK', UNCHANGED <<mod, sums, names, release, asked, behind>>,
         \/ pc' \in {"idle", "sums"} /\ (pc' = "idle" => whole' = FALSE)
         \/ pc = "mod" /\ pc' = "askmod" /\ read' = mod
         \/ pc = "names" /\ pc' = "asknames" /\ readNames' = names /\ UNCHANGED <<whole, selection>>
  PROVE  IInv'
<1> USE DEF IInv
<1>1. Required(mod') = Required(mod) /\ Direct(mod') = Direct(mod)
  BY DEF Required, Direct
<1>2. YoursStay' /\ SumsCover'
  BY <1>1 DEF YoursStay, SumsCover, Own
<1>3. InStep' /\ SumInv' /\ NameInv' /\ ReadInv'
  BY <1>1 DEF InStep, SumInv, NameInv, ReadInv
<1>4. ModInv'
  BY <1>1 DEF ModInv, Rendered, Required
<1> QED BY <1>2, <1>3, <1>4

LEMMA StartStep ==
  ASSUME NEW s \in Selections, IInv, TypeOK', Start(s)
  PROVE  IInv'
BY QuietStep DEF Start, files, ghosts

LEMMA ReadStep == IInv /\ TypeOK' /\ (ReadMod \/ ReadNames) => IInv'
BY QuietStep DEF ReadMod, ReadNames, files, ghosts

LEMMA StopStep == IInv /\ TypeOK' /\ Stop => IInv'
BY QuietStep DEF Stop, files, ghosts

LEMMA WriteSumsStep == IInv /\ TypeOK' /\ WriteSums => IInv'
<1> SUFFICES ASSUME IInv, TypeOK', WriteSums PROVE IInv'
  OBVIOUS
<1> USE DEF IInv
<1>1. /\ sums' = StarterSums[release] \cup sums /\ pc' = "mod"
      /\ UNCHANGED <<mod, names, release, selection, whole, asked, behind>> /\ pc = "sums"
  BY DEF WriteSums, MergeGoSum, ghosts
<1>2. Required(mod') = Required(mod) /\ Direct(mod') = Direct(mod)
  BY <1>1 DEF Required, Direct
<1>3. YoursStay' /\ SumsCover'
  BY <1>1, <1>2 DEF YoursStay, SumsCover, Own
<1> QED BY <1>1, <1>2, <1>3 DEF InStep, ModInv, SumInv, NameInv, ReadInv

LEMMA OwnFacts ==
  ASSUME TypeOK, NEW m \in Own
  PROVE  m \notin Required(Shippable)
<1>1. release \in 1 .. release
  BY ReleaseAssumption DEF TypeOK, Releases
<1> QED BY <1>1 DEF Own, Shippable

\* What the merge of a go.mod that no one changed since does to the requirements.
LEMMA WriteModFacts ==
  ASSUME IInv, WriteMod(FALSE)
  PROVE  /\ IsGoMod(mod)'
         /\ Required(Rendered) \subseteq Required(mod')
         /\ Required(mod) \ Required(mod') \subseteq Required(Shippable) \ Required(Rendered)
         /\ \A m \in Required(mod) \ Required(Shippable) :
                m \in Required(mod') /\ mod'[Require(m)] = mod[Require(m)]
         /\ \A m \in Required(mod') :
                \/ /\ m \in Required(Rendered) /\ m \notin Required(mod)
                   /\ mod'[Require(m)] = Rendered[Require(m)]
                \/ /\ m \in Required(mod) /\ m \notin Required(Rendered)
                   /\ mod'[Require(m)] = mod[Require(m)]
                \/ /\ m \in Required(mod) /\ m \in Required(Rendered)
                   /\ mod'[Require(m)] = Fold(Require(m), Rendered[Require(m)], mod[Require(m)])
<1>1. release \in Releases /\ selection \in Selections /\ IsGoMod(mod) /\ Everything \in Selections
  BY RenderedFacts DEF IInv, TypeOK
<1>2. mod' = MergeGoMod(Rendered, mod, Shippable)
  BY DEF WriteMod, IInv, ReadInv
<1>3. IsGoMod(Rendered) /\ DOMAIN Rendered \subseteq DOMAIN Shippable
  BY RenderedFacts DEF IInv
<1> QED BY <1>1, <1>2, <1>3, MergeFacts

LEMMA WriteModStep ==
  ASSUME NEW kept \in BOOLEAN, IInv, TypeOK', WriteMod(kept)
  PROVE  IInv'
<1> USE DEF IInv
<1>1. /\ pc = "askmod" /\ pc' = "names" /\ whole' = (whole /\ ~kept)
      /\ UNCHANGED <<sums, names, release, selection, asked, behind>>
  BY DEF WriteMod, ghosts
<1>3. Required(Shippable') = Required(Shippable) /\ Required(Rendered') = Required(Rendered)
  BY <1>1 DEF Shippable, Rendered
<1>4. CASE kept
  <2>1. mod' = mod /\ Required(mod') = Required(mod) /\ Direct(mod') = Direct(mod)
    BY <1>4 DEF WriteMod, Required, Direct
  <2>3. YoursStay' /\ SumsCover'
    BY <2>1, <1>1 DEF YoursStay, SumsCover, Own
  <2> QED BY <2>1, <2>3, <1>1, <1>3, <1>4 DEF InStep, ModInv, SumInv, NameInv, ReadInv
<1>5. CASE ~kept
  <2> WriteMod(FALSE)
    BY <1>5
  <2>1. /\ IsGoMod(mod)'
        /\ Required(Rendered) \subseteq Required(mod')
        /\ Required(mod) \ Required(mod') \subseteq Required(Shippable) \ Required(Rendered)
        /\ \A m \in Required(mod) \ Required(Shippable) :
                m \in Required(mod') /\ mod'[Require(m)] = mod[Require(m)]
    BY WriteModFacts
  <2>3. YoursStay'
    <3> SUFFICES ASSUME NEW n \in Own'
                 PROVE  /\ n \in Direct(mod') /\ mod'[Require(n)].arg = asked'[n]
                        /\ <<n, asked'[n]>> \in sums'
                        /\ n \in names'
      BY DEF YoursStay
    <3>1. n \in Own
      BY <1>1 DEF Own
    <3>2. n \in Required(mod) \ Required(Shippable)
      BY <3>1, OwnFacts DEF YoursStay, Direct
    <3>3. n \in Required(mod') /\ mod'[Require(n)] = mod[Require(n)]
      BY <3>2, <2>1
    <3> QED BY <3>1, <3>3, <1>1 DEF YoursStay, Direct
  <2>4. SumsCover'
    <3> SUFFICES ASSUME NEW m \in Required(mod') PROVE <<m, mod'[Require(m)].arg>> \in sums
      BY <1>1 DEF SumsCover
    <3>1. m \in Modules
      BY DEF Required
    <3>2. m \in Required(mod) => <<m, mod[Require(m)].arg>> \in sums
      BY DEF SumsCover
    <3>3. m \in Required(Rendered) => <<m, Rendered[Require(m)].arg>> \in sums
      <4>1. \A n \in Required(Rendered) : <<n, Rendered[Require(n)].arg>> \in StarterSums[release]
        BY StarterFacts DEF TypeOK, Rendered
      <4> QED BY <4>1, <1>1 DEF SumInv
    <3>4. ASSUME m \in Required(mod), m \in Required(Rendered),
                 mod'[Require(m)] = Fold(Require(m), Rendered[Require(m)], mod[Require(m)])
          PROVE  mod'[Require(m)].arg \in {Rendered[Require(m)].arg, mod[Require(m)].arg}
      <4>1. IsGoMod(mod) /\ IsGoMod(Rendered)
        BY StarterFacts DEF TypeOK, Rendered
      <4>2. Rendered[Require(m)] \in EntriesOf(Require(m)) /\ mod[Require(m)] \in EntriesOf(Require(m))
        BY <4>1, <3>4 DEF Required, IsGoMod
      <4>3. Require(m) \in Keys
        BY <3>1, KeyFacts
      <4>4. mod'[Require(m)].arg = IF Higher(mod[Require(m)].arg, Rendered[Require(m)].arg)
                                   THEN mod[Require(m)].arg ELSE Rendered[Require(m)].arg
        BY <4>2, <4>3, <3>4, <3>1, FoldType
      <4> QED BY <4>4
    <3> QED BY <3>2, <3>3, <3>4, WriteModFacts
  <2>5. NameInv'
    <3> SUFFICES ASSUME NEW x \in names, x \notin Required(mod'), x \in Required(mod)
                 PROVE  x \in StarterNames[release][Everything]
      BY <1>1 DEF NameInv
    <3>1. x \in Required(Shippable) \ Required(Rendered)
      BY <2>1
    <3>2. x \in Optional(release)
      BY <3>1, RenderedFacts DEF Optional, Rendered, Shippable
    <3> QED BY <3>1, <3>2, RenderedFacts, OptionalAssumption DEF Shippable
  <2> QED BY <2>1, <2>3, <2>4, <2>5, <1>1, <1>3, <1>5 DEF InStep, ModInv, SumInv, ReadInv
<1> QED BY <1>4, <1>5

LEMMA WriteNamesStep ==
  ASSUME NEW kept \in BOOLEAN, IInv, TypeOK', WriteNames(kept)
  PROVE  IInv'
<1> USE DEF IInv
<1> DEFINE ours == StarterNames[release][selection]
           all == StarterNames[release][Everything]
<1>1. /\ pc = "asknames" /\ pc' = "idle"
      /\ names' = IF kept THEN names ELSE ours \cup (names \ all)
      /\ whole' = (whole /\ ~kept)
      /\ UNCHANGED <<mod, sums, release, selection, asked, behind>>
  BY DEF WriteNames, MergeGoUseRepo, ReadInv, ghosts
<1>2. release \in Releases /\ selection \in Selections /\ Everything \in Selections
  BY RenderedFacts
<1>3. ours \subseteq Required(Rendered) /\ ours \subseteq all /\ all \subseteq Required(Shippable)
  BY <1>2, StarterFacts DEF Rendered, Shippable
<1>4. names \ Required(mod) \subseteq behind \cup all
  BY DEF NameInv
<1>5. NameInv' <=> names' \ Required(mod) \subseteq behind \cup all
  BY <1>1 DEF NameInv, Required
<1> HIDE DEF ours, all
<1>6. Required(mod') = Required(mod) /\ Direct(mod') = Direct(mod)
  BY <1>1 DEF Required, Direct
<1>7. YoursStay'
  <2> SUFFICES ASSUME NEW n \in Own PROVE n \in names'
    BY <1>1, <1>6 DEF YoursStay, Own
  <2>1. n \in names /\ n \notin Required(Shippable)
    BY OwnFacts DEF YoursStay
  <2> QED BY <2>1, <1>1, <1>3
<1>8. SumsCover' /\ ModInv' /\ SumInv' /\ ReadInv'
  BY <1>1, <1>6 DEF SumsCover, ModInv, SumInv, ReadInv
<1>9. NameInv'
  BY <1>1, <1>3, <1>4, <1>5
<1>10. InStep'
  <2> SUFFICES ASSUME whole, ~kept PROVE names' \subseteq Required(mod) \cup behind
    BY <1>1, <1>6 DEF InStep
  <2>1. Required(Rendered) \subseteq Required(mod)
    BY <1>1 DEF ModInv
  <2> QED BY <1>1, <1>3, <1>4, <2>1
<1> QED BY <1>7, <1>8, <1>9, <1>10

LEMMA RunStepHolds == IInv /\ TypeOK' /\ RunStep => IInv'
BY StartStep, WriteSumsStep, ReadStep, WriteModStep, WriteNamesStep, StopStep DEF RunStep

LEMMA StutterStep == IInv /\ UNCHANGED vars => IInv'
<1> SUFFICES ASSUME IInv, UNCHANGED vars PROVE IInv'
  OBVIOUS
<1>1. UNCHANGED <<mod, sums, names, release, selection, pc, read, readNames, whole, asked, behind>>
  BY DEF vars, files, reads, ghosts
<1>2. TypeOK' /\ YoursStay' /\ SumsCover'
  BY <1>1 DEF IInv, TypeOK, YoursStay, SumsCover, Own, Direct, Required
<1>3. InStep' /\ ModInv' /\ SumInv' /\ NameInv' /\ ReadInv'
  BY <1>1 DEF IInv, InStep, ModInv, SumInv, NameInv, ReadInv, Rendered, Shippable, Required
<1> QED BY <1>2, <1>3 DEF IInv

LEMMA InvHolds == Careful /\ Spec => []IInv
<1>1. ASSUME Careful
      PROVE  IInv /\ [Next]_vars => IInv'
  BY <1>1, TypeStep, UpdateStep, UserStep, RunStepHolds, StutterStep DEF Next, IInv
<1>2. ASSUME Careful PROVE Spec => []IInv
  BY <1>1, <1>2, InitHolds, PTL DEF Spec
<1> QED BY <1>2

-----------------------------------------------------------------------------
\* Dependencies the user got are kept at their version, with checksum and
\* repository, through every run of a starter that does not ship them, if the user
\* gets none while the tool asks about the file (merge_go_mod, merge_go_use_repo).
THEOREM OwnDepsStay == Careful /\ Spec => []YoursStay
BY InvHolds, PTL DEF IInv

\* go.sum has a checksum for every version in go.mod, between the two writes
\* of a run and after a stop there too, though go mod tidy drops what is not needed.
THEOREM SumsAreCovered == Careful /\ Spec => []SumsCover
BY InvHolds, PTL DEF IInv

\* A run that wrote go.mod and use_repo leaves no name without a requirement, but those
\* that had lost it before the starter was updated; releases may drop modules.
THEOREM RunsEndInStep == Careful /\ Spec => []InStep
BY InvHolds, PTL DEF IInv

\* The write of go.mod lowers nothing.
LEMMA WriteModRaises ==
  ASSUME IInv, WriteMod(FALSE), NEW m \in Required(mod), m \in Required(mod')
  PROVE  /\ ~Lower(mod'[Require(m)].arg, mod[Require(m)].arg)
         /\ ~mod[Require(m)].indirect => ~mod'[Require(m)].indirect
<1> DEFINE old == mod[Require(m)]
           new == mod'[Require(m)]
           ours == Rendered[Require(m)]
<1>1. m \in Modules /\ IsGoMod(mod) /\ IsGoMod(Rendered)
  BY StarterFacts DEF IInv, TypeOK, Rendered, Required
<1>2. old \in [arg : Semvers, indirect : BOOLEAN]
  BY <1>1, KeyFacts DEF Required, IsGoMod
<1>3. Semver(old.arg)
  BY <1>2, SemverAssumption
<1>4. \/ new = old
      \/ m \in Required(Rendered) /\ new = Fold(Require(m), ours, old)
  BY WriteModFacts
<1>5. CASE new = old
  BY <1>5, <1>3, NothingPrecedesItself DEF Lower
<1>6. CASE m \in Required(Rendered) /\ new = Fold(Require(m), ours, old)
  <2>1. ours \in [arg : Semvers, indirect : BOOLEAN]
    BY <1>6, <1>1, KeyFacts DEF Required, IsGoMod
  <2>2. /\ new.indirect = (ours.indirect /\ old.indirect)
        /\ new.arg = IF Higher(old.arg, ours.arg) THEN old.arg ELSE ours.arg
    <3>1. /\ Require(m) \in Keys
          /\ old \in EntriesOf(Require(m)) /\ ours \in EntriesOf(Require(m))
      BY <2>1, <1>1, <1>2, KeyFacts
    <3> HIDE DEF old, ours, new
    <3> QED BY <1>6, <3>1, <1>1, FoldType
  <2>3. Semver(ours.arg)
    BY <2>1, SemverAssumption
  <2>4. CASE Higher(old.arg, ours.arg)
    BY <2>4, <2>2, <1>3, NothingPrecedesItself DEF Lower
  <2>5. CASE ~Higher(old.arg, ours.arg)
    BY <2>5, <2>2, <2>3, <1>3, KeyFollowsOrder DEF Lower, Higher
  <2> QED BY <2>2, <2>4, <2>5
<1> QED BY <1>4, <1>5, <1>6

\* No run lowers a version, in the order of semantic versions that Go defines,
\* or makes a direct requirement indirect, if nothing raises one while the tool asks.
THEOREM VersionsNeverFall == Careful /\ Spec => NoDowngrade
<1> DEFINE Raise == RunStep => Lowered = {} /\ Direct(mod) \cap Required(mod') \subseteq Direct(mod')
<1>1. ASSUME IInv, [Next]_vars PROVE [Raise]_vars
  <2> SUFFICES ASSUME RunStep
               PROVE  Lowered = {} /\ Direct(mod) \cap Required(mod') \subseteq Direct(mod')
    OBVIOUS
  <2>1. CASE WriteMod(FALSE)
    BY <2>1, <1>1, WriteModRaises DEF Lowered, Direct
  <2>2. CASE mod' = mod
    <3>1. ASSUME NEW m \in Required(mod)
          PROVE  ~Lower(mod[Require(m)].arg, mod[Require(m)].arg)
      <4>1. mod[Require(m)] \in [arg : Semvers, indirect : BOOLEAN]
        BY <1>1, <3>1, KeyFacts DEF IInv, TypeOK, IsGoMod, Required
      <4>2. Semver(mod[Require(m)].arg)
        BY <4>1, SemverAssumption
      <4> QED BY <4>2, NothingPrecedesItself DEF Lower
    <3> QED BY <2>2, <3>1 DEF Lowered, Direct
  <2>3. WriteMod(FALSE) \/ mod' = mod
    BY DEF RunStep, Start, WriteSums, ReadMod, WriteMod, ReadNames, WriteNames, Stop, files
  <2> QED BY <2>1, <2>2, <2>3
<1> QED BY InvHolds, <1>1, PTL DEF Spec, NoDowngrade
=============================================================================
