------------------------------ MODULE GoVersion ------------------------------
(***************************************************************************)
(* The order of versions in bootstrap/gomod.py: the sort keys of module    *)
(* versions and of Go versions, and the orders they stand for.             *)
(*                                                                         *)
(* A version is a record [release, pre].  The release of a semantic        *)
(* version is <<major, minor, patch>>, and pre is the sequence of its      *)
(* prerelease identifiers, each <<0, n>> (numeric) or <<1, n>> (another    *)
(* word, n its place in the order of words).  A text that is no version,   *)
(* such as the name of a branch, has an empty release.  Build metadata     *)
(* takes no part in the order and is left out.                             *)
(***************************************************************************)
EXTENDS Integers, Sequences

\* The order of tuples in Python.
TupleLess(a, b) ==
    \E i \in 1 .. Len(b) :
        /\ \A j \in 1 .. i - 1 : j <= Len(a) /\ a[j] = b[j]
        /\ i > Len(a) \/ a[i] < b[i]

Semver(v) ==
    /\ v.release \in [1 .. 3 -> Nat] \/ v.release = <<>>
    /\ v.pre \in Seq([1 .. 2 -> Nat])

Parses(v) == v.release # <<>>

\* Mutant: a prerelease outranks its release.
SemverKeyPreAbove(v) ==
    [i \in 1 .. 4 + 2 * Len(v.pre) |->
        IF i <= 3 THEN v.release[i]
        ELSE IF i = 4 THEN (IF v.pre = <<>> THEN 0 ELSE 1)
        ELSE v.pre[(i - 3) \div 2][1 + ((i - 3) % 2)]]

\* semver_key, with the tuples within the tuple written out: after the release
\* and its rank an identifier has two places.
SemverKey(v) ==
    [i \in 1 .. 4 + 2 * Len(v.pre) |->
        IF i <= 3 THEN v.release[i]
        ELSE IF i = 4 THEN (IF v.pre = <<>> THEN 1 ELSE 0)
        ELSE v.pre[(i - 3) \div 2][1 + ((i - 3) % 2)]]

\* gover_key: the release of a Go version is its key <<major, minor, stage, n>>,
\* where stage 0 is a language version, 1 to 3 are alpha, beta and rc, and 4 is
\* a release.
GoverKey(v) == v.release

Higher(theirs, ours) ==
    Parses(theirs) /\ Parses(ours) /\ TupleLess(SemverKey(ours), SemverKey(theirs))
HigherGo(theirs, ours) ==
    Parses(theirs) /\ Parses(ours) /\ TupleLess(GoverKey(ours), GoverKey(theirs))

-----------------------------------------------------------------------------
(***************************************************************************)
(* The order of golang.org/x/mod/semver, from its definition.              *)
(***************************************************************************)
SameUpTo(a, b, n) == \A j \in 1 .. n : a[j] = b[j]

IdPrecedes(x, y) == x[1] < y[1] \/ (x[1] = y[1] /\ x[2] < y[2])

PrePrecedes(p, q) ==
    \/ p # <<>> /\ q = <<>>
    \/ Len(p) < Len(q) /\ p # <<>> /\ SameUpTo(p, q, Len(p))
    \/ \E i \in 1 .. Len(p) : i <= Len(q) /\ SameUpTo(p, q, i - 1) /\ IdPrecedes(p[i], q[i])

Precedes(v, w) ==
    \/ \E i \in 1 .. 3 : SameUpTo(v.release, w.release, i - 1) /\ v.release[i] < w.release[i]
    \/ v.release = w.release /\ PrePrecedes(v.pre, w.pre)
=============================================================================
