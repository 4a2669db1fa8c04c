----------------------------- MODULE MintVersion -----------------------------
(***************************************************************************)
(* Version resolution of mint (tools/publish/src/mint/version.py).         *)
(*                                                                         *)
(* A version is the tuple of the numbers its template is filled with:      *)
(* <<major, minor, patch>> for semver, <<day>> for calver and              *)
(* <<day, git_count>> for gitdate.  A calendar date is a day number.       *)
(***************************************************************************)
EXTENDS Integers, Sequences

\* "No tag yet" (Python's None) and the ValueError a resolution may raise.
NoVersion == <<>>
Conflict == <<-1>>

\* increment_semver: the component is patch, minor or major.
IncrementSemver(v, component) ==
    CASE component = "patch" -> <<v[1], v[2], v[3] + 1>>
      [] component = "minor" -> <<v[1], v[2] + 1, 0>>
      [] component = "major" -> <<v[1] + 1, 0, 0>>

SemverRelease(last, component) ==
    IF last = NoVersion THEN <<0, 0, 1>> ELSE IncrementSemver(last, component)

\* Two releases of one day have the same name: refused when it is the last one.
CalverRelease(last, today) ==
    IF last = <<today>> THEN Conflict ELSE <<today>>

GitdateRelease(gitCount, today) == <<today, gitCount>>

\* resolve_release_version: the placeholders of the template decide.
ResolveRelease(schema, component, last, gitCount, today) ==
    CASE schema = "semver"  -> SemverRelease(last, component)
      [] schema = "calver"  -> CalverRelease(last, today)
      [] schema = "gitdate" -> GitdateRelease(gitCount, today)

\* The order of the tag names that carry two versions of one schema.  It is the
\* order of the tuples while every number has one digit, which the bounds keep.
NameBefore(v, w) ==
    \E i \in 1 .. Len(v) :
        /\ v[i] < w[i]
        /\ \A j \in 1 .. i - 1 : v[j] = w[j]
=============================================================================
