-------------------------- MODULE MintReleaseProofs --------------------------
(***************************************************************************)
(* Proofs about mint releases, for any number of clones, runs, modules,    *)
(* versions and commits, and for each of the schemas.                      *)
(***************************************************************************)
EXTENDS MintRelease, TLAPS

USE DEF Goto

\* Every variable keeps its type (no code of its own: the shape of the state).
LEMMA TypeInit == Init => TypeOK
BY BoundAssumption DEF Init, TypeOK, Commits, PCs, Outcomes, WorktreeStates, Tags, Targets

LEMMA CommitsType == 0 \in Commits /\ 1 .. MaxCommit \subseteq Commits
BY BoundAssumption DEF Commits

\* A store into one cell of a table of tables keeps the type of the table.
LEMMA NestedUpdate ==
  ASSUME NEW A, NEW B, NEW S, NEW f \in [A -> [B -> S]], NEW a \in A, NEW b, NEW x \in S
  PROVE  [f EXCEPT ![a][b] = x] \in [A -> [B -> S]]
OBVIOUS

LEMMA StoredType ==
  ASSUME TypeOK, NEW r \in Runs, NEW t \in Targets
  PROVE  Stored(r, t) \in [Targets -> [Versions -> SUBSET Commits]]
<1> DEFINE v == VersionOf(r, t)
<1>1. base[r] \in Commits /\ store \in [Targets -> [Versions -> SUBSET Commits]]
  BY DEF TypeOK
<1>2. CASE v \in Versions
  <2>1. store[t][v] \cup {base[r]} \in SUBSET Commits
    BY <1>1, <1>2
  <2>2. [store EXCEPT ![t][v] = store[t][v] \cup {base[r]}]
          \in [Targets -> [Versions -> SUBSET Commits]]
    BY <1>1, <2>1, NestedUpdate
  <2> QED BY <1>1, <2>2 DEF Stored
<1>3. CASE v \notin Versions
  <2>1. [store[t] EXCEPT ![v] = store[t][v] \cup {base[r]}] = store[t]
    BY <1>1, <1>3
  <2>2. [store EXCEPT ![t][v] = @ \cup {base[r]}] = store
    BY <1>1, <2>1
  <2> QED BY <1>1, <2>2 DEF Stored
<1> QED BY <1>2, <1>3

LEMMA PushType ==
  ASSUME TypeOK, NEW r \in Runs, NEW S
  PROVE  OriginAfterPush(r, S) \in [Tags -> Commits]
<1>1. clone[r] \in Clones /\ local[clone[r]] \in [Tags -> Commits] /\ origin \in [Tags -> Commits]
  BY DEF TypeOK
<1> QED BY <1>1 DEF OriginAfterPush

\* What a subprocess may have done when a signal arrives is well typed.
LEMMA InFlightType ==
  ASSUME TypeOK, NEW r \in Runs, InFlight(r)
  PROVE  /\ origin' \in [Tags -> Commits]
         /\ store' \in [Targets -> [Versions -> SUBSET Commits]]
<1>1. todo[r] \subseteq Targets
  BY DEF TypeOK
<1>2. CASE UNCHANGED <<origin, store>>
  BY <1>2 DEF TypeOK
<1>3. CASE (\E t \in todo[r] : store' = Stored(r, t)) /\ UNCHANGED origin
  <2>1. PICK t \in todo[r] : store' = Stored(r, t)
    BY <1>3
  <2>2. t \in Targets
    BY <1>1
  <2> QED BY <1>3, <2>1, <2>2, StoredType DEF TypeOK
<1>4. CASE (\E S \in SUBSET Accepted(r) : origin' = OriginAfterPush(r, S)) /\ UNCHANGED store
  BY <1>4, PushType DEF TypeOK
<1> QED BY <1>2, <1>3, <1>4 DEF InFlight

LEMMA GroupsArePrefixes ==
  ASSUME TypeOK, NEW r \in Runs
  PROVE  Groups(r) \subseteq Prefixes
<1>1. mods[r] \subseteq Modules
  BY DEF TypeOK
<1>2. \A n \in Modules : PrefixOf[n] \in Prefixes
  BY PrefixOfAssumption
<1> QED BY <1>1, <1>2 DEF Groups

LEMMA TypeNext == TypeOK /\ [Next]_vars => TypeOK'
<1> SUFFICES ASSUME TypeOK, [Next]_vars PROVE TypeOK'
  OBVIOUS
<1>1. ASSUME NEW r \in Runs, Start(r) PROVE TypeOK'
  <2>1. PICK M \in ScopeChoices, I \in Includes, v \in Overrides \cup {NoVersion} :
          /\ mods' = [mods EXCEPT ![r] = M]
          /\ include' = [include EXCEPT ![r] = I]
          /\ todo' = [todo EXCEPT ![r] = {t \in Targets : t.mod \in M /\ t.track \in I}]
          /\ override' = [override EXCEPT ![r] = v]
    BY <1>1 DEF Start
  <2>2. M \subseteq Modules /\ I \subseteq Tracks /\ v \in Versions \cup {NoVersion}
    BY VersionAssumption, IncludesAssumption DEF ScopeChoices, IncludeChoices, Tracks
  <2> QED BY <1>1, <2>1, <2>2 DEF TypeOK, PCs, Start, envVars
<1>2. ASSUME NEW r \in Runs, ResolveGroup(r) PROVE TypeOK'
  <2>1. PICK p \in Unplanned(r) : NextVersion(r, p) \in Versions
                                  /\ plan' = [plan EXCEPT ![r][p] = NextVersion(r, p)]
    BY <1>2 DEF ResolveGroup
  <2>2. plan' \in [Runs -> [Prefixes -> Versions \cup {NoVersion}]]
    <3> DEFINE V == Versions \cup {NoVersion}
    <3>1. NextVersion(r, p) \in V
      BY <2>1
    <3>0. plan \in [Runs -> [Prefixes -> Versions \cup {NoVersion}]]
      BY DEF TypeOK
    <3>2. plan \in [Runs -> [Prefixes -> V]]
      BY <3>0
    <3> HIDE DEF V
    <3>3. plan' \in [Runs -> [Prefixes -> V]]
      BY <2>1, <3>1, <3>2, NestedUpdate
    <3> QED BY <3>3 DEF V
  <2> QED BY <1>2, <2>2 DEF TypeOK, ResolveGroup, envVars, planVars
<1>3. ASSUME NEW r \in Runs, ResolveConflict(r) PROVE TypeOK'
  BY <1>3 DEF TypeOK, PCs, Outcomes, ResolveConflict, envVars, planVars
<1>4. ASSUME NEW r \in Runs, CreateWorktree(r) PROVE TypeOK'
  BY <1>4 DEF TypeOK, PCs, Outcomes, WorktreeStates, CreateWorktree, envVars, planVars
<1>20. ASSUME NEW r \in Runs, AddWorktree(r) PROVE TypeOK'
  <2>1. tracking[clone[r]] \in Commits
    BY CommitsType DEF TypeOK
  <2>2. base' \in [Runs -> Commits] /\ worktree' \in [Runs -> WorktreeStates]
    BY <1>20, <2>1 DEF TypeOK, AddWorktree, WorktreeStates
  <2>3. pc' \in [Runs -> PCs]
    BY <1>20 DEF TypeOK, AddWorktree, PCs
  <2> QED BY <1>20, <2>2, <2>3 DEF TypeOK, AddWorktree, envVars, planVars
<1>21. ASSUME NEW r \in Runs, AddWorktreeFails(r) PROVE TypeOK'
  BY <1>21 DEF TypeOK, PCs, Outcomes, WorktreeStates, AddWorktreeFails, envVars, planVars
<1>5. ASSUME NEW r \in Runs, CreateTag(r) PROVE TypeOK'
  <2>1. PICK p \in Untagged(r) :
          /\ local' = [local EXCEPT ![clone[r]][TagOf(r, p)] = base[r]]
          /\ tagged' = [tagged EXCEPT ![r] = @ \cup {p}]
    BY <1>5 DEF CreateTag
  <2>2. Groups(r) \subseteq Prefixes
    BY GroupsArePrefixes
  <2>3. local' \in [Clones -> [Tags -> Commits]]
    <3>1. local \in [Clones -> [Tags -> Commits]] /\ clone[r] \in Clones /\ base[r] \in Commits
      BY DEF TypeOK
    <3> QED BY <2>1, <3>1, NestedUpdate
  <2>4. tagged' \in [Runs -> SUBSET Prefixes]
    BY <2>1, <2>2 DEF TypeOK, Untagged
  <2>5. pc' \in [Runs -> PCs]
    BY <1>5, ZenonT(40) DEF TypeOK, CreateTag, BuildOrPush, PCs
  <2> QED BY <1>5, <2>3, <2>4, <2>5 DEF TypeOK, CreateTag, envVars, planVars
<1>6. ASSUME NEW r \in Runs, CreateTagFails(r) PROVE TypeOK'
  BY <1>6 DEF TypeOK, PCs, Outcomes, CreateTagFails, envVars, planVars
<1>7. ASSUME NEW r \in Runs, RunTarget(r) PROVE TypeOK'
  <2>1. PICK t \in todo[r] : store' = Stored(r, t) /\ todo' = [todo EXCEPT ![r] = @ \ {t}]
    BY <1>7 DEF RunTarget
  <2>2. store' \in [Targets -> [Versions -> SUBSET Commits]]
    BY <2>1, StoredType DEF TypeOK
  <2>3. todo' \in [Runs -> SUBSET Targets]
    BY <2>1 DEF TypeOK
  <2>4. pc' \in [Runs -> PCs]
    BY <1>7 DEF TypeOK, RunTarget, BuildOrPush, PCs
  <2> QED BY <1>7, <2>2, <2>3, <2>4 DEF TypeOK, RunTarget, envVars, planVars
<1>8. ASSUME NEW r \in Runs, RunTargetFails(r) PROVE TypeOK'
  <2>1. store' \in [Targets -> [Versions -> SUBSET Commits]]
    <3>1. PICK t \in todo[r] : store' \in {store, Stored(r, t)}
      BY <1>8 DEF RunTargetFails
    <3>2. t \in Targets /\ store \in [Targets -> [Versions -> SUBSET Commits]]
      BY DEF TypeOK
    <3> QED BY <3>1, <3>2, StoredType
  <2> QED BY <1>8, <2>1 DEF TypeOK, PCs, Outcomes, RunTargetFails, envVars, planVars
<1>9. ASSUME NEW r \in Runs, PushTags(r) PROVE TypeOK'
  BY <1>9, PushType DEF TypeOK, PCs, Outcomes, PushTags, envVars, planVars
<1>10. ASSUME NEW r \in Runs, PushTagsFails(r) PROVE TypeOK'
  <2>1. origin' \in [Tags -> Commits]
    BY <1>10, PushType DEF PushTagsFails
  <2> QED BY <1>10, <2>1 DEF TypeOK, PCs, Outcomes, PushTagsFails, envVars, planVars
<1>11. ASSUME NEW r \in Runs, DeleteTag(r) PROVE TypeOK'
  <2>0. tagged[r] \subseteq Prefixes
    BY DEF TypeOK
  <2>1. PICK p \in tagged[r] :
          \/ /\ local' = [local EXCEPT ![clone[r]][TagOf(r, p)] = 0]
             /\ tagged' = [tagged EXCEPT ![r] = @ \ {p}]
             /\ UNCHANGED undeleted
          \/ /\ undeleted' = [undeleted EXCEPT ![r] = @ \cup {p}]
             /\ UNCHANGED <<local, tagged>>
    BY <1>11 DEF DeleteTag, ToDelete
  <2>2. local' \in [Clones -> [Tags -> Commits]]
    <3>1. local \in [Clones -> [Tags -> Commits]] /\ clone[r] \in Clones /\ 0 \in Commits
      BY CommitsType DEF TypeOK
    <3>2. [local EXCEPT ![clone[r]][TagOf(r, p)] = 0] \in [Clones -> [Tags -> Commits]]
      BY <3>1, NestedUpdate
    <3> QED BY <2>1, <3>1, <3>2
  <2>3. tagged' \in [Runs -> SUBSET Prefixes] /\ undeleted' \in [Runs -> SUBSET Prefixes]
    <3>1. tagged \in [Runs -> SUBSET Prefixes] /\ undeleted \in [Runs -> SUBSET Prefixes]
      BY DEF TypeOK
    <3>2. p \in Prefixes
      BY <2>0
    <3> QED BY <2>1, <3>1, <3>2
  <2>4. pc' \in [Runs -> PCs]
    BY <1>11 DEF TypeOK, DeleteTag, PCs
  <2> QED BY <1>11, <2>2, <2>3, <2>4 DEF TypeOK, DeleteTag, envVars, planVars
<1>12. ASSUME NEW r \in Runs, RemoveWorktree(r) PROVE TypeOK'
  BY <1>12 DEF TypeOK, PCs, WorktreeStates, RemoveWorktree, envVars, planVars
<1>13. ASSUME NEW r \in Runs, Interrupt(r) PROVE TypeOK'
  BY <1>13, InFlightType DEF TypeOK, PCs, Outcomes, Interrupt, envVars, planVars
<1>14. ASSUME NEW r \in Runs, Kill(r) PROVE TypeOK'
  BY <1>14, InFlightType DEF TypeOK, PCs, Outcomes, Kill, envVars, planVars
<1>22. ASSUME NEW r \in Runs, Hang(r) PROVE TypeOK'
  BY <1>22, InFlightType DEF TypeOK, PCs, Hang, envVars, planVars
<1>23. ASSUME NEW r \in Runs, InterruptOutside(r) PROVE TypeOK'
  BY <1>23 DEF TypeOK, PCs, Outcomes, WorktreeStates, InterruptOutside, envVars, planVars
<1>15. CASE Commit
  <2>1. tip' \in 1 .. MaxCommit
    <3>1. tip \in 1 .. MaxCommit /\ tip < MaxCommit /\ tip' = tip + 1
      BY <1>15 DEF TypeOK, Commit
    <3> QED BY <3>1, BoundAssumption
  <2> QED BY <1>15, <2>1 DEF TypeOK, Commit, planVars
<1>16. ASSUME NEW c \in Clones, Fetch(c) PROVE TypeOK'
  BY <1>16 DEF TypeOK, Fetch, planVars
<1>17. ASSUME NEW c \in Clones, FastForward(c) PROVE TypeOK'
  BY <1>17 DEF TypeOK, FastForward, planVars
<1>18. CASE NextDay
  <2>1. today' \in 1 .. MaxDay
    <3>1. today \in 1 .. MaxDay /\ today < MaxDay /\ today' = today + 1
      BY <1>18 DEF TypeOK, NextDay
    <3> QED BY <3>1, BoundAssumption
  <2> QED BY <1>18, <2>1 DEF TypeOK, NextDay, planVars
<1>19. CASE UNCHANGED vars
  BY <1>19 DEF TypeOK, vars
<1> QED
  BY <1>1, <1>2, <1>3, <1>4, <1>5, <1>6, <1>7, <1>8, <1>9, <1>10, <1>11, <1>12,
     <1>13, <1>14, <1>15, <1>16, <1>17, <1>18, <1>19, <1>20, <1>21, <1>22, <1>23
     DEF Next, RunStep, Stop

\* The type invariant of mint's releases.
THEOREM TypeCorrect == Spec => []TypeOK
<1>1. Init => TypeOK
  BY TypeInit
<1>2. TypeOK /\ [Next]_vars => TypeOK'
  BY TypeNext
<1> QED BY <1>1, <1>2, PTL DEF Spec
-----------------------------------------------------------------------------
\* Runs own disjoint tags.

LEMMA PlannedTags ==
  ASSUME TypeOK, TagInv, NEW r \in Runs, Owning(r), NEW p \in Groups(r)
  PROVE  TagOf(r, p) \in Tags
BY GroupsArePrefixes DEF TagInv, Planned, TagOf, Tags

\* Steps that neither touch a tag nor make a run an owner.
LEMMA QuietStep ==
  ASSUME TypeOK, TagInv,
         UNCHANGED <<clone, mods, plan, base, tagged, local>>,
         \A r \in Runs : /\ Owning(r)' => Owning(r)
                         /\ Publishing(r)' => Publishing(r)
                         /\ pc'[r] = "add" => pc[r] = "add"
                         /\ Fresh(r)'
  PROVE  TagInv'
<1>1. ASSUME NEW r \in Runs PROVE Planned(r)' /\ HeldTags(r)' /\ AllTagged(r)'
  BY DEF TagInv, Planned, HeldTags, AllTagged, Groups, TagOf, Unplanned
<1>2. ASSUME NEW r \in Runs, NEW q \in Runs PROVE OneOwner(r, q)'
  BY DEF TagInv, OneOwner
<1> QED BY <1>1, <1>2 DEF TagInv

LEMMA TagStep == TypeOK /\ TagInv /\ [Next]_vars => TagInv'
<1> SUFFICES ASSUME TypeOK, TagInv, [Next]_vars PROVE TagInv'
  OBVIOUS
<1> USE DEF Owning, Publishing, Early
<1>1. ASSUME NEW r \in Runs, Start(r) PROVE TagInv'
  <2>1. pc \in [Runs -> PCs] /\ mods \in [Runs -> SUBSET Modules]
        /\ include \in [Runs -> SUBSET Tracks] /\ todo \in [Runs -> SUBSET Targets]
    BY DEF TypeOK
  <2>2. Fresh(r)'
    BY <1>1, <2>1 DEF Start, Fresh, TagInv, Selected
  <2>3. ASSUME NEW q \in Runs, q # r
        PROVE  /\ Fresh(q)'
               /\ pc'[q] = pc[q] /\ mods'[q] = mods[q]
    BY <1>1, <2>1, <2>3 DEF Start, Fresh, TagInv, Selected
  <2>4. pc'[r] = "plan"
    BY <1>1, <2>1 DEF Start
  <2>5. ASSUME NEW q \in Runs PROVE Planned(q)' /\ HeldTags(q)' /\ AllTagged(q)'
    BY <1>1, <2>3, <2>4
       DEF Start, envVars, TagInv, Planned, HeldTags, AllTagged, Groups, TagOf, Unplanned
  <2>6. ASSUME NEW q \in Runs, NEW s \in Runs PROVE OneOwner(q, s)'
    BY <1>1, <2>3, <2>4 DEF Start, envVars, TagInv, OneOwner
  <2> QED BY <2>2, <2>3, <2>5, <2>6 DEF TagInv
<1>2. ASSUME NEW r \in Runs, ResolveGroup(r) PROVE TagInv'
  <2>1. pc[r] = "plan" /\ plan \in [Runs -> [Prefixes -> Versions \cup {NoVersion}]]
    BY <1>2 DEF ResolveGroup, TypeOK
  <2>2. \A q \in Runs : q # r => plan'[q] = plan[q]
    BY <1>2, <2>1 DEF ResolveGroup
  <2>3. UNCHANGED <<pc, clone, mods, include, base, tagged, todo, local>>
    BY <1>2 DEF ResolveGroup, planVars
  <2>4. ASSUME NEW q \in Runs
        PROVE  Fresh(q)' /\ Planned(q)' /\ HeldTags(q)' /\ AllTagged(q)'
    BY <2>1, <2>2, <2>3
       DEF TagInv, Fresh, Selected, Planned, HeldTags, AllTagged, Groups, TagOf, Unplanned
  <2>5. ASSUME NEW q \in Runs, NEW s \in Runs PROVE OneOwner(q, s)'
    BY <2>1, <2>2, <2>3 DEF TagInv, OneOwner
  <2> QED BY <2>4, <2>5 DEF TagInv
<1>3. ASSUME NEW r \in Runs, AddWorktree(r) PROVE TagInv'
  <2>1. pc[r] = "add" /\ tagged[r] = {} /\ Unplanned(r) = {}
    BY <1>3 DEF AddWorktree, TagInv, Fresh, Planned
  <2>2. \A q \in Runs : q # r => pc'[q] = pc[q] /\ base'[q] = base[q]
    BY <1>3 DEF AddWorktree, TypeOK
  <2>3. pc'[r] = "tag"
    BY <1>3 DEF AddWorktree, TypeOK
  <2>4. UNCHANGED <<clone, mods, include, plan, tagged, todo, local>>
    BY <1>3 DEF AddWorktree, planVars
  <2>5. Planned(r)'
    <3>1. base'[r] = tracking[clone[r]]
      BY <1>3 DEF AddWorktree, TypeOK
    <3>2. tracking[clone[r]] # 0
      <4>1. tracking \in [Clones -> 1 .. MaxCommit] /\ clone[r] \in Clones
        BY DEF TypeOK
      <4>2. tracking[clone[r]] \in 1 .. MaxCommit
        BY <4>1
      <4> QED BY <4>2, BoundAssumption
    <3>3. ASSUME NEW p \in Groups(r) PROVE plan[r][p] \in Versions
      <4>1. p \in Prefixes /\ plan \in [Runs -> [Prefixes -> Versions \cup {NoVersion}]]
        BY GroupsArePrefixes DEF TypeOK
      <4>2. plan[r][p] # NoVersion
        BY <2>1 DEF Unplanned
      <4> QED BY <4>1, <4>2
    <3> QED BY <2>3, <2>4, <3>1, <3>2, <3>3 DEF Planned, Groups
  <2>6. Fresh(r)' /\ HeldTags(r)' /\ AllTagged(r)'
    BY <2>1, <2>3, <2>4 DEF Fresh, HeldTags, AllTagged
  <2>7. ASSUME NEW q \in Runs, q # r
        PROVE  Fresh(q)' /\ Planned(q)' /\ HeldTags(q)' /\ AllTagged(q)'
    BY <2>2, <2>4, <2>7
       DEF TagInv, Fresh, Selected, Planned, HeldTags, AllTagged, Groups, TagOf, Unplanned
  <2>8. ASSUME NEW q \in Runs, NEW s \in Runs PROVE OneOwner(q, s)'
    BY <2>1, <2>2, <2>4 DEF TagInv, OneOwner
  <2> QED BY <2>5, <2>6, <2>7, <2>8 DEF TagInv
<1>12. ASSUME NEW r \in Runs, CreateWorktree(r) PROVE TagInv'
  <2>1. pc[r] = "plan" /\ Unplanned(r) = {}
        /\ UNCHANGED <<clone, mods, include, plan, base, tagged, todo, local>>
    BY <1>12 DEF CreateWorktree, planVars
  <2>2. pc'[r] \in {"add", "failed"} /\ \A q \in Runs : q # r => pc'[q] = pc[q]
    BY <1>12 DEF CreateWorktree, TypeOK
  <2>3. ASSUME NEW q \in Runs
        PROVE  Fresh(q)' /\ Planned(q)' /\ HeldTags(q)' /\ AllTagged(q)'
    BY <2>1, <2>2
       DEF TagInv, Fresh, Selected, Planned, HeldTags, AllTagged, Groups, TagOf, Unplanned
  <2>4. ASSUME NEW q \in Runs, NEW s \in Runs PROVE OneOwner(q, s)'
    BY <2>1, <2>2 DEF TagInv, OneOwner
  <2> QED BY <2>3, <2>4 DEF TagInv
<1>4. ASSUME NEW r \in Runs, CreateTag(r) PROVE TagInv'
  <2>1. PICK p \in Untagged(r) :
          /\ local[clone[r]][TagOf(r, p)] = 0
          /\ local' = [local EXCEPT ![clone[r]][TagOf(r, p)] = base[r]]
          /\ tagged' = [tagged EXCEPT ![r] = @ \cup {p}]
          /\ Goto(r, IF Untagged(r) = {p} THEN BuildOrPush(todo[r]) ELSE "tag")
    BY <1>4 DEF CreateTag
  <2>2. pc[r] = "tag" /\ UNCHANGED <<clone, mods, include, plan, base, todo>>
    BY <1>4 DEF CreateTag, planVars
  <2>3. p \in Groups(r) /\ p \in Prefixes /\ TagOf(r, p) \in Tags /\ clone[r] \in Clones
    BY <2>1, <2>2, GroupsArePrefixes, PlannedTags DEF Untagged, TypeOK
  <2>4. /\ tagged'[r] = tagged[r] \cup {p}
        /\ \A q \in Runs : q # r => tagged'[q] = tagged[q] /\ pc'[q] = pc[q]
        /\ pc'[r] \in {"tag", "build", "push"}
        /\ pc'[r] # "tag" => Untagged(r) = {p}
    BY <2>1 DEF TypeOK, BuildOrPush
  <2>5. \A d \in Clones, u \in Tags : local'[d][u] =
            IF d = clone[r] /\ u = TagOf(r, p) THEN base[r] ELSE local[d][u]
    <3>1. local \in [Clones -> [Tags -> Commits]]
      BY DEF TypeOK
    <3> QED BY <2>1, <2>3, <3>1
  <2>6. ASSUME NEW q \in Runs, Owning(q), NEW s \in tagged[q], clone[q] = clone[r]
        PROVE  TagOf(q, s) # TagOf(r, p)
    <3>1. local[clone[r]][TagOf(q, s)] = base[q] /\ base[q] # 0
      BY <2>6 DEF TagInv, HeldTags, Planned
    <3> QED BY <2>1, <3>1
  <2>7. ASSUME NEW q \in Runs PROVE Fresh(q)' /\ Planned(q)' /\ AllTagged(q)'
    BY <2>2, <2>4
       DEF TagInv, Fresh, Selected, Planned, AllTagged, Groups, Untagged, Unplanned
  <2>8. ASSUME NEW q \in Runs PROVE HeldTags(q)'
    <3> SUFFICES ASSUME Owning(q)', NEW s \in tagged'[q]
                 PROVE  s \in Groups(q) /\ local'[clone[q]][TagOf(q, s)] = base[q]
      BY <2>2 DEF HeldTags, Groups, TagOf
    <3>1. Owning(q) /\ clone[q] \in Clones
      BY <2>2, <2>4 DEF TypeOK
    <3>2. CASE q = r /\ s = p
      BY <2>3, <2>5, <3>2
    <3>3. CASE s \in tagged[q]
      <4>1. s \in Groups(q) /\ local[clone[q]][TagOf(q, s)] = base[q]
        BY <3>1, <3>3 DEF TagInv, HeldTags
      <4>2. TagOf(q, s) \in Tags
        BY <3>1, <4>1, PlannedTags
      <4> QED BY <2>5, <2>6, <3>1, <3>3, <4>1, <4>2
    <3> QED BY <2>4, <3>2, <3>3
  <2>9. ASSUME NEW q \in Runs, NEW s \in Runs PROVE OneOwner(q, s)'
    <3> SUFFICES ASSUME q # s, Owning(q)', Owning(s)', clone[q] = clone[s],
                        NEW x \in tagged'[q] \cap tagged'[s]
                 PROVE  plan[q][x] # plan[s][x]
      BY <2>2 DEF OneOwner
    <3>1. Owning(q) /\ Owning(s)
      BY <2>2, <2>4
    <3>2. CASE x \in tagged[q] /\ x \in tagged[s]
      BY <3>1, <3>2 DEF TagInv, OneOwner
    <3>3. CASE q = r /\ x = p /\ x \in tagged[s]
      <4>1. TagOf(s, x) # TagOf(r, p)
        BY <2>6, <3>1, <3>3
      <4> QED BY <3>3, <4>1 DEF TagOf
    <3>4. CASE s = r /\ x = p /\ x \in tagged[q]
      <4>1. TagOf(q, x) # TagOf(r, p)
        BY <2>6, <3>1, <3>4
      <4> QED BY <3>4, <4>1 DEF TagOf
    <3> QED BY <2>4, <3>2, <3>3, <3>4
  <2> QED BY <2>7, <2>8, <2>9 DEF TagInv
<1>5. ASSUME NEW r \in Runs, DeleteTag(r) PROVE TagInv'
  <2>1. PICK p \in ToDelete(r) :
          /\ \/ /\ local' = [local EXCEPT ![clone[r]][TagOf(r, p)] = 0]
                /\ tagged' = [tagged EXCEPT ![r] = @ \ {p}]
             \/ UNCHANGED <<local, tagged>>
          /\ Goto(r, IF ToDelete(r) = {p} THEN "remove" ELSE "untag")
    BY <1>5 DEF DeleteTag
  <2>2. pc[r] = "untag" /\ UNCHANGED <<clone, mods, include, plan, base, todo>>
    BY <1>5 DEF DeleteTag, planVars
  <2>3. /\ p \in tagged[r] /\ p \in Groups(r)
        /\ TagOf(r, p) \in Tags /\ clone[r] \in Clones
    BY <2>1, <2>2, PlannedTags DEF TagInv, HeldTags, TypeOK, ToDelete
  <2>4. /\ tagged'[r] \subseteq tagged[r]
        /\ \A q \in Runs : q # r => tagged'[q] = tagged[q] /\ pc'[q] = pc[q]
        /\ pc'[r] \in {"remove", "untag"}
    BY <2>1 DEF TypeOK
  <2>5. \A d \in Clones, u \in Tags :
          \/ local'[d][u] = local[d][u]
          \/ d = clone[r] /\ u = TagOf(r, p) /\ tagged'[r] = tagged[r] \ {p}
    <3>1. local \in [Clones -> [Tags -> Commits]] /\ tagged \in [Runs -> SUBSET Prefixes]
      BY DEF TypeOK
    <3> QED BY <2>1, <2>3, <3>1
  <2>6. ASSUME NEW q \in Runs PROVE Fresh(q)' /\ Planned(q)' /\ AllTagged(q)'
    BY <2>2, <2>4 DEF TagInv, Fresh, Selected, Planned, AllTagged, Groups, Unplanned
  <2>7. ASSUME NEW q \in Runs PROVE HeldTags(q)'
    <3> SUFFICES ASSUME Owning(q)', NEW s \in tagged'[q]
                 PROVE  s \in Groups(q) /\ local'[clone[q]][TagOf(q, s)] = base[q]
      BY <2>2 DEF HeldTags, Groups, TagOf
    <3>1. Owning(q) /\ clone[q] \in Clones /\ s \in tagged[q]
      BY <2>2, <2>4 DEF TypeOK
    <3>2. s \in Groups(q) /\ local[clone[q]][TagOf(q, s)] = base[q]
      BY <3>1 DEF TagInv, HeldTags
    <3>3. TagOf(q, s) \in Tags
      BY <3>1, <3>2, PlannedTags
    <3>4. CASE s # p
      <4>1. TagOf(q, s) # TagOf(r, p)
        BY <3>4 DEF TagOf
      <4> QED BY <2>5, <3>1, <3>2, <3>3, <4>1
    <3>5. CASE s = p /\ q = r
      <4>1. tagged'[r] # tagged[r] \ {p}
        BY <3>5
      <4> QED BY <2>5, <3>1, <3>2, <3>3, <4>1
    <3>6. CASE s = p /\ q # r
      <4>1. clone[q] = clone[r] => plan[q][p] # plan[r][p]
        BY <2>2, <2>3, <3>1, <3>6 DEF TagInv, OneOwner
      <4>2. clone[q] = clone[r] => TagOf(q, s) # TagOf(r, p)
        BY <3>6, <4>1 DEF TagOf
      <4> QED BY <2>5, <3>1, <3>2, <3>3, <4>2
    <3> QED BY <3>4, <3>5, <3>6
  <2>8. ASSUME NEW q \in Runs, NEW s \in Runs PROVE OneOwner(q, s)'
    BY <2>2, <2>4 DEF TagInv, OneOwner
  <2> QED BY <2>6, <2>7, <2>8 DEF TagInv
<1>6. ASSUME NEW c \in Clones, Fetch(c) PROVE TagInv'
  <2>1. UNCHANGED <<pc, clone, mods, include, plan, base, tagged, todo>>
    BY <1>6 DEF Fetch, planVars
  <2>2. \A d \in Clones, u \in Tags : local[d][u] # 0 => local'[d][u] = local[d][u]
    BY <1>6 DEF Fetch, TypeOK
  <2>3. ASSUME NEW q \in Runs PROVE Fresh(q)' /\ Planned(q)' /\ AllTagged(q)'
    BY <2>1 DEF TagInv, Fresh, Selected, Planned, AllTagged, Groups, Unplanned
  <2>4. ASSUME NEW q \in Runs PROVE HeldTags(q)'
    <3> SUFFICES ASSUME Owning(q), NEW s \in tagged[q]
                 PROVE  s \in Groups(q) /\ local'[clone[q]][TagOf(q, s)] = base[q]
      BY <2>1 DEF HeldTags, Groups, TagOf
    <3>1. s \in Groups(q) /\ local[clone[q]][TagOf(q, s)] = base[q] /\ base[q] # 0
      BY DEF TagInv, HeldTags, Planned
    <3>2. TagOf(q, s) \in Tags /\ clone[q] \in Clones
      BY <3>1, PlannedTags DEF TypeOK
    <3> QED BY <2>2, <3>1, <3>2
  <2>5. ASSUME NEW q \in Runs, NEW s \in Runs PROVE OneOwner(q, s)'
    BY <2>1 DEF TagInv, OneOwner
  <2> QED BY <2>3, <2>4, <2>5 DEF TagInv
<1>7. ASSUME UNCHANGED <<clone, mods, include, plan, base, tagged, local>>,
             NEW r \in Runs, Owning(r) \/ pc[r] \in {"plan", "add", "remove"},
             NEW l \in {"build", "push", "hung", "untag", "remove", "failed", "done", "killed"},
             Goto(r, l), l \in {"build", "push"} => Publishing(r),
             l \in {"untag", "hung"} => Owning(r),
             \A q \in Runs : q # r => todo'[q] = todo[q]
      PROVE  TagInv'
  <2>1. \A q \in Runs : q # r => pc'[q] = pc[q]
    BY <1>7 DEF TypeOK
  <2>2. pc'[r] = l
    BY <1>7 DEF TypeOK
  <2>3. ASSUME NEW q \in Runs PROVE Fresh(q)'
    BY <1>7, <2>1, <2>2 DEF TagInv, Fresh, Selected
  <2> QED BY <1>7, <2>1, <2>2, <2>3, QuietStep
<1>8. ASSUME NEW r \in Runs,
             ResolveConflict(r) \/ AddWorktreeFails(r) \/ CreateTagFails(r)
             \/ RunTargetFails(r) \/ PushTags(r) \/ PushTagsFails(r) \/ Hang(r)
             \/ InterruptOutside(r)
      PROVE  TagInv'
  BY <1>7, <1>8 DEF ResolveConflict, AddWorktreeFails, CreateTagFails, RunTargetFails,
                    PushTags, PushTagsFails, Hang, InterruptOutside, planVars
<1>9. ASSUME NEW r \in Runs, RunTarget(r) PROVE TagInv'
  BY <1>7, <1>9 DEF RunTarget, BuildOrPush, planVars, TypeOK
<1>10. ASSUME NEW r \in Runs, RemoveWorktree(r) \/ Interrupt(r) \/ Kill(r) PROVE TagInv'
  BY <1>7, <1>10 DEF RemoveWorktree, Interrupt, Kill, planVars
<1>11. CASE Commit \/ NextDay \/ (\E c \in Clones : FastForward(c)) \/ UNCHANGED vars
  <2>1. UNCHANGED <<pc, clone, mods, include, plan, base, tagged, todo, local>>
    BY <1>11 DEF Commit, NextDay, FastForward, planVars, vars
  <2>2. ASSUME NEW q \in Runs PROVE Fresh(q)'
    BY <2>1 DEF TagInv, Fresh, Selected
  <2> QED BY <2>1, <2>2, QuietStep
<1> QED
  BY <1>1, <1>2, <1>3, <1>4, <1>5, <1>6, <1>8, <1>9, <1>10, <1>11, <1>12
     DEF Next, RunStep, Stop

LEMMA TagInit == Init => TagInv
BY DEF Init, TagInv, Fresh, Early, Planned, HeldTags, AllTagged, OneOwner, Owning,
       Publishing, Selected

LEMMA TagInvariant == Spec => []TagInv
<1>1. TypeOK /\ TagInv /\ [Next]_vars => TagInv'
  BY TagStep
<1> QED BY <1>1, TagInit, TypeCorrect, PTL DEF Spec

\* A run that builds or pushes has all of its tags in its clone, at the commit of
\* its worktree, whatever the other runs, users and fetches do.
THEOREM OwnTagsAreHeld == Spec => []OwnTagsHeld
<1>1. TagInv => OwnTagsHeld
  BY DEF TagInv, OwnTagsHeld, AllTagged, HeldTags, Owning, Publishing
<1> QED BY <1>1, TagInvariant, PTL
-----------------------------------------------------------------------------
\* What is tagged on origin was completely published.

\* An upload removes nothing from the registries, and leaves alone what an immutable
\* track already holds.
LEMMA StoredKeeps ==
  ASSUME TypeOK, NEW r \in Runs, NEW t \in Targets, NEW u \in Targets, NEW v \in Versions
  PROVE  /\ store[u][v] \subseteq Stored(r, t)[u][v]
         /\ u.track \in Immutable /\ store[u][v] # {} => Stored(r, t)[u][v] = store[u][v]
<1> DEFINE w == VersionOf(r, t)
<1>1. store \in [Targets -> [Versions -> SUBSET Commits]]
  BY DEF TypeOK
<1>2. CASE Refused(r, t)
  BY <1>2 DEF Stored
<1>3. CASE ~Refused(r, t) /\ u = t /\ w = v
  <2>1. Stored(r, t)[u][v] = store[u][v] \cup {base[r]}
    BY <1>1, <1>3 DEF Stored
  <2>2. ~(u.track \in Immutable /\ store[u][v] # {})
    BY <1>3 DEF Refused
  <2> QED BY <2>1, <2>2
<1>4. CASE ~Refused(r, t) /\ (u # t \/ w # v)
  <2>1. Stored(r, t)[u][v] = store[u][v]
    BY <1>1, <1>4 DEF Stored
  <2> QED BY <2>1
<1> QED BY <1>2, <1>3, <1>4

LEMMA StoreKeeps ==
  ASSUME TypeOK, [Next]_vars, NEW u \in Targets, NEW v \in Versions
  PROVE  /\ store[u][v] \subseteq store'[u][v]
         /\ u.track \in Immutable /\ store[u][v] # {} => store'[u][v] = store[u][v]
<1> DEFINE Kept == /\ store[u][v] \subseteq store'[u][v]
                   /\ u.track \in Immutable /\ store[u][v] # {} => store'[u][v] = store[u][v]
<1>1. \A r \in Runs : todo[r] \subseteq Targets
  BY DEF TypeOK
<1>2. ASSUME NEW r \in Runs, \E t \in todo[r] : store' = Stored(r, t)
      PROVE  Kept
  <2>1. PICK t \in todo[r] : store' = Stored(r, t)
    BY <1>2
  <2>2. t \in Targets
    BY <1>1
  <2> QED BY <2>1, <2>2, StoredKeeps
<1>3. UNCHANGED store \/ \E r \in Runs : \E t \in todo[r] : store' = Stored(r, t)
  <2>1. ASSUME NEW r \in Runs, RunTarget(r) \/ RunTargetFails(r)
        PROVE  UNCHANGED store \/ \E t \in todo[r] : store' = Stored(r, t)
    BY <2>1 DEF RunTarget, RunTargetFails
  <2>2. ASSUME NEW r \in Runs, Interrupt(r) \/ Kill(r) \/ Hang(r)
        PROVE  UNCHANGED store \/ \E t \in todo[r] : store' = Stored(r, t)
    BY <2>2 DEF Interrupt, Kill, Hang, InFlight
  <2>3. ASSUME NEW r \in Runs,
               Start(r) \/ ResolveGroup(r) \/ ResolveConflict(r) \/ CreateWorktree(r)
               \/ AddWorktree(r) \/ AddWorktreeFails(r) \/ CreateTag(r)
               \/ CreateTagFails(r) \/ PushTags(r) \/ PushTagsFails(r) \/ DeleteTag(r)
               \/ RemoveWorktree(r) \/ InterruptOutside(r)
        PROVE  UNCHANGED store
    BY <2>3 DEF Start, ResolveGroup, ResolveConflict, CreateWorktree, AddWorktree,
                AddWorktreeFails, CreateTag, CreateTagFails, PushTags, PushTagsFails,
                DeleteTag, RemoveWorktree, InterruptOutside
  <2>4. CASE Commit \/ NextDay \/ (\E c \in Clones : Fetch(c) \/ FastForward(c))
             \/ UNCHANGED vars
    BY <2>4 DEF Commit, NextDay, Fetch, FastForward, vars
  <2> QED BY <2>1, <2>2, <2>3, <2>4 DEF Next, RunStep, Stop
<1>4. UNCHANGED store => Kept
  OBVIOUS
<1> QED BY <1>2, <1>3, <1>4

\* A run that has its worktree keeps its plan and its commit and only gets work done.
LEMMA PlanFrozen ==
  ASSUME TypeOK, [Next]_vars, NEW q \in Runs, ~Early(q)
  PROVE  /\ ~Early(q)'
         /\ mods'[q] = mods[q] /\ include'[q] = include[q]
         /\ plan'[q] = plan[q] /\ base'[q] = base[q]
         /\ todo'[q] \subseteq todo[q]
<1> USE DEF TypeOK, Early
<1>1. ASSUME NEW r \in Runs,
             Start(r) \/ ResolveGroup(r) \/ CreateWorktree(r) \/ AddWorktree(r)
      PROVE  r # q
  BY <1>1 DEF Start, ResolveGroup, CreateWorktree, AddWorktree
<1>2. CASE \E r \in Runs : Start(r)
  BY <1>1, <1>2, ZenonT(40) DEF Start
<1>3. CASE \E r \in Runs : ResolveGroup(r)
  BY <1>1, <1>3 DEF ResolveGroup, planVars
<1>4. ASSUME NEW r \in Runs, CreateWorktree(r) \/ AddWorktree(r)
      PROVE  /\ ~Early(q)' /\ UNCHANGED <<mods, include, plan, todo>>
             /\ base'[q] = base[q]
  BY <1>1, <1>4 DEF CreateWorktree, AddWorktree, planVars
<1>5. ASSUME NEW r \in Runs,
             ResolveConflict(r) \/ AddWorktreeFails(r) \/ CreateTagFails(r) \/ PushTags(r)
             \/ PushTagsFails(r) \/ RemoveWorktree(r) \/ Stop(r) \/ RunTargetFails(r)
      PROVE  /\ UNCHANGED <<mods, include, plan, base, todo>>
             /\ ~Early(q)'
  <2>1. UNCHANGED <<mods, include, plan, base, todo>>
    BY <1>5 DEF ResolveConflict, AddWorktreeFails, CreateTagFails, PushTags, PushTagsFails,
                RemoveWorktree, Stop, Interrupt, InterruptOutside, Kill, Hang,
                RunTargetFails, planVars
  <2>2. PICK label \in {"failed", "remove", "untag", "done", "killed", "hung"} :
          pc' = [pc EXCEPT ![r] = label]
    BY <1>5, Zenon DEF ResolveConflict, AddWorktreeFails, CreateTagFails, PushTags,
                       PushTagsFails, RemoveWorktree, Stop, Interrupt, InterruptOutside,
                       Kill, Hang, RunTargetFails
  <2> QED BY <2>1, <2>2
<1>6. ASSUME NEW r \in Runs, CreateTag(r) \/ RunTarget(r) \/ DeleteTag(r)
      PROVE  /\ UNCHANGED <<mods, include, plan, base>>
             /\ todo'[q] \subseteq todo[q]
             /\ ~Early(q)'
  <2>1. ~Early(q)'
    BY <1>6 DEF CreateTag, RunTarget, DeleteTag, BuildOrPush
  <2>2. todo'[q] \subseteq todo[q]
    <3>1. CASE CreateTag(r) \/ DeleteTag(r)
      BY <3>1 DEF CreateTag, DeleteTag
    <3>2. CASE RunTarget(r)
      <4>1. PICK t \in todo[r] : todo' = [todo EXCEPT ![r] = @ \ {t}]
        BY <3>2 DEF RunTarget
      <4> QED BY <4>1
    <3> QED BY <1>6, <3>1, <3>2
  <2>3. UNCHANGED <<mods, include, plan, base>>
    BY <1>6 DEF CreateTag, RunTarget, DeleteTag, planVars
  <2> QED BY <2>1, <2>2, <2>3
<1>7. CASE Commit \/ NextDay \/ (\E c \in Clones : Fetch(c) \/ FastForward(c))
           \/ UNCHANGED vars
  BY <1>7 DEF Commit, NextDay, Fetch, FastForward, planVars, vars
<1> QED BY <1>2, <1>3, <1>4, <1>5, <1>6, <1>7 DEF Next, RunStep

LEMMA VersionPlanned ==
  ASSUME TypeOK, NEW q \in Runs, Unplanned(q) = {}, NEW t \in Selected(q)
  PROVE  VersionOf(q, t) \in Versions
<1>1. PrefixOf[t.mod] \in Groups(q) /\ t.mod \in Modules
  BY DEF Selected, Groups, Targets
<1>2. PrefixOf[t.mod] \in Prefixes
  BY <1>1, PrefixOfAssumption
<1>3. plan \in [Runs -> [Prefixes -> Versions \cup {NoVersion}]]
  BY DEF TypeOK
<1>4. plan[q][PrefixOf[t.mod]] # NoVersion
  BY <1>1 DEF Unplanned
<1> QED BY <1>2, <1>3, <1>4 DEF VersionOf

\* What the registries hold of a run they go on holding.
LEMMA HoldsStays ==
  ASSUME TypeOK, [Next]_vars, NEW q \in Runs, ~Early(q), Unplanned(q) = {},
         NEW t \in Selected(q), Holds(q, t)
  PROVE  Holds(q, t)'
<1>1. plan'[q] = plan[q] /\ base'[q] = base[q]
  BY PlanFrozen
<1>2. t \in Targets /\ VersionOf(q, t) \in Versions /\ VersionOf(q, t)' = VersionOf(q, t)
  BY <1>1, VersionPlanned DEF Selected, VersionOf
<1>3. /\ base[q] \in store'[t][VersionOf(q, t)]
      /\ t.track \in Immutable => store'[t][VersionOf(q, t)] = {base[q]}
  BY <1>2, StoreKeeps DEF Holds
<1> QED BY <1>1, <1>2, <1>3 DEF Holds

\* A release stays complete once it is.
LEMMA ReleaseStays ==
  ASSUME TypeOK, [Next]_vars, NEW q \in Runs, ~Early(q), Unplanned(q) = {}, Completed(q)
  PROVE  Completed(q)' /\ Unplanned(q)' = {} /\ Groups(q)' = Groups(q)
<1>1. /\ mods'[q] = mods[q] /\ include'[q] = include[q]
      /\ plan'[q] = plan[q] /\ todo'[q] \subseteq todo[q]
  BY PlanFrozen
<1>2. Selected(q)' = Selected(q) /\ Groups(q)' = Groups(q)
  BY <1>1 DEF Selected, Groups
<1>3. Unplanned(q)' = {}
  BY <1>1, <1>2 DEF Unplanned
<1>4. ASSUME NEW t \in Selected(q) PROVE Holds(q, t)'
  BY HoldsStays DEF Completed
<1>5. Completed(q)'
  BY <1>1, <1>2, <1>4 DEF Completed
<1> QED BY <1>2, <1>3, <1>5

LEMMA PushWorks ==
  ASSUME TypeOK, TagInv, ReleaseInv, NEW r \in Runs, pc[r] = "push",
         NEW S \in SUBSET Groups(r), NEW p \in Prefixes, NEW v \in Versions
  PROVE  \/ OriginAfterPush(r, S)[<<p, v>>] = origin[<<p, v>>]
         \/ /\ p \in Groups(r) /\ plan[r][p] = v
            /\ base[r] = OriginAfterPush(r, S)[<<p, v>>]
            /\ Completed(r) /\ Unplanned(r) = {}
<1>1. /\ \A g \in Groups(r) : local[clone[r]][TagOf(r, g)] = base[r]
      /\ \A g \in Groups(r) : plan[r][g] \in Versions
  BY DEF TagInv, AllTagged, HeldTags, Planned, Owning, Publishing
<1>2. Unplanned(r) = {}
  BY <1>1, VersionAssumption DEF Unplanned
<1>3. Completed(r)
  BY DEF ReleaseInv, Uploaded, PushReady, Completed, Owning
<1>4. <<p, v>> \in Tags
  BY DEF Tags
<1>5. CASE \E g \in S : <<p, v>> = TagOf(r, g)
  <2>1. PICK g \in S : <<p, v>> = TagOf(r, g)
    BY <1>5
  <2>2. g \in Groups(r) /\ g = p /\ plan[r][g] = v
    BY <2>1 DEF TagOf
  <2>3. OriginAfterPush(r, S)[<<p, v>>] = local[clone[r]][<<p, v>>]
    BY <1>4, <1>5 DEF OriginAfterPush
  <2> QED BY <1>1, <1>2, <1>3, <2>1, <2>2, <2>3
<1>6. CASE ~\E g \in S : <<p, v>> = TagOf(r, g)
  BY <1>4, <1>6 DEF OriginAfterPush
<1> QED BY <1>5, <1>6

\* Only a push changes a tag of origin, and it brings tags that origin accepts.
PushSome(r) == pc[r] = "push" /\ \E S \in SUBSET Accepted(r) : origin' = OriginAfterPush(r, S)
LEMMA OriginStep == [Next]_vars => UNCHANGED origin \/ \E r \in Runs : PushSome(r)
<1> SUFFICES ASSUME [Next]_vars PROVE UNCHANGED origin \/ \E r \in Runs : PushSome(r)
  OBVIOUS
<1>1. ASSUME NEW r \in Runs,
             PushTags(r) \/ PushTagsFails(r) \/ Interrupt(r) \/ Kill(r) \/ Hang(r)
      PROVE  UNCHANGED origin \/ PushSome(r)
  BY <1>1 DEF PushTags, PushTagsFails, Interrupt, Kill, Hang, InFlight, PushSome
<1>2. ASSUME NEW r \in Runs,
             Start(r) \/ ResolveGroup(r) \/ ResolveConflict(r) \/ CreateWorktree(r)
             \/ AddWorktree(r) \/ AddWorktreeFails(r) \/ CreateTag(r) \/ CreateTagFails(r)
             \/ RunTarget(r) \/ RunTargetFails(r) \/ DeleteTag(r) \/ RemoveWorktree(r)
             \/ InterruptOutside(r)
      PROVE  UNCHANGED origin
  BY <1>2 DEF Start, ResolveGroup, ResolveConflict, CreateWorktree, AddWorktree,
              AddWorktreeFails, CreateTag, CreateTagFails, RunTarget, RunTargetFails,
              DeleteTag, RemoveWorktree, InterruptOutside
<1>3. CASE Commit \/ NextDay \/ (\E c \in Clones : Fetch(c) \/ FastForward(c))
           \/ UNCHANGED vars
  BY <1>3 DEF Commit, NextDay, Fetch, FastForward, vars
<1> QED BY <1>1, <1>2, <1>3 DEF Next, RunStep, Stop

LEMMA ReleaseStep == TypeOK /\ TagInv /\ ReleaseInv /\ [Next]_vars => ReleaseInv'
<1> SUFFICES ASSUME TypeOK, TagInv, ReleaseInv, [Next]_vars PROVE ReleaseInv'
  OBVIOUS
<1>1. ASSUME NEW q \in Runs, Owning(q)' PROVE Owning(q) \/ AddWorktree(q)
  <2> USE <1>1 DEF Owning, TypeOK
  <2>1. ASSUME NEW r \in Runs, Start(r) \/ ResolveConflict(r) \/ CreateWorktree(r)
                               \/ AddWorktreeFails(r) \/ RemoveWorktree(r)
                               \/ CreateTagFails(r) \/ PushTags(r) \/ Interrupt(r)
                               \/ InterruptOutside(r) \/ Kill(r)
        PROVE  Owning(q)
    <3>1. PICK label \in {"plan", "add", "failed", "remove", "done", "killed"} :
            pc' = [pc EXCEPT ![r] = label]
      BY <2>1, Zenon DEF Start, ResolveConflict, CreateWorktree, AddWorktreeFails,
                         RemoveWorktree, CreateTagFails, PushTags, Interrupt,
                         InterruptOutside, Kill
    <3> QED BY <3>1
  <2>2. ASSUME NEW r \in Runs, CreateTag(r) \/ RunTarget(r) \/ RunTargetFails(r)
                               \/ PushTagsFails(r) \/ DeleteTag(r) \/ ResolveGroup(r)
                               \/ Hang(r)
        PROVE  Owning(q)
    BY <2>2 DEF CreateTag, RunTarget, RunTargetFails, PushTagsFails, DeleteTag,
                ResolveGroup, Hang, Publishing
  <2>3. ASSUME NEW r \in Runs, AddWorktree(r) PROVE Owning(q) \/ r = q
    BY <2>3 DEF AddWorktree
  <2>4. CASE Commit \/ NextDay \/ (\E c \in Clones : Fetch(c) \/ FastForward(c))
             \/ UNCHANGED vars
    BY <2>4 DEF Commit, NextDay, Fetch, FastForward, vars
  <2> QED BY <2>1, <2>2, <2>3, <2>4 DEF Next, RunStep, Stop
<1>2. ASSUME NEW q \in Runs, NEW t \in todo[q], t \notin todo'[q], ~Early(q)
      PROVE  RunTarget(q) /\ ~Refused(q, t) /\ store' = Stored(q, t)
  <2>1. ASSUME NEW r \in Runs, Start(r) PROVE FALSE
    BY <1>2, <2>1 DEF Start, TypeOK, Early
  <2>2. ASSUME NEW r \in Runs,
               ResolveGroup(r) \/ ResolveConflict(r) \/ CreateWorktree(r)
               \/ AddWorktree(r) \/ AddWorktreeFails(r)
               \/ CreateTag(r) \/ CreateTagFails(r) \/ RunTargetFails(r) \/ PushTags(r)
               \/ PushTagsFails(r) \/ DeleteTag(r) \/ RemoveWorktree(r) \/ Stop(r)
        PROVE  UNCHANGED todo
    BY <2>2 DEF ResolveGroup, ResolveConflict, CreateWorktree, AddWorktree,
                AddWorktreeFails, CreateTag, CreateTagFails, RunTargetFails, PushTags,
                PushTagsFails, DeleteTag, RemoveWorktree, Stop, Interrupt,
                InterruptOutside, Kill, Hang
  <2>3. CASE Commit \/ NextDay \/ (\E c \in Clones : Fetch(c) \/ FastForward(c))
             \/ UNCHANGED vars
    BY <1>2, <2>3 DEF Commit, NextDay, Fetch, FastForward, vars
  <2>4. ASSUME NEW r \in Runs, RunTarget(r)
        PROVE  RunTarget(q) /\ ~Refused(q, t) /\ store' = Stored(q, t)
    <3>1. PICK u \in todo[r] : /\ ~Refused(r, u) /\ store' = Stored(r, u)
                               /\ todo' = [todo EXCEPT ![r] = @ \ {u}]
      BY <2>4 DEF RunTarget
    <3>2. todo \in [Runs -> SUBSET Targets]
      BY DEF TypeOK
    <3>3. r = q /\ u = t
      BY <1>2, <3>1, <3>2
    <3> QED BY <2>4, <3>1, <3>3
  <2> QED BY <1>2, <2>1, <2>2, <2>3, <2>4 DEF Next, RunStep
<1>3. ASSUME NEW q \in Runs PROVE Uploaded(q)'
  <2> SUFFICES ASSUME Owning(q)', NEW t \in Selected(q)', t \notin todo'[q]
               PROVE  Holds(q, t)'
    BY DEF Uploaded
  <2>1. CASE AddWorktree(q)
    <3>1. todo[q] = Selected(q) /\ UNCHANGED <<todo, mods, include>>
      BY <2>1 DEF AddWorktree, planVars, TagInv, Fresh, Early
    <3> QED BY <3>1 DEF Selected
  <2>2. CASE Owning(q)
    <3>1. ~Early(q)
      BY <2>2 DEF Owning, Early
    <3>2. /\ mods'[q] = mods[q] /\ include'[q] = include[q]
          /\ plan'[q] = plan[q] /\ base'[q] = base[q]
      BY <3>1, PlanFrozen
    <3>3. t \in Selected(q) /\ t \in Targets /\ VersionOf(q, t)' = VersionOf(q, t)
      BY <3>2 DEF Selected, VersionOf
    <3>4. Unplanned(q) = {}
      BY <2>2, VersionAssumption DEF TagInv, Planned, Unplanned
    <3>5. VersionOf(q, t) \in Versions
      BY <3>3, <3>4, VersionPlanned
    <3>6. CASE t \notin todo[q]
      <4>1. Holds(q, t)
        BY <2>2, <3>3, <3>6 DEF ReleaseInv, Uploaded
      <4> QED BY <3>1, <3>3, <3>4, <4>1, HoldsStays
    <3>7. CASE t \in todo[q]
      <4>1. ~Refused(q, t) /\ store' = Stored(q, t)
        BY <1>2, <3>1, <3>7
      <4>2. store \in [Targets -> [Versions -> SUBSET Commits]]
        BY DEF TypeOK
      <4>3. store'[t][VersionOf(q, t)] = store[t][VersionOf(q, t)] \cup {base[q]}
        BY <3>3, <3>5, <4>1, <4>2 DEF Stored
      <4>4. t.track \in Immutable => store[t][VersionOf(q, t)] = {}
        BY <4>1 DEF Refused
      <4> QED BY <3>2, <3>3, <4>3, <4>4 DEF Holds
    <3> QED BY <3>6, <3>7
  <2> QED BY <1>1, <2>1, <2>2
<1>4. ASSUME NEW q \in Runs PROVE PushReady(q)'
  <2> USE DEF PushReady, TypeOK
  <2>1. ASSUME NEW r \in Runs, Start(r) PROVE PushReady(q)'
    BY <2>1 DEF Start, ReleaseInv
  <2>2. ASSUME NEW r \in Runs,
               ResolveConflict(r) \/ CreateWorktree(r) \/ AddWorktree(r)
               \/ AddWorktreeFails(r) \/ CreateTagFails(r) \/ RunTargetFails(r)
               \/ PushTags(r) \/ PushTagsFails(r) \/ RemoveWorktree(r) \/ Stop(r)
        PROVE  PushReady(q)'
    <3>1. PICK label \in {"add", "tag", "failed", "remove", "untag", "done", "killed", "hung"} :
            pc' = [pc EXCEPT ![r] = label]
      BY <2>2, Zenon DEF ResolveConflict, CreateWorktree, AddWorktree, AddWorktreeFails,
                         CreateTagFails, RunTargetFails, PushTags, PushTagsFails,
                         RemoveWorktree, Stop, Interrupt, InterruptOutside, Kill, Hang
    <3>2. UNCHANGED todo
      BY <2>2 DEF ResolveConflict, CreateWorktree, AddWorktree, AddWorktreeFails,
                  CreateTagFails, RunTargetFails, PushTags, PushTagsFails,
                  RemoveWorktree, Stop, Interrupt, InterruptOutside, Kill, Hang
    <3> QED BY <3>1, <3>2 DEF ReleaseInv
  <2>3. ASSUME NEW r \in Runs, CreateTag(r) \/ RunTarget(r) PROVE PushReady(q)'
    BY <2>3 DEF ReleaseInv, CreateTag, RunTarget, BuildOrPush
  <2>5. ASSUME NEW r \in Runs, DeleteTag(r) \/ ResolveGroup(r) PROVE PushReady(q)'
    BY <2>5 DEF ReleaseInv, DeleteTag, ResolveGroup
  <2>4. CASE Commit \/ NextDay \/ (\E c \in Clones : Fetch(c) \/ FastForward(c))
             \/ UNCHANGED vars
    BY <2>4 DEF ReleaseInv, Commit, NextDay, Fetch, FastForward, vars
  <2> QED BY <2>1, <2>2, <2>3, <2>4, <2>5 DEF Next, RunStep
<1>6. ASSUME NEW p \in Prefixes, NEW v \in Versions, origin'[<<p, v>>] # 0
      PROVE  \E r \in Runs : ~Early(r)' /\ Unplanned(r)' = {} /\ Releases(r, p, v)'
  <2>1. ASSUME NEW r \in Runs, ~Early(r), Unplanned(r) = {},
               p \in Groups(r), plan[r][p] = v, base[r] = origin'[<<p, v>>], Completed(r)
        PROVE  ~Early(r)' /\ Unplanned(r)' = {} /\ Releases(r, p, v)'
    <3>1. Completed(r)' /\ Unplanned(r)' = {} /\ Groups(r)' = Groups(r)
      BY <2>1, ReleaseStays
    <3>2. ~Early(r)' /\ plan'[r] = plan[r] /\ base'[r] = base[r]
      BY <2>1, PlanFrozen
    <3> QED BY <2>1, <3>1, <3>2 DEF Releases
  <2>2. CASE origin'[<<p, v>>] = origin[<<p, v>>]
    <3>1. PICK r \in Runs : ~Early(r) /\ Unplanned(r) = {} /\ Releases(r, p, v)
      BY <1>6, <2>2 DEF ReleaseInv
    <3> QED BY <2>1, <2>2, <3>1 DEF Releases
  <2>3. CASE origin'[<<p, v>>] # origin[<<p, v>>]
    <3>1. PICK r \in Runs : PushSome(r)
      BY <2>3, OriginStep
    <3>2. PICK S \in SUBSET Accepted(r) : origin' = OriginAfterPush(r, S)
      BY <3>1 DEF PushSome
    <3>3. pc[r] = "push" /\ S \in SUBSET Groups(r)
      BY <3>1 DEF PushSome, Accepted
    <3>4. /\ p \in Groups(r) /\ plan[r][p] = v
          /\ base[r] = origin'[<<p, v>>]
          /\ Completed(r) /\ Unplanned(r) = {}
      BY <2>3, <3>2, <3>3, PushWorks
    <3> QED BY <2>1, <3>3, <3>4 DEF Early
  <2> QED BY <2>2, <2>3
<1> QED BY <1>3, <1>4, <1>6 DEF ReleaseInv

LEMMA ReleaseInit == Init => ReleaseInv
BY DEF Init, ReleaseInv, Uploaded, PushReady, Owning, Tags

\* A tag on origin stands for a release of which every selected target was run,
\* and which a refusing registry holds as it was built from the tagged commit.
THEOREM TaggedMeansComplete == Spec => []TaggedReleasesAreComplete
<1>1. TypeOK /\ TagInv /\ ReleaseInv /\ [Next]_vars => ReleaseInv'
  BY ReleaseStep
<1>2. ReleaseInv => TaggedReleasesAreComplete
  BY DEF ReleaseInv, TaggedReleasesAreComplete
<1> QED BY <1>1, <1>2, ReleaseInit, TypeCorrect, TagInvariant, PTL DEF Spec
-----------------------------------------------------------------------------
\* What is released stays released.

LEMMA TagsOfOriginStay ==
  ASSUME TypeOK, [Next]_vars, NEW t \in Tags, origin[t] # 0
  PROVE  origin'[t] = origin[t]
<1>1. CASE UNCHANGED origin
  BY <1>1
<1>2. CASE \E r \in Runs : PushSome(r)
  <2>0. PICK r \in Runs : PushSome(r)
    BY <1>2
  <2>1. PICK S \in SUBSET Accepted(r) : origin' = OriginAfterPush(r, S)
    BY <2>0 DEF PushSome
  <2>2. CASE \E p \in S : t = TagOf(r, p)
    <3>1. PICK p \in Accepted(r) : t = TagOf(r, p)
      BY <2>2
    <3>2. origin[t] = local[clone[r]][t]
      BY <3>1 DEF Accepted, Pushed
    <3> QED BY <2>1, <2>2, <3>2 DEF OriginAfterPush
  <2>3. CASE ~\E p \in S : t = TagOf(r, p)
    BY <2>1, <2>3 DEF OriginAfterPush
  <2> QED BY <2>2, <2>3
<1> QED BY <1>1, <1>2, OriginStep

\* A run that reports success is over, but for its worktree, and had a plan.
Done(r) ==
  outcome[r] = "ok" =>
    /\ pc[r] \in {"remove", "done"} /\ base[r] # 0
    /\ \A p \in Groups(r) : plan[r][p] \in Versions /\ origin[TagOf(r, p)] = base[r]
DoneInv == \A r \in Runs : Done(r)

\* It was a push that made it one.
LEMMA SuccessStep ==
  ASSUME TypeOK, [Next]_vars, NEW q \in Runs, outcome'[q] = "ok"
  PROVE  \/ PushTags(q)
         \/ outcome[q] = "ok" /\ (pc[q] \in {"remove", "done"} => pc'[q] \in {"remove", "done"})
<1> USE DEF TypeOK
<1>1. ASSUME NEW r \in Runs, Start(r) \/ ResolveGroup(r) \/ AddWorktree(r) \/ CreateTag(r)
                             \/ RunTarget(r) \/ DeleteTag(r) \/ Hang(r)
      PROVE  outcome[q] = "ok" /\ (pc[q] \in {"remove", "done"} => pc'[q] = pc[q])
  BY <1>1 DEF Start, ResolveGroup, AddWorktree, CreateTag, RunTarget, DeleteTag, Hang,
              Publishing
<1>2. ASSUME NEW r \in Runs, ResolveConflict(r) \/ AddWorktreeFails(r) \/ CreateTagFails(r)
                             \/ RunTargetFails(r) \/ PushTagsFails(r) \/ Interrupt(r)
                             \/ InterruptOutside(r) \/ Kill(r)
      PROVE  outcome[q] = "ok" /\ pc'[q] = pc[q]
  <2>1. PICK label \in PCs, end \in {"error", "tagging failed", "interrupted"} :
          pc' = [pc EXCEPT ![r] = label] /\ outcome' = [outcome EXCEPT ![r] = end]
    BY <1>2, Zenon DEF ResolveConflict, AddWorktreeFails, CreateTagFails, RunTargetFails,
                       PushTagsFails, Interrupt, InterruptOutside, Kill, PCs
  <2> QED BY <2>1
<1>3. ASSUME NEW r \in Runs, CreateWorktree(r)
      PROVE  outcome[q] = "ok" /\ (pc[q] \in {"remove", "done"} => pc'[q] = pc[q])
  BY <1>3 DEF CreateWorktree
<1>4. ASSUME NEW r \in Runs, PushTags(r)
      PROVE  PushTags(q) \/ (outcome[q] = "ok" /\ pc'[q] = pc[q])
  BY <1>4 DEF PushTags
<1>5. ASSUME NEW r \in Runs, RemoveWorktree(r)
      PROVE  outcome[q] = "ok" /\ (pc[q] \in {"remove", "done"} => pc'[q] \in {"remove", "done"})
  BY <1>5 DEF RemoveWorktree
<1>6. CASE Commit \/ NextDay \/ (\E c \in Clones : Fetch(c) \/ FastForward(c)) \/ UNCHANGED vars
  BY <1>6 DEF Commit, NextDay, Fetch, FastForward, vars
<1> QED BY <1>1, <1>2, <1>3, <1>4, <1>5, <1>6 DEF Next, RunStep, Stop

LEMMA DoneStep == TypeOK /\ TagInv /\ DoneInv /\ [Next]_vars => DoneInv'
<1> SUFFICES ASSUME TypeOK, TagInv, DoneInv, [Next]_vars, NEW q \in Runs, outcome'[q] = "ok"
             PROVE  Done(q)'
  BY DEF DoneInv, Done
<1>1. CASE PushTags(q)
  <2>1. /\ pc[q] = "push" /\ Accepted(q) = Groups(q) /\ origin' = OriginAfterPush(q, Groups(q))
        /\ UNCHANGED <<mods, plan, base>> /\ pc'[q] = "remove"
    BY <1>1 DEF PushTags, planVars, TypeOK
  <2>2. base[q] # 0 /\ \A p \in Groups(q) : plan[q][p] \in Versions
    BY <2>1 DEF TagInv, Planned, Owning
  <2>3. ASSUME NEW p \in Groups(q) PROVE origin'[TagOf(q, p)] = base[q]
    <3>1. local[clone[q]][TagOf(q, p)] = base[q]
      BY <2>1 DEF TagInv, AllTagged, HeldTags, Owning, Publishing
    <3>2. TagOf(q, p) \in Tags
      BY <2>1, PlannedTags DEF Owning
    <3> QED BY <2>1, <3>1, <3>2 DEF OriginAfterPush
  <2> QED BY <2>1, <2>2, <2>3 DEF Done, Groups, TagOf
<1>2. CASE outcome[q] = "ok" /\ (pc[q] \in {"remove", "done"} => pc'[q] \in {"remove", "done"})
  <2>1. /\ pc[q] \in {"remove", "done"} /\ base[q] # 0
        /\ \A p \in Groups(q) : plan[q][p] \in Versions /\ origin[TagOf(q, p)] = base[q]
    BY <1>2 DEF DoneInv, Done
  <2>2. mods'[q] = mods[q] /\ plan'[q] = plan[q] /\ base'[q] = base[q]
    BY <2>1, PlanFrozen DEF Early
  <2>3. ASSUME NEW p \in Groups(q) PROVE origin'[TagOf(q, p)] = base[q]
    <3>1. TagOf(q, p) \in Tags
      BY <2>1, GroupsArePrefixes DEF TagOf, Tags
    <3> QED BY <2>1, <3>1, TagsOfOriginStay
  <2> QED BY <1>2, <2>1, <2>2, <2>3 DEF Done, Groups, TagOf
<1> QED BY <1>1, <1>2, SuccessStep

\* A release that reported success has its tags on origin, at the commit it was
\* built from, for ever: no push of another run moves a tag, no cleanup deletes it.
THEOREM DoneStaysReleased == Spec => []DoneIsReleased
<1>1. Init => DoneInv
  BY DEF Init, DoneInv, Done
<1>2. TypeOK /\ TagInv /\ DoneInv /\ [Next]_vars => DoneInv'
  BY DoneStep
<1>3. DoneInv => DoneIsReleased
  BY DEF DoneInv, Done, DoneIsReleased
<1> QED BY <1>1, <1>2, <1>3, TypeCorrect, TagInvariant, PTL DEF Spec

-----------------------------------------------------------------------------
\* Nobody loses track of a tag.

\* A run keeps accounting for its tags until it deletes them or they are pushed.
LEMMA StillLeft ==
  ASSUME TypeOK, TagInv, [Next]_vars, NEW q \in Runs, NEW c \in Clones, NEW t \in Tags,
         LeftBy(q, c, t), local'[c][t] # 0
  PROVE  LeftBy(q, c, t)' \/ origin'[t] = local'[c][t]
<1> USE DEF TypeOK
<1> DEFINE Excused(p) == \/ Owning(q)
                        \/ outcome[q] \in {"tagging failed", "interrupted"}
                        \/ p \in undeleted[q]
<1>0. PICK p \in tagged[q] : t = TagOf(q, p) /\ Excused(p)
  BY DEF LeftBy
<1>1. ~Early(q) /\ clone[q] = c
  BY <1>0 DEF TagInv, Fresh, LeftBy
<1>2. ASSUME clone'[q] = clone[q], p \in tagged'[q], Excused(p)' PROVE LeftBy(q, c, t)'
  <2>1. plan'[q] = plan[q]
    BY <1>1, PlanFrozen
  <2>2. TagOf(q, p)' = t
    BY <1>0, <2>1 DEF TagOf
  <2> QED BY <1>1, <1>2, <2>2 DEF LeftBy
<1> HIDE DEF Excused
<1>3. ASSUME NEW r \in Runs, Start(r) \/ ResolveGroup(r) \/ ResolveConflict(r)
                             \/ CreateWorktree(r) \/ AddWorktree(r) \/ AddWorktreeFails(r)
      PROVE  LeftBy(q, c, t)'
  <2>1. /\ Early(r) /\ UNCHANGED <<clone, tagged, undeleted>>
        /\ \A s \in Runs : s # r => pc'[s] = pc[s] /\ outcome'[s] = outcome[s]
    BY <1>3 DEF Start, ResolveGroup, ResolveConflict, CreateWorktree, AddWorktree,
                AddWorktreeFails, planVars, Early
  <2> QED BY <1>0, <1>1, <1>2, <2>1 DEF Excused, Owning
<1>4. ASSUME NEW r \in Runs, CreateTag(r) PROVE LeftBy(q, c, t)'
  <2>1. PICK g \in Untagged(r) :
          /\ tagged' = [tagged EXCEPT ![r] = @ \cup {g}]
          /\ Goto(r, IF Untagged(r) = {g} THEN BuildOrPush(todo[r]) ELSE "tag")
    BY <1>4 DEF CreateTag
  <2>2. p \in tagged'[q]
    BY <1>0, <2>1
  <2>3. pc'[r] \in {"tag", "build", "push"} /\ \A s \in Runs : s # r => pc'[s] = pc[s]
    BY <2>1 DEF BuildOrPush, Goto
  <2>4. UNCHANGED <<clone, outcome, undeleted>>
    BY <1>4 DEF CreateTag, planVars
  <2> QED BY <1>0, <1>2, <2>2, <2>3, <2>4 DEF Excused, Owning
<1>5. ASSUME NEW r \in Runs, RunTarget(r) PROVE LeftBy(q, c, t)'
  <2>1. /\ pc'[r] \in {"build", "push"} /\ UNCHANGED <<clone, outcome, tagged, undeleted>>
        /\ \A s \in Runs : s # r => pc'[s] = pc[s]
    BY <1>5 DEF RunTarget, planVars, BuildOrPush
  <2> QED BY <1>0, <1>2, <2>1 DEF Excused, Owning
<1>6. ASSUME NEW r \in Runs, RunTargetFails(r) \/ PushTagsFails(r) \/ Hang(r)
      PROVE  LeftBy(q, c, t)'
  <2>1. PICK label \in {"untag", "hung"} : pc' = [pc EXCEPT ![r] = label]
    BY <1>6, Zenon DEF RunTargetFails, PushTagsFails, Hang, Goto
  <2>2. /\ UNCHANGED <<clone, tagged, undeleted>>
        /\ \A s \in Runs : s # r => outcome'[s] = outcome[s]
    BY <1>6, ZenonT(40) DEF RunTargetFails, PushTagsFails, Hang, planVars
  <2> QED BY <1>0, <1>2, <2>1, <2>2 DEF Excused, Owning
<1>7. ASSUME NEW r \in Runs, CreateTagFails(r) \/ Interrupt(r) \/ InterruptOutside(r) \/ Kill(r)
      PROVE  LeftBy(q, c, t)'
  <2>1. PICK label \in PCs, end \in {"tagging failed", "interrupted"} :
          pc' = [pc EXCEPT ![r] = label] /\ outcome' = [outcome EXCEPT ![r] = end]
    BY <1>7, Zenon DEF CreateTagFails, Interrupt, InterruptOutside, Kill, Goto, PCs
  <2>2. UNCHANGED <<clone, tagged, undeleted>>
    BY <1>7 DEF CreateTagFails, Interrupt, InterruptOutside, Kill, planVars
  <2> QED BY <1>0, <1>2, <2>1, <2>2 DEF Excused, Owning
<1>8. ASSUME NEW r \in Runs, RemoveWorktree(r) PROVE LeftBy(q, c, t)'
  <2>1. /\ pc[r] = "remove" /\ UNCHANGED <<clone, tagged, undeleted, outcome>>
        /\ \A s \in Runs : s # r => pc'[s] = pc[s]
    BY <1>8 DEF RemoveWorktree, planVars
  <2> QED BY <1>0, <1>2, <2>1 DEF Excused, Owning
<1>9. ASSUME NEW r \in Runs, PushTags(r) PROVE LeftBy(q, c, t)' \/ origin'[t] = local'[c][t]
  <2>1. /\ pc[r] = "push" /\ origin' = OriginAfterPush(r, Groups(r))
        /\ UNCHANGED <<clone, tagged, undeleted, local>>
        /\ \A s \in Runs : s # r => pc'[s] = pc[s] /\ outcome'[s] = outcome[s]
    BY <1>9 DEF PushTags, planVars
  <2>2. CASE q # r
    BY <1>0, <1>2, <2>1, <2>2 DEF Excused, Owning
  <2>3. CASE q = r
    <3>1. p \in Groups(r)
      BY <1>0, <2>1, <2>3 DEF TagInv, HeldTags, Owning
    <3>2. origin'[t] = local[c][t]
      BY <1>0, <1>1, <2>1, <2>3, <3>1 DEF OriginAfterPush
    <3> QED BY <2>1, <3>2
  <2> QED BY <2>2, <2>3
<1>10. ASSUME NEW r \in Runs, DeleteTag(r) PROVE LeftBy(q, c, t)'
  <2>1. PICK g \in ToDelete(r) :
          /\ \/ /\ local' = [local EXCEPT ![clone[r]][TagOf(r, g)] = 0]
                /\ tagged' = [tagged EXCEPT ![r] = @ \ {g}]
                /\ UNCHANGED undeleted
             \/ /\ undeleted' = [undeleted EXCEPT ![r] = @ \cup {g}]
                /\ UNCHANGED <<local, tagged>>
          /\ pc' = [pc EXCEPT ![r] = IF ToDelete(r) = {g} THEN "remove" ELSE "untag"]
    BY <1>10 DEF DeleteTag, Goto
  <2>2. pc[r] = "untag" /\ UNCHANGED <<clone, outcome>>
    BY <1>10 DEF DeleteTag, planVars
  <2>3. CASE q # r
    BY <1>0, <1>2, <2>1, <2>2, <2>3 DEF Excused, Owning
  <2>4. CASE q = r
    <3>1. p = g => p \in undeleted'[q] /\ p \in tagged'[q]
      <4>1. local \in [Clones -> [Tags -> Commits]] /\ clone[r] = c
        BY <1>1, <2>4
      <4>2. t = TagOf(r, g) /\ local' = [local EXCEPT ![clone[r]][TagOf(r, g)] = 0]
              => local'[c][t] = 0
        BY <4>1
      <4> QED BY <1>0, <2>1, <2>4, <4>2
    <3>2. p # g => p \in tagged'[q] /\ undeleted[q] \subseteq undeleted'[q]
      BY <1>0, <2>1, <2>4
    <3>3. p # g => pc'[q] = "untag" \/ p \in undeleted[q]
      BY <1>0, <2>1, <2>4 DEF ToDelete
    <3> QED BY <1>0, <1>2, <2>2, <3>1, <3>2, <3>3 DEF Excused, Owning
  <2> QED BY <2>3, <2>4
<1>11. CASE Commit \/ NextDay \/ (\E d \in Clones : Fetch(d) \/ FastForward(d)) \/ UNCHANGED vars
  <2>1. UNCHANGED <<pc, clone, tagged, undeleted, outcome>>
    BY <1>11 DEF Commit, NextDay, Fetch, FastForward, vars, planVars
  <2> QED BY <1>0, <1>2, <2>1 DEF Excused, Owning
<1> QED
  BY <1>3, <1>4, <1>5, <1>6, <1>7, <1>8, <1>9, <1>10, <1>11 DEF Next, RunStep, Stop

\* A tag that is new in a clone is there by a run that owns it, or by a fetch.
LEMMA NewLocalTag ==
  ASSUME TypeOK, TagInv, [Next]_vars, NEW c \in Clones, NEW t \in Tags, local'[c][t] # local[c][t]
  PROVE  \/ local'[c][t] = 0
         \/ origin'[t] = local'[c][t]
         \/ \E r \in Runs : LeftBy(r, c, t)'
<1>0. local \in [Clones -> [Tags -> Commits]]
  BY DEF TypeOK
<1>1. ASSUME NEW r \in Runs,
             Start(r) \/ ResolveGroup(r) \/ ResolveConflict(r) \/ CreateWorktree(r)
             \/ AddWorktree(r) \/ AddWorktreeFails(r) \/ CreateTagFails(r) \/ RunTarget(r)
             \/ RunTargetFails(r) \/ PushTags(r) \/ PushTagsFails(r) \/ RemoveWorktree(r)
             \/ Stop(r)
      PROVE  UNCHANGED local
  BY <1>1 DEF Start, ResolveGroup, ResolveConflict, CreateWorktree, AddWorktree,
              AddWorktreeFails, CreateTagFails, RunTarget, RunTargetFails, PushTags,
              PushTagsFails, RemoveWorktree, Stop, Interrupt, InterruptOutside, Kill, Hang
<1>2. ASSUME NEW r \in Runs, CreateTag(r) PROVE LeftBy(r, c, t)'
  <2>1. PICK p \in Untagged(r) :
          /\ local' = [local EXCEPT ![clone[r]][TagOf(r, p)] = base[r]]
          /\ tagged' = [tagged EXCEPT ![r] = @ \cup {p}]
          /\ Goto(r, IF Untagged(r) = {p} THEN BuildOrPush(todo[r]) ELSE "tag")
    BY <1>2 DEF CreateTag
  <2>2. c = clone[r] /\ t = TagOf(r, p)
    BY <1>0, <2>1
  <2>3. pc \in [Runs -> PCs] /\ tagged \in [Runs -> SUBSET Prefixes]
    BY DEF TypeOK
  <2>4. p \in Prefixes
    BY GroupsArePrefixes DEF Untagged
  <2>5. pc'[r] \in {"tag", "build", "push"} /\ p \in tagged'[r]
    BY <2>1, <2>3, <2>4 DEF BuildOrPush, Goto
  <2>6. UNCHANGED <<clone, plan>>
    BY <1>2 DEF CreateTag, planVars
  <2>7. clone'[r] = c /\ TagOf(r, p)' = t
    BY <2>2, <2>6 DEF TagOf
  <2> QED BY <2>5, <2>7 DEF LeftBy, Owning
<1>3. ASSUME NEW r \in Runs, DeleteTag(r) PROVE local'[c][t] = 0
  <2>1. PICK p \in ToDelete(r) :
          local' = [local EXCEPT ![clone[r]][TagOf(r, p)] = 0] \/ UNCHANGED local
    BY <1>3 DEF DeleteTag
  <2>2. local' # local
    OBVIOUS
  <2> QED BY <1>0, <2>1, <2>2
<1>4. ASSUME NEW d \in Clones, Fetch(d) PROVE origin'[t] = local'[c][t]
  BY <1>0, <1>4 DEF Fetch
<1>5. CASE Commit \/ NextDay \/ (\E d \in Clones : FastForward(d)) \/ UNCHANGED vars
  BY <1>5 DEF Commit, NextDay, FastForward, vars
<1> QED BY <1>1, <1>2, <1>3, <1>4, <1>5 DEF Next, RunStep

LEMMA LocalStep == TypeOK /\ TagInv /\ LocalTagsAccounted /\ [Next]_vars => LocalTagsAccounted'
<1> SUFFICES ASSUME TypeOK, TagInv, LocalTagsAccounted, [Next]_vars,
                    NEW c \in Clones, NEW t \in Tags, local'[c][t] # 0
             PROVE  origin'[t] = local'[c][t] \/ \E r \in Runs : LeftBy(r, c, t)'
  BY DEF LocalTagsAccounted, Tags
<1>1. CASE local'[c][t] # local[c][t]
  BY <1>1, NewLocalTag
<1>2. CASE local'[c][t] = local[c][t] /\ origin[t] = local[c][t]
  BY <1>2, TagsOfOriginStay
<1>3. CASE \E r \in Runs : LeftBy(r, c, t)
  BY <1>3, StillLeft
<1> QED BY <1>1, <1>2, <1>3 DEF LocalTagsAccounted

\* A tag of a clone that is not on origin has a run that accounts for it: it is
\* going to push or delete it, was stopped, failed while it was tagging, or asked
\* git to delete it and git did not.
THEOREM LocalTagsHaveOwners == Spec => []LocalTagsAccounted
<1>1. Init => LocalTagsAccounted
  BY DEF Init, LocalTagsAccounted
<1>2. TypeOK /\ TagInv /\ LocalTagsAccounted /\ [Next]_vars => LocalTagsAccounted'
  BY LocalStep
<1> QED BY <1>1, <1>2, TypeCorrect, TagInvariant, PTL DEF Spec
-----------------------------------------------------------------------------
\* Releases implement the ledger.

\* A run works on a commit that is on the branch, and is asked for once.
BranchInv ==
  /\ \A c \in Clones : tracking[c] <= tip
  /\ \A r \in Runs : base[r] <= tip
  /\ \A r \in Runs : pc[r] = "idle" => mods[r] = {}

LEMMA BranchInit == Init => BranchInv
BY DEF Init, BranchInv

LEMMA CommitNumbers ==
  ASSUME TypeOK
  PROVE  /\ tip \in Nat /\ tip >= 1
         /\ tracking \in [Clones -> Nat]
         /\ base \in [Runs -> Nat]
<1>1. 1 .. MaxCommit \subseteq Nat /\ Commits \subseteq Nat
  BY BoundAssumption DEF Commits
<1>2. tip \in Nat /\ tip >= 1
  <2>1. tip \in 1 .. MaxCommit
    BY DEF TypeOK
  <2> QED BY <2>1, BoundAssumption
<1>3. tracking \in [Clones -> 1 .. MaxCommit] /\ base \in [Runs -> Commits]
  BY DEF TypeOK
<1> QED BY <1>1, <1>2, <1>3

\* What leaves the branch, the work and the selections alone keeps the invariant.
LEMMA BranchQuiet ==
  ASSUME BranchInv, UNCHANGED <<tip, tracking, base, mods>>,
         \A r \in Runs : pc'[r] = "idle" => pc[r] = "idle"
  PROVE  BranchInv'
BY DEF BranchInv

LEMMA BranchStep == TypeOK /\ BranchInv /\ [Next]_vars => BranchInv'
<1> SUFFICES ASSUME TypeOK, BranchInv, [Next]_vars PROVE BranchInv'
  OBVIOUS
<1>0. /\ tip \in Nat /\ tracking \in [Clones -> Nat] /\ base \in [Runs -> Nat]
      /\ pc \in [Runs -> PCs] /\ clone \in [Runs -> Clones]
      /\ mods \in [Runs -> SUBSET Modules]
  BY CommitNumbers DEF TypeOK
<1>1. ASSUME NEW r \in Runs, Start(r) PROVE BranchInv'
  <2>1. PICK M \in SUBSET Modules : mods' = [mods EXCEPT ![r] = M]
    <3>1. ScopeChoices \subseteq SUBSET Modules
      BY DEF ScopeChoices
    <3>2. \E M \in ScopeChoices : mods' = [mods EXCEPT ![r] = M]
      BY <1>1, Zenon DEF Start
    <3> QED BY <3>1, <3>2
  <2>2. UNCHANGED <<tip, tracking, base>> /\ pc' = [pc EXCEPT ![r] = "plan"]
    BY <1>1 DEF Start, envVars
  <2> QED BY <1>0, <2>1, <2>2 DEF BranchInv
<1>2. ASSUME NEW r \in Runs, AddWorktree(r) PROVE BranchInv'
  <2>1. /\ UNCHANGED <<tip, tracking, mods>> /\ pc' = [pc EXCEPT ![r] = "tag"]
        /\ base' = [base EXCEPT ![r] = tracking[clone[r]]]
    BY <1>2 DEF AddWorktree, envVars, planVars
  <2>2. \A q \in Runs : base'[q] <= tip'
    BY <1>0, <2>1 DEF BranchInv
  <2> QED BY <1>0, <2>1, <2>2 DEF BranchInv
<1>3. ASSUME NEW r \in Runs,
             ResolveGroup(r) \/ ResolveConflict(r) \/ CreateWorktree(r) \/ AddWorktreeFails(r)
             \/ CreateTag(r) \/ CreateTagFails(r) \/ RunTarget(r) \/ RunTargetFails(r)
      PROVE  BranchInv'
  <2>1. UNCHANGED <<tip, tracking, base, mods>>
    BY <1>3 DEF ResolveGroup, ResolveConflict, CreateWorktree, AddWorktreeFails, CreateTag,
                CreateTagFails, RunTarget, RunTargetFails, envVars, planVars
  <2>2. \A q \in Runs : pc'[q] = "idle" => pc[q] = "idle"
    BY <1>0, <1>3 DEF ResolveGroup, ResolveConflict, CreateWorktree, AddWorktreeFails,
                      CreateTag, CreateTagFails, RunTarget, RunTargetFails, BuildOrPush
  <2> QED BY <2>1, <2>2, BranchQuiet
<1>4. ASSUME NEW r \in Runs,
             PushTags(r) \/ PushTagsFails(r) \/ DeleteTag(r) \/ RemoveWorktree(r) \/ Stop(r)
      PROVE  BranchInv'
  <2>1. UNCHANGED <<tip, tracking, base, mods>>
    BY <1>4 DEF PushTags, PushTagsFails, DeleteTag, RemoveWorktree, Stop, Interrupt,
                InterruptOutside, Kill, Hang, envVars, planVars
  <2>2. PICK label \in PCs \ {"idle"} : pc' = [pc EXCEPT ![r] = label]
    BY <1>4, Zenon DEF PushTags, PushTagsFails, DeleteTag, RemoveWorktree, Stop, Interrupt,
                       InterruptOutside, Kill, Hang, PCs
  <2>3. \A q \in Runs : pc'[q] = "idle" => pc[q] = "idle"
    BY <1>0, <2>2
  <2> QED BY <2>1, <2>3, BranchQuiet
<1>5. CASE Commit
  <2>1. tip' = tip + 1 /\ UNCHANGED <<tracking, base, pc, mods>>
    BY <1>5 DEF Commit, planVars
  <2>2. (\A c \in Clones : tracking'[c] <= tip') /\ (\A r \in Runs : base'[r] <= tip')
    BY <1>0, <2>1 DEF BranchInv
  <2> QED BY <2>1, <2>2 DEF BranchInv
<1>6. CASE \E c \in Clones : Fetch(c)
  <2>1. PICK c \in Clones : tracking' = [tracking EXCEPT ![c] = tip]
    BY <1>6 DEF Fetch
  <2>2. UNCHANGED <<tip, base, pc, mods>>
    BY <1>6 DEF Fetch, planVars
  <2>3. \A d \in Clones : tracking'[d] <= tip'
    BY <1>0, <2>1, <2>2 DEF BranchInv
  <2> QED BY <2>2, <2>3 DEF BranchInv
<1>7. CASE NextDay \/ (\E c \in Clones : FastForward(c)) \/ UNCHANGED vars
  BY <1>7, BranchQuiet DEF NextDay, FastForward, planVars, vars
<1> QED BY <1>1, <1>2, <1>3, <1>4, <1>5, <1>6, <1>7 DEF Next, RunStep

\* The commit of a run that owns tags is one of the branch.
LEMMA OnBranch ==
  ASSUME TypeOK, TagInv, BranchInv, NEW r \in Runs, Owning(r)
  PROVE  base[r] \in 1 .. tip
<1>1. base[r] # 0 /\ base[r] <= tip
  BY DEF TagInv, Planned, BranchInv
<1> QED BY <1>1, CommitNumbers

\* What a run has left to do is part of what it selected.
TodoInv == \A r \in Runs : todo[r] \subseteq Selected(r)

\* Only a run that starts is asked for something.
LEMMA SelectionStays ==
  ASSUME [Next]_vars, \A r \in Runs : ~Start(r)
  PROVE  UNCHANGED <<mods, include>>
<1>1. ASSUME NEW r \in Runs, RunStep(r) PROVE UNCHANGED <<mods, include>>
  BY <1>1 DEF RunStep, ResolveGroup, ResolveConflict, CreateWorktree, AddWorktree,
              AddWorktreeFails, CreateTag, CreateTagFails, RunTarget, RunTargetFails,
              PushTags, PushTagsFails, DeleteTag, RemoveWorktree, planVars
<1>2. ASSUME NEW r \in Runs, Stop(r) PROVE UNCHANGED <<mods, include>>
  BY <1>2 DEF Stop, Interrupt, InterruptOutside, Kill, Hang, planVars
<1>3. CASE Commit \/ NextDay \/ (\E c \in Clones : Fetch(c) \/ FastForward(c))
           \/ UNCHANGED vars
  BY <1>3 DEF Commit, NextDay, Fetch, FastForward, planVars, vars
<1> QED BY <1>1, <1>2, <1>3 DEF Next

LEMMA TodoStep == TypeOK /\ TagInv /\ TodoInv /\ [Next]_vars => TodoInv'
<1> SUFFICES ASSUME TypeOK, TagInv, TodoInv, [Next]_vars, NEW q \in Runs
             PROVE  (todo[q] \subseteq Selected(q))'
  BY DEF TodoInv
<1>1. CASE Early(q)'
  BY <1>1, TagStep DEF TagInv, Fresh
<1>2. CASE ~Early(q)
  BY <1>2, PlanFrozen DEF TodoInv, Selected
<1>3. CASE Early(q) /\ ~Early(q)'
  <2>1. ASSUME NEW r \in Runs, Start(r) PROVE FALSE
    BY <1>3, <2>1 DEF Start, Early, TypeOK
  <2>2. UNCHANGED <<mods, include>>
    BY <2>1, SelectionStays
  <2>3. todo'[q] \subseteq todo[q]
    <3>1. ASSUME NEW r \in Runs, RunTarget(r) PROVE todo'[q] \subseteq todo[q]
      <4>1. PICK t \in todo[r] : todo' = [todo EXCEPT ![r] = @ \ {t}]
        BY <3>1 DEF RunTarget
      <4>2. todo \in [Runs -> SUBSET Targets]
        BY DEF TypeOK
      <4> QED BY <4>1, <4>2
    <3>2. ASSUME NEW r \in Runs,
                 ResolveGroup(r) \/ ResolveConflict(r) \/ CreateWorktree(r)
                 \/ AddWorktree(r) \/ AddWorktreeFails(r) \/ CreateTag(r)
                 \/ CreateTagFails(r) \/ RunTargetFails(r)
          PROVE  UNCHANGED todo
      BY <3>2 DEF ResolveGroup, ResolveConflict, CreateWorktree, AddWorktree,
                  AddWorktreeFails, CreateTag, CreateTagFails, RunTargetFails
    <3>3. ASSUME NEW r \in Runs, PushTags(r) \/ PushTagsFails(r) \/ DeleteTag(r)
                                 \/ RemoveWorktree(r) \/ Stop(r)
          PROVE  UNCHANGED todo
      BY <3>3 DEF PushTags, PushTagsFails, DeleteTag, RemoveWorktree, Stop, Interrupt,
                  InterruptOutside, Kill, Hang
    <3>4. CASE Commit \/ NextDay \/ (\E c \in Clones : Fetch(c) \/ FastForward(c))
               \/ UNCHANGED vars
      BY <3>4 DEF Commit, NextDay, Fetch, FastForward, vars
    <3> QED BY <2>1, <3>1, <3>2, <3>3, <3>4 DEF Next, RunStep
  <2> QED BY <2>2, <2>3 DEF TodoInv, Selected
<1> QED BY <1>1, <1>2, <1>3

LEMMA TodoInit == Init => TodoInv
BY DEF Init, TodoInv, Selected

\* An upload of a run is one of the ledger's.
LEMMA UploadIsUpload ==
  ASSUME TypeOK, TagInv, TodoInv, BranchInv, NEW r \in Runs, pc[r] = "build", NEW t \in todo[r],
         UNCHANGED <<tip, origin, mods, include>>, store' = Stored(r, t)
  PROVE  [Ledger!Next]_(Ledger!ledger)
<1>1. CASE store' = store
  BY <1>1 DEF Ledger!ledger
<1>2. CASE store' # store
  <2>1. ~Refused(r, t) /\ store' = [store EXCEPT ![t][VersionOf(r, t)] = @ \cup {base[r]}]
    BY <1>2 DEF Stored
  <2>2. base[r] \in 1 .. tip
    BY OnBranch DEF Owning
  <2>3. Unplanned(r) = {}
    BY VersionAssumption DEF TagInv, Planned, Owning, Unplanned
  <2>4. t \in Targets /\ VersionOf(r, t) \in Versions
    BY <2>3, VersionPlanned DEF TodoInv, Selected
  <2>5. t.track \in Immutable => store[t][VersionOf(r, t)] = {}
    BY <2>1 DEF Refused
  <2> QED BY <1>2, <2>1, <2>2, <2>4, <2>5 DEF Ledger!Upload, Ledger!Next
<1> QED BY <1>1, <1>2

\* A push of a run is one of the ledger's: what it was asked for is published.
LEMMA PushIsPush ==
  ASSUME TypeOK, TagInv, ReleaseInv, BranchInv, NEW r \in Runs, pc[r] = "push",
         UNCHANGED <<tip, store, mods, include>>,
         NEW S \in SUBSET Accepted(r), origin' = OriginAfterPush(r, S)
  PROVE  [Ledger!Next]_(Ledger!ledger)
<1> DEFINE version == [p \in Groups(r) |-> plan[r][p]]
           new == {p \in S : origin[TagOf(r, p)] = 0}
<1>1. CASE origin' = origin
  BY <1>1 DEF Ledger!ledger
<1>2. CASE origin' # origin
  <2>0. S \subseteq Groups(r)
    BY DEF Accepted
  <2>1. /\ \A p \in Groups(r) : local[clone[r]][TagOf(r, p)] = base[r]
        /\ \A p \in Groups(r) : plan[r][p] \in Versions
        /\ base[r] # 0
    BY DEF TagInv, AllTagged, HeldTags, Planned, Owning, Publishing
  <2>2. base[r] \in 1 .. tip
    BY OnBranch DEF Owning
  <2>3. Ledger!PrefixesOf(mods[r]) = Groups(r)
    BY DEF Ledger!PrefixesOf, Groups
  <2>4. version \in [Ledger!PrefixesOf(mods[r]) -> Versions]
    BY <2>1, <2>3
  <2>5. new \in SUBSET Ledger!PrefixesOf(mods[r])
    BY <2>0, <2>3
  <2>6. Ledger!Published(r, version, base[r])
    <3>1. Completed(r)
      BY DEF ReleaseInv, Uploaded, PushReady, Completed, Owning
    <3>2. ASSUME NEW t \in Targets, t.mod \in mods[r], t.track \in include[r]
          PROVE  /\ base[r] \in store[t][version[PrefixOf[t.mod]]]
                 /\ t.track \in Immutable => store[t][version[PrefixOf[t.mod]]] = {base[r]}
      <4>1. t \in Selected(r) /\ PrefixOf[t.mod] \in Groups(r)
        BY <3>2 DEF Selected, Groups
      <4>2. version[PrefixOf[t.mod]] = VersionOf(r, t)
        BY <4>1 DEF VersionOf
      <4> QED BY <3>1, <4>1, <4>2 DEF Completed, Holds
    <3> QED BY <3>2 DEF Ledger!Published
  <2>7. \A p \in new : version[p] = plan[r][p] /\ origin[<<p, version[p]>>] = 0
    BY <2>0 DEF TagOf
  <2>8. origin' = Ledger!WithTags(new, version, base[r])
    <3>1. ASSUME NEW t \in Tags
          PROVE  OriginAfterPush(r, S)[t] =
                   IF \E p \in new : t = <<p, version[p]>> THEN base[r] ELSE origin[t]
      <4>1. CASE \E p \in new : t = <<p, version[p]>>
        <5>1. PICK p \in new : t = TagOf(r, p)
          BY <2>7, <4>1 DEF TagOf
        <5>2. p \in S /\ p \in Groups(r)
          BY <2>0
        <5> QED BY <2>1, <4>1, <5>1, <5>2 DEF OriginAfterPush
      <4>2. CASE ~\E p \in new : t = <<p, version[p]>>
        <5>1. CASE \E p \in S : t = TagOf(r, p)
          <6>1. PICK p \in S : t = TagOf(r, p)
            BY <5>1
          <6>2. p \notin new
            BY <2>7, <4>2, <6>1 DEF TagOf
          <6>3. origin[t] = local[clone[r]][t]
            BY <6>1, <6>2 DEF Accepted, Pushed
          <6> QED BY <4>2, <5>1, <6>3 DEF OriginAfterPush
        <5>2. CASE ~\E p \in S : t = TagOf(r, p)
          BY <4>2, <5>2 DEF OriginAfterPush
        <5> QED BY <5>1, <5>2
      <4> QED BY <4>1, <4>2
    <3> QED BY <3>1 DEF OriginAfterPush, Ledger!WithTags, Ledger!Tags, Tags
  <2>9. \E f \in [Ledger!PrefixesOf(mods[r]) -> Versions], c \in 1 .. tip :
        \E N \in SUBSET Ledger!PrefixesOf(mods[r]) :
          /\ Ledger!Published(r, f, c)
          /\ \A p \in N : origin[<<p, f[p]>>] = 0
          /\ origin' = Ledger!WithTags(N, f, c)
    BY <2>2, <2>4, <2>5, <2>6, <2>7, <2>8
  <2>10. Ledger!Push(r)
    BY <1>2, <2>9 DEF Ledger!Push
  <2> QED BY <2>10 DEF Ledger!Next
<1> QED BY <1>1, <1>2

\* A run is asked for once.
LEMMA StartIsAsk ==
  ASSUME TypeOK, BranchInv, NEW r \in Runs, Start(r)
  PROVE  [Ledger!Next]_(Ledger!ledger)
<1>1. PICK M \in ScopeChoices, I \in Includes :
        /\ M # {}
        /\ mods' = [mods EXCEPT ![r] = M] /\ include' = [include EXCEPT ![r] = I]
  BY Zenon DEF Start
<1>2. mods[r] = {} /\ UNCHANGED <<tip, origin, store>>
  BY DEF Start, BranchInv, envVars
<1>3. mods'[r] = M
  BY <1>1 DEF TypeOK
<1> QED BY <1>1, <1>2, <1>3 DEF Ledger!Ask, Ledger!Next

LEMMA LedgerInit == Init => Ledger!Init
BY DEF Init, Ledger!Init, Ledger!Tags, Tags

LEMMA LedgerStep ==
  TypeOK /\ TagInv /\ TodoInv /\ ReleaseInv /\ BranchInv /\ [Next]_vars => [Ledger!Next]_(Ledger!ledger)
<1> SUFFICES ASSUME TypeOK, TagInv, TodoInv, ReleaseInv, BranchInv, [Next]_vars,
                    \A r \in Runs : ~Start(r)
             PROVE  [Ledger!Next]_(Ledger!ledger)
  BY StartIsAsk
<1>0. UNCHANGED <<mods, include>>
  BY SelectionStays
<1>1. ASSUME UNCHANGED <<tip, origin, store>> PROVE [Ledger!Next]_(Ledger!ledger)
  BY <1>0, <1>1 DEF Ledger!ledger
<1>2. ASSUME NEW r \in Runs, pc[r] = "build", NEW t \in todo[r], UNCHANGED <<tip, origin>>,
             store' = Stored(r, t)
      PROVE  [Ledger!Next]_(Ledger!ledger)
  BY <1>0, <1>2, UploadIsUpload
<1>3. ASSUME NEW r \in Runs,
             ResolveGroup(r) \/ ResolveConflict(r) \/ CreateWorktree(r) \/ AddWorktree(r)
             \/ AddWorktreeFails(r) \/ CreateTag(r) \/ CreateTagFails(r) \/ DeleteTag(r)
             \/ RemoveWorktree(r) \/ InterruptOutside(r)
      PROVE  UNCHANGED <<tip, origin, store>>
  BY <1>3 DEF ResolveGroup, ResolveConflict, CreateWorktree, AddWorktree, AddWorktreeFails,
              CreateTag, CreateTagFails, DeleteTag, RemoveWorktree, InterruptOutside, envVars
<1>4. ASSUME NEW r \in Runs, RunTarget(r) \/ RunTargetFails(r)
      PROVE  [Ledger!Next]_(Ledger!ledger)
  <2>1. pc[r] = "build" /\ UNCHANGED <<tip, origin>>
    BY <1>4 DEF RunTarget, RunTargetFails, envVars
  <2>2. UNCHANGED store \/ \E t \in todo[r] : store' = Stored(r, t)
    BY <1>4 DEF RunTarget, RunTargetFails
  <2> QED BY <1>1, <1>2, <2>1, <2>2
<1>5. ASSUME NEW r \in Runs, PushTags(r) \/ PushTagsFails(r)
      PROVE  [Ledger!Next]_(Ledger!ledger)
  <2>1. /\ pc[r] = "push" /\ UNCHANGED <<tip, store>>
        /\ \E S \in SUBSET Accepted(r) : origin' = OriginAfterPush(r, S)
    BY <1>5 DEF PushTags, PushTagsFails, envVars
  <2> QED BY <1>0, <2>1, PushIsPush
<1>6. ASSUME NEW r \in Runs, Interrupt(r) \/ Kill(r) \/ Hang(r)
      PROVE  [Ledger!Next]_(Ledger!ledger)
  <2>1. InFlight(r) /\ UNCHANGED tip
    BY <1>6 DEF Interrupt, Kill, Hang, envVars
  <2>2. CASE UNCHANGED <<origin, store>>
    BY <1>1, <2>1, <2>2
  <2>3. CASE /\ pc[r] = "build"
             /\ \E t \in todo[r] : FirstTarget(t, todo[r]) /\ store' = Stored(r, t)
             /\ UNCHANGED origin
    BY <1>2, <2>1, <2>3
  <2>4. CASE /\ pc[r] = "push"
             /\ \E S \in SUBSET Accepted(r) : origin' = OriginAfterPush(r, S)
             /\ UNCHANGED store
    BY <1>0, <2>1, <2>4, PushIsPush
  <2> QED BY <2>1, <2>2, <2>3, <2>4 DEF InFlight
<1>7. CASE Commit
  BY <1>0, <1>7 DEF Commit, Ledger!Land, Ledger!Next
<1>8. CASE NextDay \/ (\E c \in Clones : Fetch(c) \/ FastForward(c)) \/ UNCHANGED vars
  BY <1>1, <1>8 DEF NextDay, Fetch, FastForward, vars
<1> QED BY <1>1, <1>3, <1>4, <1>5, <1>6, <1>7, <1>8 DEF Next, RunStep, Stop

\* Releases implement the ledger: nothing immutable is replaced, no tag moves or goes
\* away, and new tags appear for what a release was asked for, after all of it was
\* published from one commit of the branch.
THEOREM ReleasesImplementLedger == Spec => ImplementsLedger
<1>1. TypeOK /\ TagInv /\ ReleaseInv /\ [Next]_vars => ReleaseInv'
  BY ReleaseStep
<1>2. TypeOK /\ BranchInv /\ [Next]_vars => BranchInv'
  BY BranchStep
<1>3. TypeOK /\ TagInv /\ TodoInv /\ ReleaseInv /\ BranchInv /\ [Next]_vars
        => [Ledger!Next]_(Ledger!ledger)
  BY LedgerStep
<1>4. TypeOK /\ TagInv /\ TodoInv /\ [Next]_vars => TodoInv'
  BY TodoStep
<1> QED
  BY <1>1, <1>2, <1>3, <1>4, LedgerInit, BranchInit, TodoInit, ReleaseInit, TypeCorrect, TagInvariant, PTL
     DEF Spec, ImplementsLedger, Ledger!Spec
=============================================================================
