----------------------------- MODULE MintRelease -----------------------------
(***************************************************************************)
(* Release mode of mint, the publish orchestrator (tools/publish/src/mint).*)
(*                                                                         *)
(* Several runs of mint work over clones of one origin repository.  A run  *)
(* reads the tags of its clone to choose one version for each version      *)
(* scope (build_plan), then tags the commit its worktree is at, runs the   *)
(* publish targets against the registries and pushes the tags              *)
(* (_execute_release).  The worktree shares the tags of its clone, so two  *)
(* runs in one clone share them too.                                       *)
(*                                                                         *)
(* History is a line of commits 1 .. tip.  Commit 0 stands for "absent".   *)
(***************************************************************************)
EXTENDS MintVersion, FiniteSets

CONSTANTS
    Clones,      \* working copies that mint is run from
    Runs,        \* executions of mint --mode release, one use each
    Prefixes,    \* tag prefixes, numbered in the order their groups are planned
    Modules,     \* publishable modules, numbered in configuration order
    PrefixOf,    \* [Modules -> Prefixes], from .publish.toml
    HasImage,    \* modules for which bazel query finds a :publish_image target
    Immutable,   \* tracks whose registry refuses to replace a version
    Versions,    \* the versions a behaviour may reach (a bound)
    Overrides,   \* the values users give to --version
    Includes,    \* the values users give to --include-pub-targets
    Schema,      \* "semver", "calver" or "gitdate"
    Component,   \* auto_increment of the semver schema
    MaxCommit,   \* bound on the length of the history
    MaxDay       \* bound on the calendar

ASSUME PrefixAssumption == Prefixes \subseteq Nat /\ Modules \subseteq Nat
ASSUME PrefixOfAssumption == PrefixOf \in [Modules -> Prefixes]
ASSUME ImageAssumption ==
    HasImage \subseteq Modules /\ Immutable \subseteq {"artifact", "image"}
ASSUME VersionAssumption == NoVersion \notin Versions /\ Overrides \subseteq Versions
ASSUME BoundAssumption == MaxCommit \in Nat \ {0} /\ MaxDay \in Nat \ {0}

VARIABLES
    tip,        \* the release branch on origin
    origin,     \* [Tags -> Commits], the tags of origin
    head,       \* [Clones -> Commits], HEAD of the workspace
    tracking,   \* [Clones -> Commits], refs/remotes/origin/<branch>
    local,      \* [Clones -> [Tags -> Commits]], the tags of the clone
    store,      \* [Targets -> [Versions -> SUBSET Commits]], the commits a target was
                \* uploaded from as that version; an immutable track has one at most
    today,      \* the date
    pc,         \* [Runs -> where the run is]
    clone,      \* [Runs -> Clones], the clone it works in
    mods,       \* [Runs -> SUBSET Modules], what --scope selected
    include,    \* [Runs -> SUBSET Tracks], --include-pub-targets
    override,   \* [Runs -> Versions or NoVersion], --version
    plan,       \* [Runs -> [Prefixes -> Versions or NoVersion]], GroupPlan.tag
    base,       \* [Runs -> Commits], the commit its worktree was made at
    worktree,   \* [Runs -> what there is of its worktree on disk]
    tagged,     \* [Runs -> SUBSET Prefixes], tags it created and did not delete
    undeleted,  \* [Runs -> SUBSET Prefixes], tags that git did not delete for it
    todo,       \* [Runs -> SUBSET Targets], targets still to run
    outcome     \* [Runs -> how the run is going to end]

envVars == <<tip, head, tracking, today>>
planVars == <<clone, mods, include, override>>
vars == <<tip, origin, head, tracking, local, store, today, pc, clone, mods,
          include, override, plan, base, worktree, tagged, undeleted, todo, outcome>>

-----------------------------------------------------------------------------
Commits == 0 .. MaxCommit
Tags == Prefixes \X Versions

Tracks == {"artifact", "image"}

\* One :publish or :publish_image target of a module.
Targets == {t \in [mod : Modules, track : Tracks] :
                t.track = "image" => t.mod \in HasImage}

\* resolve_scope: everything, one component set, or one module.
ScopeChoices ==
    {Modules} \cup {{m \in Modules : PrefixOf[m] = p} : p \in Prefixes}
              \cup {{m} : m \in Modules}

\* --include-pub-targets: artifacts, images or all.
IncludeChoices == {{"artifact"}, {"image"}, {"artifact", "image"}}
ASSUME IncludesAssumption == Includes \subseteq IncludeChoices

\* group_by_version_scope: the version groups of a run, and their tags.
Groups(r) == {PrefixOf[m] : m \in mods[r]}
TagOf(r, p) == <<p, plan[r][p]>>
Selected(r) == {t \in Targets : t.mod \in mods[r] /\ t.track \in include[r]}
VersionOf(r, t) == plan[r][PrefixOf[t.mod]]

\* Groups are handled in the order of their prefixes.
First(p, S) == \A q \in S : p <= q

\* Targets run group by group, module by module, the artifact before the image.
Precedes(s, t) ==
    \/ PrefixOf[s.mod] < PrefixOf[t.mod]
    \/ PrefixOf[s.mod] = PrefixOf[t.mod] /\ s.mod < t.mod
    \/ s.mod = t.mod /\ s.track = "artifact"
FirstTarget(t, S) == \A s \in S : s = t \/ Precedes(t, s)

PCs == {"idle", "plan", "add", "tag", "build", "push", "hung", "untag", "remove",
        "done", "failed", "killed"}
Outcomes == {"none", "ok", "error", "tagging failed", "interrupted"}

\* Nothing; the directory git worktree add is filling; a worktree; what is left of
\* one whose removal was tried and failed or was interrupted.
WorktreeStates == {"none", "adding", "ready", "left"}

\* Between its first tag and the end of its cleanup a run owns the tags it made.
Owning(r) == pc[r] \in {"tag", "build", "push", "hung", "untag"}
Publishing(r) == pc[r] \in {"build", "push"}

-----------------------------------------------------------------------------
(***************************************************************************)
(* get_last_tag and get_git_count: git describe names the nearest tagged   *)
(* commit behind HEAD and, of several lightweight tags on that commit, the *)
(* first by name.                                                          *)
(***************************************************************************)
TaggedCommits(c, p) ==
    {k \in 1 .. head[c] : \E v \in Versions : local[c][<<p, v>>] = k}

IsNearest(k, S) == k \in S /\ \A j \in S : j <= k

LastVersion(c, p) ==
    IF TaggedCommits(c, p) = {} THEN NoVersion
    ELSE LET at == CHOOSE k \in TaggedCommits(c, p) : IsNearest(k, TaggedCommits(c, p))
             there == {v \in Versions : local[c][<<p, v>>] = at}
         IN  CHOOSE v \in there : \A w \in there : w = v \/ NameBefore(v, w)

GitCount(c, p) ==
    IF TaggedCommits(c, p) = {} THEN head[c]
    ELSE head[c] - (CHOOSE k \in TaggedCommits(c, p) : IsNearest(k, TaggedCommits(c, p)))

NextVersion(r, p) ==
    IF override[r] # NoVersion THEN override[r]
    ELSE ResolveRelease(Schema, Component, LastVersion(clone[r], p),
                        GitCount(clone[r], p), today)

-----------------------------------------------------------------------------
Init ==
    /\ tip = 1
    /\ origin = [t \in Tags |-> 0]
    /\ head = [c \in Clones |-> 1]
    /\ tracking = [c \in Clones |-> 1]
    /\ local = [c \in Clones |-> [t \in Tags |-> 0]]
    /\ store = [t \in Targets |-> [v \in Versions |-> {}]]
    /\ today = 1
    /\ pc = [r \in Runs |-> "idle"]
    /\ clone \in [Runs -> Clones]
    /\ mods = [r \in Runs |-> {}]
    /\ include = [r \in Runs |-> {}]
    /\ override = [r \in Runs |-> NoVersion]
    /\ plan = [r \in Runs |-> [p \in Prefixes |-> NoVersion]]
    /\ base = [r \in Runs |-> 0]
    /\ worktree = [r \in Runs |-> "none"]
    /\ tagged = [r \in Runs |-> {}]
    /\ undeleted = [r \in Runs |-> {}]
    /\ todo = [r \in Runs |-> {}]
    /\ outcome = [r \in Runs |-> "none"]

Goto(r, label) == pc' = [pc EXCEPT ![r] = label]

-----------------------------------------------------------------------------
\* The command line of a run.
Start(r) ==
    /\ pc[r] = "idle"
    /\ Goto(r, "plan")
    /\ \E M \in ScopeChoices, I \in Includes, v \in Overrides \cup {NoVersion} :
        /\ M # {}
        /\ mods' = [mods EXCEPT ![r] = M]
        /\ include' = [include EXCEPT ![r] = I]
        /\ todo' = [todo EXCEPT ![r] = {t \in Targets : t.mod \in M /\ t.track \in I}]
        /\ override' = [override EXCEPT ![r] = v]
    /\ UNCHANGED <<envVars, origin, local, store, clone, plan, base, worktree,
                   tagged, undeleted, outcome>>

Unplanned(r) == {p \in Groups(r) : plan[r][p] = NoVersion}

\* build_plan, one version group: the tags of the clone are read at this moment.
ResolveGroup(r) ==
    /\ pc[r] = "plan"
    /\ \E p \in Unplanned(r) :
        /\ First(p, Unplanned(r))
        /\ NextVersion(r, p) \in Versions
        /\ plan' = [plan EXCEPT ![r][p] = NextVersion(r, p)]
    /\ UNCHANGED <<envVars, planVars, origin, local, store, pc, base, worktree,
                   tagged, undeleted, todo, outcome>>

\* The calver schema refuses a second release of the day: build_plan raises.
ResolveConflict(r) ==
    /\ pc[r] = "plan"
    /\ \E p \in Unplanned(r) :
        /\ First(p, Unplanned(r))
        /\ NextVersion(r, p) = Conflict
    /\ Goto(r, "failed")
    /\ outcome' = [outcome EXCEPT ![r] = "error"]
    /\ UNCHANGED <<envVars, planVars, origin, local, store, plan, base, worktree,
                   tagged, undeleted, todo>>

\* validate_branch_exists, and the private directory create_worktree makes first.
CreateWorktree(r) ==
    /\ pc[r] = "plan"
    /\ Unplanned(r) = {}
    /\ \/ /\ Goto(r, "add")
          /\ worktree' = [worktree EXCEPT ![r] = "adding"]
          /\ UNCHANGED outcome
       \/ /\ Goto(r, "failed")
          /\ outcome' = [outcome EXCEPT ![r] = "error"]
          /\ UNCHANGED worktree
    /\ UNCHANGED <<envVars, planVars, origin, local, store, plan, base, tagged,
                   undeleted, todo>>

\* git worktree add at origin/<branch> as last fetched.
AddWorktree(r) ==
    /\ pc[r] = "add"
    /\ Goto(r, "tag")
    /\ base' = [base EXCEPT ![r] = tracking[clone[r]]]
    /\ worktree' = [worktree EXCEPT ![r] = "ready"]
    /\ UNCHANGED <<envVars, planVars, origin, local, store, plan, tagged, undeleted,
                   todo, outcome>>

\* It fails: the directory is deleted, as far as that succeeds.
AddWorktreeFails(r) ==
    /\ pc[r] = "add"
    /\ Goto(r, "failed")
    /\ \E w \in {"none", "left"} : worktree' = [worktree EXCEPT ![r] = w]
    /\ outcome' = [outcome EXCEPT ![r] = "error"]
    /\ UNCHANGED <<envVars, planVars, origin, local, store, plan, base, tagged,
                   undeleted, todo>>

Untagged(r) == Groups(r) \ tagged[r]

\* Where the run goes when the targets in S are left: an empty selection (images
\* of a library) publishes nothing and still pushes its tags.
BuildOrPush(S) == IF S = {} THEN "push" ELSE "build"

\* Mutant: git tag --force.
ForceTag(r) ==
    /\ pc[r] = "tag"
    /\ \E p \in Untagged(r) :
        /\ First(p, Untagged(r))
        /\ local' = [local EXCEPT ![clone[r]][TagOf(r, p)] = base[r]]
        /\ tagged' = [tagged EXCEPT ![r] = @ \cup {p}]
        /\ Goto(r, IF Untagged(r) = {p} THEN BuildOrPush(todo[r]) ELSE "tag")
    /\ UNCHANGED <<envVars, planVars, origin, store, plan, base, worktree,
                   undeleted, todo, outcome>>

\* create_tag for the next group.
CreateTag(r) ==
    /\ pc[r] = "tag"
    /\ \E p \in Untagged(r) :
        /\ First(p, Untagged(r))
        /\ local[clone[r]][TagOf(r, p)] = 0
        /\ local' = [local EXCEPT ![clone[r]][TagOf(r, p)] = base[r]]
        /\ tagged' = [tagged EXCEPT ![r] = @ \cup {p}]
        /\ Goto(r, IF Untagged(r) = {p} THEN BuildOrPush(todo[r]) ELSE "tag")
    /\ UNCHANGED <<envVars, planVars, origin, store, plan, base, worktree,
                   undeleted, todo, outcome>>

\* Mutant: the worktree is not removed when tagging fails.
CreateTagFailsAndStops(r) ==
    /\ pc[r] = "tag"
    /\ \E p \in Untagged(r) :
        /\ First(p, Untagged(r))
        /\ local[clone[r]][TagOf(r, p)] # 0
    /\ Goto(r, "failed")
    /\ outcome' = [outcome EXCEPT ![r] = "tagging failed"]
    /\ UNCHANGED <<envVars, planVars, origin, local, store, plan, base, worktree,
                   tagged, undeleted, todo>>

\* git tag refuses a name that exists.  The loop is outside the try block: the
\* tags already made stay, only the worktree is removed.
CreateTagFails(r) ==
    /\ pc[r] = "tag"
    /\ \E p \in Untagged(r) :
        /\ First(p, Untagged(r))
        /\ local[clone[r]][TagOf(r, p)] # 0
    /\ Goto(r, "remove")
    /\ outcome' = [outcome EXCEPT ![r] = "tagging failed"]
    /\ UNCHANGED <<envVars, planVars, origin, local, store, plan, base, worktree,
                   tagged, undeleted, todo>>

-----------------------------------------------------------------------------
\* What the registry does with an upload of target t by run r.
Refused(r, t) == t.track \in Immutable /\ store[t][VersionOf(r, t)] # {}
Stored(r, t) ==
    IF Refused(r, t) THEN store
    ELSE [store EXCEPT ![t][VersionOf(r, t)] = @ \cup {base[r]}]

\* _run_publish of the next target succeeds: bazel run returns 0.
RunTarget(r) ==
    /\ pc[r] = "build"
    /\ \E t \in todo[r] :
        /\ FirstTarget(t, todo[r])
        /\ ~Refused(r, t)
        /\ store' = Stored(r, t)
        /\ todo' = [todo EXCEPT ![r] = @ \ {t}]
        /\ Goto(r, BuildOrPush(todo[r] \ {t}))
    /\ UNCHANGED <<envVars, planVars, origin, local, plan, base, worktree,
                   tagged, undeleted, outcome>>

\* Mutant: bazel run without check=True.
RunTargetUnchecked(r) ==
    /\ pc[r] = "build"
    /\ \E t \in todo[r] :
        /\ FirstTarget(t, todo[r])
        /\ todo' = [todo EXCEPT ![r] = @ \ {t}]
        /\ Goto(r, BuildOrPush(todo[r] \ {t}))
    /\ UNCHANGED <<envVars, planVars, origin, local, store, plan, base, worktree,
                   tagged, undeleted, outcome>>

\* Mutant: the except block that deletes the tags is missing.
RunTargetFailsUntidily(r) ==
    /\ pc[r] = "build"
    /\ todo[r] # {}
    /\ Goto(r, "remove")
    /\ outcome' = [outcome EXCEPT ![r] = "error"]
    /\ UNCHANGED <<envVars, planVars, origin, local, store, plan, base, worktree,
                   tagged, undeleted, todo>>

\* It fails: before the upload, by a refusal, or after an upload that was stored.
RunTargetFails(r) ==
    /\ pc[r] = "build"
    /\ \E t \in todo[r] :
        /\ FirstTarget(t, todo[r])
        /\ store' \in {store, Stored(r, t)}
    /\ Goto(r, "untag")
    /\ outcome' = [outcome EXCEPT ![r] = "error"]
    /\ UNCHANGED <<envVars, planVars, origin, local, plan, base, worktree,
                   tagged, undeleted, todo>>

-----------------------------------------------------------------------------
\* Mutant: git push --force.
AcceptedForced(r) ==
    {p \in Groups(r) : \A q \in Groups(r) : local[clone[r]][TagOf(r, q)] # 0}

\* git push sends nothing when a tag is missing in the clone; otherwise origin
\* takes the tags one by one: a new name, or one at the same commit.
Pushed(r, p) == local[clone[r]][TagOf(r, p)]
Accepted(r) ==
    {p \in Groups(r) : /\ \A q \in Groups(r) : Pushed(r, q) # 0
                       /\ origin[TagOf(r, p)] \in {0, Pushed(r, p)}}
OriginAfterPush(r, S) ==
    [t \in Tags |-> IF \E p \in S : t = TagOf(r, p)
                    THEN local[clone[r]][t] ELSE origin[t]]

PushTags(r) ==
    /\ pc[r] = "push"
    /\ Accepted(r) = Groups(r)
    /\ origin' = OriginAfterPush(r, Groups(r))
    /\ Goto(r, "remove")
    /\ outcome' = [outcome EXCEPT ![r] = "ok"]
    /\ UNCHANGED <<envVars, planVars, local, store, plan, base, worktree,
                   tagged, undeleted, todo>>

\* A rejected tag, a connection that breaks, or an answer that is lost: some of the
\* tags origin accepts may be there whatever git reports.
PushTagsFails(r) ==
    /\ pc[r] = "push"
    /\ \E S \in SUBSET Accepted(r) : origin' = OriginAfterPush(r, S)
    /\ Goto(r, "untag")
    /\ outcome' = [outcome EXCEPT ![r] = "error"]
    /\ UNCHANGED <<envVars, planVars, local, store, plan, base, worktree,
                   tagged, undeleted, todo>>

-----------------------------------------------------------------------------
\* delete_tag for the next tag of the plan, in the except block.  What git says is
\* not looked at: a tag that it does not delete stays.
ToDelete(r) == tagged[r] \ undeleted[r]
DeleteTag(r) ==
    /\ pc[r] = "untag"
    /\ \E p \in ToDelete(r) :
        /\ First(p, ToDelete(r))
        /\ \/ /\ local' = [local EXCEPT ![clone[r]][TagOf(r, p)] = 0]
              /\ tagged' = [tagged EXCEPT ![r] = @ \ {p}]
              /\ UNCHANGED undeleted
           \/ /\ undeleted' = [undeleted EXCEPT ![r] = @ \cup {p}]
              /\ UNCHANGED <<local, tagged>>
        /\ Goto(r, IF ToDelete(r) = {p} THEN "remove" ELSE "untag")
    /\ UNCHANGED <<envVars, planVars, origin, store, plan, base, worktree,
                   todo, outcome>>

\* The finally clause of secure_worktree, whatever the body did.  remove_worktree
\* suppresses the errors of git and of rmtree.
RemoveWorktree(r) ==
    /\ pc[r] = "remove"
    /\ \E w \in {"none", "left"} : worktree' = [worktree EXCEPT ![r] = w]
    /\ Goto(r, IF outcome[r] = "ok" THEN "done" ELSE "failed")
    /\ UNCHANGED <<envVars, planVars, origin, local, store, plan, base,
                   tagged, undeleted, todo, outcome>>

-----------------------------------------------------------------------------
\* What the subprocess that runs when a signal arrives may have done.
InFlight(r) ==
    \/ UNCHANGED <<origin, store>>
    \/ /\ pc[r] = "build"
       /\ \E t \in todo[r] : FirstTarget(t, todo[r]) /\ store' = Stored(r, t)
       /\ UNCHANGED origin
    \/ /\ pc[r] = "push"
       /\ \E S \in SUBSET Accepted(r) : origin' = OriginAfterPush(r, S)
       /\ UNCHANGED store

\* A registry or origin stops answering: neither the upload's curl nor git push has
\* a time limit.
Hang(r) ==
    /\ Publishing(r)
    /\ InFlight(r)
    /\ Goto(r, "hung")
    /\ UNCHANGED <<envVars, planVars, local, plan, base, worktree, tagged,
                   undeleted, todo, outcome>>

\* Ctrl-C under secure_worktree: KeyboardInterrupt is no Exception, so no tag is
\* deleted, but the worktree is removed.
Interrupt(r) ==
    /\ Owning(r)
    /\ InFlight(r)
    /\ Goto(r, "remove")
    /\ outcome' = [outcome EXCEPT ![r] = "interrupted"]
    /\ UNCHANGED <<envVars, planVars, local, plan, base, worktree, tagged,
                   undeleted, todo>>

\* Ctrl-C before secure_worktree has its try (the directory stays) or in its finally
\* clause (what is not removed yet stays).
InterruptOutside(r) ==
    /\ pc[r] \in {"plan", "add", "remove"}
    /\ Goto(r, "failed")
    /\ outcome' = [outcome EXCEPT ![r] = "interrupted"]
    /\ worktree' = IF pc[r] = "remove" THEN [worktree EXCEPT ![r] = "left"] ELSE worktree
    /\ UNCHANGED <<envVars, planVars, origin, local, store, plan, base, tagged,
                   undeleted, todo>>

\* The process dies: nothing is cleaned up.
Kill(r) ==
    /\ Owning(r) \/ pc[r] \in {"add", "remove"}
    /\ InFlight(r)
    /\ Goto(r, "killed")
    /\ outcome' = [outcome EXCEPT ![r] = "interrupted"]
    /\ UNCHANGED <<envVars, planVars, local, plan, base, worktree, tagged,
                   undeleted, todo>>

-----------------------------------------------------------------------------
\* The developers: a commit reaches the branch, a clone fetches it (git follows
\* the tags of origin but keeps a local tag of the same name), HEAD moves up.
Commit ==
    /\ tip < MaxCommit
    /\ tip' = tip + 1
    /\ UNCHANGED <<origin, head, tracking, local, store, today, pc, planVars,
                   plan, base, worktree, tagged, undeleted, todo, outcome>>

Fetch(c) ==
    /\ tracking' = [tracking EXCEPT ![c] = tip]
    /\ local' = [local EXCEPT ![c] =
                    [t \in Tags |-> IF @[t] = 0 THEN origin[t] ELSE @[t]]]
    /\ UNCHANGED <<tip, origin, head, store, today, pc, planVars,
                   plan, base, worktree, tagged, undeleted, todo, outcome>>

FastForward(c) ==
    /\ head[c] # tracking[c]
    /\ head' = [head EXCEPT ![c] = tracking[c]]
    /\ UNCHANGED <<tip, origin, tracking, local, store, today, pc, planVars,
                   plan, base, worktree, tagged, undeleted, todo, outcome>>

NextDay ==
    /\ today < MaxDay
    /\ today' = today + 1
    /\ UNCHANGED <<tip, origin, head, tracking, local, store, pc, planVars,
                   plan, base, worktree, tagged, undeleted, todo, outcome>>

-----------------------------------------------------------------------------
\* The steps a run takes by itself once it is started.
RunStep(r) ==
    \/ ResolveGroup(r) \/ ResolveConflict(r)
    \/ CreateWorktree(r) \/ AddWorktree(r) \/ AddWorktreeFails(r)
    \/ CreateTag(r) \/ CreateTagFails(r)
    \/ RunTarget(r) \/ RunTargetFails(r)
    \/ PushTags(r) \/ PushTagsFails(r)
    \/ DeleteTag(r) \/ RemoveWorktree(r)

\* A signal, or a network that is silent.
Stop(r) == Interrupt(r) \/ InterruptOutside(r) \/ Kill(r) \/ Hang(r)

Next ==
    \/ \E r \in Runs : Start(r) \/ RunStep(r) \/ Stop(r)
    \/ Commit
    \/ \E c \in Clones : Fetch(c) \/ FastForward(c)
    \/ NextDay

Spec == Init /\ [][Next]_vars

\* A run that does not hang goes on: local git commands return, and a target or a
\* push that does not is a Hang.  Users, the network and the calendar are not fair.
Fairness == \A r \in Runs : WF_vars(RunStep(r))
FairSpec == Spec /\ Fairness
-----------------------------------------------------------------------------
TypeOK ==
    /\ tip \in 1 .. MaxCommit
    /\ origin \in [Tags -> Commits]
    /\ head \in [Clones -> 1 .. MaxCommit]
    /\ tracking \in [Clones -> 1 .. MaxCommit]
    /\ local \in [Clones -> [Tags -> Commits]]
    /\ store \in [Targets -> [Versions -> SUBSET Commits]]
    /\ today \in 1 .. MaxDay
    /\ pc \in [Runs -> PCs]
    /\ clone \in [Runs -> Clones]
    /\ mods \in [Runs -> SUBSET Modules]
    /\ include \in [Runs -> SUBSET Tracks]
    /\ override \in [Runs -> Versions \cup {NoVersion}]
    /\ plan \in [Runs -> [Prefixes -> Versions \cup {NoVersion}]]
    /\ base \in [Runs -> Commits]
    /\ worktree \in [Runs -> WorktreeStates]
    /\ tagged \in [Runs -> SUBSET Prefixes]
    /\ undeleted \in [Runs -> SUBSET Prefixes]
    /\ todo \in [Runs -> SUBSET Targets]
    /\ outcome \in [Runs -> Outcomes]

\* While a run builds and pushes, every tag of its plan is in its clone at the
\* commit its worktree is at, whatever other runs and fetches do to that clone:
\* git tag refusing an existing name is the only lock there is.
OwnTagsHeld ==
    \A r \in Runs : Publishing(r) =>
        \A p \in Groups(r) : local[clone[r]][TagOf(r, p)] = base[r]

\* The invariant behind it.  Two runs that own tags in one clone never own the same
\* one, since a run only makes a tag that is not there; so nobody but its owner
\* deletes a tag, and no fetch replaces it.
Early(r) == pc[r] \in {"idle", "plan", "add"}
Fresh(r) ==
    Early(r) => tagged[r] = {} /\ todo[r] = Selected(r)
Planned(r) ==
    /\ pc[r] = "add" => Unplanned(r) = {}
    /\ Owning(r) => base[r] # 0 /\ \A p \in Groups(r) : plan[r][p] \in Versions
HeldTags(r) ==
    Owning(r) => \A p \in tagged[r] :
        p \in Groups(r) /\ local[clone[r]][TagOf(r, p)] = base[r]
AllTagged(r) == Publishing(r) => Groups(r) \subseteq tagged[r]
OneOwner(r, q) ==
    r # q /\ Owning(r) /\ Owning(q) /\ clone[r] = clone[q] =>
        \A p \in tagged[r] \cap tagged[q] : plan[r][p] # plan[q][p]
TagInv ==
    /\ \A r \in Runs : Fresh(r) /\ Planned(r) /\ HeldTags(r) /\ AllTagged(r)
    /\ \A r, q \in Runs : OneOwner(r, q)

\* A tag on origin is the tag of a run that got every target it selected into the
\* registries from that commit, and a registry that refuses to replace a version holds
\* what that run built ("Pushes tags only after all publishes succeed").
Holds(r, t) ==
    LET there == store[t][VersionOf(r, t)]
    IN  base[r] \in there /\ (t.track \in Immutable => there = {base[r]})
Completed(r) == todo[r] = {} /\ \A t \in Selected(r) : Holds(r, t)
Releases(r, p, v) ==
    /\ p \in Groups(r)
    /\ plan[r][p] = v
    /\ base[r] = origin[<<p, v>>]
    /\ Completed(r)
TaggedReleasesAreComplete ==
    \A p \in Prefixes, v \in Versions : origin[<<p, v>>] # 0 =>
        \E r \in Runs : Releases(r, p, v)

\* The invariant behind it: what a run has uploaded so far is in the registry as
\* that run built it, and a run pushes when nothing is left to do.
Uploaded(r) == Owning(r) => \A t \in Selected(r) \ todo[r] : Holds(r, t)
PushReady(r) == pc[r] = "push" => todo[r] = {}
ReleaseInv ==
    /\ \A r \in Runs : Uploaded(r) /\ PushReady(r)
    /\ \A p \in Prefixes, v \in Versions : origin[<<p, v>>] # 0 =>
          \E r \in Runs : /\ ~Early(r)
                         /\ Unplanned(r) = {}
                         /\ Releases(r, p, v)

\* A tag in a clone is on origin at the same commit, or belongs to a run that is
\* still going to push or delete it, or was left by a run that was interrupted, that
\* failed while it was tagging, or that asked git to delete it in vain.
LeftBy(r, c, t) ==
    /\ clone[r] = c
    /\ \E p \in tagged[r] :
        /\ t = TagOf(r, p)
        /\ \/ Owning(r)
           \/ outcome[r] \in {"tagging failed", "interrupted"}
           \/ p \in undeleted[r]
LocalTagsAccounted ==
    \A c \in Clones, t \in Tags : local[c][t] # 0 =>
        \/ origin[t] = local[c][t]
        \/ \E r \in Runs : LeftBy(r, c, t)

\* A release that reports success has all of its tags on origin at the commit it
\* was built from, and no later run moves them.
DoneIsReleased ==
    \A r \in Runs : outcome[r] = "ok" =>
        \A p \in Groups(r) : origin[TagOf(r, p)] = base[r]

\* The removal of a worktree is tried in the end, whatever the run met, unless the run
\* is killed or waits for ever on the network.  It is "left" when git and rmtree both
\* fail or a second Ctrl-C stops them; one that Ctrl-C met in git worktree add is
\* not promised anything.
WorktreesRemoved ==
    \A r \in Runs :
        worktree[r] = "ready" ~>
            worktree[r] \in {"none", "left"} \/ pc[r] \in {"killed", "hung"}

-----------------------------------------------------------------------------
\* Releases implement the ledger: whatever runs, crashes and lost answers do, those
\* who read origin and the registries see the branch grow, uploads that replace
\* nothing immutable, and pushes of new tags for what a release was asked for and has
\* published completely, from one commit of the branch.
Ledger == INSTANCE PublishLedger WITH Scopes <- ScopeChoices \ {{}}
ImplementsLedger == Ledger!Spec

-----------------------------------------------------------------------------
(***************************************************************************)
(* What the documents say and the code does not do.                        *)
(***************************************************************************)
\* tools/publish/README.md: "Cleans up tags and worktree on failure".  Tags that git
\* itself did not delete are left out.
FailedRunLeavesNoTags ==
    \A r \in Runs :
        pc[r] = "failed" /\ outcome[r] # "interrupted" => tagged[r] \subseteq undeleted[r]
=============================================================================
