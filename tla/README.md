# A verification project for omniglot-bazel-starter

The repository is a Bazel starter for several languages and the tools a repository
made from it keeps using: a *bootstrap* tool that scaffolds and re-bootstraps
repositories, *mint*, which releases modules, the scripts that upload artifacts and
log in to registries, a profiler, generators of build targets and installers of
toolchains.  Most of its own logic is in `tools/`; `modules/` holds samples, of which
one, the embedded Python application, is concurrent.

This directory holds TLA+ modules of the parts whose correctness depends on what
happens *between* steps, TLC configurations that check small instances of them, and
proofs, checked by TLAPS, of the properties that matter most.  `PROJECT.json` lists
components, runs, the source lines of every definition, hazards and theorems.

## 1. Inventory

### Modelled

| component | state it keeps | operations | what is hard |
|---|---|---|---|
| **mint, release mode** (`tools/publish/src/mint`: `engine`, `git`, `version`, `scope`, `worktree`, `cli`) | tags of the clone and of origin, worktrees, artifacts and images in registries | plan a version per group, make a worktree, tag, run publish targets, push the tags; delete the tags and the worktree on failure | two releases in one clone or in two, a fetch in between, a push that is accepted in part or whose answer is lost, a cleanup that git refuses, Ctrl-C at any step, a kill, a network that goes silent |
| **docker_login_helper** (`tools/publish/docker_login_helper.py`) | `~/.docker/config.json`, its lock file, a temporary file | read `.netrc`, take the lock, read, merge, replace, release | helpers at once, docker and users who ignore the lock, a write that fails, kill, power loss |
| **publish_artifact.sh** (`tools/publish`) | files in a registry | upload with retries (maven, generic, pypi), then the POM | lost requests, lost answers, connections that stall, gateways and registries that report a failure after storing, a retry of what was already done, local commands that fail after the upload |
| **bootstrap** (`tools/bootstrap/src/bootstrap`: `cli`, `scaffolder`, `manifest`, `detect`) | the files of the target, the marker `.omniglot_bootstrap.toml` with its two tables, the generated targets in the user's BUILD files | remove generated targets, prune, copy, splice, mark, handle orphans, refresh locks, finalize, format, record | runs stopped anywhere and continued with another selection, updates of the starter, edits by the user between and during runs, answers of the user in two places |
| **merging of Go dependencies** (`bootstrap/gomod.py`, and `scaffolder.py` where it calls it) | `go.mod`, `go.sum`, `use_repo(go_deps, ...)` of the target | merge what the starter ships into what the user has, compare versions | three files that must agree, written in different steps, two of them after a question; what only the target has is the user's own or a leftover |
| **embedded Python application** (`modules/cpp_py_bootstrap_app`) | GILs, subinterpreters, thread states, futures | find the toolchain, start Python, call functions on threads in subinterpreters, finalize | threads that hand a GIL over while others wait, any step of a call that fails or throws, the order of destruction |
| **downloads and the JDK installer** (`tools/setup/download_lib.sh`, `tools/java/toolchains/local_corretto_toolchains_setup.sh`) | the partial archive, extracted directories and their times, the link to the JDK in use | download with resumption and a budget of retries, verify, extract, find the directory, exchange the link, clean up | a partial resumed onto a newer release, runs stopped in an extraction or a deletion, directories chosen by time, one directory for all releases (macOS) or none that is found (Windows) |
| **profiler** (`tools/profile/src/profiling`: `engine`, `spine`, `cli`) | the artifacts of every target and mode | profile one target or all of a tag, render, sum up, open the latest | a batch that goes on after failures, leftovers that a glob would find, directories that targets share |

How they interact: mint runs the publish targets; a target of the artifact track ends
in `publish_artifact.sh`, one of the image track runs `docker_login_helper.py` and then
pushes.  mint only sees their exit codes, so `MintRelease` has a publish target as one
step that stores or fails, and `Upload` and `DockerLogin` say what such a step does
inside.  bootstrap runs the generators (`lint_gen`, `publish_gen`, `profile_gen`), the
lock refreshes and the formatters of the target as commands and sees their exit codes;
the merge of Go dependencies is a part of its copying, modelled in a module of its own
over the same runs.  The embedded application, the installer and the profiler share no
state with these or with each other.

What makes each of them correct is in section 4.

### Partly or not modelled

| component | why |
|---|---|
| bootstrap text processing (`processor.py`) | partly: the user-managed region and the choice of a section are values that are carried from file to file; the scanning of marks line by line is a pure function on text |
| installers of bazelisk and Go (`tools/setup/install_bazelisk.sh`, `tools/go/toolchains/host_go_sdk_setup.sh`) | they call the modelled loop once on a fresh directory and keep nothing |
| profiler, `--list`, `--measure`, reports | the first two change no file; the numbers of a report (`spine.py`, buckets and ratios) are data |
| Gazelle generators (`tools/{publish,lint,profile}/gazelle`, `tools/gazelle`) | one step of bootstrap; what each generator adds and removes is left (section 6) |
| mint configuration and labels, dev mode | a configuration is a constant of the release module; dev mode keeps no state |
| netrc lookup and credential helper, wheel repackaging | one pass over one file, nothing outlives the call |
| publish and packaging macros, toolchain discovery (`*.bzl`) | build rules, evaluated by Bazel, without a state of their own |
| lint, format and coverage wrappers | run one program and pass its exit code on |
| CI workflows, sample modules, build declarations and locks | declarations for external services, payload, generated data |

## 2. Modules

| module | models | instance |
|---|---|---|
| `MintVersion` | `version.py`: the version a release resolves to | |
| `PublishLedger` | what a release promises: a ledger of tags and registries | |
| `MintRelease` | a release, several at once, an implementation of `PublishLedger` | `MCMintRelease` |
| `AuthStore` | what the login helper promises: a store in which a login is one step | |
| `DockerLogin` | the login helper step by step, an implementation of `AuthStore` | `MCDockerLogin` |
| `Upload` | the upload script and its registry | `MCUpload` |
| `Bootstrap` | runs of the bootstrap tool over one target | `MCBootstrap` |
| `GoVersion` | the order of Go versions, in `gomod.py` and in Go | |
| `GoDeps` | `go.mod`, `go.sum` and `use_repo` over runs of bootstrap | `MCGoDeps` |
| `Calls` | what the embedded application promises: a result per call, an exit code | |
| `EmbeddedPython` | the application over an external model of CPython, an implementation of `Calls` | itself |
| `Download` | `download_resumable`, one attempt a step | |
| `JdkInstall` | the JDK installer over runs and releases; extends `Download` | `MCJdkInstall` |
| `Profile` | batches and single runs of the profiler over their artifacts | `MCProfile` |
| `MintReleaseProofs`, `DockerLoginProofs`, `UploadProofs`, `BootstrapProofs`, `EmbeddedPythonProofs`, `JdkInstallProofs`, `GoDepsProofs`, `ProfileProofs` | theorems | |

Two conventions.  In the modules with processes (`MintRelease`, `DockerLogin`, `Upload`,
`EmbeddedPython`) each execution or thread is used once and `pc` says where it is; the
other programs are run by one user at a time, again and again.  A Python statement, a
shell command or a subprocess that others can see or that can fail is one step.
Definitions whose comment begins with *Mutant* are variants of the definition after them
with a plausible mistake in it: they are no part of a specification, they show that the
properties notice the mistake.

### MintRelease and PublishLedger
A tag is a pair of prefix and version, at a commit (0: none); `origin` and `local[c]`
hold the tags, `store` the commits each version of a target was uploaded from (one at
most for a track in `Immutable`).  `ResolveGroup` is one round of the loop of
`build_plan`, with the version computed from the tags of the clone *at that moment*;
`CreateTag` one `git tag`, which refuses a name that exists; `RunTarget` a publish
target, which an immutable registry refuses when the version is there; `PushTags` and
`PushTagsFails` one `git push` of all tags, of which any subset that origin accepts may
be there even when git reports failure.

A worktree is made in two steps (`CreateWorktree` makes the private directory,
`AddWorktree` runs `git worktree add` in it) and is `"none"`, `"adding"`, `"ready"` or
`"left"`.  The cleanup may fail: `DeleteTag` ignores a `git tag -d` that is refused, as
`check=False` does, and the tag is remembered in `undeleted`; `RemoveWorktree` may leave
the directory, since `remove_worktree` suppresses errors.  `Interrupt` is Ctrl-C under
`secure_worktree`, which the `except Exception` around publishing does not catch, but the
`finally` that removes the worktree does.  `InterruptOutside` is Ctrl-C before its `try`
or inside its `finally`: a worktree that was being added stays, although
`worktree.py:3-4` speaks of guaranteed cleanup.  `Kill` leaves everything; `Hang` is a
target or a push that waits on a silent network, for which the code has no timeout, and
only an interrupt or a kill ends it.

History is a line of commits.  Developers commit, fetch and fast-forward; they make and
delete no tags themselves.  `bazel query` is taken to answer rightly (a query that fails
counts as "no image", `engine.py:284-289`), and `DRY_RUN` to be unset: mint hands its
environment on, so a dry run of the upload script would be tagged as a release.

`PublishLedger` is what somebody sees who reads origin and the registries and nothing
else.  The branch grows (`Land`); an `Upload` of a target built from a commit of the
branch replaces nothing that is immutable; a `Push` adds tags that were not there, all
at one commit of the branch, of a selection that is `Published` as built from that
commit.  There is no step that moves or deletes a tag.  It promises no more than
the code keeps: a push may bring some of its tags only, and a registry that allows a
version to be uploaded again holds the commit of the tag, maybe among others.
`MintRelease` implements it with its own `tip`, `origin` and `store`; a `Push` is a
`PushTags`, or a push that failed, was interrupted, hung or was killed and had got through
all the same.

### DockerLogin and AuthStore
`config` is the file as processes see it, `settled` what a power loss falls back to,
`temp` how far a temporary file got.  Every statement of `main` under the lock is a
step; `Fail` is an error while the temporary file is written, `Interrupt` a
KeyboardInterrupt, for which no cleanup of the temporary file is written.  A credential
is the generation of `.netrc` it comes from.  `DockerLogin` implements `AuthStore` with
the map in `DockerLogin`: entries and delegations are those of the file, and the
helpers that have logged in are those whose outcome is `ok`.

### Upload
`taken` remembers what the registry ever stored, `acked` that an artifact request was
answered with a 2xx.  `Delivered` stores the file, and whatever answer arrives, a final
refusal included; `Rejected`, `Undelivered` and `ConfigError` do not store.  `DryRun` is
the exit 0 that uploads nothing.  `LocalCommandFails` is `set -e` around the POM (writing
it, its checksum, removing it): the script exits 1 after the artifact was stored.
`Stall` is a connection that stays open and silent: the upload's curl
(`publish_artifact.sh:230-232`) has no time limit, so that execution waits until somebody
ends it.

### Bootstrap
A file is the release it was written from, the last edit of the user in it and whether
a formatter or lock refresh rewrote it; this triple is also its fingerprint.  `Entry`
gives what the manifest says of a file: how it comes to the target (with its directory,
as a file, as a composite, or not at all, for the user's own), whether it is a seed,
which owners ship it (`any`), and which must be selected for it (`gate`).  `pc` follows
`cli.run`; `Stop` ends a run after any step.  Each file is written and each entry
deleted in a step of its own.  The text that `--review` asks about is computed in
`AskOverwrite` and written in `AnswerOverwrite`, with the user free to edit in between.
`owed`, `recorded`, `touched`, `failed` and `refused` are history for the properties.

Simplifications: a file is written in one step, so a torn file does not occur; a gated
directory is deleted file by file; within a step of `cli.run` entries are handled in any
order, of which the code's is one; both formatters count as one, and format all files or
none; the user deletes no file of the tool's and does not edit the marker (deleting an
orphan's line from the marker is how a user ends the report of it); `MODULE.bazel` stays,
so a target with a marker is detected; the code directory is not empty, so removers and
finalizers are run.

### GoVersion and GoDeps
`SemverKey` and `GoverKey` are the sort keys of `gomod.py`, `Precedes` the order that
`golang.org/x/mod/semver` documents; that one follows the other is part of
`VersionsNeverFall`.  A `go.mod` is a function from keys (`require m`, `replace m`, `go`,
`module`) to what the entry says; a merge is `MergeGoMod`, `MergeGoSum` or
`MergeGoUseRepo`.  A run merges `go.sum`; then it reads `go.mod` (`ReadMod`), asks under
`--review`, and writes the merge of what it *had read* (`WriteMod`); and the same for the
segment with `use_repo` (`ReadNames`, `WriteNames`).  It may be stopped before any file
or while it asks, and the review may keep a file as it is.  The user gets, raises, edits,
tidies (`go mod tidy` drops checksums) and drops modules, also during a run, and updates
the starter; a release may drop a module.

`Careful` is the assumption that no command of the user's changes the file the tool is
asking about, and that nothing tidies between the writes of `go.sum` and `go.mod`.
Without it a `go get` during the question is lost, or a version raised then is lowered,
because the answer writes the old merge (`scaffolder.py:204-213`).  The four properties
are checked and proved under it; types hold without it.

Assumed: a key occurs once (a git merge may leave two, which the code would fold one by
one), a rendered segment has a `use_repo(go_deps` call, and a module that only some
selections require is named wherever it is required (`OptionalAssumption`).  The user
drops no module while a run is under way.  A file torn by a kill is not modelled.

### EmbeddedPython and Calls
Thread 0 is main, interpreter 0 the main interpreter.  `gil[i]` is the thread that holds
the GIL of interpreter `i`, `tss` the thread states, `cur[t]` the interpreter of the
state a thread has attached.  `Attach`, `Ensure`, `ReleaseState`, `NewInterpreter`,
`EndInterpreter`, `Detach` and `Reattach` are CPython's calls, external: each blocks
where CPython blocks and sets `fatal` where it ends the process.  The steps of main and
of the calls are those of the code, its destructors included: the order in which
`GilReleaseGuard`, `SubInterpreterGuard`, the `PyObjectGuard`s and the runtime go away is
what the properties are about.  Assumed of the outside: `Py_NewInterpreterFromConfig`
does not report success without an interpreter, and a called function returns and does
not end the process.  The application implements `Calls` with the results, and the exit
code as it is.

### Download and JdkInstall
A file is the sequence of its pieces, each named by the release it is from; so a resumed
partial of two releases shows, and only `sum` tells them apart.  `Completes`, `Breaks`
and `Refuses` are one attempt each, `Breaks` with the counters of the loop, `Refuses`
with its restart.  `JdkInstall` runs the script for one version of Java again and again:
each function of it is a step or two, `Interrupt` leaves torn files and directories, and
`NextRelease` publishes.  Times are kept as an order, no clock: an extraction that ends
gives its directory the vendor's time, one that is stopped leaves a time of this machine.

The platform decides what an archive unpacks to (`Home`; the names are those of
`remote_corretto_toolchains.bzl`).  On Linux each release has a directory of its own.  On
macOS all releases of a version unpack to `amazon-corretto-<version>.jdk`, so a new one is
extracted over the old one and keeps what only the old one had: `dirs[d]` is the set of
releases with files in directory `d`, and `Torn` when files are missing.  On Windows the
directory is called `jdk<release>`, the pattern of `find` misses it, and every run ends in
the error of `setup.sh:254-256` (`FindFails`), after `unzip` has asked whether to replace
the files of an earlier run (`UnzipKeeps`).

The curl of the checksum (`setup.sh:186`) has no time limit: `FetchSumHangs` leaves a run
that only an interrupt ends.  Left out: a link that is a real directory, more than one run
at a time (the script has no lock).  curl's 416, after which it exits 0 without a byte, is
`Completes`.  Without a checksum tool the script does not verify, and a poisoned partial
stays: `Recovers` and `InstalledIsVerified` are for machines that have one.

### Profile
A run of one target is a plan, a tuple of steps that depends on language, mode and
sampler: check the tools, capture, take the recordings, and for each fold, draw and
report, with the deletions in between.  `disk[k]` is the set of the files of a *place*,
a target's directory in a mode.  A file remembers the run whose data it has (`from`),
the run that wrote it (`at`, its time as far as `--view` can tell) and whether it is
whole; a new file replaces that of its kind and name, so recordings whose names of
artifacts collide (two JMH benchmarks that differ in a parameter alone) overwrite each
other.  Each program may fail, leave a torn output and record any subset of the
benchmarks; `Interrupt` stops the runner anywhere, `EnterBreaks` is an `rmtree` that
raises what nobody catches.  bazel query names targets in no order the runner relies on,
so `queue` is a set.  `last` is history.  Assumed: one invocation at a time, one heap
dump.  A run that is skipped, since its language has no system sampler, has emptied its
directory before: the code empties it first.

## 3. Runs

| run | expects | properties |
|---|---|---|
| `mint_shared_clone` | pass | `OwnTagsHeld`, `LocalTagsAccounted`, `ImplementsLedger` |
| `mint_two_clones` | pass | `TaggedReleasesAreComplete`, `DoneIsReleased`, `WorktreesRemoved` |
| `mint_cleanup` | violation | `FailedRunLeavesNoTags` |
| `docker_store` | pass | `TempsAccounted`, `NeverTorn`, `ImplementsStore`, `HelpersEnd` |
| `upload` | pass | `TypeOK`, `SuccessMeansStored`, `SuccessIsKept`, `PomFollowsArtifact`, `UploadsEnd` |
| `bootstrap` | pass | `TypeOK`, `EditsSurvive`, `NothingForgotten`, `ChangesAreSeen`, `TargetsDoNotDangle`, `BaselineIsComplete`, `RefusalsHold` |
| `bootstrap_review` | violation | `KeptIsKept` |
| `godeps` | pass | `YoursStay`, `SumsCover`, `InStep`, `NoDowngrade` |
| `embedded` | pass | `NeverFatal`, `ObjectsAtHome`, `FinalizedAlone`, `ImplementsCalls`, `ProcessEnds` |
| `install` | pass | `AttemptsBounded`, `InstalledIsVerified`, `GivenUpForAnother`, `DownloadEnds`, `Recovers` |
| `install_rerun` | violation | `InstalledIsWhole` |
| `profile` | pass | `SuccessIsComplete`, `SummaryIsTrue`, `ExitIsTrue`, `ViewShowsLatest` |

### Bounds, and why they are enough
- **mint**: two runs; every hazard listed is between two.  `mint_shared_clone` has two
  version groups in one clone, so that the second tag of a run can fail after its first;
  the second group's module has an image, in a registry that allows a version to be
  uploaded again, the artifacts' refuses; two commits, and the calver schema over two
  days, so that a second release of a day is refused and a run can follow a release and a
  moved branch.  `mint_two_clones` has one group with an artifact and an image in two
  clones, so that neither run sees the other's tags, two commits, two versions, and
  registries that refuse nothing, so that both runs plan one version from different
  commits and only origin refuses the second tag.  `mint_cleanup` adds versions given by
  hand.  Where a configuration has symmetry, runs are interchangeable and no property is a
  liveness property; the view of `mint_shared_clone` leaves out the worktrees and what a
  run that has ended does not need any more.  No cfg of mint switches the deadlock check
  off, and it says nothing there: `Fetch` is always enabled.
- **docker_store**: two helpers for two hosts, one edit, one power loss.  Two helpers are
  enough for a lost entry and for a lock whose holder dies; the theorems cover any
  number.
- **upload**: three maven executions: two upload one artifact, as a release and its second
  try do, the third another classifier of the version, all with the POM they share, to a
  registry that refuses to replace; two retries, so that a retry follows a lost answer and
  the budget ends.  A registry that replaces files is covered by the theorems only.
- **bootstrap**: two runs, one edit, two releases, one file for each way a file comes to
  a target.  A second run is what meets the leftovers of a first that stopped; what a
  third could break is what the theorems of `BootstrapProofs` cover for any number.
- **godeps**: two releases and two selections, as many runs as anybody likes; a module
  that every selection requires, one that some require and the second release drops, one
  that is the user's alone; a prerelease and its release, which are the versions that
  tuples compare in a way of their own.  By hand the user edits the module path; a
  `replace` is merged like it and covered by the theorems.  The view forgets the last
  selection between runs.
- **embedded**: three calls at once, the number in `main.cpp`.
- **install**: three releases, of which two are of one length and the third longer (a
  partial of the first is complete for the second and resumable for the third); three
  attempts and two stalled ones, so that either limit ends a download; runs without a
  bound; the three platforms, with and without a checksum tool, as initial states.
- **profile**: three runs that empty a directory, over one of seven workspaces: every
  language and mode alone, and two pairs that share a directory, one of which has a
  target of both modes.  A target with two benchmarks is enough for the loop over
  recordings, and a third run meets what two others left.

`CHECK_DEADLOCK FALSE` is in the configurations of systems that end: uploads, the
embedded process, and the bootstrap tool and the profiler at their bound of runs.

### Fairness
Safety is checked without fairness.  `WorktreesRemoved`, `HelpersEnd` and `UploadsEnd`
assume that a started execution takes its own steps (`WF` of `RunStep(r)`,
`HelperStep(p)`, `UploadStep(u)`): its statements run and its local commands return.
What waits on the network may not return: a stalled upload or push is a step of its own
(`Stall`, `Hang`), nothing makes it go on, and the properties allow for it.  The lock is
an `flock` that the kernel releases with the process, and in the instance it is granted
when it is free.
Weak fairness of the waiting helper is enough since others hold the lock a bounded
number of times.

`ProcessEnds` assumes that main and every thread are scheduled (`WF` of `MainStep` and
`WorkerStep(w)`), that a free GIL is given to a thread that waits for it (each thread
takes it a bounded number of times, so nobody waits for ever), and that the functions
called return, as those of the application do.  `DownloadEnds` assumes only that a started
run takes its steps: the curl of `download_lib.sh` has limits on connecting and on speed
(lines 76-78), and the network may answer as it likes.  `Recovers` speaks of the time
after `CalmDown`, an assumption about the environment that can come at any moment or
never: from then on no command fails, no one interrupts, the vendor publishes nothing, and
a user whose run did not succeed starts another (`WF` of that `Start`).  A run that hangs
on its checksum by then is exempt, and so is Windows, where no run succeeds.  Users, the
network, kills, the vendor and the calendar are not fair.

## 4. What the checks show

**mint.**  A run that builds and pushes has its tags at the commit it builds, although
nothing but the refusal of `git tag` keeps runs apart (`OwnTagsHeld`).  A tag on origin
stands for a run that published everything it selected (`TaggedReleasesAreComplete`, with
registries that refuse to replace), also when a push fails half way.  A success stays
released, at its commit (`DoneIsReleased`), though another clone pushes the same version
from another one.  Step by step, tags and versions appear as the ledger allows and nothing
that appeared goes away (`ImplementsLedger`), although two runs may push one version from
two commits: after a push that got through without an answer, the cleanup deletes the
local tag, and only the refusal of origin keeps the next run from moving it.  A tag that
is only in a clone has an owner or a known reason (`LocalTagsAccounted`): an interrupt, a
failure while tagging, or a deletion that git refused and nobody noticed.  The second
reason is a finding (`mint_cleanup`): the loop that tags is outside the `try` whose
`except` cleans up, against `tools/publish/README.md`.

**docker_login_helper.**  Logins are atomic and lose nothing of each other's
(`ImplementsStore`), provided users edit the file between helpers (`Careful`): `docker
login` knows nothing of the lock that the helper takes.  The file is
never torn, no error leaves a temporary file, and the lock is always passed on.

**publish_artifact.sh.**  A success that is no dry run means stored
(`SuccessMeansStored`); a 2xx for the artifact is never thrown away, by a retry or by what
happens to the POM (`SuccessIsKept`), but `set -e` may still end the script with 1 after
it, when a local command fails; a POM never comes before an artifact; and an execution
ends unless its connection stalls.

**bootstrap.**  What the user wrote in a region, a lock file or a file of their own
survives, until they agree to delete it (`EditsSurvive`); this too is for a user who does
not edit the very file the tool asks about (`Careful`).  Files once recorded stay listed
while they exist (`NothingForgotten`), with a fingerprint that shows a later change
(`ChangesAreSeen`).  Pruning before writing leaves a complete baseline
(`BaselineIsComplete`), generated targets lose their tool only when their remover failed
(`TargetsDoNotDangle`), and what the user refused at the first question of a run is still
there at its end, with `--prune` too (`RefusalsHold`).  The finding: with `--review` a
file the user refuses to delete is deleted with a directory they agree to, because both
are entries of the list (`bootstrap_review`).

**Go dependencies.**  What the user gets stays: direct, at its version, with checksum and
repository, until a release of the starter ships the module or the user drops it
(`YoursStay`).  All of this is for a user who is `Careful`.  `go.sum` covers what `go.mod`
requires between the writes of a run too, because it is written first (`SumsCover`); after
a run that wrote all three files `use_repo` names only what is required (`InStep`), and no
run lowers a version in the order that Go itself uses (`NoDowngrade`).  `InStep` has one
exception, which the code has: a run that stops after it took a module out of `go.mod` and
before `use_repo`, followed by a release that no longer ships the module, leaves a name
that looks like the repository's own for ever (`behind`).

**embedded application.**  Whatever step of a call fails or throws, and however threads
interleave, no call of CPython finds a thread state or a GIL in a way that ends the
process (`NeverFatal`); objects are released by the thread and in the subinterpreter they
come from (`ObjectsAtHome`), Python is finalized by main when nothing else is left
(`FinalizedAlone`), the exit code tells whether every call succeeded (`ImplementsCalls`),
and the process ends (`ProcessEnds`): nobody waits for a GIL that its holder keeps.

**downloads and the JDK installer.**  The loop makes at most one attempt more than its
ceiling, the one after a refused range (`AttemptsBounded`); `download_lib.sh:28` calls the
ceiling absolute.  With a checksum tool a success links every file of the verified release
(`InstalledIsVerified`): on Linux these alone, or else a torn directory of a run that was
stopped; on macOS with what older releases left in the shared directory; on Windows no run
succeeds, although the script lists URLs for it.  Files of a JDK in use go missing only
with a verified archive in hand, while it is extracted to the same directory or for
another one (`GivenUpForAnother`).  That other one is the verified release, whole, or it
is torn: the property names the case and does not exclude it, because the code allows it.
Once nothing fails any more a run succeeds, whatever is lying about, a partial of another
release included (`Recovers`).  The finding (`install_rerun`): the torn directory is taken
for the JDK, since a directory is chosen by its time, and reported as installed, where the
comment says the one of the version being installed is found.

**profiler.**  A run that succeeded has rendered all it recorded and nothing of earlier
runs (`SuccessIsComplete`): the directory is emptied first and a failure of any step is
one of the run.  The summary accounts once for every target and mode
(`SummaryIsTrue`), a single run exits with 0 only when it has profiled its target,
although a batch passes over what it skips (`ExitIsTrue`), and `--view` after a success
opens what that run has recorded (`ViewShowsLatest`), also when targets share a
directory.  After a run that failed nothing is promised: `--view` may open what it left.

## 5. What is proved

All theorems are for every value of the constants under the named assumptions of the
modules, which TLC evaluates in the runs.

| theorem | states | by |
|---|---|---|
| `MintReleaseProofs!TypeCorrect` | `[]TypeOK` | types, and that a run past planning has versions within the bounds |
| `MintReleaseProofs!OwnTagsAreHeld` | `[]OwnTagsHeld` | `TagInv`: tags owned in one clone by two runs differ, so nobody else deletes or moves them |
| `MintReleaseProofs!TaggedMeansComplete` | `[]TaggedReleasesAreComplete` | `ReleaseInv`: what a run uploaded is as it built it, and it pushes when nothing is left |
| `MintReleaseProofs!DoneStaysReleased` | `[]DoneIsReleased` | a tag on origin never moves (`TagsOfOriginStay`), and success is a push that all of the tags got through |
| `MintReleaseProofs!LocalTagsHaveOwners` | `[]LocalTagsAccounted` | one step: a new tag in a clone is of origin or of the run that made it, and a run that stops owning its tags has pushed or deleted them, or tells why not (`undeleted`, the outcome) |
| `MintReleaseProofs!ReleasesImplementLedger` | the step refinement of `PublishLedger` | `ReleaseInv` with `BranchInv` and `TodoInv`: a run works on a commit of the branch, and only on what it selected |
| `DockerLoginProofs!TypeCorrect`, `ConfigIsNeverTorn` | `[]TypeOK`, `NeverTorn` | `LockInv`: only the holder of the lock is in the `with`, and it renames a file that is complete on disk |
| `DockerLoginProofs!TempsAreAccounted` | `[]TempsAccounted` | `TempInv`: which steps have a temporary file |
| `DockerLoginProofs!HelpersImplementStore` | the step refinement of `AuthStore` | `MergeInv`: what is going to be written is the file as it is now with one entry replaced; needs `Careful` |
| `UploadProofs!TypeCorrect`, `SuccessIsStored`, `NoSuccessIsLost`, `PomComesLater` | the safety properties of `Upload` | `UploadInv`: a 2xx comes from the registry and is the last answer, what it took stays |
| `BootstrapProofs!TypeCorrect` | `[](TypeOK /\ OrphanInv)` | no orphan of a run is a file the run ships, so the two tables of the marker have no path in common |
| `BootstrapProofs!EditsAreSafe` | `Careful /\ Spec => []EditsSurvive` | `EditInv`: only what survives is owed, nothing owed is in the list to delete, and the text asked about has the edit that was read |
| `BootstrapProofs!NothingIsForgotten` | `[]NothingForgotten` | `RecordedInv`: from its first marker to its second, a run ships what is recorded or holds it as an orphan |
| `BootstrapProofs!RefusalsStand` | `[]RefusalsHold` | `RefusedInv`: what was refused is under a declined entry, and nothing about to be deleted or pruned is above it |
| `BootstrapProofs!BaselineStays` | `[]BaselineIsComplete` | `WrittenInv`: what is no longer in the list to write is written; the orphans that are deleted do not ship |
| `BootstrapProofs!ChangesStaySeen` | `Careful /\ Spec => []ChangesAreSeen` | `TouchedInv`: fingerprints are of past edits, and of another edit than the one in a file touched since |
| `BootstrapProofs!TargetsHaveRules` | `[]TargetsDoNotDangle` | `TargetInv`: a feature whose targets stand is in the marker, or is being removed, and nothing to be deleted is its generator; needs `GeneratorAssumption`, that there is one |
| `GoDepsProofs!TypeCorrect`, `OwnDepsStay`, `SumsAreCovered`, `RunsEndInStep`, `VersionsNeverFall` | `[]TypeOK`; `Careful /\ Spec =>` the properties of `GoDeps` | `ModInv`, `SumInv`, `NameInv`, `IdleInv`: what is written between two files of a run; `NoDowngrade` by a comparison of `SemverKey` with `Precedes` |
| `EmbeddedPythonProofs!TypeCorrect`, `GuardsAreSafe`, `ObjectsStayHome`, `FinalizedByMain` | `[]TypeOK`, `NeverFatal`, `ObjectsAtHome`, `FinalizedAlone` | `WorkerInv`: at each step of a call, which thread state is attached and which GIL is held; `MainInv`: no call has begun, or every call has been waited for |
| `EmbeddedPythonProofs!CallsImplemented` | the step refinement of `Calls` | the same invariant |
| `JdkInstallProofs!TypeCorrect`, `AttemptsAreBounded` | `[]TypeOK`, `AttemptsBounded` | `DownloadInv`: a download that goes on has attempts left, or has just used its restart |
| `JdkInstallProofs!VerifiedIsInstalled`, `InUseIsSafe` | `[]InstalledIsVerified`, `GivenUpForAnother` | `DirInv`, `PieceInv`, `SumInv`, `ChosenInv`: which times torn directories have, which releases have files in a directory on each platform, and what is going to be linked |
| `ProfileProofs!TypeCorrect`, `SuccessMeansComplete` | `[]TypeOK`, `SuccessIsComplete` | `PlanInv`: `Progress`, what is true of files, recordings and drawings at each step of a plan |
| `ProfileProofs!SummaryTells` | `[]SummaryIsTrue` | `BatchInv`: what a batch has run, has at hand and has yet to run is what it has discovered |
| `ProfileProofs!ExitTells` | `[]ExitIsTrue` | a single run ends well in one way (`EndsWell`) |
| `ProfileProofs!ViewIsLatest` | `[]ViewShowsLatest` | `HistoryInv`: no run enters two places, and no file is younger than the last run of its place |

Each argument is the same: the property is not inductive, since it says nothing of what
a process is *going* to write or delete; the invariant named adds that, holds initially,
and every action keeps it (one step of the proof per action).

In `ProfileProofs` a step of a plan is not one action but fourteen plans' worth of them.
The module puts the plans in numbers they have in common (where the program runs, where
the main part begins, at which step an artifact is drawn) and shows once, a lemma per
language, mode and sampler, that each plan has them (`PlanShape`); the lemmas on single
steps (`Captures`, `Collects`, `Converts`, `Draws`, `Turnover`, `Removes`) use the
numbers alone.  `DrawInv` is what makes the loops work: a recording is drawn, or is still
in `todo`, and if it is the one at hand, its drawing is yet to come in this turn.
`Within` and `Settled` show what such a step, or the end of a run, cannot disturb.

For `MintRelease`, `DockerLogin`, `GoDeps`, `EmbeddedPython`, `JdkInstall` and `Profile`
the type invariant is proved and no run repeats it.

Model-checked only: the liveness properties (`WorktreesRemoved`, `HelpersEnd`,
`UploadsEnd`, `ProcessEnds`, `DownloadEnds`, `Recovers`), since they need fairness, which
the prover does not handle.  Every safety property of a passing run has a theorem.

## 6. What is left

1. The section filter and the user region of `processor.py`, line by line, against a
   reference definition: functions on text that would need a module without theorems.
2. The heap and CPU reports of the profiler (`spine.py`), against a reference definition.
3. The Gazelle generators: inheritance of directives, and the choice and the removal of
   generated rules; composed with `Bootstrap`, whose removers and finalizers are one step.
4. `MintRelease` with the steps of `Upload` inside a publish target, so that a repeated
   release meets what an unsure upload left behind.
