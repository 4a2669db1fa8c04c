----------------------------- MODULE DockerLogin -----------------------------
(***************************************************************************)
(* docker_login_helper.py: every publish of an image runs it first, to put *)
(* the credentials of one registry host into ~/.docker/config.json.        *)
(*                                                                         *)
(* Several helpers run at once, for the same host or for others.  They     *)
(* take an flock on config.json.lock around a read, a merge and an atomic  *)
(* replace of the file.  docker itself and the user edit the same file     *)
(* without that lock.  A power loss takes back whatever the file system    *)
(* has not written yet.                                                    *)
(***************************************************************************)
EXTENDS Naturals, FiniteSets

CONSTANTS
    Helpers,     \* executions of the helper, one use each
    Hosts,       \* registry hosts
    HostOf,      \* [Helpers -> Hosts], --registry
    MaxCred,     \* how often .netrc is rewritten, plus one (a bound)
    Nobody,      \* the lock is free
    Careful,     \* users edit config.json only while no helper holds the lock
    MaxEdits,    \* bound on the edits of users
    MaxLosses    \* bound on power losses

ASSUME HostAssumption == HostOf \in [Helpers -> Hosts]
ASSUME NobodyAssumption == Nobody \notin Helpers
ASSUME BoundAssumption ==
    MaxCred \in Nat \ {0} /\ MaxEdits \in Nat /\ MaxLosses \in Nat
ASSUME CarefulAssumption == Careful \in BOOLEAN

VARIABLES
    netrc,      \* [Hosts -> generation of its credentials in .netrc]
    config,     \* config.json as every process sees it
    settled,    \* config.json as it is after a power loss
    lock,       \* the helper that holds the flock, or Nobody
    pc,         \* [Helpers -> where it is]
    cred,       \* [Helpers -> what it read from .netrc]
    merged,     \* [Helpers -> the configuration it is going to write]
    temp,       \* [Helpers -> its temporary file]
    outcome,    \* [Helpers -> how it ended, or is going to end]
    edits,      \* edits by users so far
    losses      \* power losses so far

vars == <<netrc, config, settled, lock, pc, cred, merged, temp, outcome, edits, losses>>

-----------------------------------------------------------------------------
\* A credential is the generation of the .netrc it comes from; a docker login
\* writes one of its own.  0 is no entry.
Creds == 1 .. MaxCred
NoEntry == 0
DockerEntry == MaxCred + 1
Entries == Creds \cup {DockerEntry}

\* "unusable" is malformed JSON, JSON that is no object, or auths that is none.
Kinds == {"absent", "object", "unusable"}
Files == [kind : Kinds, entry : [Hosts -> Entries \cup {NoEntry}], delegated : SUBSET Hosts]
NoEntries == [h \in Hosts |-> NoEntry]
Absent == [kind |-> "absent", entry |-> NoEntries, delegated |-> {}]
Unusable == [kind |-> "unusable", entry |-> NoEntries, delegated |-> {}]

Temps == {"none", "empty", "written", "synced"}
PCs == {"start", "lock", "read", "create", "write", "sync", "rename", "unlock",
        "done", "failed", "killed"}

\* The body of the with statement; writing has a temporary file.
Locked(p) == pc[p] \in {"read", "create", "write", "sync", "rename", "unlock"}
Writing(p) == pc[p] \in {"write", "sync", "rename"}
Active(p) == Locked(p) \/ pc[p] = "lock"

Goto(p, label) == pc' = [pc EXCEPT ![p] = label]
Leave(p, how) ==
    /\ Goto(p, "unlock")
    /\ outcome' = [outcome EXCEPT ![p] = how]

\* merge_auth: one entry is replaced, every other field kept.
WithAuth(f, h, c) ==
    [kind |-> "object", entry |-> [f.entry EXCEPT ![h] = c], delegated |-> f.delegated]

-----------------------------------------------------------------------------
InitialFiles ==
    {Absent, Unusable} \cup
    {[kind |-> "object", entry |-> NoEntries, delegated |-> d] : d \in SUBSET Hosts}

Init ==
    /\ netrc \in [Hosts -> {NoEntry, 1}]
    /\ config \in InitialFiles
    /\ settled = config
    /\ lock = Nobody
    /\ pc = [p \in Helpers |-> "start"]
    /\ cred = [p \in Helpers |-> NoEntry]
    /\ merged = [p \in Helpers |-> Absent]
    /\ temp = [p \in Helpers |-> "none"]
    /\ outcome = [p \in Helpers |-> "none"]
    /\ edits = 0
    /\ losses = 0

-----------------------------------------------------------------------------
\* load_credentials: .netrc is read before the lock is taken.
LoadCredentials(p) ==
    /\ pc[p] = "start"
    /\ netrc[HostOf[p]] # NoEntry
    /\ cred' = [cred EXCEPT ![p] = netrc[HostOf[p]]]
    /\ Goto(p, "lock")
    /\ UNCHANGED <<netrc, config, settled, lock, merged, temp, outcome, edits, losses>>

NoCredentials(p) ==
    /\ pc[p] = "start"
    /\ netrc[HostOf[p]] = NoEntry
    /\ Goto(p, "failed")
    /\ outcome' = [outcome EXCEPT ![p] = "error"]
    /\ UNCHANGED <<netrc, config, settled, lock, cred, merged, temp, edits, losses>>

\* Mutant: LOCK_SH for LOCK_EX.
AcquireShared(p) ==
    /\ pc[p] = "lock"
    /\ lock' = p
    /\ Goto(p, "read")
    /\ UNCHANGED <<netrc, config, settled, cred, merged, temp, outcome, edits, losses>>

\* lock_file: flock(LOCK_EX) blocks while another process holds it.
Acquire(p) ==
    /\ pc[p] = "lock"
    /\ lock = Nobody
    /\ lock' = p
    /\ Goto(p, "read")
    /\ UNCHANGED <<netrc, config, settled, cred, merged, temp, outcome, edits, losses>>

\* read_existing_config, check_conflicts and merge_auth.
Read(p) ==
    /\ pc[p] = "read"
    /\ config.kind # "unusable"
    /\ HostOf[p] \notin config.delegated
    /\ merged' = [merged EXCEPT ![p] = WithAuth(config, HostOf[p], cred[p])]
    /\ Goto(p, "create")
    /\ UNCHANGED <<netrc, config, settled, lock, cred, temp, outcome, edits, losses>>

\* They refuse: sys.exit inside the with statement.
Refuse(p) ==
    /\ pc[p] = "read"
    /\ config.kind = "unusable" \/ HostOf[p] \in config.delegated
    /\ Leave(p, "error")
    /\ UNCHANGED <<netrc, config, settled, lock, cred, merged, temp, edits, losses>>
-----------------------------------------------------------------------------
\* atomic_write: mkstemp, json.dump, fsync, rename over the file.
CreateTemp(p) ==
    /\ pc[p] = "create"
    /\ temp' = [temp EXCEPT ![p] = "empty"]
    /\ Goto(p, "write")
    /\ UNCHANGED <<netrc, config, settled, lock, cred, merged, outcome, edits, losses>>

WriteTemp(p) ==
    /\ pc[p] = "write"
    /\ temp' = [temp EXCEPT ![p] = "written"]
    /\ Goto(p, "sync")
    /\ UNCHANGED <<netrc, config, settled, lock, cred, merged, outcome, edits, losses>>

\* Mutant: no fsync before the rename.
SkipSync(p) ==
    /\ pc[p] = "sync"
    /\ Goto(p, "rename")
    /\ UNCHANGED <<netrc, config, settled, lock, cred, merged, temp, outcome, edits, losses>>

SyncTemp(p) ==
    /\ pc[p] = "sync"
    /\ temp' = [temp EXCEPT ![p] = "synced"]
    /\ Goto(p, "rename")
    /\ UNCHANGED <<netrc, config, settled, lock, cred, merged, outcome, edits, losses>>

\* A file that is renamed before its data is on disk may be found empty later.
Rename(p) ==
    /\ pc[p] = "rename"
    /\ config' = merged[p]
    /\ settled' = IF temp[p] = "synced" THEN settled ELSE Unusable
    /\ temp' = [temp EXCEPT ![p] = "none"]
    /\ Leave(p, "ok")
    /\ UNCHANGED <<netrc, lock, cred, merged, edits, losses>>

\* Mutant: the temporary file is not removed when writing it fails.
FailDirty(p) ==
    /\ pc[p] = "create" \/ Writing(p)
    /\ Leave(p, "error")
    /\ UNCHANGED <<netrc, config, settled, lock, cred, merged, temp, edits, losses>>

\* An OSError (no space, no permission): the temporary file is removed.
Fail(p) ==
    /\ pc[p] = "create" \/ Writing(p)
    /\ temp' = [temp EXCEPT ![p] = "none"]
    /\ Leave(p, "error")
    /\ UNCHANGED <<netrc, config, settled, lock, cred, merged, edits, losses>>

\* The finally clause of lock_file.
Release(p) ==
    /\ pc[p] = "unlock"
    /\ lock' = Nobody
    /\ Goto(p, IF outcome[p] = "ok" THEN "done" ELSE "failed")
    /\ UNCHANGED <<netrc, config, settled, cred, merged, temp, outcome, edits, losses>>
-----------------------------------------------------------------------------
\* Ctrl-C under the lock: KeyboardInterrupt is no Exception, so the temporary file
\* stays; the lock is released.
Interrupt(p) ==
    /\ Locked(p) /\ pc[p] # "unlock"
    /\ Leave(p, "interrupted")
    /\ UNCHANGED <<netrc, config, settled, lock, cred, merged, temp, edits, losses>>

\* Mutant: a lock file made with O_EXCL for the flock; a dead helper does not unlink it.
KillKeepsLockFile(p) ==
    /\ Active(p)
    /\ Goto(p, "killed")
    /\ UNCHANGED <<netrc, config, settled, lock, cred, merged, temp, outcome, edits, losses>>

\* The process dies: the kernel drops its flock with its file descriptor.
Kill(p) ==
    /\ Active(p)
    /\ lock' = IF lock = p THEN Nobody ELSE lock
    /\ Goto(p, "killed")
    /\ UNCHANGED <<netrc, config, settled, cred, merged, temp, outcome, edits, losses>>

\* The file system writes the directory entry out.
Settle ==
    /\ settled' = IF settled.kind = "unusable" THEN settled ELSE config
    /\ UNCHANGED <<netrc, config, lock, pc, cred, merged, temp, outcome, edits, losses>>

\* The machine stops and starts again.
PowerLoss ==
    /\ losses < MaxLosses
    /\ losses' = losses + 1
    /\ config' = settled
    /\ lock' = Nobody
    /\ pc' = [p \in Helpers |-> IF Active(p) THEN "killed" ELSE pc[p]]
    /\ UNCHANGED <<netrc, settled, cred, merged, temp, outcome, edits>>

\* The user replaces the credentials of a host in .netrc.
Rotate(h) ==
    /\ netrc[h] < MaxCred
    /\ netrc' = [netrc EXCEPT ![h] = @ + 1]
    /\ UNCHANGED <<config, settled, lock, pc, cred, merged, temp, outcome, edits, losses>>

\* docker login, docker logout, or credHelpers set or removed by hand.
Edit(h) ==
    /\ edits < MaxEdits
    /\ Careful => lock = Nobody
    /\ config.kind = "object"
    /\ edits' = edits + 1
    /\ \/ \E e \in {DockerEntry, NoEntry} : config' = [config EXCEPT !.entry = [@ EXCEPT ![h] = e]]
       \/ config' = [config EXCEPT !.delegated = @ \cup {h}]
       \/ config' = [config EXCEPT !.delegated = @ \ {h}]
    /\ UNCHANGED <<netrc, settled, lock, pc, cred, merged, temp, outcome, losses>>
-----------------------------------------------------------------------------
HelperStep(p) ==
    \/ LoadCredentials(p) \/ NoCredentials(p) \/ Acquire(p)
    \/ Read(p) \/ Refuse(p)
    \/ CreateTemp(p) \/ WriteTemp(p) \/ SyncTemp(p) \/ Rename(p) \/ Fail(p)
    \/ Release(p)

Next ==
    \/ \E p \in Helpers : HelperStep(p) \/ Interrupt(p) \/ Kill(p)
    \/ Settle \/ PowerLoss
    \/ \E h \in Hosts : Rotate(h) \/ Edit(h)

Spec == Init /\ [][Next]_vars

\* A helper that can run does run; a blocked flock is granted when it is free.
Fairness == \A p \in Helpers : WF_vars(HelperStep(p))
FairSpec == Spec /\ Fairness
-----------------------------------------------------------------------------
TypeOK ==
    /\ netrc \in [Hosts -> Creds \cup {NoEntry}]
    /\ config \in Files
    /\ settled \in Files
    /\ lock \in Helpers \cup {Nobody}
    /\ pc \in [Helpers -> PCs]
    /\ cred \in [Helpers -> Creds \cup {NoEntry}]
    /\ \A p \in Helpers : cred[p] = NoEntry => pc[p] \in {"start", "failed"}
    /\ merged \in [Helpers -> Files]
    /\ temp \in [Helpers -> Temps]
    /\ outcome \in [Helpers -> {"none", "ok", "error", "interrupted"}]
    /\ edits \in 0 .. MaxEdits
    /\ losses \in 0 .. MaxLosses

\* A configuration that could be read is never found torn, whatever is killed and
\* whenever the power is lost ("Atomicity: tempfile + rename").
NeverTorn == [][config.kind # "unusable" => config'.kind # "unusable"]_vars

\* Every temporary file on disk is being written, or was left by a helper that was
\* interrupted or killed: no error leaves one.
TempsAccounted ==
    \A p \in Helpers : temp[p] # "none" =>
        Writing(p) \/ outcome[p] = "interrupted" \/ pc[p] = "killed"

\* A helper that waits for the lock gets to its end, though others fail, are
\* interrupted or die while they hold it.
HelpersEnd ==
    \A p \in Helpers : Active(p) ~> pc[p] \in {"done", "failed", "killed"}

\* The helpers implement the store: each login is one step that sets one entry, and
\* a power loss falls back to an earlier state of the whole store.
Logged == {p \in Helpers : outcome[p] = "ok"}
Store == INSTANCE AuthStore WITH
    entry <- config.entry,
    delegated <- config.delegated,
    settled <- <<settled.entry, settled.delegated>>,
    logged <- Logged
ImplementsStore == Store!Spec

\* The invariant behind them: only the helper that holds the lock is in the with
\* statement, and what it renames is a usable file that is complete on disk.
Merging(p) == pc[p] \in {"create", "write", "sync", "rename"}
LockInv ==
    /\ \A p \in Helpers : Locked(p) => lock = p
    /\ \A p \in Helpers :
          Merging(p) => config.kind # "unusable" /\ merged[p].kind = "object"
    /\ \A p \in Helpers : pc[p] = "rename" => temp[p] = "synced"
    /\ \A p \in Helpers : outcome[p] = "ok" => pc[p] \in {"unlock", "done", "killed"}
    /\ settled.kind = "unusable" <=> config.kind = "unusable"

\* What it is going to write is the file as it is now, its own entry replaced.
Current(p) ==
    /\ HostOf[p] \notin config.delegated
    /\ merged[p] = WithAuth(config, HostOf[p], cred[p])
MergeInv == Careful => \A p \in Helpers : Merging(p) => Current(p)

=============================================================================
