---------------------------- MODULE PublishLedger ----------------------------
(***************************************************************************)
(* What release mode of mint promises to those who ask for a release, read *)
(* the tags of origin and download from the registries: a ledger in which  *)
(* nothing immutable is replaced, no tag moves or goes away, and tags      *)
(* appear in one step for a release that was asked for, after every target *)
(* it asked for was published from one commit of the branch.               *)
(*                                                                         *)
(* "Pushes tags only after all publishes succeed" (tools/publish/README.md)*)
(***************************************************************************)
EXTENDS Naturals

CONSTANTS
    Runs,       \* the releases somebody may ask for
    Prefixes,   \* tag prefixes
    Modules,
    PrefixOf,   \* [Modules -> Prefixes]
    Targets,    \* publish targets, records with a module and a track
    Immutable,  \* tracks whose registry refuses to replace a version
    Versions,
    Scopes,     \* the sets of modules a release may be of
    Includes    \* the sets of tracks a release may include

VARIABLES
    tip,        \* the commits of the branch are 1 .. tip
    origin,     \* [Tags -> the commit of the tag, 0 when there is none]
    store,      \* [Targets -> [Versions -> the commits uploaded as that version]]
    mods,       \* [Runs -> the modules asked for, {} before]
    include     \* [Runs -> the tracks asked for]

ledger == <<tip, origin, store, mods, include>>

Tags == Prefixes \X Versions
PrefixesOf(M) == {PrefixOf[m] : m \in M}

Init ==
    /\ tip = 1
    /\ origin = [t \in Tags |-> 0]
    /\ store = [t \in Targets |-> [v \in Versions |-> {}]]
    /\ mods = [r \in Runs |-> {}]
    /\ include = [r \in Runs |-> {}]

\* The branch grows.
Land ==
    /\ tip' = tip + 1
    /\ UNCHANGED <<origin, store, mods, include>>

\* Somebody asks for a release, once.
Ask(r) ==
    /\ mods[r] = {} /\ mods' # mods
    /\ \E M \in Scopes, I \in Includes :
        /\ mods' = [mods EXCEPT ![r] = M]
        /\ include' = [include EXCEPT ![r] = I]
    /\ UNCHANGED <<tip, origin, store>>

\* A target built from a commit of the branch is stored as some version.
Upload ==
    /\ store' # store
    /\ \E t \in Targets, v \in Versions, c \in 1 .. tip :
        /\ t.track \in Immutable => store[t][v] = {}
        /\ store' = [store EXCEPT ![t][v] = @ \cup {c}]
    /\ UNCHANGED <<tip, origin, mods, include>>

\* All that release r was asked for is in the registries as built from commit c, and
\* nothing else is there under an immutable version.
Published(r, version, c) ==
    \A t \in Targets :
        t.mod \in mods[r] /\ t.track \in include[r] =>
            LET there == store[t][version[PrefixOf[t.mod]]]
            IN  c \in there /\ (t.track \in Immutable => there = {c})

\* Origin with the tags of some prefixes added, all of them at commit c.
WithTags(new, version, c) ==
    [t \in Tags |-> IF \E p \in new : t = <<p, version[p]>> THEN c ELSE origin[t]]

\* A push brings new tags of what is published, not always all of them.
Push(r) ==
    /\ UNCHANGED <<tip, store, mods, include>>
    /\ origin' # origin
    /\ \E version \in [PrefixesOf(mods[r]) -> Versions], c \in 1 .. tip :
       \E new \in SUBSET PrefixesOf(mods[r]) :
        /\ Published(r, version, c)
        /\ \A p \in new : origin[<<p, version[p]>>] = 0
        /\ origin' = WithTags(new, version, c)

Next == Land \/ Upload \/ \E r \in Runs : Ask(r) \/ Push(r)

Spec == Init /\ [][Next]_ledger
=============================================================================
