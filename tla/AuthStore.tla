------------------------------ MODULE AuthStore ------------------------------
(***************************************************************************)
(* What docker_login_helper.py promises: a store of registry credentials   *)
(* in which a login is one step that sets one entry and nothing else.      *)
(*                                                                         *)
(* "Owns exactly one key in config.json ... serialised via flock(2) ...    *)
(* Atomicity: tempfile + rename" (tools/publish/docker_login_helper.py).   *)
(***************************************************************************)
EXTENDS Naturals

CONSTANTS Helpers, Hosts, HostOf, Entries, NoEntry

VARIABLES
    entry,      \* [Hosts -> Entries or NoEntry]
    delegated,  \* hosts whose authentication belongs to a credential helper
    settled,    \* the entries and delegations a power loss falls back to
    logged,     \* the helpers that have logged in
    edits,      \* how many times somebody else changed the file
    losses      \* how many times the power was lost

storeVars == <<entry, delegated, settled, logged, edits, losses>>

AnyEntries == [Hosts -> Entries \cup {NoEntry}]

Init ==
    /\ entry \in AnyEntries
    /\ delegated \in SUBSET Hosts
    /\ settled = <<entry, delegated>>
    /\ logged = {}
    /\ edits = 0
    /\ losses = 0

\* A helper logs in once, at a host nobody else is delegated to.
Login(p) ==
    /\ p \notin logged
    /\ HostOf[p] \notin delegated
    /\ \E c \in Entries : entry' = [entry EXCEPT ![HostOf[p]] = c]
    /\ logged' = logged \cup {p}
    /\ UNCHANGED <<delegated, settled, edits, losses>>

\* docker login, docker logout, or an editor.
Edit ==
    /\ entry' \in AnyEntries
    /\ delegated' \in SUBSET Hosts
    /\ edits' = edits + 1
    /\ UNCHANGED <<settled, logged, losses>>

Settle ==
    /\ settled' = <<entry, delegated>>
    /\ UNCHANGED <<entry, delegated, logged, edits, losses>>

PowerLoss ==
    /\ entry' = settled[1]
    /\ delegated' = settled[2]
    /\ losses' = losses + 1
    /\ UNCHANGED <<settled, logged, edits>>

Next ==
    \/ \E p \in Helpers : Login(p)
    \/ Edit
    \/ Settle
    \/ PowerLoss

Spec == Init /\ [][Next]_storeVars
=============================================================================
