-------------------------- MODULE DockerLoginProofs --------------------------
(***************************************************************************)
(* Proofs about DockerLogin, for any helpers, hosts and bounds.            *)
(***************************************************************************)
EXTENDS DockerLogin, TLAPS

USE HostAssumption, NobodyAssumption, BoundAssumption, CarefulAssumption

-----------------------------------------------------------------------------
\* The files merge_auth starts from and makes are files of the model.
LEMMA AbsentIsFile == Absent \in Files /\ Unusable \in Files
BY DEF Absent, Unusable, Files, Kinds, NoEntries, NoEntry

\* merge_auth returns a file with the given entry.
LEMMA WithAuthType ==
    ASSUME NEW f \in Files, NEW h \in Hosts, NEW c \in Creds
    PROVE  /\ WithAuth(f, h, c) \in Files
           /\ WithAuth(f, h, c).kind = "object"
           /\ WithAuth(f, h, c).entry = [f.entry EXCEPT ![h] = c]
           /\ WithAuth(f, h, c).delegated = f.delegated
<1>1. c \in Entries \cup {NoEntry}
  BY DEF Entries
<1>2. [f.entry EXCEPT ![h] = c] \in [Hosts -> Entries \cup {NoEntry}]
  BY <1>1 DEF Files
<1> DEFINE e == [f.entry EXCEPT ![h] = c]
<1>3. WithAuth(f, h, c) = [kind |-> "object", entry |-> e, delegated |-> f.delegated]
  BY DEF WithAuth, Files
<1>4. f.delegated \in SUBSET Hosts
  BY DEF Files
<1> HIDE DEF e
<1>5. QED
  BY <1>2, <1>3, <1>4 DEF Files, Kinds, e

\* An edit of a user leaves a file of the model.
LEMMA EditType ==
    ASSUME NEW h \in Hosts, config \in Files, config.kind = "object", Edit(h)
    PROVE  config' \in Files /\ config'.kind = "object"
<1>1. NoEntry \in Entries \cup {NoEntry} /\ DockerEntry \in Entries
  BY DEF Entries
<1>2. CASE \E e \in {DockerEntry, NoEntry} : config' = [config EXCEPT !.entry = [@ EXCEPT ![h] = e]]
  <2> PICK e \in {DockerEntry, NoEntry} : config' = [config EXCEPT !.entry = [@ EXCEPT ![h] = e]]
    BY <1>2
  <2>1. [config.entry EXCEPT ![h] = e] \in [Hosts -> Entries \cup {NoEntry}]
    BY <1>1 DEF Files
  <2>2. config' = [kind |-> config.kind, entry |-> [config.entry EXCEPT ![h] = e],
                   delegated |-> config.delegated]
    BY DEF Files
  <2> QED
    BY <2>1, <2>2 DEF Files
<1>3. CASE config' = [config EXCEPT !.delegated = @ \cup {h}]
  BY <1>3 DEF Files
<1>4. CASE config' = [config EXCEPT !.delegated = @ \ {h}]
  BY <1>4 DEF Files
<1> QED
  BY <1>2, <1>3, <1>4 DEF Edit
-----------------------------------------------------------------------------
\* The initial states are typed.
LEMMA TypeInit == Init => TypeOK
<1> SUFFICES ASSUME Init PROVE TypeOK
  OBVIOUS
<1>1. config \in Files
  BY AbsentIsFile DEF Init, InitialFiles, Files, Kinds, NoEntries
<1>2. netrc \in [Hosts -> Creds \cup {NoEntry}]
  <2>1. 1 \in Creds
    BY DEF Creds
  <2> QED
    BY <2>1 DEF Init
<1>3. QED
  BY <1>1, <1>2, AbsentIsFile DEF Init, TypeOK, PCs, Temps, NoEntry

\* Every step keeps the types.
LEMMA TypeNext == TypeOK /\ [Next]_vars => TypeOK'
<1> SUFFICES ASSUME TypeOK, [Next]_vars PROVE TypeOK'
  OBVIOUS
<1>1. ASSUME NEW p \in Helpers, HelperStep(p) PROVE TypeOK'
  <2>1. HostOf[p] \in Hosts
    OBVIOUS
  <2>2. CASE LoadCredentials(p)
    <3>1. netrc[HostOf[p]] \in Creds
      BY <2>1, <2>2 DEF TypeOK, LoadCredentials
    <3> QED
      BY <2>2, <3>1 DEF TypeOK, LoadCredentials, Goto, PCs, Creds, NoEntry
  <2>3. CASE NoCredentials(p)
    BY <2>3 DEF TypeOK, NoCredentials, Goto, PCs
  <2>4. CASE Acquire(p)
    BY <2>4 DEF TypeOK, Acquire, Goto, PCs
  <2>5. CASE Read(p)
    <3>1. cred[p] \in Creds
      BY <2>5 DEF TypeOK, Read
    <3>2. WithAuth(config, HostOf[p], cred[p]) \in Files
      BY <2>1, <3>1, WithAuthType DEF TypeOK
    <3> QED
      BY <2>5, <3>2 DEF TypeOK, Read, Goto, PCs
  <2>6. CASE Refuse(p)
    BY <2>6 DEF TypeOK, Refuse, Leave, Goto, PCs
  <2>7. CASE CreateTemp(p)
    BY <2>7 DEF TypeOK, CreateTemp, Goto, PCs, Temps
  <2>8. CASE WriteTemp(p)
    BY <2>8 DEF TypeOK, WriteTemp, Goto, PCs, Temps
  <2>9. CASE SyncTemp(p)
    BY <2>9 DEF TypeOK, SyncTemp, Goto, PCs, Temps
  <2>10. CASE Rename(p)
    BY <2>10, AbsentIsFile DEF TypeOK, Rename, Leave, Goto, PCs, Temps
  <2>11. CASE Fail(p)
    BY <2>11 DEF TypeOK, Fail, Leave, Goto, PCs, Temps, Writing
  <2>12. CASE Release(p)
    BY <2>12 DEF TypeOK, Release, Goto, PCs
  <2> QED
    BY <1>1, <2>2, <2>3, <2>4, <2>5, <2>6, <2>7, <2>8, <2>9, <2>10, <2>11, <2>12
       DEF HelperStep
<1>2. ASSUME NEW p \in Helpers, Interrupt(p) PROVE TypeOK'
  BY <1>2 DEF TypeOK, Interrupt, Locked, Leave, Goto, PCs
<1>3. ASSUME NEW p \in Helpers, Kill(p) PROVE TypeOK'
  BY <1>3 DEF TypeOK, Kill, Active, Locked, Goto, PCs
<1>4. CASE Settle
  BY <1>4 DEF TypeOK, Settle
<1>5. CASE PowerLoss
  <2>1. \A p \in Helpers : Active(p) => cred[p] # NoEntry
    BY DEF TypeOK, Active, Locked
  <2>2. losses' \in 0 .. MaxLosses
    BY <1>5 DEF TypeOK, PowerLoss
  <2>3. pc' \in [Helpers -> PCs]
    BY <1>5 DEF TypeOK, PowerLoss, PCs
  <2>4. \A p \in Helpers : cred'[p] = NoEntry => pc'[p] \in {"start", "failed"}
    BY <1>5, <2>1 DEF TypeOK, PowerLoss
  <2> QED
    BY <1>5, <2>2, <2>3, <2>4 DEF TypeOK, PowerLoss
<1>6. ASSUME NEW h \in Hosts, Rotate(h) PROVE TypeOK'
  <2>1. netrc[h] + 1 \in Creds
    BY <1>6 DEF TypeOK, Rotate, Creds, NoEntry
  <2> QED
    BY <1>6, <2>1 DEF TypeOK, Rotate
<1>7. ASSUME NEW h \in Hosts, Edit(h) PROVE TypeOK'
  <2>1. config' \in Files
    BY <1>7, EditType DEF TypeOK, Edit
  <2>2. edits' \in 0 .. MaxEdits
    BY <1>7 DEF TypeOK, Edit
  <2> QED
    BY <1>7, <2>1, <2>2 DEF TypeOK, Edit
<1>8. CASE UNCHANGED vars
  BY <1>8 DEF TypeOK, vars
<1> QED
  BY <1>1, <1>2, <1>3, <1>4, <1>5, <1>6, <1>7, <1>8 DEF Next

\* The helpers, the file and the lock always have the declared types, and a helper
\* past load_credentials has credentials.
THEOREM TypeCorrect == Spec => []TypeOK
<1> QED
  BY TypeInit, TypeNext, PTL DEF Spec
-----------------------------------------------------------------------------
\* Nobody is in the with statement at first, and no file is half written.
LEMMA LockInit == Init => LockInv /\ MergeInv
BY DEF Init, LockInv, MergeInv, Merging, Locked

\* Every step keeps the lock discipline.
LEMMA LockNext == TypeOK /\ LockInv /\ [Next]_vars => LockInv'
<1> SUFFICES ASSUME TypeOK, LockInv, [Next]_vars PROVE LockInv'
  OBVIOUS
<1>0. /\ pc \in [Helpers -> PCs] /\ outcome \in [Helpers -> {"none", "ok", "error", "interrupted"}]
      /\ temp \in [Helpers -> Temps] /\ merged \in [Helpers -> Files]
      /\ config \in Files /\ settled \in Files
  BY DEF TypeOK
<1> USE DEF LockInv, Merging, Locked, Goto
<1>1. ASSUME NEW p \in Helpers, HelperStep(p) PROVE LockInv'
  <2>2. CASE LoadCredentials(p)
    BY <1>0, <2>2 DEF LoadCredentials
  <2>3. CASE NoCredentials(p)
    BY <1>0, <2>3 DEF NoCredentials
  <2>4. CASE Acquire(p)
    BY <1>0, <2>4 DEF Acquire
  <2>5. CASE Read(p)
    <3>1. WithAuth(config, HostOf[p], cred[p]).kind = "object"
      BY DEF WithAuth
    <3> QED
      BY <1>0, <2>5, <3>1 DEF Read
  <2>6. CASE Refuse(p)
    BY <1>0, <2>6 DEF Refuse, Leave
  <2>7. CASE CreateTemp(p)
    BY <1>0, <2>7 DEF CreateTemp
  <2>8. CASE WriteTemp(p)
    BY <1>0, <2>8 DEF WriteTemp
  <2>9. CASE SyncTemp(p)
    BY <1>0, <2>9 DEF SyncTemp
  <2>10. CASE Rename(p)
    <3>1. lock = p /\ merged[p].kind = "object" /\ config.kind # "unusable" /\ temp[p] = "synced"
      BY <2>10 DEF Rename
    <3>2. \A q \in Helpers \ {p} : ~Locked(q)
      BY <3>1
    <3>3. settled'.kind # "unusable" /\ config'.kind = "object"
      BY <2>10, <3>1 DEF Rename
    <3> QED
      BY <1>0, <2>10, <3>1, <3>2, <3>3 DEF Rename, Leave
  <2>11. CASE Fail(p)
    BY <1>0, <2>11 DEF Fail, Leave, Writing
  <2>12. CASE Release(p)
    BY <1>0, <2>12 DEF Release
  <2> QED
    BY <1>1, <2>2, <2>3, <2>4, <2>5, <2>6, <2>7, <2>8, <2>9, <2>10, <2>11, <2>12
       DEF HelperStep
<1>2. ASSUME NEW p \in Helpers, Interrupt(p) PROVE LockInv'
  BY <1>0, <1>2 DEF Interrupt, Leave
<1>3. ASSUME NEW p \in Helpers, Kill(p) PROVE LockInv'
  BY <1>0, <1>3 DEF Kill, Active
<1>4. CASE Settle
  BY <1>0, <1>4 DEF Settle
<1>5. CASE PowerLoss
  BY <1>0, <1>5 DEF PowerLoss, Active
<1>6. ASSUME NEW h \in Hosts, Rotate(h) PROVE LockInv'
  BY <1>6 DEF Rotate
<1>7. ASSUME NEW h \in Hosts, Edit(h) PROVE LockInv'
  <2>1. config'.kind = "object" /\ config.kind = "object"
    BY <1>0, <1>7, EditType DEF Edit
  <2> QED
    BY <1>7, <2>1 DEF Edit
<1>8. CASE UNCHANGED vars
  BY <1>8 DEF vars
<1> QED
  BY <1>1, <1>2, <1>3, <1>4, <1>5, <1>6, <1>7, <1>8 DEF Next

\* The lock discipline is an invariant.
LEMMA LockInvariant == Spec => []LockInv
<1>1. Init => LockInv
  BY LockInit
<1> QED
  BY <1>1, TypeCorrect, LockNext, PTL DEF Spec

\* With careful users, every step keeps what a helper has merged up to date.
LEMMA MergeNext == TypeOK /\ LockInv /\ MergeInv /\ [Next]_vars => MergeInv'
<1> SUFFICES ASSUME TypeOK, LockInv, MergeInv, Careful, [Next]_vars,
                    NEW q \in Helpers, Merging(q)'
             PROVE  Current(q)'
  BY DEF MergeInv
<1>0. /\ pc \in [Helpers -> PCs] /\ merged \in [Helpers -> Files]
      /\ config \in Files /\ settled \in Files
  BY DEF TypeOK
<1>1. CASE UNCHANGED <<config, merged, cred>> /\ Merging(q)
  BY <1>1 DEF MergeInv, Current
<1>2. ASSUME NEW p \in Helpers, HelperStep(p) PROVE Current(q)'
  <2>1. CASE Read(p)
    <3>1. CASE p = q
      <4>1. merged'[q] = WithAuth(config, HostOf[q], cred[q])
        BY <1>0, <2>1, <3>1 DEF Read
      <4> QED
        BY <2>1, <3>1, <4>1 DEF Read, Current
    <3>2. CASE p # q
      BY <1>0, <2>1, <3>2 DEF Read, Merging, Locked, LockInv, Goto
    <3> QED
      BY <3>1, <3>2
  <2>2. CASE Rename(p)
    BY <1>0, <2>2 DEF Rename, Merging, Locked, LockInv, Leave, Goto
  <2>3. CASE LoadCredentials(p)
    <3>1. p # q /\ Merging(q)
      BY <1>0, <2>3 DEF LoadCredentials, Merging, Goto
    <3>2. cred'[q] = cred[q]
      BY <2>3, <3>1 DEF LoadCredentials, TypeOK
    <3> QED
      BY <2>3, <3>1, <3>2 DEF MergeInv, Current, LoadCredentials
  <2>4. CASE \/ NoCredentials(p) \/ Acquire(p) \/ Refuse(p) \/ CreateTemp(p)
             \/ WriteTemp(p) \/ SyncTemp(p) \/ Fail(p) \/ Release(p)
    <3>1. UNCHANGED <<config, merged, cred>>
      BY <2>4 DEF NoCredentials, Acquire, Refuse, CreateTemp, WriteTemp, SyncTemp, Fail, Release
    <3>2. Merging(q)
      BY <1>0, <2>4 DEF Merging, Goto, Leave, NoCredentials, Acquire, Refuse, CreateTemp,
                        WriteTemp, SyncTemp, Fail, Release, Writing
    <3> QED
      BY <1>1, <3>1, <3>2
  <2> QED
    BY <1>2, <2>1, <2>2, <2>3, <2>4 DEF HelperStep
<1>3. CASE \E p \in Helpers : Interrupt(p) \/ Kill(p)
  BY <1>0, <1>1, <1>3 DEF Interrupt, Kill, Leave, Goto, Merging
<1>4. CASE Settle
  BY <1>1, <1>4 DEF Settle, Merging
<1>5. CASE PowerLoss
  BY <1>0, <1>5 DEF PowerLoss, Active, Locked, Merging
<1>6. CASE \E h \in Hosts : Rotate(h)
  BY <1>1, <1>6 DEF Rotate, Merging
<1>7. CASE \E h \in Hosts : Edit(h)
  <2>1. lock = Nobody /\ pc' = pc
    BY <1>7 DEF Edit
  <2>2. lock = q
    BY <2>1 DEF LockInv, Merging, Locked
  <2> QED
    BY <2>1, <2>2
<1>8. CASE UNCHANGED vars
  BY <1>1, <1>8 DEF vars, Merging
<1> QED
  BY <1>2, <1>3, <1>4, <1>5, <1>6, <1>7, <1>8 DEF Next

\* With careful users, a helper writes the file as it is with its own entry replaced.
LEMMA MergeInvariant == Spec => []MergeInv
<1>1. Init => MergeInv
  BY LockInit
<1> QED
  BY <1>1, TypeCorrect, LockInvariant, MergeNext, PTL DEF Spec
-----------------------------------------------------------------------------
\* No step tears a configuration that could be read.
LEMMA TornStep ==
    TypeOK /\ LockInv /\ [Next]_vars =>
        (config.kind # "unusable" => config'.kind # "unusable")
<1> SUFFICES ASSUME TypeOK, LockInv, [Next]_vars, config.kind # "unusable"
             PROVE  config'.kind # "unusable"
  OBVIOUS
<1>1. CASE \E p \in Helpers : Rename(p)
  BY <1>1 DEF Rename, LockInv, Merging
<1>2. CASE PowerLoss
  BY <1>2 DEF PowerLoss, LockInv
<1>3. CASE \E h \in Hosts : Edit(h)
  BY <1>3, EditType DEF Edit, TypeOK
<1>4. CASE UNCHANGED config
  BY <1>4
<1>5. ASSUME NEW p \in Helpers, HelperStep(p), ~Rename(p) PROVE UNCHANGED config
  BY <1>5 DEF HelperStep, LoadCredentials, NoCredentials, Acquire, Read, Refuse,
              CreateTemp, WriteTemp, SyncTemp, Fail, Release
<1>6. ASSUME NEW p \in Helpers, Interrupt(p) \/ Kill(p) PROVE UNCHANGED config
  BY <1>6 DEF Interrupt, Kill
<1>7. CASE Settle \/ (\E h \in Hosts : Rotate(h)) \/ UNCHANGED vars
  BY <1>7 DEF Settle, Rotate, vars
<1> QED
  BY <1>1, <1>2, <1>3, <1>4, <1>5, <1>6, <1>7 DEF Next

\* A configuration that can be read stays one, whatever the helpers, the users and
\* the power do: atomic_write replaces the file by a complete one.
THEOREM ConfigIsNeverTorn == Spec => NeverTorn
<1>1. TypeOK /\ LockInv /\ [Next]_vars =>
          [config.kind # "unusable" => config'.kind # "unusable"]_vars
  BY TornStep
<1> QED
  BY <1>1, TypeCorrect, LockInvariant, PTL DEF Spec, NeverTorn
-----------------------------------------------------------------------------
\* The initial states of the helpers are initial states of the store.
LEMMA StoreInit == Init => Store!Init
<1> SUFFICES ASSUME Init PROVE Store!Init
  OBVIOUS
<1>1. config \in Files /\ settled = config
  BY TypeInit DEF TypeOK, Init
<1>2. Logged = {} /\ edits = 0 /\ losses = 0
  BY DEF Logged, Init
<1> QED
  BY <1>1, <1>2 DEF Store!Init, Store!AnyEntries, Files

\* The rename is the login of the store.
LEMMA RenameIsLogin ==
    ASSUME TypeOK, LockInv, MergeInv, Careful, NEW p \in Helpers, Rename(p)
    PROVE  Store!Login(p)
<1>1. Merging(p) /\ outcome[p] # "ok" /\ temp[p] = "synced"
  BY DEF Rename, Merging, LockInv
<1>2. Current(p)
  BY <1>1 DEF MergeInv
<1>3. cred[p] \in Creds
  BY <1>1 DEF TypeOK, Merging
<1>4. HostOf[p] \in Hosts /\ config \in Files
  BY DEF TypeOK
<1>5. /\ config'.entry = [config.entry EXCEPT ![HostOf[p]] = cred[p]]
      /\ config'.delegated = config.delegated
  BY <1>2, <1>3, <1>4, WithAuthType DEF Rename, Current
<1>6. settled' = settled /\ edits' = edits /\ losses' = losses
  BY <1>1 DEF Rename
<1>7. Logged' = Logged \cup {p} /\ p \notin Logged
  <2>1. outcome \in [Helpers -> {"none", "ok", "error", "interrupted"}]
    BY DEF TypeOK
  <2>2. outcome' = [outcome EXCEPT ![p] = "ok"]
    BY DEF Rename, Leave
  <2> QED
    BY <1>1, <2>1, <2>2 DEF Logged
<1>8. HostOf[p] \notin config.delegated
  BY <1>2 DEF Current
<1>9. cred[p] \in Entries
  BY <1>3 DEF Entries
<1> QED
  BY <1>5, <1>6, <1>7, <1>8, <1>9 DEF Store!Login

\* Every step of a helper, a user or the machine is a step of the store or none.
LEMMA StoreStep ==
    ASSUME TypeOK, LockInv, MergeInv, Careful, [Next]_vars
    PROVE  [Store!Next]_(Store!storeVars)
<1> DEFINE Quiet == UNCHANGED <<config, settled, Logged, edits, losses>>
<1>0. Quiet => UNCHANGED Store!storeVars
  BY DEF Store!storeVars
<1>1. CASE \E p \in Helpers : Rename(p)
  BY <1>1, RenameIsLogin DEF Store!Next
<1>2. ASSUME NEW p \in Helpers, HelperStep(p), ~Rename(p) PROVE Quiet
  <2>1. outcome \in [Helpers -> {"none", "ok", "error", "interrupted"}]
    BY DEF TypeOK
  <2>2. CASE NoCredentials(p)
    <3>1. outcome[p] # "ok"
      BY <2>2 DEF NoCredentials, LockInv
    <3> QED
      BY <2>1, <2>2, <3>1 DEF NoCredentials, Logged
  <2>3. CASE Refuse(p) \/ Fail(p)
    <3>1. outcome[p] # "ok"
      BY <2>3 DEF Refuse, Fail, Writing, LockInv
    <3> QED
      BY <2>1, <2>3, <3>1 DEF Refuse, Fail, Leave, Logged
  <2>4. CASE \/ LoadCredentials(p) \/ Acquire(p) \/ Read(p) \/ CreateTemp(p)
             \/ WriteTemp(p) \/ SyncTemp(p) \/ Release(p)
    BY <2>4 DEF LoadCredentials, Acquire, Read, CreateTemp, WriteTemp, SyncTemp, Release, Logged
  <2> QED
    BY <1>2, <2>2, <2>3, <2>4 DEF HelperStep
<1>3. ASSUME NEW p \in Helpers, Interrupt(p) PROVE Quiet
  <2>1. outcome \in [Helpers -> {"none", "ok", "error", "interrupted"}]
    BY DEF TypeOK
  <2>2. outcome[p] # "ok"
    BY <1>3 DEF Interrupt, Locked, LockInv
  <2> QED
    BY <1>3, <2>1, <2>2 DEF Interrupt, Leave, Logged
<1>4. ASSUME NEW p \in Helpers, Kill(p) PROVE Quiet
  BY <1>4 DEF Kill, Logged
<1>5. CASE Settle
  <2>1. CASE settled.kind = "unusable"
    BY <1>0, <1>5, <2>1 DEF Settle, Logged
  <2>2. CASE settled.kind # "unusable"
    BY <1>5, <2>2 DEF Settle, Logged, Store!Settle, Store!Next
  <2> QED
    BY <2>1, <2>2
<1>6. CASE PowerLoss
  BY <1>6 DEF PowerLoss, Logged, Store!PowerLoss, Store!Next
<1>7. CASE \E h \in Hosts : Rotate(h)
  BY <1>0, <1>7 DEF Rotate, Logged
<1>8. CASE \E h \in Hosts : Edit(h)
  <2>1. config' \in Files
    BY <1>8, EditType DEF Edit, TypeOK
  <2>2. config'.entry \in Store!AnyEntries /\ config'.delegated \in SUBSET Hosts
    BY <2>1 DEF Files, Store!AnyEntries
  <2>3. UNCHANGED <<settled, Logged, losses>> /\ edits' = edits + 1
    BY <1>8 DEF Edit, Logged
  <2> QED
    BY <2>2, <2>3 DEF Store!Edit, Store!Next
<1>9. CASE UNCHANGED vars
  BY <1>0, <1>9 DEF vars, Logged
<1> QED
  BY <1>0, <1>1, <1>2, <1>3, <1>4, <1>5, <1>6, <1>7, <1>8, <1>9 DEF Next

\* Helpers that run beside careful users implement the store: a login sets its own
\* entry in one step, and no update of another helper is lost.
THEOREM HelpersImplementStore ==
    ASSUME Careful
    PROVE  Spec => ImplementsStore
<1>1. TypeOK /\ LockInv /\ MergeInv /\ [Next]_vars => [Store!Next]_(Store!storeVars)
  BY StoreStep
<1> QED
  BY <1>1, StoreInit, TypeCorrect, LockInvariant, MergeInvariant, PTL
     DEF Spec, ImplementsStore, Store!Spec
-----------------------------------------------------------------------------
\* A helper that was interrupted does nothing any more but release the lock, so
\* no other outcome takes the place of that one.
TempInv ==
    /\ TempsAccounted
    /\ \A p \in Helpers : outcome[p] = "interrupted" => pc[p] \in {"unlock", "failed", "killed"}

LEMMA TempNext == TypeOK /\ TempInv /\ [Next]_vars => TempInv'
<1> SUFFICES ASSUME TypeOK, TempInv, [Next]_vars PROVE TempInv'
  OBVIOUS
<1>0. /\ pc \in [Helpers -> PCs] /\ outcome \in [Helpers -> {"none", "ok", "error", "interrupted"}]
      /\ temp \in [Helpers -> Temps]
  BY DEF TypeOK
<1> USE DEF TempInv, TempsAccounted, Writing, Goto
<1>1. ASSUME NEW p \in Helpers, LoadCredentials(p) \/ NoCredentials(p) \/ Acquire(p) \/ Read(p) PROVE TempInv'
  BY <1>0, <1>1 DEF LoadCredentials, NoCredentials, Acquire, Read
<1>2. ASSUME NEW p \in Helpers, Refuse(p) \/ Rename(p) \/ Fail(p) PROVE TempInv'
  BY <1>0, <1>2 DEF Refuse, Rename, Fail, Leave
<1>3. ASSUME NEW p \in Helpers, CreateTemp(p) \/ WriteTemp(p) \/ SyncTemp(p) PROVE TempInv'
  BY <1>0, <1>3 DEF CreateTemp, WriteTemp, SyncTemp
<1>4. ASSUME NEW p \in Helpers, Release(p) PROVE TempInv'
  BY <1>0, <1>4 DEF Release
<1>5. ASSUME NEW p \in Helpers, Interrupt(p) PROVE TempInv'
  BY <1>0, <1>5 DEF Interrupt, Leave
<1>6. ASSUME NEW p \in Helpers, Kill(p) PROVE TempInv'
  BY <1>0, <1>6 DEF Kill
<1>7. CASE PowerLoss
  BY <1>0, <1>7 DEF PowerLoss, Active, Locked
<1>8. CASE Settle \/ (\E h \in Hosts : Rotate(h) \/ Edit(h)) \/ UNCHANGED vars
  <2>1. UNCHANGED <<pc, temp, outcome>>
    BY <1>8 DEF Settle, Rotate, Edit, vars
  <2> QED
    BY <2>1
<1> QED
  BY <1>1, <1>2, <1>3, <1>4, <1>5, <1>6, <1>7, <1>8 DEF Next, HelperStep

\* A temporary file, which holds credentials, is being written or was left by a
\* helper that was interrupted or killed: no error leaves one behind.
THEOREM TempsAreAccounted == Spec => []TempsAccounted
<1>1. Init => TempInv
  BY DEF Init, TempInv, TempsAccounted
<1>2. TempInv => TempsAccounted
  BY DEF TempInv
<1> QED
  BY <1>1, <1>2, TempNext, TypeCorrect, PTL DEF Spec
=============================================================================
