# pveforge: TLA+ models, checks and proofs

pveforge is a command line tool that manages Proxmox VE (PVE) nodes. Each
invocation is one process; processes share the roster file, the lock files
beside it and the PVE nodes, which other rosters and people with the PVE GUI
also change. There is no daemon and no journal: whatever a killed command
leaves behind is what the next one finds. The models are about that: what two
processes, a lost answer or a kill between two steps can do to the lock, the
roster, the keys and pins a target is trusted by, an API token, a VM with its
config and snapshots, and a node's network, storage and access lists.

## Inventory

| Part | State it keeps | Operations | Interacts with | What is hard |
|---|---|---|---|---|
| object lock (`internal/lock`) | two `flock` files per object key | `Mutation`, `Read`, unlock | every mutating command | two locks taken in turn, give-ups, deaths, starvation |
| roster (`internal/roster`) | the roster file; a `Passphrase` and its proof per process | eight writers, `Load`, `ProvePassphrase`, `Rekey` | bootstrap, every command that reads a secret | proofs made before the lock, rekeys by other processes, crashes in a write, editors that skip the lock |
| bootstrap token phase (`internal/bootstrap/rotation.go`) | the token on PVE, its copy in each roster | `Run`, `Import` | roster, SSH, PVE's API | lost answers, writes that land late, kills, two rosters and one token name |
| bootstrap SSH and TLS phase, `roster pin-tls`, `access keys` (`internal/bootstrap/bootstrap.go`, `pintls.go`, `keys.go`) | authorized_keys, host key and TLS pins | install, reprovision, capture, remove, report | roster, SSH | half-installed keys, pins replaced by mistake, a host that changes under a run |
| idempotent engine (`internal/idempotent/op.go`) | one `Op` and `Result` per run | `Run` | object lock, every `Op` | conflict retries, advisory checks, partial writes |
| VM config operations (`vmfields*.go`, `vmtag.go`) | the VM's config, digest and pending list on PVE | `Read`, `Satisfied`, `Apply`, `PostApply`, `PostNoop` | engine, pve client, SSH | stale digests, REST refusals, lost updates |
| VM lifecycle operations (`vmcreate.go`, `vmdestroy.go`, `vmshutdown.go`, `vmclone.go`) | the VM, its tasks and its line in the resource list on PVE; the tag's and the VM's lock | create, destroy, shutdown, clone | engine, pve client, SSH | tasks that outlive a wait, unread statuses, a list that lags |
| snapshots (`internal/pve/snapshot.go`, `cmd/pveforge/vmsnapshot.go`) | the VM's snapshots and tasks on PVE, the VM's lock | create, delete, cascade, rollback with a witness in the guest | pve client, guest agent | two requests for one decision, times in seconds, tasks nobody waits for |
| network operations (`networkbridge.go`, `networkfields.go`) | PVE's live and staged stanzas, the kernel's links, the node's lock | bridge create and destroy, set | engine, pve client, SSH | one commit applies whatever anybody staged |
| storage operations (`storage*.go`, `internal/pve/storageorphans.go`) | volumes, sections that name them, storage.cfg | alloc, orphans, free-orphans, create, set-content | engine, pve client, SSH | identity of what is removed, lists read one after the other |
| access operations and root access (`pveumaccess.go`, `internal/bootstrap/access.go`, `inventory.go`) | PVE's users, groups, roles and ACLs | user and group ensure, grant, inventory | engine, SSH | checks made from lists that change, the token's own owner, late writes |
| pve client (`internal/pve`) | none; a pooled SSH connection | REST calls, task waits, snapshots, rollback | PVE | timeouts, warnings, answers that cannot be read |
| ssh client (`internal/sshexec`) | one connection | `Run` | bootstrap, pve client | a command that outlives its session |
| command line (`cmd/pveforge`) | none | commands, reports | all | what a report says after a partial failure |
| test harness, source guards, fakes | files of the repository | build, reset, lint | tests | not part of the product's behaviour |

`PROJECT.json` lists every part with its status, and every hazard at its line.

## Modules

| Module | Models | Kind |
|---|---|---|
| `ReadersWriters` | what `internal/lock` promises for one key | abstract specification |
| `ObjectLock` | `internal/lock/lock.go` | component |
| `RosterFile` | the roster's content, the passphrase proof, what each writer composes | operators |
| `RosterStore` | what `internal/roster` promises its callers | abstract specification |
| `Roster` | `internal/roster` as processes run it | component |
| `TokenRotation` | `internal/bootstrap/rotation.go` and `Import` | component, composed with PVE, SSH and the rosters |
| `RosterTokenProofs` | theorems about `Roster` and `TokenRotation` | proofs |
| `MutationEngine` | `internal/idempotent/op.go` with `VMFieldsEnsure` and `VMTagEnsure` | component, composed with PVE, SSH and the lock |
| `MutationEngineProofs` | theorems about `MutationEngine` | proofs |
| `VMLifecycle` | `vm create`, `VMDestroy`, `VMShutdown` and `WaitForTask` | component, composed with PVE's tasks, its resource list and both locks |
| `VMLifecycleProofs` | theorems about `VMLifecycle` | proofs |
| `Snapshots` | `vm snapshot` over `internal/pve`'s snapshot calls and the rollback witness | component, composed with PVE's tasks and the guest |
| `SnapshotsProofs` | theorems about `Snapshots` | proofs |
| `Network` | `NetworkBridgeEnsure`, `NetworkFieldsEnsure` | component, composed with PVE's staging, the kernel and the web UI |
| `LockNetworkProofs` | theorems about `ObjectLock` and `Network` | proofs |
| `Storage` | the `storage` commands, the orphan determination | component, composed with a cluster whose VMs change |
| `StorageProofs` | theorems about `Storage` | proofs |
| `Access` | user, group and grant ensures, `RootAccess`, `access inventory` | component, composed with PVE's access lists |
| `AccessProofs` | theorems about `Access` | proofs |
| `HostTrust` | `bootstrap`'s SSH and TLS phase, `roster pin-tls`, `access keys` | component, composed with hosts, authorized_keys and the roster entry |
| `HostTrustProofs` | theorems about `HostTrust` | proofs |
| `MC*` | symmetry sets and constant operators | TLC instances |

A definition named `...Fault`-style in its comment ("Fault: ...") is a mutated
form of the definition that follows it, used only to confirm that a property
notices the fault.

### ObjectLock

`queue`, `excl` and `shared` are the kernel's view of `<key>.queue.lock` and
`<key>.resource.lock`. `Begin` is the call of `Mutation` or `Read` and starts the
one deadline; `TakeQueue`, `TakeExclusive`, `TakeShared` are polls that succeed,
`PollFails` one that does not; `TimeOut` and `Interrupt` are the two ways to give
up, both through `GiveUp`, which returns the turnstile, or, since the code ignores that
unlock's error, keeps it; `DropQueueFails` is the error path of the turnstile's
unlock on the way in, after which the unlock of the resource may fail too; `Exit` is a
process that ends anywhere. Time is the number of failed polls left (`WaitBound`);
`waited` is history, the failed polls of a call over both phases, so that
`OneDeadline` tells a deadline per phase from the one that `waitBound` sets.

### Roster

A ciphertext is the passphrase that sealed it and its plaintext. `Compose` is a
writer between the locked read and the write: proof, precondition, splice, safety
check. `Refuse` is every way it ends there without a write. `Recheck` is Rekey's
second read. `AtomicWrite` is the rename; `WriteFails` any earlier failure.
`EarlyProve` is the unlocked `ProvePassphrase`, whose proof later writes may use.
`Restart` is both a kill and the next command with its own passphrase; `HandEdit`
is an editor that ignores the lock. The TOML text is abstracted to the decoded
roster: the splice is taken to produce what `verifyOnlyIntendedChange`, which runs
before every write, insists on.

### TokenRotation

One token name, one PVE, and a roster per member of `Holders`. Secrets are
numbered as PVE issues them. A `pveum` write exits 0, exits non-zero, or ends in
an error that leaves it done, undone or still to land (`late`). A write may still be
in flight when the roster's next run starts, and one cut off by a signal or a lost
connection may land later although the code counts only a timeout as unknown;
`crossed` remembers that either happened. `HonestOutcome`, `RejectedNotPersisted` and
`RunEnds` hold regardless; the three others hold until then, and say so. They are also
about a token that one roster holds: a run reads a token that is there for its own, so
that another roster's can be removed (`token_foreign`), with its holder untold.
A kill is announced by nobody: `NoSilentDangling` excuses it only between the remove of
the held token on PVE and the clear of the roster, where two systems cannot be changed
in one step. `judged`, `rejected`, `origin`, `told` and `crossed` are history variables:
no step depends on them.

### MutationEngine

`ReadsConfig` is `Read` and `Satisfied`; `Visit`, `FreshDigest`, `PutAccepted`,
`PutConflicts`, `PutRefusedAsRootOnly`, `PutUnanswered`, `QmSet` and
`QmSetUnanswered` are the steps of `Apply`; `PostCheck` is the re-read and
`PostApply` or `PostNoop`. PVE's digest is a function of the config's content. The
lock is `LockFree`, which `ObjectLock` justifies (`Exclusion`). `GuiEdits` also
stands for every pveforge run of another roster: such a run can do no more than
write any key at any time. `outside`, `moved` and `wrote` are history variables.

### VMLifecycle

A member of `Runs` is one command. Its `pc` is the place in the command or in
`idempotent.Run` it has come to; `UnderVMLock` are the places at which `Run` holds
the VM's lock, `HoldsTag` those at which `vm create` holds the tag's. `Sends` is a
request that starts a task: refused, accepted, or accepted with its answer lost.
A task ends on its own (`TaskSucceeds`, `TaskFails`), whether or not anybody still
waits; `PollRunning`, `PollStopped`, `PollTransient` and `WaitGivenUp` are the
outcomes of one turn of `WaitForTask`'s loop. `Listing` brings the resource list up
to date at any time. A read of a VM either sees its state or fails; what a failed
read means differs by operation (`CreateRead`, `DestroyRead`, `ShutdownRead`), and
that is the point. `result` is what the command says: "lost" is an ordinary error,
because `IsTaskOutcomeUnknown` matches only what `WaitForTask` produced, "unlisted"
a create that warned or was interrupted while it waited for its tag to be listed,
"contested" a destroy with a tag warning. `seen` (the states a run's VM has been in
since the run began) and a VM's maker are history. `StatusGate`'s read and its stop
request are one step: a guest that stops, or is gone, in between makes the stop a task
that fails, which `TaskFails` allows at any time.

### Snapshots

A snapshot has the second PVE gives it (`time`) and the true order (`seq`), which no
command sees: `Newest` is `NewerSnapshots`' refusal of ties, `NextToGo` the cascade's
order by seconds. `Plan` is `targetSnapshotWitnessPlan`, `CheckNewest` and
`RollbackSend` the two requests of `Rollback`, `Dispatch` and `Poll` the witness in the
guest. The web UI makes and removes snapshots, and starts and stops the guest, at any
step; a task ends by itself.

### Network

`live` and `staged` are PVE's two configurations, `kernel` the links that exist.
`Stage`, the guard (`MgmtUnchanged`), `Commit`, `WaitForTask`, the revert and the
verification are the steps of `Apply`; `CommitLands` is PVE's worker, which applies
all that is staged by then, the web UI's changes too. `owner` is who staged a change.
The reads of the guard (link, management stanza or all interfaces) are one step, although
others may act between them; what they stage after it is what `SweepsOnlyTheSeen` excepts.
The check after a commit keeps whether a link exists, not whether it is up.

### Storage

`vm` holds the volumes each VM's sections name, `where` the volumes that exist; a
section holds the volume it names where the VM's node has one of that name. The VM
list, the quorum check, the content and each VM's sections (`ReadSections`, its
configuration and its snapshots in two reads) are one step each, with creations,
snapshots, migrations and destructions between them. `loose` is history: what was
nobody's at some moment since the first list, with the races the command's own
warnings accept. `Put` carries the digest of the definition it was decided on; one whose
answer is lost takes effect at once or never, since the digest would have PVE refuse it
once anything had changed.

### Access

An ensure reads under its key's lock, decides about a join (`joinroles`, `joinacls`),
writes and reads again; a grant reads the roles, the members and the owner, and then
sends its entries one by one; an inventory lists users, groups, ACLs and roles.
`late` is a write that may still be carried out. `stale` is what others have changed
since a run read it: the exceptions the properties name are conditions on it.

### HostTrust

A host is its SSH host key and a keypair the run that generated it. `run[r]` is what a
process knows; its steps follow `Run` from the checks outside the lock over the login,
the install script, the trial login with the new key and the TLS capture to the
roster's writes, and `dropKeyOverPassword` is the clean-up. `AnotherHost`,
`RenewKey` and `Front` change what answers at the address; `HandEdit` removes a
block of the roster or garbles a public key. The token phase is one step. So are
`Run`'s reads of the roster under its lock (`Load`), between which only a hand edit could
come. `removed` is history: whether a hand edit took a TLS block, and the runs that had
passed the trust checks and not yet read the roster when one took the SSH block.

`RemoveAuthorizedKey` is one removal, although the script copies, compares and renames.
`removekey.go:92-97` accepts that a line appended between the last two is lost, so
`PersistedKeyWorks` says nothing about such a loss. The run that could lose its key that
way is one that installs it while a script of another run is between the two: a run of the
same target only if that script outlives the run that sent it, since a target's runs hold
its lock, but a run of another target whose nodes share the file (PVE keeps one for a
cluster) whenever the two meet. One target is modelled, so the property is about its runs.

## Runs

| Run | Question | Result |
|---|---|---|
| `object_lock` | Do the two files give exclusion, a gate that a waiting mutation closes, and a bounded wait, whatever fails or dies? | holds: 3 processes, 2 polls |
| `roster` | Does the inductive invariant hold, is a write ever lost or judged against a stale roster, a TLS pin replaced by who did not name it? | it holds, and no: 2 processes, 2 passphrases, one unreadable plaintext, 2 pins, 2 sources |
| `token` | Do outcomes and reports tell the truth, is a rejected secret ever kept, a held token safe, and does every run end? | yes: 2 runs and imports, 3 secrets, 2 late writes |
| `token_foreign` | Is a token that another roster holds safe? | no: a run that lost the answer to its add removes the token it then finds |
| `engine` | Does success mean the batch holds, and the report name exactly what was written and is pending? | yes: 2 runs, a REST and a root-only key, a tag, 3 attempts |
| `engine_routes` | The same for the SSH fallback and for tags, with abandoned writes landing late; does a run end? | yes |
| `vm_lifecycle` | Do reports tell the truth, does `--unique-tag` hold, do tasks overlap only behind a run that said so, is only a stopped VM destroyed? | yes: 2 commands, 2 VMIDs, 1 tag, 1 act of the web UI |
| `snapshots` | Is a rollback ever past a snapshot its check could have known, another command's rollback witnessed, a cascade out of order? | no: 2 commands, 2 names, 3 snapshots, 2 seconds, 1 act of the web UI |
| `network` | Is anything committed that the guard should have seen, or left staged in silence? | no: 2 commands, 2 interfaces, 1 act of the web UI |
| `storage` | Does `free-orphans` ever take a volume that was held all along, `set-content` drop what others added? | no: 2 commands, 2 targets, 2 VMs, 2 volumes, 2 acts of others |
| `access` | Does the token's owner ever gain anything, anybody an escalating role that was not allowed, and does a write touch anything else? | no, but for what changed since it was read: 2 commands, 2 targets, 1 act of others |
| `host_trust` | Is a pin ever replaced unvouched, a stored key unusable, a left key untold or a settled key offered for removal? | no: 2 processes, 2 hosts, 2 TLS keys, 2 changes of the world |

Each invariant named `...Inv` is a conjunction of parts that have their own names and
comments; the mutants of a run break the parts one by one.

`token_foreign` is a disagreement between a comment and the code, quoted in
`PROJECT.json` under findings. Others the models reach that have no run of their own:

- `lock.go:213` promises that a read arriving after a mutation began to wait is never
  served first; a mutation asleep between two polls of the turnstile is overtaken
  (`WriterPriority` holds from the moment it has the turnstile).
- `rotation.go:1041` reports that a token still exists after a remove that failed with
  anything but a timeout; a remove cut off by a signal or a lost connection may still
  land. This is one of the ways to `crossed`.
- `vmfields.go:293` says a conflict can only be external; a write that an earlier run
  of the same roster gave up on can land after that run released its lock. The `engine`
  run has `MaxLate = 0` for that reason.
- An edit between Rekey's second read and its rename is lost although its comment
  promises a compare-and-set; `vm set` prints nothing about keys it wrote before a
  failure although its help promises a line for each, and does not look at `/pending`
  when the batch's only change had vanished by the time it was to be made.
- `vmsnapshot.go:388` promises a witness for a guest that ran before a disk-only
  rollback; the plan is made from the target's RAM state alone, and such a rollback is
  reported not-applicable.
- `bootstrap/access.go:604` reports "none was applied" for a grant whose connection
  broke after it was sent; `PartialGrantKnown` allows for that one entry.
- `access keys` loads the roster before it reads authorized_keys: a bootstrap that
  stores its key in between has a live key listed with its removal command, which
  `keys.go` says must never be. `SettledKeyKept` excepts exactly those runs: it is about
  every other way to list a live key (a public_key that does not parse, a roster that
  changed before it was loaded), not about this one.
- `bootstrap.go:681` says that `Run` applies the rules of `CheckBeforePrompt` again, the
  roster's under its lock; `checkCaptureTrust`, which reads the roster's pins, is
  applied once more before the lock (line 379) and never under it. A rerun without
  fingerprint that was let through for the stored SSH pin goes on without it when a hand
  edit removes that pin before `Load`, and captures a TLS pin from a host nobody vouched
  for. `PinsVouched` excuses exactly the runs that such an edit overtook (`removed.ssh`);
  without the exception TLC finds it violated.
- `bootstrap` resolves `insecure_tls` before it takes the lock: when another process
  adds the target as insecure in between, the SSH pin is stored without a TLS pin,
  though `bootstrap.go:434` says one is captured for every such target.

### Bounds

- Lock: three processes are two mutations and a read, or one and two, which is
  every pair that can conflict with a third in between; two polls tell a shared
  deadline from one that restarts.
- Roster: two passphrases and the two secrets of one target are what a split needs;
  two pins and two sources are what a wrong replacement needs; more targets, and hand
  edits, are left to the theorems. An unreadable plaintext stands for
  every ciphertext this binary cannot open.
- Token: three secrets and two runs, with any imports, allow a mint and its
  replacement; two late writes allow an add and a remove to be in flight together;
  `Attempts` is 3, the code's `postMintAttempts`.
- Engine: two keys, one per route, two runs, and the code's 3 conflict attempts
  (2 in `engine_routes`).
- Lifecycle: the locks, the tasks and the tags relate two commands, so two are
  enough for every pair of them; two VMIDs let two creates share a tag; at first a VMID is
  free or a running, tagged VM, since a stopped one soon comes of a stop, a create
  or the web UI; one act of
  the web UI is what it takes to invalidate something a run has read; one
  transient poll instead of the code's three tells one poll too many (`OwnPolls`).
- Snapshots, network, storage, access and trust: two commands for the same reason,
  each run once, so that every pair of commands meets; one or two acts of others are
  what it takes to invalidate one read, or one read and the check after it. Two
  seconds and three snapshots make a tie and a later one; two interfaces are the
  management bridge and another; two VMs and two volumes, one with RAM state, are the
  owner of a volume and somebody who takes it over; two hosts and two TLS keys are the
  node and what takes its place.
- `CHECK_DEADLOCK FALSE` wherever each command runs once: then nothing is left to do.

### Fairness

`BoundedSpec` assumes that a caller's own poll loop goes on, and nothing of lock
holders. `FairSpec` in `TokenRotation` and `MutationEngine` assumes that a run that
is not killed takes its next step: every SSH command, REST request and roster lock
wait in those paths carries a timeout. Nothing is assumed of PVE's answers, of the
GUI, or of writes in flight.

## Proofs

`LockNetworkProofs`, on the lock (for every set of processes and every bound):

- `LockInvariant`: `LockSpec => []LockInv`. `Exclusion` alone is not inductive: that a
  mutation at "held" is alone follows only if it still holds the file lock it took.
  `LockInv` says both directions: who holds a file lock is at a step that holds it
  (`NoStrayLocks`), and who is at such a step holds it (`LocksHeld`). `OneDeadline` adds
  that the failed polls of both phases together never exceed the bound of the call;
  that a call then ends is `WaitEnds`.
- `MutualExclusion` from it, `WriterPriorityHolds` (an action property: every step
  by which a read passes the turnstile needs it free) and `Refinement`: the
  turnstile, while a mutation has it, is the closed gate of `ReadersWriters`.

`LockNetworkProofs`, on network commands (for every set of commands, interfaces and
values, every start configuration and any number of acts of the web UI):

- `NetworkInvariant`: `Spec => []NetworkInv`. `NothingLeftBehind` and
  `ReportsRealChange` speak of a run that has ended and are not inductive. What a run
  may still own, and what its task may still be, at each step is `Control` and `Owned`;
  that a reload which ends applies what was asked for, unless somebody touched the
  interface in between, is carried from the stage to the reload by `AsAsked`; and
  `Alone` is the node's lock, which `MutualExclusion` justifies.
- A run's part of the invariant (`RunInv`) is disturbed by others in four ways only, one
  lemma each: they leave the network alone, stage an interface, revert, or reload
  (`SameQuiet`, `SameStaged`, `SameDiscarded`, `SameConsumed`). The web UI's steps are
  the last three again.
- `SweepsOnlyTheSeen`, an action property, needs that what the guard compared stays as
  it was or is noted until the task ends, also after the run has gone (`ForeignSeen`,
  whose `Guarded` runs are those past the guard or with a task). `SweepsOnlyBlindly`
  follows from `Owned`, `Control` and `Alone`: of two runs, at most one is at the node.

`RosterTokenProofs`, on the roster (for every set of processes, targets, passphrases and
pins):

- `RosterInvariant`: `EditedSpec => []RosterInv`. That the file is not split needs
  that no draft about to be renamed is (`SoundDrafts`), which needs that a proof is
  of a secret its own passphrase opens (`HonestProofs`) and that only the lock's
  holder has a draft (`Locked`). `NeverSplit` follows.
- `DraftsStayFresh`, `StoreRefinement`, `PinsReplacedKnowingly` for the processes
  without hand edits: under the lock, the file cannot change behind a draft, so
  the rename is one `Operate` step of `RosterStore`.

`VMLifecycleProofs` (for every set of commands, VMIDs and tags):

- `LifecycleInvariant`: `Spec => []LifecycleInv`. None of the four properties is
  inductive alone. `HonestReport` needs what a run has behind it at each step
  (`Control`, `Evidence`: at "remove" the VM was seen stopped, at "recheck" gone).
  `OwnPolls` bounds the failed polls in a row of each wait and lets none be carried over
  from an earlier one; a count that a good poll does not reset only gives up sooner, with
  the same honest report.
  `OverlapUnobserved` needs that a running task is waited for or given up
  (`Watched`) and that a lock has one holder (`Locks`). `UniqueTagKept` needs that
  a successful create's VM is listed and that no other create with its tag is past
  the check (`Claims`), which Listing keeps only because the VM carries its maker's
  tag (`Makers`).
- What ties runs to one another is proved from two lemmas, `RunStep` and `PVEFrame`,
  that say what any step of a run, and any step of PVE, may change; what a run
  knows is proved action by action.
- `HonestReports`, `UniqueTags`, `OverlapsUnobserved` and `DestroysStopped` follow.

`MutationEngineProofs` (for every set of runs, rosters, keys, values and tags, and
every bound on retries and late writes):

- `EngineInvariant`: `Spec => []EngineInv`. What success means is not inductive: that
  the batch holds at the end needs that the keys `Apply` has behind it hold at every
  step (`VisitedHold`), that the report keeps up with the writes until one has no
  answer (`Accounted`), and that no two runs of one roster are under way
  (`Exclusion`): a run that another one passes by is untouched but for what its
  history variables record (`Undisturbed`).
- `ConflictsExplained`: a digest is refused only if somebody beyond the run's lock, or
  a write that was given up on, has changed the config since (`DigestFresh`).
  `ConflictsExternal` is the code's own, stronger sentence, proved under
  `[](late = {})`: no write has been given up on. Without that it is false.
- `TagsAreKept`: the list that is written back is the snapshot's list and the new tag,
  and PVE takes it only if the snapshot is still what is there.

`HostTrustProofs` (for every set of processes, hosts, TLS keys and start targets):

- `TrustInvariant`: `Spec => []TrustInv`. That a stored key works needs to know where a
  run's key is at every step (`KeyPlaced`) and that a key in the roster was persisted
  by its run (`KeyStored`); that SSH auth is stored behind its TLS pin needs that a
  pin once seen is there unless a hand edit took it (`PinOnFile`), which the target's
  lock gives (`Locking`, `NoPinUnder`); and a key report's exceptions need what the
  report knew when it loaded the roster (`ReportKnows`).
- What a step does to the run that takes it is one lemma per action; what it does to
  every other run is one lemma for all (`CalmKeeps`): keys, roster and lock change only
  in the ways `Calm` lists.
- `StoredKeyWorks` and `LeftKeyIsTold` follow; `PinsAreVouched` is an action property
  that rests on where the host of a session comes from (`HostVouched`) and on what let a
  run through that gave no fingerprint (`TrustGiven`): a stored SSH pin that is there
  until the run holds it, unless a hand edit took it from under that very run.

`StorageProofs` (for every set of commands, targets, VMs, volumes and nodes, and every
bound on conflicts):

- `StorageInvariant`: `Spec => []StorageInv`. `NoTaskUnderneath` needs that a running
  delete is waited for or was given up on (`Deletes`) and that one target's lock has one
  holder (`Exclusion`); `HonestReport` that a goal is noted as soon as it is met (`Noted`).
- `HeldIsNeverFreed` is the last step of an argument about all reads before it (`Kept`): a
  volume held all along belongs to a VM that the list names, then to one whose
  configuration or snapshots are yet to be read; so none is left when all are read.
  What the other actors do to it is one lemma per act: each leaves a volume held where
  it was, or loosens it (`Settled`).
- `ContentIsKept`: a `Put` lands only with the digest it was decided on.

`SnapshotsProofs` (for every set of commands and names, and every bound):

- `SnapshotInvariant`: `Spec => []SnapshotInv`. A report needs the task behind it
  (`Tasks`: a command goes on only behind a task that has ended well) and what was
  absent meanwhile (`Noted`); "not-applicable" needs that the snapshot the plan read
  keeps its RAM state or its absence of it, wherever it is found (`Planned`), which
  holds because PVE's order of snapshots never repeats (`Ordered`).
- `WitnessIsOwn`: from a run's rollback to its witness, somebody else's task can run
  only if its command did not see it end (`OthersTaskIsBlind`, from `Exclusion`), so the
  guest stays the run's own (`Guest`).
- `NeverGoesPastKnown` and `DeletesNewestFirst` are about the true order, of which the
  code knows the seconds only: `Known` carries what the check has found over every
  snapshot made, removed or made again under the same name since (`Turns`). Refusing a
  tie is what `NewestIsLast` needs.

`RosterTokenProofs`, on token rotation (for every bound):

- `OutcomesAreHonest` and `RejectedIsNotPersisted`, for any rosters that share the token
  name. A report that the previous token is gone needs that PVE never accepts a secret
  again (`Turn`, `NeverAgain`), so that only the run's own steps matter: `Replaced` says
  where in the run that secret is dead, `Control` that it is the one the roster held.
  `Unrejected` carries the verdict of an attempt to the write of the roster, over
  attempts that merely failed.
- `RotationInvariant` (`Spec => []RotationInv`, with `LeftoverReported` and
  `NoSilentDangling`) and `HeldTokensAreSafe`, for a token that one roster holds, which
  is an assumption of the theorems and not of the module. They need what PVE accepts at
  each step (`Accepted`), that at most one write is in flight, after a timeout, and that
  it would not be refused (`Flight`); and, since such a write outlives its run and its
  process, that a remove in flight between runs is of a secret that was condemned and
  announced, or that nobody has (`Announced`). `CrashLone` and `LateWriteLone` are where
  that is argued.

`AccessProofs` (for every cluster, every set of command lines and runs, and any number
of edits by administrators):

- `AccessInvariant`: `Spec => []AccessInv`. `HonestSuccess` needs that a run notices its
  goal whenever it is met (`Met`) and `PartialGrantKnown` how far the loop over the
  grants has come (`Wrote`, which also holds while a write is in flight).
  `NothingHeldHidden` needs the lists an inventory has read so far: whatever lasts is in
  the join of the members it listed and the ACL there is, until the ACL is read
  (`Held`).
- The three action properties are about the moment a write lands, which may be after its
  run has ended. What they need is therefore stated of every run that is at its write
  or whose write may still land (`Writing`): the checks on the token and its owner
  still hold (`OwnKept`), every escalating entry there is to give was warned of and
  allowed (`Warned`), the user is enabled as it was read (`EnableSeen`), each unless
  `stale` says that the list behind the check has changed since it was read. For
  `EnableSeen` that includes the other runs, of which the key's lock keeps out only
  those of the same target (`Keys`).
- Whoever changes the cluster does it through `Become`, so that what a change does to
  the runs that did not make it is one lemma (`SameBecome`, from `Noted`).
- `OwnNeverGains`, `EscalationIsAllowed` and `TheRestIsLeft` then come down to what one
  write gives (`WriteGains`: the entries of the groups a user joins, or the entry of a
  grant to its principal and a group's members) and leaves (`UserWrite`, `LandsTypes`).

The proofs rest on the named assumptions of the modules: `NoProc` is no process,
start rosters are unsplit, the empty pin is no pin; "no tag" is no tag, the web UI
is no command, and a VM that is absent at first has no tag; `tags` is no field of a
batch (it is the tag list's own key); a target's first SSH key is none of the runs',
and `None` is no host, key or block; nor is it a node, a volume, a VM or a storage
definition; the snapshots a VM has at first are a chain, and "current" names none; users, groups
and tokens have different names, as PVE's have (`user@realm`, a group without `@`,
`user@realm!token`), and each command line is one the flags can give.

Only model-checked: `WaitEnds` and the two `RunEnds`, liveness under fairness, which is
out of the prover's reach. Every other property that a run checks is a theorem;
`HeldTokensSafe` one about a token that a single roster holds, as its run is.

## Plan

1. Done: lock, roster, token phase, engine with its config operations, VM create,
   destroy and shutdown, snapshots, network, storage, access, and how a target comes to
   be trusted.
2. Done: the proofs of every invariant and every action property of the runs.
3. `VMClone` and `BridgeIsolationEnsure` once a command calls them; `api` writes and
   their locks over `ObjectLock`; that every lifecycle command ends (liveness).

## Not modelled

Rendering and parsing (`kvjson`, command output), prompts, API discovery, device
argument strings, the source guards, the fake PVE and the
harness's secrets: pure functions or one-shot input and output with no state that
two actors share. `force` of `Run`: no command passes it. `VMClone` and `BridgeIsolationEnsure`: no
command calls them. The test harness (nested nodes, their capture, reset and secrets)
serves the repository's own tests. The TOML splices are
taken at their checked result. Real time is the order of steps and the count of
polls and attempts.
