# Verification of the Kavernis network service

TLA+ models of `kavernis`, the command-line tool that keeps a host's network
configuration in three YAML documents, a Git history, a SQLite store and a set
of systemd-networkd files. Everything here was translated from
`src/backend/kavernis`; paths below are relative to `src/` and `network.py`,
`history.py`, `networkd.py`, `sqlite.py`, `lock.py` are the files of those names
under it.

Run a model with `tlc -workers 2 -config Service.cfg MCNetworkState.tla`, check
proofs with `tlapm NetworkStateProofs.tla`. `PROJECT.json` lists the runs, which
source lines every definition stands for, one plausible bug (a *mutant*) that
every checked property detects, the hazards of the code and the theorems.

## 1. Inventory

| Component | Source | State it keeps | Operations |
|---|---|---|---|
| Network state service | `core/network.py` 53-330 | none of its own: it drives the others | `edit`, `apply`, `rollback`, `status`, `diff`, `history` |
| Desired-state documents | `core/network.py` 330-462 | `/etc/kavernis/{interfaces,gateways,routes}.yaml`; the first is mandatory | read, fingerprint, add the header, replace atomically, remove |
| Desired-state history | `state/history.py` | a Git repository: HEAD's chain, the index, the work tree, the committer's identity | `_initialize`, `snapshot`, `revision_for_contents`, `contents_match`, `read_revision`, `list_revisions` |
| Applied-state store | `state/sqlite.py`, `state/models.py` | SQLite: schema version, the last success (revision, artifact hashes), the failures | `get_domain_state`, `record_successful_apply`, `record_failed_apply`, schema creation |
| Network lock | `state/lock.py` | `flock` on `/run/kavernis/network.lock` | enter without waiting, leave |
| networkd backend, installation | `backends/networkd.py` 172-305 | `10-kavernis-*` in `/etc/systemd/network`, and what networkd has loaded of them | `apply` with `_restore`, `inspect_artifact_drift` |
| networkd backend, generation | `backends/networkd.py`, `rendering.py`, templates | none | `generate`, `validate` |
| Interfaces validation | `config/interfaces.py`, `config/loader.py`, `models/interface.py` | none | `load_interfaces` |
| Gateways, routes, resolution | `config/gateways.py`, `config/routes.py`, `config/resolver.py` | none | `load_gateways`, `load_routes`, `resolve_network` |
| Command line | `cli.py` | none | `edit`, `apply`, `rollback` and what is said when they end, `status`, the editor and its retry prompt |
| Interfaces-only planning | `core/interfaces.py` | none | `plan_interfaces` |
| Schemas, templates, examples | `schemas/`, `templates/`, `configs/` | none | data |

**How they interact.** Everything is synchronous calls inside one process, but
several processes may run (two administrators, a cron job), and what they share
is all on disk. `edit`, `apply` and `rollback` enter the lock first and hold it
to the end. `apply` reads the documents, validates and generates (nothing is
written if that fails), has the history take a snapshot (`git add`, then
`git commit` if anything is staged), has the backend install the files (write
each, unlink the others, `networkctl reload`, or restore), and records the
outcome in the store. `rollback` reads a revision, validates it, rewrites the
documents one after another, and goes on like `apply`. `edit` fingerprints all
documents, has the editor run on a copy, compares the fingerprints again and
replaces one document. `status` takes no lock: it compares the documents with
HEAD, HEAD with the recorded revision and the managed files with the recorded
hashes.

**What is hard.** (1) Several stores have to agree - documents, HEAD, index, managed
files, record - and no transaction spans them, so what matters is the order of the
writes and what each leaves when the process ends between two. (2) Git's index is
state that outlives a call, and `snapshot` decides what to stage without looking at
it. (3) The installation is a dozen file operations, any of which can fail, with a
restore that can fail as well. (4) The lock is advisory: an administrator's shell
writes documents or managed files at any moment. (5) `status`, `history` and `diff`
take no lock at all, and each may be the first to use, and so to make, the history's
repository. (6) A document passes through conversions (header, line ends, absent
optional documents) that compare bytes in one place and meanings in another.

**What makes each part correct.**

- *Service*: operations are isolated from one another; after each the managed
  files, the record and the status agree; `in sync` is never shown wrongly; a
  failure leaves the previous files and record in effect and is visible; a
  rollback restores what the revision meant; every operation ends.
- *History*: a revision is exactly the documents given; no sequence of calls, also
  interrupted ones, makes later calls fail or mixes documents.
- *Installation*: networkd is asked to reload complete sets only; seen from
  outside, a call installs the candidate or nothing.
- *Store*: revision and hashes belong together, for writers and readers; the
  schema is there whole or not at all; recording is one step to its caller.
- *Unlocked readers*: what they say belongs together although it was read piece
  by piece; a first use leaves a repository that later uses can work with.
- *Command line*: what it tells the person is so.
- *Lock*: held by exactly the process that is in an operation, also after deaths.
- *Validation, resolution, generation*: every accepted configuration has the
  relations the documentation promises (unique names, VLAN parents and bridge
  members that exist, reachable gateways, routes of the gateway's family).

The file `PROJECT.json` lists under `hazards` the places where this can go wrong
that a test would hardly reach, each at its line.

## 2. Modules

| Module | Stands for | Extends / uses |
|---|---|---|
| `Absence` | the values for "no file" and "no call, no record" | |
| `DesiredState` | documents, trees, headers, line ends, validity | `Absence` |
| `DesiredHistory` | `DesiredStateHistory` over Git | `DesiredState` |
| `NativeApply` | abstract: what `networkd.apply` promises | |
| `Networkd` | `networkd.apply` and `_restore`, file by file | `Absence`, instance of `NativeApply` |
| `NetworkdLoaded` | what networkd runs with after each reload | `Networkd` |
| `HistoryFirstUse` | `_initialize` by several first users | |
| `ServicePromise` | abstract: what apply and rollback promise about history, record and managed files | |
| `NetworkState` | `NetworkStateService`, lock, record, several processes | `DesiredHistory`, `Networkd`, instance of `ServicePromise` |
| `StatusReader` | `status` without the lock, next to operations | `NetworkState` |
| `CommandLine` | `main()`: how a command ends and what it says | `NetworkState` |
| `AppliedRecord` | abstract: what the store promises those who record outcomes | |
| `StateStore` | `SQLiteStateStore`, statement by statement, several processes | `Absence`, instance of `AppliedRecord` |
| `Planning` | from three documents to networkd's files: validation, resolution, generation | `Absence` |
| `MC...`, one for each module with a run | small instances for TLC | |
| `DesiredHistoryProofs`, `NetworkdProofs`, `NetworkStateProofs`, `StateStoreProofs`, `PlanningProofs`, `NetworkdLoadedProofs`, `HistoryFirstUseProofs` | theorems | their component, `TLAPS` |
| `CommandProofs` | theorems about what the command line says: `StatusReader` and `CommandLine` | `NetworkStateProofs` |

### Correspondence with the code

**DesiredState.** A document is what the code tells apart in its bytes: whether it
starts with the header (`_with_desired_header`) and its body, an opaque value.
`AsText` is what text-mode reading makes of a document, line ends and header
included, `Means` what a body loads to, `Invalid` if schema or model refuses it. A *tree* gives every document's
content or `Absent`; the desired-state directory, a snapshot of it and a revision
are trees. An absent optional document means the same as the empty one
(`_desired_from_files`, `_empty_desired_resource`), an absent `interfaces.yaml` does
not load.

**DesiredHistory.** `commits` is HEAD's chain, a revision a position in it;
`index` the staging area; `snapshot` the call under way. `Stage` is `snapshot()`
up to and with `git add -A -- <paths>`, whose paths are the files given and those
in HEAD; Git refuses a path that is neither in the work tree nor in the index
(`AddSucceeds`). `Commit` is the rest: commit if the index differs from HEAD,
answer with HEAD. `LoseCommit` is a process that ends, or a `git commit` that
fails, in between; what it had staged stays in the index. `GivenFor(t)` is what a
snapshot answered with a revision that holds `t` may have been given: `t` itself,
or, if calls can be cut short there (`CommitsCanBeLost`), `t` without optional
documents. `snapshot.clean` says whether the index was HEAD's tree when the call
began; no action looks at it. `Matches` and `RevisionFor` are `contents_match` and
`revision_for_contents`, with the text-mode reading in it. The work tree is
left out: every call writes all of it before Git looks at it.

**Networkd.** `networkd` is the content of the managed files, `native` the call
under way. `Begin` lists the managed files, `ReadPrevious` reads and decodes one of
them or skips one that is no longer a file; `Write`, `Prune`, `Reload` are the loop bodies of `apply`; `Refuse` is any `OSError` or failed
reload, wherever it comes; `Clear`, `Restore`, `ReloadAgain` are `_restore` and
the second reload, whose result is ignored. `Stumbles` is a file that goes between
`is_file()` and its use, or that is not UTF-8: nothing handles that exception.
`Abandon` is such an exception, one out of `_restore`, an interrupt or a death. `Drift` is anybody else who changes the
directory. `NativeApply` is the promise: candidate in one step, or nothing.

**NetworkdLoaded.** `loaded` is what the managed files held when networkd last
read them. A reload that fails may have been read or not (`RefusedReload`,
`SecondReload`), a reload that succeeds has been. Every other step of `Networkd`
leaves it alone (`FileStep`). Reloads and restarts of networkd by others are left
out. `status` does not ask networkd, so "in sync" says nothing about `loaded`.

**HistoryFirstUse.** `at[p]` is the command of `_initialize` or of its caller that
`p` is about to run. `.git` is there from the beginning of `git init`
(`MakeDirectory`), which is all that `Look` asks for. `git init` and `git config`
rewrite `.git/config` under `config.lock`, which Git does not wait for
(`LockConfig`, `Contend`). `BeginWrite` holds the network lock, `BeginRead`
(`status`, `history`, `diff`) does not. The files of a snapshot are not in this
module: after `Look` finds a repository, `DesiredHistory` describes what happens.

**NetworkState.** `work[p]` is the operation process `p` is in: the step that
comes next and its local values. Every file read (documents and managed files), fingerprint comparison, file
replacement, Git command and store transaction is an action, so that others act
between any two. One store transaction is one action (SQLite makes it atomic).
`Enter` is `network_lock` (`LOCK_EX | LOCK_NB`), `Finish` leaving the `with`
block, which the kernel also does for a dead process. `End` is a death, an
interrupt or an unhandled failure of any step, the one between `git add` and
`git commit` included when `CommitsCanBeLost`. `Outside` and `DriftFile` are
writers without the lock. `Plannable` and `Generated` stand for validation,
resolution and generation: which intents get through and which files they give
(`Planning` says which and what; here it matters only that it is a function).
`touched` and `native.meddled` only record that a writer without the lock
stepped in; no action looks at them, properties do. `FilesFor(t)` is the sets of
managed files that may be installed for a revision or for documents `t`: what
`GivenFor(t)` generates, one set unless commits can be lost.

**ServicePromise.** The service without documents, lock, index, fingerprints and
single files. `Keep` makes a revision, `Attempt` begins the installation of what
was asked for with the newest revision (one of `FilesFor`), which succeeds in one step (`Install`) or
changes nothing (`Refuse`); each outcome is recorded of that revision
(`RecordSuccess`, `RecordFailure`). `CutShort` is a process that ends or raises: of
each managed file the old or the new content or none is left, and the record stays.
`Service` in `NetworkState` maps `commits`, the files in effect, `applied`,
`failures` and the phase of the call to its variables; in it the installation is
already the one step that `NativeApply` promises.

**StatusReader.** `reader` is a `status` call, one look after another: each
document, HEAD, the record's revision, the record's hashes, the directory listing,
each file in it. Comparing with a revision belongs to the look that learns which
one it is, because revisions do not change. Every operation of `NetworkState` may
take any number of steps between two looks (`Overtake` records that one did).

**CommandLine.** `command` is the last command that got the lock, and what `main()`
said at its end. Its actions are those of `NetworkState`, sorted by how they end:
`AppliedFiles`, `Updated` and `NoChanges` return, `Failed` and `EditorFailed` raise
what the operation means to raise, `Broken` is any other exception `main()` names,
`Stopped` and `Late` are Ctrl-C (or a kill, which says nothing). Ctrl-C is possible
at every step, also after the last one. What the documents, the record and the
managed files were at the beginning is kept in `command` for the properties only.

**StateStore.** `db` is what the database file holds, `tx` the one write
transaction SQLite allows, `call` the call each process is in. A statement is an
action, and whether it belongs to a transaction is what Python's `sqlite3` does:
`CREATE TABLE` and `SELECT` open none, `INSERT` and `DELETE` do, so the version
row and the tables are one transaction, the version table is not part of it, and
the two `SELECT`s of `get_domain_state` are two looks at the file. `Busy` is the
busy timeout, `Break` any other error and the death of a process. Applies are
numbered, and the number stands for the revision and for the hashes. Only the
holder of the network lock records (`BeginRecord`), anybody reads. `AppliedRecord`
is the promise to those who record - one step, before the call returns, or
nothing - and `RecordSuccess` and `RecordFailure` of `NetworkState` are that step.

**Planning.** `ValidInterfaces`, `ValidGateways` and `ValidRoutes` are what the
document models accept, `Resolves` and `Network` are `resolve_network`,
`Generable` is what `generate` and `validate` check for themselves, `Files` what
every file says. A loop that collects into a dictionary or refuses an entry is a
set or a quantifier: the rules compare entries pairwise, so the order of entries
decides only which mistake is named first. A static address is its subnet;
names, addresses and subnets are opaque, with `Family` and `AddressesOf`, `Length`,
`Colons` and `Dots`. The limits of a virtual device's name are stated twice, as the
code does: `VirtualName` is the document model's, `NetdevName` the pattern that the
generated `.netdev` file is matched with. `Again` is the next plan's beginning. The
DHCP policy flags, STP, descriptions and the order of lines are left out.
`PlanInterfaces` is `plan_interfaces`, which generates without `resolve_network`.

## 3. Runs

| Run | Question | Bounds |
|---|---|---|
| `history` | does every revision hold what was given, and when does it hold more, if any call may be cut short | 3 documents x {absent, plain, with header}, 3 revisions |
| `history_wedged` | *violated*: can every desired state be snapshot | 2 documents, 2 revisions |
| `networkd` | does the file-by-file installation keep the one-step promise, and end; what does networkd run with after failures | 2 files, 3 candidates that add, replace, keep and remove, 3 contents of which one is undecodable |
| `service` | isolation, record and status after every operation, with two processes, failing applies and writers without the lock; no operation ends half way | 2 documents, 2 bodies, 2 managed files, 3 revisions, 2 processes |
| `endings` | record, installed files, rollbacks, revisions and lock when a process ends anywhere, also between `git add` and `git commit`; are applies and rollbacks the steps of `ServicePromise` | the same, documents with and without header, and an invalid one |
| `drift` | is `in sync` the truth, and does every operation end, when managed files are changed and processes end at any moment, also between `git add` and `git commit` | 1 process, 2 revisions, 2 of the 3 intents of `service` |
| `store` | schema, record and what readers see, when processes race, statements fail and processes die; is recording one step | 3 processes, 3 outcomes, a new file or one of another version |
| `status_reader` | what does `status` say while operations run, fail and die anywhere next to it | 1 process and 1 reader, 2 documents, 2 revisions, 2 managed files |
| `commands` | do "Applied", "Rolled back and applied" and "Error" say what happened; does a success leave a history that works, whatever went before | 1 process, 3 revisions, every step may fail or be interrupted, also between `git add` and `git commit` |
| `aborted` | *violated*: is "Aborted; desired state was unchanged." true | the same, 2 revisions |
| `first_use` | does the repository come to have its identity, whoever gets into whose way and whoever dies elsewhere | 3 processes |
| `planning` | does generation take what validation and resolution accept, and what do its files promise together | 15,853 interfaces documents (every way to stack up to 3, device names of 15 and 16 characters, with a colon or of dots), 19 of gateways, 5 of routes |

**Why the bounds are enough to be interesting.** Three revisions allow an apply, a
change and a rollback to the first one (whose snapshot makes a third), or a success,
a failure and a return; two suffice where the question is about one step. Two
documents of which one is optional give presence and absence, and a rewriting of
several documents that can be interrupted. The second `interfaces.yaml` needs a
managed file the first does not (files appear and disappear) and resolves only
without optional content (plans fail). Two processes are the fewest that compete for
the lock; the lock admits one at a time, so a third adds only another competitor; in
`store` the third is a reader next to a writer and another process that creates the
schema. A loop of attachments, a shared member or a repeated tag needs at most three
interfaces (a parent or bridge and two others), a wrong route one of each. In
`status_reader` the two revisions allow a second apply or a rollback to be recorded
between any two looks, and one process suffices because the lock admits one at a
time. In all runs with two or three revisions a commit can be lost, its index
inherited by the next call, and the revision made then be applied or rolled back to.
`drift` has one intent less (`MCFewPlannable`) to make room for the files others
change at any moment; two intents still differ in which files they have. In `first_use` a third process can find `config.lock` taken by the second
while the first has given up. `MaxCommits` is a bound in the guards of `Stage`,
`BeginApply` and `BeginRollback` and in nothing else. Process symmetry is used only
in runs without liveness. No passing run turns deadlock checking off: some operation
can always begin.

**What the passing runs show.** Except in `service`, processes end at any moment.
Where one ends between `git add` and `git commit`, the index keeps an optional
document that was not asked for any more, and the next revision holds it although
it was not given: the code then shows "pending changes" after a successful rollback,
and "in sync" when the same document is written again by hand without an apply
(section 4). `RecordFaithful`, `InSyncIsTrue`, `InSyncBelongs`,
`InstalledFromHistory`, `DoneIsInSync` and `ServicePromised` say what holds
nevertheless: what is in effect was generated from the revision or the documents
in question, or from these without optional documents (`GivenFor`, `FilesFor`),
and never from anything else. Where commits cannot be lost, which is what an
instance with `CommitsCanBeLost = FALSE` or the theorems with that assumption say,
they mean the revision or the documents exactly.

`SnapshotExact`: with every answer the index is HEAD's tree again, and a call that
found it so answers with exactly what it was given; a lost commit can thus spoil
the next revision only. `SnapshotCovers`: what was given is in the revision in any
case. `TransactionIsolated`: what is planned, committed and installed is what is
on disk, whatever other Kavernis processes do, and whatever others do before the
reading (or the fingerprint comparison) began. `AppliedInEffect`: between operations
the managed files are those of the last recorded success. `RollbackRestoresIntent`:
headers that a rollback adds never change what the revision meant.
`SuccessIsInSync`, `FailureIsPending`: what status says after an apply, as long as
no operation ends half way. `RecordFaithful`, `InstalledFromHistory`: the record
belongs to its revision, and no managed file exists that no revision explains, also
after deaths in the middle of an installation or a restore. `ServicePromised`: the
history, the record and the managed files together only ever change as one of seven
steps, so that no order of failures, deaths and competing processes records files
that were not installed or installs files that nobody asked for. `InSyncIsTrue`:
what `in sync` says of the documents on disk and the managed files.
`SchemaWhole`, `RecordWhole`: races of two first users and deaths between statements
leave no half of anything; `ReadsForward`: the hashes a reader gets are at worst newer
than its revision. `GenerationAccepts`: the two copies of the stacking rules and of
the limits of tags and names agree, so `edit` accepts no interfaces that `apply`
cannot generate. `Layered`, `RoutesReachable`, `MembersQuiet` speak of the files as
networkd will combine them. `StatusAnswers`, `InSyncBelongs`: the one-step `Status`
of the other properties is what the look-by-look call answers, and operations that
overtake it can make it report a difference that is none, but not hide one.
`DoneIsInSync`: exit status 0 of apply and rollback means that the documents on disk
are in effect and in the newest revision, whatever earlier commands were interrupted
at, and that status says so if the revision holds no more. `ErrorChangesNothing`: a
failure that an operation raises itself leaves what was there. `SuccessRepairs`:
after a success `git add` refuses nothing any more and every revision resolves, so
`history_wedged` lasts only until a desired state with the removed file is applied.
`IdentityComing`: first users in a race never give up all at once. `RunsWholeSet`:
the ignored second reload can leave networkd with the refused candidate, but with a
whole one. `service` assumes that calls of the store succeed; `endings` and `drift`
do not: a raising store is an `End`.

**Fairness.** `drift` assumes weak fairness of what one process does by itself
(`Proceed`): it is scheduled, and file operations, Git and `networkctl` return. That
is what the synchronous code relies on. Editors need not return, users need not
begin anything, failures and outside writers need not happen: none of these has
fairness. `OperationsEnd` therefore speaks of operations in which no editor is open.
`networkd` assumes the same of one call (`CallStep \/ Abandon`); the abstract
promise's fairness follows (an installation loop has finitely many names to treat;
drift does not add any). `StateStore` assumes it of each call (`Proceed`), where a
locked database is waited for no longer than the busy timeout (`Busy`); a call of
`AppliedRecord` therefore ends. `HistoryFirstUse` assumes it of each process that
has begun to use the history (`Proceed`), not of beginning and not of dying;
`IdentityArrives` needs it, since a first user that is never scheduled again never
configures anything.

## 4. What disagrees with the documentation

Two runs end in a counterexample, `history_wedged` and `aborted`; each is a behaviour
of the code. Seven more configurations reproduce counterexamples to promises of the
documentation and are kept beside them: `HistoryStaleFile.cfg` (with
`MCDesiredHistory`), `LineEnds.cfg`, `RollbackMix.cfg`, `LostUpdate.cfg` (with
`MCNetworkState`), `TornRead.cfg` (`MCStateStore`), `FirstUseRace.cfg` and
`FirstUseDeath.cfg` (`MCHistoryFirstUse`).

- `history_wedged`, `HistoryStaleFile` (`SnapshotPossible`, `SnapshotHoldsNoMore`):
  `snapshot` derives the paths to stage from HEAD and forgets the index. After a
  call that was cut short between its two commands, a file staged by it gets into a
  later revision that was not given it; and a removal staged by it makes `git add`
  fail ("pathspec did not match any files") in every later call that does not have
  that file either. The stale file has a `status` compare with a revision that the
  documents do not equal. For instance: apply `interfaces.yaml`; create
  `routes.yaml` and have its apply killed after `git add`; apply or roll back
  without it. The command succeeds, but its revision holds `routes.yaml`, so
  status says "pending changes"; and when the same `routes.yaml` is created again,
  status says "in sync" although it was never installed. With `CommitsCanBeLost`
  neither `SuccessIsInSync` nor `FailureIsPending` holds, so `service`, which checks
  them, keeps that constant FALSE; the other runs of the service do not.
- `LineEnds` (`SuccessIsInSync`): `git show` is read in text mode (`history.py`
  143), so a document with carriage returns never equals its own revision.
- `RollbackMix` (`RollbackAtomic`; `README.md` 420 says "atomically"): documents are
  rewritten one at a time.
- `TornRead` (`ReadsWhole`): `get_domain_state` reads revision and hashes in two
  statements outside a transaction and without the lock; an apply recorded in
  between gives a `status` that compares the old revision with the new hashes.
- `aborted` (`AbortedIsUnchanged`): `cli.py` 117-118 answers every
  `KeyboardInterrupt` with "Aborted; desired state was unchanged.", also one that
  comes after `os.replace` of an edit or after the first document a rollback
  rewrites.
- `LostUpdate` (`EditsOverwriteNothing`): the fingerprints are compared in one step
  and the document is replaced in another; what an administrator's shell writes in
  between is lost without `DesiredStateChangedError`. (`flock` is advisory; among
  Kavernis processes `TransactionIsolated` holds.)
- `FirstUseRace`, `FirstUseDeath` (`CommitHasIdentity`): `_initialize` looks for
  `.git` only. When `git init` has run and `git config` has not - because a `status`
  or `history` is just in between, or because it died there - an apply goes on to
  `git commit` without an identity. Git then refuses, or commits in the name of the
  account; after a death this is permanent.

Seen while modelling, without a run of their own:

- A rollback to contents equal to HEAD commits nothing, although `README.md`
  420-421 says a rollback "makes a new history commit"; `Commit` shows it.
- `_restore` writes back what `read_text` gave (`networkd.py` 252): a managed
  file with carriage returns, put there by hand, is not restored byte for byte.
  `Restore` applies `ReadText`; the runs and `KeepsPromise` assume that the
  contents have none.
- Two processes that find the store empty both create its schema; the tables of
  the one that comes second exist already and its call raises (`CreateTables`).
  If that call was to record an apply, the apply stays unrecorded.
- Resolution accepts a gateway declared on link whatever its interface has, also
  on a member of a bridge or one that has the gateway's family disabled:
  `RoutesReachable` says that no other route gets onto a member.
- A managed file that is not UTF-8 ends every apply before it writes anything,
  with a `UnicodeDecodeError` that is not recorded as a failed apply (`NativeBreaks`).
  A file that is removed while `_managed_files` or `_restore` gets to it ends the
  apply with a `FileNotFoundError` in the same way.
- A `status` that is overtaken by an apply can say "drift detected" or "pending
  changes" although the network was in sync before and after it
  (`InSyncBelongs` is about "in sync" only).
- `load_network` reads the documents one by one, so `status`, `plan` and `diff`, which
  take no lock, may see one document before and another after a rollback.
- Documents equal to the applied revision are "pending changes" when HEAD is a later
  revision that failed and they were brought back by hand; `diff` is then empty.

## 5. Proofs

All proofs are checked by `tlapm` to the last leaf; the theorems hold for every
value of the constants that satisfies the named assumptions.

- `HistoryCovers` (`DesiredHistoryProofs`): type correctness, `SnapshotCovers`
  and `RevisionsHoldInterfaces`, however many calls are cut short. The inductive
  invariant adds that a staged snapshot's files are already in the index and
  that the index, whenever HEAD exists or a call is staged, holds the mandatory
  document: nothing later can take out what `git add` put in.
- `HistoryExact`: `SnapshotExact`, however many calls are cut short. The paths that
  are staged and those that HEAD has make up all of an index that was clean, so
  what is committed is what was given; and after `git commit` the index is HEAD's.
- `ReloadsComplete` (`NetworkdProofs`): `NeverReloadsPartial`. The invariant
  says, for each phase and each name, what the file holds, depending on whether
  the name is still to be treated.
- `KeepsPromise`: every step of `Networkd` is a step of `NativeApply` or leaves
  its variables alone, under the refinement mapping of the module; both proofs
  need the assumption that text-mode reading changes none of the contents.
- `NetworkdRunsWholeSets` (`NetworkdLoadedProofs`): `RunsWholeSet`, on top of the
  two invariants above. `LoadedInv` adds that the managed files are a whole set
  whenever no call is at work on them, so that both reloads, read or not, leave a
  whole one.
- `TypesHold`, `LockIsHeld` (`NetworkStateProofs`): `TypeOK` and `LockHeld`.
- `ServiceUsesParts`: every behaviour of the service, its history variables
  alone, is a behaviour of `HistorySpec`, and likewise of the installation. It
  needs an invariant that couples each process's step with the state of the two
  parts (a snapshot is staged exactly when a process is about to commit, and so
  on). What is proved of the parts thereby holds of the service.
- `ServiceHistory`: in the service, with deaths anywhere and lost commits,
  `SnapshotCovers` and `RevisionsHoldInterfaces`, from the two theorems before.
- `RecordIsFaithful`, `InSyncIsTheTruth`: `RecordFaithful` and `InSyncIsTrue`, with
  deaths anywhere and lost commits. The argument: a process about to record has a
  snapshot whose files are the tree it planned, and those are in `GivenFor` of the
  revision that was answered (`HistoryCovers`' strengthening), so the record's hashes
  are in `FilesFor` of its revision; revisions never change; and documents that
  match a revision up to line ends mean what it means, with or without the optional
  ones.
- `OperationsAreIsolated`: `TransactionIsolated`, with lost
  commits too. Only the lock holder has documents to agree with (`LockHeld`), so
  every other process's steps are harmless; of the holder's, the invariant keeps how
  far it got.
- `RollbacksRestore`: `RollbackRestoresIntent`. The goal's revision never changes,
  and adding a header or reading line ends as text leaves a document's meaning
  alone.
- `SuccessShows`, `FailureShows`: `SuccessIsInSync` and `FailureIsPending`, without
  lost commits (section 4 shows that they are false with them) and when documents are not changed by being read as text
  (`LineEnds.cfg` shows that this assumption is needed). `OperationInv`: the
  snapshot of who is installing is of the documents on disk, unless somebody touched
  them, and the candidate is what they generate, with or without headers; until a step
  fails, every file is what the phase of the installation says, so a success needs
  nothing of how files are read (`InstallingInv`).
- `LastSuccessInEffect`: `AppliedInEffect`, when no process ends half way and nobody
  else changes managed files. `EffectInv` carries through the installation what the
  files were when it began.
- `OnlyRevisionsInstalled`: `InstalledFromHistory`, also with deaths in the middle
  of an installation and lost commits, when nobody else changes managed files.
  `SourceInv`: candidate, previous files and current files each come from what
  revisions generate, file by file.
- `ServiceKeepsPromise`: `ServicePromised`, that is every behaviour of `NetworkState`
  is one of `ServicePromise` under the mapping `Service`: with lost commits, when
  nobody else changes managed files and text-mode reading changes none of their
  contents. `ServiceInv`
  says that whoever installs installs one of `FilesFor` of the newest revision
  (`HistoryCovers`' strengthening) and that the files so far are each the old one,
  the new one or absent; the file-by-file steps are those of `KeepsPromise`.
- `SchemaStaysWhole`, `StoreWhole` (`StateStoreProofs`): `SchemaWhole`, type
  correctness and `RecordWhole`. The invariant: whoever is inside a transaction owns
  the open one, and the open transaction holds exactly what its owner's statements
  so far make of the file.
- `ReadersGoForward`: `ReadsForward`. `ForwardInv`: applies are numbered upwards, so
  what a reader has is never above the file's record.
- `OtherVersionsAreKept`: `OtherVersionKept`. `ForeignInv`: when the file is of
  another version, nobody is past the version check, and no open transaction has
  changed it.
- `StoreKeepsPromise`: every statement is a step of `AppliedRecord` or leaves its
  variables alone; the commit is the step.
- `AcceptedIsGenerated`, `PlansAreLayered`, `RoutesCanBeUsed`, `MembersAreSilent`
  (`PlanningProofs`): `GenerationAccepts`, `Layered`, `RoutesReachable`,
  `MembersQuiet`, for every document over any names, subnets and addresses. The
  invariant says what each step knows of the documents loaded so far; the lemmas
  show what follows for the set of entries, of which an id or a device determines
  one.
- `StatusIsAnswered` (`CommandProofs`): `ReaderTypeOK` and `StatusAnswers`,
  with every failure, death, drift and lost commit. `CurrentInv`: what a call that
  nothing has overtaken has seen is what there is.
- `InSyncBelongsTogether`: `InSyncBelongs`, with lost commits too. `BelongsInv`: the
  head a call has looked at matches the documents it has read, and revisions only
  grow; an untorn record belongs to its revision (`RecordIsFaithful`), so its hashes
  are those of the documents read, however old either is by then.

- `CommandsAreOperations`: every behaviour of `CommandLine` is one of `NetworkState`,
  so that the theorems above hold while commands run.
- `DoneIsDone`: `DoneIsInSync`, with lost commits, when documents are not changed by
  being read as text. `SuccessPutsRight`: `SuccessRepairs`, of every instance: the
  answered snapshot of a successful command has made the index HEAD's tree, and a
  revision is only made of documents that were planned before. `ErrorsChangeNothing`:
  `ErrorChangesNothing`, with lost commits, when text-mode reading changes no managed
  file's content. `RunningInv`:
  the step an operation is at belongs to the command that runs, the command runs as
  long as the lock is held, and what it remembers of its beginning (documents, record,
  managed files) is what is still there until the step that changes it; the files in
  effect are those of `FilesInv`, so a failed installation counts as none.
- `IdentityIsComing` (`HistoryFirstUseProofs`): type correctness and
  `IdentityComing`, for any number of first users. `PlacesInv`: what each place in
  `_initialize` knows of the repository (a process past `git init` finds one, past a
  `git config` its half of the identity), and `config.lock` is held by somebody
  who is configuring, or by nobody.

Only model-checked: liveness (`OperationsEnd`, `IdentityArrives`, the fairness of
`NativeApplied` and `RecordsInOneStep`), which with `ENABLED` is out of the prover's
reach. Every safety property that a passing run checks is a theorem.
`EditsOverwriteNothing`, `SnapshotPossible`, `SnapshotHoldsNoMore` and the other
properties of section 4 are not: the code violates them.

## 6. Not modelled, and why

- `rendering.py`'s text, templates, JSON schema contents, the parsing of YAML and of
  command-line arguments, printing, `history` and the text of `diff`: layout or pure
  input and output; nothing another part relies on is decided there. `diff` and
  `history` read what `StatusReader` reads and change nothing; as first users of the
  repository they are the `BeginRead` of `HistoryFirstUse`.
- File modes and owners, and what survives a power failure without `fsync`: a crash
  in these models ends processes and keeps what the kernel was given.
- `Planning` is not composed with the service: to `NetworkState` a plan is a
  function of the documents' meanings (`Plannable`, `Generated`), which is all its
  properties need of it; the composition would multiply two large state spaces and
  add no behaviour.
- `HistoryFirstUse` is not composed with `NetworkState`: there, a commit that Git
  refuses for want of an identity is `LoseCommit`.
- An `index.lock` that a killed Git leaves behind: Git's own recovery, which needs
  an administrator; every later `add` fails and the operation ends as `StageFiles`
  does when Git refuses.
- The second reload's effect on the kernel's interfaces: networkd's, not Kavernis's.
