# LibreEcho: verification project

TLA+ models of LibreEcho's host-side installation system, checked with TLC and proved in
part with TLAPS. LibreEcho replaces the firmware of Amazon Echo units (boards
`radar_puffin` and `biscuit`); the repository holds the installer, the release pipeline
and the build of the images, not the firmware itself. Modelled are the installer with
its durable state, the scripts it runs on the device, the first boot after an
installation, the way a release gets onto the host, the writer of the userdata image,
the kit that migrates a unit to the Kaeru boot chain, and the build's component cache.

## 1. Inventory

### 1.1 Components

| Component | Source | State | Operations |
|---|---|---|---|
| **Installer** | `tools/libreecho-install.py` | `<state-root>/<install-id>/state.json` and its `.before-reinstall-*` archives, `<state-root>/brick-latches/*`, `<cache-root>/.lock` | `one-shot` (with `--reinstall`), `continue-one-shot` (with `--repair-userdata`), `install`, `resume`, `status`, `reconnect-setup` |
| **Unit** (external) | the code above talks to it | USB mode, boot chain, both boot slots, userdata, feature tree, published generation, first-boot setup | fastboot and adb commands, power cycles |
| **Device scripts** | `ROOT_FEATURE_STAGER`, `ROOT_GENERATION_PUBLISHER` in the installer | `/data/libreecho/{features,generations,update}` | stage one feature, publish the signed generation |
| **Slot confirmation, setup supervision** | `verify_boot_slot`, `supervise_setup`, `reconnect_setup` | the unit's slot counters, the adb forward; nothing durable on the host | confirm the running slot; keep the setup page forwarded until setup is done |
| **Download, release cache, bundle verification** | `download_release`, `_download_url`, `_prepare`, `_copy_atomic`, `_verify_bundle` | the download directory, `<cache-root>/TAG/{downloads,bundle}`, `.lock` | download and hash a release, keep a copy for continuations, extract the bundle |
| **Userdata image writer** | `_userdata_free_block_map`, `_write_userdata_sparse`, `_validate_android_sparse_image` | none | raw ext4 image to Android sparse image |
| **Radar Kaeru migration** | `tools/radar-kaeru-migration/migrate.sh`, `gpt-fix.py` | partitions of one unit, the tables kept on the host | migrate, `--no-gpt-fix`, `--gpt-fix`, `--gpt-restore`, `--verify`, `--dry-run` |
| **Component cache** | `build/component-cache.py` | entries, per-key locks, quarantine | `key`, `store`, `restore`, `materialize` |
| **Wrapper** | `tools/run-one-shot.sh` | none | verify and start the installer, always with `--target` |
| **Release publication** | `.github/workflows/publish-release.yml`, `build/ci/publish-stable-release.sh`, `publish_dev_pointer.py`, `release_route.py` | tags, drafts, assets, `release-pointer-v3.txt` | publish stable or dev, advance the pointer |
| **Release build** | `.github/workflows/build-release.yml`, `build/build.sh`, `build/ci/*` | work directories, artifacts | a sequential pipeline |
| **Release preparation, repository checks, fetchers** | `tools/prepare-*.py`, `tools/check-*.py`, `build/fetch-*.sh` | none between calls | functions of files with a verdict |

### 1.2 Interactions

The operator starts a run of the installer, usually through the wrapper. A run
takes the cache root's `flock` without waiting, reads and replaces the state file
of its install id, and drives one unit over fastboot and adb. Nothing ties the two
together: the state file is written after (sometimes before) the device write it
tells of, a run may die in between, and the unit may be rebooted, unplugged or
swapped under a run's feet. On the unit the stager and the publisher run as root
scripts that the installer pushes. Releases come from the publication workflow,
which the installer reads as fixed files with hashes.

### 1.3 Where it is hard

* The brick payload must reach a locked unit once and an unlocked one never,
  although its outcome is unknown whatever is replied, and although the run, the
  install id and the operator may change in between.
* Durable evidence (`userdata_formatted`, `phase`, `device_serial`) decides what
  later runs skip; it must not be ahead of the unit.
* A run can be resumed from every phase, by a command that starts from the state
  it read at the beginning.
* Serial `auto` means "whichever single unit answers", at each selection anew.
* The transport waits are the only scheduling: everything else is an error exit.
* On the unit, power may go between any two commands of a script, with data that no
  `sync` has covered.
* The download directory belongs to no cache root, so runs with different cache roots
  write the same temporary files.
* A unit may reboot into its other slot between two commands of the host.
* The migration overwrites the boot chain and both copies of the partition table of
  the system it runs on.

The hazards, each with its line and the properties that watch it, are listed in
`PROJECT.json`. Those without a property are there too, with the reason.

### 1.4 What makes each component correct

* Installer: one brick per unit; no brick on a converted chain; an unresolved brick
  and a partly completed installation are never lost; evidence true of the unit;
  only the board's own image; every run ends; every interruption can be resumed.
* Device scripts: after a power cut anywhere, a rerun finishes or refuses, and the
  running system never mounts a torn generation.
* First boot: a unit that was reported confirmed keeps a slot to boot; supervision
  ends, gives up only on a unit that stayed away, and finds one that came back.
* Release cache: a run installs from its own target's whole bundle; a bundle that a state
  file names stays complete; what earlier runs left stops nobody.
* Image writer: every live block of the new filesystem is programmed, whatever
  happened to the listing.
* Migration: the preloader goes last and only over the complete chain; a whole copy of
  the partition table always remains; only the original is kept for a restore, whole and in time.
* Component cache: a restored entry is byte for byte the stored one; racing stores
  and restores leave one valid entry; runs that share a key hold one output; a corrupt
  entry costs a rebuild and never blocks one.
* Release publication: a published release is complete and immutable; the pointer
  names only published releases and does not go back.

## 2. Plan

The modules, in the order they depend on one another:

| Module | Role | Its proofs |
|---|---|---|
| `InstallTransaction` | abstract: what an installation promises | |
| `Installer` | runs, state files, latches, lock, units; implements `InstallTransaction` | `InstallerProofs`, `EvidenceProofs`, `TransactionProofs` |
| `FeatureDelivery` | abstract: staging and publication as atomic steps, as `Installer` takes them | |
| `DeviceScripts` | both scripts command by command; implements `FeatureDelivery` | `DeliveryProofs` |
| `FirstBoot` | slot confirmation, supervision, reconnection | `DeliveryProofs` |
| `FinishInstall` | composes `DeviceScripts` and `FirstBoot` | `DeliveryProofs` |
| `ReleaseCache` | downloads, cache, bundle | `ReleaseCacheProofs` |
| `UserdataFormat` | abstract: what formatting userdata does to the partition | |
| `UserdataImage` | free-block map, sparse image, flash; implements `UserdataFormat` | `UserdataProofs` |
| `KaeruMigration` | the migration kit | `KaeruProofs` |
| `KeyedOutput` | abstract: builds that share a key go on with one settled output | |
| `ComponentCache` | the build's cache; implements `KeyedOutput` | `CacheProofs` |

`MC*` modules hold the instances for TLC. Modules that carry proofs use no RECURSIVE
operator; constants have one named assumption per module (`ConstantsOK`, `FeaturesOK`, ...).

What is left: an abstract specification of the release cache, and a model of the release
publication, whose state is GitHub's (section 12).

## 3. The core: `Installer`

### 3.1 State

| Variable | Code |
|---|---|
| `saved[i]` | `state.json` of install id `i`: `phase`, `rel` (release, board and bundle hash together), `fmt` (`userdata_formatted`), `dev` (`device_serial`), or `None` |
| `archive[i]` | the devices that `i`'s `state.json.before-reinstall-*` files name |
| `latches` | the files in `brick-latches`, as the pair (target, serial) that is hashed into the name |
| `lock[c]` | who holds `<cache-root>/.lock` |
| `pc[p]`, `run[p]` | the next step of invocation `p`, its arguments and locals |
| `dev[d]` | the unit: USB mode, chain, userdata, boot slots, feature tree, generation, mounted generation, setup |
| `bricks[d]`, `writers[d]` | history: bricks sent to `d`; install ids that wrote `d` |
| `calm` | FALSE while transports fail and operators interfere; becomes TRUE once and for all |

### 3.2 Actions

One action per step between two durable effects, in the code's order: `OneShotCheck`,
`EnterFastboot`, `WriteReady`, `SelectDevice`, `ClaimCheck`, `ClaimWrite`, `SubmitBrick`,
`SendBrick`, `Reconcile`, `WriteHandoff`, `BindDevice`, `Format`, `RecordFormat`,
`WriteFastbootReady`, `FlashBoot`, `WriteBootWritten`, `RebootInstalled`, `WriteAdbReady`,
`Readback`, `StageFeatures`, `WriteFeaturesStaged`; then `PublishGeneration`,
`DeliverSetup`, `FinalReboot`, `AwaitReady`, `CompleteInstall`; and for continuations
`ContinueCheck` with its branches (resume, reconcile, bind, repair, attach). A
refusal in the code is a disjunct that ends the run (`Fail`). `SavePhase` is
`_write_state` with the values it carries over from the same release's file;
`SaveBound` is its `{**state, ...}` form, which writes what the command read.

`Abort` ends a run between any two steps: a transport error, a failed check, a signal
or a crash all leave the files as they are and drop the lock. `Timeout` ends a
bounded wait whose event has not come. The device steps are `BootUp`,
`FastbootUp`, `FinishWebSetup` and the operator's power cycle `Operate`, which may
come at any time while things are not calm.

The payload's effect is nondeterministic (`BrickEffect`): none, or the chain is
unlocked and the unit goes to recovery or fastboot. On a chain that is converted
it destroys the chain, which the code's comments name as the reason for the
Kaeru check.

### 3.3 Abstractions

* Both slots are selected and written together (`slots = both`); `boot` is
  "the release" only once both hold it, "torn" if a flash stopped part way.
* A release is one target's bundle, so `rel` stands for release, board and hash.
* Hash and schema checks refuse or pass: `Abort`.
* Downloads and the cached bundle are `ReleaseCache`, the userdata image is `UserdataImage`:
  here they are there, or the run has failed.
* The two device scripts are atomic, a staging may also stop half way. That the scripts
  may be taken so is what `DeviceScripts` shows (section 4).
* Boot-slot confirmation and `reconnect-setup` are in `FirstBoot`. The emulator branch, logs,
  diagnostics and terminal dialogue are left out, as are `resume` and `status`, which
  only read.
* A host's power cut that loses a rename is not modelled, only a process's death.

### 3.4 The abstract specification

`InstallTransaction` says what an installation promises: an id's record goes
`ready`, `submitted`, `open`, `formatted`, `flashed`, `staged`, one stage at a time; from
the format on it keeps one unit; it is given up as a whole and never while a
brick is unresolved; a unit's one submission is claimed before it is submitted and
submitted before it is sent. `StageOf` is the refinement mapping. That several
concrete writes (a brick's handoff, a bind, an `ADB_READY`) are stutters, and that no
write moves back, is what the check shows.

## 4. The end of an installation: `DeviceScripts`, `FirstBoot`, `FinishInstall`

**`DeviceScripts`.** `now` is the device's file system as programs see it, `disk` what was
last committed, both functions from paths to "absent", "dirty" (perhaps only in
memory), "whole" or "torn". `Commit` may happen at any time: the journal keeps the order
of directory changes. `sync` makes everything whole. `PowerCut` brings `disk` back, and any
of its dirty files may be torn. `pc` is the next command of the script that runs, or
of the host between scripts; `phase` is the state file's; `live` says whether the running
system mounted the generation.

The stager is `Mark`, `SetAside`, `MovePayload`, `MoveManifest`, `SyncFiles`, `Unmark`, `SyncMarker`;
the publisher goes from `Inspect` to `SyncClean`, with `Verify` and `Discard` for a
generation the verifier rejects; the host is `Run`, `StageNext`, `ReadBack`, `RecordStaged`,
`Resume`, `Finish`, `FinalReboot`, `AwaitReady`. The three safety invariants speak of `disk`,
that is, of every moment power may be cut.

**`FeatureDelivery`** is the abstract specification: features "open", "staged" or "handed
over", one boolean for the generation, and the phase. It is the bridge between the
two levels: its steps are those of `Installer` (`StageFeatures`, `WriteFeaturesStaged`,
`PublishGeneration`, `CompleteInstall`), and `DeviceScripts` implements it
(`ImplementsDelivery`) with a refinement mapping that is computed from `disk`.

**`FirstBoot`.** `slots` are the bootloader's counters, `unit` what runs and answers, `host` the next
command, `check` the locals of `verify_boot_slot`, `watch` those of `supervise_setup` with time
counted in polls. Every host command has an outcome for a unit that does not
answer. The unit goes down, comes up in a bootable slot (which costs a try), settles,
confirms itself and completes its setup. `steady` is when it stops going down.

**`FinishInstall`** composes them: delivery first, then, on the same unit, confirmation
and supervision; the reboots of the second half are also reboots of the first one's
file system, so `BootsComplete` says something of both.

Abstractions: files the scripts copy before the marked section are read by nobody and
appear with their renames; what a failing copy leaves in the partial generation is
removed before it could be read; the verifier is external and may fail without cause.

## 5. The release cache: `ReleaseCache`

| Variable | Code |
|---|---|
| `file`, `part` | the download directory: the blocks each file and its `.part` hold |
| `kept`, `bundle` | each cache root's `TAG/downloads` and whose bundle is in `TAG/bundle` |
| `recorded` | the targets for which a state file names the cache's bundle hash |
| `lock` | who holds each cache root's `.lock` |
| `pc[p]`, `run[p]` | a run's step: `Fetch`, `Connect`, `Receive`, `Publish`, `Hash`, `Verify`, `Copy`, `Extract`, `Swap`, `Install` |
| `changed` | history: caches for which a source was replaced while they were copying it |

A file is the set of blocks it has, a digest is the comparison with the whole. Two runs
that download the same asset open the same `.part`; renaming or removing a name leaves
the other run's open file behind under another name or none (`Moved`). `Kill` and `Broken`
end a run between any two blocks. All files are those of one tag: tags have their own
directories. The manifest's schema checks are refusals without state.

## 6. The userdata image: `UserdataImage`

`report` is what `dumpe2fs` printed, line by line: headers, and for every group its range, its
number of free blocks and their ranges. `ReadHeaders`, `StartGroup`, `SkipLine`, `CountFree`,
`ListFree`, `EndOfReport` are `_userdata_free_block_map`; `NextRun` and `WriteChunk` are
`_write_userdata_sparse`; `Validate` is its self-check and the accounting; `Flash` is what
fastboot and the bootloader make of the chunks. The listing is the true one with up to two
lines lost, its end cut off, a line repeated or a line moved. Blocks are numbers, so a
block written in the wrong place is noticed. The ranges of a free list are the blocks from
each first one (`Firsts`) to the end of its run (`RunFrom`); `BlocksOf` adds up the blocks
of the chunks of a type.

A listing is `Intact` when no line was lost or moved and the filesystem is one that LK can
program. `IntactNotRefused` says that no line of such a listing and not its end is refused,
and `IntactIsAccepted` that its image is begun; the other properties hold of any listing.
`UserdataFormat` is what the `Format` step of `Installer` counts on: blocks of the new
filesystem are programmed, each once and with its own contents, until either all are and
the format is done, or it fails. There is no step for a format that is done too early, for
a block that the new filesystem does not use, or for an image the installer disowns, so
`OwnImageValid` needs no check of its own in the run; `UserdataProofs` proves it.

## 7. The migration kit: `KaeruMigration`

| Variable | Code |
|---|---|
| `flash` | each part of the boot chain: old, cut inside or behind the headers, new, or clobbered by the old system's reboot marker |
| `table` | the two copies of the partition table: sets of (name, area), or torn |
| `misc`, `mode`, `guard`, `ro` | the fastboot marker; what the unit runs; the kit's two protections, both gone with the next boot |
| `work` | on the host: `gpt-work/primary.bin` and `backup.bin`, the table as last fetched |
| `saved` | `backup/gpt-primary-orig.bin` and `gpt-backup-orig.bin`: each absent, short or whole, and of which table |
| `manifest` | what `backup/GPT-MANIFEST.sha256` lists |
| `pc[p]`, `run[p]` | the step: `Gate`, `Guard`, `Write` (six parts in order), `GptStep` (fetch, `gpt-fix.py`), `KeepPrimary`, `KeepBackup`, `Manifest`, `GptWrite` (backup, then primary), `Lock`, `Mark`, `SafeReboot` |
| `cut` | history: the keeping of a table (`"keep"`) or the writes of a `--gpt-restore` (`"restore"`) were ever broken off |

Every write may be cut at any point. A power cut or an `adb reboot bootloader` may come
between any two commands, and a run does not notice. What a mixed chain boots into is
nondeterministic, "dead" included. The kit takes no lock.

The original table is kept (277-278) by two `cp`s and a `sha256sum` that nobody checks:
each may fail with or without leaving something and the run goes on, or the run is killed
in or between them. Both `cp`s depend on a test for the first file only. A kept file is
therefore `Whole` or `Short`, and a write of a short one never agrees with its readback.
`SavedIsLegacy` says what the kit does secure: nothing but the `_x` table is ever kept, and
as long as no keeping was broken off, it is whole and passes the gate before a table is
converted. What it does not secure are findings 5 and 6 of section 10.

## 8. The component cache: `ComponentCache`

One instance of the module is one (component, key): locks, entries and comparisons
of `build/component-cache.py` are per key, so two keys do not interact. The actors
are checkouts, each of which runs one `build.sh` at a time (`.build.lock`) but shares
`LIBREECHO_COMPONENT_CACHE_ROOT` with others.

| Variable | Code |
|---|---|
| `entry` | `<component>/<key>`: `payload` and the content `manifest.json` describes, or `None` |
| `lock` | the `flock` on `.<key>.lock` |
| `pc[b]`, `run[b]` | the build's step; its output directory, the copy it is making, the manifest it holds, the run's component directory and its record in `components.json` |
| `shipped`, `rotted` | history: contents ever recorded; whether an entry has decayed |
| `calm` | FALSE while builds are killed, I/O fails and entries decay |

A build starts with its output removed and a new run directory and either restores
(`KeyLock`, `Lookup`, `CopyOut`, `VerifyRestored`) or goes on to `Build` and store
(`KeyLock`, `CopyIn`, `Compare`, `Quarantine`, `Commit`, `VerifyStored`); then
`Materialize`, `PublishRoot`, `PublishRecord`. The steps are those between which a kill
or another build's step makes a difference: each rename and each read of the entry.
`Nondeterministic` is `_store`'s refusal, `RollBack` a failing second rename in
`_materialize`. `Kill` stops a build anywhere and the kernel drops its lock.

`KeyedOutput` is what the builds that share a key are promised: one output is settled, a
build takes what is settled when it asks, records nothing else, and the settled output is
lost only to decay. A build takes it at its lookup (`Hit`, where the manifest is read), where
its own output is found to be there already (`Exists`), or after it has stored it
(`VerifyStored`); `Commit` settles it and `PublishRecord` ships. That restored and recorded
components are whole (`RestoredWhole`, proved in `CacheProofs`) follows.
`Decay` spoils payload or manifest at any time, also between a check and a copy.

Abstractions: a tree is its content, a manifest the content it describes (it lists
every path, mode, size and SHA-256); a builder returns any of `Outputs`. Copies under
random names and quarantined entries are never read again and are left out. Output
and run directory belong to one build, so the refusals to overwrite a destination
or a record do not occur, and `materialize`'s own lock has nobody to exclude. Only
the cache's files decay: nothing in the build checks its own outputs against a disk.
`key` hashes its inputs and has no state.

## 9. The runs

Model values name units, ids, releases, invocations, cache roots and so on.

| Run | Instance | Shows |
|---|---|---|
| `installer_life` | 1 unit, 1 id, 2 releases (one without a signed generation), 1 invocation, `AllOrigins`; fairness | `TypeOK`, `EvidenceSound`, `NothingDiscarded`, `ImplementsTransaction`, `RunEnds`, `Recoverable` |
| `installer_two_ids` | 1 stock unit, 2 ids, 2 releases, 2 concurrent invocations, 1 cache root | `AtMostOneBrick`, `UnresolvedBrickRemembered`, `StageOnVerified` |
| `installer_two_units` | 2 units of different boards, any chain, no `--target`, `install` included | `ChainIntact`, `OwnBoardOnly` |
| `installer_two_targets` | 2 ids, 2 releases of different targets, explicit `--target` | violation of `AtMostOneBrick` |
| `installer_forwarding` | 1 unit, 1 id | violation of `ContinuationOnlyForwards` |
| `installer_reinstall` | 2 units, `one-shot` only | violation of `ReinstallSameUnit` |
| `installer_post_brick` | 2 units, `one-shot` only | violation of `PostBrickSameUnit` |
| `finish_install` | 2 features, copies instead of hard links, 2 slots, 1 try, reconnect time 2, limit 3 polls; fairness | `MarkerGuards`, `PointerSound`, `OnlyRejectedBroken`, `ImplementsDelivery`, `Completes`; `ConfirmedKeepsBooting`, `GoneJustified`, `SupervisionEnds`, `ReturnNoticed`; `BootsComplete` |
| `release_cache` | 2 runs, 2 cache roots, 1 target, one asset of one block and `SHA256SUMS`; fairness | `InstallsOwnBundle`, `KeptForContinuation`, `AcceptedStays`, `GetsThrough` |
| `userdata_image` | 7 blocks in groups of 3, 3 and 1, a budget of 5; fairness | `LiveBlocksWritten`, `MapIsAllocation`, `IntactNotRefused`, `ImplementsFormat`, `IntactIsAccepted` |
| `kaeru_migration` | 1 run at a time in every mode; old, converted (either table) and clobbered units; fairness | `SavedIsLegacy`, `SystemKept`, `ATableIsWhole`, `PreloaderLast`, `Completes` |
| `component_cache` | 2 checkouts, 2 outputs, kills, I/O errors, decay; fairness | `OneOutput`, `RecordBacked`, `EntryKept`, `ImplementsOutput`, `Heals` |

**Initial states** of the installer (`Origins`): no state file and a unit in fastboot with a
stock, unlocked or converted chain; and (`EarlyInstalls`) the states that installers
without device binding and userdata format left behind, which the code still
accepts (`AMONET_VERIFIED`, `legacy state has no device binding`, `--repair-userdata`).

**Bounds.**

* `Trouble` (`~calm`): calm only disables steps, so the installer's safety runs stop where it
  sets in. `bricks` needs no cap: it stays at one wherever the latch works.
* `UnitNamed` (two ids, one unit): the operator names the unit; with a single
  unit `auto` selects the same one or nothing.
* `BeforeSystem` (two units): stops a behaviour once one unit is flashed. What
  comes after on that unit is covered by the one-unit runs; brick, selection and
  board checks all come before.
* Two invocations suffice to interleave: a third adds no new pair of steps, and that
  any number of ids, units, releases and runs adds nothing to what the brick and
  evidence properties need is what their theorems say.
* Symmetry (`Alike`): over invocations, ids and releases, where the releases are of one
  kind; never in a liveness run.
* `finish_install`: two features are the least of which one is staged while the other is
  not; copies are the harder branch of the publisher (links share the source's state).
  With one try a slot that is not confirmed boots once, so a fallback happens; the reconnect
  time is less than the limit, as in the code, so each can end a run first.
* `release_cache`: `OthersOnlyDownload` follows the run of the other cache root through its
  download, the only part that touches what it shares. Once calm, one run is
  alive, so this cuts no run that `GetsThrough` speaks of but those of the other root.
  One block is enough for a file to be empty or whole and for a run to write to a name
  that has moved; one target, one asset: the theorems hold for any number.
* `userdata_image`: three groups give a first, a middle and a short last one; all 64
  allocations with block 0 in use, and every garbling of their listings. The theorems
  hold for any number of blocks and any group size.
* `kaeru_migration`: one run at a time is what the kit asks for. `SystemKept` is proved for any number; two runs share `gpt-work/` and
  `backup/`, so `SavedIsLegacy` is not.
* `component_cache` has no bound: builds restart for ever, in finitely many states.

**Deadlock** is checked in every run but `kaeru_migration`: some power cycle or command is
always enabled, a build that has ended can be started again, and an image that is
done stutters. In `kaeru_migration` a unit that is in fastboot or dead has really left the kit.

**Fairness.** Each run with liveness names it in its `LiveSpec`:

* `Installer`. `RunsProgress`: a run that can take a step takes one; the program is
  sequential and every external command and wait has a timeout in the code
  (`_run_command`, `wait_for_*`). `Transition`: a unit that is booting or on its way to
  fastboot gets there or stops. `Persistent`: trouble ends some day (`BecomeCalm`), and the
  operator keeps following the guide: power-cycles the unit either way between runs
  and runs `continue-one-shot` for the saved release with the saved serial, `--target` and
  `--repair-userdata`. `RunEnds` needs only the first two; `Recoverable` needs all, and they
  are the preconditions the guide itself states.
* `FinishInstall`: scripts and host take their next command (weak); trouble ends (weak); the
  operator power-cycles a unit again and again while the installation is not
  finished (strong, as the guide tells after a failure: a host that was killed between
  publication and reboot never reboots the unit itself); afterwards the host takes its
  next command and a unit that is up comes to serve its page.
* `ReleaseCache`: each run takes its next step. That trouble ends need not happen;
  `GetsThrough` speaks of runs after it.
* `KaeruMigration`: each run takes its next step, and the operator starts one (which
  one, once calm, is what the kit's messages say). `UserdataImage`: the program goes on.
* `ComponentCache`: a build which can run does (weak), and `flock` serves waiters in turn
  (strong fairness of `KeyLock`: the kernel queues them). Builds need not be started
  and trouble need not end; `Heals` only speaks of a build that is at its restore or at
  its builder when trouble has ended.

## 10. What the runs found

1. *The latch is per target* (`installer_two_targets`). `brick_latch_path` promises
   that "a second submission to the same unit is refused whatever install-id is
   used", but the key hashes target and serial. With explicit `--target`, which the
   wrapper always passes and which turns a product mismatch into a warning, two
   runs for different targets brick the same unit twice.
2. *A continuation from FEATURES_STAGED is not read-only* (`installer_forwarding`).
   The guide says it "performs no format, flash, reboot, or payload replacement";
   it publishes the generation, removes the feature tree and reboots.
3. *A failed --reinstall forgets its unit* (`installer_reinstall`). The state is
   archived before the reboot to fastboot. If that fails, the advised rerun finds no
   state and accepts any unit.
4. *After a brick the unit is selected anew* (`installer_post_brick`). With `auto`
   another unit that is alone in fastboot by then is bound, formatted and flashed.

Two more are in the model of the migration. `SavedIsLegacy` exempts them (`"keep" \in cut`), and TLC
shows each at once when `kaeru_migration.cfg` is given `SPECIFICATION Spec` and the named
definition as its only `INVARIANT`:

5. *A short copy of the table is blessed* (`RestoreIsWhole` fails). `migrate.sh:277` does not check
   its `cp`s and 278 computes the manifest over whatever is there, so a copy that stopped
   short (a full disk, a kill) passes the check (287) that the kit's README promises ("checked
   against `backup/GPT-MANIFEST.sha256`"). `--gpt-restore` then writes it over the backup
   table; the readback (252) stops it before the primary. After a conversion cut in the
   primary, for which the kit advises `--gpt-restore` (255), that backup was the last whole copy.
6. *A copy that was missed is missed for ever* (`OriginalKept` fails). The test at `migrate.sh:277`
   is for the primary only. A run killed in or after the first `cp`, a dry run too, leaves no copy
   of the backup; every later run skips both `cp`s and, though nothing fails in it, converts.
   The kit's README says that "the original GPT is in `backup/gpt-*-orig.bin`" and "can be put back
   with `--gpt-restore`", which refuses from then on (286).

What the models show without contradicting a text, each at its line of
`tools/libreecho-install.py` unless another file is named:

* `install` overwrites any state with `RELEASE_READY`, an unresolved brick marker included
  (2171). `UnresolvedBrickRemembered` is proved without that command (`NoInstall`).
* With two cache roots over one state root the latch check and its write are not
  atomic (2235): hence `OneCacheRoot` in the theorems.
* `--repair-userdata` can bind an early state without a device to another unit, and the
  state then says `READBACK_VERIFIED` before anything was read back. `EarlyFits` excludes it.
* The wrapper always passes `--target`, which makes a product mismatch a warning
  (`tools/run-one-shot.sh:134`).
* A host killed between publication and its reboot finds the generation current when
  run again and does not reboot (3363): the operator has to.
* An interrupted removal of a rejected generation leaves a directory that every rerun
  refuses. `Completes` excludes it (`Intact`), and `OnlyRejectedBroken` says it is the only such case.
* An interrupted removal of the old feature tree after publication is never resumed (3147);
  it costs space.
* The host's time limit for the publisher (3052) does not stop the script: a rerun may start
  a second one beside it. The model has one script at a time.
* A cut download hides the verified cache from `continue-one-shot` (2554-2559), which
  then fails until the release is downloaded again.
* Files are not hashed again after the copy: a second run that replaces them between
  check and copy can spoil a cache. `changed` marks that case.
* Migration: a run cut after expdb and before the preloader is refused by a rerun as
  converted already, and `--gpt-fix`, which it is told to use, reboots the half-new
  chain. A cut between the two table copies leaves copies that differ, which `--gpt-fix`
  refuses; only `--gpt-restore` helps, and a cut there may tear the other copy too.
  `Ready` and `cut` name those cases. Two runs at once break `PreloaderLast`,
  `ATableIsWhole` and `SavedIsLegacy` (no lock). The kept table is not keyed by the unit's serial.

## 11. Proofs

Everything below holds for every value of the constants that satisfies the module's
assumption. Each proof has one lemma per action (or per group of actions that leave
the invariant's variables alone) and a step theorem that splits `Next`.

### 11.1 Installer

* `InstallerProofs`, `TypeCorrect`: `Spec => []TypeOK`. `TypeOK` is inductive because it says more
  than types: a run about to brick has selected a unit and a run that resumes has
  read a state. Without that a `SendBrick` or `WriteReconciled` step would leave the types.
* `BrickOnce`: under `OneCacheRoot` (all invocations use one cache root) and
  `OneTargetEach` (an explicit `--target` names one board in all runs),
  `Spec => []AtMostOneBrick`.
* `ChainKept`: under `OneCacheRoot` and `IntactOrigins` (no unit starts destroyed),
  `Spec => []ChainIntact`.
* `BrickRemembered`: under `OneCacheRoot` and `NoInstall`, `Spec => []UnresolvedBrickRemembered`.
* `EvidenceProofs`, `EvidenceKept`: under `OneCacheRoot` and `EarlyFits`, `Spec => []EvidenceSound`,
  which covers the two ids and two invocations that `installer_life`, its run, has not.
* `TransactionProofs`: `WritesOwnBoard` (`Spec => OwnBoardOnly`, without any hypothesis);
  `StagesOnVerified` (`StageOnVerified`) under `OneCacheRoot`, `EarlyFits` and `PlainNames` (no release is
  called `none` or `partial`); `DiscardsNothing` (`NothingDiscarded`) under `OneCacheRoot`, `NoInstall` and
  `EarlyFits`; and `InstallsInStages` (`Spec => ImplementsTransaction`) under these three,
  `OneTargetEach` and `EarlyUnbound` (states of earlier installers name no unit). All these
  hypotheses hold in the instance of the run `installer_life`.

`AtMostOneBrick` alone is not inductive: nothing in it stops a run at `send` whose
unit has been bricked. `BrickInv` adds why that cannot be: `Locked` (a live run
holds its cache root's lock, so with one root there is one live run), `Claiming` (at
`claim_write` the latch is absent; at `submit` and `send` it is there and the unit
still unbricked; and the run's target is the unit's one key) and "a bricked unit
is latched". The check-then-write of the latch is safe because of `Locked` only,
which is why the theorem needs `OneCacheRoot`; `OneTargetEach` is what finding 1
violates. `ChainInv` similarly adds that the unit about to be bricked is still
locked: only a brick changes a chain, and nobody else is running. `MarkInv` adds to
`UnresolvedBrickRemembered` which state file holds the marker at each step of the run
between the submission and the handoff (`RunMark`).

`EvidenceInv` is `Locked`, `Files` (what each field of each file is evidence of, on the unit it
names) and `Fact`, which says place by place what a live run knows of the file it is
about to write and of its unit: that the unit holds what the next write will claim,
or that the file claims nothing yet. A continuation's file is the one it read, which
matters because its writes put back the fields it read. `EarlyFits` is about states that
earlier installers left: they have no format on record, and what they say was flashed
is on every unit they may still be bound to.

`BoardInv` says that from the product check on a run keeps to the unit it checked; a unit's
product does not change, so `WritesOwnBoard` needs no lock. Features go out at `stage` and
`co_features`, where `Fact` knows the file and the unit. For the last two theorems
`PlaceInv` says at which stage of the transaction the file of a live run's id is at each
place of the run: at `submit`, say, it still says `RELEASE_READY`, and at `send` it names the run's unit as
submitted. It is what the guards of `one_shot` and `continue_one_shot` leave true while nobody
else runs. Each step is then a `Turn`: it writes no file, or a file that is `Careful` (discards
nothing) and `Forward` (a step or a stutter of the abstract transaction), or archives one, or
submits. `RunMoves` maps each kind to the abstract step; that `Submit` and `Send` find the unit
claimed and unsent is `BrickInv`.

### 11.2 Delivery and first boot

* `DeliveryProofs`: `MarkersGuard`, `PointersSound`, `BrokenWasRejected` (the three invariants of
  `DeviceScripts`), `ScriptsDeliver` (`Spec => ImplementsDelivery` for a non-empty set of features),
  `ScriptsWithin` and `FirstBootWithin` (the composition takes only steps of its parts) and
  `BootsGeneration` (`FinishSpec => []BootsComplete`).
* Of `FirstBoot`: `ConfirmedBoots` and `GoneWasGone`, for any slots, tries and time limits.

The three invariants speak of `disk`, but `disk` becomes `now` at any time, so `DeliveryInv` states
the same parts of both: `Files`, `Staging` (what the marker covers while a feature is being
staged), `Publishing` (which of the generation's files are safe at which command) and
`Handing`. A power cut is where the two meet: what it makes of `disk` has to satisfy the
parts again, which is so because every file that has lost its marker, every sealed
file and every pointer is whole there. The refinement follows: a step changes the
mapped features or generation only at `Commit`, `sync` or a power cut, and there as one of
the abstract steps.

### 11.3 Release cache

`ReleaseCacheProofs`: `OwnBundle`, `ContinuationsKept`, `AcceptedStaysWhole`, for any number of runs,
cache roots, targets, assets and blocks. `ReleaseInv` adds `Typed` and `Locked`, and `Prepared`: which
files a run that has checked its source has already copied, and that the source of
the others is still whole unless `changed` says it was replaced.

### 11.4 Migration

`KaeruProofs`, from `OriginsOK` (units come with a whole table) and `NoneOK` (`None` is no file):
`SystemStays` (`SystemKept`) for any number of runs; `RestoresOriginal` (`SavedIsLegacy`),
`TableStays` (`ATableIsWhole`) and `PreloaderIsLast` under `OneRun`.

* `KaeruInv`, for any number of runs: every copy of the table, on the unit, in `gpt-work/` and
  in `backup/`, is legacy, plain or torn; a run that keeps a table has fetched one, a run that
  writes has a file for each copy, and a run about to restore has found both.
* `OnlyOriginal`, one run: what a run that keeps has fetched is the `_x` table, because `gpt-fix.py`
  let it through and nobody fetched since; so that is what every kept file holds, and
  what a run writes is never torn. That is the first half of `SavedIsLegacy`.
* `KeptWhole`, one run, as long as no keeping was broken off: both files are there or none, but
  between the two `cp`s; what is there is whole; and it is listed when a run converts. It is
  the second half, and it is where the order of the two `cp`s and the manifest comes in.
* `CopyLeft` says which copy of the unit's table is whole while the other is written, and
  `WrittenSoFar` that all parts before the current one are new as long as the guard stands.

### 11.5 Component cache

`CacheProofs` proves, for any set of builds and outputs that satisfies
`CacheConstantsOK`, all safety properties of the component cache: `CacheSafe` (the
invariant), `OutputsAgree`, `OnlyWhole`, `RecordsBacked` and `ValidKept`. `EntryKept` is not
a consequence of what one step sees: `Commit` does not look at the entry it displaces.
`Holds` adds what the lock keeps true between the comparison and the rename: an
entry to quarantine is not valid, a place to commit to is free, and an entry just
stored is the one written or has decayed. `Trees` says which copies are whole at
which place, without which `Commit` could leave the types. `OneOutput` needs more: a
build may ship long after it released the lock, so `Agreement` says that, without
decay, what any build past its lookup or comparison goes on with is the entry's payload.
`OutputSettled` (`Spec => ImplementsOutput`) needs nothing beyond `CacheInv`: what a build holds is the
manifest it read (`copy_out`, `verify_restored`) or its own output (`Recording`), and a build
that lost its copy to decay, is killed or rolls back gives it up.

### 11.6 The userdata image

`UserdataProofs`, for any number of blocks, group size and budget:

* `LiveWritten`, `MapIsRight` and `OwnImagePasses` (the invariants `LiveBlocksWritten`,
  `MapIsAllocation`, `OwnImageValid`). They are proved of more than `Spec`: `ScrambledSafe` starts
  from any sequence whatever of lines of the true listing, of which lost, repeated and
  moved lines are instances (`SpecScrambled`).
* `IntactPasses` (`IntactNotRefused`): the parser's checks are no stricter than `dumpe2fs`.
* `ImageFormats` (`Spec => ImplementsFormat`).
* `ImageEnds`: every step that changes anything lessens `Remaining`, which starts at the number
  of lines plus three times the number of blocks plus five. With it, what `IntactIsAccepted`
  still needs from fairness is only that a step is taken.
* `TypeCorrect`: no range, run or count leaves the filesystem.

`ImageInv` has four parts. `Reading`: only what the listing says of some group is ever taken for
free, so `free` never holds a live block; a map with as many blocks as the header says must
then be the whole complement, which is why a lost line cannot go unnoticed although the
parser compares only counts. `Splitting`: the runs follow each other without a gap and
each is free or live as a whole. `Copying`: the chunks so far are those of the first runs, and
their two sums are the end of the last one and the live blocks before it. `Flashing`: the
chunks left are those of the last runs, and the live blocks before them are written.
Refinement needs in addition that nothing ahead of those chunks is (`Untouched`), so that a
block is programmed once. `IntactInv` says line by line where in a true listing the parser is,
and which counts and ranges it has taken; the group arithmetic is `GroupArith` and `Extents`.

The sums are recursive functions and the ranges come from a set in ascending order. What is
needed of both is proved without an induction theorem: that the ranks of a finite set are 1, 2,
... (`EveryRank`) and that a non-empty set of naturals has a least element (`Least`) come from
the library's facts about cardinalities, and what holds of every length or block is then
proved of a least counterexample (`TallyExists`, `TallyUnique`, `RunsCover`).
The assumption on the constants is that there are blocks and groups have some, and that
neither `None` nor `Stale` is a number, nor `None` a pair of numbers.

### 11.7 Only model-checked

* Every safety property that a passing run checks is proved, some under the hypotheses
  named above.
* Liveness is out of the prover's reach: `RunEnds`, `Recoverable`, `Completes` (of the scripts and
  of the migration), `SupervisionEnds`, `ReturnNoticed`, `GetsThrough`, `IntactIsAccepted`, `Heals`.

### 11.8 Faults

Each module of the code holds a section of faulty variants of some of its definitions (in
`KaeruMigration` and `UserdataImage` they stand beside the definitions). Nothing in the models uses them;
replacing a definition by its variant makes the property named in `PROJECT.json` fail,
which shows that the property depends on that code.

## 12. Not modelled

* The wrapper: its one effect on the installation is `--target`, the constant `Explicit`.
* Release publication. Two jobs may race on the pointer (`publish-release.yml:31` has no
  concurrency group), but what decides such a race is what GitHub's API promises about
  drafts, tags and assets, and none of that is in the repository.
* The release build: a sequential pipeline whose correctness is in the bytes it produces.
* Release preparation (`prepare-release.py`, `prepare-sbom.py`), repository checks (`check-*.py`)
  and fetchers: functions of files with a verdict and no state of their own.
* In modelled components: the emulator branch and a host power cut that loses a rename
  (`Installer`); `--verify` of the migration, the hash checks of its own files, a kept table of
  another unit, kept files that a power cut of the host empties after their `cp`, and two runs
  that push each other's half-written `gpt-work/*.new` (what they leave are torn copies, as cut
  writes do); `key`, other components' records and `materialize`'s own lock, and an interrupt
  in the one instruction between its second rename and the note that it succeeded
  (`component-cache.py:774-776`), whose rollback removes a directory that `components.json` already
  lists (`ComponentCache`); the stable alias of the OTA archive, which is linked to it anew
  once all is hashed (`libreecho-install.py:487-491`): it is hashed and copied like any listed
  file, and a run whose alias another one is just replacing fails (`ReleaseCache`).
