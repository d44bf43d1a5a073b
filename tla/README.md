# FastFirewall in TLA+

FastFirewall is an HTTP API that manages a Linux router. A small core loads
plugins; every feature (firewall, networking, DNS, users, packages, ...) is a
plugin that keeps its configuration in a state file, drives an external program
(`nft`, `networkctl`, `dnsmasq`, a pyinfra worker) and mounts FastAPI routes.
The modules here model that program as it is written, paths below are relative
to `src/`. `PROJECT.json` maps every definition to the lines it stands for and
lists runs, hazards, findings and theorems.

    tlc -workers 2 -config Firewall_serial.cfg MCFirewall    # a run
    tlc -workers 2 -config Networking_all.cfg MCNetworking   # the networking plugin
    tlc -workers 2 -config Plugins_all.cfg MCPlugins         # the other plugins
    tlapm FirewallProofs.tla                                 # its proofs

## 1. What the system is made of

All endpoints except a few are plain `def` functions: FastAPI runs them on a
thread pool, several at a time, and **no module of the repository takes a
lock**. That, crashes between two steps, and external programs that fail half-way
are what makes this code hard; almost every test calls one handler at a time.

| Component | State it keeps | Operations | What is hard | What makes it correct |
|---|---|---|---|---|
| **State files** `infra/state_manager.py` | `_desired`, `_current`, versions; a JSON envelope on disk, backups | `load_desired`, `save_desired`, `commit`, `save_and_commit`, `_flush`, `save` | calls overlap, a write fails and nobody looks, the process dies between steps | the file is never torn; success means it is on disk; `pending_changes` says the truth |
| **Plugin loader** `plugin_system/core/loader.py`, boot in `fastfirewall_app.py` | `_plugins`, `_loaded`, service and port claims, `_loading`, `_deferred_setups` | passes over plugin directories and installed packages, topological sort, `load_plugin` (recursive), `finished`, `unload_plugin` | failures in one pass seen from the next, recursion, setup long after configure | requirements first, exclusive claims, every routed plugin set up, the boot ends |
| **Firewall plugin** `plugins/firewall/plugin.py` (deferred) | rules, chains, sets, NAT, ingress... in dicts; the kernel's table; `<filter>.nft` | section edits, `apply`, `discard`, `compile`, boot-time re-apply | a subprocess in the middle of `apply`; boot; the file the OS boot service loads | `current_state` is what the kernel runs; edits are saved; a discard restores |
| **nftables compiler** `plugins/firewall/_nft/compiler.py` | none | configuration to script | which tables a script flushes, macros, unknown chains | loading the script leaves exactly the configuration |
| **Networking plugin** `plugins/networking` (deferred) | interfaces, routes, aliases; networkd and wpa files | edits, bonds, bridges, WireGuard, `apply`, `discard`, import of the live system, aliases (committed at once) | alias edits commit unapplied edits; apply is several steps; an empty configuration is not applied | as the firewall plugin; interface macros follow the aliases |
| **dnsmasq plugin** `plugins/dnsmasq` (deferred) | ten sections, two configuration files | edits, blocklist download and refresh (async), `apply`, `discard`, boot | discard shares objects with the committed snapshot; a refresh spans an `await` | a discard can be repeated; files and `current_state` agree |
| **Proxy plugin** `plugins/caddy` (deferred) | apps, settings | edits, events `app_proxy.*`, `apply`, `discard`, boot with fallback | the same sharing; the fallback configuration | as above; the boot either runs a recorded configuration or refuses to load |
| **Host plugin** `plugins/host` (immediate) | users, groups, sysctl, modules, hostname, ... | change the system, then save; boot restores what is recorded; answers `initsys.service.*` | partial failures, two resources changed in opposite orders | what is recorded was done; a restart restores it |
| **Package, mail, syslog, apt-cache plugins** (immediate) | one dict each | as host; syslog and apt-cache save first and apply after | a failed apply after a save; background upgrade | as host |
| **Event bus** `plugin_system/core/events.py` | subscribers | `emit`, `subscribe` | handlers' failures are isolated; "the" answer is the first in the list | a caller gets the answer it means |
| **Macros** `plugin_system/core/macros.py` | one registry | register at load, resolve at compile | registered once, when the plugin is loaded | a macro names what the plugin lists |
| **Authentication** `ff_auth/auth.py` | login counters per address | token, limiter | window boundaries | no attempt beyond the limit in a window |
| Audit plugin, pyinfra runner, CLI, wizard | none, or a log | I/O | a worker that dies after some operations | |

How they meet: the loader gives each plugin a configuration, claims its services
and ports, calls `configure()`, mounts its routes and, after the last pass,
`setup()`; a plugin calls its state file on every mutation; plugins call each
other only over the event bus (`initsys.service.restart`, `smtp.send`,
`app_proxy.register`) and through macros (networking and host provide, firewall
and dnsmasq consume). Nothing in the application calls `reload_plugin`,
`unload_plugin` or a plugin's `teardown`: a server stops by dying.

Two mutation models exist. *Immediate* plugins record `desired = current` on
each mutation. *Deferred* plugins save what is wanted, and record it as applied
only when an apply succeeded.

## 2. Modules

| Module | Models | State and actions |
|---|---|---|
| `StateFile` | `PluginStateFile`, one action per method | `desired`, `current`, `file`; `LoadDesired`, `SaveDesired`, `Commit`, `CommitDesired`, `SaveAndCommit`, `Forget` (the process dies) |
| `StateFileIO` | the same methods, step by step | `pc`, `arg`, `buf` are each thread's place and locals; `Begin*`, `AssignCurrent`, `ReadDesired`, `ReadCurrent`, `Backup`, `WriteTemp`, `Replace`, `FlushFails`, `Crash`, `Tick` |
| `DeferredConfig` | what README.md, "State files", promises of a deferred plugin | `intended`, `enforced`, `recorded`; no mapping to code |
| `Firewall` | the firewall plugin, its kernel table and compiled file | `live` is the plugin's dicts, a `StateFile` instance is its file; a request is `Edit`, `Snapshot`, `Save`, or `Apply`, `NftLoads`/`NftFails`, `Commit` |
| `Loader` | boot, load, unload | `stack` is the recursion of `load_plugin` |
| `Plugin` | what the plugin modules share: `None`, `Table`, `Without`, and `:>` and `@@`, because the proof system does not know those of module `TLC` | |
| `Networking` | interfaces, routes, bonds, bridges, WireGuard peers, aliases; networkd's files | `net` is the plugin's dicts, `netDesired`/`netCurrent`/`netFile` its state file, `etc` and `staging` the files, `running` what networkd has loaded; an apply is on each thread (`pc`, `held`) `BeginApply`, `BuildFiles`, `BeginPrune`, then `Unlink` and `Remove` per file to go, `Stage` and `Put` per file to come, `Reload`, `FinishApply` |
| `Dnsmasq` | ten sections, block lists, two files and a restart | `dns`; an apply is `DnsBegin`, `RenderSections`, `RenderLists`, `InstallFile` and `WriteFile` for each file, `RestartDnsmasq`, `DnsFinish`; a download is `BeginDownload` and `FinishAdd`, `FinishRefresh` or `FailDownload` |
| `Caddy` | the reverse proxy and its boot fallback | `cad`; `_do_apply` is `CadBegin`, `PutConf`, `PutOverride`, `AdminLoad` or `RestartCaddy`, `CadFinish`, on a request thread or at boot (`Runner`), whoever called it (`purpose`) |
| `Host` | sysctl, users, groups, cron, kernel modules, domain name | `machine`, `enrolled`, `ffLoads`, `lines` are the system; a request is the change of it (`SetEntry`, `DeleteEntry`, `ImportForeign`, ...) or its failure (`SetFails`, `DeleteFails`, `MemberFails`), then `Record` |
| `InitSys` | the `initsys.service.*` events | a handler is the list of worker calls it has left; `Call`, `CallFails` |
| `Packages` | services, packages, repositories on four package managers | `unitState`, `installedPkgs`, `sources`, `index` are the system; a request is its change, for a repository `RefreshForRepo`, then `RecordManaged`; the boot is `RestoreManaged` per entry and `CommitRestored`; `UpgradeSystem` starts `RunUpgradeTask`, which may move packages |
| `Daemon` | syslog, apt_cacher_ng and smtp: one settings dict, one file, one daemon each | a handler, and `setup()`, is the list of calls it has left |
| `MCStateFileIO`, `MCFirewall`, `MCLoader`, `MCNetworking` | constants for TLC | |
| `MCPlugins` | the last six side by side | `plug` is the one a behaviour is about |
| `StateFileProofs`, `FirewallProofs`, `LoaderProofs`, `NetworkingProofs`, `DnsmasqProofs`, `CaddyProofs` | theorems about `StateFileIO` and the module each is named for | |
| `ManagedProofs` | theorems about `Host` and `Packages`, which change the system and record it afterwards | |
| `ServiceProofs` | theorems about `InitSys` and `Daemon`, whose handlers are lists of calls | |

`Firewall` INSTANCEs `StateFile` (the plugin calls its methods as one step);
`StateFileIO` implements `StateFile`; `Firewall` implements `DeferredConfig`.
So the assumption that lets `Firewall` use one-step methods is itself checked
and proved (for calls that do not overlap), and the run that violates it for
overlapping calls says how far it goes.

**State files.** `file` is `None` (no file), `Corrupt` (unparsable, `load` then
answers `{}`), or an envelope. `Flush` may leave the file as it was: `save`
catches every exception and no caller looks at its result (`FlushMayFail`). A
crash is the death of the process; what a power loss leaves of a file that was
renamed and never synced is not modelled. Version numbers, timestamps and the
macro snapshot are left out: no decision reads them.

**Firewall.** A rule is an opaque body; its id is the hash of the content it was
created with, hence the body itself. `Disabled` bodies are not compiled,
`Refused` bodies make `nft` reject the script, which it takes or refuses as a
whole. The chains section is one policy. All other sections are saved, compiled
and discarded with these two; what a section of its own would add (deduplication
by index for NAT, set elements, netdev tables) is in the plan. The kernel is the
rule set the last loaded script leaves; `enforced` is a history variable saying
that this process has loaded one.

**Loader.** `Catalogue` is the set of plugin.yaml contents a run starts from.
`Candidates` and `Disabled` are the closures the code computes with work lists,
written as least fixed points. `TopoSort` is Kahn's algorithm itself, as a
recursive function over `KahnStart` and `KahnNext`; the loop over its result
takes the alphabetically first ready plugin, and `VisitsInKahnOrder` says that
the two agree. `LoadFails`
stands for everything in `load_plugin` that raises (a module that does not
import, a port in use on the machine, an invalid yaml, a refused claim).
Frames of the recursion are explicit because a requirement may be loaded, and
may fail, in the middle of its dependent.

**Networking.** An interface is its kind, its master, an opaque network
configuration, its peers; a route names a device or a gateway, and is written
into the file of the interface whose subnet holds the gateway, an apply being
refused if there is none. `shared` and `sharedPeers` are the entries that are
the very objects of the recorded snapshot, since `discard` copies the sections
one level deep; bond, bridge and peer edits change such an entry, and with it
the record, while `PUT /interfaces` replaces it. An apply takes no lock: any
number of threads are in one, each reads the configuration at three moments
(snapshot, files, prune), and edits, kills and the steps of the others fall
between any two of its steps. Its worker copies the staged file as it is when it
gets there (`ReadBack`).

**Dnsmasq.** A switch is whether a section is enabled, or not its default; a
record, a range, a lease or a service is an opaque item, `BadItem` those
`dnsmasq --test` refuses. Each of the two files may be left as it was, empty
(`sudo install` makes an empty one first) or written. An apply reads the
sections at three moments as well, and overlaps with others. A download holds
the entry of its list, which a delete or a discard may detach from the section
meanwhile.

**Caddy.** `aliased` says that the working state is the recorded snapshot itself
(after a discard, and after a boot that fell back). What Caddy runs is the
configuration without the applications' names; Caddy may take it and its answer
be lost.

**Host** and **InitSys.** A cron job is held by the system under its command,
not its name; `Foreign` jobs stand in `/etc/cron.d` or are scripts of
`/etc/cron.daily` and the like, which have no schedule and are imported with
one; a kernel module is loaded, and named in files; parameters may be volatile.
Threads change the system and record afterwards, so two requests can interleave
between the two, and a kill can fall there. A worker may fail before or after it
has changed the system.

**Packages.** `sources` is the file of repository lines (for pacman, sections
followed by servers, edited with `grep` and `sed`, which is why order and
duplicates are kept); the cache is what it was when it was last refreshed, and
may be found too old at any time. What an import reports of a service is not
always what it is (`Reported`: one whose process has exited, one that is
generated). An upgrade may remove or install any package.

**Daemon.** The three plugins differ in the list of calls: syslog and
apt_cacher_ng save, write, restart; smtp sets and then saves, and never
restarts; syslog restarts only for a file that differs from the one it found.
`daemonConf` are the settings in the file, `loaded` what the daemon has read.
Settings are literal: that smtp resolves macros in `inet_interfaces` when it
writes is left out.

History variables name what a property leaves out, and only that:

- `misrecorded`, `dnsMisrecorded`, `cadMisrecorded`: an edit reached the recorded
  snapshot (an alias edit, or one in place after a discard); until the next
  commit;
- `stranded`: a file in /etc that no prune will look for, because its removal
  failed or was killed after the staged one was deleted, or because it was put
  after another apply had unstaged it; until it is removed or staged again;
- `alone` in the frame of an apply: no other apply was under way, and no edit
  came before the frame had read the configuration for the last time. An edit
  after that is none of the apply's business and leaves it alone; of a request
  of the host, no other changes the same object; of a handler of a daemon, no
  other was at work;
- `doubtful`, `unsure`: an entry whose change or restore failed, that two requests
  changed at once, that an upgrade moved, or that was imported as it is not;
  until a request or restore nobody joined sets it;
- `contested`: a service two handlers have been at work on (never reset);
- `spoilt`, `owed`: a call of a handler failed, two handlers overlapped, or the
  plugin does not restart its daemon; until a handler that is alone writes the
  file, and until the daemon reads it.

## 3. Runs

| Run | Question | Result |
|---|---|---|
| `StateFileIO_serial` | do calls that do not overlap, with failures and crashes between their steps, implement the one-step methods? is an overwritten file backed up? | holds |
| `StateFileIO_threads` | with two threads: is the file ever torn, does a later uncontended call repair what a race left? | holds |
| `StateFileIO_lost` | does `save_desired`'s "Returns True on success" mean the file holds it? | violated: of two overlapping saves both return True, and the older snapshot is on disk |
| `Firewall_serial` | with one request at a time, any failure, crash and reboot: is what is recorded enforced, is every edit saved, does discard restore the kernel, is the deferred promise kept? | holds |
| `Firewall_commit` | does `current_state` record "the last state that was successfully applied"? | violated: an edit that was in the dicts when an apply compiled them, and not yet saved when it committed, runs in the kernel and is not recorded |
| `Firewall_boot` | does a configuration survive a reboot? | violated: an applied configuration without rules is not re-applied |
| `Loader_boot` | order, claims, cycles, setups and termination of a boot; loads and unloads after it | holds |
| `Loader_disabled` | does `--disable-plugin` keep a plugin out of the next boot? | violated: its installed copy is loaded instead |
| `Networking_all` | two applies, edits, discards, boots and kills, step by step: are edits kept and pending, is the record what was installed, does an apply nothing interfered with leave networkd with its configuration and nothing else? | holds (1,280,586 states) |
| `Networking_staged` | do "mutations only update `desired_state`"? | violated: after a discard, a peer is deleted from the recorded configuration too |
| `Plugins_all` | the other six plugin modules, each by itself: is what is recorded, shown or answered what is on the system, whatever fails, overlaps or is killed? | holds (904,509 states) |
| `Dnsmasq_stale` | does a boot re-apply `desired_state`? | violated: once a boot has written the files and failed to restart dnsmasq, every later boot takes them to be in force |

What the two runs of the plugins show (besides types):

- networking: `RecordIsInstalled`, `EditsPendAndPersist`, `CommitIsRunning` (an
  apply commits what networkd has loaded every file of, while other requests add
  and remove interfaces), `UnmanagedIsPruned` (and no other file of ours, but
  the stranded ones);
- dnsmasq: `DnsRecordIsInstalled`, `DnsRecordIsServed` (the two files in force
  belong to the configuration recorded), `RefreshResurrectsNothing`;
- proxy: `CadRecordIsInstalled`, `CadCommitIsServed` (file, override and running
  Caddy agree with what is recorded), `BootServesWorking`;
- host: `ManagedIsOnSystem`, `ModuleStaysConfigured`, and `RunningHasUnit` for
  the services it keeps for others;
- packages: `ManagedIsAsShown`; daemons: `ConfHoldsSettings`, `DaemonServesConf`.

The six violated runs are findings; each quotes the sentence of the code or
documentation it contradicts, and tells the trace TLC prints.

**Bounds.** State files: two snapshots and two threads, because every hazard of
this class is a pair of values in the wrong order or a pair of calls; the serial
run has one second of clock so that a backup can and cannot share its name.
`StateFileIO_lost` leaves failing writes out, so that its trace is about the
race. `Firewall_serial` has one thread because the properties are about requests
that do not overlap; two rule bodies (one compiled, one disabled) give duplicate
content under two ids, empty and non-empty scripts; two policies tell the
sections apart. Scripts may fail to load at any time (`NftFails`), so the run
needs no body that nft refuses, and it has no OS boot service; the theorems are
for any. `Loader_boot` has three plugins, which is the least with a chain, a
fork, a join and a cycle beside a plugin outside it, over two sources, which is
the least where a pass sees an earlier one's failures. All 512 requirement
graphs are initial states for two of the ways the plugins can lie in the
sources; the layout `--makecfg` leaves has a chain, a fork and a join. Two
plugins may claim one resource.

`Networking_all` counts starts, edits, discards and applies, up to four: a start,
an edit and two applies that overlap it and each other; or edit, apply, edit,
discard. It has a physical interface and a name that may become a bridge, and
may start from an installed bridge with a member or from a WireGuard tunnel with
a peer, because entries are shared only after something was installed.

`Plugins_all` starts in one of six plugins and stays there (`plug`). No two of
the modules share a variable, and the only calls between them are event-bus
requests for a service, whose outcome every caller models as success or failure;
so a behaviour of several plugins is an interleaving of behaviours of each, and
what holds of one alone holds of it among the others. The bounds count requests,
and for the deferred plugins starts too: four for dnsmasq (as for networking; it
may start from an installed lease and block list), seven for the proxy (a
default application, an edit, an apply, a refused edit, a boot that falls back,
and two applies that overlap), three for the host and the daemons and four
service events (two overlapping ones after one that set the scene), two for
packages (its ten kinds of request on five platforms; two is an entry and
another request about it). Failures, lost answers, reboots, restarts of the
daemons and kills are not counted. Packages
have two repository names over two addresses, so that a name can share its line
with another, one service that stays active when its process exits, and one that
cannot be enabled.

There are two threads wherever requests may overlap; they are symmetric, and the
runs with an invariant for both say so (`SYMMETRY`).

**Fairness.** Only `Loader!FairSpec` has any: weak fairness of the loader's own
steps. The boot is straight-line code of the main thread, so it goes on unless
the process ends; failures are alternatives of those steps, never waited for.
Requests are not fair: nobody has to call the API; so the plugin modules, whose
steps are requests and boots, state safety only.

**Deadlock** is checked in every run but those of `MCNetworking` and `MCPlugins`,
where a plugin whose requests are used up has nothing left to do.

## 4. Theorems

Every theorem is for all values of the constants, under the assumptions each
module names and TLC evaluates:

| Assumption | Says |
|---|---|
| `SnapshotAssumption`, `FileAssumption`, `IOAssumption` | the empty snapshot is one, envelopes and markers are distinct, the methods called are methods |
| `FirewallAssumption` | disabled, refused and seed bodies are bodies; markers are not data |
| `LoaderAssumption` | plugin names are numbers (their alphabetical order) and finitely many; catalogues have their type |
| `NetworkingAssumption` | finitely many interface names; routes name those; updates keep the type of an entry |
| `DnsmasqAssumption`, `CaddyAssumption`, `HostAssumption`, `PackagesAssumption`, `DaemonAssumption`, `InitSysAssumption` | defaults, earlier configurations, foreign jobs and odd services belong to the sets they are drawn from, and `None` to none of them; no request thread is the boot's |

Threads, entries, values, applications, items and settings are arbitrary, and so
are the bounds on requests. What an invariant has to add to the property it
proves is why the code works, so each is given here.

**State files** (`StateFileProofs`)

- `TypeCorrect`; `FileIsNeverTorn`: the only value ever renamed over the file is
  an envelope a thread has finished building.
- `UncontendedSafety`, `ImmediateSafety`: the invariant says for each program
  counter which parts of memory the envelope under construction already equals,
  while nobody else is in flight.
- `SerialBackups` (one thread): `BackedUp`, that between the copy and the rename
  the file in place is still in a backup, because no other call can write
  meanwhile; backups that are off or fail are excepted by the property.
- `SerialRefinement` (one thread): a call in flight is mapped to the memory
  before it began.

**Firewall** (`FirewallProofs`)

- `TypeCorrect` for any number of request threads (which frame holds a
  configuration at which step).
- `SerialSafety`, `SerialMutationsAreSaved`, `SerialCommits` under `Serial` (at
  most one request thread): `SerialInv` ties the configuration a frame holds to
  `live`, and `desired` to `live` outside a request.
- `SerialRefinement`: every step is a step of `DeferredConfig` or a stutter.
  `Serial` is needed: `Firewall_commit` shows a commit of what was never loaded
  when an edit overlaps an apply.

**Loader** (`LoaderProofs`)

- `TypeCorrect`; `BootOrder` from `BootInv`: what a pass is to load brings its
  requirements with it or finds them loaded, what was visited and did not fail
  is configured or in the one frame the boot then has, and that frame's
  requirements are configured already (the recursion of `load_plugin` never runs
  during a boot).
- `RegistrySafety` from `RegistryInv`: a claim that was free when it was checked
  is still free when it is registered, until a direct load starts another.
- `RoutedSafety`, `SetupsInOrder` from `SetupInv`: the plugins configured are
  those set up and those waiting, each of which waits behind all it requires.
- `RefusalJustified`: `KahnInv` is the invariant of the rounds of the sort (the
  in-degrees count what a plugin still waits for, the queue is what waits for
  nothing, the order so far always took the first that was ready). So what is
  never sorted is exactly what a circular set keeps waiting.
- `KahnOrder` from `VisitedSorted`: the visited plugins are a sequence that
  always took the first ready one, and there is only one such order
  (`SortedUnique`), hence a beginning of what the sort returns.

**Networking** (`NetworkingProofs`), for any number of threads in an apply at
once, from one invariant, `NetInv`: `NetTyped`; `RecordAsInstalled`, which also
speaks of the record in the file; `EditsAreSaved`; `EtcIsStaged`, that the
staging directory knows every file of ours but the stranded ones; and
`AloneInv`. An apply that is still `alone` is the only one, and `AloneAt` says
what its frame stands for at each step: that the configuration is the one of the
snapshot while it reads (`build`, `prune`), that what it had to remove is gone
(`Pruned`) and that what it has put is in place, in `etc` and then in `running`
(`InPlace`). It gives `NetTypes`, `NetRecordIsInstalled`, `NetEditsAreKept`,
`NetCommitIsRunning`, `NetUnmanagedIsPruned`.

**dnsmasq** (`DnsmasqProofs`), from `DnsInv`: the types, `RecordAsInstalled`, and
`AloneInv` with `FrameAt`: what has been rendered is that of the snapshot, the
first file is in place while the second is written, and after the restart
dnsmasq has loaded both. It gives `DnsmasqTypes`, `DnsmasqRecord`,
`DnsmasqServed`, `RefreshIsSafe`.

**Proxy** (`CaddyProofs`), from `CadInv`: the types, `RecordAsInstalled`,
`AloneInv` with `FrameAt` (the file, the override, what Caddy runs), and
`BootInv`, that a boot is alone and pushes first the working state and then the
recorded one. It gives `CaddyTypes`, `CaddyRecord`, `CaddyCommit`, `CaddyBoot`.

**Host** (`ManagedProofs`), for any number of threads, from `HostInv`.
`RightOrCovered` is the property; for it to survive a request that finishes,
`AloneIsRight` says that a request which nobody joined has put on the machine
what it will record, and `SharingInDoubt` that cron entries on one line are in
doubt; `ModulesFirst` that a module's own file is there while any other line is
still to be stripped; `DomainOnFile` what the boot, which does not restore the
domain name, finds of it. It gives `HostTypes`, `HostManagedIsOnSystem`,
`HostModulesStay`.

**Packages** (`ManagedProofs`), for any number of threads and every package
manager, from `PkgInv`: `PkgTyped`; `SharingIsUnsure`, that repositories on one
line are in doubt, and `SureIsSettled`, that a job which is sure is alone on its
line and has put there what it will record; `ShownIsSettled`, the property with
the entries that are being restored. A repository is harder, because two of them
can share a line: the lemmas about `LinesWithout` (`LinesKept`) say what a `sed`
over the file leaves of another's section and server, and in which order. It
gives `PkgTypes`, `PkgManagedIsAsShown`.

**Services** (`ServiceProofs`), for any number of handlers. `ServiceInv` adds to
`RunningHasUnit` what a list of calls may contain (`CallsAreSafe`), that a
service nobody contests has one handler (`OneHandlerEach`), and that it is
stopped when its unit is unlinked (`UnlinkAfterStop`): `ServicesKeepTheirUnits`.

**Daemons** (`ServiceProofs`), from `DmnInv`: which lists of calls there can be
(`CallsLeft`); that a handler which has seen nobody else is alone (`WorkAlone`);
that what it is about to write is rendered from the settings as they are
(`ContentIsCurrent`); and the two properties with a handler under way:
`ConfOrWriter`, the file holds the settings or one who is alone will write them,
and `ReadOrRestart`, the daemon has read the file or somebody will restart it.
It gives `SettingsAreInConf`, `DaemonReadsConf`.

**On the proofs.** What a recursive function computes (`TopoSort`,
`LinesWithout`) is found without the library's induction theorems, which take an
operator no prover can instantiate: a set of numbers that holds 0, and n when it
holds n - 1, has no least number missing (`LeastNumber`, `CountUp`, from the
well-foundedness of the naturals). A recursive function is a `CHOOSE`, and the
SMT translation of a `CHOOSE` that stands in a goal is not to be relied on;
leaves in which one is visible cite Zenon, and the others have it hidden.

**Only model-checked.** `BootEnds`, because liveness and ENABLED are out of the
prover's reach. Every invariant and every action property of the other passing
runs is proved, those of `StateFileIO_serial` and `Firewall_serial` for calls or
requests that do not overlap, as the runs check them. That a definition says what the code does is
checked by neither.

## 5. Not modelled, and observed on the way

- `restore()`, `list_backups()`, `reload_plugin()`: nothing calls them.
- Power loss: `save()` renames a file it has not synced (state_manager.py:261-265).
- Import machinery, wheels, `uv sync`, FastAPI's routing: they succeed or fail.
  `unload_plugin` leaves the routes of the plugin mounted (loader.py:996-1036);
  nothing in the application calls it, and `Unload` counts loaded plugins only.
- A requirement written twice in plugin.yaml (the loader counts it twice and the
  plugin is never reached, loader.py:449), plugins whose module has no plugin
  class, handlers that stay subscribed after a failed `configure()`.
- The firewall's NAT, ingress, mangle and object endpoints; which tables a script
  flushes.
- Networking: wpa_supplicant files, live views. Dnsmasq: PXE images, the lease
  file. Syslog: the logrotate file, log reading. Apt-cache: the proxy host
  override and the cache itself. Mail: sending, and macros in the settings.
  `enable_os_boot` of networking and dnsmasq.
- The event bus's dispatch, macros, authentication, parsing of app_config.yaml,
  rendering and logging, the interactive wizard, the audit log, the CLI.

The models show the behaviours below too. These contradict a sentence of the
repository, as the findings do; a run was given to the one of each kind that
takes most steps to reach.

- "`current_state` - the last state that was successfully applied" (README.md:347):
  an alias edit commits interface and route edits that wait for an apply
  (networking/plugin.py:658, `EditAliases`); an edit between the moments an
  apply reads the configuration, or a second apply, makes networking, dnsmasq
  and the proxy record what is not in force (`BuildFiles`, `RenderSections`,
  `RestartCaddy`).
- "mutations only update `desired_state`" (README.md:357): dnsmasq and the proxy
  share the recorded snapshot after a discard just as networking does
  (dnsmasq/plugin.py:436, caddy/plugin.py:397).
- "Updated on every API mutation" (README.md:346): of two overlapping firewall
  mutations the snapshot taken first may be saved last (firewall/plugin.py:242).
- "Submitting an identical rule twice returns `409 Conflict`" (README.md:419): not
  after another rule was updated to that content (firewall/plugin.py:409).
- "active during early boot" (README.md:266): the script of the OS boot service is
  overwritten before nft has accepted it (firewall/plugin.py:830, `WriteNftFile`).
- "state files are still loaded" (README.md:400): networking reads none with
  `ignore_state_on_boot`, and the first edit drops what the file held
  (networking/plugin.py:187, `StartIgnoring`).
- "`pending_changes` is always `false`" (README.md:355): not for the host plugin
  after a restore that failed (host/plugin.py:315, `Restore`).
- "without recreating it" (README.md:691): an imported script of cron.daily is in
  root's crontab, every minute, after the next start (host/plugin.py:1268,
  `AsImported`); an imported service that is active after its process has exited
  is stopped by it (pkg_management/plugin.py:325, `Reported`).
- "restarts the service inline" (README.md:741): after a restart of fluent-bit that
  failed, the same update finds the file unchanged, restarts nothing and
  succeeds (syslog/plugin.py:278, `RestartDaemon`).

No sentence speaks against these.

- Networking: a bond that is a member of a bridge gets no `.netdev` (`Virtual`);
  routes of a deleted or enslaved device are dropped without a word (`RoutesOf`);
  a `.netdev` of a name that became physical is never pruned (`BeginPrune`); a
  file of which the removal failed stays for ever (`Unlink`, `Remove`); applying
  an empty configuration commits and leaves the old files in force
  (`BuildFiles`); the boot commits whatever `networkctl` answered (`BootApply`).
- Dnsmasq: an update can give two leases one MAC address (`UpdateStaticLease`).
- Proxy: `caddy.json` is written before Caddy has seen it, so a refused apply
  reaches Caddy at its next restart (`PutConf`, `CaddyReboots`).
- Host: creating a group that exists forgets its recorded members, deleting a
  user leaves it among members, members and domain name are not restored at
  boot; changing a job's command leaves the old line; the persist file of a
  module is never removed; the first edit after a failed restore records it as
  current. A System V or upstart removal leaves a service enabled; adding one
  that is enabled ignores a new definition; enabling a oneshot stops it.
- Packages: updating a package managed as absent installs it, and the next boot
  removes it; a repository imported on yum can be neither removed nor restored
  (422); on pacman a section that exists keeps its old server although the
  request names another (_pkg_manager.py:243), and importing under an alias adds
  a second section at the next boot; under System V init a running service is
  imported as stopped, and stopped by the next boot.
- Daemons: without `enable_os_boot` apt-cacher-ng is stopped by every start of
  FastFirewall; smtp loads its settings even with `ignore_state_on_boot`, and
  nothing reloads postfix after a change.

## 6. Plan

Done, in this order: state files, the deferred promise, the firewall plugin,
the loader, the seven plugin modules, and the proofs of what their runs check.
Next:

1. Refinements: `Networking` as an implementation of `DeferredConfig` for
   requests that do not overlap and are not alias edits; the same for the proxy
   plugin between its discards.
2. `NftKernel` and `NftCompiler`: tables, chains, sets and ingress; a script as
   the sequence of flushes and adds the compiler emits, the kernel as what it
   leaves; checked against "loading gives exactly the configuration".
3. `Macros` and the event bus: registration, subtrees, first answer; do macros
   follow the aliases as README.md:985 says?
4. The login limiter: window and counter at the boundary.
