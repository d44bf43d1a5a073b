-------------------------------- MODULE Packages --------------------------------
(***************************************************************************)
(* The package management plugin (src/plugins/pkg_management/plugin.py and *)
(* _pkg_manager.py): services, packages and the repositories packages come *)
(* from.  A request changes the system, for a repository refreshes the     *)
(* package cache too, and is then recorded in memory and in the file; at   *)
(* boot what the file says is put back on the system, packages before      *)
(* repositories.  Handlers of pkg_management.add.* events are requests.    *)
(***************************************************************************)
EXTENDS Plugin, Naturals, Sequences

CONSTANTS
    Service,           \* services
    Package,
    Repo,           \* names of repositories
    Url,            \* what a repository's line says
    StockUrl,       \* the one the system comes with
    Origin,         \* of each package: the Url it is found at
    Exits,          \* services that stay active when their process has exited
    Generated,      \* services nothing can enable or disable
    Platform,       \* [manager, initd]: machines it may run on
    MaxPkgOps       \* bound: requests (starts are not counted)

Managers == {"apt", "yum", "apk", "pacman", "unknown"}
InitSystemFound == {"systemd", "upstart", "sysvinit"}

PkgKey == ({"services"} \X Service) \union ({"packages"} \X Package) \union ({"repos"} \X Repo)

\* What can be asked for an entry; a package: whether it is present.  A
\* repository imported on yum lacks the src that changing it takes.
UnitState == [running : BOOLEAN, enabled : BOOLEAN]
PkgBody(k) ==
    CASE k[1] = "services" -> UnitState
      [] k[1] = "packages" -> BOOLEAN
      [] k[1] = "repos" -> [present : BOOLEAN, url : Url, src : {TRUE}]

\* What is kept of an entry, and what a thread holds of a request.
Kept(k) ==
    IF k[1] = "repos" THEN [present : BOOLEAN, url : Url, src : BOOLEAN] ELSE PkgBody(k)

AnyKept == UNION {Kept(k) : k \in PkgKey}

PkgJob == [todo : {"refresh", "record"}, do : {"set", "update", "delete"}, key : PkgKey,
           val : AnyKept \union {None}, sure : BOOLEAN]

ASSUME PackagesAssumption ==
    /\ None \notin PkgJob
    /\ StockUrl \in Url
    /\ Origin \in [Package -> Url]
    /\ Exits \subseteq Service /\ Generated \subseteq Service
    /\ Platform \subseteq [manager : Managers, initd : InitSystemFound]
    /\ MaxPkgOps \in Nat

VARIABLES
    manager, initd,     \* the package manager and the init system found
    pkgPhase,       \* "down", "restoring" or "up"
    pkg,            \* self._state
    pkgFile,        \* [desired, current], None if there is no file
    restoring,      \* [todo, applied] of _apply_state
    job,            \* of each thread: its request under way, None if idle
    upgrading,      \* a system upgrade runs in the background
    unitState,      \* the system: each service's [running, enabled],
    installedPkgs,      \* packages,
    sources,        \* the lines that name repositories,
    index,          \* repositories the package cache knows,
    fresh,          \* _cache_refreshed_at is set
    unsure,         \* history: entries the system may hold otherwise
    pkgOps

pkgSystem == <<manager, initd, unitState, installedPkgs, sources, index, fresh>>
pkgVars == <<pkgPhase, pkg, pkgFile, restoring, job, upgrading, pkgSystem, unsure, pkgOps>>

-----------------------------------------------------------------------------
Section(n) == <<"section", n>>
Server(u) == <<"server", u>>

\* pacman.conf has a section before each line; one that is there already is
\* taken to be right.
SourcesWith(n, u) ==
    IF manager = "pacman"
    THEN IF Section(n) \in Range(sources) THEN sources
         ELSE sources \o <<Section(n), Server(u)>>
    ELSE IF Server(u) \in Range(sources) THEN sources ELSE Append(sources, Server(u))

\* sed removes every line of that server, whatever section it belongs to.
LinesWithout(s, gone) ==
    LET left[i \in 0..Len(s)] == IF i = 0 THEN << >>
                                 ELSE IF s[i] \in gone THEN left[i - 1]
                                 ELSE Append(left[i - 1], s[i])
    IN  left[Len(s)]

SourcesWithout(n, u) == LinesWithout(sources, {Section(n), Server(u)})

Serves(n, u) ==
    IF manager = "pacman"
    THEN \E i \in 1..(Len(sources) - 1) : sources[i] = Section(n) /\ sources[i + 1] = Server(u)
    ELSE Server(u) \in Range(sources)

StaysWrong(k, v) ==
    /\ manager = "pacman" /\ k[1] = "repos" /\ v.present
    /\ Section(k[2]) \in Range(sources) /\ ~ Serves(k[2], v.url)

Indexable == {u \in Url : Server(u) \in Range(sources)}

\* What configuring a service leaves, and how it is compared with what was asked.
Effect(s, v) ==
    [v EXCEPT !.enabled = IF s \in Generated THEN unitState[s].enabled ELSE v.enabled]

InEffect(s, v) ==
    unitState[s].running = v.running /\ (s \in Generated \/ unitState[s].enabled = v.enabled)

OnSystem(k, v) ==
    CASE k[1] = "services" -> InEffect(k[2], v)
      [] k[1] = "packages" -> (k[2] \in installedPkgs) = v
      [] k[1] = "repos" -> IF v.present THEN Serves(k[2], v.url) /\ v.url \in index
                                        ELSE ~ Serves(k[2], v.url)

\* Names managed for the same line of the system.
SharingUrl(s) ==
    {k \in DOMAIN s : k[1] = "repos" /\ \E j \in DOMAIN s \ {k} :
                                            j[1] = "repos" /\ s[j].url = s[k].url}

\* What a change of k to v, left unrecorded, leaves in doubt.
Touched(k, v) ==
    {k} \union {j \in DOMAIN pkg : k[1] = "repos" /\ j[1] = "repos" /\ pkg[j].url = v.url}

-----------------------------------------------------------------------------
(* What the package manager does. *)

\* refresh_cache(): a cache older than its lifetime is refreshed, and it may
\* be that old at any time.
RefreshCache(force) ==
    \/ ~ force /\ fresh /\ UNCHANGED <<index, fresh>>
    \/ index' = Indexable /\ fresh' = TRUE

\* The change of the system for an entry; a package needs its repository.
\* Refreshing the cache for a repository is a step of its own.
Apply(k, v) ==
    /\ manager # "unknown" \/ k[1] = "services"
    /\ CASE k[1] = "services" ->
              /\ unitState' = [unitState EXCEPT ![k[2]] = Effect(k[2], v)]
              /\ UNCHANGED <<installedPkgs, sources, index, fresh>>
         [] k[1] = "packages" ->
              /\ RefreshCache(FALSE)
              /\ v => k[2] \in installedPkgs \/ Origin[k[2]] \in index'
              /\ installedPkgs' = IF v THEN installedPkgs \union {k[2]} ELSE installedPkgs \ {k[2]}
              /\ UNCHANGED <<unitState, sources>>
         [] k[1] = "repos" ->
              /\ v.src
              /\ sources' = IF v.present THEN SourcesWith(k[2], v.url)
                                         ELSE SourcesWithout(k[2], v.url)
              /\ UNCHANGED <<unitState, installedPkgs, index, fresh>>
    /\ UNCHANGED <<manager, initd>>

\* Mutant of NeedsRefresh: the cache is left to grow old.
RefreshesLater(k, v) == FALSE

NeedsRefresh(k, v) == k[1] = "repos" /\ v.present

-----------------------------------------------------------------------------
(* Requests. *)

PkgClient(t) ==
    /\ pkgPhase = "up"
    /\ job[t] = None
    /\ pkgOps < MaxPkgOps
    /\ pkgOps' = pkgOps + 1

SameLine(j, k) == j = k \/ (j[1] = "repos" /\ k[1] = "repos")

Competing(t, k) == {s \in Thread \ {t} : job[s] # None /\ SameLine(job[s].key, k)}

\* The thread is past the change of the system; sure is FALSE if what is
\* recorded will not be what the system holds.
Start(t, todo, do, k, v, sure) ==
    job' = [s \in Thread |->
               IF s = t THEN [todo |-> todo, do |-> do, key |-> k, val |-> v,
                              sure |-> sure /\ Competing(t, k) = {}]
               ELSE IF s \in Competing(t, k) THEN [job[s] EXCEPT !.sure = FALSE]
               ELSE job[s]]

\* _set_service, _install_package and _add_repo.
SetManaged(t, k, v) ==
    /\ PkgClient(t)
    /\ Apply(k, v)
    /\ Start(t, IF NeedsRefresh(k, v) THEN "refresh" ELSE "record", "set", k, v,
             ~ StaysWrong(k, v))
    /\ UNCHANGED <<pkgPhase, pkg, pkgFile, restoring, upgrading, unsure>>

\* _update_package installs a package and leaves what is asked of it as it is.
UpdatePackage(t, k) ==
    /\ k \in DOMAIN pkg /\ k[1] = "packages"
    /\ PkgClient(t)
    /\ Apply(k, TRUE)
    /\ Start(t, "record", "update", k, TRUE, TRUE)
    /\ UNCHANGED <<pkgPhase, pkg, pkgFile, restoring, upgrading, unsure>>

\* remove() of a package looks at no cache.
Uninstall(k) ==
    /\ manager # "unknown"
    /\ IF k[1] = "packages"
       THEN installedPkgs' = installedPkgs \ {k[2]} /\ UNCHANGED sources
       ELSE /\ pkg[k].src
            /\ sources' = SourcesWithout(k[2], pkg[k].url) /\ UNCHANGED installedPkgs
    /\ UNCHANGED <<manager, initd, unitState, index, fresh>>

\* _remove_package and _remove_repo.
RemoveManaged(t, k) ==
    /\ k \in DOMAIN pkg /\ k[1] # "services"
    /\ PkgClient(t)
    /\ Uninstall(k)
    /\ Start(t, "record", "delete", k, None, TRUE)
    /\ UNCHANGED <<pkgPhase, pkg, pkgFile, restoring, upgrading, unsure>>

\* The worker fails, before or after it changed the system: 500.
ChangeFails(t, k, v) ==
    /\ PkgClient(t)
    /\ Apply(k, v)
    /\ job' = [s \in Thread |-> IF s \in Competing(t, k) THEN [job[s] EXCEPT !.sure = FALSE]
                                                     ELSE job[s]]
    /\ unsure' = unsure \union Touched(k, v)
    /\ UNCHANGED <<pkgPhase, pkg, pkgFile, restoring, upgrading>>

\* The last step of apply_repo for a repository that is added.
RefreshForRepo(t) ==
    /\ job[t] # None /\ job[t].todo = "refresh"
    /\ RefreshCache(TRUE)
    /\ job' = [job EXCEPT ![t].todo = "record"]
    /\ UNCHANGED <<pkgPhase, pkg, pkgFile, restoring, upgrading, manager, initd, unitState,
                   installedPkgs, sources, unsure, pkgOps>>

\* It fails: the repository is on the system and not recorded.
RefreshFails(t) ==
    /\ job[t] # None /\ job[t].todo = "refresh"
    /\ job' = [job EXCEPT ![t] = None]
    /\ unsure' = unsure \union Touched(job[t].key, job[t].val)
    /\ UNCHANGED <<pkgPhase, pkg, pkgFile, restoring, upgrading, pkgSystem, pkgOps>>

PkgPersist(s) == pkgFile' = [desired |-> s, current |-> s]

\* What the request makes of the state, and whether the system holds it.
StateWith(r) ==
    CASE r.do = "set" -> r.key :> r.val @@ pkg
      [] r.do = "update" -> pkg
      [] r.do = "delete" -> Without(pkg, {r.key})

HoldsAs(r, s) == r.sure /\ (r.key \in DOMAIN s => s[r.key] = r.val)

\* An entry that another request has deleted meanwhile: KeyError.
RecordManaged(t) ==
    /\ job[t] # None /\ job[t].todo = "record"
    /\ LET r == job[t]
       IN IF r.do = "set" \/ r.key \in DOMAIN pkg
          THEN /\ pkg' = StateWith(r)
               /\ PkgPersist(pkg')
               /\ unsure' = (IF HoldsAs(r, pkg') THEN unsure \ {r.key} ELSE unsure \union {r.key})
                            \union SharingUrl(pkg')
          ELSE UNCHANGED <<pkg, pkgFile, unsure>>
    /\ job' = [job EXCEPT ![t] = None]
    /\ UNCHANGED <<pkgPhase, restoring, upgrading, pkgSystem, pkgOps>>

\* _delete_service only stops managing it.
StopManagingService(t, k) ==
    /\ k \in DOMAIN pkg /\ k[1] = "services"
    /\ PkgClient(t)
    /\ pkg' = Without(pkg, {k})
    /\ PkgPersist(pkg')
    /\ UNCHANGED <<pkgPhase, restoring, job, upgrading, pkgSystem, unsure>>

\* systemctl list-units and list-unit-files: running is a process that runs.
\* Without systemd a service is reported enabled, on sysvinit not running too.
Reported(s) ==
    CASE initd = "systemd" -> [running |-> unitState[s].running /\ s \notin Exits,
                               enabled |-> unitState[s].enabled \/ s \in Generated]
      [] initd = "upstart" -> [unitState[s] EXCEPT !.enabled = TRUE]
      [] initd = "sysvinit" -> [running |-> FALSE, enabled |-> TRUE]

\* list_system_repos(): of a section the last server counts.
Listed(u) ==
    \E i \in DOMAIN sources :
        /\ sources[i] = Server(u)
        /\ manager = "pacman" /\ i < Len(sources) => sources[i + 1][1] = "section"

\* Imports read the system and refresh nothing; the name a repository is
\* imported under is not that of its section.
ImportManaged(t, k, v) ==
    /\ PkgClient(t)
    /\ CASE k[1] = "services" -> v = Reported(k[2])
         [] k[1] = "packages" -> manager # "unknown" /\ v = TRUE /\ k[2] \in installedPkgs
         [] k[1] = "repos" -> /\ manager # "unknown" /\ Listed(v.url)
                              /\ v.present /\ v.src = (manager # "yum")
    /\ Start(t, "record", "set", k, v,
             CASE k[1] = "services" -> InEffect(k[2], v)
               [] k[1] = "packages" -> TRUE
               [] k[1] = "repos" -> manager # "pacman" /\ v.url \in index)
    /\ UNCHANGED <<pkgPhase, pkg, pkgFile, restoring, upgrading, pkgSystem, unsure>>

\* POST /packages/upgrade-system starts a task in the background.
UpgradeSystem(t) ==
    /\ manager # "unknown"
    /\ PkgClient(t)
    /\ upgrading' = TRUE
    /\ UNCHANGED <<pkgPhase, pkg, pkgFile, restoring, job, pkgSystem, unsure>>

\* It refreshes the cache and upgrades, which removes packages and installs
\* others, or fails before or after.  No state is read or recorded.
RunUpgradeTask ==
    /\ upgrading
    /\ upgrading' = FALSE
    /\ RefreshCache(TRUE) \/ UNCHANGED <<index, fresh>>
    /\ \E now \in SUBSET Package :
          LET moved == {p \in Package : (p \in now) # (p \in installedPkgs)}
              keys == {<<"packages", p>> : p \in moved}
          IN /\ \A p \in moved \intersect now : Origin[p] \in index'
             /\ installedPkgs' = now
             /\ unsure' = unsure \union keys
             /\ job' = [t \in Thread |-> IF job[t] # None /\ job[t].key \in keys
                                         THEN [job[t] EXCEPT !.sure = FALSE] ELSE job[t]]
    /\ UNCHANGED <<pkgPhase, pkg, pkgFile, restoring, manager, initd, unitState, sources, pkgOps>>

-----------------------------------------------------------------------------
(* Start and stop. *)

\* configure() and the beginning of setup(); with nothing to restore, or with
\* ignore_state_on_boot, the system is not touched.
PkgLoad(ignore) ==
    /\ pkgPhase = "down"
    /\ LET loaded == IF ignore \/ pkgFile = None THEN << >> ELSE pkgFile.desired
       IN /\ pkg' = loaded
          /\ pkgPhase' = IF loaded = << >> THEN "up" ELSE "restoring"
          /\ restoring' = [todo |-> DOMAIN loaded, applied |-> {}]
    /\ IF ~ ignore /\ pkgFile = None THEN PkgPersist(<< >>) ELSE UNCHANGED pkgFile
    /\ fresh' = FALSE
    /\ UNCHANGED <<job, upgrading, manager, initd, unitState, installedPkgs, sources, index,
                   unsure, pkgOps>>

Rank(k) == CASE k[1] = "services" -> 1 [] k[1] = "packages" -> 2 [] k[1] = "repos" -> 3

\* One entry of _apply_state.  For a repository the refresh is part of it.
RestoreManaged(k) ==
    /\ pkgPhase = "restoring" /\ k \in restoring.todo
    /\ \A j \in restoring.todo : Rank(k) <= Rank(j)
    /\ LET v == pkg[k]
       IN /\ k[1] # "repos" => Apply(k, v)
          /\ k[1] = "repos" =>
                /\ v.src /\ manager # "unknown"
                /\ sources' = IF v.present THEN SourcesWith(k[2], v.url)
                                           ELSE SourcesWithout(k[2], v.url)
                /\ IF v.present
                   THEN index' = {u \in Url : Server(u) \in Range(sources')} /\ fresh' = TRUE
                   ELSE UNCHANGED <<index, fresh>>
                /\ UNCHANGED <<manager, initd, unitState, installedPkgs>>
          /\ unsure' = IF StaysWrong(k, v) THEN unsure \union {k}
                       ELSE (unsure \ {k}) \union SharingUrl(pkg)
    /\ restoring' = [todo |-> restoring.todo \ {k}, applied |-> restoring.applied \union {k}]
    /\ UNCHANGED <<pkgPhase, pkg, pkgFile, job, upgrading, pkgOps>>

\* A failure is logged, and the entry left out of what is committed.
RestoreFails(k) ==
    /\ pkgPhase = "restoring" /\ k \in restoring.todo
    /\ \A j \in restoring.todo : Rank(k) <= Rank(j)
    /\ restoring' = [restoring EXCEPT !.todo = @ \ {k}]
    /\ unsure' = unsure \union {k}
    /\ UNCHANGED <<pkgPhase, pkg, pkgFile, job, upgrading, pkgSystem, pkgOps>>

CommitRestored ==
    /\ pkgPhase = "restoring" /\ restoring.todo = {}
    /\ pkgPhase' = "up"
    /\ pkgFile' = [pkgFile EXCEPT !.current = Restrict(pkg, restoring.applied)]
    /\ UNCHANGED <<pkg, restoring, job, upgrading, pkgSystem, unsure, pkgOps>>

\* Mutant of PkgStop: a request goes on in the next process.
PkgStopBusy ==
    /\ pkgPhase # "down"
    /\ pkgPhase' = "down" /\ pkg' = << >>
    /\ restoring' = [todo |-> {}, applied |-> {}] /\ upgrading' = FALSE
    /\ UNCHANGED <<pkgFile, job, pkgSystem, unsure, pkgOps>>

\* The process is killed, at any point.
PkgStop ==
    /\ pkgPhase # "down"
    /\ pkgPhase' = "down"
    /\ pkg' = << >>
    /\ job' = [t \in Thread |-> None]
    /\ restoring' = [todo |-> {}, applied |-> {}]
    /\ upgrading' = FALSE
    /\ UNCHANGED <<pkgFile, pkgSystem, unsure, pkgOps>>

Stock == IF manager = "pacman" THEN <<<<"section", "stock">>, Server(StockUrl)>>
                               ELSE <<Server(StockUrl)>>
Off == [running |-> FALSE, enabled |-> FALSE]

\* While it is down, somebody else undoes what was configured.
SystemReset ==
    /\ pkgPhase = "down"
    /\ unitState' = [s \in Service |-> Off]
    /\ installedPkgs' = {} /\ sources' = Stock /\ index' = {}
    /\ UNCHANGED <<manager, initd, fresh, pkgPhase, pkg, pkgFile, restoring, job, upgrading,
                   unsure, pkgOps>>

-----------------------------------------------------------------------------
PkgInit ==
    /\ \E p \in Platform : manager = p.manager /\ initd = p.initd
    /\ pkgPhase = "down" /\ pkg = << >> /\ pkgFile = None
    /\ restoring = [todo |-> {}, applied |-> {}]
    /\ job = [t \in Thread |-> None]
    /\ upgrading = FALSE
    /\ unitState = [s \in Service |-> [running |-> TRUE, enabled |-> s \notin Generated]]
    /\ installedPkgs = {} /\ sources = Stock /\ index = {} /\ fresh = FALSE
    /\ unsure = {}
    /\ pkgOps = 0

PkgRequest(t) ==
    \/ \E k \in PkgKey : \E v \in PkgBody(k) : SetManaged(t, k, v) \/ ChangeFails(t, k, v)
    \/ \E k \in DOMAIN pkg :
          UpdatePackage(t, k) \/ RemoveManaged(t, k) \/ StopManagingService(t, k)
    \/ \E s \in Service : ImportManaged(t, <<"services", s>>, Reported(s))
    \/ \E p \in Package : ImportManaged(t, <<"packages", p>>, TRUE)
    \/ \E r \in Repo, u \in Url, src \in BOOLEAN :
          ImportManaged(t, <<"repos", r>>, [present |-> TRUE, url |-> u, src |-> src])
    \/ RefreshForRepo(t) \/ RefreshFails(t) \/ RecordManaged(t)
    \/ UpgradeSystem(t)

PkgNext ==
    \/ \E t \in Thread : PkgRequest(t)
    \/ RunUpgradeTask
    \/ \E ignore \in BOOLEAN : PkgLoad(ignore)
    \/ \E k \in PkgKey : RestoreManaged(k) \/ RestoreFails(k)
    \/ CommitRestored \/ PkgStop \/ SystemReset

PkgSpec == PkgInit /\ [][PkgNext]_pkgVars

-----------------------------------------------------------------------------
\* The variables have their types.
PkgTypeOK ==
    /\ manager \in Managers
    /\ pkgPhase \in {"down", "restoring", "up"}
    /\ DOMAIN pkg \subseteq PkgKey
    /\ \A k \in DOMAIN pkg : IF k[1] = "repos" THEN pkg[k].url \in Url ELSE pkg[k] \in PkgBody(k)
    /\ pkgFile # None => DOMAIN pkgFile.current \subseteq PkgKey
    /\ restoring.todo \intersect restoring.applied = {}
    /\ \A t \in Thread : job[t] # None => pkgPhase = "up" /\ job[t].key \in PkgKey
    /\ unitState \in [Service -> UnitState]
    /\ installedPkgs \subseteq Package /\ index \subseteq Url
    /\ unsure \subseteq PkgKey

PkgBusy(k) == \E t \in Thread : job[t] # None /\ SameLine(job[t].key, k)

\* What the plugin shows as managed is on the system, and the package cache
\* knows the repositories it shows as added, through restarts and whatever
\* others did meanwhile.  Not so, and left out: an entry whose restore or
\* change failed (plugin.py:158, 213), that two requests changed at once, a
\* package a system upgrade removed or installed (_pkg_manager.py:159), a
\* repository that shares its line with another, one that pacman.conf had
\* already (_pkg_manager.py:239) or that was imported on pacman, a service
\* imported as it is not (plugin.py:325, 347), and a package managed as absent
\* that was updated (plugin.py:455).
ManagedIsAsShown ==
    pkgPhase = "up" =>
        \A k \in DOMAIN pkg \ unsure : PkgBusy(k) \/ OnSystem(k, pkg[k])
=============================================================================
