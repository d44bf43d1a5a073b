-------------------------------- MODULE Loader --------------------------------
(***************************************************************************)
(* PluginLoader (src/plugin_system/core/loader.py) as the server drives it *)
(* (src/fastfirewall_app.py): one pass per plugin directory and one over   *)
(* the installed packages, then the deferred setup() calls.  Once booted,  *)
(* its public load_plugin and unload_plugin may be called at any time.     *)
(* A load is a stack of frames, because load_plugin calls itself for a     *)
(* requirement that is not loaded.                                         *)
(*                                                                         *)
(* Plugin ids are numbers, their alphabetical ranks.  Service claims and   *)
(* port claims are checked, registered and released together: both are     *)
(* resources.                                                              *)
(***************************************************************************)
EXTENDS Naturals, FiniteSets, Sequences

CONSTANTS
    Plugin,     \* plugin ids
    Resource,   \* services and (protocol, port) pairs
    Sources,    \* directories scanned, in order; the last is the installed packages
    Catalogue,  \* what may be on disk
    Nobody      \* owner of an unclaimed resource

\* found, enabled: the plugins each source has, and has with enabled: true;
\* requires, claims: plugin_requirements and services/service_ports;
\* only: the plugins named with --plugins, all of them if the option is absent.
CatalogueType ==
    [found : [1..Sources -> SUBSET Plugin], enabled : [1..Sources -> SUBSET Plugin],
     requires : [Plugin -> SUBSET Plugin], claims : [Plugin -> SUBSET Resource],
     only : SUBSET Plugin]

ASSUME LoaderAssumption ==
    /\ Plugin \subseteq Nat /\ IsFiniteSet(Plugin)
    /\ Sources \in Nat \ {0}
    /\ Catalogue \subseteq CatalogueType
    /\ Nobody \notin Plugin

VARIABLES
    cat,        \* the plugin.yaml files
    phase,      \* "down", "boot", "setup", "up", or "aborted"
    source,     \* the pass _load_discovered is in
    planned,    \* the pass has chosen what to load
    active,     \* what the pass is to load
    visited,    \* how far its loop has come
    failed,     \* of those: failed, or skipped for a failed requirement
    stack,      \* frames of load_plugin, innermost last; _loading
    plugins,    \* _plugins
    configured, \* loaded plugins whose configure() returned and routes are mounted
    loaded,     \* _loaded
    owner,      \* _service_registry and _port_registry
    deferred,   \* _deferred_setups
    ready,      \* plugins whose setup() was called
    direct      \* history: load_plugin was called after the boot

passVars == <<source, planned, active, visited, failed>>
registryVars == <<plugins, configured, loaded, owner>>
setupVars == <<deferred, ready>>
vars == <<cat, phase, passVars, stack, registryVars, setupVars, direct>>

Frame == [plugin : Plugin, source : 1..Sources, step : {"check", "requirements"},
          todo : SUBSET Plugin]

TypeOK ==
    /\ cat \in CatalogueType
    /\ phase \in {"down", "boot", "setup", "up", "aborted"}
    /\ source \in 1..(Sources + 1)
    /\ planned \in BOOLEAN /\ direct \in BOOLEAN
    /\ active \in SUBSET Plugin /\ visited \in SUBSET active /\ failed \in SUBSET visited
    /\ stack \in Seq(Frame)
    /\ configured \in SUBSET plugins /\ plugins \in SUBSET Plugin
    /\ loaded \in SUBSET Plugin
    /\ owner \in [Resource -> Plugin \union {Nobody}]
    /\ deferred \in Seq(Plugin)
    /\ ready \in SUBSET Plugin

Init ==
    /\ cat \in Catalogue
    /\ phase = "down"
    /\ source = 1 /\ planned = FALSE
    /\ active = {} /\ visited = {} /\ failed = {}
    /\ stack = <<>>
    /\ plugins = {} /\ configured = {} /\ loaded = {}
    /\ owner = [r \in Resource |-> Nobody]
    /\ deferred = <<>> /\ ready = {}
    /\ direct = FALSE

-----------------------------------------------------------------------------
(* Planning a pass. *)

Requires(p) == cat.requires[p]

\* Already loaded plugins are those of a source with a higher priority.
Discovered == cat.found[source] \ loaded

\* The plugins asked for, with everything they require that is in this source.
Candidates ==
    {p \in Discovered : \A c \in SUBSET Discovered :
        /\ cat.only \intersect Discovered \subseteq c
        /\ \A q \in c : Requires(q) \intersect Discovered \subseteq c
        => p \in c}

Enabled == cat.enabled[source]

\* Disabled plugins and, transitively, those that require one.
Disabled ==
    {p \in Candidates : \A d \in SUBSET Candidates :
        /\ Candidates \ Enabled \subseteq d
        /\ \A q \in Candidates : Requires(q) \intersect d # {} => q \in d
        => p \in d}

Active == Candidates \ Disabled

RequirementMissing ==
    \E p \in Candidates \intersect Enabled : ~(Requires(p) \subseteq Discovered \union loaded)

First(p, S) == \A q \in S : p <= q

Deps(p, nodes) == Requires(p) \intersect nodes

\* _topo_sort: Kahn's algorithm, the ready list kept in alphabetical order.
KahnState(nodes) == [inDegree : [nodes -> Nat], queue : SUBSET nodes, order : Seq(nodes)]

KahnStart(nodes) ==
    [inDegree |-> [p \in nodes |-> Cardinality(Deps(p, nodes))],
     queue |-> {p \in nodes : Deps(p, nodes) = {}},
     order |-> <<>>]

KahnNext(nodes, s) ==
    LET p == CHOOSE q \in s.queue : First(q, s.queue)
        dependents == {d \in nodes : p \in Deps(d, nodes)}
    IN IF s.queue = {} THEN s ELSE
       [inDegree |-> [d \in nodes |-> IF d \in dependents THEN s.inDegree[d] - 1
                                                         ELSE s.inDegree[d]],
        queue |-> (s.queue \ {p}) \union {d \in dependents : s.inDegree[d] = 1},
        order |-> Append(s.order, p)]

TopoSort(nodes) ==
    LET next == [s \in KahnState(nodes) |-> KahnNext(nodes, s)]
        run[i \in 0..Cardinality(nodes)] == IF i = 0 THEN KahnStart(nodes) ELSE next[run[i - 1]]
    IN  run[Cardinality(nodes)].order

\* Mutant of CycleReported: the order is only checked for being empty.
NothingSorted == Active # {} /\ TopoSort(Active) = <<>>

CycleReported == Len(TopoSort(Active)) # Cardinality(Active)

Planning == phase = "boot" /\ ~planned /\ source \in 1..Sources

\* PluginError is not caught by the server: it does not start.
PassRefused ==
    /\ Planning
    /\ RequirementMissing \/ CycleReported
    /\ phase' = "aborted"
    /\ UNCHANGED <<cat, passVars, stack, registryVars, setupVars, direct>>

\* A repository key, the OS packages or "uv sync" fail; load_installed returns
\* before that when it has found nothing to load.
InstallFails ==
    /\ Planning
    /\ ~RequirementMissing /\ ~CycleReported
    /\ source < Sources \/ Discovered # {}
    /\ phase' = "aborted"
    /\ UNCHANGED <<cat, passVars, stack, registryVars, setupVars, direct>>

PlanPass ==
    /\ Planning
    /\ ~RequirementMissing /\ ~CycleReported
    /\ planned' = TRUE
    /\ active' = Active /\ visited' = {} /\ failed' = {}
    /\ UNCHANGED <<cat, phase, source, stack, registryVars, setupVars, direct>>

-----------------------------------------------------------------------------
(* One pass: load in the planned order, skip what a failure makes useless. *)

\* A call of load_plugin with the directory of p in source s.
Called(p, s) == [plugin |-> p, source |-> s, step |-> "check", todo |-> {}]

Visiting == phase = "boot" /\ planned /\ stack = <<>>

\* Mutant of Ready: alphabetical order alone.
AnyUnvisited == active \ visited

\* TopoSort(active), taken one plugin at a time (VisitsInKahnOrder).
Ready == {p \in active \ visited : Requires(p) \intersect active \subseteq visited}

SkipDependent ==
    /\ Visiting
    /\ \E p \in Ready :
        /\ First(p, Ready)
        /\ Requires(p) \intersect failed # {}
        /\ visited' = visited \union {p} /\ failed' = failed \union {p}
    /\ UNCHANGED <<cat, phase, source, planned, active, stack, registryVars, setupVars, direct>>

\* Mutant of StartLoad: a failed requirement does not matter.
StartAnyway ==
    /\ Visiting
    /\ \E p \in Ready :
        /\ First(p, Ready)
        /\ visited' = visited \union {p}
        /\ stack' = <<Called(p, source)>>
    /\ UNCHANGED <<cat, phase, source, planned, active, failed, registryVars, setupVars, direct>>

\* Mutant of StartLoad: the loop only moves on from a plugin that loads.
StartUntilLoaded ==
    /\ Visiting
    /\ \E p \in Ready :
        /\ First(p, Ready)
        /\ Requires(p) \intersect failed = {}
        /\ visited' = IF p \in plugins THEN visited \union {p} ELSE visited
        /\ stack' = <<Called(p, source)>>
    /\ UNCHANGED <<cat, phase, source, planned, active, failed, registryVars, setupVars, direct>>

StartLoad ==
    /\ Visiting
    /\ \E p \in Ready :
        /\ First(p, Ready)
        /\ Requires(p) \intersect failed = {}
        /\ visited' = visited \union {p}
        /\ stack' = <<Called(p, source)>>
    /\ UNCHANGED <<cat, phase, source, planned, active, failed, registryVars, setupVars, direct>>

\* Mutant of EndPass: what failed stays failed in the next pass.
EndPassKeepsFailed ==
    /\ Visiting /\ Ready = {}
    /\ loaded' = loaded \union (visited \ failed)
    /\ source' = source + 1 /\ planned' = FALSE
    /\ active' = {} /\ visited' = {}
    /\ UNCHANGED <<cat, phase, failed, stack, plugins, configured, owner, setupVars, direct>>

EndPass ==
    /\ Visiting /\ Ready = {}
    /\ loaded' = loaded \union (visited \ failed)
    /\ source' = source + 1 /\ planned' = FALSE
    /\ active' = {} /\ visited' = {} /\ failed' = {}
    /\ UNCHANGED <<cat, phase, stack, plugins, configured, owner, setupVars, direct>>

-----------------------------------------------------------------------------
(* load_plugin *)

Top == stack[Len(stack)]
Loading == {stack[i].plugin : i \in 1..Len(stack)}
At(step) == stack # <<>> /\ Top.step = step
Pop == SubSeq(stack, 1, Len(stack) - 1)
Resolving(todo) ==
    [plugin |-> Top.plugin, source |-> Top.source, step |-> "requirements", todo |-> todo]

\* The exception leaves every frame; the pass catches it, a direct caller gets it.
Raise ==
    /\ stack' = <<>>
    /\ failed' = IF phase = "boot" THEN failed \union {stack[1].plugin} ELSE failed

\* An unreadable yaml, a missing module, an import that raises, a refused
\* claim, a cycle, a requirement that is nowhere, a package that does not install.
LoadFails ==
    /\ stack # <<>>
    /\ Raise
    /\ UNCHANGED <<cat, phase, source, planned, active, visited, registryVars, setupVars, direct>>

ReturnDisabled ==
    /\ At("check")
    /\ Top.plugin \notin cat.enabled[Top.source]
    /\ stack' = Pop
    /\ UNCHANGED <<cat, phase, passVars, registryVars, setupVars, direct>>

Unclaimed(p) == \A r \in cat.claims[p] : owner[r] = Nobody

PassChecks ==
    /\ At("check")
    /\ Top.plugin \in cat.enabled[Top.source]
    /\ Top.plugin \notin plugins
    /\ Unclaimed(Top.plugin)
    /\ stack' = Append(Pop, Resolving(Requires(Top.plugin)))
    /\ UNCHANGED <<cat, phase, passVars, registryVars, setupVars, direct>>

\* A requirement that is not loaded is looked for beside the plugin's directory;
\* the packages installed under site-packages do not lie side by side.
AutoLoad ==
    /\ At("requirements") /\ Top.source < Sources
    /\ \E d \in Top.todo \ plugins :
        /\ d \notin Loading
        /\ d \in cat.found[Top.source]
        /\ stack' = Pop \o <<Resolving(Top.todo \ {d}), Called(d, Top.source)>>
    /\ UNCHANGED <<cat, phase, passVars, registryVars, setupVars, direct>>

RequirementsMet == At("requirements") /\ Top.todo \subseteq plugins

Enter(p) ==
    /\ plugins' = plugins \union {p}
    /\ owner' = [r \in Resource |-> IF r \in cat.claims[p] THEN p ELSE owner[r]]

\* Mutant of Register: the last configured is the first set up.
RegisterFirst ==
    /\ RequirementsMet
    /\ Enter(Top.plugin)
    /\ configured' = configured \union {Top.plugin}
    /\ IF phase = "boot"
       THEN deferred' = <<Top.plugin>> \o deferred /\ UNCHANGED ready
       ELSE ready' = ready \union {Top.plugin} /\ UNCHANGED deferred
    /\ stack' = Pop
    /\ UNCHANGED <<cat, phase, passVars, loaded, direct>>

\* configure() returned and the routes are mounted; setup() waits for the boot to finish.
Register ==
    /\ RequirementsMet
    /\ Enter(Top.plugin)
    /\ configured' = configured \union {Top.plugin}
    /\ IF phase = "boot"
       THEN deferred' = Append(deferred, Top.plugin) /\ UNCHANGED ready
       ELSE ready' = ready \union {Top.plugin} /\ UNCHANGED deferred
    /\ stack' = Pop
    /\ UNCHANGED <<cat, phase, passVars, loaded, direct>>

\* configure() or mounting raises: what Enter registered stays.
ConfigureFails ==
    /\ RequirementsMet
    /\ Enter(Top.plugin)
    /\ Raise
    /\ UNCHANGED <<cat, phase, source, planned, active, visited, configured, loaded, setupVars, direct>>

\* After the boot setup() runs at once and nothing catches its exception.
SetupFails ==
    /\ RequirementsMet /\ phase = "up"
    /\ Enter(Top.plugin)
    /\ configured' = configured \union {Top.plugin}
    /\ ready' = ready \union {Top.plugin}
    /\ Raise
    /\ UNCHANGED <<cat, phase, source, planned, active, visited, loaded, deferred, direct>>

-----------------------------------------------------------------------------
(* finished(): every setup(), in the order the plugins were configured; an  *)
(* exception is logged and the next one runs.                               *)

StartSetup ==
    /\ phase = "boot" /\ source > Sources
    /\ phase' = "setup"
    /\ UNCHANGED <<cat, passVars, stack, registryVars, setupVars, direct>>

\* Mutant of RunSetup: an exception ends the loop.
RunOneSetup ==
    /\ phase = "setup" /\ deferred # <<>>
    /\ ready' = ready \union {Head(deferred)}
    /\ deferred' \in {Tail(deferred), <<>>}
    /\ UNCHANGED <<cat, phase, passVars, stack, registryVars, direct>>

RunSetup ==
    /\ phase = "setup" /\ deferred # <<>>
    /\ ready' = ready \union {Head(deferred)}
    /\ deferred' = Tail(deferred)
    /\ UNCHANGED <<cat, phase, passVars, stack, registryVars, direct>>

Booted ==
    /\ phase = "setup" /\ deferred = <<>>
    /\ phase' = "up"
    /\ UNCHANGED <<cat, passVars, stack, registryVars, setupVars, direct>>

-----------------------------------------------------------------------------
(* After the boot, and between two runs of the server. *)

DirectLoad(p, s) ==
    /\ phase = "up" /\ stack = <<>> /\ p \in cat.found[s]
    /\ stack' = <<Called(p, s)>>
    /\ direct' = TRUE
    /\ UNCHANGED <<cat, phase, passVars, registryVars, setupVars>>

\* Mutant of Unload: the claims stay.
UnloadOnly(p) ==
    /\ phase = "up" /\ stack = <<>> /\ p \in plugins
    /\ plugins' = plugins \ {p} /\ configured' = configured \ {p} /\ ready' = ready \ {p}
    /\ direct' = TRUE
    /\ UNCHANGED <<cat, phase, passVars, stack, loaded, owner, deferred>>

\* Claims are dropped whoever holds them; _loaded keeps the plugin.  So does
\* FastAPI its routes, which are no longer those of a loaded plugin.
Unload(p) ==
    /\ phase = "up" /\ stack = <<>> /\ p \in plugins
    /\ plugins' = plugins \ {p} /\ configured' = configured \ {p} /\ ready' = ready \ {p}
    /\ owner' = [r \in Resource |-> IF r \in cat.claims[p] THEN Nobody ELSE owner[r]]
    /\ direct' = TRUE
    /\ UNCHANGED <<cat, phase, passVars, stack, loaded, deferred>>

\* --enable-plugin and --disable-plugin edit the first directory, then exit.
SetEnabled(p, on) ==
    /\ phase = "down" /\ p \in cat.found[1]
    /\ cat' = [cat EXCEPT !.enabled[1] = IF on THEN @ \union {p} ELSE @ \ {p}]
    /\ UNCHANGED <<phase, passVars, stack, registryVars, setupVars, direct>>

Start ==
    /\ phase = "down"
    /\ phase' = "boot"
    /\ UNCHANGED <<cat, passVars, stack, registryVars, setupVars, direct>>

\* The process ends, at any point; nothing of the loader is on disk.
Stop ==
    /\ phase # "down"
    /\ phase' = "down"
    /\ source' = 1 /\ planned' = FALSE
    /\ active' = {} /\ visited' = {} /\ failed' = {}
    /\ stack' = <<>>
    /\ plugins' = {} /\ configured' = {} /\ loaded' = {}
    /\ owner' = [r \in Resource |-> Nobody]
    /\ deferred' = <<>> /\ ready' = {}
    /\ direct' = FALSE
    /\ UNCHANGED cat

PassStep == PassRefused \/ InstallFails \/ PlanPass \/ SkipDependent \/ StartLoad \/ EndPass
LoadStep ==
    LoadFails \/ ReturnDisabled \/ PassChecks \/ AutoLoad \/ Register \/ ConfigureFails \/ SetupFails
SetupStep == StartSetup \/ RunSetup \/ Booted
Operate ==
    \/ \E p \in Plugin : Unload(p) \/ \E s \in 1..Sources : DirectLoad(p, s)
    \/ \E p \in Plugin, on \in BOOLEAN : SetEnabled(p, on)
    \/ Start \/ Stop

Next == PassStep \/ LoadStep \/ SetupStep \/ Operate

Spec == Init /\ [][Next]_vars

\* The boot is straight-line code of the main thread: it runs on until the process ends.
FairSpec == Spec /\ WF_vars(PassStep \/ LoadStep \/ SetupStep)

-----------------------------------------------------------------------------
(* Properties *)

\* A claim always belongs to a loaded plugin that makes it, whatever failed,
\* was loaded again or was unloaded; and until load_plugin is called directly
\* every loaded plugin holds all its claims, so no two plugins make the same one.
ClaimsHaveOwners ==
    \A r \in Resource : owner[r] # Nobody => owner[r] \in plugins /\ r \in cat.claims[owner[r]]
ClaimsAreExclusive == ~direct => \A p \in plugins : \A r \in cat.claims[p] : owner[r] = p
RegistryMatches == ClaimsHaveOwners /\ ClaimsAreExclusive

\* "dependencies always load first" (README.md): during the boot a plugin is
\* configured only when everything it requires was configured without an error,
\* although requirements may come from earlier passes, fail, or be tried again.
RequirementsFirst ==
    [][\A p \in configured' \ configured :
        phase = "boot" => Requires(p) \subseteq configured]_vars

\* "in dependency order": finished() sets a plugin up after what it requires,
\* across passes as well.
SetupOrder ==
    [][\A p \in ready' \ ready : phase = "setup" => Requires(p) \subseteq ready]_vars

\* Every loaded plugin whose routes a booted server answers has had its setup
\* called.
RoutedIsSetUp == phase = "up" => configured = ready

\* The pass visits the plugins in the order _topo_sort returned.
VisitsInKahnOrder ==
    [][\A p \in visited' \ visited : p = TopoSort(active)[Cardinality(visited) + 1]]_vars

\* Counting what was sorted finds the cycles, all of them and nothing else:
\* a circular set is one whose every member requires a member.
RefusalIsJustified ==
    Planning => (CycleReported <=>
        \E C \in (SUBSET Active) \ {{}} : \A p \in C : Requires(p) \intersect C # {})

\* Whatever fails, a boot ends: the server is up or has given up, unless it is stopped.
BootEnds == phase = "boot" ~> phase \in {"up", "aborted", "down"}

\* "--disable-plugin ... The change takes effect on the next server start"
\* (README.md:262): a plugin disabled in its directory is not loaded at boot.
DisabledStaysOut ==
    ~direct => \A p \in plugins : p \in cat.found[1] => p \in cat.enabled[1]

=============================================================================
