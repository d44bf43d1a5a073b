------------------------------ MODULE Networking ------------------------------
(***************************************************************************)
(* The networking plugin (src/plugins/networking): interfaces, bonds,      *)
(* bridges, WireGuard peers, routes and aliases, the systemd-networkd      *)
(* files an apply prunes, writes and reloads, discard, and the two ways a  *)
(* boot begins: import the running system, or re-apply the state file.     *)
(*                                                                         *)
(* An edit is one step.  An apply runs on a thread of the pool and takes   *)
(* no lock: it reads the configuration three times, handles one file after *)
(* the other and waits for subprocesses, and other requests, applies among *)
(* them, run in between.  An interface entry keeps what the files depend   *)
(* on: its kind, its master, its subnet and its WireGuard peers.  A        *)
(* route's id is the hash of its content, so routes form a set.            *)
(***************************************************************************)
EXTENDS Plugin, Naturals, FiniteSets

CONSTANTS
    Name,       \* interface names; an alias is one of these names as well
    Subnet,     \* what addresses say: the subnet a gateway may lie in
    Peer,       \* WireGuard public keys
    PeerData,   \* what else a peer is given: endpoint, allowed addresses
    Update,     \* bodies of PUT /config/interfaces/{name}
    Route,      \* routes a client adds or the system has
    System,     \* [interfaces, routes] the ip command may report
    Earlier,    \* configurations an earlier process may have installed
    MaxOps      \* bound: starts, edits, discards and applies

\* No value in a field of an entry or of an update is None; an update that
\* leaves the field out has no such field.
Kind == {"physical", "bond", "bridge", "wireguard"}

Entry == [kind : Kind, master : Name \union {None}, net : Subnet \union {None},
          peers : (SUBSET (Peer \X PeerData)) \union {None}]

Config == [interfaces : Table(Name, Entry), routes : SUBSET Route, aliases : Table(Name, Name)]

NetRecord == [desired : Config \union {None}, current : Config \union {None}]

\* The files systemd-networkd is given.
FileId == Name \X {"network", "netdev"}

File == [of : Name \union {None}, net : Subnet \union {None}, routes : SUBSET Route]
        \union [kind : Kind, peers : (SUBSET (Peer \X PeerData)) \union {None}]

IsUpdate(u) ==
    /\ DOMAIN u \subseteq {"link", "net", "peers"}
    /\ "link" \in DOMAIN u => u.link \in [kind : Kind, master : Name \union {None}]
    /\ "net" \in DOMAIN u => u.net \in Subnet \union {None}
    /\ "peers" \in DOMAIN u => u.peers \in SUBSET (Peer \X PeerData)

ASSUME NetworkingAssumption ==
    /\ IsFiniteSet(Name)
    /\ \A r \in Route : r.dev \in Name \union {None} /\ r.via \in Subnet \union {None}
    /\ \A s \in System : s.interfaces \in Table(Name, Entry) /\ s.routes \in SUBSET Route
    /\ Earlier \subseteq Config
    /\ \A u \in Update : IsUpdate(u)
    /\ None \notin Name /\ None \notin Config /\ None \notin NetRecord
    /\ None \notin Table(Name, Entry) \X SUBSET Route
    /\ MaxOps \in Nat

VARIABLES
    netPhase,       \* "down"; "loaded" after configure(); "up" after setup()
    net,            \* self._interfaces, self._routes, self._aliases
    netDesired, netCurrent, netFile,    \* the plugin's PluginStateFile
    shared,         \* entries of net that are the very objects of _current
    sharedPeers,    \* entries of net whose peer list is that of _current
    pc, held,       \* where each thread's apply is, and what its frame holds
    staging,        \* the files under <data_dir>/networkd
    etc,            \* the 10-ff-* files in /etc/systemd/network
    running,        \* the files networkd loaded last
    stranded,       \* history: files in /etc that no prune will find
    installed,      \* history: the configuration the last commit installed
    misrecorded,    \* history: _current was changed without installing it
    netOps          \* counts towards MaxOps

netMem == <<net, netDesired, netCurrent, shared, sharedPeers>>
netApply == <<pc, held>>
netSystem == <<staging, etc, running, stranded>>
netHistory == <<installed, misrecorded>>
netVars == <<netPhase, netMem, netFile, netApply, netSystem, netHistory, netOps>>

-----------------------------------------------------------------------------
Nothing == [interfaces |-> << >>, routes |-> {}, aliases |-> << >>]

Empty(c) == c.interfaces = << >> /\ c.routes = {}

\* What an apply installs; an alias is in effect as soon as it is set.
Core(c) == IF c = None THEN None ELSE <<c.interfaces, c.routes>>

\* setdefault(k, k) for each k of S.
WithDefaults(aliases, S) == aliases @@ [n \in S |-> n]

\* _find_route_interface: an interface whose subnet holds the gateway.
Gateways(ifs, r) == {n \in DOMAIN ifs : r.via # None /\ ifs[n].net = r.via}

RoutesOf(c, n) ==
    {r \in c.routes :
        \/ r.dev = n
        \/ /\ r.dev = None /\ Gateways(c.interfaces, r) # {}
           /\ n = CHOOSE m \in Gateways(c.interfaces, r) : TRUE}

Unroutable(c) == \E r \in c.routes : r.dev = None /\ Gateways(c.interfaces, r) = {}

\* Bond= or Bridge=, by the kind the master has now; neither if it has none.
Enslaved(ifs, n) ==
    LET m == ifs[n].master
    IN IF m \in DOMAIN ifs /\ ifs[m].kind \in {"bond", "bridge"} THEN m ELSE None

NetworkFile(c, n) ==
    IF c.interfaces[n].master # None
    THEN [of |-> Enslaved(c.interfaces, n), net |-> None, routes |-> {}]
    ELSE [of |-> None, net |-> c.interfaces[n].net, routes |-> RoutesOf(c, n)]

NetdevFile(c, n) == [kind |-> c.interfaces[n].kind, peers |-> c.interfaces[n].peers]

Virtual(c) ==
    {n \in DOMAIN c.interfaces :
        c.interfaces[n].master = None /\ c.interfaces[n].kind # "physical"}

\* _build_all_networkd_configs, of a configuration that is not Unroutable.
Build(c) ==
    [f \in ((DOMAIN c.interfaces) \X {"network"}) \union (Virtual(c) \X {"netdev"}) |->
        IF f[2] = "network" THEN NetworkFile(c, f[1]) ELSE NetdevFile(c, f[1])]

Blank == [kind |-> "physical", master |-> None, net |-> None, peers |-> None]

EntryOf(ifs, n) == IF n \in DOMAIN ifs THEN ifs[n] ELSE Blank

\* The copies made of the members' entries, with their new master.
Enslave(ifs, members, master) ==
    [n \in members |-> [EntryOf(ifs, n) EXCEPT !.master = master]] @@ ifs

MembersOf(ifs, master) == {n \in DOMAIN ifs : ifs[n].master = master}

\* No member belongs to another master: the check behind the 409.
Free(ifs, members, master) ==
    \A n \in members : EntryOf(ifs, n).master \in {None, master}

-----------------------------------------------------------------------------
(* Edits.  What a handler changes in place is changed in _current as well, *)
(* for the entries discard shared with it; an entry it replaces by a copy  *)
(* is not shared any more, but its peer list still is.                     *)

Client ==
    /\ netPhase = "up"
    /\ netOps < MaxOps
    /\ netOps' = netOps + 1

Mirror(ifs) ==
    IF netCurrent = None THEN None
    ELSE [netCurrent EXCEPT !.interfaces =
            [n \in DOMAIN @ |->
                IF n \in shared THEN ifs[n]
                ELSE IF n \in sharedPeers THEN [@[n] EXCEPT !.peers = ifs[n].peers]
                ELSE @[n]]]

\* An apply that has not read the configuration for the last time sees this
\* edit in some of what it reads.
Interfere ==
    held' = [t \in Thread |-> IF pc[t] \in {"build", "prune"}
                              THEN [held[t] EXCEPT !.alone = FALSE] ELSE held[t]]

\* Mutant of Save: the edit is kept in memory until the next apply.
SaveInMemory(live, cur) ==
    /\ net' = live /\ netDesired' = live /\ netCurrent' = cur
    /\ misrecorded' = (misrecorded \/ Core(cur) # Core(netCurrent))
    /\ Interfere
    /\ UNCHANGED <<netPhase, netFile, pc, netSystem, installed>>

\* _save_state(): the file is replaced as a whole (StateFile models the
\* writes that fail).
Save(live, cur) ==
    /\ net' = live
    /\ netDesired' = live
    /\ netCurrent' = cur
    /\ netFile' = [desired |-> live, current |-> cur]
    /\ misrecorded' = (misrecorded \/ Core(cur) # Core(netCurrent))
    /\ Interfere
    /\ UNCHANGED <<netPhase, pc, netSystem, installed>>

\* fresh: the entries that are new objects, or gone; noPeers: those whose
\* peer list is.
Edit(live, cur, fresh, noPeers) ==
    /\ Client
    /\ Save(live, cur)
    /\ shared' = shared \ fresh
    /\ sharedPeers' = sharedPeers \ noPeers

Ifs == net.interfaces

SetInterface(n, u) ==
    LET e == EntryOf(Ifs, n)
        new == [kind |-> IF "link" \in DOMAIN u THEN u.link.kind ELSE e.kind,
                master |-> IF "link" \in DOMAIN u THEN u.link.master ELSE e.master,
                net |-> IF "net" \in DOMAIN u THEN u.net ELSE e.net,
                peers |-> IF "peers" \in DOMAIN u THEN u.peers ELSE e.peers]
    IN Edit([net EXCEPT !.interfaces = n :> new @@ Ifs,
                        !.aliases = WithDefaults(@, {n})],
            netCurrent, {n}, IF "peers" \in DOMAIN u THEN {n} ELSE {})

\* Aliases that name the interface, and members whose master it is, stay.
DeleteInterface(n) ==
    /\ n \in DOMAIN Ifs
    /\ Edit([net EXCEPT !.interfaces = Without(@, {n})], netCurrent, {n}, {n})

ImportInterfaces(s, names, overwrite) ==
    LET imported == {n \in names \intersect DOMAIN s.interfaces :
                        overwrite \/ n \notin DOMAIN Ifs}
    IN /\ imported # {}
       /\ Edit([net EXCEPT !.interfaces = Restrict(s.interfaces, imported) @@ Ifs,
                           !.aliases = WithDefaults(@, imported)],
               netCurrent, imported, imported)

AddRoute(r) ==
    /\ r.dev # None => r.dev \in DOMAIN Ifs
    /\ r \notin net.routes
    /\ Edit([net EXCEPT !.routes = @ \union {r}], netCurrent, {}, {})

DeleteRoute(r) ==
    /\ r \in net.routes
    /\ Edit([net EXCEPT !.routes = @ \ {r}], netCurrent, {}, {})

ImportRoutes(s, overwrite) ==
    /\ s.routes # {} /\ (overwrite \/ ~ s.routes \subseteq net.routes)
    /\ Edit([net EXCEPT !.routes = @ \union s.routes], netCurrent, {}, {})

\* What both kinds of master have in common when they are created.
CreateMaster(name, kind, members, subnet, aliases) ==
    /\ name \notin DOMAIN Ifs
    /\ Free(Ifs, members, name)
    /\ Edit([net EXCEPT
                !.interfaces = Enslave(name :> [Blank EXCEPT !.kind = kind, !.net = subnet]
                                            @@ Ifs, members, name),
                !.aliases = WithDefaults(aliases, {name} \union members)],
            netCurrent, {name} \union members, {name})

\* Every alias of a member now names the bond.
CreateBond(name, members, subnet) ==
    /\ members # {}
    /\ CreateMaster(name, "bond", members, subnet,
           LET old == WithDefaults(net.aliases, {name})
           IN [a \in DOMAIN old |-> IF old[a] \in members THEN name ELSE old[a]])

CreateBridge(name, members, subnet) ==
    CreateMaster(name, "bridge", members, subnet, net.aliases)

\* The master's entry and those of the members it releases change in place;
\* a new member is taken from whatever master it has.
UpdateMaster(name, kind, members, subnet) ==
    /\ name \in DOMAIN Ifs /\ Ifs[name].kind = kind
    /\ LET released == MembersOf(Ifs, name) \ members
           kept == [n \in DOMAIN Ifs |->
                      IF n = name THEN [Ifs[n] EXCEPT !.net = subnet]
                      ELSE IF n \in released THEN [Ifs[n] EXCEPT !.master = None]
                      ELSE Ifs[n]]
       IN Edit([net EXCEPT !.interfaces = Enslave(kept, members, name)],
               Mirror(kept), members, {})

UpdateBond(name, members, subnet) == UpdateMaster(name, "bond", members, subnet)
UpdateBridge(name, members, subnet) == UpdateMaster(name, "bridge", members, subnet)

\* The members' entries go with their master's.
DeleteMaster(name, kind) ==
    /\ name \in DOMAIN Ifs /\ Ifs[name].kind = kind
    /\ LET gone == {name} \union MembersOf(Ifs, name)
       IN Edit([net EXCEPT !.interfaces = Without(@, gone)], netCurrent, gone, gone)

DeleteBond(name) == DeleteMaster(name, "bond")
DeleteBridge(name) == DeleteMaster(name, "bridge")

AddMember(name, kind, member) ==
    /\ name \in DOMAIN Ifs /\ Ifs[name].kind = kind
    /\ Free(Ifs, {member}, name)
    /\ Edit([net EXCEPT !.interfaces = Enslave(Ifs, {member}, name),
                        !.aliases = WithDefaults(@, {member})],
            netCurrent, {member}, {})

AddBondMember(name, member) == AddMember(name, "bond", member)
AddBridgeMember(name, member) == AddMember(name, "bridge", member)

DeleteMember(name, kind, member) ==
    /\ name \in DOMAIN Ifs /\ Ifs[name].kind = kind
    /\ member \in MembersOf(Ifs, name)
    /\ Edit([net EXCEPT !.interfaces[member].master = None], netCurrent, {member}, {})

DeleteBondMember(name, member) == DeleteMember(name, "bond", member)
DeleteBridgeMember(name, member) == DeleteMember(name, "bridge", member)

\* The three peer handlers edit the list, and the entry, in place.
EditPeers(n, peers) ==
    LET new == [Ifs EXCEPT ![n].peers = peers]
    IN Edit([net EXCEPT !.interfaces = new], Mirror(new), {}, {})

IsWireguard(n) == n \in DOMAIN Ifs /\ Ifs[n].kind = "wireguard"

Peers(n) == IF Ifs[n].peers = None THEN {} ELSE Ifs[n].peers

AddPeer(n, k, d) ==
    /\ IsWireguard(n)
    /\ \A p \in Peers(n) : p[1] # k
    /\ EditPeers(n, Peers(n) \union {<<k, d>>})

UpdatePeer(n, k, d) ==
    /\ IsWireguard(n)
    /\ \E p \in Peers(n) : p[1] = k /\ EditPeers(n, (Peers(n) \ {p}) \union {<<k, d>>})

DeletePeer(n, k) ==
    /\ IsWireguard(n)
    /\ \E p \in Peers(n) : p[1] = k /\ EditPeers(n, Peers(n) \ {p})

\* An alias edit saves, and then commits everything that is desired.
EditAliases(aliases) ==
    LET live == [net EXCEPT !.aliases = aliases]
    IN Edit(live, live, Name, Name)

SetAlias(a, n) == EditAliases(a :> n @@ net.aliases)

DeleteAlias(a) ==
    /\ a \in DOMAIN net.aliases
    /\ EditAliases(Without(net.aliases, {a}))

\* One level is copied, so every entry is now the recorded one.
Discard ==
    /\ netCurrent # None
    /\ Client
    /\ Save(netCurrent, netCurrent)
    /\ shared' = DOMAIN netCurrent.interfaces
    /\ sharedPeers' = {n \in shared' : netCurrent.interfaces[n].peers # None}

-----------------------------------------------------------------------------
(* POST /apply. *)

\* Mutant of Commit: what is recorded is the configuration as it is by now.
CommitLive(c) ==
    /\ netCurrent' = net
    /\ netFile' = [desired |-> netDesired, current |-> net]
    /\ shared' = {} /\ sharedPeers' = {}
    /\ installed' = Core(c)
    /\ misrecorded' = FALSE
    /\ UNCHANGED netDesired

Commit(c) ==
    /\ netCurrent' = c
    /\ netFile' = [desired |-> netDesired, current |-> c]
    /\ shared' = {} /\ sharedPeers' = {}
    /\ installed' = Core(c)
    /\ misrecorded' = FALSE
    /\ UNCHANGED netDesired

Goto(t, step, h) ==
    /\ pc' = [pc EXCEPT ![t] = step]
    /\ held' = [held EXCEPT ![t] = h]

\* Mutant of Return: the apply's frame outlives it.
ReturnHolding(t) == Goto(t, "idle", held[t])

Return(t) == Goto(t, "idle", None)

\* desired is recorded in the end; left are the files still to be removed, or
\* written, and file the one at work.  alone (history): no other apply was
\* under way and no edit came before the configuration was last read.
BeginApply(t) ==
    /\ Client
    /\ pc[t] = "idle"
    /\ pc' = [pc EXCEPT ![t] = "build"]
    /\ held' = [u \in Thread |->
                  IF u = t THEN [desired |-> net, files |-> << >>, left |-> {}, file |-> None,
                                 alone |-> \A v \in Thread : pc[v] = "idle"]
                  ELSE IF pc[u] = "idle" THEN None ELSE [held[u] EXCEPT !.alone = FALSE]]
    /\ UNCHANGED <<netPhase, netMem, netFile, netSystem, netHistory>>

\* With neither interface nor route left there is nothing to prune, write or
\* reload, and the apply has succeeded.
BuildFiles(t) ==
    /\ pc[t] = "build"
    /\ \/ Empty(net) /\ Goto(t, "commit", held[t])
       \/ Unroutable(net) /\ Return(t)
       \/ /\ ~ Empty(net) /\ ~ Unroutable(net)
          /\ Goto(t, "prune", [held[t] EXCEPT !.files = Build(net)])
    /\ UNCHANGED <<netPhase, netMem, netFile, netSystem, netHistory, netOps>>

\* The two loops, when the frame is h: on to the next file, or the next thing.
Writing(t, h) ==
    Goto(t, IF h.left = {} THEN "reload" ELSE "stage", [h EXCEPT !.file = None])

Pruning(t, h) ==
    IF h.left = {} THEN Writing(t, [h EXCEPT !.left = DOMAIN h.files])
    ELSE Goto(t, "unlink", [h EXCEPT !.file = None])

\* Mutant of BeginPrune: what to remove is told from the recorded state
\* instead of the staging directory.
BeginPruneByDiff(t) ==
    /\ pc[t] = "prune"
    /\ Pruning(t, [held[t] EXCEPT !.left =
            {f \in FileId : netCurrent # None
                            /\ f[1] \in DOMAIN netCurrent.interfaces \ DOMAIN Ifs}])
    /\ UNCHANGED <<netPhase, netMem, netFile, netSystem, netHistory, netOps>>

BeginPrune(t) ==
    /\ pc[t] = "prune"
    /\ Pruning(t, [held[t] EXCEPT !.left = {f \in DOMAIN staging : f[1] \notin DOMAIN Ifs}])
    /\ UNCHANGED <<netPhase, netMem, netFile, netSystem, netHistory, netOps>>

\* The staged file is deleted before the one in /etc, which no later prune
\* will look for if this one fails or is killed.
Unlink(t) ==
    /\ pc[t] = "unlink"
    /\ \E f \in held[t].left :
          /\ staging' = Without(staging, {f})
          /\ stranded' = stranded \union ({f} \intersect DOMAIN etc)
          /\ Goto(t, "remove", [held[t] EXCEPT !.left = @ \ {f}, !.file = f])
    /\ UNCHANGED <<netPhase, netMem, netFile, etc, running, netHistory, netOps>>

\* A failure is logged, and the loop goes on.
Remove(t) ==
    /\ pc[t] = "remove"
    /\ \/ etc' = Without(etc, {held[t].file}) /\ stranded' = stranded \ {held[t].file}
       \/ UNCHANGED <<etc, stranded>>
    /\ Pruning(t, held[t])
    /\ UNCHANGED <<netPhase, netMem, netFile, staging, running, netHistory, netOps>>

Stage(t) ==
    /\ pc[t] = "stage"
    /\ \E f \in held[t].left :
          /\ staging' = f :> held[t].files[f] @@ staging
          /\ stranded' = stranded \ {f}
          /\ Goto(t, "put", [held[t] EXCEPT !.left = @ \ {f}, !.file = f])
    /\ UNCHANGED <<netPhase, netMem, netFile, etc, running, netHistory, netOps>>

\* What a worker that was told to put the staged file has read of it: what
\* this apply has staged or what another one has put there since.
ReadBack(t) ==
    {held[t].files[held[t].file]}
    \union {staging[f] : f \in {held[t].file} \intersect DOMAIN staging}

\* Mutant of Put: the failure of a worker is logged, and the loop goes on.
PutRegardless(t) ==
    /\ pc[t] = "put"
    /\ \E content \in ReadBack(t) : etc' \in {held[t].file :> content @@ etc, etc}
    /\ stranded' = stranded \union ({held[t].file} \ DOMAIN staging)
    /\ Writing(t, held[t])
    /\ UNCHANGED <<netPhase, netMem, netFile, staging, running, netHistory, netOps>>

\* A failure ends the apply.  The prune of another one may have deleted the
\* staged file meanwhile.
Put(t) ==
    /\ pc[t] = "put"
    /\ \/ /\ \E content \in ReadBack(t) : etc' = held[t].file :> content @@ etc
          /\ stranded' = stranded \union ({held[t].file} \ DOMAIN staging)
          /\ Writing(t, held[t])
       \/ UNCHANGED <<etc, stranded>> /\ Return(t)
    /\ UNCHANGED <<netPhase, netMem, netFile, staging, running, netHistory, netOps>>

\* networkctl reload answers, fails or does not answer in time; then comes the
\* loop over the interfaces, which fails if one is added or removed meanwhile
\* or networkctl does not answer in time.
Reload(t) ==
    /\ pc[t] = "reload"
    /\ \/ running' = etc /\ (Goto(t, "commit", held[t]) \/ Return(t))
       \/ UNCHANGED running /\ Return(t)
    /\ UNCHANGED <<netPhase, netMem, netFile, staging, etc, stranded, netHistory, netOps>>

FinishApply(t) ==
    /\ pc[t] = "commit"
    /\ Commit(held[t].desired)
    /\ Return(t)
    /\ UNCHANGED <<netPhase, net, netSystem, netOps>>

-----------------------------------------------------------------------------
(* Start and stop. *)

\* configure() with ignore_state_on_boot: nothing is read.
StartIgnoring ==
    /\ netPhase = "down" /\ netOps < MaxOps
    /\ netPhase' = "up"
    /\ net' = Nothing
    /\ netOps' = netOps + 1
    /\ UNCHANGED <<netDesired, netCurrent, netFile, shared, sharedPeers,
                   netApply, netSystem, netHistory>>

Loaded == IF netFile = None THEN Nothing ELSE netFile.desired
LoadedCurrent == IF netFile = None THEN None ELSE netFile.current

\* A commit of a process that ignored the file has left "desired_state": null
\* there, and configure() raises on it.
Readable == netFile # None => netFile.desired # None

DefaultAliases(c) == [c EXCEPT !.aliases = WithDefaults(@, DOMAIN c.interfaces)]

\* configure() with something to re-apply: setup() will.
Load ==
    /\ netPhase = "down" /\ netOps < MaxOps
    /\ Readable /\ ~ Empty(Loaded)
    /\ netPhase' = "loaded"
    /\ net' = DefaultAliases(Loaded)
    /\ netDesired' = Loaded
    /\ netCurrent' = LoadedCurrent
    /\ netOps' = netOps + 1
    /\ UNCHANGED <<netFile, shared, sharedPeers, netApply, netSystem, netHistory>>

\* configure() with nothing to re-apply: the running system becomes the
\* configuration, unless ip fails or there is nothing to import.
Import(s) ==
    /\ netPhase = "down" /\ netOps < MaxOps
    /\ Readable /\ Empty(Loaded)
    /\ netPhase' = "up"
    /\ net' = DefaultAliases([interfaces |-> s.interfaces, routes |-> s.routes,
                              aliases |-> Loaded.aliases])
    /\ IF Empty(s)
       THEN /\ netDesired' = Loaded
            /\ netCurrent' = LoadedCurrent
            /\ netFile' = [desired |-> netDesired', current |-> netCurrent']
            /\ UNCHANGED netHistory
       ELSE /\ netDesired' = net' /\ netCurrent' = net'
            /\ netFile' = [desired |-> net', current |-> net']
            /\ installed' = Core(net') /\ misrecorded' = FALSE
    /\ netOps' = netOps + 1
    /\ UNCHANGED <<shared, sharedPeers, netApply, netSystem>>

\* The files of done are written, and one more is staged if the worker that
\* should put it fails.
WriteFiles(files, done) ==
    /\ etc' = Restrict(files, done) @@ etc
    /\ \E tried \in SUBSET (DOMAIN files \ done) :
          /\ tried = {} <=> done = DOMAIN files
          /\ Cardinality(tried) <= 1
          /\ staging' = Restrict(files, done \union tried) @@ staging
          /\ stranded' = stranded \ (done \union tried)

\* setup(): write, reload whatever it answers, save and commit; an exception
\* (no route to a gateway, a file that cannot be put) is logged.
BootApply ==
    /\ netPhase = "loaded"
    /\ netPhase' = "up"
    /\ \/ /\ ~ Unroutable(net)
          /\ WriteFiles(Build(net), DOMAIN Build(net))
          /\ running' \in {running, etc'}
          /\ net' = net /\ netDesired' = net /\ netCurrent' = net
          /\ netFile' = [desired |-> net, current |-> net]
          /\ installed' = Core(net) /\ misrecorded' = FALSE
       \/ /\ ~ Unroutable(net)
          /\ \E done \in SUBSET DOMAIN Build(net) : WriteFiles(Build(net), done)
          /\ UNCHANGED <<net, netDesired, netCurrent, netFile, running, netHistory>>
       \/ /\ Unroutable(net)
          /\ UNCHANGED <<net, netDesired, netCurrent, netFile, netSystem, netHistory>>
    /\ UNCHANGED <<shared, sharedPeers, netApply, netOps>>

\* The process is killed, at any point.
NetStop ==
    /\ netPhase # "down"
    /\ netPhase' = "down"
    /\ net' = Nothing /\ netDesired' = None /\ netCurrent' = None
    /\ shared' = {} /\ sharedPeers' = {}
    /\ pc' = [t \in Thread |-> "idle"] /\ held' = [t \in Thread |-> None]
    /\ UNCHANGED <<netFile, netSystem, netHistory, netOps>>

\* systemd-networkd restarts, or the machine does, and loads what is there.
NetworkdRestart ==
    /\ running # etc
    /\ running' = etc
    /\ UNCHANGED <<netPhase, netMem, netFile, netApply, staging, etc, stranded,
                   netHistory, netOps>>

-----------------------------------------------------------------------------
\* A first start, or one after a process that applied c and stopped.
NetInit ==
    /\ netPhase = "down"
    /\ net = Nothing
    /\ netDesired = None /\ netCurrent = None
    /\ shared = {} /\ sharedPeers = {}
    /\ pc = [t \in Thread |-> "idle"] /\ held = [t \in Thread |-> None]
    /\ \/ /\ netFile = None /\ installed = None
          /\ staging = << >> /\ etc = << >>
       \/ \E c \in Earlier :
             /\ netFile = [desired |-> c, current |-> c] /\ installed = Core(c)
             /\ etc = Build(c) /\ staging = Build(c)
    /\ running = etc /\ stranded = {}
    /\ misrecorded = FALSE
    /\ netOps = 0

EditInterface ==
    \/ \E n \in Name, u \in Update : SetInterface(n, u)
    \/ \E n \in Name : DeleteInterface(n)
    \/ \E s \in System, names \in SUBSET Name, o \in BOOLEAN : ImportInterfaces(s, names, o)

EditRoute ==
    \/ \E r \in Route : AddRoute(r) \/ DeleteRoute(r)
    \/ \E s \in System, o \in BOOLEAN : ImportRoutes(s, o)

\* A client does not make an interface its own member.
EditMaster ==
    \E n \in Name, subnet \in Subnet \union {None} :
        \E members \in SUBSET (Name \ {n}) :
            \/ CreateBond(n, members, subnet) \/ CreateBridge(n, members, subnet)
            \/ UpdateBond(n, members, subnet) \/ UpdateBridge(n, members, subnet)

EditMember ==
    \E n \in Name :
        \/ DeleteBond(n) \/ DeleteBridge(n)
        \/ \E m \in Name \ {n} :
              \/ AddBondMember(n, m) \/ AddBridgeMember(n, m)
              \/ DeleteBondMember(n, m) \/ DeleteBridgeMember(n, m)

EditPeer ==
    \E n \in Name, k \in Peer :
        \/ \E d \in PeerData : AddPeer(n, k, d) \/ UpdatePeer(n, k, d)
        \/ DeletePeer(n, k)

EditAlias ==
    \/ \E a \in Name, n \in Name : SetAlias(a, n)
    \/ \E a \in Name : DeleteAlias(a)

ApplySteps(t) ==
    \/ BeginApply(t) \/ BuildFiles(t)
    \/ BeginPrune(t) \/ Unlink(t) \/ Remove(t)
    \/ Stage(t) \/ Put(t)
    \/ Reload(t) \/ FinishApply(t)

NetNext ==
    \/ EditInterface \/ EditRoute \/ EditMaster \/ EditMember \/ EditPeer \/ EditAlias
    \/ Discard
    \/ \E t \in Thread : ApplySteps(t)
    \/ StartIgnoring \/ Load \/ BootApply \/ NetStop
    \/ \E s \in System : Import(s)
    \/ NetworkdRestart

NetSpec == NetInit /\ [][NetNext]_netVars

-----------------------------------------------------------------------------
IsTable(t, K, V) == DOMAIN t \subseteq K /\ t \in [DOMAIN t -> V]

IsConfig(c) ==
    /\ c \in [interfaces : {c.interfaces}, routes : SUBSET Route, aliases : {c.aliases}]
    /\ IsTable(c.interfaces, Name, Entry) /\ IsTable(c.aliases, Name, Name)

Steps == {"idle", "build", "prune", "unlink", "remove", "stage", "put", "reload", "commit"}

IsFrame(h) ==
    /\ h \in [desired : {h.desired}, files : {h.files}, left : SUBSET FileId,
              file : FileId \union {None}, alone : BOOLEAN]
    /\ IsConfig(h.desired) /\ IsTable(h.files, FileId, File)

\* The variables have their types.
NetTypeOK ==
    /\ netPhase \in {"down", "loaded", "up"}
    /\ \A c \in {net, netDesired, netCurrent} : c # None => IsConfig(c)
    /\ net # None
    /\ netFile # None =>
          /\ netFile \in [desired : {netFile.desired}, current : {netFile.current}]
          /\ \A c \in {netFile.desired, netFile.current} : c # None => IsConfig(c)
    /\ shared \union sharedPeers \subseteq DOMAIN net.interfaces
    /\ pc \in [Thread -> Steps] /\ DOMAIN held = Thread
    /\ \A t \in Thread : IF pc[t] = "idle" THEN held[t] = None ELSE IsFrame(held[t])
    /\ netPhase # "up" => shared = {} /\ sharedPeers = {} /\ \A t \in Thread : pc[t] = "idle"
    /\ \A files \in {staging, etc, running} : IsTable(files, FileId, File)
    /\ stranded \subseteq FileId
    /\ misrecorded \in BOOLEAN
    /\ netOps \in 0..MaxOps

\* What POST /discard restores and GET /config/diff compares with is what the
\* last successful apply, boot or import installed, as long as no alias edit
\* (plugin.py:658) and no edit in place of an entry shared by a discard
\* (libs/bonds.py:86, libs/wireguard.py:32) has overwritten it: failed applies,
\* kills at any step, restarts and edits during an apply leave it alone.
RecordIsInstalled ==
    ~ misrecorded => Core(netCurrent) \in {None, installed}

\* An interface, route, bond, bridge or peer edit is in the file that the next
\* start reads and, if it is not installed, it is shown as pending.
EditsPendAndPersist ==
    netPhase = "up" /\ netDesired # None =>
        /\ netFile # None
        /\ Core(netFile.desired) = Core(net)
        /\ netFile.current = netCurrent
        /\ ~ misrecorded /\ netCurrent # None /\ Core(net) # installed
              => netDesired # netCurrent

\* An apply that no other one overlapped, and no edit before it had read the
\* configuration for the last time, records what networkd has loaded: every
\* file of the configuration it records.
CommitIsRunning ==
    \A t \in Thread :
        pc[t] = "commit" /\ held[t].alone /\ ~ Empty(held[t].desired)
            => IsRestriction(Build(held[t].desired), running)

\* And networkd has loaded no other file of ours, except of those whose removal
\* failed or was killed, or which an apply put while another one pruned them:
\* the staging directory, all that a prune looks at, knows the rest, whatever
\* applies, kills, starts and discards came before.
UnmanagedIsPruned ==
    \A t \in Thread :
        pc[t] = "commit" /\ held[t].alone /\ ~ Empty(held[t].desired)
            => \A f \in DOMAIN running :
                  f[1] \in DOMAIN held[t].desired.interfaces \/ f \in stranded

\* README.md:357, of networking among others: "mutations only update
\* `desired_state`.  You explicitly call `POST /apply` when ready."  An edit of
\* interfaces or routes leaves what is recorded as applied alone.
EditsOnlyStage ==
    [][netPhase = "up" /\ netPhase' = "up" /\ Core(net') # Core(net)
         => Core(netCurrent') = Core(netCurrent)]_netVars
=============================================================================
