---------------------------- MODULE NetworkingProofs ----------------------------
(***************************************************************************)
(* Proofs about the networking plugin, for any names, subnets, peers,      *)
(* routes, running systems and earlier configurations.                     *)
(***************************************************************************)
EXTENDS Networking, TLAPS

-----------------------------------------------------------------------------
(* Tables, and the configurations made of them. *)

LEMMA TableIs == ASSUME NEW t, NEW K, NEW V PROVE IsTable(t, K, V) <=> t \in Table(K, V)
  BY DEF IsTable, Table

LEMMA Tables ==
    ASSUME NEW K, NEW V, NEW t \in Table(K, V)
    PROVE  /\ DOMAIN t \in SUBSET K /\ \A k \in DOMAIN t : t[k] \in V
           /\ \A s \in Table(K, V) : s @@ t \in Table(K, V)
           /\ \A k \in K, v \in V : k :> v @@ t \in Table(K, V)
           /\ \A k : \A v \in V : [t EXCEPT ![k] = v] \in Table(K, V)
           /\ \A S : Without(t, S) \in Table(K, V)
           /\ \A S \in SUBSET DOMAIN t : Restrict(t, S) \in Table(K, V)
<1>. USE DEF Table
<1>1. PICK A \in SUBSET K : t \in [A -> V]
  OBVIOUS
<1>2. ASSUME NEW s \in Table(K, V) PROVE s @@ t \in Table(K, V)
  <2>1. PICK B \in SUBSET K : s \in [B -> V]
    OBVIOUS
  <2>2. s @@ t \in [(B \union A) -> V]
    BY <1>1, <2>1 DEF @@
  <2>. QED
    BY <2>2
<1>3. ASSUME NEW k \in K, NEW v \in V PROVE k :> v @@ t \in Table(K, V)
  <2>1. k :> v @@ t \in [({k} \union A) -> V]
    BY <1>1 DEF :>, @@
  <2>. QED
    BY <2>1
<1>4. ASSUME NEW k, NEW v \in V PROVE [t EXCEPT ![k] = v] \in Table(K, V)
  <2>1. [t EXCEPT ![k] = v] \in [A -> V]
    BY <1>1
  <2>. QED
    BY <2>1
<1>5. ASSUME NEW S PROVE Without(t, S) \in Table(K, V)
  <2>1. Without(t, S) \in [(A \ S) -> V]
    BY <1>1 DEF Without, Restrict
  <2>2. A \ S \in SUBSET K
    BY <1>1
  <2>. QED
    BY <2>1, <2>2
<1>6. ASSUME NEW S \in SUBSET DOMAIN t PROVE Restrict(t, S) \in Table(K, V)
  <2>1. Restrict(t, S) \in [S -> V] /\ S \in SUBSET K
    BY <1>1 DEF Restrict
  <2>. QED
    BY <2>1
<1>7. DOMAIN t \in SUBSET K /\ \A k \in DOMAIN t : t[k] \in V
  BY <1>1
<1>. QED
  BY <1>2, <1>3, <1>4, <1>5, <1>6, <1>7

Frame == [desired : Config, files : Table(FileId, File), left : SUBSET FileId,
          file : FileId \union {None}, alone : BOOLEAN]

LEMMA ConfigIs == \A c : IsConfig(c) <=> c \in Config
  BY TableIs DEF IsConfig, Config

LEMMA FrameIs == \A h : IsFrame(h) <=> h \in Frame
  BY TableIs, ConfigIs DEF IsFrame, Frame

LEMMA ConfigFields ==
    ASSUME NEW c \in Config
    PROVE  /\ c.interfaces \in Table(Name, Entry) /\ c.routes \in SUBSET Route
           /\ c.aliases \in Table(Name, Name)
           /\ \A ifs \in Table(Name, Entry) : [c EXCEPT !.interfaces = ifs] \in Config
           /\ \A routes \in SUBSET Route : [c EXCEPT !.routes = routes] \in Config
           /\ \A aliases \in Table(Name, Name) : [c EXCEPT !.aliases = aliases] \in Config
           /\ \A ifs \in Table(Name, Entry), aliases \in Table(Name, Name) :
                 [c EXCEPT !.interfaces = ifs, !.aliases = aliases] \in Config
  BY DEF Config

LEMMA EntryFields ==
    ASSUME NEW e \in Entry
    PROVE  /\ e.kind \in Kind /\ e.master \in Name \union {None}
           /\ e.net \in Subnet \union {None}
           /\ e.peers \in (SUBSET (Peer \X PeerData)) \union {None}
           /\ \A m \in Name \union {None} : [e EXCEPT !.master = m] \in Entry
           /\ \A n \in Subnet \union {None} : [e EXCEPT !.net = n] \in Entry
           /\ \A p \in (SUBSET (Peer \X PeerData)) \union {None} : [e EXCEPT !.peers = p] \in Entry
  BY DEF Entry

LEMMA Entries ==
    ASSUME NEW ifs \in Table(Name, Entry), NEW n \in Name
    PROVE  Blank \in Entry /\ EntryOf(ifs, n) \in Entry
<1>1. Blank \in Entry
  <2>1. "physical" \in Kind
    BY DEF Kind
  <2>2. /\ None \in Name \union {None} /\ None \in Subnet \union {None}
        /\ None \in (SUBSET (Peer \X PeerData)) \union {None}
    OBVIOUS
  <2>. QED
    BY <2>1, <2>2 DEF Blank, Entry
<1>2. n \in DOMAIN ifs => ifs[n] \in Entry
  BY Tables
<1>. QED
  BY <1>1, <1>2 DEF EntryOf

LEMMA EnslaveIs ==
    ASSUME NEW ifs \in Table(Name, Entry), NEW members \in SUBSET Name, NEW master \in Name
    PROVE  /\ Enslave(ifs, members, master) \in Table(Name, Entry)
           /\ DOMAIN Enslave(ifs, members, master) = members \union DOMAIN ifs
<1>. DEFINE taken == [n \in members |-> [EntryOf(ifs, n) EXCEPT !.master = master]]
<1>1. taken \in Table(Name, Entry)
  <2>1. \A n \in members : [EntryOf(ifs, n) EXCEPT !.master = master] \in Entry
    BY Entries, EntryFields
  <2>. QED
    BY <2>1 DEF Table
<1>2. DOMAIN taken = members
  OBVIOUS
<1>. HIDE DEF taken
<1>3. taken @@ ifs \in Table(Name, Entry) /\ DOMAIN (taken @@ ifs) = members \union DOMAIN ifs
  BY <1>1, <1>2, Tables DEF @@
<1>. QED
  BY <1>3 DEF Enslave, taken

LEMMA DefaultsAre ==
    ASSUME NEW aliases \in Table(Name, Name), NEW S \in SUBSET Name
    PROVE  WithDefaults(aliases, S) \in Table(Name, Name)
<1>1. [n \in S |-> n] \in Table(Name, Name)
  BY DEF Table
<1>. QED
  BY <1>1, Tables DEF WithDefaults

LEMMA Values ==
    /\ MaxOps \in Nat /\ IsFiniteSet(Name) /\ Nothing \in Config
    /\ None \notin Name /\ None \notin Config /\ None \notin NetRecord
    /\ \A c \in Config : Core(c) = <<c.interfaces, c.routes>> /\ Core(c) # None
<1>1. Nothing \in Config
  <2>1. << >> \in [{} -> Entry] /\ << >> \in [{} -> Name]
    OBVIOUS
  <2>. QED
    BY <2>1 DEF Nothing, Config, Table
<1>2. ASSUME NEW c \in Config PROVE Core(c) = <<c.interfaces, c.routes>> /\ Core(c) # None
  <2>1. Core(c) = <<c.interfaces, c.routes>>
    BY NetworkingAssumption DEF Core
  <2>2. <<c.interfaces, c.routes>> \in Table(Name, Entry) \X SUBSET Route
    BY ConfigFields
  <2>. QED
    BY <2>1, <2>2, NetworkingAssumption
<1>. QED
  BY <1>1, <1>2, NetworkingAssumption

\* The files of a configuration are files.
LEMMA BuildIs ==
    ASSUME NEW c \in Config
    PROVE  /\ Build(c) \in Table(FileId, File)
           /\ \A f \in DOMAIN Build(c) : f[1] \in DOMAIN c.interfaces
<1>. DEFINE ids == ((DOMAIN c.interfaces) \X {"network"}) \union (Virtual(c) \X {"netdev"})
            content(f) == IF f[2] = "network" THEN NetworkFile(c, f[1]) ELSE NetdevFile(c, f[1])
<1>1. c.interfaces \in Table(Name, Entry) /\ DOMAIN c.interfaces \in SUBSET Name
  BY ConfigFields, Tables
<1>2. ASSUME NEW n \in DOMAIN c.interfaces
      PROVE  NetworkFile(c, n) \in File /\ NetdevFile(c, n) \in File
  <2>1. c.interfaces[n] \in Entry
    BY <1>1, Tables
  <2>2. RoutesOf(c, n) \in SUBSET Route
    <3>1. c.routes \in SUBSET Route
      BY ConfigFields
    <3>. QED
      BY <3>1, Zenon DEF RoutesOf
  <2>3. Enslaved(c.interfaces, n) \in Name \union {None}
    BY <1>1 DEF Enslaved
  <2>4. NetdevFile(c, n) \in File
    BY <2>1 DEF NetdevFile, File, Entry
  <2>5. NetworkFile(c, n) \in File
    BY <2>1, <2>2, <2>3 DEF NetworkFile, File, Entry
  <2>. QED
    BY <2>4, <2>5
<1>3. ids \in SUBSET FileId /\ \A f \in ids : f[1] \in DOMAIN c.interfaces
  BY <1>1 DEF FileId, Virtual
<1>4. \A f \in ids : content(f) \in File
  BY <1>2, <1>3
<1>5. Build(c) = [f \in ids |-> content(f)]
  BY DEF Build
<1>. HIDE DEF ids, content
<1>. QED
  BY <1>3, <1>4, <1>5 DEF Table

-----------------------------------------------------------------------------
(* Types, over sets. *)

\* What is left of an apply's files are some of them.
FrameAt(step, h) ==
    /\ step \in {"stage", "put"} => h.left \subseteq DOMAIN h.files
    /\ step = "put" => h.file \in DOMAIN h.files

NetTyped ==
    /\ netPhase \in {"down", "loaded", "up"}
    /\ net \in Config
    /\ netDesired \in Config \union {None} /\ netCurrent \in Config \union {None}
    /\ netFile \in NetRecord \union {None}
    /\ shared \union sharedPeers \subseteq DOMAIN net.interfaces
    /\ pc \in [Thread -> Steps] /\ held \in [Thread -> Frame \union {None}]
    /\ \A t \in Thread : IF pc[t] = "idle" THEN held[t] = None
                         ELSE held[t] \in Frame /\ FrameAt(pc[t], held[t])
    /\ netPhase # "up" => shared = {} /\ sharedPeers = {} /\ \A t \in Thread : pc[t] = "idle"
    /\ etc \in Table(FileId, File) /\ running \in Table(FileId, File)
    /\ staging \in Table(FileId, File) /\ stranded \subseteq FileId
    /\ misrecorded \in BOOLEAN
    /\ netOps \in 0..MaxOps

LEMMA TypedIsTypeOK == NetTyped => NetTypeOK
<1>. SUFFICES ASSUME NetTyped PROVE NetTypeOK
  OBVIOUS
<1>. USE DEF NetTyped
<1>1. \A c \in {net, netDesired, netCurrent} : c # None => IsConfig(c)
  BY ConfigIs
<1>2. net # None
  BY Values
<1>3. netFile # None =>
        /\ netFile \in [desired : {netFile.desired}, current : {netFile.current}]
        /\ \A c \in {netFile.desired, netFile.current} : c # None => IsConfig(c)
  BY ConfigIs DEF NetRecord
<1>4. \A t \in Thread : IF pc[t] = "idle" THEN held[t] = None ELSE IsFrame(held[t])
  BY FrameIs
<1>5. \A files \in {staging, etc, running} : IsTable(files, FileId, File)
  BY TableIs
<1>. QED
  BY <1>1, <1>2, <1>3, <1>4, <1>5 DEF NetTypeOK

-----------------------------------------------------------------------------
(* Every edit makes a configuration of a configuration. *)

\* An edit, by what it leaves: entries that are shared are still there.
Edits ==
    \E live \in Config, cur \in Config \union {None} : \E fresh, noPeers :
        /\ Edit(live, cur, fresh, noPeers)
        /\ (shared \ fresh) \union (sharedPeers \ noPeers) \subseteq DOMAIN live.interfaces

LEMMA EditIs ==
    ASSUME NetTyped, NEW live \in Config, DOMAIN Ifs \subseteq DOMAIN live.interfaces,
           NEW fresh, NEW noPeers, Edit(live, netCurrent, fresh, noPeers)
    PROVE  Edits
<1>1. (shared \ fresh) \union (sharedPeers \ noPeers) \subseteq DOMAIN live.interfaces
  BY DEF NetTyped, Ifs
<1>. QED
  BY <1>1 DEF Edits, NetTyped

LEMMA IfsIs ==
    ASSUME NetTyped
    PROVE  /\ Ifs \in Table(Name, Entry) /\ DOMAIN Ifs \in SUBSET Name
           /\ \A n \in DOMAIN Ifs : Ifs[n] \in Entry
           /\ shared \union sharedPeers \subseteq DOMAIN Ifs
           /\ net.aliases \in Table(Name, Name) /\ net.routes \in SUBSET Route
<1>1. net \in Config /\ shared \union sharedPeers \subseteq DOMAIN net.interfaces
  BY DEF NetTyped
<1>2. /\ Ifs \in Table(Name, Entry) /\ net.aliases \in Table(Name, Name)
      /\ net.routes \in SUBSET Route /\ shared \union sharedPeers \subseteq DOMAIN Ifs
  BY <1>1, ConfigFields DEF Ifs
<1>. QED
  BY <1>2, Tables

LEMMA MirrorIs ==
    ASSUME NetTyped, NEW ifs \in Table(Name, Entry), DOMAIN Ifs \subseteq DOMAIN ifs
    PROVE  Mirror(ifs) \in Config \union {None}
<1>1. CASE netCurrent = None
  BY <1>1 DEF Mirror
<1>2. CASE netCurrent # None
  <2>. DEFINE old == netCurrent.interfaces
              seen(n) == IF n \in shared THEN ifs[n]
                         ELSE IF n \in sharedPeers THEN [old[n] EXCEPT !.peers = ifs[n].peers]
                         ELSE old[n]
              new == [n \in DOMAIN old |-> seen(n)]
  <2>1. netCurrent \in Config /\ old \in Table(Name, Entry)
    BY <1>2, ConfigFields DEF NetTyped
  <2>2. ASSUME NEW n \in DOMAIN old PROVE seen(n) \in Entry
    <3>1. old[n] \in Entry
      BY <2>1, Tables
    <3>2. n \in shared \union sharedPeers => ifs[n] \in Entry
      BY IfsIs, Tables
    <3>. QED
      BY <3>1, <3>2, EntryFields
  <2>3. new \in Table(Name, Entry)
    <3>1. DOMAIN old \in SUBSET Name
      BY <2>1, Tables
    <3>. HIDE DEF old, seen
    <3>. QED
      BY <2>2, <3>1 DEF Table
  <2>4. Mirror(ifs) = [netCurrent EXCEPT !.interfaces = new]
    BY <1>2 DEF Mirror
  <2>. HIDE DEF new
  <2>. QED
    BY <2>1, <2>3, <2>4, ConfigFields
<1>. QED
  BY <1>1, <1>2

LEMMA InterfaceEdits == NetTyped /\ EditInterface => Edits
<1>. SUFFICES ASSUME NetTyped, EditInterface PROVE Edits
  OBVIOUS
<1>1. ASSUME NEW n \in Name, NEW u \in Update, SetInterface(n, u) PROVE Edits
  <2>. DEFINE e == EntryOf(Ifs, n)
              new == [kind |-> IF "link" \in DOMAIN u THEN u.link.kind ELSE e.kind,
                      master |-> IF "link" \in DOMAIN u THEN u.link.master ELSE e.master,
                      net |-> IF "net" \in DOMAIN u THEN u.net ELSE e.net,
                      peers |-> IF "peers" \in DOMAIN u THEN u.peers ELSE e.peers]
              live == [net EXCEPT !.interfaces = n :> new @@ Ifs,
                                  !.aliases = WithDefaults(@, {n})]
  <2>1. e \in Entry
    BY IfsIs, Entries
  <2>2. new \in Entry
    <3>1. IsUpdate(u)
      BY NetworkingAssumption
    <3>. HIDE DEF e
    <3>. QED
      BY <2>1, <3>1 DEF IsUpdate, Entry
  <2>. HIDE DEF new
  <2>3. n :> new @@ Ifs \in Table(Name, Entry) /\ WithDefaults(net.aliases, {n}) \in Table(Name, Name)
    BY <2>2, IfsIs, Tables, DefaultsAre
  <2>4. live \in Config /\ live.interfaces = n :> new @@ Ifs
    BY <2>3, ConfigFields DEF NetTyped, Config
  <2>5. DOMAIN Ifs \subseteq DOMAIN live.interfaces
    BY <2>4 DEF @@
  <2>6. \E fresh, noPeers : Edit(live, netCurrent, fresh, noPeers)
    BY <1>1 DEF SetInterface, new
  <2>. HIDE DEF live
  <2>. QED
    BY <2>4, <2>5, <2>6, EditIs
<1>2. ASSUME NEW n \in Name, DeleteInterface(n) PROVE Edits
  <2>. DEFINE live == [net EXCEPT !.interfaces = Without(Ifs, {n})]
  <2>1. live \in Config /\ live.interfaces = Without(Ifs, {n})
    BY IfsIs, Tables, ConfigFields DEF NetTyped, Config
  <2>2. DOMAIN live.interfaces = DOMAIN Ifs \ {n}
    BY <2>1 DEF Without, Restrict
  <2>3. Edit(live, netCurrent, {n}, {n})
    BY <1>2 DEF DeleteInterface, Ifs
  <2>. HIDE DEF live
  <2>. QED
    BY <2>1, <2>2, <2>3, IfsIs DEF Edits, NetTyped
<1>3. ASSUME NEW s \in System, NEW names \in SUBSET Name, NEW o \in BOOLEAN,
             ImportInterfaces(s, names, o)
      PROVE  Edits
  <2>. DEFINE imported == {n \in names \intersect DOMAIN s.interfaces :
                              o \/ n \notin DOMAIN Ifs}
              ifs == Restrict(s.interfaces, imported) @@ Ifs
              live == [net EXCEPT !.interfaces = ifs, !.aliases = WithDefaults(@, imported)]
  <2>1. imported \in SUBSET DOMAIN s.interfaces /\ imported \in SUBSET Name
    OBVIOUS
  <2>2. Edit(live, netCurrent, imported, imported)
    BY <1>3 DEF ImportInterfaces
  <2>. HIDE DEF imported
  <2>3. ifs \in Table(Name, Entry) /\ WithDefaults(net.aliases, imported) \in Table(Name, Name)
    <3>1. Restrict(s.interfaces, imported) \in Table(Name, Entry)
      BY <2>1, NetworkingAssumption, Tables
    <3>. QED
      BY <2>1, <3>1, IfsIs, Tables, DefaultsAre
  <2>4. DOMAIN Ifs \subseteq DOMAIN ifs
    BY DEF @@
  <2>. HIDE DEF ifs
  <2>5. live \in Config /\ live.interfaces = ifs
    BY <2>3, ConfigFields DEF NetTyped, Config
  <2>. HIDE DEF live
  <2>. QED
    BY <2>2, <2>4, <2>5, EditIs
<1>. QED
  BY <1>1, <1>2, <1>3 DEF EditInterface

LEMMA RouteEdits == NetTyped /\ EditRoute => Edits
<1>. SUFFICES ASSUME NetTyped, EditRoute PROVE Edits
  OBVIOUS
<1>1. PICK routes \in SUBSET Route : Edit([net EXCEPT !.routes = routes], netCurrent, {}, {})
  <2>1. CASE \E r \in Route : AddRoute(r) \/ DeleteRoute(r)
    BY <2>1, IfsIs DEF AddRoute, DeleteRoute
  <2>2. CASE \E s \in System, o \in BOOLEAN : ImportRoutes(s, o)
    BY <2>2, IfsIs, NetworkingAssumption DEF ImportRoutes
  <2>. QED
    BY <2>1, <2>2 DEF EditRoute
<1>. DEFINE live == [net EXCEPT !.routes = routes]
<1>2. live \in Config /\ live.interfaces = net.interfaces
  BY ConfigFields DEF NetTyped, Config
<1>. HIDE DEF live
<1>3. Edit(live, netCurrent, {}, {})
  BY <1>1 DEF live
<1>. QED
  BY <1>2, <1>3, EditIs DEF Ifs

LEMMA EntriesEdit ==
    ASSUME NetTyped, NEW ifs \in Table(Name, Entry), NEW aliases \in Table(Name, Name),
           NEW fresh, NEW noPeers, DOMAIN Ifs \subseteq DOMAIN ifs,
           NEW live, live = [net EXCEPT !.interfaces = ifs, !.aliases = aliases],
           Edit(live, netCurrent, fresh, noPeers)
    PROVE  Edits
<1>1. live \in Config /\ live.interfaces = ifs
  BY ConfigFields DEF NetTyped, Config
<1>. QED
  BY <1>1, EditIs

\* Members' entries that are taken or released are entries of the table.
LEMMA MasterEdits ==
    ASSUME NetTyped, NEW name \in Name, NEW subnet \in Subnet \union {None},
           NEW members \in SUBSET Name, NEW kind \in Kind
    PROVE  /\ \A aliases \in Table(Name, Name) :
                 CreateMaster(name, kind, members, subnet, aliases) => Edits
           /\ UpdateMaster(name, kind, members, subnet) => Edits
<1>1. ASSUME NEW aliases \in Table(Name, Name),
             CreateMaster(name, kind, members, subnet, aliases)
      PROVE  Edits
  <2>. DEFINE with == name :> [Blank EXCEPT !.kind = kind, !.net = subnet] @@ Ifs
              ifs == Enslave(with, members, name)
              all == WithDefaults(aliases, {name} \union members)
              live == [net EXCEPT !.interfaces = ifs, !.aliases = all]
  <2>1. with \in Table(Name, Entry)
    <3>1. [Blank EXCEPT !.kind = kind, !.net = subnet] \in Entry
      BY IfsIs, Entries DEF Entry
    <3>. QED
      BY <3>1, IfsIs, Tables
  <2>2. DOMAIN with = {name} \union DOMAIN Ifs
    BY DEF :>, @@
  <2>3. Edit(live, netCurrent, {name} \union members, {name})
    BY <1>1 DEF CreateMaster
  <2>. HIDE DEF with
  <2>4. ifs \in Table(Name, Entry) /\ DOMAIN Ifs \subseteq DOMAIN ifs
    <3>1. /\ Enslave(with, members, name) \in Table(Name, Entry)
          /\ DOMAIN Enslave(with, members, name) = members \union DOMAIN with
      BY <2>1, EnslaveIs, Zenon
    <3>. QED
      BY <2>2, <3>1
  <2>5. all \in Table(Name, Name)
    BY DefaultsAre
  <2>. HIDE DEF ifs, all
  <2>. QED
    BY <2>3, <2>4, <2>5, EntriesEdit
<1>2. ASSUME UpdateMaster(name, kind, members, subnet) PROVE Edits
  <2>. DEFINE released == MembersOf(Ifs, name) \ members
              keep(n) == IF n = name THEN [Ifs[n] EXCEPT !.net = subnet]
                         ELSE IF n \in released THEN [Ifs[n] EXCEPT !.master = None]
                         ELSE Ifs[n]
              kept == [n \in DOMAIN Ifs |-> keep(n)]
              ifs == Enslave(kept, members, name)
              live == [net EXCEPT !.interfaces = ifs]
  <2>1. Edit(live, Mirror(kept), members, {})
    BY <1>2 DEF UpdateMaster
  <2>2. ASSUME NEW n \in DOMAIN Ifs PROVE keep(n) \in Entry
    <3>1. Ifs[n] \in Entry
      BY IfsIs
    <3>. QED
      BY <3>1, EntryFields
  <2>. HIDE DEF keep
  <2>3. kept \in Table(Name, Entry) /\ DOMAIN kept = DOMAIN Ifs
    BY <2>2, IfsIs DEF Table
  <2>. HIDE DEF kept
  <2>4. ifs \in Table(Name, Entry) /\ DOMAIN Ifs \subseteq DOMAIN ifs
    <3>1. /\ Enslave(kept, members, name) \in Table(Name, Entry)
          /\ DOMAIN Enslave(kept, members, name) = members \union DOMAIN kept
      BY <2>3, EnslaveIs, Zenon
    <3>. QED
      BY <2>3, <3>1
  <2>. HIDE DEF ifs
  <2>5. live \in Config /\ live.interfaces = ifs
    BY <2>4, ConfigFields DEF NetTyped, Config
  <2>6. Mirror(kept) \in Config \union {None}
    BY <2>3, MirrorIs
  <2>. HIDE DEF live
  <2>7. (shared \ members) \union (sharedPeers \ {}) \subseteq DOMAIN live.interfaces
    BY <2>4, <2>5, IfsIs
  <2>. QED
    BY <2>1, <2>5, <2>6, <2>7 DEF Edits
<1>. QED
  BY <1>1, <1>2

LEMMA MastersEdit == NetTyped /\ EditMaster => Edits
<1>. SUFFICES ASSUME NetTyped, NEW n \in Name, NEW subnet \in Subnet \union {None},
                     NEW members \in SUBSET (Name \ {n}),
                     \/ CreateBond(n, members, subnet) \/ CreateBridge(n, members, subnet)
                     \/ UpdateBond(n, members, subnet) \/ UpdateBridge(n, members, subnet)
              PROVE  Edits
  BY DEF EditMaster
<1>1. members \in SUBSET Name /\ "bond" \in Kind /\ "bridge" \in Kind
  BY DEF Kind
<1>2. CASE CreateBond(n, members, subnet)
  <2>. DEFINE old == WithDefaults(net.aliases, {n})
              renamed == [a \in DOMAIN old |-> IF old[a] \in members THEN n ELSE old[a]]
  <2>1. CreateMaster(n, "bond", members, subnet, renamed)
    BY <1>2 DEF CreateBond
  <2>2. old \in Table(Name, Name)
    BY IfsIs, DefaultsAre
  <2>. HIDE DEF old
  <2>3. DOMAIN old \in SUBSET Name /\ \A a \in DOMAIN old : old[a] \in Name
    BY <2>2, Tables
  <2>4. renamed \in Table(Name, Name)
    BY <2>3 DEF Table
  <2>. HIDE DEF renamed
  <2>. QED
    BY <1>1, <2>1, <2>4, MasterEdits
<1>3. CASE CreateBridge(n, members, subnet)
  BY <1>1, <1>3, IfsIs, MasterEdits DEF CreateBridge
<1>4. CASE UpdateBond(n, members, subnet) \/ UpdateBridge(n, members, subnet)
  BY <1>1, <1>4, MasterEdits DEF UpdateBond, UpdateBridge
<1>. QED
  BY <1>2, <1>3, <1>4

LEMMA EntriesGo ==
    ASSUME NetTyped, NEW gone,
           Edit([net EXCEPT !.interfaces = Without(Ifs, gone)], netCurrent, gone, gone)
    PROVE  Edits
<1>. DEFINE live == [net EXCEPT !.interfaces = Without(Ifs, gone)]
<1>1. live \in Config /\ live.interfaces = Without(Ifs, gone)
  BY IfsIs, Tables, ConfigFields DEF NetTyped, Config
<1>2. DOMAIN live.interfaces = DOMAIN Ifs \ gone
  BY <1>1 DEF Without, Restrict
<1>. HIDE DEF live
<1>3. Edit(live, netCurrent, gone, gone)
  BY DEF live
<1>. QED
  BY <1>1, <1>2, <1>3, IfsIs DEF Edits, NetTyped

LEMMA MembersEdit == NetTyped /\ EditMember => Edits
<1>. SUFFICES ASSUME NetTyped, NEW n \in Name, NEW kind \in {"bond", "bridge"},
                     \/ DeleteMaster(n, kind)
                     \/ \E m \in Name \ {n} : AddMember(n, kind, m) \/ DeleteMember(n, kind, m)
              PROVE  Edits
  BY DEF EditMember, DeleteBond, DeleteBridge, AddBondMember, AddBridgeMember,
         DeleteBondMember, DeleteBridgeMember
<1>1. CASE DeleteMaster(n, kind)
  BY <1>1, EntriesGo DEF DeleteMaster, Ifs
<1>2. ASSUME NEW m \in Name, AddMember(n, kind, m) PROVE Edits
  <2>. DEFINE ifs == Enslave(Ifs, {m}, n)
              all == WithDefaults(net.aliases, {m})
              live == [net EXCEPT !.interfaces = ifs, !.aliases = all]
  <2>1. ifs \in Table(Name, Entry) /\ DOMAIN Ifs \subseteq DOMAIN ifs
    <3>1. /\ Enslave(Ifs, {m}, n) \in Table(Name, Entry)
          /\ DOMAIN Enslave(Ifs, {m}, n) = {m} \union DOMAIN Ifs
      <4>1. {m} \in SUBSET Name
        OBVIOUS
      <4>. QED
        BY <4>1, IfsIs, EnslaveIs, Zenon
    <3>. QED
      BY <3>1
  <2>2. all \in Table(Name, Name)
    BY IfsIs, DefaultsAre
  <2>3. Edit(live, netCurrent, {m}, {})
    BY <1>2 DEF AddMember
  <2>. HIDE DEF ifs, all
  <2>. QED
    BY <2>1, <2>2, <2>3, EntriesEdit
<1>3. ASSUME NEW m \in Name, DeleteMember(n, kind, m) PROVE Edits
  <2>. DEFINE e == [Ifs[m] EXCEPT !.master = None]
              ifs == [Ifs EXCEPT ![m] = e]
              live == [net EXCEPT !.interfaces = ifs]
  <2>1. m \in DOMAIN Ifs /\ Edit(live, netCurrent, {m}, {})
    BY <1>3 DEF DeleteMember, MembersOf, Ifs
  <2>2. ifs \in Table(Name, Entry) /\ DOMAIN ifs = DOMAIN Ifs
    <3>1. Ifs[m] \in Entry
      BY <2>1, IfsIs
    <3>2. e \in Entry
      BY <3>1, EntryFields
    <3>. HIDE DEF e
    <3>. QED
      BY <3>2, IfsIs, Tables
  <2>. HIDE DEF ifs
  <2>3. live \in Config /\ live.interfaces = ifs
    BY <2>2, ConfigFields DEF NetTyped, Config
  <2>. HIDE DEF live
  <2>. QED
    BY <2>1, <2>2, <2>3, EditIs
<1>. QED
  BY <1>1, <1>2, <1>3

LEMMA PeersEdit == NetTyped /\ EditPeer => Edits
<1>. SUFFICES ASSUME NetTyped, EditPeer PROVE Edits
  OBVIOUS
<1>1. PICK n \in DOMAIN Ifs, peers \in SUBSET (Peer \X PeerData) : EditPeers(n, peers)
  <2>1. ASSUME NEW n \in Name, IsWireguard(n)
        PROVE  n \in DOMAIN Ifs /\ Peers(n) \in SUBSET (Peer \X PeerData)
    BY <2>1, IfsIs, EntryFields DEF IsWireguard, Peers
  <2>2. CASE \E n \in Name, k \in Peer, d \in PeerData : AddPeer(n, k, d)
    BY <2>1, <2>2 DEF AddPeer
  <2>3. CASE \E n \in Name, k \in Peer, d \in PeerData : UpdatePeer(n, k, d)
    BY <2>1, <2>3 DEF UpdatePeer
  <2>4. CASE \E n \in Name, k \in Peer : DeletePeer(n, k)
    BY <2>1, <2>4 DEF DeletePeer
  <2>. QED
    BY <2>2, <2>3, <2>4 DEF EditPeer
<1>. DEFINE ifs == [Ifs EXCEPT ![n] = [@ EXCEPT !.peers = peers]]
            live == [net EXCEPT !.interfaces = ifs]
<1>2. Edit(live, Mirror(ifs), {}, {})
  BY <1>1 DEF EditPeers
<1>3. ifs \in Table(Name, Entry) /\ DOMAIN ifs = DOMAIN Ifs
  BY IfsIs, EntryFields, Tables
<1>. HIDE DEF ifs
<1>4. live \in Config /\ live.interfaces = ifs
  BY <1>3, ConfigFields DEF NetTyped, Config
<1>5. Mirror(ifs) \in Config \union {None}
  BY <1>3, MirrorIs
<1>. HIDE DEF live
<1>6. (shared \ {}) \union (sharedPeers \ {}) \subseteq DOMAIN live.interfaces
  BY <1>3, <1>4, IfsIs
<1>. QED
  BY <1>2, <1>4, <1>5, <1>6 DEF Edits

LEMMA AliasEdits == NetTyped /\ EditAlias => Edits
<1>. SUFFICES ASSUME NetTyped, EditAlias PROVE Edits
  OBVIOUS
<1>1. PICK aliases \in Table(Name, Name) : EditAliases(aliases)
  <2>1. ASSUME NEW a \in Name, NEW n \in Name, SetAlias(a, n)
        PROVE  \E aliases \in Table(Name, Name) : EditAliases(aliases)
    <3>1. a :> n @@ net.aliases \in Table(Name, Name)
      BY IfsIs, Tables
    <3>. QED
      BY <2>1, <3>1 DEF SetAlias
  <2>2. ASSUME NEW a \in Name, DeleteAlias(a)
        PROVE  \E aliases \in Table(Name, Name) : EditAliases(aliases)
    <3>1. Without(net.aliases, {a}) \in Table(Name, Name)
      BY IfsIs, Tables
    <3>. QED
      BY <2>2, <3>1 DEF DeleteAlias
  <2>. QED
    BY <2>1, <2>2 DEF EditAlias
<1>. DEFINE live == [net EXCEPT !.aliases = aliases]
<1>2. live \in Config
  BY ConfigFields DEF NetTyped
<1>3. Edit(live, live, Name, Name)
  BY <1>1 DEF EditAliases
<1>. HIDE DEF live
<1>4. (shared \ Name) \union (sharedPeers \ Name) \subseteq DOMAIN live.interfaces
  BY IfsIs
<1>. QED
  BY <1>2, <1>3, <1>4 DEF Edits

-----------------------------------------------------------------------------
(* What holds between an edit, an apply and a start. *)

RecordAsInstalled ==
    ~ misrecorded => /\ Core(netCurrent) \in {None, installed}
                     /\ netFile # None => Core(netFile.current) \in {None, installed}

\* What is desired is what is edited, and on disk with what is recorded, except
\* in a process that ignored the file and has had no edit since.
EditsAreSaved ==
    /\ netPhase = "down" => netDesired = None /\ netCurrent = None
    /\ netDesired # None => /\ Core(netDesired) = Core(net)
                            /\ netFile # None
                            /\ netFile.desired = netDesired /\ netFile.current = netCurrent

\* The next prune knows every file of ours, but those it can not find.
EtcIsStaged == DOMAIN etc \subseteq DOMAIN staging \union stranded

Unmanaged(table, h) == {f \in DOMAIN table : f[1] \notin DOMAIN h.desired.interfaces}

Holds(table, files, S) == \A f \in S : f \in DOMAIN table /\ table[f] = files[f]

\* What the frame h of an apply that was alone stands for at each step: what it
\* has pruned, what it has put, and what networkd has loaded of it.
Pruned(step, h) ==
    /\ step \in {"unlink", "remove"} => Unmanaged(etc, h) \subseteq stranded \union h.left
    /\ step \in {"stage", "put", "reload", "commit"} => Unmanaged(etc, h) \subseteq stranded
    /\ step = "commit" => Unmanaged(running, h) \subseteq stranded

InPlace(step, h) ==
    /\ step = "stage" => Holds(etc, h.files, (DOMAIN h.files) \ h.left)
    /\ step = "put" => /\ Holds(etc, h.files, (DOMAIN h.files) \ (h.left \union {h.file}))
                       /\ Holds(staging, h.files, {h.file})
    /\ step \in {"reload", "commit"} => Holds(etc, h.files, DOMAIN h.files)
    /\ step = "commit" => Holds(running, h.files, DOMAIN h.files)

AloneAt(step, h) ==
    /\ step \in {"build", "prune"} => h.desired = net
    /\ step # "build" /\ ~ Empty(h.desired)
          => h.files = Build(h.desired) /\ Pruned(step, h) /\ InPlace(step, h)

AloneInv ==
    \A t \in Thread :
        pc[t] # "idle" /\ held[t].alone =>
            /\ \A u \in Thread \ {t} : pc[u] = "idle"
            /\ AloneAt(pc[t], held[t])

NetInv == NetTyped /\ RecordAsInstalled /\ EditsAreSaved /\ EtcIsStaged /\ AloneInv

LEMMA NetInvInit == NetInit => NetInv
<1>. SUFFICES ASSUME NetInit PROVE NetInv
  OBVIOUS
<1>1. /\ netPhase = "down" /\ net = Nothing /\ netDesired = None /\ netCurrent = None
      /\ shared = {} /\ sharedPeers = {} /\ running = etc /\ stranded = {}
      /\ pc = [t \in Thread |-> "idle"] /\ held = [t \in Thread |-> None]
  BY DEF NetInit
<1>2. misrecorded \in BOOLEAN
  BY DEF NetInit
<1>3. netOps \in 0..MaxOps
  BY Values DEF NetInit
<1>4. /\ etc \in Table(FileId, File) /\ staging = etc
      /\ netFile \in NetRecord \union {None}
      /\ netFile # None => Core(netFile.current) = installed
  <2>1. CASE netFile = None /\ etc = << >> /\ staging = << >>
    <3>1. << >> \in [{} -> File]
      OBVIOUS
    <3>. QED
      BY <2>1, <3>1 DEF Table
  <2>2. ASSUME NEW c \in Earlier,
               netFile = [desired |-> c, current |-> c], installed = Core(c),
               etc = Build(c), staging = Build(c)
        PROVE  /\ etc \in Table(FileId, File) /\ staging = etc
               /\ netFile \in NetRecord \union {None}
               /\ netFile # None => Core(netFile.current) = installed
    <3>1. c \in Config
      BY NetworkingAssumption
    <3>. QED
      BY <2>2, <3>1, BuildIs DEF NetRecord
  <2>. QED
    BY <2>1, <2>2 DEF NetInit
<1>5. pc \in [Thread -> Steps] /\ held \in [Thread -> Frame \union {None}]
      /\ \A t \in Thread : pc[t] = "idle" /\ held[t] = None
  BY <1>1 DEF Steps
<1>6. NetTyped
  BY <1>1, <1>2, <1>3, <1>4, <1>5, Values DEF NetTyped
<1>7. Core(netCurrent) = None
  BY <1>1 DEF Core
<1>. QED
  BY <1>1, <1>4, <1>5, <1>6, <1>7
     DEF NetInv, RecordAsInstalled, EditsAreSaved, AloneInv, EtcIsStaged

LEMMA SaveKeepsInv ==
    ASSUME NetInv, NEW live \in Config, NEW cur \in Config \union {None}, Save(live, cur),
           netPhase = "up", netOps' \in 0..MaxOps,
           shared' \union sharedPeers' \subseteq DOMAIN live.interfaces
    PROVE  NetInv'
<1>. USE DEF NetInv, Save, netSystem
<1>0. /\ held' \in [Thread -> Frame \union {None}]
      /\ \A t \in Thread :
            IF pc[t] = "idle" THEN held'[t] = None
            ELSE /\ held'[t] \in Frame /\ FrameAt(pc[t], held'[t])
                 /\ held'[t] = held[t] \/ ~ held'[t].alone
                 /\ pc[t] \in {"build", "prune"} => ~ held'[t].alone
  <2>1. held' = [t \in Thread |-> IF pc[t] \in {"build", "prune"}
                                  THEN [held[t] EXCEPT !.alone = FALSE] ELSE held[t]]
    BY DEF Interfere
  <2>2. ASSUME NEW t \in Thread
        PROVE  IF pc[t] = "idle" THEN held'[t] = None
               ELSE /\ held'[t] \in Frame /\ FrameAt(pc[t], held'[t])
                    /\ held'[t] = held[t] \/ ~ held'[t].alone
                    /\ pc[t] \in {"build", "prune"} => ~ held'[t].alone
    <3>1. pc[t] # "idle" => held[t] \in Frame /\ FrameAt(pc[t], held[t])
      BY DEF NetTyped
    <3>2. CASE pc[t] \in {"build", "prune"}
      <4>1. held'[t] = [held[t] EXCEPT !.alone = FALSE]
        BY <2>1, <3>2
      <4>2. held'[t] \in Frame /\ ~ held'[t].alone
        BY <3>1, <3>2, <4>1 DEF Frame
      <4>. QED
        BY <3>2, <4>2 DEF FrameAt
    <3>3. CASE pc[t] \notin {"build", "prune"}
      BY <2>1, <3>1, <3>3 DEF NetTyped
    <3>. QED
      BY <3>2, <3>3
  <2>. QED
    BY <2>1, <2>2
<1>1. NetTyped'
  <2>1. [desired |-> live, current |-> cur] \in NetRecord
    BY DEF NetRecord
  <2>2. misrecorded' \in BOOLEAN
    BY DEF NetTyped
  <2>. QED
    BY <1>0, <2>1, <2>2 DEF NetTyped
<1>2. RecordAsInstalled'
  <2>1. ~ misrecorded' => ~ misrecorded /\ Core(cur) = Core(netCurrent)
    OBVIOUS
  <2>2. /\ netFile'.current = cur /\ Core(netCurrent') = Core(cur)
        /\ installed' = installed
    BY DEF Core
  <2>. QED
    BY <2>1, <2>2 DEF RecordAsInstalled
<1>3. EditsAreSaved'
  <2>1. [desired |-> live, current |-> cur] # None
    <3>1. [desired |-> live, current |-> cur] \in NetRecord
      BY DEF NetRecord
    <3>. QED
      BY <3>1, Values
  <2>. QED
    BY <2>1 DEF EditsAreSaved, Core
<1>4. EtcIsStaged'
  BY DEF EtcIsStaged
<1>5. AloneInv'
  <2>. SUFFICES ASSUME NEW t \in Thread, pc[t] # "idle", held'[t].alone
                PROVE  (\A u \in Thread \ {t} : pc[u] = "idle") /\ AloneAt(pc[t], held[t])'
    BY DEF AloneInv
  <2>1. held'[t] = held[t] /\ pc[t] \notin {"build", "prune"}
    BY <1>0
  <2>2. (\A u \in Thread \ {t} : pc[u] = "idle") /\ AloneAt(pc[t], held[t])
    BY <2>1 DEF AloneInv
  <2>. QED
    BY <2>1, <2>2 DEF AloneAt, Pruned, InPlace, Unmanaged, Holds, Empty
<1>. QED
  BY <1>1, <1>2, <1>3, <1>4, <1>5

LEMMA EditsKeepInv == NetInv /\ Edits => NetInv'
<1>. SUFFICES ASSUME NetInv, NEW live \in Config, NEW cur \in Config \union {None},
                     NEW fresh, NEW noPeers, Edit(live, cur, fresh, noPeers),
                     (shared \ fresh) \union (sharedPeers \ noPeers) \subseteq DOMAIN live.interfaces
              PROVE  NetInv'
  BY DEF Edits
<1>1. netOps' \in 0..MaxOps
  BY Values DEF Edit, Client, NetInv, NetTyped
<1>. QED
  BY <1>1, SaveKeepsInv DEF Edit, Client

LEMMA DiscardKeepsInv == NetInv /\ Discard => NetInv'
<1>. SUFFICES ASSUME NetInv, Discard PROVE NetInv'
  OBVIOUS
<1>1. netOps' \in 0..MaxOps
  BY Values DEF Discard, Client, NetInv, NetTyped
<1>2. netCurrent \in Config /\ Save(netCurrent, netCurrent) /\ netPhase = "up"
  BY DEF Discard, Client, NetInv, NetTyped
<1>3. shared' \union sharedPeers' \subseteq DOMAIN netCurrent.interfaces
  BY DEF Discard
<1>. QED
  BY <1>1, <1>2, <1>3, SaveKeepsInv

\* Files that are written are known, and the names they had stay so.
LEMMA WriteFilesIs ==
    ASSUME NetTyped, EtcIsStaged, NEW files \in Table(FileId, File),
           NEW done \in SUBSET DOMAIN files, WriteFiles(files, done)
    PROVE  /\ etc' \in Table(FileId, File) /\ staging' \in Table(FileId, File)
           /\ stranded' \subseteq FileId /\ EtcIsStaged'
<1>1. /\ done \in SUBSET DOMAIN files /\ etc' = Restrict(files, done) @@ etc
      /\ DOMAIN files \in SUBSET FileId
  BY Tables DEF WriteFiles
<1>2. etc' \in Table(FileId, File)
  <2>1. Restrict(files, done) \in Table(FileId, File)
    BY <1>1, Tables
  <2>. QED
    BY <1>1, <2>1, Tables DEF NetTyped
<1>3. DOMAIN etc' = done \union DOMAIN etc
  BY <1>1 DEF Restrict, @@
<1>4. PICK tried \in SUBSET ((DOMAIN files) \ done) :
         /\ staging' = Restrict(files, done \union tried) @@ staging
         /\ stranded' = stranded \ (done \union tried)
  BY DEF WriteFiles
<1>5. DOMAIN staging' = (done \union tried) \union DOMAIN staging
  BY <1>4 DEF Restrict, @@
<1>6. staging' \in Table(FileId, File)
  <2>1. done \union tried \in SUBSET DOMAIN files
    BY <1>1
  <2>2. Restrict(files, done \union tried) \in Table(FileId, File)
    BY <2>1, Tables
  <2>. QED
    BY <1>4, <2>2, Tables DEF NetTyped
<1>7. EtcIsStaged'
  BY <1>3, <1>4, <1>5 DEF EtcIsStaged
<1>. QED
  BY <1>2, <1>4, <1>6, <1>7 DEF NetTyped

\* A step of an apply's thread, by where it leaves the frame and the files.
LEMMA StepKeepsInv ==
    ASSUME NetInv, NEW t \in Thread, pc[t] # "idle", NEW step \in Steps, NEW h, Goto(t, step, h),
           \/ step = "idle" /\ h = None
           \/ step # "idle" /\ h \in Frame /\ FrameAt(step, h),
           etc' \in Table(FileId, File), staging' \in Table(FileId, File),
           running' \in Table(FileId, File), stranded' \subseteq FileId, EtcIsStaged',
           step # "idle" /\ h.alone => held[t].alone /\ AloneAt(step, h)',
           UNCHANGED <<netPhase, netMem, netFile, netHistory, netOps>>
    PROVE  NetInv'
<1>. USE DEF NetInv, netMem, netHistory
<1>1. /\ pc' \in [Thread -> Steps] /\ pc'[t] = step /\ \A u \in Thread \ {t} : pc'[u] = pc[u]
      /\ DOMAIN held' = Thread /\ held'[t] = h /\ \A u \in Thread \ {t} : held'[u] = held[u]
  BY DEF Goto, NetTyped
<1>2. held' \in [Thread -> Frame \union {None}]
  BY DEF Goto, NetTyped
<1>3. \A u \in Thread : IF pc'[u] = "idle" THEN held'[u] = None
                        ELSE held'[u] \in Frame /\ FrameAt(pc'[u], held'[u])
  BY <1>1 DEF NetTyped
<1>4. netPhase = "up"
  BY DEF NetTyped
<1>5. NetTyped'
  BY <1>1, <1>2, <1>3, <1>4 DEF NetTyped
<1>6. RecordAsInstalled' /\ EditsAreSaved'
  BY DEF RecordAsInstalled, EditsAreSaved, Core
<1>7. AloneInv'
  <2>. SUFFICES ASSUME NEW u \in Thread, pc'[u] # "idle", held'[u].alone
                PROVE  (\A v \in Thread \ {u} : pc'[v] = "idle") /\ AloneAt(pc[u], held[u])'
    BY DEF AloneInv
  <2>1. u = t
    <3>1. u # t => pc[u] # "idle" /\ held[u].alone
      BY <1>1
    <3>. QED
      BY <3>1 DEF AloneInv
  <2>2. held[t].alone /\ AloneAt(step, h)'
    BY <1>1, <2>1
  <2>3. \A v \in Thread \ {t} : pc'[v] = "idle"
    BY <1>1, <2>2 DEF AloneInv
  <2>4. AloneAt(pc[t], held[t])'
    BY <1>1, <2>2 DEF AloneAt, Pruned, InPlace
  <2>. QED
    BY <2>1, <2>3, <2>4
<1>. QED
  BY <1>5, <1>6, <1>7

\* What is known of an apply's frame before a step.
LEMMA FrameFacts ==
    ASSUME NetInv, NEW t \in Thread, pc[t] # "idle", NEW g, g = held[t]
    PROVE  /\ g \in Frame /\ FrameAt(pc[t], g) /\ g.files \in Table(FileId, File)
           /\ g.left \in SUBSET FileId /\ g.desired \in Config
           /\ g.alone => AloneAt(pc[t], g)
           /\ g.alone /\ pc[t] # "build" /\ ~ Empty(g.desired) =>
                 \A f \in DOMAIN g.files : f[1] \in DOMAIN g.desired.interfaces
<1>1. g \in Frame /\ FrameAt(pc[t], g)
  BY DEF NetInv, NetTyped
<1>2. g.files \in Table(FileId, File) /\ g.left \in SUBSET FileId /\ g.desired \in Config
  BY <1>1 DEF Frame
<1>3. g.alone => AloneAt(pc[t], g)
  BY DEF NetInv, AloneInv
<1>4. g.alone /\ pc[t] # "build" /\ ~ Empty(g.desired) => g.files = Build(g.desired)
  BY <1>3 DEF AloneAt
<1>. QED
  BY <1>1, <1>2, <1>3, <1>4, BuildIs

LEMMA StepTypes ==
    /\ {"idle", "build", "prune", "unlink", "remove", "stage", "put", "reload", "commit"} = Steps
    /\ NetInv => /\ etc \in Table(FileId, File) /\ staging \in Table(FileId, File)
                 /\ running \in Table(FileId, File) /\ stranded \subseteq FileId /\ EtcIsStaged
  BY DEF Steps, NetInv, NetTyped

LEMMA BeginKeepsInv ==
    ASSUME NetInv, NEW t \in Thread, BeginApply(t)
    PROVE  NetInv'
<1>. USE DEF NetInv, BeginApply, netMem, netSystem, netHistory
<1>. DEFINE g == [desired |-> net, files |-> << >>, left |-> {}, file |-> None,
                  alone |-> \A v \in Thread : pc[v] = "idle"]
<1>1. g \in Frame
  <2>1. << >> \in Table(FileId, File)
    <3>1. << >> \in [{} -> File]
      OBVIOUS
    <3>. QED
      BY <3>1 DEF Table
  <2>2. (\A v \in Thread : pc[v] = "idle") \in BOOLEAN
    OBVIOUS
  <2>. QED
    BY <2>1, <2>2 DEF Frame, NetTyped
<1>2. g.desired = net /\ (g.alone <=> \A v \in Thread : pc[v] = "idle")
  OBVIOUS
<1>3. held' = [u \in Thread |-> IF u = t THEN g ELSE IF pc[u] = "idle" THEN None
                                ELSE [held[u] EXCEPT !.alone = FALSE]]
  OBVIOUS
<1>. HIDE DEF g
<1>4. ASSUME NEW u \in Thread
      PROVE  /\ IF pc'[u] = "idle" THEN held'[u] = None
                ELSE held'[u] \in Frame /\ FrameAt(pc'[u], held'[u])
             /\ u # t /\ pc'[u] # "idle" => ~ held'[u].alone
  <2>1. CASE u = t
    BY <1>1, <1>3, <2>1 DEF FrameAt, NetTyped
  <2>2. CASE u # t /\ pc[u] = "idle"
    BY <1>3, <2>2 DEF NetTyped
  <2>3. CASE u # t /\ pc[u] # "idle"
    <3>1. held[u] \in Frame /\ FrameAt(pc[u], held[u]) /\ pc'[u] = pc[u]
      BY <2>3 DEF NetTyped
    <3>2. held'[u] = [held[u] EXCEPT !.alone = FALSE]
      BY <1>3, <2>3
    <3>3. held'[u] \in Frame /\ ~ held'[u].alone
      BY <3>1, <3>2 DEF Frame
    <3>. QED
      BY <2>3, <3>1, <3>2, <3>3 DEF FrameAt, Frame
  <2>. QED
    BY <2>1, <2>2, <2>3
<1>5. held' \in [Thread -> Frame \union {None}]
  BY <1>3, <1>4
<1>6. netOps' \in 0..MaxOps /\ netPhase = "up" /\ "build" \in Steps
  BY Values DEF Client, NetTyped, Steps
<1>7. NetTyped'
  BY <1>4, <1>5, <1>6 DEF NetTyped
<1>8. RecordAsInstalled' /\ EditsAreSaved' /\ EtcIsStaged'
  BY DEF RecordAsInstalled, EditsAreSaved, EtcIsStaged, Core
<1>9. AloneInv'
  <2>. SUFFICES ASSUME NEW u \in Thread, pc'[u] # "idle", held'[u].alone
                PROVE  (\A v \in Thread \ {u} : pc'[v] = "idle") /\ AloneAt(pc[u], held[u])'
    BY DEF AloneInv
  <2>1. u = t /\ held'[t] = g /\ pc'[t] = "build"
    BY <1>3, <1>4 DEF NetTyped
  <2>2. \A v \in Thread \ {t} : pc'[v] = "idle"
    BY <1>2, <2>1 DEF NetTyped
  <2>3. AloneAt(pc[t], held[t])'
    BY <1>2, <2>1 DEF AloneAt
  <2>. QED
    BY <2>1, <2>2, <2>3
<1>. QED
  BY <1>7, <1>8, <1>9

LEMMA BuildKeepsInv ==
    ASSUME NetInv, NEW t \in Thread, BuildFiles(t)
    PROVE  NetInv'
<1>. USE DEF BuildFiles, netSystem
<1>1. PICK g : g = held[t]
  OBVIOUS
<1>2. /\ g \in Frame /\ FrameAt(pc[t], g) /\ pc[t] = "build" /\ net \in Config
      /\ g.alone => AloneAt(pc[t], g)
  BY <1>1, FrameFacts DEF NetInv, NetTyped
<1>3. CASE Unroutable(net) /\ Return(t)
  BY <1>3, StepKeepsInv, StepTypes DEF Return, EtcIsStaged
<1>4. CASE Empty(net) /\ Goto(t, "commit", held[t])
  <2>1. Goto(t, "commit", g) /\ FrameAt("commit", g)
    BY <1>1, <1>4 DEF FrameAt
  <2>2. g.alone => held[t].alone /\ AloneAt("commit", g)'
    BY <1>1, <1>2, <1>4 DEF AloneAt, Empty
  <2>. QED
    BY <1>2, <2>1, <2>2, StepKeepsInv, StepTypes DEF EtcIsStaged
<1>5. CASE Goto(t, "prune", [held[t] EXCEPT !.files = Build(net)])
  <2>1. PICK h : h = [g EXCEPT !.files = Build(net)]
    OBVIOUS
  <2>2. h \in Frame /\ h.files = Build(net) /\ h.desired = g.desired /\ h.alone = g.alone
    BY <1>2, <2>1, BuildIs DEF Frame
  <2>3. Goto(t, "prune", h) /\ FrameAt("prune", h)
    BY <1>1, <1>5, <2>1 DEF FrameAt
  <2>4. h.alone => held[t].alone /\ AloneAt("prune", h)'
    <3>. SUFFICES ASSUME h.alone PROVE held[t].alone /\ AloneAt("prune", h)'
      OBVIOUS
    <3>1. g.desired = net
      BY <1>2, <2>2 DEF AloneAt
    <3>2. net' = net
      BY DEF netMem
    <3>. QED
      BY <1>1, <2>2, <3>1, <3>2 DEF AloneAt, Pruned, InPlace
  <2>. QED
    BY <1>2, <2>2, <2>3, <2>4, StepKeepsInv, StepTypes DEF EtcIsStaged
<1>. QED
  BY <1>3, <1>4, <1>5

\* The loop over the files to write, from where it begins or goes on.
LEMMA WritingIs ==
    ASSUME NetInv, NEW t \in Thread, pc[t] # "idle", NEW h \in Frame, Writing(t, h),
           h.left \subseteq DOMAIN h.files,
           etc' \in Table(FileId, File), staging' \in Table(FileId, File),
           running' \in Table(FileId, File), stranded' \subseteq FileId, EtcIsStaged',
           UNCHANGED <<netPhase, netMem, netFile, netHistory, netOps>>,
           h.alone /\ ~ Empty(h.desired) =>
               /\ h.files = Build(h.desired)
               /\ Unmanaged(etc', h) \subseteq stranded'
               /\ Holds(etc', h.files, (DOMAIN h.files) \ h.left),
           h.alone => held[t].alone
    PROVE  NetInv'
<1>1. PICK n : n = [h EXCEPT !.file = None]
  OBVIOUS
<1>2. n \in Frame /\ n.left = h.left /\ n.files = h.files /\ n.desired = h.desired
      /\ n.alone = h.alone
  BY <1>1 DEF Frame
<1>3. PICK step : step = IF h.left = {} THEN "reload" ELSE "stage"
  OBVIOUS
<1>4. Goto(t, step, n) /\ step \in Steps /\ step # "idle" /\ FrameAt(step, n)
  BY <1>1, <1>2, <1>3 DEF Writing, Steps, FrameAt
<1>5. n.alone => held[t].alone /\ AloneAt(step, n)'
  BY <1>2, <1>3 DEF AloneAt, Pruned, InPlace, Unmanaged, Holds, Empty
<1>. QED
  BY <1>2, <1>4, <1>5, StepKeepsInv

LEMMA PruningIs ==
    ASSUME NetInv, NEW t \in Thread, pc[t] # "idle", NEW h \in Frame, Pruning(t, h),
           etc' \in Table(FileId, File), staging' \in Table(FileId, File),
           running' \in Table(FileId, File), stranded' \subseteq FileId, EtcIsStaged',
           UNCHANGED <<netPhase, netMem, netFile, netHistory, netOps>>,
           h.alone /\ ~ Empty(h.desired) =>
               /\ h.files = Build(h.desired)
               /\ Unmanaged(etc', h) \subseteq stranded' \union h.left,
           h.alone => held[t].alone
    PROVE  NetInv'
<1>1. CASE h.left = {}
  <2>1. PICK n : n = [h EXCEPT !.left = DOMAIN h.files]
    OBVIOUS
  <2>2. h.files \in Table(FileId, File)
    BY DEF Frame
  <2>3. DOMAIN h.files \in SUBSET FileId
    BY <2>2, Tables
  <2>4. n \in Frame /\ n.left = DOMAIN h.files /\ n.files = h.files /\ n.desired = h.desired
        /\ n.alone = h.alone
    BY <2>1, <2>3 DEF Frame
  <2>5. Writing(t, n)
    BY <1>1, <2>1 DEF Pruning
  <2>6. n.alone /\ ~ Empty(n.desired) =>
            /\ n.files = Build(n.desired)
            /\ Unmanaged(etc', n) \subseteq stranded'
            /\ Holds(etc', n.files, (DOMAIN n.files) \ n.left)
    BY <1>1, <2>4 DEF Unmanaged, Holds
  <2>. QED
    BY <2>4, <2>5, <2>6, WritingIs
<1>2. CASE h.left # {}
  <2>1. PICK n : n = [h EXCEPT !.file = None]
    OBVIOUS
  <2>2. n \in Frame /\ n.left = h.left /\ n.files = h.files /\ n.desired = h.desired
        /\ n.alone = h.alone
    BY <2>1 DEF Frame
  <2>3. Goto(t, "unlink", n) /\ FrameAt("unlink", n)
    BY <1>2, <2>1 DEF Pruning, FrameAt
  <2>4. n.alone => held[t].alone /\ AloneAt("unlink", n)'
    BY <2>2 DEF AloneAt, Pruned, InPlace, Unmanaged, Empty
  <2>. QED
    BY <2>2, <2>3, <2>4, StepKeepsInv, StepTypes
<1>. QED
  BY <1>1, <1>2

LEMMA PruneKeepsInv ==
    ASSUME NetInv, NEW t \in Thread, BeginPrune(t) \/ Unlink(t) \/ Remove(t)
    PROVE  NetInv'
<1>. USE DEF netSystem
<1>1. PICK g : g = held[t]
  OBVIOUS
<1>2. pc[t] # "idle"
  BY DEF BeginPrune, Unlink, Remove
<1>3. /\ g \in Frame /\ FrameAt(pc[t], g) /\ g.left \in SUBSET FileId
      /\ g.alone => AloneAt(pc[t], g)
  BY <1>1, <1>2, FrameFacts
<1>4. CASE BeginPrune(t)
  <2>. DEFINE doomed == {f \in DOMAIN staging : f[1] \notin DOMAIN Ifs}
  <2>1. PICK h : h = [g EXCEPT !.left = doomed]
    OBVIOUS
  <2>2. doomed \in SUBSET FileId
    BY StepTypes, Tables
  <2>3. Pruning(t, [g EXCEPT !.left = doomed])
    BY <1>1, <1>4 DEF BeginPrune
  <2>4. h.alone /\ ~ Empty(h.desired) => Unmanaged(etc, h) \subseteq stranded \union doomed
    BY <1>3, <1>4, <2>1, StepTypes DEF BeginPrune, AloneAt, Unmanaged, EtcIsStaged, Ifs, Frame
  <2>. HIDE DEF doomed
  <2>5. h \in Frame /\ h.left = doomed /\ h.files = g.files /\ h.desired = g.desired
        /\ h.alone = g.alone
    BY <1>3, <2>1, <2>2 DEF Frame
  <2>6. h.alone /\ ~ Empty(h.desired) => h.files = Build(h.desired)
    BY <1>3, <1>4, <2>5 DEF BeginPrune, AloneAt
  <2>7. /\ UNCHANGED <<etc, staging, running, stranded>>
        /\ UNCHANGED <<netPhase, netMem, netFile, netHistory, netOps>>
    BY <1>4 DEF BeginPrune
  <2>8. /\ etc' \in Table(FileId, File) /\ staging' \in Table(FileId, File)
        /\ running' \in Table(FileId, File) /\ stranded' \subseteq FileId /\ EtcIsStaged'
    BY <2>7, StepTypes DEF EtcIsStaged
  <2>9. h.alone /\ ~ Empty(h.desired) =>
            /\ h.files = Build(h.desired)
            /\ Unmanaged(etc', h) \subseteq stranded' \union h.left
    BY <2>4, <2>5, <2>6, <2>7 DEF Unmanaged
  <2>10. Pruning(t, h) /\ (h.alone => held[t].alone)
    BY <1>1, <2>1, <2>3, <2>5
  <2>. QED
    BY <1>2, <2>5, <2>7, <2>8, <2>9, <2>10, PruningIs
<1>5. CASE Unlink(t)
  <2>1. PICK f \in g.left :
           /\ staging' = Without(staging, {f})
           /\ stranded' = stranded \union ({f} \intersect DOMAIN etc)
           /\ Goto(t, "remove", [g EXCEPT !.left = @ \ {f}, !.file = f])
    BY <1>1, <1>5 DEF Unlink
  <2>2. PICK h : h = [g EXCEPT !.left = @ \ {f}, !.file = f]
    OBVIOUS
  <2>3. h \in Frame /\ h.left = g.left \ {f} /\ h.files = g.files /\ h.desired = g.desired
        /\ h.alone = g.alone
    BY <1>3, <2>2 DEF Frame
  <2>4. UNCHANGED <<netPhase, netMem, netFile, etc, running, netHistory, netOps>>
    BY <1>5 DEF Unlink
  <2>5. staging' \in Table(FileId, File) /\ DOMAIN staging' = (DOMAIN staging) \ {f}
    BY <2>1, StepTypes, Tables DEF Without, Restrict
  <2>6. /\ etc' \in Table(FileId, File) /\ running' \in Table(FileId, File)
        /\ stranded' \subseteq FileId /\ EtcIsStaged'
    BY <1>3, <2>1, <2>4, <2>5, StepTypes DEF EtcIsStaged
  <2>7. h.alone => held[t].alone /\ AloneAt("remove", h)'
    <3>1. g.alone /\ ~ Empty(g.desired) =>
              g.files = Build(g.desired) /\ Unmanaged(etc, g) \subseteq stranded \union g.left
      BY <1>3, <1>5 DEF Unlink, AloneAt, Pruned
    <3>2. h.alone /\ ~ Empty(h.desired) =>
              h.files = Build(h.desired) /\ Unmanaged(etc', h) \subseteq stranded' \union h.left
      BY <2>1, <2>3, <2>4, <3>1 DEF Unmanaged
    <3>. QED
      BY <1>1, <2>3, <3>2 DEF AloneAt, Pruned, InPlace, Unmanaged, Empty
  <2>8. Goto(t, "remove", h) /\ FrameAt("remove", h)
    BY <2>1, <2>2 DEF FrameAt
  <2>. QED
    BY <1>2, <2>3, <2>4, <2>5, <2>6, <2>7, <2>8, StepKeepsInv, StepTypes
<1>6. CASE Remove(t)
  <2>1. \/ etc' = Without(etc, {g.file}) /\ stranded' = stranded \ {g.file}
        \/ UNCHANGED <<etc, stranded>>
    BY <1>1, <1>6 DEF Remove
  <2>2. /\ Pruning(t, g)
        /\ UNCHANGED <<netPhase, netMem, netFile, staging, running, netHistory, netOps>>
    BY <1>1, <1>6 DEF Remove
  <2>3. /\ etc' \in Table(FileId, File)
        /\ \/ DOMAIN etc' = (DOMAIN etc) \ {g.file} /\ stranded' = stranded \ {g.file}
           \/ DOMAIN etc' = DOMAIN etc /\ stranded' = stranded
    BY <2>1, StepTypes, Tables DEF Without, Restrict
  <2>4. /\ staging' \in Table(FileId, File) /\ running' \in Table(FileId, File)
        /\ stranded' \subseteq FileId /\ EtcIsStaged'
    BY <2>2, <2>3, StepTypes DEF EtcIsStaged
  <2>5. g.alone /\ ~ Empty(g.desired) =>
            g.files = Build(g.desired) /\ Unmanaged(etc, g) \subseteq stranded \union g.left
    BY <1>3, <1>6 DEF Remove, AloneAt, Pruned
  <2>6. g.alone /\ ~ Empty(g.desired) =>
            g.files = Build(g.desired) /\ Unmanaged(etc', g) \subseteq stranded' \union g.left
    BY <2>3, <2>5 DEF Unmanaged
  <2>. QED
    BY <1>1, <1>2, <1>3, <2>2, <2>3, <2>4, <2>6, PruningIs
<1>. QED
  BY <1>4, <1>5, <1>6

LEMMA WriteKeepsInv ==
    ASSUME NetInv, NEW t \in Thread, Stage(t) \/ Put(t)
    PROVE  NetInv'
<1>1. PICK g : g = held[t]
  OBVIOUS
<1>2. pc[t] # "idle"
  BY DEF Stage, Put
<1>3. /\ g \in Frame /\ FrameAt(pc[t], g) /\ g.files \in Table(FileId, File)
      /\ g.alone => AloneAt(pc[t], g)
      /\ g.alone /\ pc[t] # "build" /\ ~ Empty(g.desired) =>
            \A f \in DOMAIN g.files : f[1] \in DOMAIN g.desired.interfaces
  BY <1>1, <1>2, FrameFacts
<1>4. DOMAIN g.files \in SUBSET FileId /\ \A f \in DOMAIN g.files : g.files[f] \in File
  BY <1>3, Tables
<1>5. CASE Stage(t)
  <2>1. PICK f \in g.left :
           /\ staging' = f :> g.files[f] @@ staging
           /\ stranded' = stranded \ {f}
           /\ Goto(t, "put", [g EXCEPT !.left = @ \ {f}, !.file = f])
    BY <1>1, <1>5 DEF Stage
  <2>2. f \in DOMAIN g.files /\ g.left \subseteq DOMAIN g.files
    BY <1>3, <1>5 DEF Stage, FrameAt
  <2>3. PICK h : h = [g EXCEPT !.left = @ \ {f}, !.file = f]
    OBVIOUS
  <2>4. h \in Frame /\ h.left = g.left \ {f} /\ h.file = f /\ h.files = g.files
        /\ h.desired = g.desired /\ h.alone = g.alone
    BY <1>3, <1>4, <2>2, <2>3 DEF Frame
  <2>5. UNCHANGED <<netPhase, netMem, netFile, etc, running, netHistory, netOps>>
    BY <1>5 DEF Stage
  <2>6. /\ staging' \in Table(FileId, File) /\ DOMAIN staging' = {f} \union DOMAIN staging
        /\ staging'[f] = g.files[f]
    <3>1. staging' \in Table(FileId, File)
      BY <1>4, <2>1, <2>2, StepTypes, Tables
    <3>. QED
      BY <2>1, <3>1 DEF :>, @@
  <2>7. /\ etc' \in Table(FileId, File) /\ running' \in Table(FileId, File)
        /\ stranded' \subseteq FileId /\ EtcIsStaged'
    BY <2>1, <2>5, <2>6, StepTypes DEF EtcIsStaged
  <2>8. h.alone => held[t].alone /\ AloneAt("put", h)'
    <3>1. g.alone /\ ~ Empty(g.desired) =>
              /\ g.files = Build(g.desired) /\ Unmanaged(etc, g) \subseteq stranded
              /\ Holds(etc, g.files, (DOMAIN g.files) \ g.left)
      BY <1>3, <1>5 DEF Stage, AloneAt, Pruned, InPlace
    <3>2. g.alone /\ ~ Empty(g.desired) => f[1] \in DOMAIN g.desired.interfaces
      BY <1>3, <1>5, <2>2 DEF Stage
    <3>3. h.alone /\ ~ Empty(h.desired) =>
              /\ h.files = Build(h.desired) /\ Unmanaged(etc', h) \subseteq stranded'
              /\ Holds(etc', h.files, (DOMAIN h.files) \ (h.left \union {h.file}))
              /\ Holds(staging', h.files, {h.file})
      BY <2>1, <2>4, <2>5, <2>6, <3>1, <3>2 DEF Unmanaged, Holds
    <3>. QED
      BY <1>1, <2>4, <3>3 DEF AloneAt, Pruned, InPlace, Unmanaged, Holds, Empty
  <2>9. Goto(t, "put", h) /\ FrameAt("put", h)
    BY <2>1, <2>2, <2>3, <2>4 DEF FrameAt
  <2>. QED
    BY <1>2, <2>4, <2>5, <2>6, <2>7, <2>8, <2>9, StepKeepsInv, StepTypes
<1>6. CASE Put(t)
  <2>1. UNCHANGED <<netPhase, netMem, netFile, staging, running, netHistory, netOps>>
    BY <1>6 DEF Put
  <2>2. g.file \in DOMAIN g.files /\ g.left \subseteq DOMAIN g.files
    BY <1>3, <1>6 DEF Put, FrameAt
  <2>3. CASE UNCHANGED <<etc, stranded>> /\ Return(t)
    BY <1>2, <2>1, <2>3, StepKeepsInv, StepTypes DEF Return, EtcIsStaged
  <2>4. ASSUME NEW content \in ReadBack(t), etc' = g.file :> content @@ etc,
               stranded' = stranded \union ({g.file} \ DOMAIN staging), Writing(t, g)
        PROVE  NetInv'
    <3>1. content \in File /\ (content = g.files[g.file] \/ content = staging[g.file])
      BY <1>1, <1>4, <2>2, StepTypes, Tables DEF ReadBack
    <3>2. etc' \in Table(FileId, File)
      BY <1>4, <2>2, <2>4, <3>1, StepTypes, Tables
    <3>3. /\ DOMAIN etc' = {g.file} \union DOMAIN etc /\ etc'[g.file] = content
          /\ \A f \in (DOMAIN etc) \ {g.file} : etc'[f] = etc[f]
      BY <2>4 DEF :>, @@
    <3>4. /\ staging' \in Table(FileId, File) /\ running' \in Table(FileId, File)
          /\ stranded' \subseteq FileId /\ EtcIsStaged'
      BY <1>4, <2>1, <2>2, <2>4, <3>3, StepTypes DEF EtcIsStaged
    <3>5. g.alone /\ ~ Empty(g.desired) =>
              /\ g.files = Build(g.desired) /\ Unmanaged(etc, g) \subseteq stranded
              /\ Holds(etc, g.files, (DOMAIN g.files) \ (g.left \union {g.file}))
              /\ Holds(staging, g.files, {g.file})
              /\ g.file[1] \in DOMAIN g.desired.interfaces
      BY <1>3, <1>6, <2>2 DEF Put, AloneAt, Pruned, InPlace
    <3>6. g.alone /\ ~ Empty(g.desired) =>
              /\ g.files = Build(g.desired)
              /\ Unmanaged(etc', g) \subseteq stranded'
              /\ Holds(etc', g.files, (DOMAIN g.files) \ g.left)
      BY <2>4, <3>1, <3>3, <3>5 DEF Unmanaged, Holds
    <3>. QED
      BY <1>1, <1>2, <1>3, <2>1, <2>2, <2>4, <3>2, <3>4, <3>6, WritingIs
  <2>. QED
    BY <1>1, <1>6, <2>3, <2>4 DEF Put
<1>. QED
  BY <1>5, <1>6

LEMMA ReloadKeepsInv ==
    ASSUME NetInv, NEW t \in Thread, Reload(t)
    PROVE  NetInv'
<1>1. PICK g : g = held[t]
  OBVIOUS
<1>2. pc[t] = "reload"
  BY DEF Reload
<1>3. g \in Frame /\ (g.alone => AloneAt("reload", g))
  BY <1>1, <1>2, FrameFacts
<1>4. UNCHANGED <<netPhase, netMem, netFile, staging, etc, stranded, netHistory, netOps>>
  BY DEF Reload
<1>5. /\ etc' \in Table(FileId, File) /\ staging' \in Table(FileId, File)
      /\ running' \in Table(FileId, File) /\ stranded' \subseteq FileId /\ EtcIsStaged'
  BY <1>4, StepTypes DEF EtcIsStaged, Reload
<1>6. CASE Return(t)
  BY <1>2, <1>4, <1>5, <1>6, StepKeepsInv, StepTypes DEF Return
<1>7. CASE running' = etc /\ Goto(t, "commit", held[t])
  <2>1. Goto(t, "commit", g) /\ FrameAt("commit", g)
    BY <1>1, <1>7 DEF FrameAt
  <2>2. g.alone => held[t].alone /\ AloneAt("commit", g)'
    BY <1>1, <1>3, <1>4, <1>7 DEF AloneAt, Pruned, InPlace, Unmanaged, Holds, Empty
  <2>. QED
    BY <1>2, <1>3, <1>4, <1>5, <2>1, <2>2, StepKeepsInv, StepTypes
<1>. QED
  BY <1>6, <1>7 DEF Reload

LEMMA FinishKeepsInv ==
    ASSUME NetInv, NEW t \in Thread, FinishApply(t)
    PROVE  NetInv'
<1>. USE DEF FinishApply, netSystem
<1>1. PICK c : c = held[t].desired
  OBVIOUS
<1>2. c \in Config /\ pc[t] = "commit" /\ Commit(c) /\ netPhase = "up"
  BY <1>1, FrameFacts DEF NetInv, NetTyped
<1>3. /\ pc' \in [Thread -> Steps] /\ pc'[t] = "idle" /\ \A u \in Thread \ {t} : pc'[u] = pc[u]
      /\ held' \in [Thread -> Frame \union {None}]
      /\ held'[t] = None /\ \A u \in Thread \ {t} : held'[u] = held[u]
  BY DEF Return, Goto, NetInv, NetTyped, Steps
<1>4. /\ netCurrent' = c /\ netDesired' = netDesired
      /\ netFile' = [desired |-> netDesired, current |-> c]
      /\ shared' = {} /\ sharedPeers' = {} /\ net' = net
      /\ installed' = Core(c) /\ misrecorded' = FALSE
  BY <1>2 DEF Commit
<1>5. netFile' \in NetRecord /\ netFile'.current = c /\ netFile'.desired = netDesired
  BY <1>2, <1>4 DEF NetInv, NetTyped, NetRecord
<1>6. \A u \in Thread : IF pc'[u] = "idle" THEN held'[u] = None
                        ELSE held'[u] \in Frame /\ FrameAt(pc'[u], held'[u])
  BY <1>3 DEF NetInv, NetTyped
<1>7. NetTyped'
  BY <1>2, <1>3, <1>4, <1>5, <1>6 DEF NetInv, NetTyped
<1>8. RecordAsInstalled' /\ EditsAreSaved' /\ EtcIsStaged'
  BY <1>2, <1>4, <1>5, Values
     DEF NetInv, RecordAsInstalled, EditsAreSaved, EtcIsStaged, Core
<1>9. AloneInv'
  <2>. SUFFICES ASSUME NEW u \in Thread, pc'[u] # "idle", held'[u].alone PROVE FALSE
    BY DEF AloneInv
  <2>1. u # t /\ pc[u] # "idle" /\ held[u].alone
    BY <1>3
  <2>. QED
    BY <1>2, <2>1 DEF NetInv, AloneInv
<1>. QED
  BY <1>7, <1>8, <1>9 DEF NetInv

LEMMA ApplyKeepsInv == ASSUME NetInv, NEW t \in Thread, ApplySteps(t) PROVE NetInv'
  BY BeginKeepsInv, BuildKeepsInv, PruneKeepsInv, WriteKeepsInv, ReloadKeepsInv, FinishKeepsInv
     DEF ApplySteps

LEMMA DefaultAliasesIs ==
    ASSUME NEW c \in Config
    PROVE  DefaultAliases(c) \in Config /\ Core(DefaultAliases(c)) = Core(c)
<1>. DEFINE all == WithDefaults(c.aliases, DOMAIN c.interfaces)
<1>1. all \in Table(Name, Name)
  <2>1. c.aliases \in Table(Name, Name) /\ c.interfaces \in Table(Name, Entry)
    BY ConfigFields
  <2>2. DOMAIN c.interfaces \in SUBSET Name
    BY <2>1, Tables
  <2>. QED
    BY <2>1, <2>2, DefaultsAre, Zenon
<1>2. DefaultAliases(c) = [c EXCEPT !.aliases = all]
  BY DEF DefaultAliases
<1>. HIDE DEF all
<1>3. DefaultAliases(c) \in Config
  BY <1>1, <1>2, ConfigFields
<1>4. /\ DefaultAliases(c).interfaces = c.interfaces
      /\ DefaultAliases(c).routes = c.routes
  BY <1>2 DEF Config
<1>. QED
  BY <1>3, <1>4, Values

\* A start or a boot apply that makes c the recorded configuration.
LEMMA BootKeepsInv ==
    ASSUME NetInv, netPhase \in {"down", "loaded"}, netPhase' = "up",
           NEW c \in Config, net' = c, netOps' \in 0..MaxOps,
           \/ /\ netDesired' = c /\ netCurrent' = c
              /\ netFile' = [desired |-> c, current |-> c]
              /\ installed' = Core(c) /\ misrecorded' = FALSE
           \/ /\ netDesired' \in Config /\ Core(netDesired') = Core(c)
              /\ netCurrent' = LoadedCurrent
              /\ netFile' = [desired |-> netDesired', current |-> netCurrent']
              /\ UNCHANGED netHistory,
           /\ etc' \in Table(FileId, File) /\ running' \in Table(FileId, File)
           /\ staging' \in Table(FileId, File) /\ stranded' \subseteq FileId /\ EtcIsStaged',
           UNCHANGED <<shared, sharedPeers, netApply>>
    PROVE  NetInv'
<1>. USE DEF NetInv, netApply, netHistory
<1>1. /\ netDesired' \in Config /\ Core(netDesired') = Core(c)
      /\ netFile' = [desired |-> netDesired', current |-> netCurrent']
  OBVIOUS
<1>2. LoadedCurrent \in Config \union {None}
  BY DEF LoadedCurrent, NetTyped, NetRecord
<1>3. netFile' \in NetRecord /\ netFile' # None
      /\ netFile'.desired = netDesired' /\ netFile'.current = netCurrent'
  <2>1. netFile' \in NetRecord
    BY <1>1, <1>2 DEF NetRecord
  <2>. QED
    BY <1>1, <2>1, Values
<1>4. misrecorded' \in BOOLEAN
  BY DEF NetTyped
<1>5. shared = {} /\ sharedPeers = {} /\ \A t \in Thread : pc[t] = "idle" /\ held[t] = None
  BY DEF NetTyped
<1>6. NetTyped'
  BY <1>1, <1>2, <1>3, <1>4, <1>5 DEF NetTyped
<1>7. RecordAsInstalled'
  <2>1. CASE netCurrent' = c /\ installed' = Core(c)
    <3>1. Core(netCurrent') = Core(c) /\ Core(netFile'.current) = Core(c)
      BY <1>3, <2>1 DEF Core
    <3>. QED
      BY <2>1, <3>1 DEF RecordAsInstalled, Core
  <2>2. CASE netCurrent' = LoadedCurrent /\ UNCHANGED netHistory
    <3>1. ~ misrecorded => Core(LoadedCurrent) \in {None, installed}
      BY DEF RecordAsInstalled, LoadedCurrent, Core
    <3>. QED
      BY <1>3, <2>2, <3>1 DEF RecordAsInstalled, Core
  <2>. QED
    BY <2>1, <2>2
<1>8. EditsAreSaved'
  BY <1>1, <1>3 DEF EditsAreSaved, Core
<1>9. AloneInv'
  BY <1>5 DEF AloneInv
<1>. QED
  BY <1>6, <1>7, <1>8, <1>9

LEMMA StartKeepsInv ==
    NetInv /\ (StartIgnoring \/ Load \/ (\E s \in System : Import(s))) => NetInv'
<1>. SUFFICES ASSUME NetInv, netPhase = "down", netOps' = netOps + 1, netOps < MaxOps,
                     StartIgnoring \/ Load \/ (\E s \in System : Import(s))
              PROVE  NetInv'
  BY DEF StartIgnoring, Load, Import
<1>. USE DEF NetInv, netApply, netSystem, netHistory
<1>1. netOps' \in 0..MaxOps
  BY Values DEF NetTyped
<1>2. /\ netDesired = None /\ netCurrent = None /\ shared = {} /\ sharedPeers = {}
      /\ \A t \in Thread : pc[t] = "idle" /\ held[t] = None
  BY DEF NetTyped, EditsAreSaved
<1>3. Readable => Loaded \in Config
  BY Values DEF Readable, Loaded, NetTyped, NetRecord
<1>4. CASE StartIgnoring
  <2>1. NetTyped'
    BY <1>1, <1>2, <1>4, Values DEF StartIgnoring, NetTyped
  <2>2. RecordAsInstalled'
    BY <1>4 DEF StartIgnoring, RecordAsInstalled, Core
  <2>. QED
    BY <1>2, <1>4, <2>1, <2>2
       DEF StartIgnoring, EditsAreSaved, AloneInv, EtcIsStaged
<1>5. CASE Load
  <2>1. netFile # None /\ netFile \in NetRecord /\ Loaded = netFile.desired
    BY <1>5 DEF Load, Loaded, Empty, Nothing, NetTyped
  <2>2. LoadedCurrent = netFile.current /\ netFile.current \in Config \union {None}
    BY <2>1 DEF LoadedCurrent, NetRecord
  <2>3. Loaded \in Config
    BY <1>3, <1>5 DEF Load
  <2>4. /\ netPhase' = "loaded" /\ net' = DefaultAliases(Loaded)
        /\ netDesired' = Loaded /\ netCurrent' = netFile.current
        /\ UNCHANGED <<netFile, shared, sharedPeers, netApply, netSystem, netHistory>>
    BY <1>5, <2>2 DEF Load
  <2>5. net' \in Config /\ Core(net') = Core(Loaded)
    BY <2>3, <2>4, DefaultAliasesIs
  <2>6. NetTyped'
    BY <1>1, <1>2, <2>2, <2>3, <2>4, <2>5 DEF NetTyped
  <2>7. RecordAsInstalled'
    BY <2>1, <2>4 DEF RecordAsInstalled, Core
  <2>8. EditsAreSaved'
    BY <2>1, <2>4, <2>5 DEF EditsAreSaved, Core
  <2>. QED
    BY <1>2, <2>4, <2>6, <2>7, <2>8 DEF AloneInv, EtcIsStaged
<1>6. ASSUME NEW s \in System, Import(s) PROVE NetInv'
  <2>. DEFINE c == [interfaces |-> s.interfaces, routes |-> s.routes,
                    aliases |-> Loaded.aliases]
  <2>1. Loaded \in Config /\ Empty(Loaded)
    BY <1>3, <1>6 DEF Import
  <2>2. c \in Config /\ c.interfaces = s.interfaces /\ c.routes = s.routes
    <3>1. s.interfaces \in Table(Name, Entry) /\ s.routes \in SUBSET Route
      BY NetworkingAssumption
    <3>. QED
      BY <2>1, <3>1, ConfigFields DEF Config
  <2>3. net' = DefaultAliases(c) /\ netPhase' = "up"
        /\ UNCHANGED <<shared, sharedPeers, netApply, netSystem>>
    BY <1>6 DEF Import
  <2>. HIDE DEF c
  <2>4. net' \in Config /\ Core(net') = Core(c)
    BY <2>2, <2>3, DefaultAliasesIs
  <2>5. /\ etc' \in Table(FileId, File) /\ running' \in Table(FileId, File)
        /\ staging' \in Table(FileId, File) /\ stranded' \subseteq FileId /\ EtcIsStaged'
    BY <2>3 DEF NetTyped, EtcIsStaged
  <2>6. CASE ~ Empty(s)
    <3>1. /\ netDesired' = net' /\ netCurrent' = net'
          /\ netFile' = [desired |-> net', current |-> net']
          /\ installed' = Core(net') /\ misrecorded' = FALSE
      BY <1>6, <2>6 DEF Import
    <3>2. PICK n \in Config : net' = n
      BY <2>4
    <3>. QED
      BY <1>1, <2>3, <2>5, <3>1, <3>2, BootKeepsInv
  <2>7. CASE Empty(s)
    <3>1. /\ netDesired' = Loaded /\ netCurrent' = LoadedCurrent
          /\ netFile' = [desired |-> netDesired', current |-> netCurrent']
          /\ UNCHANGED netHistory
      BY <1>6, <2>7 DEF Import
    <3>2. Core(c) = Core(Loaded)
      BY <2>1, <2>2, <2>7, Values DEF Empty
    <3>3. netDesired' \in Config
      BY <2>1, <3>1
    <3>4. PICK n \in Config : net' = n
      BY <2>4
    <3>5. Core(netDesired') = Core(n)
      BY <2>4, <3>1, <3>2, <3>4 DEF Core
    <3>. QED
      BY <1>1, <2>3, <2>5, <3>1, <3>3, <3>4, <3>5, BootKeepsInv
  <2>. QED
    BY <2>6, <2>7
<1>. QED
  BY <1>4, <1>5, <1>6

LEMMA BootApplyKeepsInv == NetInv /\ BootApply => NetInv'
<1>. SUFFICES ASSUME NetInv, BootApply PROVE NetInv'
  OBVIOUS
<1>. USE DEF NetInv, netApply, netSystem, netHistory
<1>1. /\ netPhase = "loaded" /\ netPhase' = "up" /\ netOps' = netOps
      /\ UNCHANGED <<shared, sharedPeers, netApply>>
  BY DEF BootApply
<1>2. /\ net \in Config /\ netOps \in 0..MaxOps /\ shared = {} /\ sharedPeers = {}
      /\ \A t \in Thread : pc[t] = "idle" /\ held[t] = None
  BY <1>1 DEF NetTyped
<1>3. Build(net) \in Table(FileId, File)
  BY <1>2, BuildIs
<1>4. CASE /\ WriteFiles(Build(net), DOMAIN Build(net))
           /\ running' \in {running, etc'}
           /\ net' = net /\ netDesired' = net /\ netCurrent' = net
           /\ netFile' = [desired |-> net, current |-> net]
           /\ installed' = Core(net) /\ misrecorded' = FALSE
  <2>1. /\ etc' \in Table(FileId, File)
        /\ staging' \in Table(FileId, File) /\ stranded' \subseteq FileId /\ EtcIsStaged'
    BY <1>3, <1>4, WriteFilesIs
  <2>2. running' \in Table(FileId, File)
    BY <1>4, <2>1 DEF NetTyped
  <2>3. netOps' \in 0..MaxOps
    BY <1>1, <1>2
  <2>. QED
    BY <1>1, <1>2, <1>4, <2>1, <2>2, <2>3, BootKeepsInv
<1>5. CASE /\ \/ \E done \in SUBSET DOMAIN Build(net) :
                    WriteFiles(Build(net), done) /\ UNCHANGED running
              \/ UNCHANGED netSystem
           /\ UNCHANGED <<net, netDesired, netCurrent, netFile, netHistory>>
  <2>1. /\ etc' \in Table(FileId, File) /\ running' \in Table(FileId, File)
        /\ staging' \in Table(FileId, File) /\ stranded' \subseteq FileId /\ EtcIsStaged'
    <3>1. CASE UNCHANGED netSystem
      BY <3>1 DEF NetTyped, EtcIsStaged
    <3>2. ASSUME NEW done \in SUBSET DOMAIN Build(net), WriteFiles(Build(net), done),
                 UNCHANGED running
          PROVE  /\ etc' \in Table(FileId, File) /\ running' \in Table(FileId, File)
                 /\ staging' \in Table(FileId, File) /\ stranded' \subseteq FileId /\ EtcIsStaged'
      BY <1>3, <3>2, WriteFilesIs DEF NetTyped
    <3>. QED
      BY <1>5, <3>1, <3>2
  <2>2. NetTyped'
    BY <1>1, <1>2, <1>5, <2>1 DEF NetTyped
  <2>3. RecordAsInstalled' /\ EditsAreSaved'
    BY <1>1, <1>5 DEF RecordAsInstalled, EditsAreSaved, Core
  <2>. QED
    BY <1>1, <1>2, <2>1, <2>2, <2>3 DEF AloneInv
<1>. QED
  BY <1>4, <1>5 DEF BootApply

LEMMA StopKeepsInv == NetInv /\ (NetStop \/ NetworkdRestart) => NetInv'
<1>. SUFFICES ASSUME NetInv, NetStop \/ NetworkdRestart PROVE NetInv'
  OBVIOUS
<1>. USE DEF NetInv, netMem, netApply, netSystem, netHistory
<1>1. CASE NetStop
  <2>1. /\ \A t \in Thread : pc'[t] = "idle" /\ held'[t] = None
        /\ pc' \in [Thread -> Steps] /\ held' \in [Thread -> Frame \union {None}]
    BY <1>1 DEF NetStop, Steps
  <2>2. NetTyped'
    BY <1>1, <2>1, Values DEF NetStop, NetTyped
  <2>3. RecordAsInstalled'
    BY <1>1 DEF NetStop, RecordAsInstalled, Core
  <2>. QED
    BY <1>1, <2>1, <2>2, <2>3 DEF NetStop, EditsAreSaved, AloneInv, EtcIsStaged
<1>2. CASE NetworkdRestart
  <2>1. NetTyped'
    BY <1>2 DEF NetworkdRestart, NetTyped
  <2>2. RecordAsInstalled' /\ EditsAreSaved' /\ EtcIsStaged'
    BY <1>2 DEF NetworkdRestart, RecordAsInstalled, EditsAreSaved, EtcIsStaged, Core
  <2>3. AloneInv'
    <3>. SUFFICES ASSUME NEW t \in Thread, pc[t] # "idle", held[t].alone
                  PROVE  (\A u \in Thread \ {t} : pc[u] = "idle") /\ AloneAt(pc[t], held[t])'
      BY <1>2 DEF NetworkdRestart, AloneInv
    <3>1. (\A u \in Thread \ {t} : pc[u] = "idle") /\ AloneAt(pc[t], held[t])
      BY DEF AloneInv
    <3>. QED
      BY <1>2, <3>1
         DEF NetworkdRestart, AloneAt, Pruned, InPlace, Unmanaged, Holds, Empty
  <2>. QED
    BY <2>1, <2>2, <2>3
<1>. QED
  BY <1>1, <1>2

LEMMA NetStepKeepsInv == NetInv /\ [NetNext]_netVars => NetInv'
<1>. SUFFICES ASSUME NetInv, [NetNext]_netVars PROVE NetInv'
  OBVIOUS
<1>1. CASE EditInterface \/ EditRoute \/ EditMaster \/ EditMember \/ EditPeer \/ EditAlias
  BY <1>1, EditsKeepInv, InterfaceEdits, RouteEdits, MastersEdit, MembersEdit, PeersEdit,
     AliasEdits DEF NetInv
<1>2. CASE UNCHANGED netVars
  <2>. USE <1>2 DEF netVars, netMem, netApply, netSystem, netHistory
  <2>1. NetTyped'
    BY DEF NetInv, NetTyped
  <2>2. RecordAsInstalled' /\ EditsAreSaved' /\ EtcIsStaged'
    BY DEF NetInv, RecordAsInstalled, EditsAreSaved, EtcIsStaged, Core
  <2>3. AloneInv'
    BY DEF NetInv, AloneInv, AloneAt, Pruned, InPlace, Unmanaged, Holds, Empty
  <2>. QED
    BY <2>1, <2>2, <2>3 DEF NetInv
<1>. QED
  BY <1>1, <1>2, DiscardKeepsInv, ApplyKeepsInv, StartKeepsInv, BootApplyKeepsInv, StopKeepsInv
     DEF NetNext

LEMMA NetInvAlways == NetSpec => []NetInv
  BY NetInvInit, NetStepKeepsInv, PTL DEF NetSpec

-----------------------------------------------------------------------------
\* The networking plugin's variables keep their types: what every edit builds,
\* an import reads or a commit records is a configuration, and what an apply
\* writes is a table of files.
THEOREM NetTypes == NetSpec => []NetTypeOK
<1>1. NetInv => NetTypeOK
  BY TypedIsTypeOK DEF NetInv
<1>. QED
  BY <1>1, NetInvAlways, PTL

\* What POST /discard restores is what the last successful apply, boot or
\* import installed, unless an alias edit or an edit in place of a shared entry
\* has overwritten it.
THEOREM NetRecordIsInstalled == NetSpec => []RecordIsInstalled
<1>1. NetInv => RecordIsInstalled
  BY DEF NetInv, RecordAsInstalled, RecordIsInstalled
<1>. QED
  BY <1>1, NetInvAlways, PTL

\* No edit is lost by a kill, and none is installed or dropped unseen: it is in
\* the file and, while it is not installed, it is pending.
THEOREM NetEditsAreKept == NetSpec => []EditsPendAndPersist
<1>1. NetInv => EditsPendAndPersist
  <2>. SUFFICES ASSUME NetInv, netDesired # None PROVE EditsPendAndPersist
    BY DEF EditsPendAndPersist
  <2>1. /\ netFile # None /\ netFile.desired = netDesired /\ netFile.current = netCurrent
        /\ Core(netDesired) = Core(net)
    BY DEF NetInv, EditsAreSaved
  <2>2. Core(netFile.desired) = Core(net)
    BY <2>1 DEF Core
  <2>3. ~ misrecorded /\ netCurrent # None => Core(netCurrent) = installed
    BY Values DEF NetInv, NetTyped, RecordAsInstalled
  <2>4. netDesired = netCurrent => Core(netDesired) = Core(netCurrent)
    BY DEF Core
  <2>. QED
    BY <2>1, <2>2, <2>3, <2>4 DEF EditsPendAndPersist
<1>. QED
  BY <1>1, NetInvAlways, PTL

\* When an apply records a configuration, networkd has loaded all its files,
\* if no other apply and no edit came between.
THEOREM NetCommitIsRunning == NetSpec => []CommitIsRunning
<1>1. NetInv => CommitIsRunning
  <2>. SUFFICES ASSUME NetInv, NEW t \in Thread, pc[t] = "commit", held[t].alone,
                       ~ Empty(held[t].desired)
                PROVE  IsRestriction(Build(held[t].desired), running)
    BY DEF CommitIsRunning
  <2>1. AloneAt("commit", held[t])
    BY DEF NetInv, AloneInv
  <2>2. Holds(running, Build(held[t].desired), DOMAIN Build(held[t].desired))
    BY <2>1 DEF AloneAt, InPlace
  <2>. QED
    BY <2>2 DEF Holds, IsRestriction
<1>. QED
  BY <1>1, NetInvAlways, PTL

\* And no file of an interface that is not in it: an apply that was alone has
\* pruned every file the plugin ever put in /etc, but for those whose removal
\* failed or was killed and those that one apply put while another pruned.
THEOREM NetUnmanagedIsPruned == NetSpec => []UnmanagedIsPruned
<1>1. NetInv => UnmanagedIsPruned
  <2>. SUFFICES ASSUME NetInv, NEW t \in Thread, pc[t] = "commit", held[t].alone,
                       ~ Empty(held[t].desired)
                PROVE  Unmanaged(running, held[t]) \subseteq stranded
    BY DEF UnmanagedIsPruned, Unmanaged
  <2>. QED
    BY DEF NetInv, AloneInv, AloneAt, Pruned
<1>. QED
  BY <1>1, NetInvAlways, PTL
=============================================================================
