-------------------------------- MODULE Dnsmasq --------------------------------
(***************************************************************************)
(* The dnsmasq plugin (src/plugins/dnsmasq): ten sections of configuration *)
(* edited in place, the two files an apply renders, tests, writes and      *)
(* restarts dnsmasq with, discard, the boot that skips files it finds up   *)
(* to date, and block lists, which are downloaded between two steps of the *)
(* event loop.                                                             *)
(*                                                                         *)
(* An edit is one step; a download is two, with requests in between, and   *)
(* an apply, which takes no lock, reads the sections three times, writes   *)
(* two files and waits for subprocesses while edits and other applies go   *)
(* on.  A settings section is whether it is enabled, or not its default;   *)
(* an item is an opaque value, for a lease its MAC address.                *)
(***************************************************************************)
EXTENDS Plugin, Naturals, Sequences

Seqs == INSTANCE SequencesExt

CONSTANTS
    Id,         \* ids of records, ranges and leases (random in the code)
    ListId,     \* ids of block lists
    Item,       \* contents of a record, a range, a lease, a PXE service
    Domains,    \* what the server of a block list may answer
    BadItem,    \* those dnsmasq --test refuses
    DnsEarlier, \* configurations an earlier process may have installed
    MaxServices, MaxDnsOps      \* bounds: PXE services; requests and starts

\* The values of the ten sections, of the record and of a download.
DnsConfig ==
    [dns : BOOLEAN, dhcp : BOOLEAN, tftp : BOOLEAN, pxe : BOOLEAN, mdns : BOOLEAN,
     records : Table(Id, Item), ranges : Table(Id, Item), leases : Table(Id, Item),
     services : Seq(Item), lists : Table(ListId, Domains)]

DnsRecord == [desired : DnsConfig, current : DnsConfig \union {None}]
Download == [list : ListId \union {None}, attached : BOOLEAN]

ASSUME DnsmasqAssumption ==
    /\ BadItem \subseteq Item
    /\ DnsEarlier \subseteq DnsConfig
    /\ None \notin DnsConfig /\ None \notin DnsRecord
    /\ None \notin ListId /\ None \notin Download
    /\ MaxServices \in Nat /\ MaxDnsOps \in Nat

VARIABLES
    dnsPhase,       \* "down", "loaded" or "up"
    dns,            \* the ten sections
    dnsDesired, dnsCurrent, dnsFile,    \* the plugin's PluginStateFile
    dnsShared,      \* sections that are the very objects of _current
    dnsPc, dnsHeld, \* where each thread's apply is, and what its frame holds
    fetch,          \* a download in flight: the list it is for
    onDisk,         \* ff-managed.conf and ff-blocklist.conf, None if empty
    served,         \* what dnsmasq has loaded, None while it does not run
    dnsInstalled, dnsMisrecorded,       \* history, as in Networking
    dnsOps

dnsMem == <<dns, dnsDesired, dnsCurrent, dnsShared>>
dnsApplying == <<dnsPc, dnsHeld>>
dnsSystem == <<onDisk, served>>
dnsHistory == <<dnsInstalled, dnsMisrecorded>>
dnsVars == <<dnsPhase, dnsMem, dnsFile, dnsApplying, fetch, dnsSystem, dnsHistory, dnsOps>>

-----------------------------------------------------------------------------
Switches == {"dns", "dhcp", "tftp", "pxe", "mdns"}

Defaults ==
    [dns |-> FALSE, dhcp |-> FALSE, tftp |-> FALSE, pxe |-> FALSE, mdns |-> FALSE,
     records |-> << >>, ranges |-> << >>, leases |-> << >>, services |-> << >>,
     lists |-> << >>]

\* Records are rendered whatever the dns section says, DHCP and PXE entries
\* only while their section is enabled.
RenderDns(c) == <<c.dns, Range(c.records)>>
RenderDhcp(c) == IF c.dhcp THEN <<Range(c.ranges), Range(c.leases)>> ELSE None
RenderPxe(c) == IF c.pxe THEN c.services ELSE None

RenderConf(c) ==
    [dns |-> RenderDns(c), dhcp |-> RenderDhcp(c), tftp |-> c.tftp,
     pxe |-> RenderPxe(c), mdns |-> c.mdns]

RenderBlock(c) == Range(c.lists)

Empties == [conf |-> None, block |-> None]

Rendered(c) == [conf |-> RenderConf(c), block |-> RenderBlock(c)]

\* dnsmasq --test reads the configuration, not the block lists.
Passes(c) ==
    {} = BadItem \intersect
            (Range(c.records)
             \union (IF c.dhcp THEN Range(c.ranges) \union Range(c.leases) ELSE {})
             \union (IF c.pxe THEN Range(c.services) ELSE {}))

-----------------------------------------------------------------------------
DnsClient ==
    /\ dnsPhase = "up"
    /\ dnsOps < MaxDnsOps
    /\ dnsOps' = dnsOps + 1

\* An apply that has not rendered the last section sees this edit in some of
\* what it reads.
Disturb ==
    dnsHeld' = [t \in Thread |-> IF dnsPc[t] \in {"render", "lists"}
                                 THEN [dnsHeld[t] EXCEPT !.alone = FALSE] ELSE dnsHeld[t]]

DnsSave(live, cur) ==
    /\ dns' = live
    /\ dnsDesired' = live
    /\ dnsCurrent' = cur
    /\ dnsFile' = [desired |-> live, current |-> cur]
    /\ dnsMisrecorded' = (dnsMisrecorded \/ cur # dnsCurrent)
    /\ Disturb
    /\ UNCHANGED <<dnsPhase, dnsPc, dnsSystem, dnsInstalled>>

\* A section is edited in place: in the recorded snapshot too, if discard has
\* made it the working one.
Change(section, v) ==
    /\ DnsSave([dns EXCEPT ![section] = v],
               IF section \in dnsShared THEN [dnsCurrent EXCEPT ![section] = v]
                                        ELSE dnsCurrent)
    /\ UNCHANGED dnsShared

EditSection(section, v) ==
    /\ DnsClient
    /\ Change(section, v)
    /\ UNCHANGED fetch

UpdateDns(v) == EditSection("dns", v)
UpdateDhcp(v) == EditSection("dhcp", v)
UpdateTftp(v) == EditSection("tftp", v)
UpdatePxe(v) == EditSection("pxe", v)
UpdateMdns(v) == EditSection("mdns", v)

AddRecord(i, x) ==
    /\ i \notin DOMAIN dns.records
    /\ EditSection("records", i :> x @@ dns.records)

DeleteRecord(i) ==
    /\ i \in DOMAIN dns.records
    /\ EditSection("records", Without(dns.records, {i}))

\* An identical range, or a lease with the same MAC, is refused when it is
\* added and not when another one is updated to it.
AddRange(i, x) ==
    /\ i \notin DOMAIN dns.ranges /\ x \notin Range(dns.ranges)
    /\ EditSection("ranges", i :> x @@ dns.ranges)

UpdateRange(i, x) ==
    /\ i \in DOMAIN dns.ranges
    /\ EditSection("ranges", [dns.ranges EXCEPT ![i] = x])

DeleteRange(i) ==
    /\ i \in DOMAIN dns.ranges
    /\ EditSection("ranges", Without(dns.ranges, {i}))

AddStaticLease(i, x) ==
    /\ i \notin DOMAIN dns.leases /\ x \notin Range(dns.leases)
    /\ EditSection("leases", i :> x @@ dns.leases)

UpdateStaticLease(i, x) ==
    /\ i \in DOMAIN dns.leases
    /\ EditSection("leases", [dns.leases EXCEPT ![i] = x])

DeleteStaticLease(i) ==
    /\ i \in DOMAIN dns.leases
    /\ EditSection("leases", Without(dns.leases, {i}))

AddPxeService(x) ==
    /\ Len(dns.services) < MaxServices
    /\ EditSection("services", Append(dns.services, x))

\* By position: the entries behind it move up.
DeletePxeService(k) == EditSection("services", Seqs!RemoveAt(dns.services, k))

DeleteBlocklist(l) ==
    /\ l \in DOMAIN dns.lists
    /\ DnsClient
    /\ Change("lists", Without(dns.lists, {l}))
    /\ fetch' = IF fetch # None /\ fetch.list = l
                THEN [fetch EXCEPT !.attached = FALSE] ELSE fetch

\* POST /blocklists and .../refresh wait for a download; one at a time here.
\* attached: the entry the handler holds is still the one in the section.
BeginDownload(l) ==
    /\ DnsClient
    /\ fetch = None
    /\ l # None => l \in DOMAIN dns.lists
    /\ fetch' = [list |-> l, attached |-> l # None]
    /\ UNCHANGED <<dnsPhase, dnsMem, dnsFile, dnsApplying, dnsSystem, dnsHistory>>

FinishAdd(l, d) ==
    /\ fetch # None /\ fetch.list = None
    /\ l \notin DOMAIN dns.lists
    /\ Change("lists", l :> d @@ dns.lists)
    /\ fetch' = None
    /\ UNCHANGED dnsOps

\* Mutant of FinishRefresh: the entry is put under its id again.
FinishRefreshById(d) ==
    /\ fetch # None /\ fetch.list # None
    /\ Change("lists", fetch.list :> d @@ dns.lists)
    /\ fetch' = None
    /\ UNCHANGED dnsOps

\* The held entry is updated and the sections saved, whether or not they
\* still have that entry; the answer is the same.
FinishRefresh(d) ==
    /\ fetch # None /\ fetch.list # None
    /\ Change("lists", IF fetch.attached THEN [dns.lists EXCEPT ![fetch.list] = d]
                                         ELSE dns.lists)
    /\ fetch' = None
    /\ UNCHANGED dnsOps

FailDownload ==
    /\ fetch # None
    /\ fetch' = None
    /\ UNCHANGED <<dnsPhase, dnsMem, dnsFile, dnsApplying, dnsSystem, dnsHistory, dnsOps>>

\* Every section becomes the recorded one; an empty list or dict is falsy and
\* replaced by a new one.
DnsDiscard ==
    /\ dnsCurrent # None
    /\ DnsClient
    /\ DnsSave(dnsCurrent, dnsCurrent)
    /\ dnsShared' = {x \in DOMAIN dnsCurrent : x \in Switches \/ dnsCurrent[x] # << >>}
    /\ fetch' = IF fetch = None THEN None
                ELSE [fetch EXCEPT !.attached = @ /\ "lists" \in dnsShared]

-----------------------------------------------------------------------------
(* POST /apply: a configuration dnsmasq --test refuses changes nothing. *)

\* Mutant of DnsCommit: what is recorded are the sections as they are by now.
DnsCommitLive(c) ==
    /\ dnsCurrent' = dns
    /\ dnsFile' = [desired |-> dnsDesired, current |-> dns]
    /\ dnsShared' = {}
    /\ dnsInstalled' = c /\ dnsMisrecorded' = FALSE
    /\ UNCHANGED <<dns, dnsDesired>>

DnsCommit(c) ==
    /\ dnsCurrent' = c
    /\ dnsFile' = [desired |-> dnsDesired, current |-> c]
    /\ dnsShared' = {}
    /\ dnsInstalled' = c /\ dnsMisrecorded' = FALSE
    /\ UNCHANGED <<dns, dnsDesired>>

DnsGoto(t, step, h) ==
    /\ dnsPc' = [dnsPc EXCEPT ![t] = step]
    /\ dnsHeld' = [dnsHeld EXCEPT ![t] = h]

\* Mutant of DnsReturn: the apply's frame outlives it.
DnsReturnHolding(t) == DnsGoto(t, "idle", dnsHeld[t])

DnsReturn(t) == DnsGoto(t, "idle", None)

\* desired is recorded in the end; want is what the files should hold, and file
\* the one at work.  alone (history): no other apply was under way and no edit
\* came before the sections were last read.
DnsBegin(t) ==
    /\ DnsClient
    /\ dnsPc[t] = "idle"
    /\ dnsPc' = [dnsPc EXCEPT ![t] = "render"]
    /\ dnsHeld' = [u \in Thread |->
                     IF u = t THEN [desired |-> dns, want |-> Empties, file |-> "conf",
                                    alone |-> \A v \in Thread : dnsPc[v] = "idle"]
                     ELSE IF dnsPc[u] = "idle" THEN None
                     ELSE [dnsHeld[u] EXCEPT !.alone = FALSE]]
    /\ UNCHANGED <<dnsPhase, dnsMem, dnsFile, fetch, dnsSystem, dnsHistory>>

\* dnsmasq --test reads a temporary file with this text, and nothing else.
RenderSections(t) ==
    /\ dnsPc[t] = "render"
    /\ IF Passes(dns) THEN DnsGoto(t, "lists", [dnsHeld[t] EXCEPT !.want.conf = RenderConf(dns)])
                      ELSE DnsReturn(t)
    /\ UNCHANGED <<dnsPhase, dnsMem, dnsFile, fetch, dnsSystem, dnsHistory, dnsOps>>

RenderLists(t) ==
    /\ dnsPc[t] = "lists"
    /\ DnsGoto(t, "install", [dnsHeld[t] EXCEPT !.want.block = RenderBlock(dns)])
    /\ UNCHANGED <<dnsPhase, dnsMem, dnsFile, fetch, dnsSystem, dnsHistory, dnsOps>>

\* sudo install leaves the file empty, unless it fails.
InstallFile(t) ==
    /\ dnsPc[t] = "install"
    /\ \/ onDisk' = [onDisk EXCEPT ![dnsHeld[t].file] = None] /\ DnsGoto(t, "write", dnsHeld[t])
       \/ UNCHANGED onDisk /\ DnsReturn(t)
    /\ UNCHANGED <<dnsPhase, dnsMem, dnsFile, fetch, served, dnsHistory, dnsOps>>

\* The other file comes next, and then the restart.
Written(t) ==
    IF dnsHeld[t].file = "conf" THEN DnsGoto(t, "install", [dnsHeld[t] EXCEPT !.file = "block"])
                                ELSE DnsGoto(t, "restart", dnsHeld[t])

\* Mutant of WriteFile: a file that cannot be written is passed over.
WriteFileAnyhow(t) ==
    /\ dnsPc[t] = "write"
    /\ LET f == dnsHeld[t].file
       IN onDisk' \in {[onDisk EXCEPT ![f] = dnsHeld[t].want[f]], onDisk}
    /\ Written(t)
    /\ UNCHANGED <<dnsPhase, dnsMem, dnsFile, fetch, served, dnsHistory, dnsOps>>

WriteFile(t) ==
    /\ dnsPc[t] = "write"
    /\ LET f == dnsHeld[t].file
       IN \/ onDisk' = [onDisk EXCEPT ![f] = dnsHeld[t].want[f]] /\ Written(t)
          \/ onDisk' \in {onDisk, [onDisk EXCEPT ![f] = None]} /\ DnsReturn(t)
    /\ UNCHANGED <<dnsPhase, dnsMem, dnsFile, fetch, served, dnsHistory, dnsOps>>

\* initsys.service.restart, answered by the host plugin: dnsmasq reads both
\* files, keeps running with the old ones, or is down.
RestartDnsmasq(t) ==
    /\ dnsPc[t] = "restart"
    /\ \/ served' = onDisk /\ DnsGoto(t, "commit", dnsHeld[t])
       \/ served' \in {served, onDisk, None} /\ DnsReturn(t)
    /\ UNCHANGED <<dnsPhase, dnsMem, dnsFile, fetch, onDisk, dnsHistory, dnsOps>>

DnsFinish(t) ==
    /\ dnsPc[t] = "commit"
    /\ DnsCommit(dnsHeld[t].desired)
    /\ DnsReturn(t)
    /\ UNCHANGED <<dnsPhase, fetch, dnsSystem, dnsOps>>

-----------------------------------------------------------------------------
(* Start and stop. *)

\* configure() always loads; with ignore_state_on_boot setup() does no more.
DnsLoad(ignore) ==
    /\ dnsPhase = "down" /\ dnsOps < MaxDnsOps
    /\ dnsPhase' = IF ignore THEN "up" ELSE "loaded"
    /\ dns' = IF dnsFile = None THEN Defaults ELSE dnsFile.desired
    /\ dnsDesired' = dns'
    /\ dnsCurrent' = IF dnsFile = None THEN None ELSE dnsFile.current
    /\ dnsFile' = [desired |-> dns', current |-> dnsCurrent']
    /\ dnsOps' = dnsOps + 1
    /\ UNCHANGED <<dnsShared, dnsApplying, fetch, dnsSystem, dnsHistory>>

\* The files are up to date and dnsmasq is active.
UpToDate == onDisk = Rendered(dns) /\ served # None

BootUp ==
    /\ dnsPhase = "loaded"
    /\ dnsPhase' = "up"
    /\ UNCHANGED <<dnsApplying, fetch, dnsOps>>

\* Nothing to do, or a test that fails.
BootLeaves ==
    /\ UpToDate \/ ~ Passes(dns)
    /\ BootUp
    /\ UNCHANGED <<dnsMem, dnsFile, dnsSystem, dnsHistory>>

BootApplies ==
    /\ ~ UpToDate /\ Passes(dns)
    /\ BootUp
    /\ onDisk' = Rendered(dns)
    /\ served' = onDisk'
    /\ DnsCommit(dns)

\* A write or the restart fails, which is logged.
BootFails ==
    /\ ~ UpToDate /\ Passes(dns)
    /\ BootUp
    /\ \/ onDisk' \in {onDisk, [onDisk EXCEPT !.conf = None]} /\ UNCHANGED served
       \/ /\ onDisk' \in {[Rendered(dns) EXCEPT !.block = b] : b \in {onDisk.block, None}}
          /\ UNCHANGED served
       \/ onDisk' = Rendered(dns) /\ served' \in {served, onDisk', None}
    /\ UNCHANGED <<dnsMem, dnsFile, dnsHistory>>

DnsStop ==
    /\ dnsPhase # "down"
    /\ dnsPhase' = "down"
    /\ dns' = Defaults /\ dnsDesired' = None /\ dnsCurrent' = None
    /\ dnsShared' = {}
    /\ dnsPc' = [t \in Thread |-> "idle"] /\ dnsHeld' = [t \in Thread |-> None]
    /\ fetch' = None
    /\ UNCHANGED <<dnsFile, dnsSystem, dnsHistory, dnsOps>>

DnsInit ==
    /\ dnsPhase = "down"
    /\ dns = Defaults /\ dnsDesired = None /\ dnsCurrent = None
    /\ dnsShared = {} /\ fetch = None
    /\ dnsPc = [t \in Thread |-> "idle"] /\ dnsHeld = [t \in Thread |-> None]
    /\ \/ /\ dnsFile = None /\ dnsInstalled = None
          /\ onDisk = Empties /\ served = None
       \/ \E c \in DnsEarlier :
             /\ dnsFile = [desired |-> c, current |-> c] /\ dnsInstalled = c
             /\ onDisk = Rendered(c) /\ served = Rendered(c)
    /\ dnsMisrecorded = FALSE
    /\ dnsOps = 0

EditSwitch ==
    \E v \in BOOLEAN :
        UpdateDns(v) \/ UpdateDhcp(v) \/ UpdateTftp(v) \/ UpdatePxe(v) \/ UpdateMdns(v)

EditItem ==
    \/ \E i \in Id, x \in Item :
          \/ AddRecord(i, x) \/ AddRange(i, x) \/ UpdateRange(i, x)
          \/ AddStaticLease(i, x) \/ UpdateStaticLease(i, x)
    \/ \E i \in Id : DeleteRecord(i) \/ DeleteRange(i) \/ DeleteStaticLease(i)
    \/ \E x \in Item : AddPxeService(x)
    \/ \E k \in 1..Len(dns.services) : DeletePxeService(k)

EditList ==
    \/ \E l \in ListId : DeleteBlocklist(l)
    \/ \E l \in ListId \union {None} : BeginDownload(l)
    \/ \E l \in ListId, d \in Domains : FinishAdd(l, d)
    \/ \E d \in Domains : FinishRefresh(d)
    \/ FailDownload

DnsApply(t) ==
    \/ DnsBegin(t) \/ RenderSections(t) \/ RenderLists(t)
    \/ InstallFile(t) \/ WriteFile(t)
    \/ RestartDnsmasq(t) \/ DnsFinish(t)

DnsNext ==
    \/ EditSwitch \/ EditItem \/ EditList \/ DnsDiscard
    \/ \E t \in Thread : DnsApply(t)
    \/ \E ignore \in BOOLEAN : DnsLoad(ignore)
    \/ BootLeaves \/ BootApplies \/ BootFails \/ DnsStop

DnsSpec == DnsInit /\ [][DnsNext]_dnsVars

-----------------------------------------------------------------------------
DnsSteps == {"idle", "render", "lists", "install", "write", "restart", "commit"}

IsFiles(f) == f \in [conf : {f.conf}, block : {f.block}]

IsDnsFrame(h) ==
    /\ h \in [desired : DnsConfig, want : {h.want}, file : {"conf", "block"}, alone : BOOLEAN]
    /\ IsFiles(h.want)

\* The variables have their types.
DnsTypeOK ==
    /\ dnsPhase \in {"down", "loaded", "up"}
    /\ dns \in DnsConfig
    /\ {dnsDesired, dnsCurrent} \subseteq DnsConfig \union {None}
    /\ dnsFile \in DnsRecord \union {None}
    /\ dnsPhase # "down" => dnsDesired # None
    /\ dnsShared \subseteq DOMAIN Defaults
    /\ dnsShared # {} => dnsPhase # "down" /\ dnsCurrent # None
    /\ dnsPc \in [Thread -> DnsSteps] /\ DOMAIN dnsHeld = Thread
    /\ \A t \in Thread : IF dnsPc[t] = "idle" THEN dnsHeld[t] = None ELSE IsDnsFrame(dnsHeld[t])
    /\ dnsPhase # "up" => \A t \in Thread : dnsPc[t] = "idle"
    /\ IsFiles(onDisk)
    /\ fetch \in Download \union {None}
    /\ dnsMisrecorded \in BOOLEAN
    /\ dnsOps \in 0..MaxDnsOps

\* current_state is what the last successful apply or boot installed, until an
\* edit after a discard overwrites it in place (plugin.py:436).  In particular
\* a download that outlives a discard or a delete does not reach it.
DnsRecordIsInstalled == ~ dnsMisrecorded => dnsCurrent \in {None, dnsInstalled}

\* An apply that no other one overlapped, and no edit before it had read the
\* sections for the last time, records what dnsmasq has loaded: the two files
\* of the configuration it records, not one of each.
DnsRecordIsServed ==
    \A t \in Thread :
        dnsPc[t] = "commit" /\ dnsHeld[t].alone => served = Rendered(dnsHeld[t].desired)

\* A refresh that ends after its list was deleted or discarded does not bring
\* it back, and changes nothing else.
RefreshResurrectsNothing ==
    [][fetch # None /\ fetch' = None /\ fetch.list # None /\ dnsPhase' # "down" =>
         /\ DOMAIN dns'.lists = DOMAIN dns.lists
         /\ [dns' EXCEPT !.lists = dns.lists] = dns]_dnsVars

\* README.md:398: on startup each plugin re-applies desired_state.  A boot that
\* neither ignores the state nor meets a failure ends with dnsmasq serving it.
BootServesDesired ==
    [][dnsPhase = "loaded" /\ UpToDate /\ dnsPhase' = "up" => served' = Rendered(dns)]_dnsVars
=============================================================================
