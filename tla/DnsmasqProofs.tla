----------------------------- MODULE DnsmasqProofs -----------------------------
(***************************************************************************)
(* Proofs about the dnsmasq plugin, for any items, block lists and earlier *)
(* configurations.                                                         *)
(***************************************************************************)
EXTENDS Dnsmasq, SequenceTheorems, TLAPS

-----------------------------------------------------------------------------
(* The sections. *)

LEMMA Tables ==
    ASSUME NEW K, NEW V, NEW t \in Table(K, V)
    PROVE  /\ \A k \in K, v \in V : k :> v @@ t \in Table(K, V)
           /\ \A k : \A v \in V : [t EXCEPT ![k] = v] \in Table(K, V)
           /\ \A S : Without(t, S) \in Table(K, V)
<1>. USE DEF Table
<1>1. PICK A \in SUBSET K : t \in [A -> V]
  OBVIOUS
<1>2. ASSUME NEW k \in K, NEW v \in V PROVE k :> v @@ t \in Table(K, V)
  <2>1. k :> v @@ t \in [({k} \union A) -> V]
    BY <1>1 DEF :>, @@
  <2>. QED
    BY <2>1
<1>3. ASSUME NEW k, NEW v \in V PROVE [t EXCEPT ![k] = v] \in Table(K, V)
  <2>1. [t EXCEPT ![k] = v] \in [A -> V]
    BY <1>1
  <2>. QED
    BY <2>1
<1>4. ASSUME NEW S PROVE Without(t, S) \in Table(K, V)
  <2>1. Without(t, S) \in [(A \ S) -> V]
    BY <1>1 DEF Without, Restrict
  <2>2. A \ S \in SUBSET K
    BY <1>1
  <2>. QED
    BY <2>1, <2>2
<1>. QED
  BY <1>2, <1>3, <1>4

LEMMA ShorterSeq ==
    ASSUME NEW S, NEW s \in Seq(S), NEW k \in 1..Len(s)
    PROVE  Seqs!RemoveAt(s, k) \in Seq(S)
<1>1. SubSeq(s, 1, k - 1) \in Seq(S)
  <2>1. \A i \in 1..(k - 1) : s[i] \in S
    OBVIOUS
  <2>. QED
    BY <2>1, SubSeqProperties
<1>2. SubSeq(s, k + 1, Len(s)) \in Seq(S)
  <2>1. \A i \in (k + 1)..Len(s) : s[i] \in S
    OBVIOUS
  <2>. QED
    BY <2>1, SubSeqProperties
<1>. QED
  BY <1>1, <1>2 DEF Seqs!RemoveAt

\* A value a section may take, in whatever configuration.
Fits(section, v) ==
    section \in DOMAIN Defaults /\ \A c \in DnsConfig : [c EXCEPT ![section] = v] \in DnsConfig

LEMMA SectionValues ==
    /\ \A v \in BOOLEAN : /\ Fits("dns", v) /\ Fits("dhcp", v) /\ Fits("tftp", v)
                          /\ Fits("pxe", v) /\ Fits("mdns", v)
    /\ \A t \in Table(Id, Item) : Fits("records", t) /\ Fits("ranges", t) /\ Fits("leases", t)
    /\ \A s \in Seq(Item) : Fits("services", s)
    /\ \A t \in Table(ListId, Domains) : Fits("lists", t)
  BY DEF Fits, DnsConfig, Defaults

LEMMA EmptyTable == ASSUME NEW K, NEW V PROVE << >> \in Table(K, V)
<1>1. << >> \in [{} -> V]
  OBVIOUS
<1>. QED
  BY <1>1 DEF Table

LEMMA Values ==
    /\ MaxDnsOps \in Nat /\ Defaults \in DnsConfig
    /\ None \notin DnsConfig /\ None \notin DnsRecord
    /\ None \notin ListId /\ None \notin Download
<1>1. Defaults \in DnsConfig
  BY EmptyTable DEF Defaults, DnsConfig
<1>. QED
  BY <1>1, DnsmasqAssumption

\* Every edit puts a value of its section into it.
LEMMA EditsFit ==
    ASSUME dns \in DnsConfig, EditSwitch \/ EditItem
    PROVE  \E section, v : Fits(section, v) /\ EditSection(section, v)
<1>1. /\ {dns.records, dns.ranges, dns.leases} \subseteq Table(Id, Item)
      /\ dns.services \in Seq(Item)
  BY DEF DnsConfig
<1>2. CASE EditSwitch
  BY <1>2, SectionValues
     DEF EditSwitch, UpdateDns, UpdateDhcp, UpdateTftp, UpdatePxe, UpdateMdns
<1>3. ASSUME NEW i \in Id, NEW x \in Item,
             \/ AddRecord(i, x) \/ AddRange(i, x) \/ UpdateRange(i, x)
             \/ AddStaticLease(i, x) \/ UpdateStaticLease(i, x)
      PROVE  \E section, v : Fits(section, v) /\ EditSection(section, v)
  <2>1. \A t \in {dns.records, dns.ranges, dns.leases} :
           /\ i :> x @@ t \in Table(Id, Item)
           /\ [t EXCEPT ![i] = x] \in Table(Id, Item)
    BY <1>1, Tables
  <2>. QED
    BY <1>3, <2>1, SectionValues
       DEF AddRecord, AddRange, UpdateRange, AddStaticLease, UpdateStaticLease
<1>4. ASSUME NEW i \in Id, DeleteRecord(i) \/ DeleteRange(i) \/ DeleteStaticLease(i)
      PROVE  \E section, v : Fits(section, v) /\ EditSection(section, v)
  <2>1. \A t \in {dns.records, dns.ranges, dns.leases} : Without(t, {i}) \in Table(Id, Item)
    BY <1>1, Tables
  <2>. QED
    BY <1>4, <2>1, SectionValues DEF DeleteRecord, DeleteRange, DeleteStaticLease
<1>5. ASSUME NEW x \in Item, AddPxeService(x)
      PROVE  \E section, v : Fits(section, v) /\ EditSection(section, v)
  <2>1. Append(dns.services, x) \in Seq(Item)
    BY <1>1
  <2>. QED
    BY <1>5, <2>1, SectionValues DEF AddPxeService
<1>6. ASSUME NEW k \in 1..Len(dns.services), DeletePxeService(k)
      PROVE  \E section, v : Fits(section, v) /\ EditSection(section, v)
  <2>1. Seqs!RemoveAt(dns.services, k) \in Seq(Item)
    BY <1>1, ShorterSeq
  <2>. QED
    BY <1>6, <2>1, SectionValues DEF DeletePxeService
<1>. QED
  BY <1>2, <1>3, <1>4, <1>5, <1>6 DEF EditItem

-----------------------------------------------------------------------------
(* What holds between an edit, an apply, a download and a start. *)

RecordAsInstalled ==
    ~ dnsMisrecorded => /\ dnsCurrent \in {None, dnsInstalled}
                        /\ dnsFile # None => dnsFile.current \in {None, dnsInstalled}

\* What the frame h of an apply that was alone stands for at each step.
FrameAt(step, h) ==
    /\ step \in {"render", "lists"} => h.desired = dns /\ h.file = "conf"
    /\ step = "lists" => h.want.conf = RenderConf(h.desired)
    /\ step \in {"install", "write", "restart", "commit"} => h.want = Rendered(h.desired)
    /\ step \in {"install", "write"} /\ h.file = "block" => onDisk.conf = h.want.conf
    /\ step \in {"restart", "commit"} => onDisk = h.want
    /\ step = "commit" => served = onDisk

AloneInv ==
    \A t \in Thread :
        dnsPc[t] # "idle" /\ dnsHeld[t].alone =>
            /\ \A u \in Thread \ {t} : dnsPc[u] = "idle"
            /\ FrameAt(dnsPc[t], dnsHeld[t])

DnsInv == DnsTypeOK /\ RecordAsInstalled /\ AloneInv

LEMMA DnsInvInit == DnsInit => DnsInv
<1>. SUFFICES ASSUME DnsInit PROVE DnsInv
  OBVIOUS
<1>1. dnsFile \in DnsRecord \union {None}
  BY DnsmasqAssumption DEF DnsInit, DnsRecord
<1>2. dns \in DnsConfig
  BY Values DEF DnsInit
<1>3. dnsMisrecorded \in BOOLEAN
  BY DEF DnsInit
<1>4. dnsOps \in 0..MaxDnsOps
  BY Values DEF DnsInit
<1>5. /\ dnsPhase = "down" /\ fetch = None
      /\ dnsDesired = None /\ dnsCurrent = None /\ dnsShared = {}
  BY DEF DnsInit
<1>6. dnsFile # None => dnsFile.current = dnsInstalled
  BY DEF DnsInit
<1>7. IsFiles(onDisk)
  BY DEF DnsInit, Empties, Rendered, IsFiles
<1>8. /\ dnsPc \in [Thread -> DnsSteps] /\ DOMAIN dnsHeld = Thread
      /\ \A t \in Thread : dnsPc[t] = "idle" /\ dnsHeld[t] = None
  BY DEF DnsInit, DnsSteps
<1>. QED
  BY <1>1, <1>2, <1>3, <1>4, <1>5, <1>6, <1>7, <1>8 DEF DnsInv, DnsTypeOK, RecordAsInstalled, AloneInv

LEMMA SaveKeepsInv ==
    ASSUME DnsInv, NEW live \in DnsConfig, NEW cur \in DnsConfig \union {None}, DnsSave(live, cur),
           dnsShared' \subseteq DOMAIN Defaults,
           dnsShared' # {} => dnsPhase # "down" /\ cur # None,
           fetch' \in Download \union {None}, dnsOps' \in 0..MaxDnsOps
    PROVE  DnsInv'
<1>. USE DEF DnsInv, DnsSave, dnsSystem
<1>0. /\ UNCHANGED <<dnsPc, onDisk, served, dnsPhase>> /\ DOMAIN dnsHeld' = Thread
      /\ \A t \in Thread :
            dnsHeld'[t] = IF dnsPc[t] \in {"render", "lists"}
                          THEN [dnsHeld[t] EXCEPT !.alone = FALSE] ELSE dnsHeld[t]
  BY DEF Disturb
<1>1. DnsTypeOK'
  <2>1. [desired |-> live, current |-> cur] \in DnsRecord
    BY DEF DnsRecord
  <2>2. dnsMisrecorded' \in BOOLEAN
    BY DEF DnsTypeOK
  <2>3. ASSUME NEW t \in Thread
        PROVE  IF dnsPc'[t] = "idle" THEN dnsHeld'[t] = None ELSE IsDnsFrame(dnsHeld'[t])
    <3>1. CASE dnsPc[t] \in {"render", "lists"}
      <4>1. IsDnsFrame(dnsHeld[t])
        BY <3>1 DEF DnsTypeOK
      <4>2. dnsHeld'[t] = [dnsHeld[t] EXCEPT !.alone = FALSE]
        BY <1>0, <3>1
      <4>3. IsDnsFrame(dnsHeld'[t])
        BY <4>1, <4>2 DEF IsDnsFrame, IsFiles
      <4>. QED
        BY <1>0, <3>1, <4>3
    <3>2. CASE dnsPc[t] \notin {"render", "lists"}
      BY <1>0, <3>2 DEF DnsTypeOK
    <3>. QED
      BY <3>1, <3>2
  <2>4. dnsPhase' # "up" => \A t \in Thread : dnsPc'[t] = "idle"
    BY <1>0 DEF DnsTypeOK
  <2>5. IsFiles(onDisk)' /\ dnsPc' \in [Thread -> DnsSteps]
    BY <1>0 DEF DnsTypeOK, IsFiles
  <2>6. dnsFile' \in DnsRecord /\ dns' = live /\ dnsDesired' = live /\ dnsCurrent' = cur
    BY <2>1
  <2>7. dnsPhase' \in {"down", "loaded", "up"} /\ live # None
    BY <1>0, Values DEF DnsTypeOK
  <2>. QED
    BY <1>0, <2>2, <2>3, <2>4, <2>5, <2>6, <2>7 DEF DnsTypeOK
<1>2. RecordAsInstalled'
  <2>1. ~ dnsMisrecorded' => ~ dnsMisrecorded /\ cur = dnsCurrent
    OBVIOUS
  <2>2. dnsFile'.current = cur /\ dnsCurrent' = cur /\ dnsInstalled' = dnsInstalled
    OBVIOUS
  <2>. QED
    BY <2>1, <2>2 DEF RecordAsInstalled
<1>3. AloneInv'
  <2>. SUFFICES ASSUME NEW t \in Thread, dnsPc'[t] # "idle", dnsHeld'[t].alone
                PROVE  /\ \A u \in Thread \ {t} : dnsPc'[u] = "idle"
                       /\ FrameAt(dnsPc[t], dnsHeld[t])'
    BY DEF AloneInv
  <2>1. dnsPc[t] \notin {"render", "lists"}
    <3>1. dnsPc[t] \in {"render", "lists"} => IsDnsFrame(dnsHeld[t])
      BY DEF DnsTypeOK
    <3>2. dnsPc[t] \in {"render", "lists"} => ~ dnsHeld'[t].alone
      BY <1>0, <3>1 DEF IsDnsFrame
    <3>. QED
      BY <3>2
  <2>2. dnsHeld'[t] = dnsHeld[t] /\ dnsPc' = dnsPc
    BY <1>0, <2>1
  <2>3. FrameAt(dnsPc[t], dnsHeld[t]) /\ \A u \in Thread \ {t} : dnsPc[u] = "idle"
    BY <2>2 DEF AloneInv
  <2>4. FrameAt(dnsPc[t], dnsHeld[t])'
    BY <1>0, <2>1, <2>2, <2>3 DEF FrameAt
  <2>. QED
    BY <2>2, <2>3, <2>4
<1>. QED
  BY <1>1, <1>2, <1>3

LEMMA ChangeKeepsInv ==
    ASSUME DnsInv, NEW section, NEW v, Fits(section, v), Change(section, v),
           fetch' \in Download \union {None}, dnsOps' \in 0..MaxDnsOps
    PROVE  DnsInv'
<1>. DEFINE live == [dns EXCEPT ![section] = v]
            cur == IF section \in dnsShared THEN [dnsCurrent EXCEPT ![section] = v] ELSE dnsCurrent
<1>1. live \in DnsConfig
  BY DEF DnsInv, DnsTypeOK, Fits
<1>2. cur \in DnsConfig \union {None} /\ (dnsShared # {} => dnsPhase # "down" /\ cur # None)
  BY Values DEF DnsInv, DnsTypeOK, Fits
<1>3. DnsSave(live, cur) /\ dnsShared' = dnsShared /\ dnsShared \subseteq DOMAIN Defaults
  BY DEF Change, DnsInv, DnsTypeOK
<1>. HIDE DEF live, cur
<1>. QED
  BY <1>1, <1>2, <1>3, SaveKeepsInv

\* Block lists, with a download that may outlast anything but the process.
LEMMA ListsKeepInv == DnsInv /\ EditList => DnsInv'
<1>. SUFFICES ASSUME DnsInv, EditList PROVE DnsInv'
  OBVIOUS
<1>1. /\ dns.lists \in Table(ListId, Domains)
      /\ fetch # None => fetch.list \in ListId \union {None} /\ fetch.attached \in BOOLEAN
      /\ fetch \in Download \union {None} /\ dnsOps \in 0..MaxDnsOps
  BY DEF DnsInv, DnsTypeOK, DnsConfig, Download
<1>2. ASSUME NEW l \in ListId, DeleteBlocklist(l) PROVE DnsInv'
  <2>1. Fits("lists", Without(dns.lists, {l}))
    BY <1>1, Tables, SectionValues
  <2>2. fetch' \in Download \union {None}
    BY <1>1, <1>2 DEF DeleteBlocklist, Download
  <2>3. dnsOps' \in 0..MaxDnsOps
    BY <1>1, <1>2, Values DEF DeleteBlocklist, DnsClient
  <2>. QED
    BY <1>2, <2>1, <2>2, <2>3, ChangeKeepsInv DEF DeleteBlocklist
<1>3. ASSUME NEW l \in ListId \union {None}, BeginDownload(l) PROVE DnsInv'
  <2>1. fetch' \in Download
    BY <1>3 DEF BeginDownload, Download
  <2>2. dnsOps' \in 0..MaxDnsOps
    BY <1>1, <1>3, Values DEF BeginDownload, DnsClient
  <2>. QED
    BY <1>3, <2>1, <2>2
       DEF BeginDownload, dnsMem, dnsApplying, dnsSystem, dnsHistory,
           DnsInv, DnsTypeOK, IsFiles, RecordAsInstalled, AloneInv, FrameAt
<1>4. ASSUME NEW l \in ListId, NEW d \in Domains, FinishAdd(l, d) PROVE DnsInv'
  <2>1. Fits("lists", l :> d @@ dns.lists)
    BY <1>1, Tables, SectionValues
  <2>. QED
    BY <1>1, <1>4, <2>1, ChangeKeepsInv DEF FinishAdd
<1>5. ASSUME NEW d \in Domains, FinishRefresh(d) PROVE DnsInv'
  <2>1. [dns.lists EXCEPT ![fetch.list] = d] \in Table(ListId, Domains)
    BY <1>1, Tables
  <2>. QED
    BY <1>1, <1>5, <2>1, SectionValues, ChangeKeepsInv DEF FinishRefresh
<1>6. CASE FailDownload
  BY <1>6 DEF FailDownload, dnsMem, dnsApplying, dnsSystem, dnsHistory,
              DnsInv, DnsTypeOK, IsFiles, RecordAsInstalled, AloneInv, FrameAt
<1>. QED
  BY <1>2, <1>3, <1>4, <1>5, <1>6 DEF EditList

\* A step of the thread t, by where it leaves the frame and the files.
LEMMA MoveKeepsInv ==
    ASSUME DnsInv, NEW t \in Thread, dnsPc[t] # "idle", NEW step \in DnsSteps, NEW h,
           DnsGoto(t, step, h),
           \/ step = "idle" /\ h = None
           \/ step # "idle" /\ IsDnsFrame(h) /\ (h.alone => dnsHeld[t].alone /\ FrameAt(step, h)'),
           IsFiles(onDisk)',
           UNCHANGED <<dnsPhase, dnsMem, dnsFile, fetch, dnsHistory, dnsOps>>
    PROVE  DnsInv'
<1>. USE DEF DnsInv, dnsMem, dnsHistory
<1>1. /\ dnsPc' \in [Thread -> DnsSteps] /\ dnsPc'[t] = step /\ DOMAIN dnsHeld' = Thread
      /\ \A u \in Thread \ {t} : dnsPc'[u] = dnsPc[u] /\ dnsHeld'[u] = dnsHeld[u]
      /\ dnsHeld'[t] = h
  BY DEF DnsGoto, DnsTypeOK
<1>2. dnsPhase' = "up"
  BY DEF DnsTypeOK
<1>3. DnsTypeOK'
  <2>1. \A u \in Thread : IF dnsPc'[u] = "idle" THEN dnsHeld'[u] = None ELSE IsDnsFrame(dnsHeld'[u])
    BY <1>1 DEF DnsTypeOK
  <2>2. /\ dns' \in DnsConfig /\ {dnsDesired', dnsCurrent'} \subseteq DnsConfig \union {None}
        /\ dnsFile' \in DnsRecord \union {None} /\ dnsDesired' # None
        /\ dnsShared' \subseteq DOMAIN Defaults /\ (dnsShared' # {} => dnsCurrent' # None)
        /\ fetch' \in Download \union {None} /\ dnsMisrecorded' \in BOOLEAN
        /\ dnsOps' \in 0..MaxDnsOps
    BY <1>2 DEF DnsTypeOK
  <2>. QED
    BY <1>1, <1>2, <2>1, <2>2 DEF DnsTypeOK
<1>4. RecordAsInstalled'
  BY DEF RecordAsInstalled
<1>5. AloneInv'
  <2>. SUFFICES ASSUME NEW u \in Thread, dnsPc'[u] # "idle", dnsHeld'[u].alone
                PROVE  /\ \A v \in Thread \ {u} : dnsPc'[v] = "idle"
                       /\ FrameAt(dnsPc[u], dnsHeld[u])'
    BY DEF AloneInv
  <2>1. u = t
    <3>1. u # t => dnsPc[u] # "idle" /\ dnsHeld[u].alone
      BY <1>1
    <3>. QED
      BY <3>1 DEF AloneInv
  <2>2. dnsHeld[t].alone /\ FrameAt(step, h)'
    BY <1>1, <2>1
  <2>3. \A v \in Thread \ {t} : dnsPc'[v] = "idle"
    BY <1>1, <2>2 DEF AloneInv
  <2>4. FrameAt(dnsPc[t], dnsHeld[t])'
    BY <1>1, <2>2 DEF FrameAt
  <2>. QED
    BY <2>1, <2>3, <2>4
<1>. QED
  BY <1>3, <1>4, <1>5

LEMMA ReturnKeepsInv ==
    ASSUME DnsInv, NEW t \in Thread, dnsPc[t] # "idle", DnsReturn(t), IsFiles(onDisk)',
           UNCHANGED <<dnsPhase, dnsMem, dnsFile, fetch, dnsHistory, dnsOps>>
    PROVE  DnsInv'
<1>1. DnsGoto(t, "idle", None) /\ "idle" \in DnsSteps
  BY DEF DnsReturn, DnsSteps
<1>. QED
  BY <1>1, MoveKeepsInv

LEMMA BeginKeepsInv ==
    ASSUME DnsInv, NEW t \in Thread, DnsBegin(t)
    PROVE  DnsInv'
<1>. USE DEF DnsInv, DnsBegin, DnsClient, dnsMem, dnsSystem, dnsHistory
<1>. DEFINE g == [desired |-> dns, want |-> Empties, file |-> "conf",
                  alone |-> \A v \in Thread : dnsPc[v] = "idle"]
<1>1. IsDnsFrame(g)
  <2>1. (\A v \in Thread : dnsPc[v] = "idle") \in BOOLEAN /\ dns \in DnsConfig
    BY DEF DnsTypeOK
  <2>. QED
    BY <2>1 DEF IsDnsFrame, IsFiles, Empties
<1>2. g.desired = dns /\ g.file = "conf" /\ (g.alone <=> \A v \in Thread : dnsPc[v] = "idle")
  OBVIOUS
<1>3. dnsHeld' = [u \in Thread |-> IF u = t THEN g ELSE IF dnsPc[u] = "idle" THEN None
                                   ELSE [dnsHeld[u] EXCEPT !.alone = FALSE]]
  OBVIOUS
<1>. HIDE DEF g
<1>4. dnsPhase' = "up" /\ "render" \in DnsSteps
  BY DEF DnsSteps
<1>5. /\ dnsPc' \in [Thread -> DnsSteps] /\ dnsPc'[t] = "render"
      /\ \A u \in Thread \ {t} : dnsPc'[u] = dnsPc[u]
  BY <1>4 DEF DnsTypeOK
<1>6. ASSUME NEW u \in Thread, u # t
      PROVE  IF dnsPc[u] = "idle" THEN dnsHeld'[u] = None
             ELSE IsDnsFrame(dnsHeld'[u]) /\ ~ dnsHeld'[u].alone
  <2>1. CASE dnsPc[u] = "idle"
    BY <1>3, <1>6, <2>1
  <2>2. CASE dnsPc[u] # "idle"
    <3>1. IsDnsFrame(dnsHeld[u])
      BY <2>2 DEF DnsTypeOK
    <3>2. dnsHeld'[u] = [dnsHeld[u] EXCEPT !.alone = FALSE]
      BY <1>3, <1>6, <2>2
    <3>3. IsDnsFrame(dnsHeld'[u]) /\ ~ dnsHeld'[u].alone
      BY <3>1, <3>2 DEF IsDnsFrame, IsFiles
    <3>. QED
      BY <2>2, <3>3
  <2>. QED
    BY <2>1, <2>2
<1>7. dnsHeld'[t] = g /\ DOMAIN dnsHeld' = Thread
  BY <1>3
<1>8. DnsTypeOK'
  <2>1. \A u \in Thread : IF dnsPc'[u] = "idle" THEN dnsHeld'[u] = None ELSE IsDnsFrame(dnsHeld'[u])
    BY <1>1, <1>5, <1>6, <1>7
  <2>2. dnsOps' \in 0..MaxDnsOps
    BY Values DEF DnsTypeOK
  <2>3. /\ dns' \in DnsConfig /\ {dnsDesired', dnsCurrent'} \subseteq DnsConfig \union {None}
        /\ dnsFile' \in DnsRecord \union {None} /\ dnsDesired' # None
        /\ dnsShared' \subseteq DOMAIN Defaults /\ (dnsShared' # {} => dnsCurrent' # None)
        /\ fetch' \in Download \union {None} /\ dnsMisrecorded' \in BOOLEAN
        /\ IsFiles(onDisk)'
    BY <1>4 DEF DnsTypeOK, IsFiles
  <2>. QED
    BY <1>4, <1>5, <1>7, <2>1, <2>2, <2>3 DEF DnsTypeOK
<1>9. RecordAsInstalled'
  BY DEF RecordAsInstalled
<1>10. AloneInv'
  <2>. SUFFICES ASSUME NEW u \in Thread, dnsPc'[u] # "idle", dnsHeld'[u].alone
                PROVE  /\ \A v \in Thread \ {u} : dnsPc'[v] = "idle"
                       /\ FrameAt(dnsPc[u], dnsHeld[u])'
    BY DEF AloneInv
  <2>1. u = t
    BY <1>5, <1>6
  <2>2. \A v \in Thread \ {t} : dnsPc'[v] = "idle"
    BY <1>2, <1>5, <1>7, <2>1
  <2>3. FrameAt(dnsPc[t], dnsHeld[t])'
    BY <1>2, <1>5, <1>7 DEF FrameAt
  <2>. QED
    BY <2>1, <2>2, <2>3
<1>. QED
  BY <1>8, <1>9, <1>10

\* An apply reads the sections twice more, and then writes the two files.
LEMMA RenderKeepsInv ==
    ASSUME DnsInv, NEW t \in Thread, RenderSections(t) \/ RenderLists(t)
    PROVE  DnsInv'
<1>0. PICK g : g = dnsHeld[t]
  OBVIOUS
<1>1. /\ dnsPc[t] # "idle" /\ UNCHANGED <<onDisk, served>>
      /\ UNCHANGED <<dnsPhase, dnsMem, dnsFile, fetch, dnsHistory, dnsOps>>
  BY DEF RenderSections, RenderLists, dnsSystem
<1>2. IsDnsFrame(g) /\ (g.alone => FrameAt(dnsPc[t], g)) /\ IsFiles(onDisk)'
  BY <1>0, <1>1 DEF DnsInv, DnsTypeOK, AloneInv, IsFiles
<1>3. CASE DnsReturn(t)
  BY <1>1, <1>2, <1>3, ReturnKeepsInv
<1>4. CASE RenderSections(t) /\ ~ DnsReturn(t)
  <2>1. PICK h : h = [g EXCEPT !.want.conf = RenderConf(dns)]
    OBVIOUS
  <2>2. DnsGoto(t, "lists", h) /\ dnsPc[t] = "render"
    BY <1>0, <1>4, <2>1 DEF RenderSections
  <2>3. /\ IsDnsFrame(h) /\ h.desired = g.desired /\ h.alone = g.alone /\ h.file = g.file
        /\ h.want.conf = RenderConf(dns)
    BY <1>2, <2>1 DEF IsDnsFrame, IsFiles
  <2>4. dns' = dns
    BY <1>1 DEF dnsMem
  <2>5. h.alone => FrameAt("lists", h)'
    BY <1>2, <2>2, <2>3, <2>4 DEF FrameAt
  <2>6. "lists" \in DnsSteps
    BY DEF DnsSteps
  <2>. QED
    BY <1>0, <1>1, <1>2, <2>2, <2>3, <2>5, <2>6, MoveKeepsInv
<1>5. CASE RenderLists(t)
  <2>1. PICK h : h = [g EXCEPT !.want.block = RenderBlock(dns)]
    OBVIOUS
  <2>2. DnsGoto(t, "install", h) /\ dnsPc[t] = "lists"
    BY <1>0, <1>5, <2>1 DEF RenderLists
  <2>3. /\ IsDnsFrame(h) /\ h.desired = g.desired /\ h.alone = g.alone /\ h.file = g.file
        /\ h.want = [conf |-> g.want.conf, block |-> RenderBlock(dns)]
    BY <1>2, <2>1 DEF IsDnsFrame, IsFiles
  <2>4. g.alone => h.want = Rendered(h.desired)
    BY <1>2, <2>2, <2>3 DEF FrameAt, Rendered
  <2>5. h.alone => FrameAt("install", h)'
    <3>1. h.alone => h.want = Rendered(h.desired) /\ h.file = "conf"
      BY <1>2, <2>2, <2>3, <2>4 DEF FrameAt
    <3>. QED
      BY <3>1 DEF FrameAt
  <2>6. "install" \in DnsSteps
    BY DEF DnsSteps
  <2>. QED
    BY <1>0, <1>1, <1>2, <2>2, <2>3, <2>5, <2>6, MoveKeepsInv
<1>. QED
  BY <1>3, <1>4, <1>5

LEMMA WritesKeepInv ==
    ASSUME DnsInv, NEW t \in Thread, InstallFile(t) \/ WriteFile(t) \/ RestartDnsmasq(t)
    PROVE  DnsInv'
<1>0. PICK g : g = dnsHeld[t]
  OBVIOUS
<1>1. /\ dnsPc[t] # "idle"
      /\ UNCHANGED <<dnsPhase, dnsMem, dnsFile, fetch, dnsHistory, dnsOps>>
  BY DEF InstallFile, WriteFile, RestartDnsmasq
<1>2. /\ IsDnsFrame(g) /\ IsFiles(onDisk) /\ (g.alone => FrameAt(dnsPc[t], g))
      /\ g.file \in {"conf", "block"} /\ IsFiles(g.want)
  BY <1>0, <1>1 DEF DnsInv, DnsTypeOK, AloneInv, IsDnsFrame
<1>3. \A v : IsFiles([onDisk EXCEPT ![g.file] = v])
  BY <1>2 DEF IsFiles
<1>4. IsFiles(onDisk)'
  <2>1. onDisk' = onDisk \/ \E v : onDisk' = [onDisk EXCEPT ![g.file] = v]
    BY <1>0 DEF InstallFile, WriteFile, RestartDnsmasq
  <2>2. PICK d : d = onDisk'
    OBVIOUS
  <2>3. IsFiles(d)
    BY <1>2, <1>3, <2>1, <2>2
  <2>. QED
    BY <2>2, <2>3 DEF IsFiles
<1>5. /\ {"install", "write", "restart", "commit"} \subseteq DnsSteps \ {"idle"}
  BY DEF DnsSteps
<1>6. CASE DnsReturn(t)
  BY <1>1, <1>4, <1>6, ReturnKeepsInv
<1>7. CASE InstallFile(t) /\ ~ DnsReturn(t)
  <2>1. /\ dnsPc[t] = "install" /\ DnsGoto(t, "write", g)
        /\ onDisk' = [onDisk EXCEPT ![g.file] = None]
    BY <1>0, <1>7 DEF InstallFile
  <2>2. g.file = "block" => onDisk'.conf = onDisk.conf
    BY <1>2, <2>1 DEF IsFiles
  <2>3. g.alone => FrameAt("write", g)'
    BY <1>2, <2>1, <2>2 DEF FrameAt
  <2>. QED
    BY <1>0, <1>1, <1>2, <1>4, <1>5, <2>1, <2>3, MoveKeepsInv
<1>8. CASE WriteFile(t) /\ ~ DnsReturn(t)
  <2>1. /\ dnsPc[t] = "write" /\ Written(t)
        /\ onDisk' = [onDisk EXCEPT ![g.file] = g.want[g.file]]
    BY <1>0, <1>8 DEF WriteFile
  <2>2. CASE g.file = "conf"
    <3>1. PICK h : h = [g EXCEPT !.file = "block"]
      OBVIOUS
    <3>2. IsDnsFrame(h) /\ h.desired = g.desired /\ h.want = g.want /\ h.alone = g.alone
      BY <1>2, <3>1 DEF IsDnsFrame
    <3>3. DnsGoto(t, "install", h)
      BY <1>0, <2>1, <2>2, <3>1 DEF Written
    <3>4. onDisk'.conf = g.want.conf
      BY <1>2, <2>1, <2>2 DEF IsFiles
    <3>5. h.alone => FrameAt("install", h)'
      BY <1>2, <2>1, <3>2, <3>4 DEF FrameAt
    <3>. QED
      BY <1>0, <1>1, <1>4, <1>5, <3>2, <3>3, <3>5, MoveKeepsInv
  <2>3. CASE g.file = "block"
    <3>1. DnsGoto(t, "restart", g)
      BY <1>0, <2>1, <2>3 DEF Written
    <3>2. onDisk'.conf = onDisk.conf /\ onDisk'.block = g.want.block
      BY <1>2, <2>1, <2>3 DEF IsFiles
    <3>3. g.alone => onDisk' = g.want
      <4>1. PICK d : d = onDisk'
        OBVIOUS
      <4>2. g.alone => d.conf = g.want.conf
        BY <1>2, <2>1, <2>3, <3>2, <4>1 DEF FrameAt
      <4>3. IsFiles(d)
        BY <1>4, <4>1 DEF IsFiles
      <4>. QED
        BY <1>2, <3>2, <4>1, <4>2, <4>3 DEF IsFiles
    <3>4. g.alone => FrameAt("restart", g)'
      BY <1>2, <2>1, <3>3 DEF FrameAt
    <3>. QED
      BY <1>0, <1>1, <1>2, <1>4, <1>5, <3>1, <3>4, MoveKeepsInv
  <2>. QED
    BY <1>2, <2>2, <2>3
<1>9. CASE RestartDnsmasq(t) /\ ~ DnsReturn(t)
  <2>1. /\ dnsPc[t] = "restart" /\ DnsGoto(t, "commit", g)
        /\ served' = onDisk /\ onDisk' = onDisk
    BY <1>0, <1>9 DEF RestartDnsmasq
  <2>2. g.alone => FrameAt("commit", g)'
    BY <1>2, <2>1 DEF FrameAt
  <2>. QED
    BY <1>0, <1>1, <1>2, <1>4, <1>5, <2>1, <2>2, MoveKeepsInv
<1>. QED
  BY <1>6, <1>7, <1>8, <1>9

\* The record changes over, at the end of an apply or of a boot.
LEMMA CommitKeepsInv ==
    ASSUME DnsInv, NEW c \in DnsConfig, DnsCommit(c), dnsPhase # "down",
           dnsPhase' = "up", UNCHANGED <<fetch, dnsOps>>, IsFiles(onDisk)',
           \/ \E t \in Thread : DnsReturn(t) /\ UNCHANGED dnsSystem
           \/ dnsPhase = "loaded" /\ UNCHANGED dnsApplying
    PROVE  DnsInv'
<1>. USE DEF DnsInv, DnsCommit
<1>1. /\ dnsPc' \in [Thread -> DnsSteps] /\ DOMAIN dnsHeld' = Thread
      /\ \A u \in Thread : \/ dnsPc'[u] = "idle" /\ dnsHeld'[u] = None
                           \/ /\ dnsPc'[u] = dnsPc[u] /\ dnsHeld'[u] = dnsHeld[u]
                              /\ dnsPc[u] # "idle" /\ UNCHANGED dnsSystem
  <2>1. CASE dnsPhase = "loaded" /\ UNCHANGED dnsApplying
    BY <2>1 DEF dnsApplying, DnsTypeOK
  <2>2. CASE \E t \in Thread : DnsReturn(t) /\ UNCHANGED dnsSystem
    <3>1. PICK t \in Thread : DnsReturn(t) /\ UNCHANGED dnsSystem
      BY <2>2
    <3>2. "idle" \in DnsSteps
      BY DEF DnsSteps
    <3>. QED
      BY <3>1, <3>2 DEF DnsReturn, DnsGoto, DnsTypeOK
  <2>. QED
    BY <2>1, <2>2
<1>2. DnsTypeOK'
  <2>1. [desired |-> dnsDesired, current |-> c] \in DnsRecord
    BY DEF DnsTypeOK, DnsRecord
  <2>2. \A u \in Thread : IF dnsPc'[u] = "idle" THEN dnsHeld'[u] = None ELSE IsDnsFrame(dnsHeld'[u])
    BY <1>1 DEF DnsTypeOK
  <2>3. /\ dns' \in DnsConfig /\ {dnsDesired', dnsCurrent'} \subseteq DnsConfig \union {None}
        /\ dnsFile' \in DnsRecord \union {None} /\ dnsDesired' # None /\ dnsShared' = {}
        /\ fetch' \in Download \union {None} /\ dnsMisrecorded' \in BOOLEAN
        /\ dnsOps' \in 0..MaxDnsOps
    BY <2>1 DEF DnsTypeOK
  <2>. QED
    BY <1>1, <2>2, <2>3 DEF DnsTypeOK
<1>3. RecordAsInstalled'
  BY DEF RecordAsInstalled
<1>4. AloneInv'
  <2>. SUFFICES ASSUME NEW u \in Thread, dnsPc'[u] # "idle", dnsHeld'[u].alone
                PROVE  /\ \A v \in Thread \ {u} : dnsPc'[v] = "idle"
                       /\ FrameAt(dnsPc[u], dnsHeld[u])'
    BY DEF AloneInv
  <2>1. dnsPc'[u] = dnsPc[u] /\ dnsHeld'[u] = dnsHeld[u] /\ UNCHANGED dnsSystem
    BY <1>1
  <2>2. FrameAt(dnsPc[u], dnsHeld[u]) /\ \A v \in Thread \ {u} : dnsPc[v] = "idle"
    BY <2>1 DEF AloneInv
  <2>3. \A v \in Thread \ {u} : dnsPc'[v] = "idle"
    BY <1>1, <2>2
  <2>. QED
    BY <2>1, <2>2, <2>3 DEF FrameAt, dnsSystem
<1>. QED
  BY <1>2, <1>3, <1>4

LEMMA ApplyKeepsInv ==
    ASSUME DnsInv, NEW t \in Thread, DnsApply(t)
    PROVE  DnsInv'
<1>1. CASE DnsFinish(t)
  <2>1. PICK g : g = dnsHeld[t]
    OBVIOUS
  <2>2. g.desired \in DnsConfig /\ dnsPhase = "up"
    BY <1>1, <2>1 DEF DnsFinish, DnsInv, DnsTypeOK, IsDnsFrame
  <2>3. DnsCommit(g.desired) /\ DnsReturn(t) /\ UNCHANGED <<dnsPhase, fetch, dnsSystem, dnsOps>>
    BY <1>1, <2>1 DEF DnsFinish
  <2>4. IsFiles(onDisk)'
    BY <2>3 DEF dnsSystem, IsFiles, DnsInv, DnsTypeOK
  <2>. QED
    BY <2>2, <2>3, <2>4, CommitKeepsInv
<1>. QED
  BY <1>1, BeginKeepsInv, RenderKeepsInv, WritesKeepInv DEF DnsApply

LEMMA StartAndStopKeepInv ==
    ASSUME DnsInv,
           \/ \E ignore \in BOOLEAN : DnsLoad(ignore)
           \/ BootLeaves \/ BootApplies \/ BootFails \/ DnsStop
    PROVE  DnsInv'
<1>. USE DEF DnsInv, dnsMem, dnsApplying, dnsSystem, dnsHistory
<1>0. dnsPhase # "up" => \A t \in Thread : dnsPc[t] = "idle" /\ dnsHeld[t] = None
  BY DEF DnsTypeOK
<1>1. ASSUME NEW ignore \in BOOLEAN, DnsLoad(ignore) PROVE DnsInv'
  <2>1. /\ dns' \in DnsConfig /\ dnsDesired' = dns'
        /\ dnsCurrent' \in DnsConfig \union {None}
        /\ dnsFile' = [desired |-> dns', current |-> dnsCurrent']
    BY <1>1, Values DEF DnsLoad, DnsTypeOK, DnsRecord
  <2>2. dnsFile' \in DnsRecord /\ dnsFile'.current = dnsCurrent'
    BY <2>1 DEF DnsRecord
  <2>3. /\ dnsPhase' \in {"loaded", "up"} /\ dnsShared' = {}
        /\ UNCHANGED <<dnsPc, dnsHeld, onDisk, fetch, dnsMisrecorded>>
        /\ \A t \in Thread : dnsPc[t] = "idle" /\ dnsHeld[t] = None
    BY <1>0, <1>1 DEF DnsLoad, DnsTypeOK
  <2>4. DnsTypeOK'
    <3>1. dnsOps' \in 0..MaxDnsOps
      BY <1>1, Values DEF DnsLoad, DnsTypeOK
    <3>2. dnsDesired' # None /\ IsFiles(onDisk)'
      BY <2>1, <2>3, Values DEF DnsTypeOK, IsFiles
    <3>. QED
      BY <2>1, <2>2, <2>3, <3>1, <3>2, Values DEF DnsTypeOK
  <2>5. RecordAsInstalled'
    BY <1>1, <2>1, <2>2 DEF DnsLoad, RecordAsInstalled
  <2>. QED
    BY <2>3, <2>4, <2>5 DEF AloneInv
<1>2. CASE BootLeaves
  BY <1>0, <1>2 DEF BootLeaves, BootUp, DnsTypeOK, IsFiles, RecordAsInstalled, AloneInv
<1>3. CASE BootApplies
  <2>1. dnsPhase = "loaded" /\ dns \in DnsConfig /\ IsFiles(onDisk)'
    BY <1>3 DEF BootApplies, BootUp, DnsTypeOK, IsFiles, Rendered
  <2>. QED
    BY <1>3, <2>1, CommitKeepsInv DEF BootApplies, BootUp
<1>4. CASE BootFails
  <2>1. IsFiles(onDisk)'
    <3>1. PICK d : d = onDisk'
      OBVIOUS
    <3>2. /\ IsFiles(onDisk) /\ IsFiles([onDisk EXCEPT !.conf = None])
          /\ IsFiles(Rendered(dns)) /\ \A b : IsFiles([Rendered(dns) EXCEPT !.block = b])
      BY DEF DnsTypeOK, IsFiles, Rendered
    <3>3. IsFiles(d)
      BY <1>4, <3>1, <3>2 DEF BootFails
    <3>. QED
      BY <3>1, <3>3 DEF IsFiles
  <2>. QED
    BY <1>0, <1>4, <2>1 DEF BootFails, BootUp, DnsTypeOK, RecordAsInstalled, AloneInv
<1>5. CASE DnsStop
  <2>1. /\ dnsPc' \in [Thread -> DnsSteps] /\ DOMAIN dnsHeld' = Thread
        /\ \A t \in Thread : dnsPc'[t] = "idle" /\ dnsHeld'[t] = None
    BY <1>5 DEF DnsStop, DnsSteps
  <2>2. DnsTypeOK'
    BY <1>5, <2>1, Values DEF DnsStop, DnsTypeOK, IsFiles
  <2>. QED
    BY <1>5, <2>1, <2>2 DEF DnsStop, RecordAsInstalled, AloneInv
<1>. QED
  BY <1>1, <1>2, <1>3, <1>4, <1>5

LEMMA StepKeepsInv == DnsInv /\ [DnsNext]_dnsVars => DnsInv'
<1>. SUFFICES ASSUME DnsInv, [DnsNext]_dnsVars PROVE DnsInv'
  OBVIOUS
<1>1. CASE EditSwitch \/ EditItem
  <2>1. dns \in DnsConfig /\ fetch \in Download \union {None} /\ dnsOps \in 0..MaxDnsOps
    BY DEF DnsInv, DnsTypeOK
  <2>2. PICK section, v : Fits(section, v) /\ EditSection(section, v)
    BY <1>1, <2>1, EditsFit
  <2>3. dnsOps' \in 0..MaxDnsOps
    BY <2>1, <2>2, Values DEF EditSection, DnsClient
  <2>. QED
    BY <2>1, <2>2, <2>3, ChangeKeepsInv DEF EditSection
<1>2. CASE DnsDiscard
  <2>1. /\ dnsCurrent \in DnsConfig /\ dnsPhase = "up"
        /\ dnsShared' \subseteq DOMAIN dnsCurrent
    BY <1>2 DEF DnsDiscard, DnsClient, DnsInv, DnsTypeOK
  <2>2. DOMAIN dnsCurrent = DOMAIN Defaults
    BY <2>1 DEF DnsConfig, Defaults
  <2>3. fetch' \in Download \union {None}
    <3>1. CASE fetch = None
      BY <1>2, <3>1 DEF DnsDiscard
    <3>2. CASE fetch # None
      <4>. DEFINE still == fetch.attached /\ "lists" \in dnsShared
      <4>1. still \in BOOLEAN /\ fetch.list \in ListId \union {None} /\ fetch \in Download
        BY <3>2 DEF DnsInv, DnsTypeOK, Download
      <4>2. fetch' = [fetch EXCEPT !.attached = still]
        BY <1>2, <3>2 DEF DnsDiscard
      <4>. HIDE DEF still
      <4>. QED
        BY <4>1, <4>2 DEF Download
    <3>. QED
      BY <3>1, <3>2
  <2>4. dnsOps' \in 0..MaxDnsOps
    BY <1>2, Values DEF DnsDiscard, DnsClient, DnsInv, DnsTypeOK
  <2>. QED
    BY <1>2, <2>1, <2>2, <2>3, <2>4, Values, SaveKeepsInv DEF DnsDiscard
<1>3. CASE UNCHANGED dnsVars
  BY <1>3 DEF dnsVars, dnsMem, dnsApplying, dnsSystem, dnsHistory,
              DnsInv, DnsTypeOK, IsFiles, RecordAsInstalled, AloneInv, FrameAt
<1>. QED
  BY <1>1, <1>2, <1>3, ListsKeepInv, ApplyKeepsInv, StartAndStopKeepInv DEF DnsNext

LEMMA DnsInvAlways == DnsSpec => []DnsInv
  BY DnsInvInit, StepKeepsInv, PTL DEF DnsSpec

-----------------------------------------------------------------------------
\* Sections keep their shape through every edit, discard, download and start,
\* and an apply under way holds a configuration.
THEOREM DnsmasqTypes == DnsSpec => []DnsTypeOK
<1>1. DnsInv => DnsTypeOK
  BY DEF DnsInv
<1>. QED
  BY <1>1, DnsInvAlways, PTL

\* current_state is what the last successful apply or boot installed, until an
\* edit reaches it through a section that discard has shared (plugin.py:436):
\* no download that outlives a discard, a delete or an apply does.
THEOREM DnsmasqRecord == DnsSpec => []DnsRecordIsInstalled
<1>1. DnsInv => DnsRecordIsInstalled
  BY DEF DnsInv, RecordAsInstalled, DnsRecordIsInstalled
<1>. QED
  BY <1>1, DnsInvAlways, PTL

\* An apply that no other one overlapped, and no edit before it had read the
\* sections for the last time, records what dnsmasq has loaded: both files as
\* rendered from the configuration it records, however many edits, downloads and
\* failed applies came before.
THEOREM DnsmasqServed == DnsSpec => []DnsRecordIsServed
<1>1. DnsInv => DnsRecordIsServed
  <2>. SUFFICES ASSUME DnsInv, NEW t \in Thread, dnsPc[t] = "commit", dnsHeld[t].alone
                PROVE  served = Rendered(dnsHeld[t].desired)
    BY DEF DnsRecordIsServed
  <2>1. FrameAt("commit", dnsHeld[t])
    BY DEF DnsInv, AloneInv
  <2>. QED
    BY <2>1 DEF FrameAt
<1>. QED
  BY <1>1, DnsInvAlways, PTL

\* The end of a refresh, or of one that failed, leaves the block lists that there
\* are, whatever was deleted, discarded or edited while it was downloading.
THEOREM RefreshIsSafe == DnsSpec => RefreshResurrectsNothing
<1>1. DnsInv /\ [DnsNext]_dnsVars
        => [fetch # None /\ fetch' = None /\ fetch.list # None /\ dnsPhase' # "down" =>
              /\ DOMAIN dns'.lists = DOMAIN dns.lists
              /\ [dns' EXCEPT !.lists = dns.lists] = dns]_dnsVars
  <2>. SUFFICES ASSUME DnsInv, DnsNext,
                       fetch # None, fetch' = None, fetch.list # None, dnsPhase' # "down"
                PROVE  /\ DOMAIN dns'.lists = DOMAIN dns.lists
                       /\ [dns' EXCEPT !.lists = dns.lists] = dns
    OBVIOUS
  <2>1. dns \in DnsConfig /\ fetch \in Download
    BY DEF DnsInv, DnsTypeOK
  <2>2. (\E d \in Domains : FinishRefresh(d)) \/ FailDownload
    <3>1. ~ EditSwitch /\ ~ EditItem
      BY <2>1, EditsFit DEF EditSection
    <3>2. \A still \in BOOLEAN : [fetch EXCEPT !.attached = still] # None
      <4>1. \A still \in BOOLEAN : [fetch EXCEPT !.attached = still] \in Download
        BY <2>1 DEF Download
      <4>. QED
        BY <4>1, Values
    <3>3. ~ DnsDiscard
      <4>1. (fetch.attached /\ "lists" \in dnsShared) \in BOOLEAN
        OBVIOUS
      <4>. QED
        BY <3>2, <4>1 DEF DnsDiscard
    <3>4. \A l \in ListId : ~ DeleteBlocklist(l)
      BY <3>2 DEF DeleteBlocklist
    <3>5. /\ \A l \in ListId \union {None} : ~ BeginDownload(l)
          /\ \A l \in ListId, d \in Domains : ~ FinishAdd(l, d)
      BY DEF BeginDownload, FinishAdd
    <3>6. (\A t \in Thread : ~ DnsApply(t)) /\ ~ DnsStop
      BY DEF DnsApply, DnsBegin, RenderSections, RenderLists, InstallFile, WriteFile,
             RestartDnsmasq, DnsFinish, DnsStop
    <3>7. /\ ~ \E ignore \in BOOLEAN : DnsLoad(ignore)
          /\ ~ BootLeaves /\ ~ BootApplies /\ ~ BootFails
      BY DEF DnsLoad, BootLeaves, BootApplies, BootFails, BootUp
    <3>. QED
      BY <3>1, <3>3, <3>4, <3>5, <3>6, <3>7 DEF DnsNext, EditList
  <2>3. CASE FailDownload
    BY <2>1, <2>3 DEF FailDownload, dnsMem, DnsConfig
  <2>4. ASSUME NEW d \in Domains, FinishRefresh(d)
        PROVE  /\ DOMAIN dns'.lists = DOMAIN dns.lists
               /\ [dns' EXCEPT !.lists = dns.lists] = dns
    <3>. DEFINE lists == IF fetch.attached THEN [dns.lists EXCEPT ![fetch.list] = d] ELSE dns.lists
    <3>1. dns' = [dns EXCEPT !.lists = lists] /\ DOMAIN lists = DOMAIN dns.lists
      <4>1. Change("lists", lists)
        BY <2>4 DEF FinishRefresh
      <4>2. dns' = [dns EXCEPT !.lists = lists]
        BY <4>1 DEF Change, DnsSave
      <4>3. DOMAIN lists = DOMAIN dns.lists
        OBVIOUS
      <4>. QED
        BY <4>2, <4>3
    <3>. HIDE DEF lists
    <3>2. dns'.lists = lists
      BY <2>1, <3>1 DEF DnsConfig
    <3>3. [dns' EXCEPT !.lists = dns.lists] = dns
      BY <2>1, <3>1 DEF DnsConfig
    <3>. QED
      BY <3>1, <3>2, <3>3
  <2>. QED
    BY <2>2, <2>3, <2>4
<1>. QED
  BY <1>1, DnsInvAlways, PTL DEF DnsSpec, RefreshResurrectsNothing
=============================================================================
