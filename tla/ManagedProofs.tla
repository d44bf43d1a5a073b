------------------------------ MODULE ManagedProofs ------------------------------
(***************************************************************************)
(* Proofs about the plugins that change the system first and record the    *)
(* change afterwards, for any entries, values and number of threads: Host, *)
(* then Packages.                                                          *)
(***************************************************************************)
EXTENDS Host, Packages, SequenceTheorems, WellFoundedInduction, TLAPS

-----------------------------------------------------------------------------
(* Host: what the system can hold, and where. *)

Thing == {k \in Key : ~ IsCron(k)} \union ({"cron"} \X Command)

Contents(o) ==
    CASE o[1] = "cron" -> Schedule
      [] o[1] = "kernmod" -> {"loaded"}
      [] OTHER -> Spec

MachineOK == \A o \in DOMAIN machine : o \in Thing /\ machine[o] \in Contents(o)

\* What a thread has left to do, by the request it serves.
Proper(r) ==
    /\ r.do = "set" => r.val \in Managed(r.key)
    /\ r.do = "delete" => r.key[1] \in {"users", "groups", "cron"}
    /\ r.do \in {"join", "leave"} => r.key[1] = "groups" /\ r.val \in User
    /\ r.old # {} => r.key[1] = "kernmod"

HostTyped ==
    /\ hostPhase \in {"down", "loaded", "up"}
    /\ host \in HostState
    /\ hostFile \in HostRecord \union {None}
    /\ hostPhase = "loaded" => hostFile # None /\ host = hostFile.desired
    /\ request \in [Thread -> Request \union {None}]
    /\ \A t \in Thread : request[t] # None => hostPhase = "up" /\ Proper(request[t])
    /\ MachineOK
    /\ enrolled \in [Group -> SUBSET User]
    /\ ffLoads \subseteq Kmod /\ lines \subseteq ConfFile \X Kmod
    /\ doubtful \subseteq Key
    /\ hostOps \in 0..MaxHostOps

-----------------------------------------------------------------------------
(* What holds while requests are under way. *)

\* A thread is between the change of that entry and its record, or is changing
\* the very same line of the crontab.
Covered(j) ==
    \E t \in Thread :
        /\ request[t] # None
        /\ \/ request[t].key = j
           \/ /\ request[t].do = "set"
              /\ Object(request[t].key, request[t].val) = Object(j, host[j])

RightOrCovered ==
    hostPhase = "up" => \A j \in DOMAIN host \ doubtful : Holds(j, host[j]) \/ Covered(j)

\* A request nobody has interfered with: what it records is on the system.
AloneIsRight ==
    \A t \in Thread : request[t] # None /\ request[t].alone =>
        /\ \A s \in Thread \ {t} :
              request[s] # None => ~ Conflicts(request[s].key, request[t].key)
        /\ request[t].do = "set" => Holds(request[t].key, request[t].val)
        /\ request[t].do \in {"join", "leave"} /\ request[t].key \in DOMAIN host \ doubtful =>
              Holds(request[t].key, host[request[t].key])

\* A module is loaded, and has a file of our own, before others lose theirs.
ModulesFirst ==
    \A t \in Thread : request[t] # None =>
        /\ request[t].key[1] = "kernmod" => request[t].key \in DOMAIN machine
        /\ request[t].old # {} => request[t].key[2] \in ffLoads

SharingInDoubt == hostPhase = "up" => Sharing(host) \subseteq doubtful

\* A domain name is not restored, so that it must be the one on file.
DomainOnFile ==
    hostFile # None /\ Domain \in DOMAIN hostFile.desired \ doubtful =>
        Busy(Domain) \/ Holds(Domain, hostFile.desired[Domain])

HostInv ==
    /\ HostTyped
    /\ RightOrCovered /\ AloneIsRight /\ ModulesFirst /\ SharingInDoubt /\ DomainOnFile

-----------------------------------------------------------------------------
(* Keys, objects and values. *)

LEMMA Keys ==
    /\ \A k \in Key : k = <<k[1], k[2]>>
    /\ Domain \in Key /\ ~ IsCron(Domain) /\ Domain[1] = "domainname"
    /\ \A k \in Key : k[1] = "domainname" => k = Domain
    /\ \A m \in Kmod : <<"kernmod", m>> \in Key
    /\ \A k \in Key : k[1] = "kernmod" => k = <<"kernmod", k[2]>> /\ k[2] \in Kmod
    /\ \A g \in Group : GroupKey(g) \in Key /\ GroupKey(g)[1] = "groups"
    /\ \A k \in Key : k[1] \in {"sysctl", "users", "groups", "cron", "kernmod", "domainname"}
  BY DEF Key, Domain, IsCron, GroupKey

LEMMA Objects ==
    ASSUME NEW k \in Key, NEW v \in Managed(k)
    PROVE  /\ Object(k, v) \in Thing /\ Content(k, v) \in Contents(Object(k, v))
           /\ \A j \in Key : \A w \in Managed(j) :
                 Object(j, w) = Object(k, v) =>
                    \/ j = k
                    \/ IsCron(j) /\ IsCron(k) /\ w.command = v.command
<1>1. CASE k[1] = "cron"
  BY <1>1 DEF Object, Content, Contents, Thing, Managed, Body, IsCron, Key
<1>2. CASE k[1] = "kernmod"
  BY <1>2, Keys DEF Object, Content, Contents, Thing, Managed, Body, IsCron
<1>3. CASE k[1] = "groups"
  BY <1>3, Keys DEF Object, Content, Contents, Thing, Managed, Body, IsCron
<1>4. CASE k[1] \in {"sysctl", "users", "domainname"}
  BY <1>4, Keys DEF Object, Content, Contents, Thing, Managed, Body, IsCron
<1>5. ASSUME NEW j \in Key, NEW w \in Managed(j), Object(j, w) = Object(k, v)
      PROVE  \/ j = k
             \/ IsCron(j) /\ IsCron(k) /\ w.command = v.command
  BY <1>5, Keys DEF Object, IsCron
<1>. QED
  BY <1>1, <1>2, <1>3, <1>4, <1>5, Keys

LEMMA HostStates ==
    ASSUME NEW h \in HostState
    PROVE  /\ DOMAIN h \in SUBSET Key /\ \A k \in DOMAIN h : h[k] \in Managed(k)
           /\ \A k \in Key : \A v \in Managed(k) : k :> v @@ h \in HostState
           /\ \A S : Without(h, S) \in HostState
           /\ \A k \in DOMAIN h : \A v \in Managed(k) : [h EXCEPT ![k] = v] \in HostState
<1>. USE DEF HostState
<1>1. PICK A \in SUBSET Key : h \in [A -> AnyManaged]
  BY DEF Table
<1>2. \A k \in Key : \A v \in Managed(k) : v \in AnyManaged
  BY DEF AnyManaged
<1>3. ASSUME NEW k \in Key, NEW v \in Managed(k) PROVE k :> v @@ h \in HostState
  <2>1. v \in AnyManaged
    BY <1>2
  <2>2. k :> v @@ h \in [({k} \union A) -> AnyManaged]
    BY <1>1, <2>1 DEF :>, @@
  <2>3. k :> v @@ h \in Table(Key, AnyManaged)
    BY <2>2 DEF Table
  <2>4. \A j \in DOMAIN (k :> v @@ h) : (k :> v @@ h)[j] \in Managed(j)
    BY DEF :>, @@
  <2>. QED
    BY <2>3, <2>4
<1>4. ASSUME NEW S PROVE Without(h, S) \in HostState
  <2>1. Without(h, S) \in [(A \ S) -> AnyManaged]
    BY <1>1 DEF Without, Restrict
  <2>2. Without(h, S) \in Table(Key, AnyManaged)
    BY <2>1 DEF Table
  <2>3. \A j \in DOMAIN Without(h, S) : Without(h, S)[j] \in Managed(j)
    BY DEF Without, Restrict
  <2>. QED
    BY <2>2, <2>3
<1>5. ASSUME NEW k \in DOMAIN h, NEW v \in Managed(k) PROVE [h EXCEPT ![k] = v] \in HostState
  <2>1. v \in AnyManaged
    BY <1>1, <1>2
  <2>2. [h EXCEPT ![k] = v] \in [A -> AnyManaged]
    BY <1>1, <2>1
  <2>3. [h EXCEPT ![k] = v] \in Table(Key, AnyManaged)
    BY <2>2 DEF Table
  <2>4. \A j \in DOMAIN [h EXCEPT ![k] = v] : [h EXCEPT ![k] = v][j] \in Managed(j)
    BY <1>1
  <2>. QED
    BY <2>3, <2>4
<1>. QED
  BY <1>1, <1>3, <1>4, <1>5

\* A request is disturbed by those that may change the same object, and goes
\* on otherwise.
LEMMA DisturbedIs ==
    ASSUME HostTyped, NEW t \in Thread, NEW k
    PROVE  /\ Disturbed(t, k) \in [Thread -> Request \union {None}]
           /\ \A s \in Thread :
                 /\ Disturbed(t, k)[s] # None <=> request[s] # None
                 /\ request[s] # None =>
                       /\ Disturbed(t, k)[s].do = request[s].do
                       /\ Disturbed(t, k)[s].key = request[s].key
                       /\ Disturbed(t, k)[s].val = request[s].val
                       /\ Disturbed(t, k)[s].old = request[s].old
                       /\ Disturbed(t, k)[s].alone =>
                             request[s].alone /\ (s # t => ~ Conflicts(request[s].key, k))
<1>. DEFINE d(s) == IF s \in Rivals(t, k) THEN [request[s] EXCEPT !.alone = FALSE] ELSE request[s]
<1>1. Disturbed(t, k) = [s \in Thread |-> d(s)]
  BY DEF Disturbed
<1>2. None \notin Request
  BY HostAssumption
<1>3. ASSUME NEW s \in Thread
      PROVE  /\ d(s) \in Request \union {None}
             /\ d(s) # None <=> request[s] # None
             /\ request[s] # None =>
                   /\ d(s).do = request[s].do /\ d(s).key = request[s].key
                   /\ d(s).val = request[s].val /\ d(s).old = request[s].old
                   /\ d(s).alone => request[s].alone /\ (s # t => ~ Conflicts(request[s].key, k))
  <2>1. request[s] \in Request \union {None}
    BY DEF HostTyped
  <2>2. CASE s \in Rivals(t, k)
    <3>1. request[s] \in Request
      BY <2>1, <2>2 DEF Rivals
    <3>2. d(s) = [request[s] EXCEPT !.alone = FALSE]
      BY <2>2
    <3>3. d(s) \in Request
      BY <3>1, <3>2 DEF Request
    <3>4. /\ d(s).do = request[s].do /\ d(s).key = request[s].key
          /\ d(s).val = request[s].val /\ d(s).old = request[s].old
          /\ d(s).alone = FALSE
      BY <3>1, <3>2 DEF Request
    <3>. QED
      BY <1>2, <2>2, <3>1, <3>3, <3>4
  <2>3. CASE s \notin Rivals(t, k)
    BY <2>1, <2>3 DEF Rivals
  <2>. QED
    BY <2>2, <2>3
<1>. HIDE DEF d
<1>. QED
  BY <1>1, <1>3

LEMMA SubmitIs ==
    ASSUME HostTyped, NEW t \in Thread, request[t] = None,
           NEW do \in {"set", "delete", "join", "leave"}, NEW k \in Key,
           NEW v \in AnyManaged \union User \union {None}, NEW old \in SUBSET ConfFile,
           NEW known \in BOOLEAN, Submit(t, do, k, v, old, known)
    PROVE  /\ request' \in [Thread -> Request \union {None}]
           /\ request'[t] # None /\ request'[t].do = do /\ request'[t].key = k
           /\ request'[t].val = v /\ request'[t].old = old
           /\ request'[t].alone => known
           /\ request'[t].alone =>
                 \A s \in Thread \ {t} : request[s] # None => ~ Conflicts(request[s].key, k)
           /\ \A s \in Thread \ {t} :
                 /\ request'[s] # None <=> request[s] # None
                 /\ request[s] # None =>
                       /\ request'[s].do = request[s].do
                       /\ request'[s].key = request[s].key
                       /\ request'[s].val = request[s].val
                       /\ request'[s].old = request[s].old
                       /\ request'[s].alone =>
                             request[s].alone /\ ~ Conflicts(request[s].key, k)
<1>. DEFINE r == [do |-> do, key |-> k, val |-> v,
                  alone |-> known /\ Rivals(t, k) = {}, old |-> old]
            d == Disturbed(t, k)
<1>1. request' = [d EXCEPT ![t] = r]
  BY DEF Submit
<1>2. r \in Request
  <2>1. (known /\ Rivals(t, k) = {}) \in BOOLEAN
    OBVIOUS
  <2>. QED
    BY <2>1 DEF Request
<1>3. r # None
  BY <1>2, HostAssumption
<1>4. /\ r.do = do /\ r.key = k /\ r.val = v /\ r.old = old
      /\ r.alone => known /\ Rivals(t, k) = {}
  OBVIOUS
<1>5. d \in [Thread -> Request \union {None}]
  BY DisturbedIs
<1>6. \A s \in Thread :
         /\ d[s] # None <=> request[s] # None
         /\ request[s] # None =>
               /\ d[s].do = request[s].do /\ d[s].key = request[s].key
               /\ d[s].val = request[s].val /\ d[s].old = request[s].old
               /\ d[s].alone => request[s].alone /\ (s # t => ~ Conflicts(request[s].key, k))
  BY DisturbedIs
<1>. HIDE DEF r, d
<1>7. request'[t] = r /\ \A s \in Thread \ {t} : request'[s] = d[s]
  BY <1>1, <1>5
<1>8. request' \in [Thread -> Request \union {None}]
  BY <1>1, <1>2, <1>5
<1>9. Rivals(t, k) = {} =>
         \A s \in Thread \ {t} : request[s] # None => ~ Conflicts(request[s].key, k)
  BY DEF Rivals
<1>. QED
  BY <1>3, <1>4, <1>6, <1>7, <1>8, <1>9

\* The system is as it was at o; and wherever no entry that conflicts with k
\* can be.
AsBefore(o) ==
    /\ o \in DOMAIN machine' <=> o \in DOMAIN machine
    /\ o \in DOMAIN machine => machine'[o] = machine[o]

Elsewhere(k) ==
    \A j \in Key : \A w \in Managed(j) : ~ Conflicts(j, k) => AsBefore(Object(j, w))

\* What a request leaves of the system: modules stay loaded.
SystemKept ==
    /\ MachineOK' /\ enrolled' \in [Group -> SUBSET User]
    /\ ffLoads \subseteq ffLoads' /\ ffLoads' \subseteq Kmod
    /\ \A m \in Kmod : <<"kernmod", m>> \in DOMAIN machine => <<"kernmod", m>> \in DOMAIN machine'

\* An entry that holds, holds on: it does not conflict with k.
LEMMA HoldsOn ==
    ASSUME NEW k, Elsewhere(k), NEW j \in Key, NEW w \in Managed(j), ~ Conflicts(j, k), Holds(j, w)
    PROVE  Holds(j, w)'
  BY DEF Elsewhere, AsBefore, Holds

\* A request has done the first half of its work.
LEMMA BeginKeepsInv ==
    ASSUME HostInv, NEW t \in Thread, HostClient(t),
           NEW do \in {"set", "delete", "join", "leave"}, NEW k \in Key,
           NEW v \in AnyManaged \union User \union {None}, NEW old \in SUBSET ConfFile,
           NEW known \in BOOLEAN, Submit(t, do, k, v, old, known),
           do = "set" => v \in Managed(k),
           do = "set" /\ known => Holds(k, v)',
           do = "delete" => k[1] \in {"users", "groups", "cron"},
           do \in {"join", "leave"} => k[1] = "groups" /\ v \in User /\ machine' = machine,
           old # {} => k[1] = "kernmod" /\ k[2] \in ffLoads',
           k[1] = "kernmod" => k \in DOMAIN machine',
           UNCHANGED <<hostPhase, host, hostFile, lines, doubtful>>,
           SystemKept, Elsewhere(k),
           \A j \in DOMAIN host \ doubtful :
              \/ j = k
              \/ do = "set" /\ Object(j, host[j]) = Object(k, v)
              \/ AsBefore(Object(j, host[j]))
    PROVE  HostInv'
<1>1. HostTyped /\ hostPhase = "up" /\ request[t] = None /\ hostOps < MaxHostOps
      /\ hostOps' = hostOps + 1
  BY DEF HostInv, HostClient
<1>2. /\ request' \in [Thread -> Request \union {None}]
      /\ request'[t] # None /\ request'[t].do = do /\ request'[t].key = k
      /\ request'[t].val = v /\ request'[t].old = old
      /\ request'[t].alone => known
      /\ request'[t].alone =>
            \A s \in Thread \ {t} : request[s] # None => ~ Conflicts(request[s].key, k)
      /\ \A s \in Thread \ {t} :
            /\ request'[s] # None <=> request[s] # None
            /\ request[s] # None =>
                  /\ request'[s].do = request[s].do
                  /\ request'[s].key = request[s].key
                  /\ request'[s].val = request[s].val
                  /\ request'[s].old = request[s].old
                  /\ request'[s].alone =>
                        request[s].alone /\ ~ Conflicts(request[s].key, k)
  BY <1>1, SubmitIs
<1>3. \A s \in Thread \ {t} :
         /\ request'[s] # None <=> request[s] # None
         /\ request[s] # None =>
               /\ request'[s].do = request[s].do /\ request'[s].key = request[s].key
               /\ request'[s].val = request[s].val /\ request'[s].old = request[s].old
               /\ request'[s].alone => request[s].alone /\ ~ Conflicts(request[s].key, k)
  BY <1>2
<1>4. \A s \in Thread : request[s] # None => request[s] \in Request /\ request[s].key \in Key
  BY <1>1 DEF HostTyped, Request
<1>5. DOMAIN host \in SUBSET Key /\ \A j \in DOMAIN host : host[j] \in Managed(j)
  BY <1>1, HostStates DEF HostTyped
<1>6. HostTyped'
  <2>1. \A s \in Thread : request'[s] # None => Proper(request'[s])
    <3>1. Proper(request'[t])
      BY <1>2 DEF Proper
    <3>2. \A s \in Thread \ {t} : request[s] # None => Proper(request'[s])
      BY <1>1, <1>3 DEF HostTyped, Proper
    <3>. QED
      BY <1>3, <3>1, <3>2
  <2>2. hostOps' \in 0..MaxHostOps
    BY <1>1, HostAssumption DEF HostTyped
  <2>. QED
    BY <1>1, <1>2, <2>1, <2>2 DEF HostTyped, SystemKept
<1>7. RightOrCovered'
  <2>. SUFFICES ASSUME NEW j \in DOMAIN host \ doubtful
                PROVE  Holds(j, host[j])' \/ Covered(j)'
    BY DEF RightOrCovered
  <2>1. CASE j = k
    BY <1>2, <2>1 DEF Covered
  <2>2. CASE do = "set" /\ Object(j, host[j]) = Object(k, v)
    BY <1>2, <2>2 DEF Covered
  <2>3. CASE AsBefore(Object(j, host[j]))
    <3>1. CASE Holds(j, host[j])
      BY <2>3, <3>1 DEF Holds, AsBefore
    <3>2. CASE Covered(j)
      BY <1>1, <1>3, <3>2 DEF Covered
    <3>. QED
      BY <1>1, <3>1, <3>2 DEF HostInv, RightOrCovered
  <2>. QED
    BY <2>1, <2>2, <2>3
<1>8. AloneIsRight'
  <2>. SUFFICES ASSUME NEW r \in Thread, request'[r] # None, request'[r].alone
                PROVE  /\ \A s \in Thread \ {r} :
                             request'[s] # None => ~ Conflicts(request'[s].key, request'[r].key)
                       /\ request'[r].do = "set" => Holds(request[r].key, request[r].val)'
                       /\ request'[r].do \in {"join", "leave"}
                          /\ request'[r].key \in DOMAIN host \ doubtful =>
                             Holds(request[r].key, host[request[r].key])'
    BY DEF AloneIsRight
  <2>1. CASE r = t
    <3>1. \A s \in Thread \ {t} : request'[s] # None => ~ Conflicts(request'[s].key, k)
      BY <1>2, <1>3, <2>1
    <3>2. do = "set" => Holds(request[t].key, request[t].val)'
      BY <1>2, <2>1 DEF Holds
    <3>3. ASSUME do \in {"join", "leave"}, k \in DOMAIN host \ doubtful
          PROVE  Holds(request[t].key, host[request[t].key])'
      <4>1. Holds(k, host[k]) \/ Covered(k)
        BY <1>1, <3>3 DEF HostInv, RightOrCovered
      <4>2. ~ Covered(k)
        <5>. SUFFICES ASSUME NEW s \in Thread, request[s] # None,
                             \/ request[s].key = k
                             \/ /\ request[s].do = "set"
                                /\ Object(request[s].key, request[s].val) = Object(k, host[k])
                      PROVE  FALSE
          BY DEF Covered
        <5>1. ~ Conflicts(request[s].key, k)
          BY <1>1, <1>2, <2>1
        <5>2. request[s].do = "set" => request[s].val \in Managed(request[s].key)
          BY <1>1 DEF HostTyped, Proper
        <5>. QED
          BY <1>4, <1>5, <3>3, <5>1, <5>2, Objects DEF Conflicts
      <4>. QED
        BY <1>2, <3>3, <4>1, <4>2 DEF Holds
    <3>. QED
      BY <1>2, <2>1, <3>1, <3>2, <3>3
  <2>2. CASE r # t
    <3>1. request[r] # None /\ request[r].alone /\ ~ Conflicts(request[r].key, k)
          /\ request'[r].do = request[r].do /\ request'[r].key = request[r].key
          /\ request'[r].val = request[r].val
      BY <1>3, <2>2
    <3>2. \A s \in Thread \ {r} :
             request'[s] # None => ~ Conflicts(request'[s].key, request'[r].key)
      BY <1>2, <1>3, <2>2, <3>1 DEF HostInv, AloneIsRight, Conflicts
    <3>3. request[r].do = "set" => Holds(request[r].key, request[r].val)'
      <4>. SUFFICES ASSUME request[r].do = "set" PROVE Holds(request[r].key, request[r].val)'
        OBVIOUS
      <4>1. Holds(request[r].key, request[r].val)
        BY <3>1 DEF HostInv, AloneIsRight
      <4>2. request[r].key \in Key /\ request[r].val \in Managed(request[r].key)
        BY <1>1, <1>4, <3>1 DEF HostTyped, Proper
      <4>. QED
        BY <3>1, <4>1, <4>2, HoldsOn DEF Holds
    <3>4. ASSUME request[r].do \in {"join", "leave"}, request[r].key \in DOMAIN host \ doubtful
          PROVE  Holds(request[r].key, host[request[r].key])'
      <4>1. Holds(request[r].key, host[request[r].key])
        BY <3>1, <3>4 DEF HostInv, AloneIsRight
      <4>2. request[r].key \in Key /\ host[request[r].key] \in Managed(request[r].key)
        BY <1>5, <3>4
      <4>. QED
        BY <3>1, <4>1, <4>2, HoldsOn DEF Holds
    <3>. QED
      BY <3>1, <3>2, <3>3, <3>4
  <2>. QED
    BY <2>1, <2>2
<1>9. ModulesFirst'
  <2>. SUFFICES ASSUME NEW s \in Thread, request'[s] # None
                PROVE  /\ request'[s].key[1] = "kernmod" => request'[s].key \in DOMAIN machine'
                       /\ request'[s].old # {} => request'[s].key[2] \in ffLoads'
    BY DEF ModulesFirst
  <2>1. CASE s = t
    BY <1>2, <2>1
  <2>2. CASE s # t
    BY <1>3, <1>4, <2>2, Keys DEF HostInv, ModulesFirst, SystemKept
  <2>. QED
    BY <2>1, <2>2
<1>10. SharingInDoubt'
  BY <1>1 DEF HostInv, SharingInDoubt, Sharing
<1>11. DomainOnFile'
  <2>. SUFFICES ASSUME hostFile # None, Domain \in DOMAIN hostFile.desired \ doubtful
                PROVE  Busy(Domain)' \/ Holds(Domain, hostFile.desired[Domain])'
    BY DEF DomainOnFile
  <2>1. CASE k = Domain
    BY <1>2, <2>1 DEF Busy, Conflicts
  <2>2. CASE k # Domain
    <3>1. CASE Busy(Domain)
      BY <1>1, <1>3, <3>1 DEF Busy
    <3>2. CASE Holds(Domain, hostFile.desired[Domain])
      <4>1. hostFile.desired[Domain] \in Managed(Domain)
        BY <1>1, HostStates DEF HostTyped, HostRecord
      <4>2. ~ Conflicts(Domain, k)
        BY <2>2, Keys DEF Conflicts
      <4>. QED
        BY <3>2, <4>1, <4>2, Keys, HoldsOn DEF Holds
    <3>. QED
      BY <3>1, <3>2 DEF HostInv, DomainOnFile
  <2>. QED
    BY <2>1, <2>2
<1>. QED
  BY <1>6, <1>7, <1>8, <1>9, <1>10, <1>11 DEF HostInv

\* A request has failed, and may have changed the system before it did.
LEMMA FailKeepsInv ==
    ASSUME HostInv, NEW t \in Thread, HostClient(t), NEW k \in Key,
           request' = Disturbed(t, k),
           doubtful' = doubtful \union {j \in Key : Conflicts(j, k)},
           UNCHANGED <<hostPhase, host, hostFile, ffLoads, lines>>,
           SystemKept, Elsewhere(k)
    PROVE  HostInv'
<1>1. HostTyped /\ hostPhase = "up" /\ request[t] = None /\ hostOps < MaxHostOps
      /\ hostOps' = hostOps + 1
  BY DEF HostInv, HostClient
<1>2. /\ request' \in [Thread -> Request \union {None}]
      /\ \A s \in Thread :
            /\ request'[s] # None <=> request[s] # None
            /\ request[s] # None =>
                  /\ request'[s].do = request[s].do /\ request'[s].key = request[s].key
                  /\ request'[s].val = request[s].val /\ request'[s].old = request[s].old
                  /\ request'[s].alone => request[s].alone /\ ~ Conflicts(request[s].key, k)
  BY <1>1, DisturbedIs
<1>3. \A s \in Thread : request[s] # None => request[s].key \in Key
  BY <1>1 DEF HostTyped, Request
<1>4. DOMAIN host \in SUBSET Key /\ \A j \in DOMAIN host : host[j] \in Managed(j)
  BY <1>1, HostStates DEF HostTyped
<1>5. HostTyped'
  <2>1. \A s \in Thread : request'[s] # None => Proper(request'[s])
    BY <1>1, <1>2 DEF HostTyped, Proper
  <2>2. hostOps' \in 0..MaxHostOps
    BY <1>1, HostAssumption DEF HostTyped
  <2>. QED
    BY <1>1, <1>2, <2>1, <2>2 DEF HostTyped, SystemKept
<1>6. RightOrCovered'
  <2>. SUFFICES ASSUME NEW j \in DOMAIN host \ doubtful'
                PROVE  Holds(j, host[j])' \/ Covered(j)'
    BY DEF RightOrCovered
  <2>1. j \in Key /\ host[j] \in Managed(j) /\ ~ Conflicts(j, k) /\ j \notin doubtful
    BY <1>4
  <2>2. CASE Holds(j, host[j])
    BY <2>1, <2>2, HoldsOn DEF Holds
  <2>3. CASE Covered(j)
    BY <1>2, <2>3 DEF Covered
  <2>. QED
    BY <1>1, <2>1, <2>2, <2>3 DEF HostInv, RightOrCovered
<1>7. AloneIsRight'
  <2>. SUFFICES ASSUME NEW r \in Thread, request'[r] # None, request'[r].alone
                PROVE  /\ \A s \in Thread \ {r} :
                             request'[s] # None => ~ Conflicts(request'[s].key, request'[r].key)
                       /\ request'[r].do = "set" => Holds(request[r].key, request[r].val)'
                       /\ request'[r].do \in {"join", "leave"}
                          /\ request'[r].key \in DOMAIN host \ doubtful' =>
                             Holds(request[r].key, host[request[r].key])'
    BY DEF AloneIsRight
  <2>1. request[r] # None /\ request[r].alone /\ ~ Conflicts(request[r].key, k)
        /\ request'[r].do = request[r].do /\ request'[r].key = request[r].key
        /\ request'[r].val = request[r].val
    BY <1>2
  <2>2. \A s \in Thread \ {r} :
           request'[s] # None => ~ Conflicts(request'[s].key, request'[r].key)
    BY <1>2, <2>1 DEF HostInv, AloneIsRight
  <2>3. ASSUME request[r].do = "set" PROVE Holds(request[r].key, request[r].val)'
    <3>1. Holds(request[r].key, request[r].val)
      BY <2>1, <2>3 DEF HostInv, AloneIsRight
    <3>2. request[r].key \in Key /\ request[r].val \in Managed(request[r].key)
      BY <1>1, <1>3, <2>1, <2>3 DEF HostTyped, Proper
    <3>. QED
      BY <2>1, <3>1, <3>2, HoldsOn DEF Holds
  <2>4. ASSUME request[r].do \in {"join", "leave"}, request[r].key \in DOMAIN host \ doubtful'
        PROVE  Holds(request[r].key, host[request[r].key])'
    <3>1. Holds(request[r].key, host[request[r].key])
      BY <2>1, <2>4 DEF HostInv, AloneIsRight
    <3>2. request[r].key \in Key /\ host[request[r].key] \in Managed(request[r].key)
      BY <1>4, <2>4
    <3>. QED
      BY <2>1, <3>1, <3>2, HoldsOn DEF Holds
  <2>. QED
    BY <2>1, <2>2, <2>3, <2>4
<1>8. ModulesFirst'
  BY <1>2, <1>3, Keys DEF HostInv, ModulesFirst, SystemKept
<1>9. SharingInDoubt'
  BY <1>1 DEF HostInv, SharingInDoubt, Sharing
<1>10. DomainOnFile'
  <2>. SUFFICES ASSUME hostFile # None, Domain \in DOMAIN hostFile.desired \ doubtful'
                PROVE  Busy(Domain)' \/ Holds(Domain, hostFile.desired[Domain])'
    BY DEF DomainOnFile
  <2>1. Domain \notin doubtful /\ ~ Conflicts(Domain, k)
    BY Keys
  <2>2. CASE Busy(Domain)
    BY <1>2, <2>2 DEF Busy
  <2>3. CASE Holds(Domain, hostFile.desired[Domain])
    <3>1. hostFile.desired[Domain] \in Managed(Domain)
      BY <1>1, HostStates DEF HostTyped, HostRecord
    <3>. QED
      BY <2>1, <2>3, <3>1, Keys, HoldsOn DEF Holds
  <2>. QED
    BY <2>1, <2>2, <2>3 DEF HostInv, DomainOnFile
<1>. QED
  BY <1>5, <1>6, <1>7, <1>8, <1>9, <1>10 DEF HostInv

\* The machine after a change for k.
LEMMA ChangeIs ==
    ASSUME HostTyped, NEW k \in Key, NEW v \in Managed(k),
           machine' = Object(k, v) :> Content(k, v) @@ machine
    PROVE  /\ MachineOK' /\ Elsewhere(k)
           /\ Object(k, v) \in DOMAIN machine' /\ machine'[Object(k, v)] = Content(k, v)
           /\ DOMAIN machine \subseteq DOMAIN machine'
           /\ \A o : o = Object(k, v) \/ AsBefore(o)
<1>1. DOMAIN machine' = {Object(k, v)} \union DOMAIN machine
  BY DEF :>, @@
<1>2. machine'[Object(k, v)] = Content(k, v)
  BY DEF :>, @@
<1>3. \A o \in DOMAIN machine : o # Object(k, v) => machine'[o] = machine[o]
  BY DEF :>, @@
<1>4. MachineOK'
  BY <1>1, <1>2, <1>3, Objects DEF MachineOK, HostTyped
<1>5. \A o : o = Object(k, v) \/ AsBefore(o)
  BY <1>1, <1>3 DEF AsBefore
<1>6. Elsewhere(k)
  <2>. SUFFICES ASSUME NEW j \in Key, NEW w \in Managed(j), ~ Conflicts(j, k)
                PROVE  Object(j, w) # Object(k, v)
    BY <1>5 DEF Elsewhere
  <2>. QED
    BY Objects DEF Conflicts
<1>. QED
  BY <1>1, <1>2, <1>4, <1>5, <1>6

LEMMA RemovalIs ==
    ASSUME HostTyped, NEW k, NEW o, machine' = Without(machine, {o}),
           \A j \in Key : \A w \in Managed(j) : Object(j, w) = o => Conflicts(j, k)
    PROVE  /\ MachineOK' /\ Elsewhere(k)
           /\ DOMAIN machine' = DOMAIN machine \ {o}
           /\ \A p : p = o \/ AsBefore(p)
<1>1. DOMAIN machine' = DOMAIN machine \ {o}
  BY DEF Without, Restrict
<1>2. \A p \in DOMAIN machine' : machine'[p] = machine[p]
  BY <1>1 DEF Without, Restrict
<1>3. MachineOK'
  BY <1>1, <1>2 DEF MachineOK, HostTyped
<1>4. \A p : p = o \/ AsBefore(p)
  BY <1>1, <1>2 DEF AsBefore
<1>5. Elsewhere(k)
  BY <1>4 DEF Elsewhere
<1>. QED
  BY <1>1, <1>3, <1>4, <1>5

LEMMA NothingChanges == machine' = machine => (\A o : AsBefore(o)) /\ \A k : Elsewhere(k)
  BY DEF AsBefore, Elsewhere

LEMMA ManagedIs ==
    /\ \A k \in Key : \A v \in Managed(k) : v \in AnyManaged
    /\ \A k \in Key : \A v \in Body(k) : v \in Managed(k)
    /\ \A m \in Kmod : TRUE \in Managed(<<"kernmod", m>>)
<1>1. \A k \in Key : \A v \in Managed(k) : v \in AnyManaged
  BY DEF AnyManaged
<1>2. \A k \in Key : \A v \in Body(k) : v \in Managed(k)
  BY DEF Managed, Body
<1>3. \A m \in Kmod : TRUE \in Managed(<<"kernmod", m>>)
  BY DEF Managed, Body
<1>. QED
  BY <1>1, <1>2, <1>3

LEMMA HostIs ==
    ASSUME HostTyped
    PROVE  DOMAIN host \in SUBSET Key /\ \A k \in DOMAIN host : host[k] \in Managed(k)
  BY HostStates DEF HostTyped

LEMMA ChangesKeepInv ==
    ASSUME HostInv, NEW t \in Thread,
           \/ \E k \in Key : \E v \in Body(k) : SetEntry(t, k, v) \/ SetFails(t, k, v)
           \/ SetHostname(t)
           \/ \E k \in DOMAIN host : DeleteEntry(t, k) \/ DeleteFails(t, k)
    PROVE  HostInv'
<1>. USE DEF hostSystem
<1>1. HostTyped
  BY DEF HostInv
<1>2. ASSUME NEW k \in Key, NEW v \in Body(k), SetEntry(t, k, v) PROVE HostInv'
  <2>1. v \in Managed(k) /\ v \in AnyManaged
    BY ManagedIs
  <2>2. /\ MachineOK' /\ Elsewhere(k)
        /\ Object(k, v) \in DOMAIN machine' /\ machine'[Object(k, v)] = Content(k, v)
        /\ DOMAIN machine \subseteq DOMAIN machine'
        /\ \A o : o = Object(k, v) \/ AsBefore(o)
    BY <1>1, <1>2, <2>1, ChangeIs DEF SetEntry
  <2>3. SystemKept
    <3>1. ffLoads \subseteq ffLoads' /\ ffLoads' \subseteq Kmod
      BY <1>1, <1>2, Keys DEF SetEntry, HostTyped
    <3>. QED
      BY <1>1, <1>2, <2>2, <3>1 DEF SystemKept, SetEntry, HostTyped
  <2>4. k[1] = "kernmod" => k \in DOMAIN machine'
    BY <2>2 DEF Object, IsCron
  <2>5. Holds(k, v)'
    BY <2>2 DEF Holds
  <2>6. Submit(t, "set", k, v, {}, TRUE) /\ HostClient(t)
        /\ UNCHANGED <<hostPhase, host, hostFile, lines, doubtful>>
    BY <1>2 DEF SetEntry
  <2>. QED
    BY <2>1, <2>2, <2>3, <2>4, <2>5, <2>6, BeginKeepsInv
<1>3. ASSUME NEW k \in Key, NEW v \in Body(k), SetFails(t, k, v) PROVE HostInv'
  <2>1. v \in Managed(k)
    BY ManagedIs
  <2>2. MachineOK' /\ Elsewhere(k) /\ DOMAIN machine \subseteq DOMAIN machine'
    <3>1. CASE machine' = machine
      BY <1>1, <3>1, NothingChanges DEF HostTyped, MachineOK
    <3>2. CASE machine' = Object(k, v) :> Content(k, v) @@ machine
      BY <1>1, <2>1, <3>2, ChangeIs
    <3>. QED
      BY <1>3, <3>1, <3>2 DEF SetFails
  <2>3. SystemKept
    BY <1>1, <1>3, <2>2 DEF SystemKept, SetFails, HostTyped
  <2>. QED
    BY <1>3, <2>2, <2>3, FailKeepsInv DEF SetFails
<1>4. CASE SetHostname(t)
  <2>1. \A j \in Key : \A w \in Managed(j) : Object(j, w) = Domain => Conflicts(j, Domain)
    BY Keys DEF Object, Conflicts, IsCron, Domain
  <2>2. MachineOK' /\ Elsewhere(Domain) /\ DOMAIN machine' = DOMAIN machine \ {Domain}
    BY <1>1, <1>4, <2>1, RemovalIs DEF SetHostname
  <2>3. SystemKept
    BY <1>1, <1>4, <2>2 DEF SystemKept, SetHostname, HostTyped, Domain
  <2>4. {Domain} = {j \in Key : Conflicts(j, Domain)}
    BY Keys DEF Conflicts
  <2>. QED
    BY <1>4, <2>2, <2>3, <2>4, Keys, FailKeepsInv DEF SetHostname
<1>5. ASSUME NEW k \in DOMAIN host, k[1] \in {"users", "groups", "cron"}, Removed(k),
             UNCHANGED <<ffLoads, lines>>
      PROVE  /\ SystemKept /\ Elsewhere(k)
             /\ hostPhase = "up" =>
                   \A j \in DOMAIN host \ doubtful : j = k \/ AsBefore(Object(j, host[j]))
  <2>1. k \in Key /\ host[k] \in Managed(k)
    BY <1>1, HostIs
  <2>2. \A j \in Key : \A w \in Managed(j) : Object(j, w) = Object(k, host[k]) =>
           \/ j = k
           \/ IsCron(j) /\ IsCron(k) /\ w.command = host[k].command
    BY <2>1, Objects
  <2>3. PICK o : o = Object(k, host[k])
    OBVIOUS
  <2>4. \A j \in Key : \A w \in Managed(j) : Object(j, w) = o => Conflicts(j, k)
    BY <2>2, <2>3 DEF Conflicts
  <2>5. machine' = Without(machine, {o})
    BY <1>5, <2>3 DEF Removed
  <2>6. /\ MachineOK' /\ Elsewhere(k) /\ DOMAIN machine' = DOMAIN machine \ {o}
        /\ \A p : p = o \/ AsBefore(p)
    BY <1>1, <2>4, <2>5, RemovalIs
  <2>7. SystemKept
    <3>1. o[1] # "kernmod"
      BY <1>5, <2>3 DEF Object, IsCron
    <3>2. enrolled' \in [Group -> SUBSET User]
      BY <1>1, <1>5 DEF Removed, HostTyped
    <3>. QED
      BY <1>1, <1>5, <2>6, <3>1, <3>2 DEF SystemKept, HostTyped
  <2>8. ASSUME hostPhase = "up", NEW j \in DOMAIN host, j \notin doubtful, j # k
        PROVE  Object(j, host[j]) # o
    <3>1. j \notin Sharing(host)
      BY <2>8 DEF HostInv, SharingInDoubt
    <3>. QED
      BY <1>1, <2>2, <2>3, <2>8, <3>1, HostIs DEF Sharing
  <2>. QED
    BY <2>6, <2>7, <2>8
<1>6. ASSUME NEW k \in DOMAIN host, DeleteEntry(t, k) PROVE HostInv'
  <2>1. /\ Submit(t, "delete", k, None, {}, TRUE) /\ HostClient(t) /\ hostPhase = "up"
        /\ k[1] \in {"users", "groups", "cron"} /\ Removed(k)
        /\ UNCHANGED <<hostPhase, host, hostFile, ffLoads, lines, doubtful>>
    BY <1>6 DEF DeleteEntry, HostClient
  <2>2. k \in Key /\ k[1] # "kernmod"
    BY <1>1, <2>1, HostIs
  <2>3. /\ SystemKept /\ Elsewhere(k)
        /\ \A j \in DOMAIN host \ doubtful : j = k \/ AsBefore(Object(j, host[j]))
    BY <1>5, <2>1
  <2>. QED
    BY <2>1, <2>2, <2>3, BeginKeepsInv
<1>7. ASSUME NEW k \in DOMAIN host, DeleteFails(t, k) PROVE HostInv'
  <2>1. /\ HostClient(t) /\ request' = Disturbed(t, k)
        /\ k[1] \in {"users", "groups", "cron"}
        /\ Removed(k) \/ UNCHANGED <<machine, enrolled>>
        /\ doubtful' = doubtful \union {j \in Key : Conflicts(j, k)}
        /\ UNCHANGED <<hostPhase, host, hostFile, ffLoads, lines>>
    BY <1>7 DEF DeleteFails
  <2>2. k \in Key
    BY <1>1, HostIs
  <2>3. SystemKept /\ Elsewhere(k)
    <3>1. CASE Removed(k)
      BY <1>5, <2>1, <3>1
    <3>2. CASE UNCHANGED <<machine, enrolled>>
      BY <1>1, <2>1, <3>2, NothingChanges DEF SystemKept, HostTyped, MachineOK
    <3>. QED
      BY <2>1, <3>1, <3>2
  <2>. QED
    BY <2>1, <2>2, <2>3, FailKeepsInv
<1>. QED
  BY <1>2, <1>3, <1>4, <1>6, <1>7

LEMMA ImportsKeepInv ==
    ASSUME HostInv, NEW t \in Thread,
           \/ \E k \in Key : \E o \in DOMAIN machine : ImportEntry(t, k, o)
           \/ \E k \in Key : \E j \in Foreign : ImportForeign(t, k, j)
           \/ \E m \in Kmod : ImportKmod(t, m)
           \/ \E g \in Group, u \in User :
                 AddGroupMember(t, g, u) \/ RemoveGroupMember(t, g, u) \/ MemberFails(t, g, u)
    PROVE  HostInv'
<1>. USE DEF hostSystem
<1>1. HostTyped
  BY DEF HostInv
<1>2. ASSUME NEW k \in Key, NEW o \in DOMAIN machine, ImportEntry(t, k, o) PROVE HostInv'
  <2>1. PICK v : v = Found(k, o)
    OBVIOUS
  <2>2. /\ v \in Managed(k) /\ Object(k, v) = o /\ Content(k, v) = machine[o]
        /\ k[1] # "kernmod"
    <3>1. o \in Thing /\ machine[o] \in Contents(o)
      BY <1>1 DEF HostTyped, MachineOK
    <3>2. CASE k[1] = "cron"
      <4>1. o[1] = "cron"
        BY <1>2, <3>2 DEF ImportEntry, IsCron
      <4>2. o \in {"cron"} \X Command /\ machine[o] \in Schedule
        BY <3>1, <4>1 DEF Thing, Contents, IsCron
      <4>. QED
        BY <2>1, <3>2, <4>2 DEF Found, Managed, Body, Object, Content, IsCron
    <3>3. CASE k[1] = "groups"
      <4>1. o = k /\ k[2] \in Group
        BY <1>2, <3>3 DEF ImportEntry, IsCron, Key, Domain
      <4>2. machine[o] \in Spec /\ enrolled[k[2]] \in SUBSET User
        BY <1>1, <3>1, <3>3, <4>1 DEF Contents, HostTyped
      <4>. QED
        BY <2>1, <3>3, <4>1, <4>2 DEF Found, Managed, Object, Content, IsCron
    <3>4. CASE k[1] \in {"sysctl", "users"}
      <4>1. o = k
        BY <1>2, <3>4 DEF ImportEntry, IsCron
      <4>2. machine[o] \in Spec
        BY <3>1, <3>4, <4>1 DEF Contents
      <4>. QED
        BY <2>1, <3>4, <4>1, <4>2 DEF Found, Managed, Body, Object, Content, IsCron
    <3>. QED
      BY <1>2, <3>2, <3>3, <3>4 DEF ImportEntry
  <2>3. Submit(t, "set", k, v, {}, TRUE) /\ HostClient(t)
        /\ UNCHANGED <<hostPhase, host, hostFile, hostSystem, doubtful>>
    BY <1>2, <2>1 DEF ImportEntry
  <2>4. SystemKept
    BY <1>1, <2>3 DEF SystemKept, HostTyped, MachineOK
  <2>5. v \in AnyManaged
    BY <2>2, ManagedIs
  <2>6. Holds(k, v)'
    BY <2>2, <2>3 DEF Holds
  <2>. QED
    BY <2>2, <2>3, <2>4, <2>5, <2>6, NothingChanges, BeginKeepsInv
<1>3. ASSUME NEW m \in Kmod, ImportKmod(t, m) PROVE HostInv'
  <2>. DEFINE k == <<"kernmod", m>>
  <2>1. PICK old \in SUBSET ConfFile : Submit(t, "set", k, TRUE, old, TRUE)
    BY <1>3 DEF ImportKmod
  <2>2. /\ k \in DOMAIN machine /\ HostClient(t) /\ ffLoads' = ffLoads \union {m}
        /\ UNCHANGED <<hostPhase, host, hostFile, machine, enrolled, lines, doubtful>>
    BY <1>3 DEF ImportKmod
  <2>3. k \in Key /\ k[1] = "kernmod" /\ k[2] = m /\ TRUE \in Managed(k) /\ TRUE \in AnyManaged
    BY Keys, ManagedIs
  <2>4. Object(k, TRUE) = k /\ Content(k, TRUE) = "loaded" /\ machine[k] = "loaded"
    BY <1>1, <2>2, <2>3 DEF HostTyped, MachineOK, Contents, Object, Content, IsCron
  <2>5. SystemKept
    BY <1>1, <2>2 DEF SystemKept, HostTyped, MachineOK
  <2>. HIDE DEF k
  <2>6. Holds(k, TRUE)'
    BY <2>2, <2>4 DEF Holds
  <2>. QED
    BY <2>1, <2>2, <2>3, <2>4, <2>5, <2>6, NothingChanges, BeginKeepsInv
<1>4. ASSUME NEW g \in Group, NEW u \in User, AddGroupMember(t, g, u) \/ RemoveGroupMember(t, g, u)
      PROVE  HostInv'
  <2>1. PICK do \in {"join", "leave"} : Submit(t, do, GroupKey(g), u, {}, TRUE)
    BY <1>4 DEF AddGroupMember, RemoveGroupMember
  <2>2. HostClient(t) /\ UNCHANGED <<hostPhase, host, hostFile, machine, ffLoads, lines, doubtful>>
    BY <1>4 DEF AddGroupMember, RemoveGroupMember
  <2>3. enrolled' \in [Group -> SUBSET User]
    BY <1>1, <1>4 DEF AddGroupMember, RemoveGroupMember, HostTyped
  <2>4. SystemKept
    BY <1>1, <2>2, <2>3 DEF SystemKept, HostTyped, MachineOK
  <2>5. GroupKey(g) \in Key /\ GroupKey(g)[1] = "groups"
    BY Keys
  <2>. QED
    BY <2>1, <2>2, <2>4, <2>5, NothingChanges, BeginKeepsInv
<1>5. ASSUME NEW k \in Key, NEW j \in Foreign, ImportForeign(t, k, j) PROVE HostInv'
  <2>1. PICK known \in BOOLEAN : known = (j.schedule # None)
    OBVIOUS
  <2>2. PICK v : v = AsImported(j)
    OBVIOUS
  <2>3. /\ IsCron(k) /\ Submit(t, "set", k, v, {}, known) /\ HostClient(t)
        /\ UNCHANGED <<hostPhase, host, hostFile, hostSystem, doubtful>>
    BY <1>5, <2>1, <2>2 DEF ImportForeign
  <2>4. v \in [command : Command, schedule : Schedule] /\ (known => v = j)
    BY <2>1, <2>2, HostAssumption DEF AsImported
  <2>5. v \in Managed(k) /\ k[1] # "kernmod"
    BY <2>3, <2>4 DEF Managed, Body, IsCron
  <2>6. v \in AnyManaged
    BY <2>5, ManagedIs
  <2>7. known => Holds(k, v)'
    BY <2>3, <2>4 DEF Holds
  <2>8. SystemKept
    BY <1>1, <2>3 DEF SystemKept, HostTyped, MachineOK
  <2>. QED
    BY <2>3, <2>5, <2>6, <2>7, <2>8, NothingChanges, BeginKeepsInv
<1>6. ASSUME NEW g \in Group, NEW u \in User, MemberFails(t, g, u) PROVE HostInv'
  <2>1. /\ hostOps' = hostOps + 1 /\ hostOps < MaxHostOps
        /\ enrolled' \in [Group -> SUBSET User]
        /\ UNCHANGED <<hostPhase, host, hostFile, request, machine, ffLoads, lines, doubtful>>
    BY <1>1, <1>6 DEF MemberFails, HostClient, HostTyped
  <2>2. HostTyped'
    <3>1. hostOps' \in 0..MaxHostOps
      BY <1>1, <2>1, HostAssumption DEF HostTyped
    <3>. QED
      BY <1>1, <2>1, <3>1 DEF HostTyped, MachineOK
  <2>3. RightOrCovered' /\ AloneIsRight'
    BY <2>1 DEF HostInv, RightOrCovered, AloneIsRight, Holds, Covered
  <2>4. ModulesFirst' /\ SharingInDoubt' /\ DomainOnFile'
    BY <2>1 DEF HostInv, ModulesFirst, SharingInDoubt, Sharing, DomainOnFile, Busy, Holds
  <2>. QED
    BY <2>2, <2>3, <2>4 DEF HostInv
<1>. QED
  BY <1>2, <1>3, <1>4, <1>5, <1>6

\* What a request leaves in memory is a state, and touches no other entry.
LEMMA RecordedIs ==
    ASSUME HostTyped, NEW r \in Request, Proper(r), r.do = "set" \/ r.key \in DOMAIN host
    PROVE  /\ Recorded(r) \in HostState
           /\ \A j : j # r.key => /\ j \in DOMAIN Recorded(r) <=> j \in DOMAIN host
                                  /\ j \in DOMAIN host => Recorded(r)[j] = host[j]
           /\ r.do = "set" => Recorded(r)[r.key] = r.val
           /\ r.do = "delete" => r.key \notin DOMAIN Recorded(r)
           /\ r.do \in {"join", "leave"} =>
                 /\ r.key \in DOMAIN host
                 /\ \A v \in {host[r.key], Recorded(r)[r.key]} :
                       Object(r.key, v) = r.key /\ Content(r.key, v) = host[r.key].spec
<1>1. host \in HostState /\ r.key \in Key
  BY DEF HostTyped, Request
<1>2. CASE r.do = "set"
  <2>1. Recorded(r) = r.key :> r.val @@ host
    BY <1>2 DEF Recorded
  <2>2. Recorded(r) \in HostState
    BY <1>1, <1>2, <2>1, HostStates DEF Proper
  <2>. QED
    BY <1>2, <2>1, <2>2 DEF :>, @@
<1>3. CASE r.do = "delete"
  <2>1. Recorded(r) = Without(host, {r.key})
    BY <1>3 DEF Recorded
  <2>2. Recorded(r) \in HostState
    BY <1>1, <2>1, HostStates
  <2>. QED
    BY <1>3, <2>1, <2>2 DEF Without, Restrict
<1>4. ASSUME NEW members \in SUBSET User, r.do \in {"join", "leave"},
             Recorded(r) = [host EXCEPT ![r.key] = [host[r.key] EXCEPT !.members = members]]
      PROVE  /\ Recorded(r) \in HostState
             /\ \A j : j # r.key => /\ j \in DOMAIN Recorded(r) <=> j \in DOMAIN host
                                    /\ j \in DOMAIN host => Recorded(r)[j] = host[j]
             /\ \A v \in {host[r.key], Recorded(r)[r.key]} :
                   Object(r.key, v) = r.key /\ Content(r.key, v) = host[r.key].spec
  <2>. DEFINE new == [host[r.key] EXCEPT !.members = members]
  <2>1. r.key \in DOMAIN host /\ r.key[1] = "groups"
    BY <1>4 DEF Proper
  <2>2. host[r.key] \in [spec : Spec, members : SUBSET User]
    BY <1>1, <2>1, HostStates DEF Managed
  <2>3. new \in Managed(r.key) /\ new.spec = host[r.key].spec
    BY <2>1, <2>2 DEF Managed
  <2>. HIDE DEF new
  <2>4. Recorded(r) = [host EXCEPT ![r.key] = new]
    BY <1>4 DEF new
  <2>5. [host EXCEPT ![r.key] = new] \in HostState
    BY <1>1, <2>1, <2>3, HostStates, Zenon
  <2>6. Recorded(r)[r.key] = new
    BY <2>1, <2>4
  <2>. QED
    BY <2>1, <2>3, <2>4, <2>5, <2>6 DEF Object, Content, IsCron
<1>5. CASE r.do \in {"join", "leave"}
  <2>1. host[r.key] \in [spec : Spec, members : SUBSET User] /\ r.val \in User
    BY <1>1, <1>5, HostStates DEF Managed, Proper
  <2>2. PICK members \in SUBSET User :
           Recorded(r) = [host EXCEPT ![r.key] = [host[r.key] EXCEPT !.members = members]]
    <3>1. CASE r.do = "join"
      <4>1. host[r.key].members \union {r.val} \in SUBSET User
        BY <2>1
      <4>2. Recorded(r) = [host EXCEPT ![r.key] =
                              [host[r.key] EXCEPT !.members = host[r.key].members \union {r.val}]]
        BY <3>1 DEF Recorded
      <4>. QED
        BY <4>1, <4>2, Zenon
    <3>2. CASE r.do = "leave"
      <4>1. host[r.key].members \ {r.val} \in SUBSET User
        BY <2>1
      <4>2. Recorded(r) = [host EXCEPT ![r.key] =
                              [host[r.key] EXCEPT !.members = host[r.key].members \ {r.val}]]
        BY <3>2 DEF Recorded
      <4>. QED
        BY <4>1, <4>2, Zenon
    <3>. QED
      BY <1>5, <3>1, <3>2
  <2>. QED
    BY <1>4, <1>5, <2>2
<1>. QED
  BY <1>2, <1>3, <1>5 DEF Request

LEMMA PersistIs ==
    ASSUME NEW h \in HostState
    PROVE  /\ [desired |-> h, current |-> h] \in HostRecord
           /\ [desired |-> h, current |-> h] # None
<1>1. [desired |-> h, current |-> h] \in HostRecord
  BY DEF HostRecord
<1>. QED
  BY <1>1, HostAssumption

\* A request ends: what covered an entry holds, or covers it no more.
LEMMA RequestsEnd ==
    ASSUME HostInv, NEW t \in Thread, request[t] # None,
           request' = [request EXCEPT ![t] = None]
    PROVE  /\ request' \in [Thread -> Request \union {None}]
           /\ request[t] \in Request /\ Proper(request[t])
           /\ request[t].key \in Key /\ hostPhase = "up"
           /\ request'[t] = None /\ \A s \in Thread \ {t} : request'[s] = request[s]
           /\ \A s \in Thread : request'[s] # None => Proper(request[s])
  BY DEF HostInv, HostTyped, Request

LEMMA RecordKeepsInv == ASSUME HostInv, NEW t \in Thread, Record(t) PROVE HostInv'
<1>. DEFINE r == request[t]
<1>. USE DEF hostSystem
<1>1. HostTyped
  BY DEF HostInv
<1>2. /\ request' \in [Thread -> Request \union {None}]
      /\ r \in Request /\ Proper(r) /\ r.key \in Key /\ hostPhase = "up"
      /\ request'[t] = None /\ \A s \in Thread \ {t} : request'[s] = request[s]
      /\ \A s \in Thread : request'[s] # None => Proper(request[s])
  BY RequestsEnd DEF Record
<1>3. r # None /\ UNCHANGED <<hostPhase, machine, enrolled, ffLoads, lines, hostOps>>
  BY DEF Record
<1>4. DOMAIN host \in SUBSET Key /\ \A k \in DOMAIN host : host[k] \in Managed(k)
  BY <1>1, HostIs
<1>5. \A s \in Thread \ {t} : request[s] # None =>
         request[s].key \in Key /\ Proper(request[s])
  BY <1>1 DEF HostTyped, Request
<1>6. ModulesFirst'
  BY <1>2, <1>3 DEF HostInv, ModulesFirst
<1>7. CASE r.do = "set" \/ r.key \in DOMAIN host
  <2>1. /\ host' = Recorded(r) /\ hostFile' = [desired |-> host', current |-> host']
        /\ doubtful' = (IF r.alone /\ r.do \in {"set", "delete"} THEN doubtful \ {r.key}
                        ELSE IF r.alone THEN doubtful ELSE doubtful \union {r.key})
                       \union Sharing(host')
    BY <1>7 DEF Record, Persist
  <2>2. /\ host' \in HostState
        /\ \A j : j # r.key => /\ j \in DOMAIN host' <=> j \in DOMAIN host
                               /\ j \in DOMAIN host => host'[j] = host[j]
        /\ r.do = "set" => host'[r.key] = r.val
        /\ r.do = "delete" => r.key \notin DOMAIN host'
        /\ r.do \in {"join", "leave"} =>
              /\ r.key \in DOMAIN host
              /\ \A v \in {host[r.key], host'[r.key]} :
                    Object(r.key, v) = r.key /\ Content(r.key, v) = host[r.key].spec
    BY <1>1, <1>2, <1>7, <2>1, RecordedIs
  <2>. HIDE DEF r
  <2>3. Sharing(host') \subseteq doubtful' /\ doubtful \subseteq doubtful' \union {r.key}
    BY <2>1
  <2>4. Sharing(host') \subseteq DOMAIN host' /\ DOMAIN host' \in SUBSET Key
        /\ \A k \in DOMAIN host' : host'[k] \in Managed(k)
    BY <2>2, HostStates DEF Sharing
  <2>5. hostFile' \in HostRecord /\ hostFile' # None
    BY <2>1, <2>2, PersistIs
  <2>6. HostTyped'
    <3>1. doubtful' \subseteq Key
      BY <1>1, <1>2, <2>1, <2>4 DEF HostTyped
    <3>. QED
      BY <1>1, <1>2, <1>3, <2>2, <2>5, <3>1 DEF HostTyped, MachineOK
  <2>7. RightOrCovered'
    <3>. SUFFICES ASSUME NEW j \in DOMAIN host' \ doubtful'
                  PROVE  Holds(j, host[j])' \/ Covered(j)'
      BY DEF RightOrCovered
    <3>1. CASE j = r.key
      <4>1. r.alone /\ r.do # "delete"
        BY <2>1, <2>2, <3>1
      <4>2. CASE r.do = "set"
        BY <1>3, <2>2, <3>1, <4>1, <4>2 DEF HostInv, AloneIsRight, Holds, r
      <4>3. CASE r.do \in {"join", "leave"}
        <5>1. j \in DOMAIN host \ doubtful
          BY <2>1, <2>2, <3>1, <4>1, <4>3
        <5>2. Holds(j, host[j])
          BY <1>3, <3>1, <4>1, <4>3, <5>1 DEF HostInv, AloneIsRight, r
        <5>3. ~ IsCron(j)
          BY <1>2, <3>1, <4>3 DEF Proper, IsCron, r
        <5>. QED
          BY <1>3, <2>2, <3>1, <4>3, <5>2, <5>3 DEF Holds
      <4>. QED
        BY <1>2, <4>1, <4>2, <4>3 DEF Request
    <3>2. CASE j # r.key
      <4>1. j \in DOMAIN host \ doubtful /\ host'[j] = host[j]
        BY <2>2, <2>3, <3>2
      <4>2. CASE Holds(j, host[j])
        BY <1>3, <4>1, <4>2 DEF Holds
      <4>3. CASE Covered(j)
        <5>1. PICK s \in Thread :
                 /\ request[s] # None
                 /\ \/ request[s].key = j
                    \/ /\ request[s].do = "set"
                       /\ Object(request[s].key, request[s].val) = Object(j, host[j])
          BY <4>3 DEF Covered
        <5>2. CASE s # t
          BY <1>2, <4>1, <5>1, <5>2 DEF Covered
        <5>3. CASE s = t
          <6>1. r.do = "set" /\ Object(r.key, r.val) = Object(j, host[j])
            BY <3>2, <5>1, <5>3 DEF r
          <6>2. r.val \in Managed(r.key) /\ j \in Key /\ host[j] \in Managed(j)
            BY <1>2, <1>4, <4>1, <6>1 DEF Proper
          <6>3. IsCron(j) /\ IsCron(r.key) /\ r.val.command = host[j].command
            BY <1>2, <3>2, <6>1, <6>2, Objects
          <6>4. r.key \in DOMAIN host' /\ host'[r.key] = r.val
            BY <2>1, <2>2, <6>1 DEF Recorded, :>, @@
          <6>5. j \in Sharing(host')
            BY <3>2, <4>1, <6>3, <6>4 DEF Sharing
          <6>. QED
            BY <2>3, <6>5
        <5>. QED
          BY <5>2, <5>3
      <4>. QED
        BY <1>2, <4>1, <4>2, <4>3 DEF HostInv, RightOrCovered
    <3>. QED
      BY <3>1, <3>2
  <2>8. AloneIsRight'
    <3>. SUFFICES ASSUME NEW q \in Thread \ {t}, request[q] # None, request[q].alone
                  PROVE  /\ \A s \in Thread \ {q} :
                               request'[s] # None => ~ Conflicts(request'[s].key, request[q].key)
                         /\ request[q].do = "set" => Holds(request[q].key, request[q].val)
                         /\ request[q].do \in {"join", "leave"}
                            /\ request[q].key \in DOMAIN host' \ doubtful' =>
                               Holds(request[q].key, host'[request[q].key])
      BY <1>2, <1>3 DEF AloneIsRight, Holds
    <3>1. \A s \in Thread \ {q} :
             request[s] # None => ~ Conflicts(request[s].key, request[q].key)
      BY DEF HostInv, AloneIsRight
    <3>2. request[q].key # r.key
      BY <1>3, <3>1 DEF Conflicts, r
    <3>3. request[q].key \in DOMAIN host' \ doubtful' =>
             /\ request[q].key \in DOMAIN host \ doubtful
             /\ host'[request[q].key] = host[request[q].key]
      BY <2>2, <2>3, <3>2
    <3>. QED
      BY <1>2, <3>1, <3>3 DEF HostInv, AloneIsRight
  <2>9. DomainOnFile'
    <3>. SUFFICES ASSUME Domain \in DOMAIN host' \ doubtful'
                  PROVE  Busy(Domain)' \/ Holds(Domain, host[Domain])'
      BY <2>1 DEF DomainOnFile, Holds
    <3>1. CASE Covered(Domain)'
      <4>1. PICK s \in Thread \ {t} :
               /\ request[s] # None
               /\ \/ request[s].key = Domain
                  \/ /\ request[s].do = "set"
                     /\ Object(request[s].key, request[s].val) = Object(Domain, host'[Domain])
        BY <1>2, <3>1 DEF Covered
      <4>2. request[s].key = Domain
        <5>1. request[s].do = "set" => request[s].val \in Managed(request[s].key)
          BY <1>5, <4>1 DEF Proper
        <5>. QED
          BY <1>5, <2>4, <4>1, <5>1, Keys, Objects
      <4>. QED
        BY <1>2, <4>1, <4>2 DEF Busy, Conflicts
    <3>. QED
      BY <1>2, <1>3, <2>7, <3>1 DEF RightOrCovered
  <2>. QED
    BY <1>6, <2>3, <2>6, <2>7, <2>8, <2>9 DEF HostInv, SharingInDoubt
<1>8. CASE ~ (r.do = "set" \/ r.key \in DOMAIN host)
  <2>1. UNCHANGED <<host, hostFile, doubtful>>
    BY <1>8 DEF Record
  <2>2. HostTyped'
    BY <1>1, <1>2, <1>3, <2>1 DEF HostTyped, MachineOK
  <2>. HIDE DEF r
  <2>3. RightOrCovered'
    <3>. SUFFICES ASSUME NEW j \in DOMAIN host \ doubtful
                  PROVE  Holds(j, host[j])' \/ Covered(j)'
      BY <2>1 DEF RightOrCovered
    <3>1. j # r.key
      BY <1>8
    <3>2. Holds(j, host[j]) \/ Covered(j)
      BY <1>2 DEF HostInv, RightOrCovered
    <3>3. CASE Covered(j)
      <4>1. PICK s \in Thread :
               /\ request[s] # None
               /\ \/ request[s].key = j
                  \/ /\ request[s].do = "set"
                     /\ Object(request[s].key, request[s].val) = Object(j, host[j])
        BY <3>3 DEF Covered
      <4>2. s # t
        BY <1>8, <3>1, <4>1 DEF r
      <4>. QED
        BY <1>2, <2>1, <4>1, <4>2 DEF Covered
    <3>. QED
      BY <1>3, <2>1, <3>2, <3>3 DEF Holds
  <2>4. AloneIsRight'
    BY <1>2, <1>3, <2>1 DEF HostInv, AloneIsRight, Holds
  <2>5. DomainOnFile'
    <3>1. ~ Conflicts(r.key, Domain)
      BY <1>2, <1>8, Keys DEF Conflicts, Proper, Request
    <3>2. Busy(Domain) => Busy(Domain)'
      BY <1>2, <3>1 DEF Busy, r
    <3>. QED
      BY <1>3, <2>1, <3>2 DEF HostInv, DomainOnFile, Holds
  <2>6. SharingInDoubt'
    BY <1>3, <2>1 DEF HostInv, SharingInDoubt, Sharing
  <2>. QED
    BY <1>6, <2>2, <2>3, <2>4, <2>5, <2>6 DEF HostInv
<1>. QED
  BY <1>7, <1>8

LEMMA StripKeepsInv == ASSUME HostInv, NEW t \in Thread, StripOld(t) PROVE HostInv'
<1>. USE DEF hostSystem
<1>1. /\ HostTyped /\ request[t] # None /\ request[t].old # {}
      /\ UNCHANGED <<hostPhase, host, hostFile, machine, enrolled, ffLoads, doubtful, hostOps>>
  BY DEF HostInv, StripOld
<1>2. /\ request[t] \in Request /\ Proper(request[t]) /\ hostPhase = "up"
      /\ request[t].key \in Key /\ request[t].key[1] = "kernmod"
      /\ request[t].key \in DOMAIN machine
  BY <1>1 DEF HostTyped, Request, Proper, HostInv, ModulesFirst
<1>3. \A v \in Managed(request[t].key) : Holds(request[t].key, v)
  BY <1>1, <1>2 DEF Holds, Object, Content, IsCron, HostTyped, MachineOK, Contents
<1>4. SharingInDoubt'
  BY <1>1 DEF HostInv, SharingInDoubt, Sharing
<1>5. ASSUME NEW f \in request[t].old,
             lines' = lines \ {<<f, request[t].key[2]>>},
             request' = [request EXCEPT ![t].old = @ \ {f}]
      PROVE  HostInv'
  <2>. DEFINE r == [request[t] EXCEPT !.old = request[t].old \ {f}]
  <2>1. /\ r \in Request /\ r.do = request[t].do /\ r.key = request[t].key
        /\ r.val = request[t].val /\ r.alone = request[t].alone
        /\ r.old \subseteq request[t].old
    BY <1>2 DEF Request
  <2>2. Proper(r) /\ r # None
    BY <1>2, <2>1, HostAssumption DEF Proper
  <2>. HIDE DEF r
  <2>3. request' = [request EXCEPT ![t] = r]
    BY <1>5 DEF r
  <2>4. /\ request' \in [Thread -> Request \union {None}]
        /\ request'[t] = r /\ \A s \in Thread \ {t} : request'[s] = request[s]
    BY <1>1, <2>1, <2>3 DEF HostTyped
  <2>5. HostTyped'
    <3>1. lines' \subseteq ConfFile \X Kmod
      BY <1>1, <1>5 DEF HostTyped
    <3>2. \A s \in Thread : request'[s] # None => hostPhase = "up" /\ Proper(request'[s])
      BY <1>1, <1>2, <2>2, <2>4 DEF HostTyped
    <3>. QED
      BY <1>1, <2>4, <3>1, <3>2 DEF HostTyped, MachineOK
  <2>6. RightOrCovered'
    BY <1>1, <2>1, <2>2, <2>4 DEF HostInv, RightOrCovered, Holds, Covered
  <2>7. AloneIsRight'
    <3>. SUFFICES ASSUME NEW q \in Thread, request'[q] # None, request'[q].alone
                  PROVE  /\ \A s \in Thread \ {q} :
                               request'[s] # None => ~ Conflicts(request'[s].key, request'[q].key)
                         /\ request'[q].do = "set" => Holds(request'[q].key, request'[q].val)
                         /\ request'[q].do \in {"join", "leave"}
                            /\ request'[q].key \in DOMAIN host \ doubtful =>
                               Holds(request'[q].key, host[request'[q].key])
      BY <1>1 DEF AloneIsRight, Holds
    <3>1. \A s \in Thread :
             /\ request'[s] # None <=> request[s] # None
             /\ request'[s] # None =>
                   /\ request'[s].key = request[s].key /\ request'[s].do = request[s].do
                   /\ request'[s].val = request[s].val /\ request'[s].alone = request[s].alone
      BY <1>1, <2>1, <2>2, <2>4
    <3>. QED
      BY <3>1 DEF HostInv, AloneIsRight
  <2>8. ModulesFirst'
    BY <1>1, <1>2, <2>1, <2>4 DEF HostInv, ModulesFirst
  <2>9. DomainOnFile'
    BY <1>1, <2>1, <2>2, <2>4 DEF HostInv, DomainOnFile, Busy, Holds
  <2>. QED
    BY <1>4, <2>5, <2>6, <2>7, <2>8, <2>9 DEF HostInv
<1>6. CASE request' = [request EXCEPT ![t] = None] /\ UNCHANGED lines
  <2>1. /\ request' \in [Thread -> Request \union {None}]
        /\ request'[t] = None /\ \A s \in Thread \ {t} : request'[s] = request[s]
        /\ \A s \in Thread : request'[s] # None => Proper(request[s])
    BY <1>1, <1>6, RequestsEnd
  <2>2. HostTyped'
    BY <1>1, <1>2, <1>6, <2>1 DEF HostTyped, MachineOK
  <2>3. RightOrCovered'
    <3>. SUFFICES ASSUME NEW j \in DOMAIN host \ doubtful
                  PROVE  Holds(j, host[j]) \/ Covered(j)'
      BY <1>1 DEF RightOrCovered, Holds
    <3>1. CASE Covered(j)
      <4>1. PICK s \in Thread :
               /\ request[s] # None
               /\ \/ request[s].key = j
                  \/ /\ request[s].do = "set"
                     /\ Object(request[s].key, request[s].val) = Object(j, host[j])
        BY <3>1 DEF Covered
      <4>2. CASE s # t
        BY <1>1, <2>1, <4>1, <4>2 DEF Covered
      <4>3. CASE s = t
        <5>1. j \in Key /\ host[j] \in Managed(j)
          BY <1>1, HostIs
        <5>2. j = request[t].key
          <6>1. request[t].do = "set" => request[t].val \in Managed(request[t].key)
            BY <1>2 DEF Proper
          <6>2. ~ IsCron(request[t].key)
            BY <1>2 DEF IsCron
          <6>. QED
            BY <1>2, <4>1, <4>3, <5>1, <6>1, <6>2, Objects
        <5>. QED
          BY <1>3, <5>1, <5>2
      <4>. QED
        BY <4>2, <4>3
    <3>. QED
      BY <1>2, <3>1 DEF HostInv, RightOrCovered
  <2>4. AloneIsRight'
    BY <1>1, <2>1 DEF HostInv, AloneIsRight, Holds
  <2>5. ModulesFirst'
    BY <1>1, <2>1 DEF HostInv, ModulesFirst
  <2>6. DomainOnFile'
    <3>1. ~ Conflicts(request[t].key, Domain)
      BY <1>2, Keys DEF Conflicts
    <3>2. Busy(Domain) => Busy(Domain)'
      BY <2>1, <3>1 DEF Busy
    <3>. QED
      BY <1>1, <3>2 DEF HostInv, DomainOnFile, Holds
  <2>. QED
    BY <1>4, <2>2, <2>3, <2>4, <2>5, <2>6 DEF HostInv
<1>. QED
  BY <1>5, <1>6 DEF StripOld

LEMMA StopManagingKeepsInv ==
    ASSUME HostInv, NEW t \in Thread, NEW k \in DOMAIN host, StopManaging(t, k) PROVE HostInv'
<1>. USE DEF hostSystem
<1>1. /\ HostTyped /\ hostPhase = "up" /\ hostOps < MaxHostOps /\ hostOps' = hostOps + 1
      /\ host' = Without(host, {k}) /\ hostFile' = [desired |-> host', current |-> host']
      /\ k[1] \in {"sysctl", "kernmod", "domainname"}
      /\ UNCHANGED <<hostPhase, request, machine, enrolled, ffLoads, lines, doubtful>>
  BY DEF HostInv, StopManaging, HostClient, Persist
<1>2. host' \in HostState
  BY <1>1, HostStates DEF HostTyped
<1>3. DOMAIN host' = DOMAIN host \ {k} /\ \A j \in DOMAIN host' : host'[j] = host[j]
  BY <1>1 DEF Without, Restrict
<1>4. hostFile' \in HostRecord /\ hostFile' # None
  BY <1>1, <1>2, PersistIs
<1>5. HostTyped'
  <2>1. hostOps' \in 0..MaxHostOps
    BY <1>1, HostAssumption DEF HostTyped
  <2>. QED
    BY <1>1, <1>2, <1>4, <2>1 DEF HostTyped, MachineOK
<1>6. RightOrCovered'
  <2>. SUFFICES ASSUME NEW j \in DOMAIN host' \ doubtful
                PROVE  Holds(j, host[j])' \/ Covered(j)'
    BY <1>1 DEF RightOrCovered
  <2>1. j \in DOMAIN host \ doubtful /\ host'[j] = host[j]
    BY <1>3
  <2>2. Holds(j, host[j]) \/ Covered(j)
    BY <1>1, <2>1 DEF HostInv, RightOrCovered
  <2>. QED
    BY <1>1, <2>1, <2>2 DEF Holds, Covered
<1>7. AloneIsRight'
  BY <1>1, <1>3 DEF HostInv, AloneIsRight, Holds
<1>8. ModulesFirst'
  BY <1>1 DEF HostInv, ModulesFirst
<1>9. SharingInDoubt'
  <2>1. Sharing(host)' \subseteq Sharing(host)
    BY <1>3 DEF Sharing
  <2>. QED
    BY <1>1, <2>1 DEF HostInv, SharingInDoubt
<1>10. DomainOnFile'
  <2>. SUFFICES ASSUME Domain \in DOMAIN host' \ doubtful
                PROVE  Busy(Domain) \/ Holds(Domain, host[Domain])
    BY <1>1, <1>3 DEF DomainOnFile, Busy, Holds
  <2>1. CASE Covered(Domain)
    <3>1. PICK s \in Thread :
             /\ request[s] # None
             /\ \/ request[s].key = Domain
                \/ /\ request[s].do = "set"
                   /\ Object(request[s].key, request[s].val) = Object(Domain, host[Domain])
      BY <2>1 DEF Covered
    <3>2. request[s].key \in Key /\ (request[s].do = "set" => request[s].val \in Managed(request[s].key))
      BY <1>1, <3>1 DEF HostTyped, Request, Proper
    <3>3. host[Domain] \in Managed(Domain)
      BY <1>1, <1>3, HostIs
    <3>4. request[s].key = Domain
      BY <3>1, <3>2, <3>3, Keys, Objects
    <3>. QED
      BY <3>1, <3>4 DEF Busy, Conflicts
  <2>. QED
    BY <1>1, <1>3, <2>1 DEF HostInv, RightOrCovered
<1>. QED
  BY <1>5, <1>6, <1>7, <1>8, <1>9, <1>10 DEF HostInv

-----------------------------------------------------------------------------
(* Host: start and stop. *)

\* No request is under way in a process that is not up.
LEMMA NobodyAtWork ==
    ASSUME HostInv, hostPhase # "up"
    PROVE  /\ request = [t \in Thread |-> None] /\ ~ Busy(Domain)
           /\ hostFile # None /\ Domain \in DOMAIN hostFile.desired \ doubtful =>
                 Holds(Domain, hostFile.desired[Domain])
<1>1. \A t \in Thread : request[t] = None
  BY DEF HostInv, HostTyped
<1>2. request = [t \in Thread |-> None]
  BY <1>1 DEF HostInv, HostTyped
<1>. QED
  BY <1>1, <1>2 DEF HostInv, DomainOnFile, Busy

LEMMA LoadKeepsInv ==
    ASSUME HostInv, NEW ignore \in BOOLEAN, HostLoad(ignore) PROVE HostInv'
<1>. USE DEF hostSystem
<1>1. /\ HostTyped /\ hostPhase = "down"
      /\ UNCHANGED <<request, machine, enrolled, ffLoads, lines, doubtful, hostOps>>
  BY DEF HostInv, HostLoad
<1>2. \A t \in Thread : request[t] = None
  BY <1>1 DEF HostTyped
<1>3. AloneIsRight' /\ ModulesFirst'
  BY <1>1, <1>2 DEF AloneIsRight, ModulesFirst
<1>4. << >> \in HostState /\ Sharing(<< >>) = {} /\ DOMAIN << >> = {}
  <2>1. << >> \in [{} -> AnyManaged] /\ DOMAIN << >> = {}
    OBVIOUS
  <2>. QED
    BY <2>1 DEF HostState, Table, Sharing
<1>5. CASE hostPhase' = "up" /\ host' = << >> /\ UNCHANGED hostFile
  <2>1. HostTyped'
    BY <1>1, <1>2, <1>4, <1>5 DEF HostTyped, MachineOK
  <2>2. RightOrCovered' /\ SharingInDoubt'
    BY <1>4, <1>5 DEF RightOrCovered, SharingInDoubt
  <2>3. DomainOnFile'
    BY <1>1, <1>5 DEF HostInv, DomainOnFile, Busy, Holds
  <2>. QED
    BY <1>3, <2>1, <2>2, <2>3 DEF HostInv
<1>6. CASE hostPhase' = "loaded" /\ hostFile # None /\ host' = hostFile.desired /\ UNCHANGED hostFile
  <2>1. hostFile.desired \in HostState
    BY <1>1, <1>6 DEF HostTyped, HostRecord
  <2>2. HostTyped'
    BY <1>1, <1>2, <1>6, <2>1 DEF HostTyped, MachineOK
  <2>3. RightOrCovered' /\ SharingInDoubt'
    BY <1>6 DEF RightOrCovered, SharingInDoubt
  <2>4. DomainOnFile'
    BY <1>1, <1>6 DEF HostInv, DomainOnFile, Busy, Holds
  <2>. QED
    BY <1>3, <2>2, <2>3, <2>4 DEF HostInv
<1>7. CASE /\ hostPhase' = "loaded"
           /\ host' = Without(machine, DOMAIN machine \ {Domain}) /\ Persist(host')
  <2>1. /\ DOMAIN host' = (DOMAIN machine) \intersect {Domain}
        /\ \A k \in DOMAIN host' : host'[k] = machine[k]
        /\ host' = [k \in DOMAIN host' |-> host'[k]]
    BY <1>7 DEF Without, Restrict
  <2>2. \A k \in DOMAIN host' : k \in Key /\ host'[k] \in Managed(k)
    BY <1>1, <2>1, Keys DEF HostTyped, MachineOK, Contents, Managed, Body
  <2>3. host' \in HostState
    <3>1. host' \in [DOMAIN host' -> AnyManaged]
      BY <2>1, <2>2, ManagedIs
    <3>2. host' \in Table(Key, AnyManaged)
      BY <2>2, <3>1 DEF Table
    <3>. QED
      BY <2>2, <3>2 DEF HostState
  <2>4. hostFile' \in HostRecord /\ hostFile' # None /\ hostFile'.desired = host'
    BY <1>7, <2>3, PersistIs DEF Persist
  <2>5. HostTyped'
    BY <1>1, <1>2, <1>7, <2>3, <2>4 DEF HostTyped, MachineOK
  <2>6. RightOrCovered' /\ SharingInDoubt'
    BY <1>7 DEF RightOrCovered, SharingInDoubt
  <2>7. DomainOnFile'
    <3>1. Domain \in DOMAIN host' => Holds(Domain, host[Domain])'
      BY <1>1, <2>1, Keys DEF Holds, Object, Content
    <3>. QED
      BY <2>4, <3>1 DEF DomainOnFile, Holds
  <2>. QED
    BY <1>3, <2>5, <2>6, <2>7 DEF HostInv
<1>. QED
  BY <1>1, <1>5, <1>6, <1>7 DEF HostLoad

LEMMA RestoreKeepsInv == ASSUME HostInv, Restore PROVE HostInv'
<1>1. /\ HostTyped /\ hostPhase = "loaded" /\ hostPhase' = "up"
      /\ hostFile # None /\ host = hostFile.desired /\ hostFile \in HostRecord
      /\ UNCHANGED <<host, request, enrolled, ffLoads, lines, hostOps>>
  BY DEF HostInv, HostTyped, Restore
<1>2. PICK failed \in SUBSET Restored :
         \E last \in [{Object(k, host[k]) : k \in Restored \ failed} -> Restored \ failed] :
            /\ \A o \in {Object(k, host[k]) : k \in Restored \ failed} :
                  Object(last[o], host[last[o]]) = o
            /\ machine' = [o \in {Object(k, host[k]) : k \in Restored \ failed} |->
                              Content(last[o], host[last[o]])] @@ machine
            /\ hostFile' = IF Restored = {} THEN hostFile
                           ELSE [hostFile EXCEPT !.current = Without(host, failed)]
            /\ doubtful' = (doubtful \ (Restored \ failed)) \union failed \union Sharing(host)
  BY DEF Restore
<1>. DEFINE done == Restored \ failed
            objects == {Object(k, host[k]) : k \in done}
<1>3. PICK last \in [objects -> done] :
         /\ \A o \in objects : Object(last[o], host[last[o]]) = o
         /\ machine' = [o \in objects |-> Content(last[o], host[last[o]])] @@ machine
  BY <1>2
<1>4. DOMAIN host \in SUBSET Key /\ \A k \in DOMAIN host : host[k] \in Managed(k)
  BY <1>1, HostIs
<1>5. done \subseteq DOMAIN host /\ Domain \notin done /\ DOMAIN host \subseteq done \union failed \union {Domain}
      /\ failed \subseteq DOMAIN host
  BY DEF Restored
<1>. HIDE DEF done, objects
<1>6. /\ DOMAIN machine' = objects \union DOMAIN machine
      /\ \A o \in objects : machine'[o] = Content(last[o], host[last[o]])
      /\ \A o \in DOMAIN machine \ objects : machine'[o] = machine[o]
  BY <1>3 DEF @@
<1>7. \A o \in objects : o \in Thing /\ machine'[o] \in Contents(o)
  <2>. SUFFICES ASSUME NEW o \in objects PROVE o \in Thing /\ machine'[o] \in Contents(o)
    OBVIOUS
  <2>1. last[o] \in done /\ Object(last[o], host[last[o]]) = o
    BY <1>3
  <2>2. last[o] \in Key /\ host[last[o]] \in Managed(last[o])
    BY <1>4, <1>5, <2>1
  <2>. QED
    BY <1>6, <2>1, <2>2, Objects
<1>8. hostFile' \in HostRecord /\ hostFile' # None /\ hostFile'.desired = hostFile.desired
  <2>1. Without(host, failed) \in HostState
    BY <1>1, HostStates DEF HostTyped
  <2>2. hostFile' \in HostRecord /\ hostFile'.desired = hostFile.desired
    BY <1>1, <1>2, <2>1 DEF HostRecord
  <2>. QED
    BY <2>2, HostAssumption
<1>9. doubtful' = (doubtful \ done) \union failed \union Sharing(host)
  BY <1>2 DEF done
<1>10. Domain \notin objects
  <2>. SUFFICES ASSUME NEW k \in done PROVE Object(k, host[k]) # Domain
    BY DEF objects
  <2>. QED
    BY <1>4, <1>5, Keys DEF Object, IsCron, Domain
<1>11. \A t \in Thread : request[t] = None
  BY <1>1 DEF HostTyped
<1>12. HostTyped'
  <2>1. Sharing(host) \subseteq DOMAIN host
    BY DEF Sharing
  <2>2. doubtful' \subseteq Key
    BY <1>1, <1>4, <1>5, <1>9, <2>1 DEF HostTyped
  <2>3. MachineOK'
    BY <1>1, <1>6, <1>7 DEF HostTyped, MachineOK
  <2>. QED
    BY <1>1, <1>8, <1>11, <2>2, <2>3 DEF HostTyped
<1>13. DomainOnFile'
  <2>. SUFFICES ASSUME Domain \in DOMAIN hostFile.desired \ doubtful'
                PROVE  Holds(Domain, hostFile.desired[Domain])'
    BY <1>8 DEF DomainOnFile, Holds
  <2>1. Domain \notin doubtful
    BY <1>5, <1>9
  <2>2. Holds(Domain, hostFile.desired[Domain])
    BY <1>1, <2>1, NobodyAtWork
  <2>. QED
    BY <1>6, <1>8, <1>10, <2>2, Keys DEF Holds, Object
<1>14. RightOrCovered'
  <2>. SUFFICES ASSUME NEW j \in DOMAIN host \ doubtful' PROVE Holds(j, host[j])'
    BY <1>1 DEF RightOrCovered
  <2>1. CASE j = Domain
    BY <1>1, <1>8, <1>13, <2>1, <1>11 DEF DomainOnFile, Busy, Holds
  <2>2. CASE j # Domain
    <3>1. j \in done /\ j \notin Sharing(host)
      BY <1>5, <1>9, <2>2
    <3>2. PICK o \in objects : o = Object(j, host[j])
      BY <3>1 DEF objects
    <3>3. last[o] \in done /\ Object(last[o], host[last[o]]) = o
      BY <1>3
    <3>4. last[o] = j
      <4>1. \/ last[o] = j
            \/ IsCron(last[o]) /\ IsCron(j) /\ host[last[o]].command = host[j].command
        BY <1>4, <1>5, <3>1, <3>2, <3>3, Objects
      <4>. QED
        BY <1>5, <3>1, <3>3, <4>1 DEF Sharing
    <3>. QED
      BY <1>1, <1>6, <3>2, <3>4 DEF Holds
  <2>. QED
    BY <2>1, <2>2
<1>15. AloneIsRight' /\ ModulesFirst'
  BY <1>1, <1>11 DEF AloneIsRight, ModulesFirst
<1>16. SharingInDoubt'
  BY <1>1, <1>9 DEF SharingInDoubt, Sharing
<1>. QED
  BY <1>12, <1>13, <1>14, <1>15, <1>16 DEF HostInv

LEMMA HostStopKeepsInv == HostInv /\ (HostStop \/ Reboot) => HostInv'
<1>. SUFFICES ASSUME HostInv, HostStop \/ Reboot PROVE HostInv'
  OBVIOUS
<1>. USE DEF hostSystem
<1>1. HostTyped
  BY DEF HostInv
<1>2. CASE HostStop
  <2>1. /\ hostPhase' = "down" /\ host' = << >> /\ request' = [t \in Thread |-> None]
        /\ doubtful' = doubtful \union {k \in {Domain} : Busy(k)}
        /\ UNCHANGED <<hostFile, machine, enrolled, ffLoads, lines, hostOps>>
    BY <1>2 DEF HostStop
  <2>2. << >> \in HostState
    <3>1. << >> \in [{} -> AnyManaged] /\ DOMAIN << >> = {}
      OBVIOUS
    <3>. QED
      BY <3>1 DEF HostState, Table
  <2>3. HostTyped'
    BY <1>1, <2>1, <2>2, Keys DEF HostTyped, MachineOK
  <2>4. RightOrCovered' /\ AloneIsRight' /\ ModulesFirst' /\ SharingInDoubt'
    BY <2>1 DEF RightOrCovered, AloneIsRight, ModulesFirst, SharingInDoubt
  <2>5. DomainOnFile'
    BY <2>1 DEF HostInv, DomainOnFile, Holds
  <2>. QED
    BY <2>3, <2>4, <2>5 DEF HostInv
<1>3. CASE Reboot
  <2>. DEFINE lost == {o \in DOMAIN machine : o[1] = "sysctl" /\ machine[o] \in Volatile}
              booted == {<<"kernmod", m>> : m \in {n \in Kmod : Configured(n)}}
              gone == lost \union ({"kernmod"} \X Kmod)
  <2>1. /\ hostPhase = "down"
        /\ machine' = [o \in booted |-> "loaded"] @@ Without(machine, gone)
        /\ UNCHANGED <<hostPhase, host, hostFile, request, enrolled, ffLoads, lines,
                       doubtful, hostOps>>
    BY <1>3 DEF Reboot
  <2>2. \A o \in booted : o \in {"kernmod"} \X Kmod
    OBVIOUS
  <2>3. Domain \notin booted /\ Domain \notin gone
    BY DEF Domain
  <2>. HIDE DEF gone, booted
  <2>4. /\ DOMAIN machine' = booted \union (DOMAIN machine \ gone)
        /\ \A o \in booted : machine'[o] = "loaded"
        /\ \A o \in DOMAIN machine \ (gone \union booted) : machine'[o] = machine[o]
    BY <2>1 DEF @@, Without, Restrict
  <2>5. \A o \in {"kernmod"} \X Kmod : o \in Thing /\ Contents(o) = {"loaded"}
    BY DEF Thing, Contents, Key, IsCron
  <2>6. MachineOK'
    BY <1>1, <2>2, <2>4, <2>5 DEF HostTyped, MachineOK
  <2>7. HostTyped'
    BY <1>1, <2>1, <2>6 DEF HostTyped
  <2>8. request = [t \in Thread |-> None]
    BY <2>1, NobodyAtWork
  <2>9. RightOrCovered' /\ AloneIsRight' /\ ModulesFirst' /\ SharingInDoubt'
    BY <2>1, <2>8 DEF RightOrCovered, AloneIsRight, ModulesFirst, SharingInDoubt
  <2>10. DomainOnFile'
    <3>. SUFFICES ASSUME hostFile # None, Domain \in DOMAIN hostFile.desired \ doubtful
                  PROVE  Holds(Domain, hostFile.desired[Domain])'
      BY <2>1 DEF DomainOnFile, Holds
    <3>1. Holds(Domain, hostFile.desired[Domain])
      BY <2>1, NobodyAtWork
    <3>. QED
      BY <2>1, <2>3, <2>4, <3>1, Keys DEF Holds, Object
  <2>. QED
    BY <2>7, <2>9, <2>10 DEF HostInv
<1>. QED
  BY <1>2, <1>3

LEMMA HostInvInit == HostInit => HostInv
<1>. SUFFICES ASSUME HostInit PROVE HostInv
  OBVIOUS
<1>1. /\ hostPhase = "down" /\ host = << >> /\ hostFile = None
      /\ request = [t \in Thread |-> None]
      /\ machine = [o \in {"kernmod"} \X Kmod |-> "loaded"]
      /\ enrolled = [g \in Group |-> {}]
      /\ ffLoads = {} /\ lines = ConfFile \X Kmod /\ doubtful = {} /\ hostOps = 0
  BY DEF HostInit
<1>2. << >> \in HostState
  <2>1. << >> \in [{} -> AnyManaged] /\ DOMAIN << >> = {}
    OBVIOUS
  <2>. QED
    BY <2>1 DEF HostState, Table
<1>3. MachineOK
  <2>1. \A o \in {"kernmod"} \X Kmod : o \in Thing /\ Contents(o) = {"loaded"}
    BY DEF Thing, Contents, Key, IsCron
  <2>. QED
    BY <1>1, <2>1 DEF MachineOK
<1>4. 0 \in 0..MaxHostOps
  BY HostAssumption
<1>5. HostTyped
  BY <1>1, <1>2, <1>3, <1>4 DEF HostTyped
<1>. QED
  BY <1>1, <1>5
     DEF HostInv, RightOrCovered, AloneIsRight, ModulesFirst, SharingInDoubt, DomainOnFile

LEMMA HostStepKeepsInv == HostInv /\ [HostNext]_hostVars => HostInv'
<1>. SUFFICES ASSUME HostInv, [HostNext]_hostVars PROVE HostInv'
  OBVIOUS
<1>1. ASSUME NEW t \in Thread, HostRequest(t) PROVE HostInv'
  BY <1>1, ChangesKeepInv, ImportsKeepInv, StripKeepsInv, StopManagingKeepsInv, RecordKeepsInv
     DEF HostRequest
<1>2. CASE UNCHANGED hostVars
  <2>. USE <1>2 DEF hostVars, hostSystem
  <2>1. HostTyped'
    BY DEF HostInv, HostTyped, MachineOK
  <2>2. RightOrCovered'
    BY DEF HostInv, RightOrCovered, Holds, Covered
  <2>3. AloneIsRight'
    BY DEF HostInv, AloneIsRight, Holds
  <2>4. ModulesFirst' /\ SharingInDoubt'
    BY DEF HostInv, ModulesFirst, SharingInDoubt, Sharing
  <2>5. DomainOnFile'
    BY DEF HostInv, DomainOnFile, Busy, Holds
  <2>. QED
    BY <2>1, <2>2, <2>3, <2>4, <2>5 DEF HostInv
<1>. QED
  BY <1>1, <1>2, LoadKeepsInv, RestoreKeepsInv, HostStopKeepsInv DEF HostNext

LEMMA HostInvAlways == HostSpec => []HostInv
  BY HostInvInit, HostStepKeepsInv, PTL DEF HostSpec

-----------------------------------------------------------------------------
\* The host plugin's variables keep their types: whatever requests overlap, an
\* entry is recorded with a value of its kind.
THEOREM HostTypes == HostSpec => []HostTypeOK
<1>1. HostInv => HostTypeOK
  <2>. SUFFICES ASSUME HostInv PROVE HostTypeOK
    OBVIOUS
  <2>. USE DEF HostInv, HostTyped
  <2>1. IsHostState(host)
    BY HostStates DEF IsHostState
  <2>2. hostFile # None => IsHostState(hostFile.desired) /\ IsHostState(hostFile.current)
    BY HostStates DEF IsHostState, HostRecord
  <2>3. \A t \in Thread : request[t] # None =>
           hostPhase = "up" /\ request[t].key \in Key /\ request[t].old \subseteq ConfFile
    BY DEF Request
  <2>4. \A o \in DOMAIN machine :
           machine[o] \in CASE o[1] = "cron" -> Schedule
                            [] o[1] = "kernmod" -> {"loaded"}
                            [] OTHER -> Spec
    BY DEF MachineOK, Contents
  <2>. QED
    BY <2>1, <2>2, <2>3, <2>4 DEF HostTypeOK
<1>. QED
  BY <1>1, HostInvAlways, PTL

\* What the host plugin shows as managed is on the system, whatever requests
\* overlap and wherever the process is killed; but for the entries in doubt.
THEOREM HostManagedIsOnSystem == HostSpec => []ManagedIsOnSystem
<1>1. HostInv => ManagedIsOnSystem
  <2>. SUFFICES ASSUME HostInv, hostPhase = "up", NEW k \in DOMAIN host \ doubtful, Covered(k)
                PROVE  Busy(k)
    BY DEF HostInv, RightOrCovered, ManagedIsOnSystem, Holds
  <2>1. PICK s \in Thread :
           /\ request[s] # None
           /\ \/ request[s].key = k
              \/ /\ request[s].do = "set"
                 /\ Object(request[s].key, request[s].val) = Object(k, host[k])
    BY DEF Covered
  <2>2. /\ request[s].key \in Key /\ k \in Key /\ host[k] \in Managed(k)
        /\ request[s].do = "set" => request[s].val \in Managed(request[s].key)
    BY <2>1, HostIs DEF HostInv, HostTyped, Request, Proper
  <2>. QED
    BY <2>1, <2>2, Objects DEF Busy, Conflicts
<1>. QED
  BY <1>1, HostInvAlways, PTL

\* Importing a kernel module never takes it out of what the next boot loads, at
\* no step of the import and wherever it ends.
THEOREM HostModulesStay == HostSpec => ModuleStaysConfigured
<1>1. HostInv /\ [HostNext]_hostVars =>
         [\A m \in Kmod : Configured(m) => Configured(m)']_hostVars
  <2>. SUFFICES ASSUME HostInv, HostNext, NEW m \in Kmod, Configured(m) PROVE Configured(m)'
    BY DEF HostNext
  <2>. USE DEF hostSystem
  <2>1. ASSUME NEW t \in Thread, StripOld(t) PROVE Configured(m)'
    <3>1. CASE m = request[t].key[2]
      BY <2>1, <3>1 DEF StripOld, HostInv, ModulesFirst, Configured
    <3>2. CASE m # request[t].key[2]
      BY <2>1, <3>2 DEF StripOld, Configured
    <3>. QED
      BY <3>1, <3>2
  <2>2. CASE ffLoads \subseteq ffLoads' /\ lines' = lines
    BY <2>2 DEF Configured
  <2>3. ASSUME NEW t \in Thread, HostRequest(t), ~ StripOld(t)
        PROVE  ffLoads \subseteq ffLoads' /\ lines' = lines
    BY <2>3 DEF HostRequest, SetEntry, SetFails, SetHostname, DeleteEntry, DeleteFails,
                StopManaging, ImportEntry, ImportForeign, ImportKmod,
                AddGroupMember, RemoveGroupMember, MemberFails, Record
  <2>4. ASSUME (\E ignore \in BOOLEAN : HostLoad(ignore)) \/ Restore \/ HostStop \/ Reboot
        PROVE  ffLoads \subseteq ffLoads' /\ lines' = lines
    BY <2>4 DEF HostLoad, Restore, HostStop, Reboot
  <2>. QED
    BY <2>1, <2>2, <2>3, <2>4 DEF HostNext
<1>. QED
  BY <1>1, HostInvAlways, HostStepKeepsInv, PTL DEF HostSpec, ModuleStaysConfigured

-----------------------------------------------------------------------------
(* Packages: what is managed, and what a thread has left to do. *)

PkgState == {s \in Table(PkgKey, AnyKept) : \A k \in DOMAIN s : s[k] \in Kept(k)}

SystemOK ==
    /\ manager \in Managers /\ initd \in InitSystemFound
    /\ unitState \in [Service -> UnitState]
    /\ installedPkgs \subseteq Package /\ index \subseteq Url

JobsOK ==
    /\ job \in [Thread -> PkgJob \union {None}]
    /\ \A t \in Thread : job[t] # None =>
          pkgPhase = "up" /\ (job[t].do # "delete" => job[t].val \in Kept(job[t].key))

PkgTyped ==
    /\ pkgPhase \in {"down", "restoring", "up"}
    /\ pkg \in PkgState
    /\ pkgFile \in [desired : PkgState, current : PkgState] \union {None}
    /\ pkgPhase = "restoring" => pkgFile # None
    /\ restoring \in [todo : SUBSET PkgKey, applied : SUBSET PkgKey]
    /\ restoring.todo \intersect restoring.applied = {}
    /\ pkgPhase = "restoring" => restoring.todo \union restoring.applied \subseteq DOMAIN pkg
    /\ JobsOK /\ SystemOK
    /\ unsure \subseteq PkgKey

LEMMA PkgKeys ==
    /\ \A k \in PkgKey : k[1] \in {"services", "packages", "repos"}
    /\ \A k \in PkgKey : k[1] = "services" => k[2] \in Service
    /\ \A k \in PkgKey : k[1] = "packages" => k[2] \in Package
    /\ \A s \in Service : <<"services", s>> \in PkgKey
    /\ \A p \in Package : <<"packages", p>> \in PkgKey
    /\ \A r \in Repo : <<"repos", r>> \in PkgKey
  BY DEF PkgKey

LEMMA BodiesAreKept == ASSUME NEW k \in PkgKey, NEW v \in PkgBody(k) PROVE v \in Kept(k)
<1>1. CASE k[1] = "repos"
  BY <1>1 DEF Kept, PkgBody
<1>2. CASE k[1] # "repos"
  BY <1>2 DEF Kept
<1>. QED
  BY <1>1, <1>2

LEMMA PkgStates ==
    ASSUME NEW s \in PkgState
    PROVE  /\ DOMAIN s \in SUBSET PkgKey /\ \A k \in DOMAIN s : s[k] \in Kept(k)
           /\ \A k \in PkgKey : \A v \in Kept(k) : k :> v @@ s \in PkgState
           /\ \A S : Without(s, S) \in PkgState
           /\ \A S \in SUBSET DOMAIN s : Restrict(s, S) \in PkgState
<1>. USE DEF PkgState
<1>1. PICK A \in SUBSET PkgKey : s \in [A -> AnyKept]
  BY DEF Table
<1>2. ASSUME NEW k \in PkgKey, NEW v \in Kept(k) PROVE k :> v @@ s \in PkgState
  <2>1. v \in AnyKept
    BY DEF AnyKept
  <2>2. k :> v @@ s \in [({k} \union A) -> AnyKept]
    BY <1>1, <2>1 DEF :>, @@
  <2>3. k :> v @@ s \in Table(PkgKey, AnyKept)
    BY <2>2 DEF Table
  <2>4. \A j \in DOMAIN (k :> v @@ s) : (k :> v @@ s)[j] \in Kept(j)
    BY DEF :>, @@
  <2>. QED
    BY <2>3, <2>4
<1>3. ASSUME NEW S \in SUBSET DOMAIN s PROVE Restrict(s, S) \in PkgState
  <2>1. Restrict(s, S) \in [S -> AnyKept] /\ S \in SUBSET PkgKey
    BY <1>1 DEF Restrict
  <2>2. Restrict(s, S) \in Table(PkgKey, AnyKept)
    BY <2>1 DEF Table
  <2>3. \A j \in DOMAIN Restrict(s, S) : Restrict(s, S)[j] \in Kept(j)
    BY DEF Restrict
  <2>. QED
    BY <2>2, <2>3
<1>4. ASSUME NEW S PROVE Without(s, S) \in PkgState
  BY <1>3 DEF Without
<1>. QED
  BY <1>1, <1>2, <1>3, <1>4

LEMMA NothingManaged == << >> \in PkgState /\ DOMAIN << >> = {}
<1>1. DOMAIN << >> = {} /\ << >> \in [{} -> AnyKept]
  OBVIOUS
<1>2. << >> \in Table(PkgKey, AnyKept)
  BY <1>1 DEF Table
<1>. QED
  BY <1>1, <1>2 DEF PkgState

-----------------------------------------------------------------------------
(* Packages: each step keeps the types. *)

LEMMA RefreshIsTyped ==
    ASSUME index \subseteq Url, NEW force, RefreshCache(force) PROVE index' \subseteq Url
  BY DEF RefreshCache, Indexable

LEMMA ApplyIsTyped ==
    ASSUME SystemOK, NEW k \in PkgKey, NEW v \in Kept(k), Apply(k, v) PROVE SystemOK'
<1>1. CASE k[1] = "services"
  <2>1. v \in UnitState /\ k[2] \in Service
    BY <1>1, PkgKeys DEF Kept, PkgBody
  <2>2. /\ unitState' = [unitState EXCEPT ![k[2]] = Effect(k[2], v)]
        /\ UNCHANGED <<installedPkgs, index>>
    BY <1>1 DEF Apply
  <2>3. Effect(k[2], v) \in UnitState
    BY <2>1 DEF Effect, SystemOK, UnitState
  <2>. QED
    BY <2>1, <2>2, <2>3 DEF Apply, SystemOK
<1>2. CASE k[1] = "packages"
  <2>1. k[2] \in Package
    BY <1>2, PkgKeys
  <2>2. /\ RefreshCache(FALSE) /\ UNCHANGED unitState
        /\ installedPkgs' = IF v THEN installedPkgs \union {k[2]} ELSE installedPkgs \ {k[2]}
    BY <1>2 DEF Apply
  <2>3. index' \subseteq Url
    BY <2>2, RefreshIsTyped DEF SystemOK
  <2>4. installedPkgs' \subseteq Package
    BY <2>1, <2>2 DEF SystemOK
  <2>. QED
    BY <2>2, <2>3, <2>4 DEF Apply, SystemOK
<1>3. CASE k[1] = "repos"
  BY <1>3 DEF Apply, SystemOK
<1>. QED
  BY <1>1, <1>2, <1>3, PkgKeys

LEMMA StartIsTyped ==
    ASSUME JobsOK, NEW t \in Thread, pkgPhase = "up", NEW todo \in {"refresh", "record"},
           NEW do \in {"set", "update", "delete"}, NEW k \in PkgKey, NEW v \in AnyKept \union {None},
           do # "delete" => v \in Kept(k), NEW sure \in BOOLEAN, Start(t, todo, do, k, v, sure),
           UNCHANGED pkgPhase
    PROVE  JobsOK'
<1>. DEFINE new == [todo |-> todo, do |-> do, key |-> k, val |-> v,
                    sure |-> sure /\ Competing(t, k) = {}]
            j(s) == IF s = t THEN new
                    ELSE IF s \in Competing(t, k) THEN [job[s] EXCEPT !.sure = FALSE]
                    ELSE job[s]
<1>1. job' = [s \in Thread |-> j(s)]
  BY DEF Start
<1>2. new \in PkgJob
  <2>1. (sure /\ Competing(t, k) = {}) \in BOOLEAN
    OBVIOUS
  <2>. QED
    BY <2>1 DEF PkgJob
<1>3. ASSUME NEW s \in Thread
      PROVE  /\ j(s) \in PkgJob \union {None}
             /\ j(s) # None /\ j(s).do # "delete" => j(s).val \in Kept(j(s).key)
  <2>1. CASE s = t
    BY <1>2, <2>1
  <2>2. CASE s # t /\ s \in Competing(t, k)
    <3>1. job[s] \in PkgJob /\ job[s] # None
      BY <2>2 DEF Competing, JobsOK
    <3>2. [job[s] EXCEPT !.sure = FALSE] \in PkgJob
      BY <3>1 DEF PkgJob
    <3>3. /\ [job[s] EXCEPT !.sure = FALSE].do = job[s].do
          /\ [job[s] EXCEPT !.sure = FALSE].key = job[s].key
          /\ [job[s] EXCEPT !.sure = FALSE].val = job[s].val
      BY <3>1 DEF PkgJob
    <3>. QED
      BY <2>2, <3>1, <3>2, <3>3 DEF JobsOK
  <2>3. CASE s # t /\ s \notin Competing(t, k)
    BY <2>3 DEF JobsOK
  <2>. QED
    BY <2>1, <2>2, <2>3
<1>. HIDE DEF j
<1>. QED
  BY <1>1, <1>3 DEF JobsOK

LEMMA JobEnds ==
    ASSUME JobsOK, NEW t \in Thread, job' = [job EXCEPT ![t] = None], UNCHANGED pkgPhase
    PROVE  JobsOK'
  BY DEF JobsOK

LEMMA TouchedIsTyped ==
    ASSUME pkg \in PkgState, NEW k \in PkgKey, NEW v PROVE Touched(k, v) \subseteq PkgKey
  BY PkgStates DEF Touched

LEMMA SharingIsTyped == ASSUME NEW s \in PkgState PROVE SharingUrl(s) \subseteq PkgKey
  BY PkgStates DEF SharingUrl

LEMMA SetIsTyped ==
    ASSUME PkgTyped, NEW t \in Thread, NEW k \in PkgKey, NEW v \in PkgBody(k), SetManaged(t, k, v)
    PROVE  PkgTyped'
<1>1. v \in Kept(k) /\ v \in AnyKept
  BY BodiesAreKept DEF AnyKept
<1>2. SystemOK'
  BY <1>1, ApplyIsTyped DEF SetManaged, PkgTyped
<1>3. PICK todo \in {"refresh", "record"}, sure \in BOOLEAN : Start(t, todo, "set", k, v, sure)
  BY DEF SetManaged
<1>4. pkgPhase = "up" /\ UNCHANGED pkgPhase
  BY DEF SetManaged, PkgClient
<1>5. JobsOK'
  BY <1>1, <1>3, <1>4, StartIsTyped DEF PkgTyped
<1>. QED
  BY <1>2, <1>5 DEF SetManaged, PkgTyped

LEMMA UpdateIsTyped ==
    ASSUME PkgTyped, NEW t \in Thread, NEW k \in DOMAIN pkg, UpdatePackage(t, k)
    PROVE  PkgTyped'
<1>1. k \in PkgKey /\ k[1] = "packages"
  BY PkgStates DEF PkgTyped, UpdatePackage
<1>2. TRUE \in Kept(k)
  BY <1>1 DEF Kept, PkgBody
<1>3. TRUE \in AnyKept
  BY <1>1, <1>2 DEF AnyKept
<1>4. SystemOK'
  BY <1>1, <1>2, ApplyIsTyped DEF UpdatePackage, PkgTyped
<1>5. pkgPhase = "up" /\ UNCHANGED pkgPhase /\ Start(t, "record", "update", k, TRUE, TRUE)
  BY DEF UpdatePackage, PkgClient
<1>6. JobsOK'
  BY <1>1, <1>3, <1>2, <1>5, StartIsTyped DEF PkgTyped
<1>. QED
  BY <1>4, <1>6 DEF UpdatePackage, PkgTyped

LEMMA RemoveIsTyped ==
    ASSUME PkgTyped, NEW t \in Thread, NEW k \in DOMAIN pkg, RemoveManaged(t, k)
    PROVE  PkgTyped'
<1>1. k \in PkgKey
  BY PkgStates DEF PkgTyped, RemoveManaged
<1>2. SystemOK'
  BY DEF RemoveManaged, Uninstall, PkgTyped, SystemOK
<1>3. pkgPhase = "up" /\ UNCHANGED pkgPhase /\ Start(t, "record", "delete", k, None, TRUE)
  BY DEF RemoveManaged, PkgClient
<1>4. JobsOK'
  BY <1>1, <1>3, StartIsTyped DEF PkgTyped
<1>. QED
  BY <1>2, <1>4 DEF RemoveManaged, PkgTyped

LEMMA FailureIsTyped ==
    ASSUME PkgTyped, NEW t \in Thread, NEW k \in PkgKey, NEW v \in PkgBody(k), ChangeFails(t, k, v)
    PROVE  PkgTyped'
<1>. DEFINE j(s) == IF s \in Competing(t, k) THEN [job[s] EXCEPT !.sure = FALSE] ELSE job[s]
<1>1. SystemOK'
  BY BodiesAreKept, ApplyIsTyped DEF ChangeFails, PkgTyped
<1>2. unsure' \subseteq PkgKey
  BY TouchedIsTyped DEF ChangeFails, PkgTyped
<1>3. job' = [s \in Thread |-> j(s)] /\ UNCHANGED pkgPhase
  BY DEF ChangeFails
<1>4. ASSUME NEW s \in Thread
      PROVE  /\ j(s) \in PkgJob \union {None}
             /\ j(s) # None => pkgPhase = "up"
             /\ j(s) # None /\ j(s).do # "delete" => j(s).val \in Kept(j(s).key)
  <2>1. CASE s \in Competing(t, k)
    <3>1. job[s] \in PkgJob /\ job[s] # None
      BY <2>1 DEF Competing, JobsOK, PkgTyped
    <3>2. [job[s] EXCEPT !.sure = FALSE] \in PkgJob
      BY <3>1 DEF PkgJob
    <3>3. /\ [job[s] EXCEPT !.sure = FALSE].do = job[s].do
          /\ [job[s] EXCEPT !.sure = FALSE].key = job[s].key
          /\ [job[s] EXCEPT !.sure = FALSE].val = job[s].val
      BY <3>1 DEF PkgJob
    <3>. QED
      BY <2>1, <3>1, <3>2, <3>3 DEF JobsOK, PkgTyped
  <2>2. CASE s \notin Competing(t, k)
    BY <2>2 DEF JobsOK, PkgTyped
  <2>. QED
    BY <2>1, <2>2
<1>. HIDE DEF j
<1>5. JobsOK'
  BY <1>3, <1>4 DEF JobsOK
<1>. QED
  BY <1>1, <1>2, <1>5 DEF ChangeFails, PkgTyped

LEMMA RefreshesAreTyped ==
    ASSUME PkgTyped, NEW t \in Thread, RefreshForRepo(t) \/ RefreshFails(t)
    PROVE  PkgTyped'
<1>1. job[t] \in PkgJob /\ job[t] # None
  BY DEF RefreshForRepo, RefreshFails, PkgTyped, JobsOK
<1>2. CASE RefreshForRepo(t)
  <2>. DEFINE r == [job[t] EXCEPT !.todo = "record"]
  <2>1. SystemOK'
    <3>1. index' \subseteq Url
      BY <1>2, RefreshIsTyped DEF RefreshForRepo, PkgTyped, SystemOK
    <3>. QED
      BY <1>2, <3>1 DEF RefreshForRepo, PkgTyped, SystemOK
  <2>2. r \in PkgJob /\ r.do = job[t].do /\ r.key = job[t].key /\ r.val = job[t].val
    BY <1>1 DEF PkgJob
  <2>3. job' = [job EXCEPT ![t] = r] /\ UNCHANGED pkgPhase
    BY <1>2 DEF RefreshForRepo
  <2>. HIDE DEF r
  <2>4. JobsOK'
    <3>1. job' \in [Thread -> PkgJob \union {None}]
      BY <2>2, <2>3 DEF PkgTyped, JobsOK
    <3>2. ASSUME NEW s \in Thread, job'[s] # None
          PROVE  pkgPhase' = "up" /\ (job'[s].do # "delete" => job'[s].val \in Kept(job'[s].key))
      <4>1. CASE s = t
        BY <1>1, <2>2, <2>3, <4>1 DEF PkgTyped, JobsOK
      <4>2. CASE s # t
        BY <2>3, <3>2, <4>2 DEF PkgTyped, JobsOK
      <4>. QED
        BY <4>1, <4>2
    <3>. QED
      BY <3>1, <3>2 DEF JobsOK
  <2>. QED
    BY <1>2, <2>1, <2>4 DEF RefreshForRepo, PkgTyped
<1>3. CASE RefreshFails(t)
  <2>1. JobsOK'
    BY <1>3, JobEnds DEF RefreshFails, PkgTyped
  <2>2. job[t].key \in PkgKey
    BY <1>1 DEF PkgJob
  <2>3. unsure' \subseteq PkgKey
    BY <1>3, <2>2, TouchedIsTyped DEF RefreshFails, PkgTyped
  <2>. QED
    BY <1>3, <2>1, <2>3 DEF RefreshFails, PkgTyped, pkgSystem, SystemOK
<1>. QED
  BY <1>2, <1>3

LEMMA RecordingIsTyped ==
    ASSUME PkgTyped, NEW t \in Thread, RecordManaged(t) PROVE PkgTyped'
<1>1. job[t] \in PkgJob /\ job[t] # None /\ pkgPhase = "up"
  BY DEF RecordManaged, PkgTyped, JobsOK
<1>2. /\ job[t].key \in PkgKey
      /\ job[t].do # "delete" => job[t].val \in Kept(job[t].key)
  BY <1>1 DEF PkgJob, PkgTyped, JobsOK
<1>3. JobsOK'
  BY JobEnds DEF RecordManaged, PkgTyped
<1>4. /\ pkg' \in PkgState /\ unsure' \subseteq PkgKey
      /\ pkgFile' \in [desired : PkgState, current : PkgState] \union {None}
  <2>1. CASE UNCHANGED <<pkg, pkgFile, unsure>>
    BY <2>1 DEF PkgTyped
  <2>2. CASE ~ UNCHANGED <<pkg, pkgFile, unsure>>
    <3>1. /\ pkg' = StateWith(job[t])
          /\ PkgPersist(pkg')
          /\ unsure' = (IF HoldsAs(job[t], pkg') THEN unsure \ {job[t].key}
                        ELSE unsure \union {job[t].key}) \union SharingUrl(pkg')
      BY <2>2 DEF RecordManaged
    <3>2. pkg' \in PkgState
      <4>1. pkg' = CASE job[t].do = "set" -> job[t].key :> job[t].val @@ pkg
                     [] job[t].do = "update" -> pkg
                     [] job[t].do = "delete" -> Without(pkg, {job[t].key})
        BY <3>1 DEF StateWith
      <4>2. job[t].do \in {"set", "update", "delete"}
        BY <1>1 DEF PkgJob
      <4>. QED
        BY <1>2, <4>1, <4>2, PkgStates DEF PkgTyped
    <3>3. SharingUrl(pkg') \subseteq PkgKey
      BY <3>2, SharingIsTyped
    <3>4. unsure' \subseteq PkgKey
      BY <1>2, <3>1, <3>3 DEF PkgTyped
    <3>. QED
      BY <3>1, <3>2, <3>4 DEF PkgPersist
  <2>. QED
    BY <2>1, <2>2
<1>. QED
  BY <1>1, <1>3, <1>4 DEF RecordManaged, PkgTyped, pkgSystem, SystemOK

LEMMA StopManagingIsTyped ==
    ASSUME PkgTyped, NEW t \in Thread, NEW k \in DOMAIN pkg, StopManagingService(t, k)
    PROVE  PkgTyped'
<1>1. pkgPhase = "up" /\ pkg' \in PkgState /\ PkgPersist(pkg')
  BY PkgStates DEF StopManagingService, PkgClient, PkgTyped
<1>2. pkgFile' \in [desired : PkgState, current : PkgState]
  BY <1>1 DEF PkgPersist
<1>. QED
  BY <1>1, <1>2 DEF StopManagingService, PkgTyped, pkgSystem, SystemOK, JobsOK

LEMMA ImportIsTyped ==
    ASSUME PkgTyped, NEW t \in Thread, NEW k \in PkgKey, NEW v \in Kept(k), ImportManaged(t, k, v)
    PROVE  PkgTyped'
<1>1. v \in AnyKept
  BY DEF AnyKept
<1>2. PICK sure \in BOOLEAN : Start(t, "record", "set", k, v, sure)
  <2>1. CASE k[1] = "services"
    <3>1. Start(t, "record", "set", k, v, InEffect(k[2], v)) /\ InEffect(k[2], v) \in BOOLEAN
      BY <2>1 DEF ImportManaged, InEffect
    <3>. QED
      BY <3>1
  <2>2. CASE k[1] = "packages"
    BY <2>2 DEF ImportManaged
  <2>3. CASE k[1] = "repos"
    BY <2>3 DEF ImportManaged
  <2>. QED
    BY <2>1, <2>2, <2>3, PkgKeys
<1>3. pkgPhase = "up" /\ UNCHANGED pkgPhase
  BY DEF ImportManaged, PkgClient
<1>4. JobsOK'
  BY <1>1, <1>2, <1>3, StartIsTyped DEF PkgTyped
<1>. QED
  BY <1>4 DEF ImportManaged, PkgTyped, pkgSystem, SystemOK

LEMMA PkgLoadIsTyped == ASSUME PkgTyped, NEW ignore \in BOOLEAN, PkgLoad(ignore) PROVE PkgTyped'
<1>1. PICK loaded : loaded = IF ignore \/ pkgFile = None THEN << >> ELSE pkgFile.desired
  OBVIOUS
<1>2. /\ pkg' = loaded /\ pkgPhase' = IF loaded = << >> THEN "up" ELSE "restoring"
      /\ restoring' = [todo |-> DOMAIN loaded, applied |-> {}]
      /\ pkgFile' = IF ~ ignore /\ pkgFile = None
                    THEN [desired |-> << >>, current |-> << >>] ELSE pkgFile
  BY <1>1 DEF PkgLoad, PkgPersist
<1>3. loaded \in PkgState
  BY <1>1, NothingManaged DEF PkgTyped
<1>4. DOMAIN loaded \in SUBSET PkgKey
  BY <1>3, PkgStates
<1>5. pkgFile' \in [desired : PkgState, current : PkgState] \union {None}
  <2>1. [desired |-> << >>, current |-> << >>] \in [desired : PkgState, current : PkgState]
    BY NothingManaged
  <2>. QED
    BY <1>2, <2>1 DEF PkgTyped
<1>6. pkgPhase' = "restoring" => pkgFile' # None
  BY <1>1, <1>2
<1>7. \A t \in Thread : job[t] = None
  BY DEF PkgLoad, PkgTyped, JobsOK
<1>8. JobsOK' /\ SystemOK'
  BY <1>7 DEF PkgLoad, PkgTyped, JobsOK, SystemOK
<1>9. /\ restoring' \in [todo : SUBSET PkgKey, applied : SUBSET PkgKey]
      /\ restoring'.todo \intersect restoring'.applied = {}
      /\ restoring'.todo \union restoring'.applied \subseteq DOMAIN pkg'
  BY <1>2, <1>4
<1>. QED
  BY <1>2, <1>3, <1>5, <1>6, <1>8, <1>9 DEF PkgLoad, PkgTyped

LEMMA PkgRestoreIsTyped ==
    ASSUME PkgTyped, NEW k \in PkgKey, RestoreManaged(k) \/ RestoreFails(k)
    PROVE  PkgTyped'
<1>1. pkgPhase = "restoring" /\ k \in restoring.todo /\ k \in DOMAIN pkg
  BY DEF RestoreManaged, RestoreFails, PkgTyped
<1>2. /\ restoring' \in [todo : SUBSET PkgKey, applied : SUBSET PkgKey]
      /\ restoring'.todo \intersect restoring'.applied = {}
      /\ restoring'.todo \union restoring'.applied \subseteq DOMAIN pkg
  <2>1. CASE RestoreManaged(k)
    <3>1. restoring' = [todo |-> restoring.todo \ {k}, applied |-> restoring.applied \union {k}]
      BY <2>1 DEF RestoreManaged
    <3>. QED
      BY <1>1, <3>1 DEF PkgTyped
  <2>2. CASE RestoreFails(k)
    <3>1. restoring' = [restoring EXCEPT !.todo = @ \ {k}]
      BY <2>2 DEF RestoreFails
    <3>. QED
      BY <1>1, <3>1 DEF PkgTyped
  <2>. QED
    BY <2>1, <2>2
<1>3. SystemOK'
  <2>1. CASE RestoreFails(k)
    BY <2>1 DEF RestoreFails, PkgTyped, SystemOK, pkgSystem
  <2>2. CASE RestoreManaged(k) /\ k[1] # "repos"
    <3>1. Apply(k, pkg[k]) /\ pkg[k] \in Kept(k)
      BY <1>1, <2>2, PkgStates DEF RestoreManaged, PkgTyped
    <3>. QED
      BY <3>1, ApplyIsTyped DEF PkgTyped
  <2>3. CASE RestoreManaged(k) /\ k[1] = "repos"
    BY <2>3 DEF RestoreManaged, PkgTyped, SystemOK
  <2>. QED
    BY <2>1, <2>2, <2>3
<1>4. unsure' \subseteq PkgKey
  BY SharingIsTyped DEF RestoreManaged, RestoreFails, PkgTyped
<1>5. UNCHANGED <<pkgPhase, pkg, pkgFile, job>>
  BY DEF RestoreManaged, RestoreFails
<1>. QED
  BY <1>1, <1>2, <1>3, <1>4, <1>5 DEF PkgTyped, JobsOK

LEMMA PkgCommitIsTyped == ASSUME PkgTyped, CommitRestored PROVE PkgTyped'
<1>1. /\ pkgFile \in [desired : PkgState, current : PkgState]
      /\ restoring.applied \in SUBSET DOMAIN pkg
  BY DEF CommitRestored, PkgTyped
<1>2. Restrict(pkg, restoring.applied) \in PkgState
  BY <1>1, PkgStates DEF PkgTyped
<1>3. pkgFile' = [pkgFile EXCEPT !.current = Restrict(pkg, restoring.applied)]
  BY DEF CommitRestored
<1>4. pkgFile' \in [desired : PkgState, current : PkgState]
  BY <1>1, <1>2, <1>3
<1>5. \A t \in Thread : job[t] = None
  BY DEF CommitRestored, PkgTyped, JobsOK
<1>. QED
  BY <1>4, <1>5 DEF CommitRestored, PkgTyped, pkgSystem, SystemOK, JobsOK

LEMMA PkgStopIsTyped == ASSUME PkgTyped, PkgStop \/ SystemReset PROVE PkgTyped'
<1>1. CASE PkgStop
  <2>1. restoring' = [todo |-> {}, applied |-> {}] /\ pkg' = << >> /\ pkg' \in PkgState
    BY <1>1, NothingManaged DEF PkgStop
  <2>2. JobsOK'
    BY <1>1 DEF PkgStop, JobsOK
  <2>. QED
    BY <1>1, <2>1, <2>2 DEF PkgStop, PkgTyped, pkgSystem, SystemOK
<1>2. CASE SystemReset
  BY <1>2 DEF SystemReset, PkgTyped, SystemOK, JobsOK, Off, UnitState
<1>. QED
  BY <1>1, <1>2

\* The upgrade puts in doubt what is being asked of the packages it moved.
LEMMA UpgradeIs ==
    ASSUME PkgTyped, RunUpgradeTask
    PROVE  \E keys \in SUBSET {<<"packages", p>> : p \in Package} :
              /\ unsure' = unsure \union keys
              /\ \A p \in Package : <<"packages", p>> \notin keys =>
                    (p \in installedPkgs' <=> p \in installedPkgs)
              /\ \A s \in Thread :
                    /\ job'[s] \in PkgJob \union {None}
                    /\ job'[s] = None <=> job[s] = None
                    /\ job[s] # None =>
                          /\ job'[s].todo = job[s].todo /\ job'[s].do = job[s].do
                          /\ job'[s].key = job[s].key /\ job'[s].val = job[s].val
                          /\ job'[s].sure => job'[s] = job[s] /\ job[s].key \notin keys
<1>1. PICK now \in SUBSET Package : \E moved, keys :
         /\ moved = {p \in Package : (p \in now) # (p \in installedPkgs)}
         /\ keys = {<<"packages", p>> : p \in moved}
         /\ installedPkgs' = now /\ unsure' = unsure \union keys
         /\ job' = [t \in Thread |-> IF job[t] # None /\ job[t].key \in keys
                                    THEN [job[t] EXCEPT !.sure = FALSE] ELSE job[t]]
  BY DEF RunUpgradeTask
<1>2. PICK moved, keys :
         /\ moved = {p \in Package : (p \in now) # (p \in installedPkgs)}
         /\ keys = {<<"packages", p>> : p \in moved}
         /\ installedPkgs' = now /\ unsure' = unsure \union keys
         /\ job' = [t \in Thread |-> IF job[t] # None /\ job[t].key \in keys
                                    THEN [job[t] EXCEPT !.sure = FALSE] ELSE job[t]]
  BY <1>1
<1>3. keys \in SUBSET {<<"packages", p>> : p \in Package}
  BY <1>2
<1>4. ASSUME NEW p \in Package, <<"packages", p>> \notin keys
      PROVE  p \in installedPkgs' <=> p \in installedPkgs
  <2>1. p \notin moved
    BY <1>2, <1>4
  <2>. QED
    BY <1>2, <2>1
<1>5. ASSUME NEW s \in Thread
      PROVE  /\ job'[s] \in PkgJob \union {None}
             /\ job'[s] = None <=> job[s] = None
             /\ job[s] # None =>
                   /\ job'[s].todo = job[s].todo /\ job'[s].do = job[s].do
                   /\ job'[s].key = job[s].key /\ job'[s].val = job[s].val
                   /\ job'[s].sure => job'[s] = job[s] /\ job[s].key \notin keys
  <2>1. CASE job[s] # None /\ job[s].key \in keys
    <3>1. job[s] \in PkgJob /\ job'[s] = [job[s] EXCEPT !.sure = FALSE]
      BY <1>2, <2>1 DEF PkgTyped, JobsOK
    <3>2. /\ job'[s] \in PkgJob /\ ~ job'[s].sure
          /\ job'[s].todo = job[s].todo /\ job'[s].do = job[s].do
          /\ job'[s].key = job[s].key /\ job'[s].val = job[s].val
      BY <3>1 DEF PkgJob
    <3>. QED
      BY <2>1, <3>2, PackagesAssumption
  <2>2. CASE ~ (job[s] # None /\ job[s].key \in keys)
    <3>1. job'[s] = job[s]
      BY <1>2, <2>2
    <3>. QED
      BY <2>2, <3>1 DEF PkgTyped, JobsOK
  <2>. QED
    BY <2>1, <2>2
<1>. QED
  BY <1>2, <1>3, <1>4, <1>5

LEMMA UpgradesAreTyped ==
    ASSUME PkgTyped, RunUpgradeTask \/ \E t \in Thread : UpgradeSystem(t)
    PROVE  PkgTyped'
<1>1. CASE RunUpgradeTask
  <2>1. index' \subseteq Url
    BY <1>1, RefreshIsTyped DEF RunUpgradeTask, PkgTyped, SystemOK
  <2>2. PICK keys \in SUBSET {<<"packages", p>> : p \in Package} :
           /\ unsure' = unsure \union keys
           /\ \A s \in Thread :
                 /\ job'[s] \in PkgJob \union {None}
                 /\ job'[s] = None <=> job[s] = None
                 /\ job[s] # None =>
                       /\ job'[s].todo = job[s].todo /\ job'[s].do = job[s].do
                       /\ job'[s].key = job[s].key /\ job'[s].val = job[s].val
    BY <1>1, UpgradeIs
  <2>3. unsure' \subseteq PkgKey
    BY <2>2, PkgKeys DEF PkgTyped
  <2>4. /\ DOMAIN job' = Thread /\ job' = [s \in Thread |-> job'[s]]
        /\ installedPkgs' \subseteq Package
        /\ UNCHANGED <<pkgPhase, pkg, pkgFile, restoring, manager, initd, unitState>>
    BY <1>1 DEF RunUpgradeTask
  <2>5. JobsOK'
    <3>1. job' \in [Thread -> PkgJob \union {None}]
      BY <2>2, <2>4
    <3>. QED
      BY <2>2, <2>4, <3>1 DEF PkgTyped, JobsOK
  <2>6. SystemOK'
    BY <2>1, <2>4 DEF PkgTyped, SystemOK
  <2>. QED
    BY <2>3, <2>4, <2>5, <2>6 DEF PkgTyped
<1>2. CASE \E t \in Thread : UpgradeSystem(t)
  BY <1>2 DEF UpgradeSystem, PkgClient, PkgTyped, pkgSystem, SystemOK, JobsOK
<1>. QED
  BY <1>1, <1>2

LEMMA PkgInitIsTyped == PkgInit => PkgTyped
<1>. SUFFICES ASSUME PkgInit PROVE PkgTyped
  OBVIOUS
<1>1. SystemOK
  BY PackagesAssumption DEF PkgInit, SystemOK, UnitState
<1>2. JobsOK
  BY DEF PkgInit, JobsOK
<1>3. restoring = [todo |-> {}, applied |-> {}] /\ pkg \in PkgState
  BY NothingManaged DEF PkgInit
<1>. QED
  BY <1>1, <1>2, <1>3 DEF PkgInit, PkgTyped

LEMMA PkgStepIsTyped == PkgTyped /\ [PkgNext]_pkgVars => PkgTyped'
<1>. SUFFICES ASSUME PkgTyped, [PkgNext]_pkgVars PROVE PkgTyped'
  OBVIOUS
<1>1. CASE UNCHANGED pkgVars
  BY <1>1 DEF pkgVars, pkgSystem, PkgTyped, SystemOK, JobsOK
<1>2. ASSUME NEW t \in Thread, PkgRequest(t) PROVE PkgTyped'
  <2>1. ASSUME NEW k \in PkgKey, NEW v \in PkgBody(k), SetManaged(t, k, v) \/ ChangeFails(t, k, v)
        PROVE  PkgTyped'
    BY <2>1, SetIsTyped, FailureIsTyped
  <2>2. ASSUME NEW k \in DOMAIN pkg,
               UpdatePackage(t, k) \/ RemoveManaged(t, k) \/ StopManagingService(t, k)
        PROVE  PkgTyped'
    BY <2>2, UpdateIsTyped, RemoveIsTyped, StopManagingIsTyped
  <2>3. ASSUME NEW s \in Service, ImportManaged(t, <<"services", s>>, Reported(s)) PROVE PkgTyped'
    <3>1. Reported(s) \in UnitState
      BY DEF Reported, PkgTyped, SystemOK, InitSystemFound, UnitState
    <3>2. Reported(s) \in Kept(<<"services", s>>)
      BY <3>1 DEF Kept, PkgBody
    <3>. QED
      BY <2>3, <3>2, PkgKeys, ImportIsTyped
  <2>4. ASSUME NEW p \in Package, ImportManaged(t, <<"packages", p>>, TRUE) PROVE PkgTyped'
    <3>1. TRUE \in Kept(<<"packages", p>>)
      BY DEF Kept, PkgBody
    <3>. QED
      BY <2>4, <3>1, PkgKeys, ImportIsTyped
  <2>5. ASSUME NEW r \in Repo, NEW u \in Url, NEW src \in BOOLEAN,
               ImportManaged(t, <<"repos", r>>, [present |-> TRUE, url |-> u, src |-> src])
        PROVE  PkgTyped'
    <3>1. [present |-> TRUE, url |-> u, src |-> src] \in Kept(<<"repos", r>>)
      BY DEF Kept
    <3>. QED
      BY <2>5, <3>1, PkgKeys, ImportIsTyped
  <2>6. CASE RefreshForRepo(t) \/ RefreshFails(t) \/ RecordManaged(t) \/ UpgradeSystem(t)
    BY <2>6, RefreshesAreTyped, RecordingIsTyped, UpgradesAreTyped
  <2>. QED
    BY <1>2, <2>1, <2>2, <2>3, <2>4, <2>5, <2>6 DEF PkgRequest
<1>3. CASE PkgNext
  BY <1>2, <1>3, UpgradesAreTyped, PkgLoadIsTyped, PkgRestoreIsTyped, PkgCommitIsTyped,
     PkgStopIsTyped DEF PkgNext
<1>. QED
  BY <1>1, <1>3

\* The variables of the package plugin have their types, whatever requests,
\* failures, kills and restarts come (plugin.py, _pkg_manager.py).
THEOREM PkgTypes == PkgSpec => []PkgTypeOK
<1>1. PkgTyped => PkgTypeOK
  <2>. SUFFICES ASSUME PkgTyped PROVE PkgTypeOK
    OBVIOUS
  <2>1. DOMAIN pkg \in SUBSET PkgKey /\ \A k \in DOMAIN pkg : pkg[k] \in Kept(k)
    BY PkgStates DEF PkgTyped
  <2>2. \A k \in DOMAIN pkg : IF k[1] = "repos" THEN pkg[k].url \in Url ELSE pkg[k] \in PkgBody(k)
    BY <2>1 DEF Kept
  <2>3. pkgFile # None => DOMAIN pkgFile.current \subseteq PkgKey
    BY PkgStates DEF PkgTyped
  <2>4. \A t \in Thread : job[t] # None => pkgPhase = "up" /\ job[t].key \in PkgKey
    BY DEF PkgTyped, JobsOK, PkgJob
  <2>. QED
    BY <2>1, <2>2, <2>3, <2>4 DEF PkgTyped, PkgTypeOK, SystemOK
<1>. QED
  BY <1>1, PkgInitIsTyped, PkgStepIsTyped, PTL DEF PkgSpec

-----------------------------------------------------------------------------
(* Packages: what is managed is on the system. *)

Line == ({"section"} \X (Repo \union {"stock"})) \union ({"server"} \X Url)

\* An entry as the change of it left the system; where pacman has a section, a
\* server that follows it may become its server when lines between are removed.
Settled(k, v) ==
    CASE k[1] = "services" ->
            /\ unitState[k[2]].running = v.running
            /\ k[2] \in Generated \/ unitState[k[2]].enabled = v.enabled
      [] k[1] = "packages" -> (k[2] \in installedPkgs) = v
      [] k[1] = "repos" ->
            IF v.present THEN Serves(k[2], v.url) /\ v.url \in index
            ELSE IF manager = "pacman" THEN Section(k[2]) \notin Range(sources)
            ELSE Server(v.url) \notin Range(sources)

\* A job that has changed, or will when it is recorded put in doubt, entry k.
Unsettles(r, k) ==
    \/ r.key = k
    \/ /\ r.key[1] = "repos" /\ k[1] = "repos" /\ r.do = "set"
       /\ r.val.url = pkg[k].url

\* Whoever shares a line is in doubt, of what is shown and what a boot restores.
SharingIsUnsure ==
    /\ SharingUrl(pkg) \subseteq unsure
    /\ pkgFile # None => SharingUrl(pkgFile.desired) \subseteq unsure
    /\ pkgPhase = "restoring" => pkg = pkgFile.desired

ShownIsSettled ==
    /\ pkgPhase = "up" =>
          \A k \in DOMAIN pkg \ unsure :
              Settled(k, pkg[k]) \/ \E t \in Thread : job[t] # None /\ Unsettles(job[t], k)
    /\ pkgPhase = "restoring" =>
          /\ DOMAIN pkg \subseteq restoring.todo \union restoring.applied \union unsure
          /\ \A k \in restoring.applied \ unsure : Settled(k, pkg[k])

\* A job that is sure is alone on its line, and what it will record is so.
JobSettled(r) ==
    r.sure /\ r.do # "delete" =>
        IF r.todo = "refresh" THEN Serves(r.key[2], r.val.url) ELSE Settled(r.key, r.val)

SureIsSettled ==
    \A t \in Thread : job[t] # None =>
        /\ job[t].todo = "refresh" =>
              job[t].do = "set" /\ job[t].key[1] = "repos" /\ job[t].val.present
        /\ job[t].sure => Competing(t, job[t].key) = {}
        /\ JobSettled(job[t])

PkgInv ==
    PkgTyped /\ sources \in Seq(Line) /\ SharingIsUnsure /\ ShownIsSettled /\ SureIsSettled

-----------------------------------------------------------------------------
(* Packages: the lines of repositories. *)

LEMMA LeastNumber ==
    ASSUME NEW S \in SUBSET Nat, S # {} PROVE \E m \in S : \A n \in S : m <= n
<1>. DEFINE R == OpToRel(<, Nat)
<1>1. IsWellFoundedOn(R, Nat)
  BY NatLessThanWellFounded, Zenon
<1>2. R = {ss \in Nat \X Nat : ss[1] < ss[2]}
  BY Zenon DEF OpToRel
<1>. HIDE DEF R
<1>3. PICK m \in S : \A n \in S : ~ (<<n, m>> \in R)
  BY <1>1, WFMin
<1>4. \A n \in S : <<n, m>> \in Nat \X Nat /\ <<n, m>>[1] = n /\ <<n, m>>[2] = m
  OBVIOUS
<1>5. \A n \in S : ~ (n < m)
  BY <1>2, <1>3, <1>4
<1>. QED
  BY <1>5

LEMMA CountUp ==
    ASSUME NEW N \in Nat, NEW Good, 0 \in Good, \A n \in 1..N : n - 1 \in Good => n \in Good
    PROVE  \A n \in 0..N : n \in Good
<1>. DEFINE Missing == {n \in 0..N : n \notin Good}
<1>. SUFFICES ASSUME Missing # {} PROVE FALSE
  OBVIOUS
<1>1. PICK m \in Missing : \A n \in Missing : m <= n
  <2>1. Missing \in SUBSET Nat
    OBVIOUS
  <2>. HIDE DEF Missing
  <2>. QED
    BY <2>1, LeastNumber
<1>2. m \in 1..N /\ m - 1 \in 0..N /\ ~ (m <= m - 1)
  BY <1>1
<1>3. m - 1 \in Good
  BY <1>1, <1>2
<1>. QED
  BY <1>1, <1>2, <1>3

\* What is left of the first n lines.
LEMMA LinesLeft ==
    ASSUME NEW L, NEW s \in Seq(L), NEW gone
    PROVE  \E left \in [0..Len(s) -> Seq(L)] :
              /\ LinesWithout(s, gone) = left[Len(s)]
              /\ left[0] = << >>
              /\ \A i \in 1..Len(s) : left[i] = IF s[i] \in gone THEN left[i - 1]
                                                ELSE Append(left[i - 1], s[i])
<1>. DEFINE Step(f, i) == IF i = 0 THEN << >>
                          ELSE IF s[i] \in gone THEN f[i - 1] ELSE Append(f[i - 1], s[i])
            Is(f, n) == f = [i \in 0..n |-> Step(f, i)]
            Done == {n \in 0..Len(s) : \E f \in [0..n -> Seq(L)] : Is(f, n)}
<1>0. Len(s) \in Nat /\ \A i \in 1..Len(s) : s[i] \in L
  OBVIOUS
<1>1. 0 \in Done
  <2>. DEFINE f == [i \in 0..0 |-> << >>]
  <2>1. f \in [0..0 -> Seq(L)] /\ Is(f, 0)
    OBVIOUS
  <2>. HIDE DEF f, Is
  <2>. QED
    BY <1>0, <2>1
<1>2. ASSUME NEW n \in 1..Len(s), n - 1 \in Done PROVE n \in Done
  <2>1. PICK f \in [0..(n - 1) -> Seq(L)] : Is(f, n - 1)
    BY <1>2
  <2>. DEFINE last == IF s[n] \in gone THEN f[n - 1] ELSE Append(f[n - 1], s[n])
              g == [i \in 0..n |-> IF i = n THEN last ELSE f[i]]
  <2>2. last \in Seq(L)
    BY <1>0
  <2>3. g \in [0..n -> Seq(L)]
    BY <1>0, <2>2
  <2>4. \A i \in 0..(n - 1) : g[i] = f[i] /\ f[i] = Step(f, i)
    <3>1. \A i \in 0..(n - 1) : g[i] = f[i]
      BY <1>0
    <3>2. ASSUME NEW i \in 0..(n - 1) PROVE f[i] = Step(f, i)
      <4>. HIDE DEF Step
      <4>. QED
        BY <2>1
    <3>. QED
      BY <3>1, <3>2
  <2>5. ASSUME NEW i \in 0..n PROVE g[i] = Step(g, i)
    <3>1. CASE i = n
      <4>1. g[n - 1] = f[n - 1] /\ g[n] = last /\ n # 0
        BY <1>0
      <4>. QED
        BY <3>1, <4>1
    <3>2. CASE i # n /\ i # 0
      <4>1. i - 1 \in 0..(n - 1) /\ i \in 0..(n - 1)
        BY <1>0, <3>2
      <4>. HIDE DEF g
      <4>. QED
        BY <2>4, <3>2, <4>1
    <3>3. CASE i = 0
      <4>1. 0 \in 0..(n - 1)
        BY <1>0
      <4>. QED
        BY <2>4, <3>3, <4>1
    <3>. QED
      BY <3>1, <3>2, <3>3
  <2>6. Is(g, n)
    <3>. HIDE DEF g
    <3>1. g = [i \in 0..n |-> g[i]]
      BY <2>3
    <3>. QED
      BY <2>5, <3>1
  <2>. HIDE DEF g, Is
  <2>. QED
    BY <1>0, <2>3, <2>6
<1>3. Len(s) \in Done
  <2>. HIDE DEF Done
  <2>1. \A n \in 1..Len(s) : n - 1 \in Done => n \in Done
    BY <1>2
  <2>2. PICK N \in Nat : N = Len(s)
    BY <1>0
  <2>3. \A n \in 0..N : n \in Done
    BY <1>1, <2>1, <2>2, CountUp
  <2>. QED
    BY <2>2, <2>3
<1>4. PICK f \in [0..Len(s) -> Seq(L)] : Is(f, Len(s))
  BY <1>3
<1>. DEFINE left == CHOOSE g : Is(g, Len(s))
<1>5. Is(left, Len(s))
  BY <1>4, Zenon
<1>6. LinesWithout(s, gone) = left[Len(s)]
  BY Zenon DEF LinesWithout
<1>. HIDE DEF left
<1>7. /\ left = [i \in 0..Len(s) |-> left[i]]
      /\ left[0] = << >>
      /\ \A i \in 1..Len(s) : left[i] = IF s[i] \in gone THEN left[i - 1]
                                        ELSE Append(left[i - 1], s[i])
  <2>1. left = [i \in 0..Len(s) |-> left[i]] /\ \A i \in 0..Len(s) : left[i] = Step(left, i)
    <3>. HIDE DEF Step
    <3>. QED
      BY <1>5
  <2>2. 0 \in 0..Len(s) /\ \A i \in 1..Len(s) : i # 0 /\ i \in 0..Len(s)
    BY <1>0
  <2>3. left[0] = << >>
    BY <2>1, <2>2, Zenon
  <2>4. ASSUME NEW i \in 1..Len(s)
        PROVE  left[i] = IF s[i] \in gone THEN left[i - 1] ELSE Append(left[i - 1], s[i])
    BY <2>1, <2>2, Zenon
  <2>. QED
    BY <2>1, <2>3, <2>4
<1>. HIDE DEF Is
<1>8. \A n \in 0..Len(s) : left[n] \in Seq(L)
  <2>. DEFINE Good == {n \in 0..Len(s) : left[n] \in Seq(L)}
  <2>1. 0 \in Good
    <3>1. << >> \in Seq(L)
      OBVIOUS
    <3>2. left[0] \in Seq(L)
      BY <1>7, <3>1, Zenon
    <3>3. 0 \in 0..Len(s)
      BY <1>0
    <3>. QED
      BY <3>2, <3>3, Zenon
  <2>2. ASSUME NEW n \in 1..Len(s), n - 1 \in Good PROVE n \in Good
    <3>1. PICK q \in Seq(L) : q = left[n - 1]
      BY <2>2
    <3>2. left[n] = IF s[n] \in gone THEN q ELSE Append(q, s[n])
      BY <1>7, <3>1
    <3>3. n \in 0..Len(s) /\ s[n] \in L
      BY <1>0
    <3>. QED
      BY <3>1, <3>2, <3>3
  <2>3. ASSUME NEW N \in Nat, N = Len(s) PROVE \A n \in 0..N : n \in Good
    <3>. HIDE DEF Good
    <3>. QED
      BY <2>1, <2>2, <2>3, CountUp
  <2>. QED
    BY <1>0, <2>3
<1>. QED
  BY <1>6, <1>7, <1>8

LEMMA LinesKept ==
    ASSUME NEW L, NEW s \in Seq(L), NEW gone, NEW w, w = LinesWithout(s, gone)
    PROVE  /\ w \in Seq(L)
           /\ \A l : l \in Range(w) <=> l \in Range(s) /\ l \notin gone
           /\ \A i \in 1..(Len(s) - 1) : s[i] \notin gone /\ s[i + 1] \notin gone =>
                 \E j \in 1..(Len(w) - 1) : w[j] = s[i] /\ w[j + 1] = s[i + 1]
<1>. DEFINE Only(q, n) == \A j \in 1..Len(q) : q[j] \notin gone /\ \E i \in 1..n : q[j] = s[i]
            All(q, n) == \A i \in 1..n : s[i] \notin gone => \E j \in 1..Len(q) : q[j] = s[i]
            Last(q, n) == n # 0 /\ s[n] \notin gone => Len(q) # 0 /\ q[Len(q)] = s[n]
            Pairs(q, n) == \A i \in 1..(n - 1) : s[i] \notin gone /\ s[i + 1] \notin gone =>
                              \E j \in 1..(Len(q) - 1) : q[j] = s[i] /\ q[j + 1] = s[i + 1]
<1>1. PICK left \in [0..Len(s) -> Seq(L)] :
              /\ w = left[Len(s)] /\ left[0] = << >>
              /\ \A i \in 1..Len(s) : left[i] = IF s[i] \in gone THEN left[i - 1]
                                                ELSE Append(left[i - 1], s[i])
  BY LinesLeft
<1>2. Len(s) \in Nat /\ \A i \in 1..Len(s) : s[i] \in L
  OBVIOUS
<1>. DEFINE Good == {n \in 0..Len(s) : /\ Only(left[n], n) /\ All(left[n], n)
                                       /\ Last(left[n], n) /\ Pairs(left[n], n)}
<1>3. 0 \in Good
  BY <1>1, <1>2
<1>4. ASSUME NEW n \in 1..Len(s), n - 1 \in Good PROVE n \in Good
  <2>1. PICK q \in Seq(L) : q = left[n - 1]
    BY <1>2
  <2>2. PICK r \in Seq(L) : r = left[n]
    BY <1>2
  <2>3. Only(q, n - 1) /\ All(q, n - 1) /\ Last(q, n - 1) /\ Pairs(q, n - 1)
    BY <1>4, <2>1
  <2>4. r = IF s[n] \in gone THEN q ELSE Append(q, s[n])
    BY <1>1, <2>1, <2>2
  <2>5. Only(r, n) /\ All(r, n) /\ Last(r, n) /\ Pairs(r, n)
    <3>1. CASE s[n] \in gone
      <4>1. r = q
        BY <2>4, <3>1
      <4>2. Only(q, n)
        BY <1>2, <2>3
      <4>3. All(q, n)
        BY <1>2, <2>3, <3>1
      <4>4. Last(q, n)
        BY <3>1
      <4>5. Pairs(q, n)
        <5>. SUFFICES ASSUME NEW i \in 1..(n - 1), s[i] \notin gone, s[i + 1] \notin gone
                      PROVE  \E j \in 1..(Len(q) - 1) : q[j] = s[i] /\ q[j + 1] = s[i + 1]
          OBVIOUS
        <5>1. i # n - 1
          BY <1>2, <3>1
        <5>2. i \in 1..((n - 1) - 1)
          BY <1>2, <5>1
        <5>. QED
          BY <2>3, <5>2
      <4>. QED
        BY <4>1, <4>2, <4>3, <4>4, <4>5
    <3>2. CASE s[n] \notin gone
      <4>1. /\ Len(q) \in Nat /\ Len(r) = Len(q) + 1 /\ r[Len(r)] = s[n]
            /\ \A j \in 1..Len(q) : r[j] = q[j]
        <5>1. r = Append(q, s[n]) /\ s[n] \in L
          BY <1>2, <2>4, <3>2
        <5>. QED
          BY <5>1
      <4>2. ASSUME NEW j \in 1..Len(r) PROVE r[j] \notin gone /\ \E i \in 1..n : r[j] = s[i]
        <5>1. CASE j = Len(r)
          BY <1>2, <3>2, <4>1, <5>1
        <5>2. CASE j # Len(r)
          <6>1. j \in 1..Len(q) /\ r[j] = q[j]
            BY <4>1, <5>2
          <6>2. q[j] \notin gone /\ \E i \in 1..(n - 1) : q[j] = s[i]
            BY <2>3, <6>1
          <6>. QED
            BY <1>2, <6>1, <6>2
        <5>. QED
          BY <5>1, <5>2
      <4>3. All(r, n)
        BY <1>2, <2>3, <3>2, <4>1
      <4>4. ASSUME NEW i \in 1..(n - 1), s[i] \notin gone, s[i + 1] \notin gone
            PROVE  \E j \in 1..(Len(r) - 1) : r[j] = s[i] /\ r[j + 1] = s[i + 1]
        <5>1. CASE i = n - 1
          <6>1. Len(q) # 0 /\ q[Len(q)] = s[i] /\ i + 1 = n
            BY <1>2, <2>3, <4>4, <5>1
          <6>. QED
            BY <4>1, <6>1
        <5>2. CASE i # n - 1
          <6>1. i \in 1..((n - 1) - 1)
            BY <1>2, <5>2
          <6>2. PICK j \in 1..(Len(q) - 1) : q[j] = s[i] /\ q[j + 1] = s[i + 1]
            BY <2>3, <4>4, <6>1
          <6>. QED
            BY <4>1, <6>2
        <5>. QED
          BY <5>1, <5>2
      <4>. QED
        BY <4>1, <4>2, <4>3, <4>4
    <3>. QED
      BY <3>1, <3>2
  <2>. QED
    BY <1>2, <2>2, <2>5
<1>5. Len(s) \in Good
  <2>. HIDE DEF Good
  <2>1. \A n \in 1..Len(s) : n - 1 \in Good => n \in Good
    BY <1>4
  <2>2. PICK N \in Nat : N = Len(s)
    BY <1>2
  <2>3. \A n \in 0..N : n \in Good
    BY <1>3, <2>1, <2>2, CountUp
  <2>. QED
    BY <2>2, <2>3
<1>6. w \in Seq(L) /\ Only(w, Len(s)) /\ All(w, Len(s)) /\ Pairs(w, Len(s))
  BY <1>1, <1>2, <1>5
<1>7. DOMAIN w = 1..Len(w) /\ DOMAIN s = 1..Len(s)
  BY <1>6
<1>8. ASSUME NEW l PROVE l \in Range(w) <=> l \in Range(s) /\ l \notin gone
  <2>1. ASSUME l \in Range(w) PROVE l \in Range(s) /\ l \notin gone
    <3>1. PICK j \in 1..Len(w) : l = w[j]
      BY <1>7, <2>1 DEF Range
    <3>2. w[j] \notin gone /\ \E i \in 1..Len(s) : w[j] = s[i]
      BY <1>6
    <3>. QED
      BY <1>7, <3>1, <3>2 DEF Range
  <2>2. ASSUME l \in Range(s), l \notin gone PROVE l \in Range(w)
    <3>1. PICK i \in 1..Len(s) : l = s[i]
      BY <1>7, <2>2 DEF Range
    <3>2. \E j \in 1..Len(w) : w[j] = s[i]
      BY <1>6, <2>2, <3>1
    <3>. QED
      BY <1>7, <3>1, <3>2 DEF Range
  <2>. QED
    BY <2>1, <2>2
<1>. QED
  BY <1>6, <1>8

LEMMA LineFacts ==
    /\ \A n \in Repo, u \in Url : Section(n) \in Line /\ Server(u) \in Line
    /\ \A n, u : Section(n) # Server(u)
    /\ \A m, n : Section(m) = Section(n) => m = n
    /\ \A w, u : Server(w) = Server(u) => w = u
  BY DEF Line, Section, Server

LEMMA SourcesWithIs ==
    ASSUME sources \in Seq(Line), NEW n \in Repo, NEW u \in Url, sources' = SourcesWith(n, u),
           UNCHANGED manager
    PROVE  /\ sources' \in Seq(Line)
           /\ \/ Serves(n, u)'
              \/ manager = "pacman" /\ Section(n) \in Range(sources) /\ ~ Serves(n, u)
           /\ \A m, w : Serves(m, w) => Serves(m, w)'
           /\ manager = "pacman" => \A m : m # n /\ Section(m) \notin Range(sources)
                                              => Section(m) \notin Range(sources')
           /\ manager # "pacman" => \A w : w # u /\ Server(w) \notin Range(sources)
                                              => Server(w) \notin Range(sources')
<1>1. CASE sources' = sources
  BY <1>1 DEF Serves, SourcesWith
<1>2. CASE sources' # sources /\ manager = "pacman"
  <2>1. PICK a, b : a = Section(n) /\ b = Server(u)
    OBVIOUS
  <2>2. PICK N \in Nat : N = Len(sources) /\ DOMAIN sources = 1..N
    OBVIOUS
  <2>3. sources' = sources \o <<a, b>> /\ a \in Line /\ b \in Line
    BY <1>2, <2>1, LineFacts DEF SourcesWith
  <2>4. /\ sources' \in Seq(Line) /\ Len(sources') = N + 2 /\ DOMAIN sources' = 1..(N + 2)
        /\ \A i \in 1..N : sources'[i] = sources[i]
        /\ sources'[N + 1] = a /\ sources'[N + 2] = b
    BY <2>2, <2>3
  <2>5. Serves(n, u)'
    <3>1. N + 1 \in 1..((N + 2) - 1) /\ (N + 1) + 1 = N + 2
      OBVIOUS
    <3>. QED
      BY <1>2, <2>1, <2>4, <3>1 DEF Serves, Section, Server
  <2>6. ASSUME NEW m, NEW w, Serves(m, w) PROVE Serves(m, w)'
    <3>1. PICK i \in 1..(N - 1) : sources[i] = Section(m) /\ sources[i + 1] = Server(w)
      BY <1>2, <2>2, <2>6 DEF Serves
    <3>2. i \in 1..((N + 2) - 1) /\ i \in 1..N /\ i + 1 \in 1..N
      OBVIOUS
    <3>3. sources'[i] = Section(m) /\ sources'[i + 1] = Server(w)
      BY <2>4, <3>1, <3>2
    <3>. QED
      BY <1>2, <2>4, <3>2, <3>3 DEF Serves, Section, Server
  <2>7. ASSUME NEW m, m # n, Section(m) \notin Range(sources) PROVE Section(m) \notin Range(sources')
    <3>1. Section(m) # a /\ Section(m) # b
      BY <2>1, <2>7, LineFacts
    <3>2. \A i \in 1..N : sources[i] # Section(m)
      BY <2>2, <2>7 DEF Range
    <3>3. \A i \in 1..(N + 2) : i \in 1..N \/ i = N + 1 \/ i = N + 2
      OBVIOUS
    <3>4. \A i \in 1..(N + 2) : sources'[i] # Section(m)
      BY <2>4, <3>1, <3>2, <3>3
    <3>. QED
      BY <2>4, <3>4 DEF Range
  <2>. QED
    BY <1>2, <2>4, <2>5, <2>6, <2>7
<1>3. CASE sources' # sources /\ manager # "pacman"
  <2>1. PICK b \in Line : b = Server(u)
    BY LineFacts
  <2>2. PICK N \in Nat : N = Len(sources) /\ DOMAIN sources = 1..N
    OBVIOUS
  <2>3. sources' = Append(sources, b)
    BY <1>3, <2>1 DEF SourcesWith
  <2>4. /\ sources' \in Seq(Line) /\ DOMAIN sources' = 1..(N + 1)
        /\ \A i \in 1..N : sources'[i] = sources[i]
        /\ sources'[N + 1] = b
    BY <2>2, <2>3
  <2>5. ASSUME NEW l PROVE l \in Range(sources') <=> l \in Range(sources) \/ l = b
    <3>1. \A i \in 1..(N + 1) : i \in 1..N \/ i = N + 1
      OBVIOUS
    <3>. QED
      BY <2>2, <2>4, <3>1 DEF Range
  <2>6. \A w : Server(w) = b => w = u
    BY <2>1, LineFacts
  <2>7. Server(u) \in Range(sources')
    BY <2>1, <2>5
  <2>8. Serves(n, u)'
    BY <1>3, <2>7 DEF Serves, Server
  <2>9. ASSUME NEW m, NEW w, Serves(m, w) PROVE Serves(m, w)'
    BY <1>3, <2>5, <2>9 DEF Serves, Server
  <2>. QED
    BY <1>3, <2>4, <2>5, <2>6, <2>8, <2>9
<1>. QED
  BY <1>1, <1>2, <1>3

LEMMA SourcesWithoutIs ==
    ASSUME sources \in Seq(Line), NEW n \in Repo, NEW u \in Url, sources' = SourcesWithout(n, u),
           UNCHANGED manager
    PROVE  /\ sources' \in Seq(Line) /\ Range(sources') \subseteq Range(sources)
           /\ Section(n) \notin Range(sources') /\ Server(u) \notin Range(sources')
           /\ \A m, w : m # n /\ w # u /\ Serves(m, w) => Serves(m, w)'
<1>. DEFINE gone == {Section(n), Server(u)}
<1>1. sources' = LinesWithout(sources, gone)
  BY DEF SourcesWithout
<1>. HIDE DEF gone
<1>2. /\ sources' \in Seq(Line)
      /\ \A l : l \in Range(sources') <=> l \in Range(sources) /\ l \notin gone
      /\ \A i \in 1..(Len(sources) - 1) : sources[i] \notin gone /\ sources[i + 1] \notin gone =>
            \E j \in 1..(Len(sources') - 1) :
               sources'[j] = sources[i] /\ sources'[j + 1] = sources[i + 1]
  BY <1>1, LinesKept
<1>3. ASSUME NEW m, NEW w, m # n, w # u PROVE Section(m) \notin gone /\ Server(w) \notin gone
  BY <1>3, LineFacts DEF gone
<1>4. ASSUME NEW m, NEW w, m # n, w # u, Serves(m, w) PROVE Serves(m, w)'
  <2>1. CASE manager = "pacman"
    <3>1. PICK i \in 1..(Len(sources) - 1) : sources[i] = Section(m) /\ sources[i + 1] = Server(w)
      BY <1>4, <2>1 DEF Serves
    <3>2. PICK j \in 1..(Len(sources') - 1) : sources'[j] = Section(m) /\ sources'[j + 1] = Server(w)
      BY <1>2, <1>3, <1>4, <3>1
    <3>. QED
      BY <2>1, <3>2 DEF Serves, Section, Server
  <2>2. CASE manager # "pacman"
    BY <1>2, <1>3, <1>4, <2>2 DEF Serves, Server
  <2>. QED
    BY <2>1, <2>2
<1>. QED
  BY <1>2, <1>4 DEF gone

-----------------------------------------------------------------------------
(* Packages: what a change of the system settles, and what it leaves alone. *)

\* A change of the system for an entry: at a request, or at the boot, where a
\* repository is refreshed at once.
Changes(k, v) ==
    /\ UNCHANGED manager
    /\ CASE k[1] = "services" ->
              /\ unitState' = [unitState EXCEPT ![k[2]] = Effect(k[2], v)]
              /\ UNCHANGED <<installedPkgs, sources, index>>
         [] k[1] = "packages" ->
              /\ installedPkgs' = IF v THEN installedPkgs \union {k[2]} ELSE installedPkgs \ {k[2]}
              /\ index' = index \/ index' = Indexable'
              /\ UNCHANGED <<unitState, sources>>
         [] k[1] = "repos" ->
              /\ sources' = IF v.present THEN SourcesWith(k[2], v.url)
                                         ELSE SourcesWithout(k[2], v.url)
              /\ index' = index \/ index' = Indexable'
              /\ UNCHANGED <<unitState, installedPkgs>>

LEMMA ServedIsListed ==
    ASSUME sources' \in Seq(Line), NEW n, NEW u \in Url, Serves(n, u)' PROVE u \in Indexable'
<1>1. \E i \in DOMAIN sources' : sources'[i] = Server(u)'
  <2>1. CASE manager' = "pacman"
    <3>1. PICK i \in 1..(Len(sources') - 1) : sources'[i + 1] = Server(u)'
      BY <2>1 DEF Serves
    <3>2. i + 1 \in DOMAIN sources'
      OBVIOUS
    <3>. QED
      BY <3>1, <3>2
  <2>2. CASE manager' # "pacman"
    BY <2>2 DEF Serves, Range
  <2>. QED
    BY <2>1, <2>2
<1>. QED
  BY <1>1 DEF Indexable, Range

LEMMA RefreshSettles ==
    ASSUME sources \in Seq(Line), index' = index \/ index' = Indexable',
           UNCHANGED <<manager, sources, unitState>>,
           NEW j \in PkgKey, NEW w \in Kept(j), Settled(j, w),
           j[1] = "packages" => (j[2] \in installedPkgs') = (j[2] \in installedPkgs)
    PROVE  Settled(j, w)'
<1>1. CASE j[1] = "repos"
  <2>1. w.url \in Url
    BY <1>1 DEF Kept
  <2>2. CASE w.present
    <3>1. Serves(j[2], w.url)'
      BY <1>1, <2>2 DEF Settled, Serves, Server, Section
    <3>2. w.url \in index'
      BY <1>1, <2>1, <2>2, <3>1, ServedIsListed DEF Settled
    <3>. QED
      BY <1>1, <2>2, <3>1, <3>2 DEF Settled
  <2>3. CASE ~ w.present
    BY <1>1, <2>3 DEF Settled, Server, Section
  <2>. QED
    BY <2>2, <2>3
<1>2. CASE j[1] # "repos"
  BY <1>2, PkgKeys DEF Settled
<1>. QED
  BY <1>1, <1>2

\* An entry that is settled stays so when another is changed, but for a
\* repository with the same line.
LEMMA ChangeLeavesOthers ==
    ASSUME sources \in Seq(Line), SystemOK, NEW k \in PkgKey, NEW v \in Kept(k), Changes(k, v),
           NEW j \in PkgKey, NEW w \in Kept(j), Settled(j, w), j # k,
           j[1] = "repos" /\ k[1] = "repos" => w.url # v.url
    PROVE  Settled(j, w)'
<1>1. CASE k[1] = "services"
  <2>1. /\ unitState' = [unitState EXCEPT ![k[2]] = Effect(k[2], v)]
        /\ UNCHANGED <<installedPkgs, sources, index, manager>>
    BY <1>1 DEF Changes
  <2>2. CASE j[1] = "services"
    <3>1. j[2] # k[2] /\ j[2] \in Service
      BY <1>1, <2>2 DEF PkgKey
    <3>. QED
      BY <2>1, <2>2, <3>1 DEF Settled, SystemOK
  <2>3. CASE j[1] # "services"
    BY <2>1, <2>3, PkgKeys DEF Settled, Serves, Server, Section
  <2>. QED
    BY <2>2, <2>3
<1>2. CASE k[1] = "packages"
  <2>1. /\ UNCHANGED <<unitState, sources, manager>>
        /\ installedPkgs' = IF v THEN installedPkgs \union {k[2]} ELSE installedPkgs \ {k[2]}
    BY <1>2 DEF Changes
  <2>2. index' = index \/ index' = Indexable'
    BY <1>2 DEF Changes
  <2>3. j[1] = "packages" => j[2] # k[2]
    BY <1>2 DEF PkgKey
  <2>. QED
    BY <2>1, <2>2, <2>3, RefreshSettles
<1>3. CASE k[1] = "repos"
  <2>1. /\ sources' = IF v.present THEN SourcesWith(k[2], v.url) ELSE SourcesWithout(k[2], v.url)
        /\ index' = index \/ index' = Indexable'
        /\ UNCHANGED <<manager, unitState, installedPkgs>>
    BY <1>3 DEF Changes
  <2>2. k[2] \in Repo /\ v.url \in Url
    BY <1>3 DEF PkgKey, Kept
  <2>3. CASE j[1] # "repos"
    BY <2>1, <2>3, PkgKeys DEF Settled
  <2>4. CASE j[1] = "repos"
    <3>1. j[2] # k[2] /\ w.url \in Url /\ w.url # v.url
      BY <1>3, <2>4 DEF PkgKey, Kept
    <3>2. sources' \in Seq(Line)
      BY <2>1, <2>2, SourcesWithIs, SourcesWithoutIs
    <3>3. CASE w.present
      <4>1. Serves(j[2], w.url)
        BY <2>4, <3>3 DEF Settled
      <4>2. Serves(j[2], w.url)'
        BY <2>1, <2>2, <3>1, <4>1, SourcesWithIs, SourcesWithoutIs
      <4>3. w.url \in index'
        BY <2>1, <2>4, <3>1, <3>2, <3>3, <4>2, ServedIsListed DEF Settled
      <4>. QED
        BY <2>4, <3>3, <4>2, <4>3 DEF Settled
    <3>4. CASE ~ w.present /\ manager = "pacman"
      <4>1. Section(j[2]) \notin Range(sources)
        BY <2>4, <3>4 DEF Settled
      <4>2. Section(j[2]) \notin Range(sources')
        BY <2>1, <2>2, <3>1, <3>4, <4>1, SourcesWithIs, SourcesWithoutIs
      <4>. QED
        BY <2>1, <2>4, <3>4, <4>2 DEF Settled, Section
    <3>5. CASE ~ w.present /\ manager # "pacman"
      <4>1. Server(w.url) \notin Range(sources)
        BY <2>4, <3>5 DEF Settled
      <4>2. Server(w.url) \notin Range(sources')
        BY <2>1, <2>2, <3>1, <3>5, <4>1, SourcesWithIs, SourcesWithoutIs
      <4>. QED
        BY <2>1, <2>4, <3>5, <4>2 DEF Settled, Server
    <3>. QED
      BY <3>3, <3>4, <3>5
  <2>. QED
    BY <2>3, <2>4
<1>. QED
  BY <1>1, <1>2, <1>3, PkgKeys

LEMMA ChangeSettles ==
    ASSUME sources \in Seq(Line), SystemOK, NEW k \in PkgKey, NEW v \in Kept(k), Changes(k, v)
    PROVE  /\ sources' \in Seq(Line) /\ (k[1] # "repos" => sources' = sources) /\ manager' = manager
           /\ ~ (k[1] = "repos" /\ v.present) => Settled(k, v)'
           /\ k[1] = "repos" /\ v.present /\ ~ StaysWrong(k, v) => Serves(k[2], v.url)'
<1>1. CASE k[1] = "services"
  <2>1. k[2] \in Service /\ unitState \in [Service -> UnitState]
    BY <1>1, PkgKeys DEF SystemOK
  <2>2. /\ unitState' = [unitState EXCEPT ![k[2]] = Effect(k[2], v)]
        /\ UNCHANGED <<sources, manager>>
    BY <1>1 DEF Changes
  <2>3. v \in UnitState
    BY <1>1 DEF Kept, PkgBody
  <2>4. unitState'[k[2]] = Effect(k[2], v)
    BY <2>1, <2>2
  <2>5. /\ unitState'[k[2]].running = v.running
        /\ k[2] \in Generated \/ unitState'[k[2]].enabled = v.enabled
    BY <2>3, <2>4 DEF Effect, UnitState
  <2>. QED
    BY <1>1, <2>2, <2>5 DEF Settled
<1>2. CASE k[1] = "packages"
  <2>1. v \in BOOLEAN
    BY <1>2 DEF Kept, PkgBody
  <2>2. /\ installedPkgs' = IF v THEN installedPkgs \union {k[2]} ELSE installedPkgs \ {k[2]}
        /\ UNCHANGED <<sources, manager>>
    BY <1>2 DEF Changes
  <2>3. (k[2] \in installedPkgs') = v
    <3>1. CASE v
      BY <2>2, <3>1
    <3>2. CASE ~ v
      BY <2>1, <2>2, <3>2
    <3>. QED
      BY <2>1, <3>1, <3>2
  <2>. QED
    BY <1>2, <2>2, <2>3 DEF Settled
<1>3. CASE k[1] = "repos"
  <2>1. /\ sources' = IF v.present THEN SourcesWith(k[2], v.url) ELSE SourcesWithout(k[2], v.url)
        /\ UNCHANGED manager
    BY <1>3 DEF Changes
  <2>2. k[2] \in Repo /\ v.url \in Url
    BY <1>3 DEF PkgKey, Kept
  <2>3. CASE v.present
    <3>1. sources' \in Seq(Line)
      BY <2>1, <2>2, <2>3, SourcesWithIs
    <3>2. \/ Serves(k[2], v.url)'
          \/ manager = "pacman" /\ Section(k[2]) \in Range(sources) /\ ~ Serves(k[2], v.url)
      BY <2>1, <2>2, <2>3, SourcesWithIs
    <3>. QED
      BY <1>3, <2>1, <2>3, <3>1, <3>2 DEF StaysWrong
  <2>4. CASE ~ v.present
    <3>1. /\ sources' \in Seq(Line)
          /\ Section(k[2]) \notin Range(sources') /\ Server(v.url) \notin Range(sources')
      BY <2>1, <2>2, <2>4, SourcesWithoutIs
    <3>. QED
      BY <1>3, <2>1, <2>4, <3>1 DEF Settled, Section, Server
  <2>. QED
    BY <2>3, <2>4
<1>. QED
  BY <1>1, <1>2, <1>3, PkgKeys

LEMMA SettledIsShown ==
    ASSUME sources \in Seq(Line), NEW k \in PkgKey, NEW v \in Kept(k), Settled(k, v)
    PROVE  OnSystem(k, v)
<1>1. CASE k[1] = "repos" /\ ~ v.present
  <2>1. CASE manager = "pacman"
    <3>1. ASSUME NEW i \in 1..(Len(sources) - 1), sources[i] = Section(k[2]) PROVE FALSE
      <4>1. i \in DOMAIN sources
        OBVIOUS
      <4>. QED
        BY <1>1, <2>1, <3>1, <4>1 DEF Settled, Range
    <3>. QED
      BY <1>1, <2>1, <3>1 DEF OnSystem, Serves
  <2>2. CASE manager # "pacman"
    BY <1>1, <2>2 DEF Settled, OnSystem, Serves
  <2>. QED
    BY <2>1, <2>2
<1>2. CASE ~ (k[1] = "repos" /\ ~ v.present)
  BY <1>2, PkgKeys DEF Settled, OnSystem, InEffect
<1>. QED
  BY <1>1, <1>2

-----------------------------------------------------------------------------
(* Packages: jobs, and the entries they leave unsettled. *)

LEMMA JobIs ==
    ASSUME JobsOK, NEW t \in Thread, job[t] # None
    PROVE  /\ job[t] \in PkgJob /\ job[t].key \in PkgKey
           /\ job[t].do # "delete" => job[t].val \in Kept(job[t].key)
  BY DEF JobsOK, PkgJob

\* A change of the system for k leaves the sure jobs settled that are on no line
\* of k.
LEMMA JobsStaySettled ==
    ASSUME PkgTyped, sources \in Seq(Line), SureIsSettled,
           NEW k \in PkgKey, NEW v \in Kept(k), Changes(k, v),
           NEW s \in Thread, NEW r, r = job[s], r # None, ~ SameLine(r.key, k)
    PROVE  JobSettled(r)'
<1>. SUFFICES ASSUME r.sure, r.do # "delete"
              PROVE  IF r.todo = "refresh" THEN Serves(r.key[2], r.val.url)'
                     ELSE Settled(r.key, r.val)'
  BY DEF JobSettled
<1>1. r.key \in PkgKey /\ r.val \in Kept(r.key) /\ SystemOK
  BY JobIs DEF PkgTyped
<1>2. CASE r.todo = "refresh"
  <2>1. k[1] # "repos" /\ Serves(r.key[2], r.val.url)
    BY <1>2 DEF SureIsSettled, JobSettled, SameLine
  <2>2. sources' = sources /\ manager' = manager
    BY <1>1, <2>1, ChangeSettles
  <2>. QED
    BY <1>2, <2>1, <2>2 DEF Serves, Section, Server
<1>3. CASE r.todo # "refresh"
  <2>1. Settled(r.key, r.val)
    BY <1>3 DEF SureIsSettled, JobSettled
  <2>2. r.key # k /\ ~ (r.key[1] = "repos" /\ k[1] = "repos")
    BY DEF SameLine
  <2>. QED
    BY <1>1, <1>3, <2>1, <2>2, ChangeLeavesOthers
<1>. QED
  BY <1>2, <1>3

\* A job that starts, and those it competes with, which it makes unsure.
LEMMA StartIs ==
    ASSUME JobsOK, NEW t \in Thread, NEW k \in PkgKey, NEW v \in AnyKept \union {None},
           NEW todo \in {"refresh", "record"}, NEW do \in {"set", "update", "delete"},
           NEW sure \in BOOLEAN, job[t] = None, Start(t, todo, do, k, v, sure)
    PROVE  /\ job'[t] # None
           /\ job'[t].todo = todo /\ job'[t].do = do /\ job'[t].key = k /\ job'[t].val = v
           /\ job'[t].sure => sure /\ Competing(t, k) = {}
           /\ \A s \in Thread \ {t} :
                 /\ job'[s] = None <=> job[s] = None
                 /\ job[s] # None =>
                       /\ job'[s].todo = job[s].todo /\ job'[s].do = job[s].do
                       /\ job'[s].key = job[s].key /\ job'[s].val = job[s].val
                       /\ job'[s].sure => job'[s] = job[s] /\ ~ SameLine(job[s].key, k)
<1>. DEFINE new == [todo |-> todo, do |-> do, key |-> k, val |-> v,
                    sure |-> sure /\ Competing(t, k) = {}]
            j(s) == IF s = t THEN new
                    ELSE IF s \in Competing(t, k) THEN [job[s] EXCEPT !.sure = FALSE]
                    ELSE job[s]
<1>1. job' = [s \in Thread |-> j(s)]
  BY DEF Start
<1>2. /\ new \in PkgJob /\ new.todo = todo /\ new.do = do /\ new.key = k /\ new.val = v
      /\ new.sure => sure /\ Competing(t, k) = {}
  <2>1. (sure /\ Competing(t, k) = {}) \in BOOLEAN
    OBVIOUS
  <2>. QED
    BY <2>1 DEF PkgJob
<1>3. new # None
  BY <1>2, PackagesAssumption
<1>4. job'[t] = new
  BY <1>1
<1>5. ASSUME NEW s \in Thread \ {t}
      PROVE  /\ job'[s] = None <=> job[s] = None
             /\ job[s] # None =>
                   /\ job'[s].todo = job[s].todo /\ job'[s].do = job[s].do
                   /\ job'[s].key = job[s].key /\ job'[s].val = job[s].val
                   /\ job'[s].sure => job'[s] = job[s] /\ ~ SameLine(job[s].key, k)
  <2>1. CASE s \in Competing(t, k)
    <3>1. job[s] \in PkgJob /\ job[s] # None
      BY <2>1 DEF Competing, JobsOK
    <3>2. job'[s] = [job[s] EXCEPT !.sure = FALSE]
      BY <1>1, <2>1
    <3>3. /\ job'[s] \in PkgJob /\ ~ job'[s].sure
          /\ job'[s].todo = job[s].todo /\ job'[s].do = job[s].do
          /\ job'[s].key = job[s].key /\ job'[s].val = job[s].val
      BY <3>1, <3>2 DEF PkgJob
    <3>. QED
      BY <3>1, <3>3, PackagesAssumption
  <2>2. CASE s \notin Competing(t, k)
    <3>1. job'[s] = job[s]
      BY <1>1, <2>2
    <3>. QED
      BY <2>2, <3>1 DEF Competing
  <2>. QED
    BY <2>1, <2>2
<1>. HIDE DEF new
<1>. QED
  BY <1>2, <1>3, <1>4, <1>5

\* The invariant after a change of the system that starts a job.
LEMMA StartKeepsInv ==
    ASSUME PkgInv, NEW t \in Thread, NEW k \in PkgKey, NEW v \in AnyKept \union {None},
           NEW todo \in {"refresh", "record"}, NEW do \in {"set", "update", "delete"},
           NEW sure \in BOOLEAN, job[t] = None, Start(t, todo, do, k, v, sure),
           PkgTyped', sources' \in Seq(Line), pkgPhase = "up",
           UNCHANGED <<pkgPhase, pkg, pkgFile, unsure>>,
           todo = "refresh" => do = "set" /\ k[1] = "repos" /\ v.present,
           sure /\ do # "delete" =>
              IF todo = "refresh" THEN Serves(k[2], v.url)' ELSE Settled(k, v)',
           \A s \in Thread : \A r : r = job[s] /\ r # None /\ ~ SameLine(r.key, k) => JobSettled(r)',
           \A j \in DOMAIN pkg \ unsure : \A w :
              /\ w = pkg[j] /\ Settled(j, w) /\ j # k
              /\ ~ (j[1] = "repos" /\ k[1] = "repos" /\ do = "set" /\ v.url = w.url)
              => Settled(j, w)'
    PROVE  PkgInv'
<1>1. /\ job'[t] # None
      /\ job'[t].todo = todo /\ job'[t].do = do /\ job'[t].key = k /\ job'[t].val = v
      /\ job'[t].sure => sure /\ Competing(t, k) = {}
      /\ \A s \in Thread \ {t} :
            /\ job'[s] = None <=> job[s] = None
            /\ job[s] # None =>
                  /\ job'[s].todo = job[s].todo /\ job'[s].do = job[s].do
                  /\ job'[s].key = job[s].key /\ job'[s].val = job[s].val
                  /\ job'[s].sure => job'[s] = job[s] /\ ~ SameLine(job[s].key, k)
  <2>1. JobsOK
    BY DEF PkgInv, PkgTyped
  <2>. QED
    BY <2>1, StartIs
<1>2. ASSUME NEW s \in Thread, job'[s] # None
      PROVE  /\ job'[s].todo = "refresh" =>
                   job'[s].do = "set" /\ job'[s].key[1] = "repos" /\ job'[s].val.present
             /\ job'[s].sure => Competing(s, job[s].key)' = {}
             /\ JobSettled(job[s])'
  <2>1. CASE s = t
    <3>1. job'[t].sure => Competing(t, k)' = {}
      <4>1. \A x \in Thread \ {t} : job'[x] # None => job[x] # None /\ job'[x].key = job[x].key
        BY <1>1
      <4>. QED
        BY <1>1, <4>1 DEF Competing, SameLine
    <3>2. PICK r : r = job'[t]
      OBVIOUS
    <3>3. r.todo = todo /\ r.do = do /\ r.key = k /\ r.val = v /\ (r.sure => sure)
      BY <1>1, <3>2
    <3>4. JobSettled(r)'
      BY <3>3 DEF JobSettled
    <3>. QED
      BY <1>1, <2>1, <3>1, <3>2, <3>4
  <2>2. CASE s # t
    <3>1. job[s] # None
      BY <1>1, <1>2, <2>2
    <3>2. /\ job[s].todo = "refresh" =>
                job[s].do = "set" /\ job[s].key[1] = "repos" /\ job[s].val.present
          /\ job[s].sure => Competing(s, job[s].key) = {}
      BY <3>1 DEF PkgInv, SureIsSettled
    <3>3. CASE job'[s].sure
      <4>1. PICK r : r = job[s]
        OBVIOUS
      <4>2. job'[s] = r /\ ~ SameLine(r.key, k) /\ r.sure /\ r # None
        BY <1>1, <2>2, <3>1, <3>3, <4>1
      <4>3. JobSettled(r)'
        BY <4>1, <4>2
      <4>4. ASSUME NEW x \in Thread \ {s}, job'[x] # None, SameLine(job'[x].key, r.key) PROVE FALSE
        <5>1. CASE x = t
          BY <1>1, <4>2, <4>4, <5>1 DEF SameLine
        <5>2. CASE x # t
          <6>1. job[x] # None /\ SameLine(job[x].key, r.key)
            BY <1>1, <4>4, <5>2
          <6>. QED
            BY <3>2, <4>1, <4>2, <6>1 DEF Competing
        <5>. QED
          BY <5>1, <5>2
      <4>5. Competing(s, r.key)' = {}
        BY <4>4 DEF Competing, SameLine
      <4>. QED
        BY <3>2, <4>1, <4>2, <4>3, <4>5
    <3>4. CASE ~ job'[s].sure
      <4>1. JobSettled(job[s])'
        BY <3>4 DEF JobSettled
      <4>. QED
        BY <1>1, <2>2, <3>1, <3>2, <3>4, <4>1
    <3>. QED
      BY <3>3, <3>4
  <2>. QED
    BY <2>1, <2>2
<1>3. SureIsSettled'
  BY <1>2 DEF SureIsSettled
<1>4. ASSUME NEW j \in DOMAIN pkg \ unsure
      PROVE  Settled(j, pkg[j])' \/ \E s \in Thread : job'[s] # None /\ Unsettles(job[s], j)'
  <2>1. PICK w : w = pkg[j]
    OBVIOUS
  <2>2. CASE \E s \in Thread : job[s] # None /\ Unsettles(job[s], j)
    <3>1. PICK s \in Thread : job[s] # None /\ Unsettles(job[s], j)
      BY <2>2
    <3>. QED
      BY <1>1, <3>1 DEF Unsettles
  <2>3. CASE j = k \/ (j[1] = "repos" /\ k[1] = "repos" /\ do = "set" /\ v.url = w.url)
    BY <1>1, <2>1, <2>3 DEF Unsettles
  <2>4. CASE Settled(j, w) /\ ~ (j = k \/ (j[1] = "repos" /\ k[1] = "repos" /\ do = "set" /\ v.url = w.url))
    <3>1. Settled(j, w)'
      BY <2>1, <2>4
    <3>. QED
      BY <2>1, <3>1 DEF Settled, Serves, Section, Server
  <2>. QED
    BY <2>1, <2>2, <2>3, <2>4 DEF PkgInv, ShownIsSettled
<1>5. ShownIsSettled'
  BY <1>4 DEF ShownIsSettled
<1>6. SharingIsUnsure'
  BY DEF PkgInv, SharingIsUnsure, SharingUrl
<1>. QED
  BY <1>3, <1>5, <1>6 DEF PkgInv

-----------------------------------------------------------------------------
(* Packages: each request keeps the invariant. *)

LEMMA SharersAreUnsure ==
    ASSUME SharingIsUnsure, NEW j \in DOMAIN pkg \ unsure, NEW k \in DOMAIN pkg, j # k,
           j[1] = "repos", k[1] = "repos"
    PROVE  pkg[j].url # pkg[k].url
  BY DEF SharingIsUnsure, SharingUrl

LEMMA AppliedIsChanged ==
    ASSUME NEW k \in PkgKey, NEW v \in Kept(k), Apply(k, v)
    PROVE  Changes(k, v)
<1>1. CASE k[1] = "services"
  BY <1>1 DEF Apply, Changes
<1>2. CASE k[1] = "packages"
  <2>1. /\ RefreshCache(FALSE) /\ UNCHANGED <<manager, unitState, sources>>
        /\ installedPkgs' = IF v THEN installedPkgs \union {k[2]} ELSE installedPkgs \ {k[2]}
    BY <1>2 DEF Apply
  <2>2. index' = index \/ index' = Indexable'
    BY <2>1 DEF RefreshCache, Indexable, Server
  <2>. QED
    BY <1>2, <2>1, <2>2 DEF Changes
<1>3. CASE k[1] = "repos"
  BY <1>3 DEF Apply, Changes
<1>. QED
  BY <1>1, <1>2, <1>3, PkgKeys

LEMMA SetKeepsPkgInv ==
    ASSUME PkgInv, NEW t \in Thread, NEW k \in PkgKey, NEW v \in PkgBody(k), SetManaged(t, k, v)
    PROVE  PkgInv'
<1>1. v \in Kept(k) /\ v \in AnyKept
  BY BodiesAreKept DEF AnyKept
<1>2. /\ PkgTyped /\ SystemOK /\ SureIsSettled /\ sources \in Seq(Line) /\ DOMAIN pkg \subseteq PkgKey
      /\ \A j \in DOMAIN pkg : pkg[j] \in Kept(j)
  BY PkgStates DEF PkgInv, PkgTyped
<1>3. Changes(k, v) /\ job[t] = None /\ pkgPhase = "up" /\ UNCHANGED <<pkgPhase, pkg, pkgFile, unsure>>
  BY <1>1, AppliedIsChanged DEF SetManaged, PkgClient
<1>4. PICK todo \in {"refresh", "record"} : todo = IF NeedsRefresh(k, v) THEN "refresh" ELSE "record"
  OBVIOUS
<1>5. PICK sure \in BOOLEAN : sure <=> ~ StaysWrong(k, v)
  OBVIOUS
<1>6. Start(t, todo, "set", k, v, sure)
  <2>1. sure = ~ StaysWrong(k, v)
    BY <1>5
  <2>. QED
    BY <1>4, <2>1 DEF SetManaged
<1>7. todo = "refresh" => k[1] = "repos" /\ v.present
  BY <1>4 DEF NeedsRefresh
<1>8. sure => IF todo = "refresh" THEN Serves(k[2], v.url)' ELSE Settled(k, v)'
  BY <1>1, <1>2, <1>3, <1>4, <1>5, ChangeSettles DEF NeedsRefresh
<1>9. \A s \in Thread : \A r : r = job[s] /\ r # None /\ ~ SameLine(r.key, k) => JobSettled(r)'
  BY <1>1, <1>2, <1>3, JobsStaySettled
<1>10. \A j \in DOMAIN pkg \ unsure : \A w :
          /\ w = pkg[j] /\ Settled(j, w) /\ j # k
          /\ ~ (j[1] = "repos" /\ k[1] = "repos" /\ v.url = w.url)
          => Settled(j, w)'
  BY <1>1, <1>2, <1>3, ChangeLeavesOthers
<1>11. PkgTyped' /\ sources' \in Seq(Line)
  BY <1>1, <1>2, <1>3, SetIsTyped, ChangeSettles
<1>. QED
  BY <1>1, <1>3, <1>6, <1>7, <1>8, <1>9, <1>10, <1>11, StartKeepsInv

LEMMA UpdateKeepsPkgInv ==
    ASSUME PkgInv, NEW t \in Thread, NEW k \in DOMAIN pkg, UpdatePackage(t, k)
    PROVE  PkgInv'
<1>1. /\ PkgTyped /\ SystemOK /\ SureIsSettled /\ sources \in Seq(Line) /\ DOMAIN pkg \subseteq PkgKey
      /\ \A j \in DOMAIN pkg : pkg[j] \in Kept(j)
  BY PkgStates DEF PkgInv, PkgTyped
<1>2. k \in PkgKey /\ k[1] = "packages" /\ TRUE \in Kept(k) /\ TRUE \in AnyKept
  BY <1>1 DEF UpdatePackage, Kept, PkgBody, AnyKept
<1>3. PICK v \in BOOLEAN : v = TRUE
  OBVIOUS
<1>4. Changes(k, v) /\ job[t] = None /\ pkgPhase = "up" /\ UNCHANGED <<pkgPhase, pkg, pkgFile, unsure>>
  BY <1>2, <1>3, AppliedIsChanged DEF UpdatePackage, PkgClient
<1>5. Start(t, "record", "update", k, v, TRUE)
  BY <1>3 DEF UpdatePackage
<1>6. Settled(k, v)'
  BY <1>1, <1>2, <1>3, <1>4, ChangeSettles
<1>7. \A s \in Thread : \A r : r = job[s] /\ r # None /\ ~ SameLine(r.key, k) => JobSettled(r)'
  BY <1>1, <1>2, <1>3, <1>4, JobsStaySettled
<1>8. \A j \in DOMAIN pkg \ unsure : \A w :
          w = pkg[j] /\ Settled(j, w) /\ j # k => Settled(j, w)'
  BY <1>1, <1>2, <1>3, <1>4, ChangeLeavesOthers
<1>9. PkgTyped' /\ sources' \in Seq(Line)
  BY <1>1, <1>2, <1>3, <1>4, UpdateIsTyped, ChangeSettles
<1>10. v \in AnyKept \union {None}
  BY <1>2, <1>3
<1>. QED
  BY <1>2, <1>4, <1>5, <1>6, <1>7, <1>8, <1>9, <1>10, StartKeepsInv

LEMMA RemoveKeepsPkgInv ==
    ASSUME PkgInv, NEW t \in Thread, NEW k \in DOMAIN pkg, RemoveManaged(t, k)
    PROVE  PkgInv'
<1>1. /\ PkgTyped /\ SystemOK /\ SureIsSettled /\ sources \in Seq(Line) /\ DOMAIN pkg \subseteq PkgKey
      /\ \A j \in DOMAIN pkg : pkg[j] \in Kept(j)
  BY PkgStates DEF PkgInv, PkgTyped
<1>2. k \in PkgKey /\ k[1] # "services"
  BY <1>1 DEF RemoveManaged
<1>3. PICK v : v = IF k[1] = "packages" THEN FALSE ELSE [pkg[k] EXCEPT !.present = FALSE]
  OBVIOUS
<1>4. /\ v \in Kept(k)
      /\ k[1] = "repos" => ~ v.present /\ v.url = pkg[k].url
      /\ k[1] = "packages" => ~ v
  BY <1>1, <1>2, <1>3, PkgKeys DEF Kept, PkgBody
<1>5. Changes(k, v) /\ job[t] = None /\ pkgPhase = "up" /\ UNCHANGED <<pkgPhase, pkg, pkgFile, unsure>>
  <2>1. Uninstall(k)
    BY DEF RemoveManaged
  <2>2. Changes(k, v)
    BY <1>2, <1>4, <2>1, PkgKeys DEF Uninstall, Changes
  <2>. QED
    BY <2>2 DEF RemoveManaged, PkgClient
<1>6. Start(t, "record", "delete", k, None, TRUE)
  BY DEF RemoveManaged
<1>7. \A s \in Thread : \A r : r = job[s] /\ r # None /\ ~ SameLine(r.key, k) => JobSettled(r)'
  BY <1>1, <1>2, <1>4, <1>5, JobsStaySettled
<1>8. ASSUME NEW j \in DOMAIN pkg \ unsure, NEW w, w = pkg[j], Settled(j, w), j # k
      PROVE  Settled(j, w)'
  <2>1. j[1] = "repos" /\ k[1] = "repos" => w.url # v.url
    BY <1>4, <1>8, SharersAreUnsure DEF PkgInv
  <2>. QED
    BY <1>1, <1>2, <1>4, <1>5, <1>8, <2>1, ChangeLeavesOthers
<1>9. PkgTyped' /\ sources' \in Seq(Line)
  BY <1>1, <1>2, <1>4, <1>5, RemoveIsTyped, ChangeSettles
<1>10. PICK none \in AnyKept \union {None} : none = None
  OBVIOUS
<1>. QED
  BY <1>2, <1>5, <1>6, <1>7, <1>8, <1>9, <1>10, StartKeepsInv

LEMMA ImportKeepsPkgInv ==
    ASSUME PkgInv, NEW t \in Thread, NEW k \in PkgKey, NEW v \in Kept(k), ImportManaged(t, k, v)
    PROVE  PkgInv'
<1>1. /\ PkgTyped /\ SystemOK /\ SureIsSettled /\ sources \in Seq(Line) /\ DOMAIN pkg \subseteq PkgKey
      /\ \A j \in DOMAIN pkg : pkg[j] \in Kept(j)
  BY PkgStates DEF PkgInv, PkgTyped
<1>2. /\ job[t] = None /\ pkgPhase = "up" /\ v \in AnyKept
      /\ UNCHANGED <<pkgPhase, pkg, pkgFile, unsure, pkgSystem>>
  BY DEF ImportManaged, PkgClient, AnyKept
<1>3. PICK sure \in BOOLEAN : Start(t, "record", "set", k, v, sure) /\ (sure => Settled(k, v))
  <2>1. CASE k[1] = "services"
    <3>1. PICK sure \in BOOLEAN : sure <=> InEffect(k[2], v)
      OBVIOUS
    <3>2. Start(t, "record", "set", k, v, InEffect(k[2], v)) /\ InEffect(k[2], v) \in BOOLEAN
      BY <2>1 DEF ImportManaged, InEffect
    <3>3. sure = InEffect(k[2], v)
      BY <3>1, <3>2
    <3>. QED
      BY <2>1, <3>1, <3>2, <3>3 DEF Settled, InEffect
  <2>2. CASE k[1] = "packages"
    BY <2>2 DEF ImportManaged, Settled
  <2>3. CASE k[1] = "repos"
    <3>1. PICK sure \in BOOLEAN : sure <=> manager # "pacman" /\ v.url \in index
      OBVIOUS
    <3>2. Start(t, "record", "set", k, v, manager # "pacman" /\ v.url \in index)
      BY <2>3 DEF ImportManaged
    <3>3. sure = (manager # "pacman" /\ v.url \in index)
      BY <3>1
    <3>4. v.present /\ Server(v.url) \in Range(sources)
      BY <2>3 DEF ImportManaged, Listed, Range
    <3>5. sure => Settled(k, v)
      BY <2>3, <3>1, <3>4 DEF Settled, Serves
    <3>. QED
      BY <3>2, <3>3, <3>5
  <2>. QED
    BY <2>1, <2>2, <2>3, PkgKeys
<1>4. \A j, w : Settled(j, w) => Settled(j, w)'
  BY <1>2 DEF Settled, Serves, Section, Server, pkgSystem
<1>5. ASSUME NEW s \in Thread, NEW r, r = job[s], r # None PROVE JobSettled(r)'
  <2>1. JobSettled(r)
    BY <1>1, <1>5 DEF SureIsSettled
  <2>. QED
    BY <1>2, <2>1 DEF JobSettled, Settled, Serves, Section, Server, pkgSystem
<1>6. PkgTyped' /\ sources' \in Seq(Line)
  BY <1>1, <1>2, ImportIsTyped DEF pkgSystem
<1>. QED
  BY <1>2, <1>3, <1>4, <1>5, <1>6, StartKeepsInv

LEMMA FailureKeepsPkgInv ==
    ASSUME PkgInv, NEW t \in Thread, NEW k \in PkgKey, NEW v \in PkgBody(k), ChangeFails(t, k, v)
    PROVE  PkgInv'
<1>1. /\ PkgTyped /\ JobsOK /\ SystemOK /\ SureIsSettled /\ sources \in Seq(Line)
      /\ DOMAIN pkg \subseteq PkgKey /\ \A j \in DOMAIN pkg : pkg[j] \in Kept(j)
  BY PkgStates DEF PkgInv, PkgTyped
<1>2. v \in Kept(k) /\ Changes(k, v) /\ pkgPhase = "up" /\ job[t] = None
  BY BodiesAreKept, AppliedIsChanged DEF ChangeFails, PkgClient
<1>3. UNCHANGED <<pkgPhase, pkg, pkgFile>> /\ unsure' = unsure \union Touched(k, v)
  BY DEF ChangeFails
<1>4. PkgTyped' /\ sources' \in Seq(Line)
  BY <1>1, <1>2, FailureIsTyped, ChangeSettles
<1>5. ASSUME NEW s \in Thread
      PROVE  /\ job'[s] = None <=> job[s] = None
             /\ job[s] # None =>
                   /\ job'[s].todo = job[s].todo /\ job'[s].do = job[s].do
                   /\ job'[s].key = job[s].key /\ job'[s].val = job[s].val
                   /\ job'[s].sure => job'[s] = job[s] /\ ~ SameLine(job[s].key, k)
  <2>1. job' = [x \in Thread |-> IF x \in Competing(t, k) THEN [job[x] EXCEPT !.sure = FALSE]
                                                          ELSE job[x]]
    BY DEF ChangeFails
  <2>2. CASE s \in Competing(t, k)
    <3>1. job[s] \in PkgJob /\ job[s] # None
      BY <1>1, <2>2 DEF Competing, JobsOK
    <3>2. job'[s] = [job[s] EXCEPT !.sure = FALSE]
      BY <2>1, <2>2
    <3>3. /\ job'[s] \in PkgJob /\ ~ job'[s].sure
          /\ job'[s].todo = job[s].todo /\ job'[s].do = job[s].do
          /\ job'[s].key = job[s].key /\ job'[s].val = job[s].val
      BY <3>1, <3>2 DEF PkgJob
    <3>. QED
      BY <3>1, <3>3, PackagesAssumption
  <2>3. CASE s \notin Competing(t, k)
    <3>1. job'[s] = job[s]
      BY <2>1, <2>3
    <3>2. job[s] # None => ~ SameLine(job[s].key, k)
      BY <1>2, <2>3 DEF Competing
    <3>. QED
      BY <3>1, <3>2
  <2>. QED
    BY <2>2, <2>3
<1>6. ASSUME NEW s \in Thread, job'[s] # None
      PROVE  /\ job'[s].todo = "refresh" =>
                   job'[s].do = "set" /\ job'[s].key[1] = "repos" /\ job'[s].val.present
             /\ job'[s].sure => Competing(s, job[s].key)' = {}
             /\ JobSettled(job[s])'
  <2>1. PICK r : r = job[s]
    OBVIOUS
  <2>2. /\ r # None
        /\ r.todo = "refresh" => r.do = "set" /\ r.key[1] = "repos" /\ r.val.present
        /\ r.sure => Competing(s, r.key) = {}
    BY <1>1, <1>5, <1>6, <2>1 DEF SureIsSettled
  <2>3. CASE job'[s].sure
    <3>1. job'[s] = r /\ ~ SameLine(r.key, k)
      BY <1>5, <2>1, <2>2, <2>3
    <3>2. JobSettled(r)'
      BY <1>1, <1>2, <2>1, <2>2, <3>1, JobsStaySettled
    <3>3. \A x \in Thread : job'[x] # None => job[x] # None /\ job'[x].key = job[x].key
      BY <1>5
    <3>4. Competing(s, r.key)' = {}
      BY <2>2, <2>3, <3>1, <3>3 DEF Competing, SameLine
    <3>. QED
      BY <2>2, <3>1, <3>2, <3>4
  <2>4. CASE ~ job'[s].sure
    <3>1. JobSettled(job[s])'
      BY <2>4 DEF JobSettled
    <3>. QED
      BY <1>5, <2>1, <2>2, <2>4, <3>1
  <2>. QED
    BY <2>3, <2>4
<1>7. SureIsSettled'
  BY <1>6 DEF SureIsSettled
<1>8. ASSUME NEW j \in DOMAIN pkg \ unsure'
      PROVE  Settled(j, pkg[j])' \/ \E s \in Thread : job'[s] # None /\ Unsettles(job[s], j)'
  <2>1. PICK w : w = pkg[j]
    OBVIOUS
  <2>2. j \in DOMAIN pkg \ unsure /\ j # k /\ ~ (j[1] = "repos" /\ k[1] = "repos" /\ w.url = v.url)
    BY <1>3, <1>8, <2>1 DEF Touched
  <2>3. CASE \E s \in Thread : job[s] # None /\ Unsettles(job[s], j)
    BY <1>3, <1>5, <2>3 DEF Unsettles
  <2>4. CASE Settled(j, w)
    <3>1. Settled(j, w)'
      BY <1>1, <1>2, <2>1, <2>2, <2>4, ChangeLeavesOthers
    <3>. QED
      BY <1>3, <2>1, <3>1 DEF Settled, Serves, Section, Server
  <2>. QED
    BY <1>2, <2>1, <2>2, <2>3, <2>4 DEF PkgInv, ShownIsSettled
<1>9. ShownIsSettled'
  BY <1>2, <1>3, <1>8 DEF ShownIsSettled
<1>10. SharingIsUnsure'
  BY <1>2, <1>3 DEF PkgInv, SharingIsUnsure, SharingUrl
<1>. QED
  BY <1>4, <1>7, <1>9, <1>10 DEF PkgInv

\* A refresh of the cache leaves the jobs settled.
LEMMA RefreshLeavesJobs ==
    ASSUME PkgTyped, sources \in Seq(Line), index' = index \/ index' = Indexable',
           UNCHANGED <<manager, sources, unitState, installedPkgs>>,
           NEW t \in Thread, NEW r, r = job[t], r # None, JobSettled(r)
    PROVE  JobSettled(r)'
<1>1. r.key \in PkgKey /\ (r.do # "delete" => r.val \in Kept(r.key))
  BY JobIs DEF PkgTyped
<1>2. r.do # "delete" /\ Settled(r.key, r.val) => Settled(r.key, r.val)'
  BY <1>1, RefreshSettles
<1>3. Serves(r.key[2], r.val.url) => Serves(r.key[2], r.val.url)'
  BY DEF Serves, Section, Server
<1>. QED
  BY <1>2, <1>3 DEF JobSettled

LEMMA RefreshKeepsPkgInv ==
    ASSUME PkgInv, NEW t \in Thread, RefreshForRepo(t) PROVE PkgInv'
<1>1. /\ PkgTyped /\ JobsOK /\ SureIsSettled /\ sources \in Seq(Line)
      /\ DOMAIN pkg \subseteq PkgKey /\ \A j \in DOMAIN pkg : pkg[j] \in Kept(j)
  BY PkgStates DEF PkgInv, PkgTyped
<1>2. /\ job[t] # None /\ job[t] \in PkgJob /\ job[t].todo = "refresh" /\ index' = Indexable
      /\ UNCHANGED <<pkgPhase, pkg, pkgFile, unsure, restoring, manager, sources, unitState,
                     installedPkgs>>
  BY <1>1 DEF RefreshForRepo, RefreshCache, JobsOK
<1>3. index' = Indexable'
  BY <1>2 DEF Indexable, Server
<1>4. pkgPhase = "up"
  BY <1>1, <1>2 DEF JobsOK
<1>5. PkgTyped'
  BY <1>1, RefreshesAreTyped
<1>6. PICK r : r = [job[t] EXCEPT !.todo = "record"]
  OBVIOUS
<1>7. /\ r \in PkgJob /\ r.todo = "record" /\ r.do = job[t].do /\ r.key = job[t].key
      /\ r.val = job[t].val /\ r.sure = job[t].sure
  BY <1>2, <1>6 DEF PkgJob
<1>8. job'[t] = r /\ \A s \in Thread \ {t} : job'[s] = job[s]
  BY <1>1, <1>6 DEF RefreshForRepo, JobsOK
<1>9. \A s \in Thread : (job'[s] = None <=> job[s] = None) /\ (job[s] # None => job'[s].key = job[s].key)
  BY <1>2, <1>7, <1>8, PackagesAssumption
<1>10. ASSUME NEW s \in Thread, job'[s] # None
       PROVE  /\ job'[s].todo = "refresh" =>
                    job'[s].do = "set" /\ job'[s].key[1] = "repos" /\ job'[s].val.present
              /\ job'[s].sure => Competing(s, job[s].key)' = {}
              /\ JobSettled(job[s])'
  <2>1. PICK q : q = job[s]
    OBVIOUS
  <2>2. /\ q # None
        /\ q.todo = "refresh" => q.do = "set" /\ q.key[1] = "repos" /\ q.val.present
        /\ q.sure => Competing(s, q.key) = {}
        /\ JobSettled(q)
    BY <1>1, <1>9, <1>10, <2>1 DEF SureIsSettled
  <2>3. q.sure => Competing(s, q.key)' = {}
    BY <1>9, <2>2 DEF Competing, SameLine
  <2>4. CASE s = t
    <3>1. JobSettled(r)'
      <4>. SUFFICES ASSUME r.sure PROVE Settled(r.key, r.val)'
        BY <1>7 DEF JobSettled
      <4>1. q.do = "set" /\ q.key[1] = "repos" /\ q.val.present /\ Serves(q.key[2], q.val.url)
        BY <1>2, <1>7, <2>1, <2>2, <2>4 DEF JobSettled
      <4>2. q.val \in Kept(q.key) /\ q.val.url \in Url
        <5>1. q.val \in Kept(q.key)
          BY <1>1, <2>1, <2>2, <4>1, JobIs
        <5>. QED
          BY <4>1, <5>1 DEF Kept
      <4>3. Serves(q.key[2], q.val.url)'
        BY <1>2, <4>1 DEF Serves, Section, Server
      <4>4. q.val.url \in index'
        BY <1>1, <1>2, <1>3, <4>2, <4>3, ServedIsListed
      <4>5. Settled(q.key, q.val)'
        BY <4>1, <4>3, <4>4 DEF Settled
      <4>. QED
        BY <1>7, <2>1, <2>4, <4>5
    <3>. QED
      BY <1>7, <1>8, <2>1, <2>2, <2>3, <2>4, <3>1
  <2>5. CASE s # t
    <3>1. JobSettled(q)'
      BY <1>1, <1>2, <1>3, <2>1, <2>2, RefreshLeavesJobs
    <3>. QED
      BY <1>8, <2>1, <2>2, <2>3, <2>5, <3>1
  <2>. QED
    BY <2>4, <2>5
<1>11. SureIsSettled'
  BY <1>9, <1>10 DEF SureIsSettled
<1>12. ASSUME NEW j \in DOMAIN pkg \ unsure
       PROVE  Settled(j, pkg[j])' \/ \E s \in Thread : job'[s] # None /\ Unsettles(job[s], j)'
  <2>1. PICK w : w = pkg[j]
    OBVIOUS
  <2>2. CASE Settled(j, w)
    <3>1. Settled(j, w)'
      BY <1>1, <1>2, <1>3, <2>1, <2>2, RefreshSettles
    <3>. QED
      BY <1>2, <2>1, <3>1 DEF Settled, Serves, Section, Server
  <2>3. CASE \E s \in Thread : job[s] # None /\ Unsettles(job[s], j)
    <3>1. PICK s \in Thread : job[s] # None /\ Unsettles(job[s], j)
      BY <2>3
    <3>2. job'[s] # None /\ job'[s].key = job[s].key /\ job'[s].do = job[s].do /\ job'[s].val = job[s].val
      BY <1>7, <1>8, <1>9, <3>1
    <3>. QED
      BY <1>2, <3>1, <3>2 DEF Unsettles
  <2>. QED
    BY <1>4, <2>1, <2>2, <2>3 DEF PkgInv, ShownIsSettled
<1>13. ShownIsSettled'
  BY <1>2, <1>4, <1>12 DEF ShownIsSettled
<1>14. SharingIsUnsure'
  BY <1>2, <1>4 DEF PkgInv, SharingIsUnsure, SharingUrl
<1>. QED
  BY <1>1, <1>2, <1>5, <1>11, <1>13, <1>14 DEF PkgInv

\* When a job ends the others stay settled.
LEMMA OthersStaySettled ==
    ASSUME JobsOK, SureIsSettled, NEW t \in Thread, job' = [job EXCEPT ![t] = None],
           UNCHANGED pkgSystem
    PROVE  SureIsSettled'
<1>1. job'[t] = None /\ \A s \in Thread \ {t} : job'[s] = job[s]
  BY DEF JobsOK
<1>2. ASSUME NEW s \in Thread, job'[s] # None
      PROVE  /\ job'[s].todo = "refresh" =>
                   job'[s].do = "set" /\ job'[s].key[1] = "repos" /\ job'[s].val.present
             /\ job'[s].sure => Competing(s, job[s].key)' = {}
             /\ JobSettled(job[s])'
  <2>1. PICK q : q = job[s]
    OBVIOUS
  <2>2. q # None /\ job'[s] = q
    BY <1>1, <1>2, <2>1
  <2>3. /\ q.todo = "refresh" => q.do = "set" /\ q.key[1] = "repos" /\ q.val.present
        /\ q.sure => Competing(s, q.key) = {}
        /\ JobSettled(q)
    BY <2>1, <2>2 DEF SureIsSettled
  <2>4. q.sure => Competing(s, q.key)' = {}
    BY <1>1, <2>3 DEF Competing, SameLine
  <2>5. JobSettled(q)'
    BY <2>3 DEF JobSettled, Settled, Serves, Section, Server, pkgSystem
  <2>. QED
    BY <2>2, <2>3, <2>4, <2>5
<1>. QED
  BY <1>2 DEF SureIsSettled

LEMMA RefreshFailureKeepsPkgInv ==
    ASSUME PkgInv, NEW t \in Thread, RefreshFails(t) PROVE PkgInv'
<1>1. PkgTyped /\ JobsOK /\ SureIsSettled /\ sources \in Seq(Line)
  BY DEF PkgInv, PkgTyped
<1>2. /\ job[t] # None /\ job[t].todo = "refresh" /\ job' = [job EXCEPT ![t] = None]
      /\ unsure' = unsure \union Touched(job[t].key, job[t].val)
      /\ UNCHANGED <<pkgPhase, pkg, pkgFile, restoring, pkgSystem>>
  BY DEF RefreshFails
<1>3. pkgPhase = "up" /\ job'[t] = None /\ \A s \in Thread \ {t} : job'[s] = job[s]
  BY <1>1, <1>2 DEF JobsOK
<1>4. PkgTyped' /\ SureIsSettled'
  BY <1>1, <1>2, RefreshesAreTyped, OthersStaySettled
<1>5. ASSUME NEW j \in DOMAIN pkg \ unsure'
      PROVE  Settled(j, pkg[j])' \/ \E s \in Thread : job'[s] # None /\ Unsettles(job[s], j)'
  <2>1. j \in DOMAIN pkg \ unsure /\ ~ Unsettles(job[t], j)
    BY <1>2, <1>5 DEF Touched, Unsettles
  <2>2. CASE Settled(j, pkg[j])
    BY <1>2, <2>2 DEF Settled, Serves, Section, Server, pkgSystem
  <2>3. CASE \E s \in Thread : job[s] # None /\ Unsettles(job[s], j)
    BY <1>2, <1>3, <2>1, <2>3 DEF Unsettles
  <2>. QED
    BY <1>3, <2>1, <2>2, <2>3 DEF PkgInv, ShownIsSettled
<1>6. ShownIsSettled'
  BY <1>2, <1>3, <1>5 DEF ShownIsSettled
<1>7. SharingIsUnsure'
  BY <1>2, <1>3 DEF PkgInv, SharingIsUnsure, SharingUrl
<1>. QED
  BY <1>1, <1>2, <1>4, <1>6, <1>7 DEF PkgInv, pkgSystem

LEMMA RecordKeepsPkgInv ==
    ASSUME PkgInv, NEW t \in Thread, RecordManaged(t) PROVE PkgInv'
<1>1. /\ PkgTyped /\ JobsOK /\ SureIsSettled /\ sources \in Seq(Line)
      /\ DOMAIN pkg \subseteq PkgKey
  BY PkgStates DEF PkgInv, PkgTyped
<1>2. PICK r : r = job[t]
  OBVIOUS
<1>3. /\ r # None /\ r.todo = "record" /\ r \in PkgJob /\ job' = [job EXCEPT ![t] = None]
      /\ UNCHANGED <<pkgPhase, restoring, pkgSystem>>
  BY <1>1, <1>2 DEF RecordManaged, JobsOK
<1>4. pkgPhase = "up" /\ job'[t] = None /\ \A s \in Thread \ {t} : job'[s] = job[s]
  BY <1>1, <1>2, <1>3 DEF JobsOK
<1>5. PkgTyped' /\ SureIsSettled'
  BY <1>1, <1>2, <1>3, RecordingIsTyped, OthersStaySettled
<1>6. r.sure /\ r.do # "delete" => Settled(r.key, r.val)
  BY <1>1, <1>2, <1>3 DEF SureIsSettled, JobSettled
<1>7. \A j, w : Settled(j, w) => Settled(j, w)'
  BY <1>3 DEF Settled, Serves, Section, Server, pkgSystem
<1>8. CASE UNCHANGED <<pkg, pkgFile, unsure>> /\ ~ (r.do = "set" \/ r.key \in DOMAIN pkg)
  <2>1. ASSUME NEW j \in DOMAIN pkg \ unsure
        PROVE  Settled(j, pkg[j])' \/ \E s \in Thread : job'[s] # None /\ Unsettles(job[s], j)'
    <3>1. ~ Unsettles(job[t], j)
      BY <1>2, <1>8 DEF Unsettles
    <3>2. CASE Settled(j, pkg[j])
      BY <1>7, <1>8, <3>2
    <3>3. CASE \E s \in Thread : job[s] # None /\ Unsettles(job[s], j)
      BY <1>4, <1>8, <3>1, <3>3 DEF Unsettles
    <3>. QED
      BY <1>4, <3>2, <3>3 DEF PkgInv, ShownIsSettled
  <2>2. ShownIsSettled'
    BY <1>3, <1>4, <1>8, <2>1 DEF ShownIsSettled
  <2>3. SharingIsUnsure'
    BY <1>3, <1>4, <1>8 DEF PkgInv, SharingIsUnsure, SharingUrl
  <2>. QED
    BY <1>1, <1>3, <1>5, <2>2, <2>3 DEF PkgInv, pkgSystem
<1>9. CASE r.do = "set" \/ r.key \in DOMAIN pkg
  <2>1. /\ pkg' = StateWith(r)
        /\ pkgFile' = [desired |-> pkg', current |-> pkg']
        /\ unsure' = (IF HoldsAs(r, pkg') THEN unsure \ {r.key} ELSE unsure \union {r.key})
                     \union SharingUrl(pkg')
    BY <1>2, <1>9 DEF RecordManaged, PkgPersist
  <2>2. PICK q : q = pkg'
    OBVIOUS
  <2>3. /\ r.do = "set" => r.key \in DOMAIN q /\ q[r.key] = r.val
        /\ r.do = "delete" => r.key \notin DOMAIN q
        /\ \A j \in DOMAIN q : j # r.key => j \in DOMAIN pkg /\ q[j] = pkg[j]
    <3>1. r.do \in {"set", "update", "delete"}
      BY <1>3 DEF PkgJob
    <3>2. q = CASE r.do = "set" -> r.key :> r.val @@ pkg
                [] r.do = "update" -> pkg
                [] r.do = "delete" -> Without(pkg, {r.key})
      BY <2>1, <2>2 DEF StateWith
    <3>. QED
      BY <3>1, <3>2 DEF @@, :>, Without, Restrict
  <2>4. SharingUrl(q) \subseteq unsure' /\ SharingIsUnsure'
    <3>1. SharingUrl(q) \subseteq unsure'
      BY <2>1, <2>2
    <3>2. SharingUrl(pkg)' \subseteq unsure'
      BY <2>2, <3>1 DEF SharingUrl
    <3>3. pkgFile.desired' = q
      BY <2>1, <2>2
    <3>4. SharingUrl(pkgFile.desired)' \subseteq unsure'
      BY <3>1, <3>3 DEF SharingUrl
    <3>. QED
      BY <1>3, <1>4, <3>1, <3>2, <3>4 DEF SharingIsUnsure
  <2>5. ASSUME NEW j \in DOMAIN q \ unsure'
        PROVE  Settled(j, q[j]) \/ \E s \in Thread \ {t} : job[s] # None /\ Unsettles(job[s], j)'
    <3>1. CASE j = r.key
      <4>1. r.do # "delete" /\ r.sure /\ q[j] = r.val
        BY <2>1, <2>2, <2>3, <2>5, <3>1 DEF HoldsAs
      <4>. QED
        BY <1>6, <3>1, <4>1
    <3>2. CASE j # r.key
      <4>1. j \in DOMAIN pkg \ unsure /\ q[j] = pkg[j]
        BY <2>1, <2>3, <2>5, <3>2
      <4>2. ~ Unsettles(r, j)
        <5>. SUFFICES ASSUME r.key[1] = "repos", j[1] = "repos", r.do = "set", r.val.url = pkg[j].url
                      PROVE  FALSE
          BY <3>2 DEF Unsettles
        <5>1. r.key \in DOMAIN q /\ q[j].url = q[r.key].url
          BY <2>3, <4>1
        <5>2. j \in SharingUrl(q)
          BY <2>5, <3>2, <5>1 DEF SharingUrl
        <5>. QED
          BY <2>4, <2>5, <5>2
      <4>3. CASE Settled(j, pkg[j])
        BY <4>1, <4>3
      <4>4. CASE \E s \in Thread : job[s] # None /\ Unsettles(job[s], j)
        <5>1. PICK s \in Thread : job[s] # None /\ Unsettles(job[s], j)
          BY <4>4
        <5>2. s # t /\ job'[s] = job[s]
          BY <1>2, <1>4, <4>2, <5>1
        <5>3. Unsettles(job[s], j)'
          BY <2>2, <4>1, <5>1, <5>2 DEF Unsettles
        <5>. QED
          BY <5>1, <5>2, <5>3
      <4>. QED
        BY <1>4, <4>1, <4>3, <4>4 DEF PkgInv, ShownIsSettled
    <3>. QED
      BY <3>1, <3>2
  <2>6. ASSUME NEW j \in DOMAIN pkg' \ unsure'
        PROVE  Settled(j, pkg[j])' \/ \E s \in Thread : job'[s] # None /\ Unsettles(job[s], j)'
    <3>1. CASE Settled(j, q[j])
      <4>1. PICK w : w = q[j]
        OBVIOUS
      <4>2. Settled(j, w)'
        BY <1>7, <3>1, <4>1
      <4>. QED
        BY <2>2, <4>1, <4>2 DEF Settled, Serves, Section, Server
    <3>2. CASE \E s \in Thread \ {t} : job[s] # None /\ Unsettles(job[s], j)'
      BY <1>4, <3>2
    <3>. QED
      BY <2>2, <2>5, <2>6, <3>1, <3>2
  <2>7. ShownIsSettled'
    BY <1>3, <1>4, <2>6 DEF ShownIsSettled
  <2>. QED
    BY <1>1, <1>3, <1>5, <2>4, <2>7 DEF PkgInv, pkgSystem
<1>. QED
  BY <1>2, <1>8, <1>9 DEF RecordManaged

LEMMA StopManagingKeepsPkgInv ==
    ASSUME PkgInv, NEW t \in Thread, NEW k \in DOMAIN pkg, StopManagingService(t, k)
    PROVE  PkgInv'
<1>1. /\ PkgTyped /\ SureIsSettled /\ sources \in Seq(Line) /\ PkgTyped'
  BY StopManagingIsTyped DEF PkgInv
<1>2. /\ pkgPhase = "up" /\ pkg' = Without(pkg, {k}) /\ pkgFile' = [desired |-> pkg', current |-> pkg']
      /\ UNCHANGED <<pkgPhase, restoring, job, pkgSystem, unsure>>
  BY DEF StopManagingService, PkgClient, PkgPersist
<1>3. PICK q : q = pkg'
  OBVIOUS
<1>4. DOMAIN q \subseteq DOMAIN pkg /\ \A j \in DOMAIN q : q[j] = pkg[j]
  BY <1>2, <1>3 DEF Without, Restrict
<1>5. SharingUrl(q) \subseteq SharingUrl(pkg)
  <2>. SUFFICES ASSUME NEW x \in SharingUrl(q) PROVE x \in SharingUrl(pkg)
    OBVIOUS
  <2>1. /\ x \in DOMAIN q /\ x[1] = "repos"
        /\ \E j \in DOMAIN q \ {x} : j[1] = "repos" /\ q[j].url = q[x].url
    BY DEF SharingUrl
  <2>. QED
    BY <1>4, <2>1 DEF SharingUrl
<1>6. SharingIsUnsure'
  <2>1. SharingUrl(pkg)' \subseteq unsure'
    <3>1. SharingUrl(q) \subseteq unsure
      BY <1>5 DEF PkgInv, SharingIsUnsure
    <3>. QED
      BY <1>2, <1>3, <3>1 DEF SharingUrl
  <2>2. pkgFile.desired' = pkg'
    BY <1>2
  <2>3. SharingUrl(pkgFile.desired)' \subseteq unsure'
    BY <2>1, <2>2 DEF SharingUrl
  <2>. QED
    BY <1>2, <2>1, <2>3 DEF SharingIsUnsure
<1>7. \A j, w : Settled(j, w) => Settled(j, w)'
  BY <1>2 DEF Settled, Serves, Section, Server, pkgSystem
<1>8. SureIsSettled'
  <2>1. ASSUME NEW s \in Thread, job[s] # None PROVE JobSettled(job[s])'
    <3>1. JobSettled(job[s])
      BY <1>1, <2>1 DEF SureIsSettled
    <3>. QED
      BY <1>2, <3>1 DEF JobSettled, Settled, Serves, Section, Server, pkgSystem
  <2>2. \A s \in Thread : Competing(s, job[s].key)' = Competing(s, job[s].key)
    BY <1>2 DEF Competing, SameLine
  <2>. QED
    BY <1>1, <1>2, <2>1, <2>2 DEF SureIsSettled
<1>9. ASSUME NEW j \in DOMAIN pkg' \ unsure
      PROVE  Settled(j, pkg[j])' \/ \E s \in Thread : job'[s] # None /\ Unsettles(job[s], j)'
  <2>1. j \in DOMAIN pkg \ unsure /\ q[j] = pkg[j]
    BY <1>3, <1>4, <1>9
  <2>2. CASE Settled(j, pkg[j])
    <3>1. PICK w : w = pkg[j]
      OBVIOUS
    <3>2. Settled(j, w)'
      BY <1>7, <2>2, <3>1
    <3>. QED
      BY <1>3, <2>1, <3>1, <3>2 DEF Settled, Serves, Section, Server
  <2>3. CASE \E s \in Thread : job[s] # None /\ Unsettles(job[s], j)
    BY <1>2, <1>3, <2>1, <2>3 DEF Unsettles
  <2>. QED
    BY <1>2, <2>1, <2>2, <2>3 DEF PkgInv, ShownIsSettled
<1>10. ShownIsSettled'
  BY <1>2, <1>9 DEF ShownIsSettled
<1>. QED
  BY <1>1, <1>2, <1>6, <1>8, <1>10 DEF PkgInv, pkgSystem

\* Where nothing but the package cache changes.
LEMMA CacheKeepsPkgInv ==
    ASSUME PkgInv, PkgTyped', index' = index \/ index' = Indexable',
           UNCHANGED <<pkgPhase, pkg, pkgFile, restoring, job, manager, sources, unitState,
                       installedPkgs, unsure>>
    PROVE  PkgInv'
<1>1. /\ PkgTyped /\ SureIsSettled /\ sources \in Seq(Line)
      /\ DOMAIN pkg \subseteq PkgKey /\ \A j \in DOMAIN pkg : pkg[j] \in Kept(j)
  BY PkgStates DEF PkgInv, PkgTyped
<1>2. ASSUME NEW j \in DOMAIN pkg, Settled(j, pkg[j]) PROVE Settled(j, pkg[j])'
  <2>1. PICK w : w = pkg[j]
    OBVIOUS
  <2>2. Settled(j, w)'
    BY <1>1, <1>2, <2>1, RefreshSettles
  <2>. QED
    BY <2>1, <2>2 DEF Settled, Serves, Section, Server
<1>3. ShownIsSettled'
  <2>1. CASE pkgPhase = "up"
    <3>1. ASSUME NEW j \in DOMAIN pkg \ unsure
          PROVE  Settled(j, pkg[j])' \/ \E s \in Thread : job'[s] # None /\ Unsettles(job[s], j)'
      <4>1. CASE Settled(j, pkg[j])
        BY <1>2, <4>1
      <4>2. CASE \E s \in Thread : job[s] # None /\ Unsettles(job[s], j)
        BY <4>2 DEF Unsettles
      <4>. QED
        BY <2>1, <4>1, <4>2 DEF PkgInv, ShownIsSettled
    <3>. QED
      BY <2>1, <3>1 DEF ShownIsSettled
  <2>2. CASE pkgPhase = "restoring"
    <3>1. /\ DOMAIN pkg \subseteq restoring.todo \union restoring.applied \union unsure
          /\ \A j \in restoring.applied \ unsure : Settled(j, pkg[j]) /\ j \in DOMAIN pkg
      BY <1>1, <2>2 DEF PkgInv, ShownIsSettled, PkgTyped
    <3>2. \A j \in restoring.applied \ unsure : Settled(j, pkg[j])'
      BY <1>2, <3>1
    <3>. QED
      BY <2>2, <3>1, <3>2 DEF ShownIsSettled
  <2>3. CASE pkgPhase = "down"
    BY <2>3 DEF ShownIsSettled
  <2>. QED
    BY <1>1, <2>1, <2>2, <2>3 DEF PkgTyped
<1>4. SureIsSettled'
  <2>1. ASSUME NEW s \in Thread, job[s] # None PROVE JobSettled(job[s])'
    <3>1. PICK r : r = job[s] /\ r # None /\ JobSettled(r)
      BY <1>1, <2>1 DEF SureIsSettled
    <3>2. JobSettled(r)'
      BY <1>1, <3>1, RefreshLeavesJobs
    <3>. QED
      BY <3>1, <3>2
  <2>2. \A s \in Thread : Competing(s, job[s].key)' = Competing(s, job[s].key)
    BY DEF Competing, SameLine
  <2>. QED
    BY <1>1, <2>1, <2>2 DEF SureIsSettled
<1>5. SharingIsUnsure'
  BY DEF PkgInv, SharingIsUnsure, SharingUrl
<1>. QED
  BY <1>1, <1>3, <1>4, <1>5 DEF PkgInv

\* An upgrade leaves the packages alone that it neither removed nor installed.
LEMMA UpgradeKeepsPkgInv == ASSUME PkgInv, RunUpgradeTask PROVE PkgInv'
<1>1. /\ PkgTyped /\ PkgTyped' /\ JobsOK /\ SureIsSettled /\ sources \in Seq(Line)
      /\ DOMAIN pkg \subseteq PkgKey /\ \A j \in DOMAIN pkg : pkg[j] \in Kept(j)
  BY PkgStates, UpgradesAreTyped DEF PkgInv, PkgTyped
<1>2. PICK keys \in SUBSET {<<"packages", p>> : p \in Package} :
         /\ unsure' = unsure \union keys
         /\ \A p \in Package : <<"packages", p>> \notin keys =>
               (p \in installedPkgs' <=> p \in installedPkgs)
         /\ \A s \in Thread :
               /\ job'[s] = None <=> job[s] = None
               /\ job[s] # None =>
                     /\ job'[s].todo = job[s].todo /\ job'[s].do = job[s].do
                     /\ job'[s].key = job[s].key /\ job'[s].val = job[s].val
                     /\ job'[s].sure => job'[s] = job[s] /\ job[s].key \notin keys
  BY <1>1, UpgradeIs
<1>3. /\ UNCHANGED <<pkgPhase, pkg, pkgFile, restoring, manager, sources, unitState>>
      /\ index' = index \/ index' = Indexable
  BY DEF RunUpgradeTask, RefreshCache
<1>4. index' = index \/ index' = Indexable'
  BY <1>3 DEF Indexable, Server
<1>5. ASSUME NEW j \in PkgKey \ keys, NEW w \in Kept(j), Settled(j, w)
      PROVE  Settled(j, w)'
  <2>1. ASSUME j[1] = "packages" PROVE (j[2] \in installedPkgs') = (j[2] \in installedPkgs)
    <3>1. j[2] \in Package /\ j = <<"packages", j[2]>>
      BY <2>1 DEF PkgKey
    <3>2. j[2] \in installedPkgs' <=> j[2] \in installedPkgs
      BY <1>2, <1>5, <3>1
    <3>. QED
      BY <3>2
  <2>. QED
    BY <1>1, <1>3, <1>4, <1>5, <2>1, RefreshSettles
<1>6. ASSUME NEW s \in Thread, job'[s] # None
      PROVE  /\ job'[s].todo = "refresh" =>
                   job'[s].do = "set" /\ job'[s].key[1] = "repos" /\ job'[s].val.present
             /\ job'[s].sure => Competing(s, job[s].key)' = {}
             /\ JobSettled(job[s])'
  <2>1. PICK r : r = job[s]
    OBVIOUS
  <2>2. /\ r # None
        /\ r.todo = "refresh" => r.do = "set" /\ r.key[1] = "repos" /\ r.val.present
        /\ r.sure => Competing(s, r.key) = {}
        /\ JobSettled(r)
    BY <1>1, <1>2, <1>6, <2>1 DEF SureIsSettled
  <2>3. CASE job'[s].sure
    <3>1. job'[s] = r /\ r.key \notin keys
      BY <1>2, <2>1, <2>2, <2>3
    <3>2. r.key \in PkgKey /\ (r.do # "delete" => r.val \in Kept(r.key))
      BY <1>1, <2>1, <2>2, JobIs
    <3>3. r.do # "delete" /\ Settled(r.key, r.val) => Settled(r.key, r.val)'
      BY <1>5, <3>1, <3>2
    <3>4. Serves(r.key[2], r.val.url) => Serves(r.key[2], r.val.url)'
      BY <1>3 DEF Serves, Section, Server
    <3>5. JobSettled(r)'
      BY <2>2, <3>3, <3>4 DEF JobSettled
    <3>6. \A x \in Thread : job'[x] # None => job[x] # None /\ job'[x].key = job[x].key
      BY <1>2
    <3>7. Competing(s, r.key)' = {}
      BY <2>2, <2>3, <3>1, <3>6 DEF Competing, SameLine
    <3>. QED
      BY <2>2, <3>1, <3>5, <3>7
  <2>4. CASE ~ job'[s].sure
    <3>1. JobSettled(job[s])'
      BY <2>4 DEF JobSettled
    <3>. QED
      BY <1>2, <2>1, <2>2, <2>4, <3>1
  <2>. QED
    BY <2>3, <2>4
<1>7. SureIsSettled'
  BY <1>6 DEF SureIsSettled
<1>8. ASSUME NEW j \in DOMAIN pkg \ unsure', Settled(j, pkg[j]) PROVE Settled(j, pkg[j])'
  <2>1. PICK w : w = pkg[j]
    OBVIOUS
  <2>2. j \in PkgKey \ keys /\ w \in Kept(j)
    BY <1>1, <1>2, <1>8, <2>1
  <2>3. Settled(j, w)'
    BY <1>5, <1>8, <2>1, <2>2
  <2>. QED
    BY <1>3, <2>1, <2>3 DEF Settled, Serves, Section, Server
<1>9. ShownIsSettled'
  <2>1. CASE pkgPhase = "up"
    <3>1. ASSUME NEW j \in DOMAIN pkg \ unsure'
          PROVE  Settled(j, pkg[j])' \/ \E s \in Thread : job'[s] # None /\ Unsettles(job[s], j)'
      <4>1. CASE Settled(j, pkg[j])
        BY <1>8, <4>1
      <4>2. CASE \E s \in Thread : job[s] # None /\ Unsettles(job[s], j)
        BY <1>2, <1>3, <4>2 DEF Unsettles
      <4>. QED
        BY <1>2, <2>1, <4>1, <4>2 DEF PkgInv, ShownIsSettled
    <3>. QED
      BY <1>3, <2>1, <3>1 DEF ShownIsSettled
  <2>2. CASE pkgPhase = "restoring"
    <3>1. /\ DOMAIN pkg \subseteq restoring.todo \union restoring.applied \union unsure
          /\ \A j \in restoring.applied \ unsure : Settled(j, pkg[j]) /\ j \in DOMAIN pkg
      BY <1>1, <2>2 DEF PkgInv, ShownIsSettled, PkgTyped
    <3>2. \A j \in restoring.applied \ unsure' : Settled(j, pkg[j])'
      BY <1>2, <1>8, <3>1
    <3>. QED
      BY <1>2, <1>3, <2>2, <3>1, <3>2 DEF ShownIsSettled
  <2>3. CASE pkgPhase = "down"
    BY <1>3, <2>3 DEF ShownIsSettled
  <2>. QED
    BY <1>1, <2>1, <2>2, <2>3 DEF PkgTyped
<1>10. SharingIsUnsure'
  BY <1>2, <1>3 DEF PkgInv, SharingIsUnsure, SharingUrl
<1>. QED
  BY <1>1, <1>3, <1>7, <1>9, <1>10 DEF PkgInv

\* Nobody works at a request unless the plugin is up.
LEMMA NoJobs == JobsOK /\ pkgPhase # "up" => \A t \in Thread : job[t] = None
  BY DEF JobsOK

LEMMA IdleIsSettled ==
    ASSUME PkgTyped, pkgPhase # "up", UNCHANGED job
    PROVE  SureIsSettled'
<1>1. \A t \in Thread : job'[t] = None
  BY NoJobs DEF PkgTyped
<1>. QED
  BY <1>1 DEF SureIsSettled

LEMMA LoadKeepsPkgInv ==
    ASSUME PkgInv, NEW ignore \in BOOLEAN, PkgLoad(ignore) PROVE PkgInv'
<1>1. PkgTyped /\ pkgPhase = "down" /\ sources' \in Seq(Line) /\ PkgTyped' /\ UNCHANGED <<unsure, job>>
  BY PkgLoadIsTyped DEF PkgInv, PkgLoad
<1>2. SureIsSettled'
  BY <1>1, IdleIsSettled
<1>3. PICK loaded : loaded = IF ignore \/ pkgFile = None THEN << >> ELSE pkgFile.desired
  OBVIOUS
<1>4. /\ pkg' = loaded /\ pkgPhase' = (IF loaded = << >> THEN "up" ELSE "restoring")
      /\ restoring' = [todo |-> DOMAIN loaded, applied |-> {}]
      /\ IF ~ ignore /\ pkgFile = None THEN PkgPersist(<< >>) ELSE UNCHANGED pkgFile
  BY <1>3 DEF PkgLoad
<1>5. DOMAIN << >> = {} /\ SharingUrl(<< >>) = {}
  BY NothingManaged DEF SharingUrl
<1>6. SharingUrl(loaded) \subseteq unsure
  BY <1>3, <1>5 DEF PkgInv, SharingIsUnsure
<1>7. ShownIsSettled'
  BY <1>4, <1>5 DEF ShownIsSettled
<1>8. SharingIsUnsure'
  <2>1. SharingUrl(pkg)' \subseteq unsure'
    BY <1>1, <1>4, <1>6 DEF SharingUrl
  <2>2. CASE ~ ignore /\ pkgFile = None
    <3>1. pkgFile'.desired = << >> /\ loaded = << >>
      BY <1>3, <1>4, <2>2 DEF PkgPersist
    <3>2. SharingUrl(pkgFile.desired)' = {}
      BY <1>5, <3>1 DEF SharingUrl
    <3>. QED
      BY <1>4, <2>1, <3>1, <3>2 DEF SharingIsUnsure
  <2>3. CASE ignore \/ pkgFile # None
    <3>1. pkgFile' = pkgFile
      BY <1>4, <2>3
    <3>2. pkgFile # None => SharingUrl(pkgFile.desired)' \subseteq unsure'
      BY <1>1, <3>1 DEF PkgInv, SharingIsUnsure, SharingUrl
    <3>3. pkgPhase' = "restoring" => pkg' = pkgFile'.desired
      BY <1>3, <1>4, <3>1
    <3>. QED
      BY <2>1, <3>1, <3>2, <3>3 DEF SharingIsUnsure
  <2>. QED
    BY <2>2, <2>3
<1>. QED
  BY <1>1, <1>2, <1>7, <1>8 DEF PkgInv

LEMMA RestoreKeepsPkgInv ==
    ASSUME PkgInv, NEW k \in PkgKey, RestoreManaged(k) PROVE PkgInv'
<1>1. /\ PkgTyped /\ SystemOK /\ sources \in Seq(Line) /\ pkgPhase = "restoring"
      /\ DOMAIN pkg \subseteq PkgKey /\ \A j \in DOMAIN pkg : pkg[j] \in Kept(j)
      /\ k \in DOMAIN pkg /\ restoring.applied \subseteq DOMAIN pkg
  BY PkgStates DEF PkgInv, PkgTyped, RestoreManaged
<1>2. PICK v : v = pkg[k]
  OBVIOUS
<1>3. /\ UNCHANGED <<pkgPhase, pkg, pkgFile, job>>
      /\ restoring' = [todo |-> restoring.todo \ {k}, applied |-> restoring.applied \union {k}]
      /\ unsure' = IF StaysWrong(k, v) THEN unsure \union {k}
                   ELSE (unsure \ {k}) \union SharingUrl(pkg)
  BY <1>2 DEF RestoreManaged
<1>4. Changes(k, v) /\ v \in Kept(k)
      /\ (k[1] = "repos" /\ v.present => index' = Indexable')
  <2>1. CASE k[1] = "repos"
    <3>1. /\ sources' = IF v.present THEN SourcesWith(k[2], v.url) ELSE SourcesWithout(k[2], v.url)
          /\ IF v.present THEN index' = {u \in Url : Server(u) \in Range(sources')}
                          ELSE UNCHANGED <<index, fresh>>
          /\ UNCHANGED <<manager, initd, unitState, installedPkgs>>
      BY <1>2, <2>1 DEF RestoreManaged
    <3>2. v.present => index' = Indexable'
      BY <3>1 DEF Indexable, Server
    <3>. QED
      BY <1>1, <1>2, <2>1, <3>1, <3>2 DEF Changes
  <2>2. CASE k[1] # "repos"
    BY <1>1, <1>2, <2>2, AppliedIsChanged DEF RestoreManaged
  <2>. QED
    BY <2>1, <2>2
<1>5. PkgTyped' /\ sources' \in Seq(Line) /\ SureIsSettled'
  BY <1>1, <1>3, <1>4, PkgRestoreIsTyped, ChangeSettles, IdleIsSettled
<1>6. SharingUrl(pkg) \subseteq unsure'
  BY <1>3 DEF PkgInv, SharingIsUnsure
<1>7. SharingIsUnsure'
  <2>1. SharingUrl(pkg)' \subseteq unsure'
    BY <1>3, <1>6 DEF SharingUrl
  <2>2. pkgFile' # None /\ pkg' = pkgFile'.desired
    BY <1>1, <1>3 DEF PkgInv, SharingIsUnsure, PkgTyped
  <2>3. SharingUrl(pkgFile.desired)' \subseteq unsure'
    BY <2>1, <2>2 DEF SharingUrl
  <2>. QED
    BY <2>1, <2>2, <2>3 DEF SharingIsUnsure
<1>8. /\ DOMAIN pkg \subseteq restoring.todo \union restoring.applied \union unsure
      /\ \A j \in restoring.applied \ unsure : Settled(j, pkg[j])
  BY <1>1 DEF PkgInv, ShownIsSettled
<1>9. ASSUME NEW j \in restoring'.applied \ unsure' PROVE Settled(j, pkg[j])'
  <2>1. PICK w : w = pkg[j]
    OBVIOUS
  <2>2. Settled(j, w)'
    <3>1. CASE j = k
      <4>1. ~ StaysWrong(k, v) /\ w = v
        BY <1>2, <1>3, <1>9, <2>1, <3>1
      <4>2. CASE ~ (k[1] = "repos" /\ v.present)
        BY <1>1, <1>4, <3>1, <4>1, <4>2, ChangeSettles
      <4>3. CASE k[1] = "repos" /\ v.present
        <5>1. Serves(k[2], v.url)'
          BY <1>1, <1>4, <4>1, <4>3, ChangeSettles
        <5>2. v.url \in Url /\ index' = Indexable'
          BY <1>4, <4>3 DEF Kept
        <5>3. v.url \in index'
          BY <1>5, <5>1, <5>2, ServedIsListed
        <5>. QED
          BY <3>1, <4>1, <4>3, <5>1, <5>3 DEF Settled
      <4>. QED
        BY <4>2, <4>3
    <3>2. CASE j # k
      <4>1. j \in restoring.applied \ unsure
        BY <1>3, <1>9, <3>2
      <4>2. j[1] = "repos" /\ k[1] = "repos" => w.url # v.url
        BY <1>1, <1>2, <2>1, <3>2, <4>1, SharersAreUnsure DEF PkgInv
      <4>. QED
        BY <1>1, <1>4, <1>8, <2>1, <3>2, <4>1, <4>2, ChangeLeavesOthers
    <3>. QED
      BY <3>1, <3>2
  <2>. QED
    BY <1>3, <2>1, <2>2 DEF Settled, Serves, Section, Server
<1>10. DOMAIN pkg \subseteq restoring'.todo \union restoring'.applied \union unsure'
  BY <1>3, <1>8
<1>11. ShownIsSettled'
  BY <1>1, <1>3, <1>9, <1>10 DEF ShownIsSettled
<1>. QED
  BY <1>5, <1>7, <1>11 DEF PkgInv

LEMMA RestoreFailureKeepsPkgInv ==
    ASSUME PkgInv, NEW k \in PkgKey, RestoreFails(k) PROVE PkgInv'
<1>1. PkgTyped /\ pkgPhase = "restoring" /\ sources \in Seq(Line) /\ PkgTyped'
  BY PkgRestoreIsTyped DEF PkgInv, RestoreFails
<1>2. /\ restoring' = [restoring EXCEPT !.todo = @ \ {k}] /\ unsure' = unsure \union {k}
      /\ UNCHANGED <<pkgPhase, pkg, pkgFile, job, pkgSystem>>
  BY DEF RestoreFails
<1>3. restoring'.todo = restoring.todo \ {k} /\ restoring'.applied = restoring.applied
  BY <1>1, <1>2 DEF PkgTyped
<1>4. SureIsSettled'
  BY <1>1, <1>2, IdleIsSettled
<1>5. ShownIsSettled'
  <2>1. \A j \in restoring'.applied \ unsure' : Settled(j, pkg[j])'
    <3>1. \A j \in restoring'.applied \ unsure' : Settled(j, pkg[j])
      BY <1>1, <1>2, <1>3 DEF PkgInv, ShownIsSettled
    <3>2. \A j : Settled(j, pkg[j]) => Settled(j, pkg[j])'
      BY <1>2 DEF Settled, Serves, Section, Server, pkgSystem
    <3>. QED
      BY <3>1, <3>2
  <2>2. DOMAIN pkg \subseteq restoring'.todo \union restoring'.applied \union unsure'
    BY <1>1, <1>2, <1>3 DEF PkgInv, ShownIsSettled
  <2>. QED
    BY <1>1, <1>2, <2>1, <2>2 DEF ShownIsSettled
<1>6. SharingIsUnsure'
  BY <1>2 DEF PkgInv, SharingIsUnsure, SharingUrl
<1>. QED
  BY <1>1, <1>2, <1>4, <1>5, <1>6 DEF PkgInv, pkgSystem

LEMMA CommitKeepsPkgInv == ASSUME PkgInv, CommitRestored PROVE PkgInv'
<1>1. /\ PkgTyped /\ pkgPhase = "restoring" /\ restoring.todo = {} /\ pkgPhase' = "up"
      /\ sources \in Seq(Line) /\ PkgTyped'
      /\ UNCHANGED <<pkg, job, pkgSystem, unsure>>
  BY PkgCommitIsTyped DEF PkgInv, CommitRestored
<1>2. pkgFile \in [desired : PkgState, current : PkgState]
  BY <1>1 DEF PkgTyped
<1>3. pkgFile'.desired = pkgFile.desired
  BY <1>2 DEF CommitRestored
<1>4. SureIsSettled'
  BY <1>1, IdleIsSettled
<1>5. ShownIsSettled'
  <2>1. \A j \in DOMAIN pkg \ unsure : Settled(j, pkg[j])
    BY <1>1 DEF PkgInv, ShownIsSettled
  <2>2. \A j \in DOMAIN pkg \ unsure : Settled(j, pkg[j])'
    <3>1. \A j : Settled(j, pkg[j]) => Settled(j, pkg[j])'
      BY <1>1 DEF Settled, Serves, Section, Server, pkgSystem
    <3>. QED
      BY <2>1, <3>1
  <2>. QED
    BY <1>1, <2>2 DEF ShownIsSettled
<1>6. SharingIsUnsure'
  <2>1. SharingUrl(pkg)' \subseteq unsure'
    BY <1>1 DEF PkgInv, SharingIsUnsure, SharingUrl
  <2>2. SharingUrl(pkgFile.desired) \subseteq unsure /\ pkgFile # None
    BY <1>1 DEF PkgInv, SharingIsUnsure, PkgTyped
  <2>3. SharingUrl(pkgFile.desired)' \subseteq unsure'
    BY <1>1, <1>3, <2>2 DEF SharingUrl
  <2>. QED
    BY <1>1, <2>1, <2>3 DEF SharingIsUnsure
<1>. QED
  BY <1>1, <1>4, <1>5, <1>6 DEF PkgInv, pkgSystem

LEMMA StockIsLines == PkgTyped => Stock \in Seq(Line)
<1>1. <<"section", "stock">> \in Line /\ Server(StockUrl) \in Line
  BY PackagesAssumption DEF Line, Server
<1>. QED
  BY <1>1 DEF Stock

LEMMA PkgStopKeepsInv == ASSUME PkgInv, PkgStop \/ SystemReset PROVE PkgInv'
<1>1. PkgTyped' /\ pkgPhase' = "down" /\ UNCHANGED <<unsure, pkgFile>>
  BY PkgStopIsTyped DEF PkgInv, PkgStop, SystemReset
<1>2. \A t \in Thread : job'[t] = None
  BY <1>1, NoJobs DEF PkgTyped, JobsOK
<1>3. SureIsSettled' /\ ShownIsSettled'
  BY <1>1, <1>2 DEF SureIsSettled, ShownIsSettled
<1>4. sources' \in Seq(Line)
  <2>1. CASE PkgStop
    BY <2>1 DEF PkgInv, PkgStop, pkgSystem
  <2>2. CASE SystemReset
    BY <2>2, StockIsLines DEF PkgInv, SystemReset
  <2>. QED
    BY <2>1, <2>2
<1>5. SharingUrl(pkg)' \subseteq unsure'
  <2>1. CASE PkgStop
    <3>1. pkg' = << >> /\ DOMAIN pkg' = {}
      BY <2>1, NothingManaged DEF PkgStop
    <3>. QED
      BY <3>1 DEF SharingUrl
  <2>2. CASE SystemReset
    BY <2>2 DEF PkgInv, SharingIsUnsure, SharingUrl, SystemReset
  <2>. QED
    BY <2>1, <2>2
<1>6. SharingIsUnsure'
  <2>1. pkgFile' # None => SharingUrl(pkgFile.desired)' \subseteq unsure'
    BY <1>1 DEF PkgInv, SharingIsUnsure, SharingUrl
  <2>. QED
    BY <1>1, <1>5, <2>1 DEF SharingIsUnsure
<1>. QED
  BY <1>1, <1>3, <1>4, <1>6 DEF PkgInv

LEMMA PkgInitInv == PkgInit => PkgInv
<1>. SUFFICES ASSUME PkgInit PROVE PkgInv
  OBVIOUS
<1>1. PkgTyped /\ sources \in Seq(Line)
  BY PkgInitIsTyped, StockIsLines DEF PkgInit
<1>2. SharingUrl(pkg) = {}
  BY NothingManaged DEF PkgInit, SharingUrl
<1>. QED
  BY <1>1, <1>2 DEF PkgInit, PkgInv, SharingIsUnsure, ShownIsSettled, SureIsSettled

LEMMA PkgStepKeepsInv == PkgInv /\ [PkgNext]_pkgVars => PkgInv'
<1>. SUFFICES ASSUME PkgInv, [PkgNext]_pkgVars PROVE PkgInv'
  OBVIOUS
<1>1. PkgTyped /\ PkgTyped'
  BY PkgStepIsTyped DEF PkgInv
<1>2. CASE UNCHANGED pkgVars
  <2>1. UNCHANGED <<pkgPhase, pkg, pkgFile, restoring, job, manager, sources, unitState,
                    installedPkgs, unsure, index>>
    BY <1>2 DEF pkgVars, pkgSystem
  <2>. QED
    BY <1>1, <2>1, CacheKeepsPkgInv
<1>3. ASSUME NEW t \in Thread, PkgRequest(t) PROVE PkgInv'
  <2>1. ASSUME NEW k \in PkgKey, NEW v \in PkgBody(k), SetManaged(t, k, v) \/ ChangeFails(t, k, v)
        PROVE  PkgInv'
    BY <2>1, SetKeepsPkgInv, FailureKeepsPkgInv
  <2>2. ASSUME NEW k \in DOMAIN pkg,
               UpdatePackage(t, k) \/ RemoveManaged(t, k) \/ StopManagingService(t, k)
        PROVE  PkgInv'
    BY <2>2, UpdateKeepsPkgInv, RemoveKeepsPkgInv, StopManagingKeepsPkgInv
  <2>3. ASSUME NEW s \in Service, ImportManaged(t, <<"services", s>>, Reported(s)) PROVE PkgInv'
    <3>1. Reported(s) \in UnitState
      BY <1>1 DEF Reported, PkgTyped, SystemOK, InitSystemFound, UnitState
    <3>2. Reported(s) \in Kept(<<"services", s>>)
      BY <3>1 DEF Kept, PkgBody
    <3>. QED
      BY <2>3, <3>2, PkgKeys, ImportKeepsPkgInv
  <2>4. ASSUME NEW p \in Package, ImportManaged(t, <<"packages", p>>, TRUE) PROVE PkgInv'
    <3>1. TRUE \in Kept(<<"packages", p>>)
      BY DEF Kept, PkgBody
    <3>. QED
      BY <2>4, <3>1, PkgKeys, ImportKeepsPkgInv
  <2>5. ASSUME NEW r \in Repo, NEW u \in Url, NEW src \in BOOLEAN,
               ImportManaged(t, <<"repos", r>>, [present |-> TRUE, url |-> u, src |-> src])
        PROVE  PkgInv'
    <3>1. [present |-> TRUE, url |-> u, src |-> src] \in Kept(<<"repos", r>>)
      BY DEF Kept
    <3>. QED
      BY <2>5, <3>1, PkgKeys, ImportKeepsPkgInv
  <2>6. CASE UpgradeSystem(t)
    <3>1. UNCHANGED <<pkgPhase, pkg, pkgFile, restoring, job, manager, sources, unitState,
                      installedPkgs, unsure, index>>
      BY <2>6 DEF UpgradeSystem, pkgSystem
    <3>. QED
      BY <1>1, <3>1, CacheKeepsPkgInv
  <2>7. CASE RefreshForRepo(t) \/ RefreshFails(t) \/ RecordManaged(t)
    BY <2>7, RefreshKeepsPkgInv, RefreshFailureKeepsPkgInv, RecordKeepsPkgInv
  <2>. QED
    BY <1>3, <2>1, <2>2, <2>3, <2>4, <2>5, <2>6, <2>7 DEF PkgRequest
<1>4. CASE RunUpgradeTask
  BY <1>4, UpgradeKeepsPkgInv
<1>5. CASE PkgNext
  BY <1>3, <1>4, <1>5, LoadKeepsPkgInv, RestoreKeepsPkgInv, RestoreFailureKeepsPkgInv,
     CommitKeepsPkgInv, PkgStopKeepsInv DEF PkgNext
<1>. QED
  BY <1>2, <1>5

\* What the package plugin shows as managed is on the system, and the package
\* cache knows the repositories it shows as added, whatever requests race, fail
\* or are killed half way (plugin.py, _pkg_manager.py).
THEOREM PkgManagedIsAsShown == PkgSpec => []ManagedIsAsShown
<1>1. PkgInv => ManagedIsAsShown
  <2>. SUFFICES ASSUME PkgInv, pkgPhase = "up", NEW k \in DOMAIN pkg \ unsure
                PROVE  PkgBusy(k) \/ OnSystem(k, pkg[k])
    BY DEF ManagedIsAsShown
  <2>1. PkgTyped /\ sources \in Seq(Line) /\ k \in PkgKey /\ pkg[k] \in Kept(k)
    BY PkgStates DEF PkgInv, PkgTyped
  <2>2. CASE Settled(k, pkg[k])
    BY <2>1, <2>2, SettledIsShown
  <2>3. CASE \E t \in Thread : job[t] # None /\ Unsettles(job[t], k)
    BY <2>3 DEF Unsettles, PkgBusy, SameLine
  <2>. QED
    BY <2>2, <2>3 DEF PkgInv, ShownIsSettled
<1>. QED
  BY <1>1, PkgInitInv, PkgStepKeepsInv, PTL DEF PkgSpec
=============================================================================
