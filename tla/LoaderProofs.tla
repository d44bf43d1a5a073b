----------------------------- MODULE LoaderProofs -----------------------------
(***************************************************************************)
(* Proofs about Loader, for any plugins, resources, sources and any        *)
(* plugin.yaml files.  The order of a pass is Kahn's: what the sort        *)
(* returns is found by counting its rounds up (CountUp), and the visits    *)
(* of a pass are a beginning of it (VisitedSorted).  Leaves in which a     *)
(* CHOOSE can be seen cite Zenon: the translation to SMT takes it for more *)
(* than it is.                                                             *)
(***************************************************************************)
EXTENDS Loader, SequenceTheorems, FiniteSetTheorems, WellFoundedInduction, TLAPS

USE LoaderAssumption

\* A pass chooses before it visits, and only it and direct calls load.
Shape ==
    /\ planned => source \in 1..Sources
    /\ ~planned => active = {}
    /\ stack # <<>> => phase \in {"boot", "up"}
    /\ stack # <<>> /\ phase = "boot" => planned /\ stack[1].plugin \in visited

TypeInv == TypeOK /\ Shape

\* What the plugin being loaded, if any, may still change.
Busy == IF stack = <<>> THEN {} ELSE {stack[1].plugin}

\* During the boot load_plugin never calls itself: what a pass has visited is
\* configured unless it failed, and a plugin is only visited when everything
\* it requires is configured.
BootInv ==
    /\ phase = "down" => loaded = {} /\ ~planned
    /\ phase = "boot" =>
        /\ \A p \in active : p \in Enabled /\ Requires(p) \subseteq active \union loaded
        /\ loaded \subseteq configured
        /\ visited \ failed \subseteq configured \union Busy
        /\ stack # <<>> =>
            /\ Len(stack) = 1
            /\ stack[1].source = source
            /\ Requires(stack[1].plugin) \subseteq configured
            /\ stack[1].todo \subseteq Requires(stack[1].plugin)

\* A claim that was free when it was checked is free when it is registered,
\* unless a direct load has started another load in between.
RegistryInv ==
    /\ RegistryMatches
    /\ ~direct /\ stack # <<>> =>
        /\ phase = "boot"
        /\ stack[1].step = "requirements" => Unclaimed(stack[1].plugin)

Waiting == {deferred[i] : i \in 1..Len(deferred)}

\* Before its turn in finished() comes everything a plugin requires.
SetupInv ==
    /\ phase = "down" => configured = {} /\ ready = {} /\ deferred = <<>>
    /\ phase \in {"boot", "setup"} =>
        /\ configured = ready \union Waiting
        /\ \A i \in 1..Len(deferred) :
            Requires(deferred[i]) \subseteq ready \union {deferred[j] : j \in 1..(i - 1)}
    /\ phase = "up" => deferred = <<>> /\ configured = ready

-----------------------------------------------------------------------------
(* The planned pass *)

\* Everything a pass is to load is enabled, and brings what it requires with it.
LEMMA ActiveIsClosed ==
    ASSUME TypeOK, Planning, ~RequirementMissing
    PROVE  /\ Active \in SUBSET Plugin
           /\ \A p \in Active : p \in Enabled /\ Requires(p) \subseteq Active \union loaded
<1>1. Discovered \in SUBSET Plugin
  BY DEF Discovered, TypeOK, CatalogueType, Planning
<1>2. Candidates \subseteq Discovered
  BY DEF Candidates
<1>3. Active \in SUBSET Plugin
  BY <1>1, <1>2 DEF Active
<1>4. ASSUME NEW p \in Active PROVE p \in Enabled
  <2>1. p \in Candidates /\ p \notin Disabled
    BY DEF Active
  <2>2. ASSUME p \notin Enabled PROVE p \in Disabled
    BY <2>1, <2>2 DEF Disabled
  <2>. QED BY <2>1, <2>2
<1>5. ASSUME NEW p \in Active, NEW q \in Requires(p), q \in Discovered PROVE q \in Active
  <2>1. p \in Candidates /\ p \notin Disabled
    BY DEF Active
  <2>2. q \in Candidates
    BY <1>5, <2>1 DEF Candidates
  <2>3. ASSUME q \in Disabled PROVE p \in Disabled
    BY <2>1, <2>3 DEF Disabled
  <2>. QED BY <2>1, <2>2, <2>3 DEF Active
<1>6. ASSUME NEW p \in Active PROVE Requires(p) \subseteq Discovered \union loaded
  BY <1>4 DEF RequirementMissing, Active
<1>. QED BY <1>3, <1>4, <1>5, <1>6

-----------------------------------------------------------------------------
(* The stack of load_plugin's frames *)

LEMMA TopIsFrame ==
    ASSUME TypeOK, stack # <<>>
    PROVE  Top \in Frame /\ stack[1] \in Frame /\ Len(stack) \in Nat \ {0} /\ Pop \in Seq(Frame)
<1>1. stack \in Seq(Frame) /\ Len(stack) \in Nat \ {0}
  BY DEF TypeOK
<1>2. Top \in Frame /\ stack[1] \in Frame
  BY <1>1 DEF Top
<1>3. Pop \in Seq(Frame)
  BY <1>1 DEF Pop
<1>. QED BY <1>1, <1>2, <1>3

LEMMA PopOne == ASSUME TypeOK, stack # <<>>, Len(stack) = 1 PROVE Pop = <<>>
  BY DEF Pop, TypeOK

\* Returning from a call that another load_plugin made leaves its caller.
LEMMA PopKeepsFirst ==
    ASSUME TypeOK, stack # <<>>, Pop # <<>> PROVE Pop[1] = stack[1]
  BY DEF Pop, TypeOK

LEMMA FrameTypes ==
    ASSUME TypeOK, NEW p \in Plugin, NEW s \in 1..Sources
    PROVE  Called(p, s) \in Frame
  BY DEF Called, Frame

LEMMA ResolvingType ==
    ASSUME TypeOK, stack # <<>>, NEW todo \in SUBSET Plugin
    PROVE  Resolving(todo) \in Frame
  BY TopIsFrame DEF Resolving, Frame

LEMMA PassChecksStack ==
    ASSUME TypeOK, PassChecks
    PROVE  /\ stack # <<>> /\ stack' \in Seq(Frame) /\ stack' # <<>>
           /\ stack'[1].plugin = stack[1].plugin
           /\ Len(stack) = 1 => stack' = <<Resolving(Requires(stack[1].plugin))>>
<1>1. stack # <<>> /\ stack \in Seq(Frame) /\ Len(stack) \in Nat \ {0} /\ Pop \in Seq(Frame)
  BY TopIsFrame DEF PassChecks, At, TypeOK
<1>2. Requires(Top.plugin) \in SUBSET Plugin
  BY <1>1, TopIsFrame DEF Frame, Requires, TypeOK, CatalogueType
<1>3. Resolving(Requires(Top.plugin)) \in Frame
  BY <1>1, <1>2, ResolvingType
<1>4. stack' \in Seq(Frame) /\ stack' # <<>>
  BY <1>1, <1>3 DEF PassChecks
<1>5. CASE Len(stack) = 1
  <2>1. Pop = <<>> /\ Top = stack[1]
    BY <1>1, <1>5, PopOne DEF Top
  <2>2. stack' = <<Resolving(Requires(stack[1].plugin))>>
    BY <1>3, <2>1 DEF PassChecks
  <2>. QED BY <1>1, <1>4, <2>1, <2>2 DEF Resolving
<1>6. CASE Len(stack) # 1
  <2>1. Pop # <<>> /\ Len(Pop) \in Nat \ {0}
    <3>1. \A i \in 1..(Len(stack) - 1) : stack[i] \in Frame
      BY <1>1
    <3>2. Len(Pop) = IF 1 <= Len(stack) - 1 THEN (Len(stack) - 1) - 1 + 1 ELSE 0
      BY ONLY <1>1, <3>1, SubSeqProperties DEF Pop
    <3>3. Len(stack) \in Nat \ {0, 1}
      BY <1>1, <1>6
    <3>4. \A n \in Nat \ {0, 1} : (IF 1 <= n - 1 THEN (n - 1) - 1 + 1 ELSE 0) \in Nat \ {0}
      OBVIOUS
    <3>5. Len(Pop) \in Nat \ {0}
      BY ONLY <3>2, <3>3, <3>4, Zenon
    <3>. QED BY <3>5, EmptySeq
  <2>2. stack'[1] = Pop[1]
    BY <1>1, <1>3, <2>1 DEF PassChecks
  <2>. QED BY <1>1, <1>4, <1>6, <2>1, <2>2, PopKeepsFirst
<1>. QED BY <1>5, <1>6

LEMMA AutoLoadStack ==
    ASSUME TypeOK, AutoLoad
    PROVE  /\ stack # <<>> /\ stack' \in Seq(Frame) /\ stack' # <<>>
           /\ stack'[1].plugin = stack[1].plugin
<1>1. stack # <<>> /\ stack \in Seq(Frame) /\ Len(stack) \in Nat \ {0} /\ Pop \in Seq(Frame)
  BY TopIsFrame DEF AutoLoad, At, TypeOK
<1>2. PICK d \in Top.todo \ plugins :
        stack' = Pop \o <<Resolving(Top.todo \ {d}), Called(d, Top.source)>>
  BY DEF AutoLoad
<1>3. Top \in Frame /\ d \in Plugin /\ Top.source \in 1..Sources /\ Top.todo \ {d} \in SUBSET Plugin
  BY <1>1, TopIsFrame DEF Frame
<1>4. Resolving(Top.todo \ {d}) \in Frame /\ Called(d, Top.source) \in Frame
  BY <1>1, <1>3, ResolvingType, FrameTypes
<1>5. /\ stack' \in Seq(Frame) /\ stack' # <<>>
      /\ stack'[1] = IF Len(Pop) = 0 THEN Resolving(Top.todo \ {d}) ELSE Pop[1]
  BY <1>1, <1>2, <1>4
<1>6. stack'[1].plugin = stack[1].plugin
  <2>1. CASE Len(Pop) = 0
    BY <1>1, <1>5, <2>1 DEF Resolving, Top, Pop
  <2>2. CASE Len(Pop) # 0
    BY <1>1, <1>5, <2>2, PopKeepsFirst
  <2>. QED BY <2>1, <2>2
<1>. QED BY <1>1, <1>5, <1>6

-----------------------------------------------------------------------------
(* Type correctness *)

LEMMA NoFrames == <<>> \in Seq(Frame) /\ <<>> \in Seq(Plugin)
  OBVIOUS

LEMMA TypeInvInit == Init => TypeInv
<1>. SUFFICES ASSUME Init PROVE TypeInv
  OBVIOUS
<1>1. source \in 1..(Sources + 1) /\ cat \in CatalogueType
  BY DEF Init
<1>2. owner \in [Resource -> Plugin \union {Nobody}]
  BY DEF Init
<1>. QED BY <1>1, <1>2, NoFrames DEF Init, TypeInv, TypeOK, Shape

LEMMA RaiseTypes ==
    ASSUME TypeInv, Raise, stack # <<>>
    PROVE  /\ stack' \in Seq(Frame) /\ stack' = <<>>
           /\ failed' \in SUBSET visited
<1>1. stack' = <<>> /\ stack' \in Seq(Frame)
  BY NoFrames DEF Raise
<1>2. CASE phase = "boot"
  BY <1>1, <1>2 DEF TypeInv, TypeOK, Shape, Raise
<1>3. CASE phase # "boot"
  BY <1>1, <1>3 DEF TypeInv, TypeOK, Shape, Raise
<1>. QED BY <1>2, <1>3

LEMMA EnterTypes ==
    ASSUME TypeOK, stack # <<>>, Enter(Top.plugin)
    PROVE  /\ plugins' \in SUBSET Plugin
           /\ owner' \in [Resource -> Plugin \union {Nobody}]
           /\ Top.plugin \in Plugin
<1>1. Top.plugin \in Plugin
  BY TopIsFrame DEF Frame
<1>. QED BY <1>1 DEF Enter, TypeOK

LEMMA PopTypes ==
    ASSUME TypeInv, stack # <<>>, stack' = Pop, phase' = phase,
           planned' = planned, visited' = visited
    PROVE  /\ stack' \in Seq(Frame)
           /\ stack' # <<>> => phase' \in {"boot", "up"}
           /\ stack' # <<>> /\ phase' = "boot" => planned' /\ stack'[1].plugin \in visited'
  BY TopIsFrame, PopKeepsFirst DEF TypeInv, Shape

LEMMA SetupIsIdle == ASSUME TypeInv, SetupStep PROVE stack = <<>>
<1>1. CASE StartSetup
  <2>1. ~(source \in 1..Sources)
    BY <1>1 DEF StartSetup
  <2>. QED BY <1>1, <2>1 DEF StartSetup, TypeInv, Shape
<1>2. CASE RunSetup \/ Booted
  BY <1>2 DEF RunSetup, Booted, TypeInv, Shape
<1>. QED BY <1>1, <1>2 DEF SetupStep

LEMMA TypeInvNext == TypeInv /\ [Next]_vars => TypeInv'
<1>. SUFFICES ASSUME TypeInv, [Next]_vars PROVE TypeInv'
  OBVIOUS
<1>. USE DEF TypeInv, passVars, registryVars, setupVars
<1>1. ASSUME PassRefused \/ InstallFails PROVE TypeInv'
  BY <1>1 DEF PassRefused, InstallFails, Planning, TypeOK, Shape
<1>2. ASSUME PlanPass PROVE TypeInv'
  <2>1. Active \in SUBSET Plugin /\ source \in 1..Sources
    BY <1>2, ActiveIsClosed DEF PlanPass, Planning
  <2>. QED BY <1>2, <2>1 DEF PlanPass, Planning, TypeOK, Shape
<1>3. ASSUME SkipDependent PROVE TypeInv'
  BY <1>3 DEF SkipDependent, Visiting, Ready, TypeOK, Shape
<1>4. ASSUME StartLoad PROVE TypeInv'
  <2>1. PICK p \in active \ visited : visited' = visited \union {p} /\ stack' = <<Called(p, source)>>
    BY <1>4 DEF StartLoad, Ready
  <2>2. Called(p, source) \in Frame /\ Called(p, source).plugin = p
    BY <1>4, <2>1, FrameTypes DEF StartLoad, Visiting, TypeOK, Shape, Called
  <2>3. stack' \in Seq(Frame) /\ stack'[1].plugin = p
    BY <2>1, <2>2
  <2>. QED BY <1>4, <2>1, <2>3 DEF StartLoad, Visiting, TypeOK, Shape
<1>5. ASSUME EndPass PROVE TypeInv'
  <2>1. source' \in 1..(Sources + 1)
    BY <1>5 DEF EndPass, Visiting, Shape
  <2>2. loaded' \in SUBSET Plugin
    BY <1>5 DEF EndPass, TypeOK
  <2>. QED BY <1>5, <2>1, <2>2 DEF EndPass, Visiting, TypeOK, Shape
<1>6. ASSUME LoadFails PROVE TypeInv'
  BY <1>6, RaiseTypes DEF LoadFails, TypeOK, Shape
<1>7. ASSUME ReturnDisabled PROVE TypeInv'
  BY <1>7, PopTypes DEF ReturnDisabled, At, TypeOK, Shape
<1>8. ASSUME PassChecks PROVE TypeInv'
  BY <1>8, PassChecksStack DEF PassChecks, TypeOK, Shape
<1>9. ASSUME AutoLoad PROVE TypeInv'
  BY <1>9, AutoLoadStack DEF AutoLoad, TypeOK, Shape
<1>10. ASSUME Register PROVE TypeInv'
  <2>1. stack # <<>> /\ Enter(Top.plugin) /\ Top.plugin \in Plugin
    BY <1>10, EnterTypes DEF Register, RequirementsMet, At
  <2>2. configured' \in SUBSET plugins'
    BY <1>10, <2>1 DEF Register, Enter, TypeOK
  <2>3. deferred' \in Seq(Plugin) /\ ready' \in SUBSET Plugin
    <3>1. CASE phase = "boot"
      <4>1. deferred' = Append(deferred, Top.plugin) /\ ready' = ready
        BY <1>10, <3>1 DEF Register
      <4>. QED BY <2>1, <4>1 DEF TypeOK
    <3>2. CASE phase # "boot"
      BY <1>10, <2>1, <3>2 DEF Register, TypeOK
    <3>. QED BY <3>1, <3>2
  <2>. QED BY <1>10, <2>1, <2>2, <2>3, EnterTypes, PopTypes DEF Register, TypeOK, Shape
<1>11. ASSUME ConfigureFails PROVE TypeInv'
  <2>1. stack # <<>> /\ Enter(Top.plugin) /\ configured' \in SUBSET plugins'
    BY <1>11 DEF ConfigureFails, RequirementsMet, At, Enter, TypeOK
  <2>. QED BY <1>11, <2>1, EnterTypes, RaiseTypes DEF ConfigureFails, TypeOK, Shape
<1>12. ASSUME SetupFails PROVE TypeInv'
  <2>1. stack # <<>> /\ Enter(Top.plugin) /\ Top.plugin \in Plugin
    BY <1>12, EnterTypes DEF SetupFails, RequirementsMet, At
  <2>2. configured' \in SUBSET plugins' /\ ready' \in SUBSET Plugin
    BY <1>12, <2>1 DEF SetupFails, Enter, TypeOK
  <2>. QED BY <1>12, <2>1, <2>2, EnterTypes, RaiseTypes DEF SetupFails, TypeOK, Shape
<1>13. ASSUME StartSetup PROVE TypeInv'
  <2>1. stack = <<>>
    BY <1>13, SetupIsIdle DEF SetupStep
  <2>. QED BY <1>13, <2>1 DEF StartSetup, TypeOK, Shape
<1>21. ASSUME Booted PROVE TypeInv'
  BY <1>21 DEF Booted, TypeOK, Shape
<1>14. ASSUME RunSetup PROVE TypeInv'
  <2>1. Head(deferred) \in Plugin /\ Tail(deferred) \in Seq(Plugin)
    BY <1>14 DEF RunSetup, TypeOK
  <2>. QED BY <1>14, <2>1 DEF RunSetup, TypeOK, Shape
<1>15. ASSUME NEW p \in Plugin, NEW s \in 1..Sources, DirectLoad(p, s) PROVE TypeInv'
  <2>1. stack' \in Seq(Frame)
    BY <1>15, FrameTypes DEF DirectLoad
  <2>. QED BY <1>15, <2>1 DEF DirectLoad, TypeOK, Shape
<1>16. ASSUME NEW p \in Plugin, Unload(p) PROVE TypeInv'
  BY <1>16 DEF Unload, TypeOK, Shape
<1>17. ASSUME NEW p \in Plugin, NEW on \in BOOLEAN, SetEnabled(p, on) PROVE TypeInv'
  <2>1. 1 \in 1..Sources
    OBVIOUS
  <2>2. cat' \in CatalogueType
    BY <1>17, <2>1 DEF SetEnabled, TypeOK, CatalogueType
  <2>. QED BY <1>17, <2>2 DEF SetEnabled, TypeOK, Shape
<1>18. ASSUME Start PROVE TypeInv'
  BY <1>18 DEF Start, TypeOK, Shape
<1>19. ASSUME Stop PROVE TypeInv'
  <2>1. source' \in 1..(Sources + 1)
    BY <1>19 DEF Stop
  <2>2. owner' \in [Resource -> Plugin \union {Nobody}]
    BY <1>19 DEF Stop
  <2>. QED BY <1>19, <2>1, <2>2, NoFrames DEF Stop, TypeOK, Shape
<1>20. CASE UNCHANGED vars
  BY <1>20 DEF vars, TypeOK, Shape
<1>. QED
  BY <1>1, <1>2, <1>3, <1>4, <1>5, <1>6, <1>7, <1>8, <1>9, <1>10, <1>11, <1>12, <1>13, <1>14,
     <1>15, <1>16, <1>17, <1>18, <1>19, <1>20, <1>21
  DEF Next, PassStep, LoadStep, SetupStep, Operate

\* What the loader remembers has its type in every state, for any plugins and
\* sources; plugins are configured only once registered, and a pass only fails
\* plugins it has visited.
THEOREM TypeCorrect == Spec => []TypeOK
  BY TypeInvInit, TypeInvNext, PTL DEF Spec, TypeInv

-----------------------------------------------------------------------------
(* Requirements come first *)

\* A frame of the boot is the only one.
LEMMA BootFrame ==
    ASSUME TypeInv, BootInv, phase = "boot", stack # <<>>
    PROVE  /\ Top = stack[1] /\ Pop = <<>> /\ Busy = {Top.plugin}
           /\ Top.plugin \in active /\ Top.plugin \in visited
           /\ Top.source = source
           /\ Top.plugin \in cat.enabled[Top.source]
           /\ Requires(Top.plugin) \subseteq configured
           /\ Top.todo \subseteq plugins
<1>1. Len(stack) = 1 /\ Top = stack[1] /\ Busy = {Top.plugin}
  BY DEF BootInv, Top, Busy
<1>2. Pop = <<>>
  BY <1>1, PopOne DEF TypeInv
<1>3. Top.plugin \in visited /\ Top.plugin \in active /\ Top.source = source
  BY <1>1 DEF TypeInv, TypeOK, Shape, BootInv
<1>4. Top.plugin \in cat.enabled[Top.source]
  BY <1>3 DEF BootInv, Enabled
<1>5. Requires(Top.plugin) \subseteq configured /\ Top.todo \subseteq plugins
  BY <1>1 DEF BootInv, TypeInv, TypeOK
<1>. QED BY <1>1, <1>2, <1>3, <1>4, <1>5

LEMMA BootInvInit == Init => BootInv
  BY DEF Init, BootInv

LEMMA BootInvNext == TypeInv /\ BootInv /\ [Next]_vars => BootInv'
<1>. SUFFICES ASSUME TypeInv, BootInv, [Next]_vars PROVE BootInv'
  OBVIOUS
<1>. USE DEF passVars, registryVars, setupVars
<1>1. ASSUME phase' \notin {"down", "boot"} PROVE BootInv'
  BY <1>1 DEF BootInv
<1>2. ASSUME PlanPass PROVE BootInv'
  <2>1. \A p \in active' : p \in Enabled' /\ Requires(p)' \subseteq active' \union loaded'
    BY <1>2, ActiveIsClosed DEF PlanPass, TypeInv, Enabled, Requires
  <2>2. stack = <<>> /\ visited' = {}
    BY <1>2 DEF PlanPass, Planning, TypeInv, Shape
  <2>. QED BY <1>2, <2>1, <2>2 DEF PlanPass, Planning, BootInv
<1>3. ASSUME SkipDependent PROVE BootInv'
  <2>1. visited' \ failed' \subseteq visited \ failed
    BY <1>3 DEF SkipDependent
  <2>. QED BY <1>3, <2>1 DEF SkipDependent, Visiting, BootInv, Busy, Enabled, Requires
<1>4. ASSUME StartLoad PROVE BootInv'
  <2>1. PICK p \in Ready :
          /\ Requires(p) \intersect failed = {}
          /\ visited' = visited \union {p} /\ stack' = <<Called(p, source)>>
    BY <1>4 DEF StartLoad
  <2>2. Requires(p) \subseteq configured
    BY <1>4, <2>1 DEF StartLoad, Visiting, BootInv, Busy, Ready
  <2>3. /\ stack' # <<>> /\ Len(stack') = 1
        /\ stack'[1].plugin = p /\ stack'[1].source = source /\ stack'[1].todo = {}
    BY <2>1 DEF Called
  <2>4. visited' \ failed' \subseteq configured' \union Busy'
    BY <1>4, <2>1, <2>3 DEF StartLoad, Visiting, BootInv, Busy
  <2>. QED BY <1>4, <2>2, <2>3, <2>4 DEF StartLoad, Visiting, BootInv, Enabled, Requires
<1>5. ASSUME EndPass PROVE BootInv'
  <2>1. loaded' \subseteq configured'
    BY <1>5 DEF EndPass, Visiting, BootInv, Busy
  <2>. QED BY <1>5, <2>1 DEF EndPass, Visiting, BootInv
<1>6. ASSUME LoadFails \/ ConfigureFails, phase = "boot" PROVE BootInv'
  <2>1. stack # <<>> /\ Raise
    BY <1>6 DEF LoadFails, ConfigureFails, RequirementsMet, At
  <2>2. stack' = <<>> /\ failed' = failed \union {Top.plugin}
    BY <1>6, <2>1, BootFrame DEF Raise
  <2>3. visited' \ failed' \subseteq configured'
    BY <1>6, <2>1, <2>2, BootFrame DEF BootInv, LoadFails, ConfigureFails
  <2>. QED BY <1>6, <2>2, <2>3 DEF BootInv, LoadFails, ConfigureFails, Enabled, Requires
<1>7. ASSUME ReturnDisabled \/ AutoLoad, phase = "boot" PROVE FALSE
  <2>1. stack # <<>>
    BY <1>7 DEF ReturnDisabled, AutoLoad, At
  <2>2. ~ReturnDisabled
    BY <1>7, <2>1, BootFrame DEF ReturnDisabled
  <2>3. ~AutoLoad
    BY <1>7, <2>1, BootFrame DEF AutoLoad
  <2>. QED BY <1>7, <2>2, <2>3
<1>8. ASSUME PassChecks, phase = "boot" PROVE BootInv'
  <2>1. stack # <<>> /\ stack' = <<Resolving(Requires(stack[1].plugin))>>
    BY <1>8, PassChecksStack DEF TypeInv, BootInv
  <2>2. Top = stack[1] /\ Top.source = source
    BY <1>8, <2>1, BootFrame
  <2>3. /\ stack' # <<>> /\ Len(stack') = 1
        /\ stack'[1].plugin = stack[1].plugin /\ stack'[1].source = source
        /\ stack'[1].todo = Requires(stack[1].plugin)
    BY <2>1, <2>2 DEF Resolving
  <2>. QED BY <1>8, <2>1, <2>3 DEF PassChecks, BootInv, Busy, Enabled, Requires
<1>9. ASSUME Register, phase = "boot" PROVE BootInv'
  <2>1. stack # <<>> /\ stack' = <<>>
    BY <1>9, BootFrame DEF Register, RequirementsMet, At
  <2>2. visited' \ failed' \subseteq configured'
    BY <1>9, <2>1, BootFrame DEF Register, BootInv
  <2>. QED BY <1>9, <2>1, <2>2 DEF Register, BootInv, Enabled, Requires
<1>10. ASSUME NEW p \in Plugin, NEW on \in BOOLEAN, SetEnabled(p, on) PROVE BootInv'
  BY <1>10 DEF SetEnabled, BootInv
<1>11. ASSUME Start PROVE BootInv'
  <2>1. active = {} /\ visited = {} /\ stack = <<>> /\ loaded = {}
    BY <1>11 DEF Start, TypeInv, TypeOK, Shape, BootInv
  <2>. QED BY <1>11, <2>1 DEF Start, BootInv
<1>12. ASSUME Stop PROVE BootInv'
  BY <1>12 DEF Stop, BootInv
<1>13. CASE UNCHANGED vars
  BY <1>13 DEF vars, BootInv, Busy, Enabled, Requires
<1>14. ASSUME LoadStep PROVE BootInv'
  <2>1. phase' = phase /\ phase \in {"boot", "up"}
    BY <1>14 DEF LoadStep, LoadFails, ReturnDisabled, PassChecks, AutoLoad, Register, ConfigureFails,
                 SetupFails, RequirementsMet, At, TypeInv, Shape
  <2>2. CASE phase = "up"
    BY <1>1, <2>1, <2>2
  <2>3. CASE phase = "boot"
    BY <1>6, <1>7, <1>8, <1>9, <1>14, <2>3 DEF LoadStep, SetupFails
  <2>. QED BY <2>1, <2>2, <2>3
<1>15. ASSUME PassStep PROVE BootInv'
  BY <1>1, <1>2, <1>3, <1>4, <1>5, <1>15 DEF PassStep, PassRefused, InstallFails
<1>16. ASSUME SetupStep PROVE BootInv'
  BY <1>1, <1>16 DEF SetupStep, StartSetup, RunSetup, Booted
<1>17. ASSUME Operate PROVE BootInv'
  BY <1>1, <1>10, <1>11, <1>12, <1>17 DEF Operate, DirectLoad, Unload
<1>. QED BY <1>13, <1>14, <1>15, <1>16, <1>17 DEF Next

\* During the boot a plugin is configured only after everything it requires,
\* for any plugins, sources and failures.
THEOREM BootOrder == Spec => RequirementsFirst
<1>1. ASSUME TypeInv, BootInv, [Next]_vars,
             NEW p \in configured' \ configured, phase = "boot"
      PROVE  Requires(p) \subseteq configured
  <2>1. Register
    BY <1>1 DEF Next, PassStep, LoadStep, SetupStep, Operate, vars, PassRefused, InstallFails, PlanPass,
         SkipDependent, StartLoad, EndPass, LoadFails, ReturnDisabled, PassChecks, AutoLoad, ConfigureFails,
         SetupFails, StartSetup, RunSetup, Booted, DirectLoad, Unload, SetEnabled, Start, Stop, registryVars
  <2>2. stack # <<>> /\ p = Top.plugin
    BY <1>1, <2>1 DEF Register, RequirementsMet, At
  <2>. QED BY <1>1, <2>2, BootFrame
<1>2. TypeInv /\ BootInv /\ [Next]_vars =>
        [\A p \in configured' \ configured : phase = "boot" => Requires(p) \subseteq configured]_vars
  BY <1>1
<1>. QED
  BY <1>2, TypeInvInit, TypeInvNext, BootInvInit, BootInvNext, PTL DEF Spec, RequirementsFirst

-----------------------------------------------------------------------------
(* The registries *)

LEMMA RegistryInvInit == Init => RegistryInv
  BY DEF Init, RegistryInv, RegistryMatches, ClaimsHaveOwners, ClaimsAreExclusive

\* Registering a plugin keeps the registries sound, if until the first direct
\* load its claims are free.
LEMMA EnterKeepsRegistry ==
    ASSUME TypeInv, RegistryMatches, NEW p \in Plugin, Enter(p), UNCHANGED <<cat, direct>>,
           ~direct => Unclaimed(p)
    PROVE  RegistryMatches'
<1>1. ClaimsHaveOwners'
  BY DEF Enter, RegistryMatches, ClaimsHaveOwners, TypeInv, TypeOK
<1>2. ClaimsAreExclusive'
  <2>. SUFFICES ASSUME ~direct, NEW q \in plugins', NEW r \in cat.claims[q] PROVE owner'[r] = q
    BY DEF ClaimsAreExclusive
  <2>1. r \in Resource
    BY DEF TypeInv, TypeOK, CatalogueType, Enter
  <2>2. CASE q = p
    BY <2>1, <2>2 DEF Enter
  <2>3. CASE q # p
    <3>1. q \in plugins /\ owner[r] = q
      BY <2>3 DEF Enter, RegistryMatches, ClaimsAreExclusive
    <3>2. q # Nobody
      BY <3>1 DEF TypeInv, TypeOK
    <3>3. r \notin cat.claims[p]
      BY <3>1, <3>2 DEF Unclaimed
    <3>. QED BY <2>1, <3>1, <3>3 DEF Enter
  <2>. QED BY <2>2, <2>3
<1>. QED BY <1>1, <1>2 DEF RegistryMatches

RegistersNothing ==
    plugins' = plugins /\ owner' = owner /\ direct' = direct /\ cat'.claims = cat.claims

LEMMA RegistryInvNext == TypeInv /\ BootInv /\ RegistryInv /\ [Next]_vars => RegistryInv'
<1>. SUFFICES ASSUME TypeInv, BootInv, RegistryInv, [Next]_vars PROVE RegistryInv'
  OBVIOUS
<1>. USE DEF passVars, registryVars, setupVars, RegistersNothing
<1>1. ASSUME RegistersNothing PROVE RegistryMatches'
  BY <1>1 DEF RegistryInv, RegistryMatches, ClaimsHaveOwners, ClaimsAreExclusive
<1>2. ASSUME RegistersNothing, stack' = <<>> PROVE RegistryInv'
  BY <1>1, <1>2 DEF RegistryInv
<1>19. ASSUME RegistersNothing, stack' = stack, phase' = phase PROVE RegistryInv'
  BY <1>1, <1>19 DEF RegistryInv, Unclaimed
<1>3. ASSUME RegistersNothing, direct PROVE RegistryInv'
  BY <1>1, <1>3 DEF RegistryInv
<1>4. ASSUME PassStep, ~StartLoad PROVE RegistryInv'
  <2>1. RegistersNothing /\ stack' = stack
    BY <1>4 DEF PassStep, PassRefused, InstallFails, PlanPass, SkipDependent, EndPass
  <2>2. stack = <<>>
    BY <1>4 DEF PassStep, PassRefused, InstallFails, PlanPass, SkipDependent, EndPass, Planning, Visiting,
                TypeInv, Shape
  <2>3. stack' = <<>>
    BY <2>1, <2>2
  <2>. QED BY <1>2, <2>1, <2>3
<1>5. ASSUME StartLoad PROVE RegistryInv'
  <2>1. phase' = "boot" /\ stack'[1].step = "check"
    BY <1>5 DEF StartLoad, Visiting, Called
  <2>. QED BY <1>1, <1>5, <2>1 DEF StartLoad, RegistryInv
<1>6. ASSUME stack # <<>>, RequirementsMet, Enter(Top.plugin), UNCHANGED <<cat, direct, phase>>
      PROVE  RegistryMatches'
  <2>1. Top.plugin \in Plugin
    BY <1>6, TopIsFrame DEF TypeInv, Frame
  <2>2. ASSUME ~direct PROVE Unclaimed(Top.plugin)
    <3>1. Top = stack[1]
      BY <1>6, <2>2, BootFrame DEF RegistryInv
    <3>. QED BY <1>6, <2>2, <3>1 DEF RegistryInv, RequirementsMet, At
  <2>. QED BY <1>6, <2>1, <2>2, EnterKeepsRegistry DEF RegistryInv
<1>7. ASSUME LoadFails PROVE RegistryInv'
  BY <1>2, <1>7 DEF LoadFails, Raise
<1>8. ASSUME ReturnDisabled \/ AutoLoad PROVE RegistryInv'
  <2>1. stack # <<>> /\ RegistersNothing /\ cat' = cat /\ owner' = owner /\ phase' = phase
    BY <1>8 DEF ReturnDisabled, AutoLoad, At
  <2>2. CASE direct
    BY <1>3, <2>1, <2>2
  <2>3. CASE ~direct
    <3>1. phase = "boot"
      BY <2>1, <2>3 DEF RegistryInv
    <3>2. ~ReturnDisabled /\ ~AutoLoad
      BY <2>1, <3>1, BootFrame DEF ReturnDisabled, AutoLoad
    <3>. QED BY <1>8, <3>2
  <2>. QED BY <2>2, <2>3
<1>9. ASSUME PassChecks PROVE RegistryInv'
  <2>1. stack # <<>> /\ RegistersNothing /\ cat' = cat /\ owner' = owner /\ phase' = phase
    BY <1>9 DEF PassChecks, At
  <2>2. CASE direct
    BY <1>3, <2>1, <2>2
  <2>3. CASE ~direct
    <3>1. phase = "boot"
      BY <2>1, <2>3 DEF RegistryInv
    <3>2. Top = stack[1] /\ stack'[1].plugin = stack[1].plugin
      BY <1>9, <2>1, <3>1, BootFrame, PassChecksStack DEF TypeInv
    <3>3. Unclaimed(stack[1].plugin)'
      BY <1>9, <2>1, <3>2 DEF PassChecks, Unclaimed
    <3>4. RegistryMatches' /\ phase' = "boot"
      BY <1>1, <2>1, <3>1
    <3>. QED BY <3>3, <3>4 DEF RegistryInv
  <2>. QED BY <2>2, <2>3
<1>10. ASSUME Register PROVE RegistryInv'
  <2>1. stack # <<>> /\ RegistryMatches'
    BY <1>6, <1>10 DEF Register, RequirementsMet, At
  <2>2. ASSUME ~direct PROVE stack' = <<>>
    BY <1>10, <2>1, <2>2, BootFrame DEF Register, RegistryInv
  <2>. QED BY <1>10, <2>1, <2>2 DEF Register, RegistryInv
<1>11. ASSUME ConfigureFails \/ SetupFails PROVE RegistryInv'
  <2>1. RegistryMatches' /\ stack' = <<>>
    BY <1>6, <1>11 DEF ConfigureFails, SetupFails, RequirementsMet, At, Raise
  <2>. QED BY <2>1 DEF RegistryInv
<1>12. ASSUME SetupStep PROVE RegistryInv'
  <2>1. stack = <<>>
    BY <1>12, SetupIsIdle
  <2>2. RegistersNothing /\ stack' = stack
    BY <1>12 DEF SetupStep, StartSetup, RunSetup, Booted
  <2>3. stack' = <<>>
    BY <2>1, <2>2
  <2>. QED BY <1>2, <2>2, <2>3
<1>13. ASSUME NEW p \in Plugin, NEW s \in 1..Sources, DirectLoad(p, s) PROVE RegistryInv'
  BY <1>13 DEF DirectLoad, RegistryInv, RegistryMatches, ClaimsHaveOwners, ClaimsAreExclusive
<1>14. ASSUME NEW p \in Plugin, Unload(p) PROVE RegistryInv'
  <2>1. ClaimsHaveOwners'
    BY <1>14 DEF Unload, RegistryInv, RegistryMatches, ClaimsHaveOwners, TypeInv, TypeOK
  <2>. QED BY <1>14, <2>1 DEF Unload, RegistryInv, RegistryMatches, ClaimsAreExclusive
<1>15. ASSUME NEW p \in Plugin, NEW on \in BOOLEAN, SetEnabled(p, on) PROVE RegistryInv'
  <2>1. cat'.claims = cat.claims
    BY <1>15 DEF SetEnabled, TypeInv, TypeOK, CatalogueType
  <2>. QED BY <1>15, <1>19, <2>1 DEF SetEnabled
<1>16. ASSUME Start PROVE RegistryInv'
  <2>1. stack = <<>>
    BY <1>16 DEF Start, TypeInv, Shape
  <2>2. RegistersNothing /\ stack' = <<>>
    BY <1>16, <2>1 DEF Start
  <2>. QED BY <1>2, <2>2
<1>17. ASSUME Stop PROVE RegistryInv'
  BY <1>17 DEF Stop, RegistryInv, RegistryMatches, ClaimsHaveOwners, ClaimsAreExclusive
<1>18. CASE UNCHANGED vars
  BY <1>18, <1>19 DEF vars
<1>. QED
  BY <1>4, <1>5, <1>7, <1>8, <1>9, <1>10, <1>11, <1>12, <1>13, <1>14, <1>15, <1>16, <1>17, <1>18
  DEF Next, LoadStep, Operate

\* For any plugins: a claim belongs to a loaded plugin that makes it, and until
\* load_plugin is called directly no two loaded plugins make the same claim.
THEOREM RegistrySafety == Spec => []RegistryMatches
<1>1. RegistryInv => RegistryMatches
  BY DEF RegistryInv
<1>. QED
  BY <1>1, TypeInvInit, TypeInvNext, BootInvInit, BootInvNext, RegistryInvInit, RegistryInvNext, PTL
  DEF Spec

-----------------------------------------------------------------------------
(* The deferred setups *)

LEMMA SetupInvInit == Init => SetupInv
  BY DEF Init, SetupInv

\* The plugin whose turn it is leaves the queue and is set up.
LEMMA HeadLeavesWaiting ==
    ASSUME TypeInv, RunSetup
    PROVE  /\ Len(deferred) \in Nat \ {0} /\ Len(deferred') = Len(deferred) - 1
           /\ ready' = ready \union {deferred[1]}
           /\ \A i \in 1..Len(deferred') : deferred'[i] = deferred[i + 1]
           /\ Waiting = {deferred[1]} \union Waiting'
<1>1. deferred \in Seq(Plugin) /\ deferred # <<>> /\ deferred' = Tail(deferred)
  BY DEF RunSetup, TypeInv, TypeOK
<1>2. Len(deferred) \in Nat \ {0} /\ Len(deferred') = Len(deferred) - 1
  BY <1>1
<1>3. ready' = ready \union {deferred[1]}
  BY <1>1 DEF RunSetup
<1>4. \A i \in 1..Len(deferred') : deferred'[i] = deferred[i + 1]
  BY <1>1, <1>2
<1>5. Waiting = {deferred[1]} \union Waiting'
  <2>1. ASSUME NEW i \in 1..Len(deferred) PROVE deferred[i] \in {deferred[1]} \union Waiting'
    <3>1. CASE i = 1
      BY <3>1
    <3>2. CASE i # 1
      <4>1. i - 1 \in 1..Len(deferred') /\ (i - 1) + 1 = i
        BY <1>2, <2>1, <3>2
      <4>2. deferred'[i - 1] = deferred[i]
        BY <1>4, <4>1
      <4>. QED BY <4>1, <4>2 DEF Waiting
    <3>. QED BY <3>1, <3>2
  <2>2. ASSUME NEW i \in 1..Len(deferred') PROVE deferred'[i] \in Waiting
    <3>1. i + 1 \in 1..Len(deferred)
      BY <1>2, <2>2
    <3>. QED BY <1>4, <2>2, <3>1 DEF Waiting
  <2>3. deferred[1] \in Waiting
    BY <1>2 DEF Waiting
  <2>. QED BY <2>1, <2>2, <2>3 DEF Waiting
<1>. QED BY <1>2, <1>3, <1>4, <1>5

SetsUpNothing ==
    configured' = configured /\ ready' = ready /\ deferred' = deferred /\ cat' = cat

LEMMA SetupInvNext == TypeInv /\ BootInv /\ SetupInv /\ [Next]_vars => SetupInv'
<1>. SUFFICES ASSUME TypeInv, BootInv, SetupInv, [Next]_vars PROVE SetupInv'
  OBVIOUS
<1>. USE DEF passVars, registryVars, setupVars
<1>1. ASSUME SetsUpNothing, phase' = phase \/ (phase = "down" /\ phase' = "boot")
                                          \/ (phase = "boot" /\ phase' = "setup")
      PROVE  SetupInv'
  <2>1. Waiting' = Waiting
    BY <1>1 DEF SetsUpNothing, Waiting
  <2>2. CASE phase' = phase
    BY <1>1, <2>1, <2>2 DEF SetsUpNothing, SetupInv, Requires
  <2>3. CASE phase = "down" /\ phase' = "boot"
    BY <1>1, <2>1, <2>3 DEF SetsUpNothing, SetupInv, Waiting
  <2>4. CASE phase = "boot" /\ phase' = "setup"
    BY <1>1, <2>1, <2>4 DEF SetsUpNothing, SetupInv, Requires
  <2>. QED BY <1>1, <2>2, <2>3, <2>4
<1>2. ASSUME PassStep PROVE SetupInv'
  <2>1. CASE PassRefused \/ InstallFails
    BY <2>1 DEF PassRefused, InstallFails, SetupInv
  <2>2. CASE ~(PassRefused \/ InstallFails)
    <3>1. SetsUpNothing /\ phase' = phase
      BY <1>2, <2>2 DEF PassStep, PlanPass, SkipDependent, StartLoad, EndPass, SetsUpNothing
    <3>. QED BY <1>1, <3>1
  <2>. QED BY <2>1, <2>2
<1>3. ASSUME Register, phase = "boot" PROVE SetupInv'
  <2>1. stack # <<>> /\ Requires(Top.plugin) \subseteq configured
    BY <1>3, BootFrame DEF Register, RequirementsMet, At
  <2>2. /\ Top.plugin \in Plugin /\ deferred' = Append(deferred, Top.plugin)
        /\ configured' = configured \union {Top.plugin} /\ ready' = ready
        /\ phase' = phase /\ cat' = cat
    BY <1>3, <2>1, TopIsFrame DEF Register, Frame, TypeInv
  <2>3. /\ Len(deferred) \in Nat /\ Len(deferred') = Len(deferred) + 1
        /\ \A i \in 1..Len(deferred) : deferred'[i] = deferred[i]
        /\ deferred'[Len(deferred) + 1] = Top.plugin
    BY <2>2 DEF TypeInv, TypeOK
  <2>4. Waiting' = Waiting \union {Top.plugin}
    BY <2>3 DEF Waiting
  <2>5. ASSUME NEW i \in 1..Len(deferred')
        PROVE  Requires(deferred'[i]) \subseteq ready \union {deferred'[j] : j \in 1..(i - 1)}
    <3>1. CASE i \in 1..Len(deferred)
      <4>1. {deferred'[j] : j \in 1..(i - 1)} = {deferred[j] : j \in 1..(i - 1)}
        BY <2>3, <3>1
      <4>. QED BY <1>3, <2>3, <3>1, <4>1 DEF SetupInv
    <3>2. CASE i \notin 1..Len(deferred)
      <4>1. i = Len(deferred) + 1
        BY <2>3, <2>5, <3>2
      <4>2. {deferred'[j] : j \in 1..(i - 1)} = Waiting
        BY <2>3, <4>1 DEF Waiting
      <4>. QED BY <1>3, <2>1, <2>3, <4>1, <4>2 DEF SetupInv
    <3>. QED BY <3>1, <3>2
  <2>. QED BY <1>3, <2>2, <2>4, <2>5 DEF SetupInv, Requires
<1>4. ASSUME Register \/ SetupFails, phase = "up" PROVE SetupInv'
  BY <1>4 DEF Register, SetupFails, SetupInv
<1>5. ASSUME LoadStep, ~Register, ~SetupFails PROVE SetupInv'
  <2>1. SetsUpNothing /\ phase' = phase
    BY <1>5 DEF LoadStep, LoadFails, ReturnDisabled, PassChecks, AutoLoad, ConfigureFails, SetsUpNothing
  <2>. QED BY <1>1, <2>1
<1>6. ASSUME LoadStep PROVE SetupInv'
  <2>1. ASSUME Register \/ SetupFails PROVE phase \in {"boot", "up"}
    BY <2>1 DEF Register, SetupFails, RequirementsMet, At, TypeInv, Shape
  <2>. QED BY <1>3, <1>4, <1>5, <1>6, <2>1 DEF SetupFails
<1>7. ASSUME RunSetup PROVE SetupInv'
  <2>1. phase = "setup" /\ phase' = "setup" /\ configured' = configured /\ cat' = cat
    BY <1>7 DEF RunSetup
  <2>2. configured' = ready' \union Waiting'
    BY <1>7, <2>1, HeadLeavesWaiting DEF SetupInv
  <2>3. ASSUME NEW i \in 1..Len(deferred')
        PROVE  Requires(deferred'[i]) \subseteq ready' \union {deferred'[j] : j \in 1..(i - 1)}
    <3>1. i + 1 \in 1..Len(deferred) /\ deferred'[i] = deferred[i + 1] /\ (i + 1) - 1 = i
      BY <1>7, <2>3, HeadLeavesWaiting
    <3>2. Requires(deferred'[i]) \subseteq ready \union {deferred[j] : j \in 1..i}
      BY <2>1, <3>1 DEF SetupInv
    <3>3. ASSUME NEW j \in 1..i PROVE deferred[j] \in ready' \union {deferred'[k] : k \in 1..(i - 1)}
      <4>1. CASE j = 1
        BY <1>7, <4>1, HeadLeavesWaiting
      <4>2. CASE j # 1
        <5>1. j - 1 \in 1..(i - 1) /\ j - 1 \in 1..Len(deferred') /\ (j - 1) + 1 = j
          BY <1>7, <2>3, <3>3, <4>2, HeadLeavesWaiting
        <5>2. deferred'[j - 1] = deferred[j]
          BY <1>7, <5>1, HeadLeavesWaiting
        <5>. QED BY <5>1, <5>2
      <4>. QED BY <4>1, <4>2
    <3>4. ready \subseteq ready'
      BY <1>7, HeadLeavesWaiting
    <3>. QED BY <3>2, <3>3, <3>4
  <2>. QED BY <2>1, <2>2, <2>3 DEF SetupInv, Requires
<1>8. ASSUME StartSetup PROVE SetupInv'
  <2>1. SetsUpNothing /\ phase = "boot" /\ phase' = "setup"
    BY <1>8 DEF StartSetup, SetsUpNothing
  <2>. QED BY <1>1, <2>1
<1>9. ASSUME Booted PROVE SetupInv'
  <2>1. Waiting = {}
    BY <1>9 DEF Booted, Waiting
  <2>. QED BY <1>9, <2>1 DEF Booted, SetupInv
<1>10. ASSUME NEW p \in Plugin, NEW s \in 1..Sources, DirectLoad(p, s) PROVE SetupInv'
  BY <1>10 DEF DirectLoad, SetupInv
<1>11. ASSUME NEW p \in Plugin, Unload(p) PROVE SetupInv'
  BY <1>11 DEF Unload, SetupInv
<1>12. ASSUME NEW p \in Plugin, NEW on \in BOOLEAN, SetEnabled(p, on) PROVE SetupInv'
  BY <1>12 DEF SetEnabled, SetupInv
<1>13. ASSUME Start PROVE SetupInv'
  <2>1. SetsUpNothing /\ phase = "down" /\ phase' = "boot"
    BY <1>13 DEF Start, SetsUpNothing
  <2>. QED BY <1>1, <2>1
<1>14. ASSUME Stop PROVE SetupInv'
  BY <1>14 DEF Stop, SetupInv
<1>15. CASE UNCHANGED vars
  <2>1. SetsUpNothing /\ phase' = phase
    BY <1>15 DEF vars, SetsUpNothing
  <2>. QED BY <1>1, <2>1
<1>. QED
  BY <1>2, <1>6, <1>7, <1>8, <1>9, <1>10, <1>11, <1>12, <1>13, <1>14, <1>15
  DEF Next, SetupStep, Operate

\* For any plugins: whatever failed on the way, every loaded plugin whose
\* routes a booted server answers has been set up.
THEOREM RoutedSafety == Spec => []RoutedIsSetUp
<1>1. SetupInv => RoutedIsSetUp
  BY DEF SetupInv, RoutedIsSetUp
<1>. QED
  BY <1>1, TypeInvInit, TypeInvNext, BootInvInit, BootInvNext, SetupInvInit, SetupInvNext, PTL DEF Spec

\* For any plugins and sources: finished() sets a plugin up after all it requires.
THEOREM SetupsInOrder == Spec => SetupOrder
<1>1. ASSUME TypeInv, SetupInv, [Next]_vars, NEW p \in ready' \ ready, phase = "setup"
      PROVE  Requires(p) \subseteq ready
  <2>1. stack = <<>>
    BY <1>1 DEF TypeInv, Shape
  <2>2. RunSetup
    BY <1>1, <2>1 DEF Next, PassStep, LoadStep, SetupStep, Operate, vars, PassRefused, InstallFails, PlanPass,
         SkipDependent, StartLoad, EndPass, LoadFails, ReturnDisabled, PassChecks, AutoLoad, Register,
         ConfigureFails, SetupFails, StartSetup, Booted, DirectLoad, Unload, SetEnabled, Start, Stop,
         RequirementsMet, At, setupVars
  <2>3. p = deferred[1] /\ 1 \in 1..Len(deferred) /\ 1..(1 - 1) = {}
    BY <1>1, <2>2, HeadLeavesWaiting
  <2>. QED BY <1>1, <2>3 DEF SetupInv
<1>2. TypeInv /\ SetupInv /\ [Next]_vars =>
        [\A p \in ready' \ ready : phase = "setup" => Requires(p) \subseteq ready]_vars
  BY <1>1
<1>. QED
  BY <1>2, TypeInvInit, TypeInvNext, BootInvInit, BootInvNext, SetupInvInit, SetupInvNext, PTL
  DEF Spec, SetupOrder

-----------------------------------------------------------------------------
(* What the sort returns: Kahn's algorithm on any finite set of plugins. *)

LEMMA LeastNumber ==
    ASSUME NEW S \in SUBSET Nat, S # {} PROVE \E m \in S : \A n \in S : m <= n
<1>. DEFINE R == OpToRel(<, Nat)
<1>1. IsWellFoundedOn(R, Nat)
  BY NatLessThanWellFounded, Zenon
<1>2. R = {ss \in Nat \X Nat : ss[1] < ss[2]}
  BY Zenon DEF OpToRel
<1>. HIDE DEF R
<1>3. PICK m \in S : \A n \in S : ~ (<<n, m>> \in R)
  BY <1>1, WFMin
<1>4. \A n \in S : <<n, m>> \in Nat \X Nat /\ <<n, m>>[1] = n /\ <<n, m>>[2] = m
  OBVIOUS
<1>5. \A n \in S : ~ (n < m)
  BY <1>2, <1>3, <1>4
<1>. QED
  BY <1>5

LEMMA CountUp ==
    ASSUME NEW N \in Nat, NEW Good, 0 \in Good, \A n \in 1..N : n - 1 \in Good => n \in Good
    PROVE  \A n \in 0..N : n \in Good
<1>. DEFINE Missing == {n \in 0..N : n \notin Good}
<1>. SUFFICES ASSUME Missing # {} PROVE FALSE
  OBVIOUS
<1>1. PICK m \in Missing : \A n \in Missing : m <= n
  <2>1. Missing \in SUBSET Nat
    OBVIOUS
  <2>. HIDE DEF Missing
  <2>. QED
    BY <2>1, LeastNumber
<1>2. m \in 1..N /\ m - 1 \in 0..N /\ ~ (m <= m - 1)
  BY <1>1
<1>3. m - 1 \in Good
  BY <1>1, <1>2
<1>. QED
  BY <1>1, <1>2, <1>3

\* Nothing they require is left to visit.
ReadyIn(nodes, out) == {p \in nodes \ out : Deps(p, nodes) \subseteq out}

Before(o, n) == {o[i] : i \in 1..n}
Out(o) == Before(o, Len(o))

\* Always the first of those that are ready.
Sorted(nodes, o) ==
    \A i \in 1..Len(o) :
        /\ o[i] \in ReadyIn(nodes, Before(o, i - 1))
        /\ First(o[i], ReadyIn(nodes, Before(o, i - 1)))

\* After n rounds: the in-degrees count what is left, and the queue is what is ready.
KahnInv(nodes, s, n) ==
    /\ s \in KahnState(nodes)
    /\ s.queue = ReadyIn(nodes, Out(s.order))
    /\ \A p \in nodes : s.inDegree[p] = Cardinality(Deps(p, nodes) \ Out(s.order))
    /\ Sorted(nodes, s.order)
    /\ Cardinality(Out(s.order)) = Len(s.order)
    /\ Len(s.order) = n \/ s.queue = {}

\* What has been sorted brings what it requires with it.
LEMMA OutIsClosed ==
    ASSUME NEW nodes, NEW o \in Seq(nodes), Sorted(nodes, o)
    PROVE  Out(o) \subseteq nodes /\ \A p \in Out(o) : Deps(p, nodes) \subseteq Out(o)
<1>1. Out(o) \subseteq nodes
  BY DEF Out, Before
<1>2. ASSUME NEW p \in Out(o), NEW q \in Deps(p, nodes) PROVE q \in Out(o)
  <2>1. PICK i \in 1..Len(o) : p = o[i]
    BY DEF Out, Before
  <2>2. q \in Before(o, i - 1)
    BY <1>2, <2>1 DEF Sorted, ReadyIn
  <2>3. PICK j \in 1..(i - 1) : q = o[j]
    BY <2>2 DEF Before
  <2>4. Len(o) \in Nat /\ j \in 1..Len(o)
    BY <2>1, <2>3
  <2>. QED
    BY <2>3, <2>4 DEF Out, Before
<1>. QED
  BY <1>1, <1>2

LEMMA AppendedIsOut ==
    ASSUME NEW nodes, NEW o \in Seq(nodes), NEW p \in nodes
    PROVE  /\ Append(o, p) \in Seq(nodes) /\ Len(Append(o, p)) = Len(o) + 1
           /\ Out(Append(o, p)) = Out(o) \union {p}
           /\ Append(o, p)[Len(o) + 1] = p
           /\ \A i \in 1..Len(o) : Append(o, p)[i] = o[i]
           /\ \A n \in 0..Len(o) : Before(Append(o, p), n) = Before(o, n)
<1>1. PICK w : w = Append(o, p)
  OBVIOUS
<1>2. /\ Len(o) \in Nat /\ w \in Seq(nodes) /\ Len(w) = Len(o) + 1 /\ w[Len(o) + 1] = p
      /\ \A i \in 1..Len(o) : w[i] = o[i]
  BY <1>1
<1>3. ASSUME NEW n \in 0..Len(o) PROVE Before(w, n) = Before(o, n)
  <2>1. \A i \in 1..n : w[i] = o[i]
    BY <1>2
  <2>. QED
    BY <2>1 DEF Before
<1>4. Out(w) = Out(o) \union {p}
  <2>1. \A x : x \in Out(w) <=> \E i \in 1..(Len(o) + 1) : x = w[i]
    BY <1>2 DEF Out, Before
  <2>2. \A x : x \in Out(o) <=> \E i \in 1..Len(o) : x = o[i]
    BY DEF Out, Before
  <2>3. ASSUME NEW x PROVE (\E i \in 1..(Len(o) + 1) : x = w[i]) <=> (x = p \/ \E i \in 1..Len(o) : x = o[i])
    <3>1. ASSUME NEW i \in 1..(Len(o) + 1), x = w[i] PROVE x = p \/ \E j \in 1..Len(o) : x = o[j]
      <4>1. CASE i = Len(o) + 1
        BY <1>2, <3>1, <4>1
      <4>2. CASE i # Len(o) + 1
        <5>1. i \in 1..Len(o)
          BY <1>2, <4>2
        <5>. QED
          BY <1>2, <3>1, <5>1
      <4>. QED
        BY <4>1, <4>2
    <3>2. Len(o) + 1 \in 1..(Len(o) + 1) /\ \A j \in 1..Len(o) : j \in 1..(Len(o) + 1)
      BY <1>2
    <3>. QED
      BY <1>2, <3>1, <3>2
  <2>. QED
    BY <2>1, <2>2, <2>3
<1>. QED
  BY <1>1, <1>2, <1>3, <1>4

LEMMA SortedExtends ==
    ASSUME NEW nodes, NEW o \in Seq(nodes), Sorted(nodes, o),
           NEW p, p \in ReadyIn(nodes, Out(o)), First(p, ReadyIn(nodes, Out(o)))
    PROVE  Sorted(nodes, Append(o, p))
<1>1. p \in nodes
  BY DEF ReadyIn
<1>2. PICK w \in Seq(nodes) : w = Append(o, p)
  BY <1>1, AppendedIsOut
<1>3. /\ Len(o) \in Nat /\ Len(w) = Len(o) + 1 /\ w[Len(o) + 1] = p
      /\ \A i \in 1..Len(o) : w[i] = o[i]
      /\ \A i \in 0..Len(o) : Before(w, i) = Before(o, i)
  BY <1>1, <1>2, AppendedIsOut
<1>4. ASSUME NEW i \in 1..Len(w)
      PROVE  /\ w[i] \in ReadyIn(nodes, Before(w, i - 1))
             /\ First(w[i], ReadyIn(nodes, Before(w, i - 1)))
  <2>1. CASE i = Len(o) + 1
    <3>1. i - 1 = Len(o) /\ Len(o) \in 0..Len(o)
      BY <1>3, <2>1
    <3>2. Before(w, i - 1) = Out(o) /\ w[i] = p
      BY <1>3, <2>1, <3>1 DEF Out
    <3>. QED
      BY <3>2
  <2>2. CASE i # Len(o) + 1
    <3>1. i \in 1..Len(o) /\ i - 1 \in 0..Len(o)
      BY <1>3, <2>2
    <3>2. w[i] = o[i] /\ Before(w, i - 1) = Before(o, i - 1)
      BY <1>3, <3>1
    <3>. QED
      BY <3>1, <3>2 DEF Sorted
  <2>. QED
    BY <2>1, <2>2
<1>5. Sorted(nodes, w)
  BY <1>4 DEF Sorted
<1>. QED
  BY <1>2, <1>5

\* There is only one order to sort in.
LEMMA SortedUnique ==
    ASSUME NEW nodes \in SUBSET Nat, NEW o \in Seq(nodes), NEW v \in Seq(nodes),
           Sorted(nodes, o), Sorted(nodes, v),
           NEW N \in Nat, N <= Len(o), N <= Len(v)
    PROVE  \A i \in 1..N : o[i] = v[i]
<1>. DEFINE Good == {n \in 0..N : \A i \in 1..n : o[i] = v[i]}
<1>1. Len(o) \in Nat /\ Len(v) \in Nat
  OBVIOUS
<1>2. 0 \in Good
  OBVIOUS
<1>3. ASSUME NEW n \in 1..N, n - 1 \in Good PROVE n \in Good
  <2>1. n \in 1..Len(o) /\ n \in 1..Len(v) /\ \A i \in 1..(n - 1) : o[i] = v[i]
    BY <1>1, <1>3
  <2>2. Before(o, n - 1) = Before(v, n - 1)
    BY <2>1 DEF Before
  <2>3. PICK R \in SUBSET Nat : R = ReadyIn(nodes, Before(o, n - 1))
    BY DEF ReadyIn
  <2>4. o[n] \in R /\ v[n] \in R /\ First(o[n], R) /\ First(v[n], R)
    BY <2>1, <2>2, <2>3 DEF Sorted
  <2>5. o[n] = v[n]
    <3>1. o[n] <= v[n] /\ v[n] <= o[n]
      BY <2>4 DEF First
    <3>2. o[n] \in Nat /\ v[n] \in Nat
      BY <2>3, <2>4
    <3>. QED
      BY <3>1, <3>2
  <2>. QED
    BY <1>1, <2>1, <2>5
<1>. HIDE DEF Good
<1>4. \A n \in 0..N : n \in Good
  BY <1>2, <1>3, CountUp
<1>5. N \in 0..N
  OBVIOUS
<1>. QED
  BY <1>4, <1>5 DEF Good

LEMMA KahnStarts ==
    ASSUME NEW nodes, IsFiniteSet(nodes) PROVE KahnInv(nodes, KahnStart(nodes), 0)
<1>. DEFINE s == KahnStart(nodes)
<1>1. \A p \in nodes : Cardinality(Deps(p, nodes)) \in Nat
  BY FS_Intersection, FS_CardinalityType DEF Deps
<1>2. /\ s \in KahnState(nodes) /\ s.order = << >> /\ s.queue = {p \in nodes : Deps(p, nodes) = {}}
      /\ \A p \in nodes : s.inDegree[p] = Cardinality(Deps(p, nodes))
  BY <1>1 DEF KahnStart, KahnState
<1>. HIDE DEF s
<1>3. Out(s.order) = {} /\ Len(s.order) = 0
  BY <1>2 DEF Out, Before
<1>4. s.queue = ReadyIn(nodes, {})
  BY <1>2 DEF ReadyIn
<1>5. Sorted(nodes, s.order)
  BY <1>3 DEF Sorted
<1>6. \A p \in nodes : Deps(p, nodes) \ {} = Deps(p, nodes)
  OBVIOUS
<1>7. KahnInv(nodes, s, 0)
  BY <1>2, <1>3, <1>4, <1>5, <1>6, FS_EmptySet DEF KahnInv
<1>. QED
  BY <1>7 DEF s

LEMMA KahnStep ==
    ASSUME NEW nodes \in SUBSET Nat, IsFiniteSet(nodes), NEW n \in Nat, NEW s,
           KahnInv(nodes, s, n)
    PROVE  KahnInv(nodes, KahnNext(nodes, s), n + 1)
<1>1. CASE s.queue = {}
  <2>1. KahnNext(nodes, s) = s
    BY <1>1, Zenon DEF KahnNext
  <2>. QED
    BY <1>1, <2>1 DEF KahnInv
<1>2. CASE s.queue # {}
  <2>. DEFINE p == CHOOSE q \in s.queue : First(q, s.queue)
              dependents == {d \in nodes : p \in Deps(d, nodes)}
              degree == [d \in nodes |-> IF d \in dependents THEN s.inDegree[d] - 1
                                                             ELSE s.inDegree[d]]
              queue == (s.queue \ {p}) \union {d \in dependents : s.inDegree[d] = 1}
              r == KahnNext(nodes, s)
  <2>1. s.queue \subseteq nodes /\ s.queue = ReadyIn(nodes, Out(s.order)) /\ s.order \in Seq(nodes)
    <3>. HIDE DEF p, r
    <3>. QED
      BY DEF KahnInv, KahnState
  <2>2. p \in s.queue /\ First(p, s.queue)
    <3>1. s.queue \in SUBSET Nat
      BY <2>1
    <3>2. \E q \in s.queue : \A x \in s.queue : q <= x
      BY <1>2, <3>1, LeastNumber
    <3>3. \E q \in s.queue : First(q, s.queue)
      BY <3>2 DEF First
    <3>. QED
      BY <3>3, Zenon
  <2>3. r = [inDegree |-> degree, queue |-> queue, order |-> Append(s.order, p)]
    BY <1>2, Zenon DEF KahnNext
  <2>. HIDE DEF p, r
  <2>4. p \in nodes /\ p \notin Out(s.order) /\ Deps(p, nodes) \subseteq Out(s.order)
    BY <2>1, <2>2 DEF ReadyIn
  <2>5. PICK o \in Seq(nodes) : o = s.order
    BY <2>1
  <2>6. PICK w \in Seq(nodes) : w = Append(o, p)
    BY <2>4, <2>5, AppendedIsOut
  <2>7. /\ Len(w) = Len(o) + 1 /\ Out(w) = Out(o) \union {p} /\ w[Len(o) + 1] = p
        /\ \A i \in 1..Len(o) : w[i] = o[i]
        /\ \A i \in 0..Len(o) : Before(w, i) = Before(o, i)
    BY <2>4, <2>6, AppendedIsOut
  <2>8. Out(o) \subseteq nodes /\ \A d \in Out(o) : Deps(d, nodes) \subseteq Out(o)
    BY <2>5, OutIsClosed DEF KahnInv
  <2>9. \A d \in nodes : /\ IsFiniteSet(Deps(d, nodes) \ Out(o))
                         /\ Cardinality(Deps(d, nodes) \ Out(o)) \in Nat
                         /\ s.inDegree[d] = Cardinality(Deps(d, nodes) \ Out(o))
    BY <2>5, FS_Intersection, FS_Difference, FS_CardinalityType DEF Deps, KahnInv
  <2>10. ASSUME NEW d \in nodes
         PROVE  degree[d] = Cardinality(Deps(d, nodes) \ Out(w)) /\ degree[d] \in Nat
    <3>1. CASE p \in Deps(d, nodes)
      <4>1. Deps(d, nodes) \ Out(w) = (Deps(d, nodes) \ Out(o)) \ {p} /\ p \in Deps(d, nodes) \ Out(o)
        BY <2>4, <2>5, <2>7, <3>1
      <4>2. Cardinality(Deps(d, nodes) \ Out(w)) = Cardinality(Deps(d, nodes) \ Out(o)) - 1
        <5>1. PICK left : left = Deps(d, nodes) \ Out(o)
          OBVIOUS
        <5>2. IsFiniteSet(left) /\ p \in left
          BY <2>9, <4>1, <5>1
        <5>3. Cardinality(left \ {p}) = Cardinality(left) - 1
          BY <5>2, FS_RemoveElement
        <5>. QED
          BY <4>1, <5>1, <5>3
      <4>3. IsFiniteSet(Deps(d, nodes) \ Out(w))
        BY <2>9, <4>1, FS_RemoveElement
      <4>4. degree[d] = s.inDegree[d] - 1
        BY <3>1
      <4>. QED
        BY <2>9, <4>2, <4>3, <4>4, FS_CardinalityType
    <3>2. CASE p \notin Deps(d, nodes)
      <4>1. Deps(d, nodes) \ Out(w) = Deps(d, nodes) \ Out(o)
        BY <2>7, <3>2
      <4>2. degree[d] = s.inDegree[d]
        BY <3>2
      <4>. QED
        BY <2>9, <4>1, <4>2
    <3>. QED
      BY <3>1, <3>2
  <2>11. queue = ReadyIn(nodes, Out(w))
    <3>1. ASSUME NEW d \in nodes, p \in Deps(d, nodes)
          PROVE  s.inDegree[d] = 1 <=> Deps(d, nodes) \subseteq Out(w)
      <4>1. p \in Deps(d, nodes) \ Out(o)
        BY <2>4, <2>5, <3>1
      <4>2. Cardinality(Deps(d, nodes) \ Out(o)) = 1 <=> \E x : Deps(d, nodes) \ Out(o) = {x}
        BY <2>9, FS_Singleton
      <4>3. (\E x : Deps(d, nodes) \ Out(o) = {x}) <=> Deps(d, nodes) \ Out(o) = {p}
        BY <4>1
      <4>. QED
        BY <2>7, <2>9, <4>1, <4>2, <4>3
    <3>2. ASSUME NEW d \in nodes, p \in Deps(d, nodes) PROVE d \notin Out(w)
      BY <2>4, <2>5, <2>7, <2>8, <3>2
    <3>3. ASSUME NEW d \in nodes
          PROVE  d \in queue <=> d \notin Out(w) /\ Deps(d, nodes) \subseteq Out(w)
      <4>1. CASE p \in Deps(d, nodes)
        <5>1. d \notin s.queue
          BY <2>1, <2>4, <2>5, <4>1 DEF ReadyIn
        <5>. QED
          BY <3>1, <3>2, <4>1, <5>1
      <4>2. CASE p \notin Deps(d, nodes)
        <5>1. d \in queue <=> d \in s.queue /\ d # p
          BY <4>2
        <5>. QED
          BY <2>1, <2>5, <2>7, <4>2, <5>1 DEF ReadyIn
      <4>. QED
        BY <4>1, <4>2
    <3>4. queue \subseteq nodes
      BY <2>1
    <3>. QED
      BY <3>3, <3>4 DEF ReadyIn
  <2>. HIDE DEF queue, degree
  <2>12. Sorted(nodes, w)
    <3>1. Sorted(nodes, o)
      BY <2>5 DEF KahnInv
    <3>2. p \in ReadyIn(nodes, Out(o)) /\ First(p, ReadyIn(nodes, Out(o)))
      BY <2>1, <2>2, <2>5
    <3>. QED
      BY <2>6, <3>1, <3>2, SortedExtends
  <2>13. Cardinality(Out(w)) = Len(w)
    <3>1. IsFiniteSet(Out(o))
      BY <2>8, FS_Subset
    <3>2. Cardinality(Out(o) \union {p}) = Cardinality(Out(o)) + 1
      BY <2>4, <2>5, <3>1, FS_AddElement
    <3>3. Cardinality(Out(o)) = Len(o)
      BY <2>5 DEF KahnInv
    <3>. QED
      BY <2>7, <3>2, <3>3
  <2>14. Len(w) = n + 1
    BY <1>2, <2>5, <2>7 DEF KahnInv
  <2>15. r \in KahnState(nodes) /\ r.queue = queue /\ r.inDegree = degree /\ r.order = w
    <3>1. degree \in [nodes -> Nat]
      <4>1. degree = [d \in nodes |-> degree[d]]
        BY DEF degree
      <4>. QED
        BY <2>10, <4>1
    <3>2. queue \in SUBSET nodes
      BY <2>11 DEF ReadyIn
    <3>3. r = [inDegree |-> degree, queue |-> queue, order |-> w]
      BY <2>3, <2>5, <2>6
    <3>. QED
      BY <3>1, <3>2, <3>3 DEF KahnState
  <2>16. KahnInv(nodes, r, n + 1)
    BY <2>10, <2>11, <2>12, <2>13, <2>14, <2>15 DEF KahnInv
  <2>. QED
    BY <2>16 DEF r
<1>. QED
  BY <1>1, <1>2

\* The rounds that TopoSort runs.
LEMMA KahnRuns ==
    ASSUME NEW nodes \in SUBSET Nat, IsFiniteSet(nodes)
    PROVE  \E s : KahnInv(nodes, s, Cardinality(nodes)) /\ TopoSort(nodes) = s.order
<1>. DEFINE N == Cardinality(nodes)
            next == [s \in KahnState(nodes) |-> KahnNext(nodes, s)]
            Step(f, i) == IF i = 0 THEN KahnStart(nodes) ELSE next[f[i - 1]]
            Is(f, n) == f = [i \in 0..n |-> Step(f, i)]
            Done == {n \in 0..N : \E f : Is(f, n)}
<1>1. N \in Nat
  BY FS_CardinalityType
<1>2. 0 \in Done
  <2>. DEFINE f == [i \in 0..0 |-> KahnStart(nodes)]
  <2>1. Is(f, 0)
    OBVIOUS
  <2>. HIDE DEF f, Is
  <2>. QED
    BY <1>1, <2>1
<1>3. ASSUME NEW n \in 1..N, n - 1 \in Done PROVE n \in Done
  <2>1. PICK f : Is(f, n - 1)
    BY <1>3
  <2>. DEFINE last == next[f[n - 1]]
              g == [i \in 0..n |-> IF i = n THEN last ELSE f[i]]
  <2>2. \A i \in 0..(n - 1) : g[i] = f[i] /\ f[i] = Step(f, i)
    <3>1. \A i \in 0..(n - 1) : g[i] = f[i]
      BY <1>1
    <3>2. ASSUME NEW i \in 0..(n - 1) PROVE f[i] = Step(f, i)
      <4>. HIDE DEF Step
      <4>. QED
        BY <2>1
    <3>. QED
      BY <3>1, <3>2
  <2>3. ASSUME NEW i \in 0..n PROVE g[i] = Step(g, i)
    <3>1. CASE i = n
      <4>1. g[n - 1] = f[n - 1] /\ g[n] = last /\ n # 0
        BY <1>1
      <4>. HIDE DEF g, next
      <4>. QED
        BY <3>1, <4>1
    <3>2. CASE i # n /\ i # 0
      <4>1. i - 1 \in 0..(n - 1) /\ i \in 0..(n - 1)
        BY <1>1, <3>2
      <4>. HIDE DEF g, last, next
      <4>. QED
        BY <2>2, <3>2, <4>1
    <3>3. CASE i = 0
      <4>1. 0 \in 0..(n - 1)
        BY <1>1
      <4>. HIDE DEF g, last, next
      <4>. QED
        BY <2>2, <3>3, <4>1
    <3>. QED
      BY <3>1, <3>2, <3>3
  <2>4. Is(g, n)
    <3>1. g = [i \in 0..n |-> g[i]]
      OBVIOUS
    <3>. HIDE DEF g
    <3>. QED
      BY <2>3, <3>1
  <2>5. n \in 0..N
    BY <1>1
  <2>. HIDE DEF g, Is
  <2>. QED
    BY <2>4, <2>5
<1>4. N \in Done
  <2>. HIDE DEF Done, N
  <2>1. \A n \in 1..N : n - 1 \in Done => n \in Done
    BY <1>3
  <2>2. \A n \in 0..N : n \in Done
    BY <1>1, <1>2, <2>1, CountUp
  <2>. QED
    BY <1>1, <2>2
<1>. DEFINE run == CHOOSE f : Is(f, N)
<1>5. Is(run, N)
  BY <1>4, Zenon
<1>6. TopoSort(nodes) = run[N].order
  BY Zenon DEF TopoSort
<1>. HIDE DEF run, next
<1>7. /\ run[0] = KahnStart(nodes)
      /\ \A i \in 1..N : run[i] = next[run[i - 1]]
  <2>1. \A i \in 0..N : run[i] = Step(run, i)
    <3>. HIDE DEF Step, N
    <3>. QED
      BY <1>5
  <2>2. 0 \in 0..N /\ \A i \in 1..N : i # 0 /\ i \in 0..N
    BY <1>1
  <2>. QED
    BY <2>1, <2>2, Zenon
<1>. HIDE DEF N, Is
<1>. DEFINE Good == {n \in 0..N : KahnInv(nodes, run[n], n)}
<1>8. 0 \in Good
  <2>1. KahnInv(nodes, run[0], 0)
    BY <1>7, KahnStarts, Zenon
  <2>. QED
    BY <1>1, <2>1
<1>9. ASSUME NEW n \in 1..N, n - 1 \in Good PROVE n \in Good
  <2>1. n - 1 \in Nat /\ (n - 1) + 1 = n /\ n \in 0..N
    BY <1>1
  <2>2. PICK s : s = run[n - 1]
    OBVIOUS
  <2>3. KahnInv(nodes, s, n - 1)
    BY <1>9, <2>2
  <2>4. KahnInv(nodes, KahnNext(nodes, s), (n - 1) + 1)
    BY <2>1, <2>3, KahnStep
  <2>5. run[n] = KahnNext(nodes, s)
    <3>1. s \in KahnState(nodes)
      BY <2>3 DEF KahnInv
    <3>2. next[s] = KahnNext(nodes, s)
      BY <3>1, Zenon DEF next
    <3>. QED
      BY <1>7, <2>2, <3>2, Zenon
  <2>. QED
    BY <2>1, <2>4, <2>5
<1>. HIDE DEF Good
<1>10. \A n \in 0..N : n \in Good
  BY <1>1, <1>8, <1>9, CountUp
<1>11. KahnInv(nodes, run[N], N)
  BY <1>1, <1>10 DEF Good
<1>. QED
  BY <1>6, <1>11, Zenon DEF N

\* The sort stops when nothing more is ready, and has everything if nothing is left.
LEMMA TopoSortIs ==
    ASSUME NEW nodes \in SUBSET Nat, IsFiniteSet(nodes), NEW o, o = TopoSort(nodes)
    PROVE  /\ o \in Seq(nodes) /\ Sorted(nodes, o) /\ Out(o) \subseteq nodes
           /\ ReadyIn(nodes, Out(o)) = {}
           /\ Len(o) = Cardinality(nodes) <=> Out(o) = nodes
<1>1. PICK s : KahnInv(nodes, s, Cardinality(nodes)) /\ o = s.order
  BY KahnRuns
<1>2. /\ o \in Seq(nodes) /\ Sorted(nodes, o) /\ Cardinality(Out(o)) = Len(o)
      /\ s.queue = ReadyIn(nodes, Out(o))
      /\ Len(o) = Cardinality(nodes) \/ s.queue = {}
  BY <1>1 DEF KahnInv, KahnState
<1>3. Out(o) \subseteq nodes
  BY <1>2, OutIsClosed
<1>4. ASSUME Len(o) = Cardinality(nodes) PROVE Out(o) = nodes
  <2>1. PICK out \in SUBSET nodes : out = Out(o)
    BY <1>3
  <2>2. Cardinality(out) = Cardinality(nodes)
    BY <1>2, <1>4, <2>1
  <2>3. out = nodes
    BY <2>2, FS_Subset
  <2>. QED
    BY <2>1, <2>3
<1>5. ASSUME Out(o) = nodes PROVE Len(o) = Cardinality(nodes) /\ ReadyIn(nodes, Out(o)) = {}
  BY <1>2, <1>5 DEF ReadyIn
<1>. QED
  BY <1>2, <1>3, <1>4, <1>5

-----------------------------------------------------------------------------
(* What the order is used for *)

LEMMA ActiveIsFinite ==
    ASSUME TypeOK, Planning PROVE Active \in SUBSET Nat /\ IsFiniteSet(Active)
<1>1. Discovered \in SUBSET Plugin
  BY DEF Discovered, TypeOK, CatalogueType, Planning
<1>2. Active \subseteq Plugin
  BY <1>1 DEF Candidates, Active
<1>. QED
  BY <1>2, FS_Subset

LEMMA CyclesAreCounted == TypeOK => RefusalIsJustified
<1>. SUFFICES ASSUME TypeOK, Planning
              PROVE  CycleReported <=>
                       \E C \in (SUBSET Active) \ {{}} : \A p \in C : Requires(p) \intersect C # {}
  BY DEF RefusalIsJustified
<1>1. PICK A \in SUBSET Nat : A = Active /\ IsFiniteSet(A)
  BY ActiveIsFinite
<1>2. PICK o : o = TopoSort(A)
  OBVIOUS
<1>3. /\ o \in Seq(A) /\ Sorted(A, o) /\ Out(o) \subseteq A
      /\ ReadyIn(A, Out(o)) = {}
      /\ Len(o) = Cardinality(A) <=> Out(o) = A
  BY <1>1, <1>2, TopoSortIs
<1>4. CycleReported <=> Out(o) # A
  BY <1>1, <1>2, <1>3 DEF CycleReported
<1>5. ASSUME Out(o) # A
      PROVE  \E C \in (SUBSET A) \ {{}} : \A p \in C : Requires(p) \intersect C # {}
  <2>. DEFINE C == A \ Out(o)
  <2>1. C # {}
    BY <1>3, <1>5
  <2>2. ASSUME NEW p \in C PROVE Requires(p) \intersect C # {}
    BY <1>3 DEF ReadyIn, Deps
  <2>. QED
    BY <2>1, <2>2
<1>6. ASSUME NEW C \in SUBSET A, C # {}, \A p \in C : Requires(p) \intersect C # {}, Out(o) = A
      PROVE  FALSE
  <2>. DEFINE Places == {i \in 1..Len(o) : o[i] \in C}
  <2>1. Len(o) \in Nat
    BY <1>3
  <2>2. Places # {} /\ Places \in SUBSET Nat
    <3>1. PICK p \in C : p \in Out(o)
      BY <1>6
    <3>2. PICK i \in 1..Len(o) : p = o[i]
      BY <3>1 DEF Out, Before
    <3>. QED
      BY <2>1, <3>1, <3>2
  <2>3. PICK m \in Places : \A n \in Places : m <= n
    <3>. HIDE DEF Places
    <3>. QED
      BY <2>2, LeastNumber
  <2>4. PICK q \in C : q \in Deps(o[m], A)
    BY <1>6, <2>3 DEF Deps
  <2>5. q \in Before(o, m - 1)
    BY <1>3, <2>3, <2>4 DEF Sorted, ReadyIn
  <2>6. PICK i \in 1..(m - 1) : q = o[i]
    BY <2>5 DEF Before
  <2>7. i \in Places /\ ~ (m <= i)
    BY <2>1, <2>3, <2>4, <2>6
  <2>. QED
    BY <2>3, <2>7
<1>7. Out(o) # A <=> \E C \in (SUBSET A) \ {{}} : \A p \in C : Requires(p) \intersect C # {}
  <2>1. ASSUME NEW C \in (SUBSET A) \ {{}}, \A p \in C : Requires(p) \intersect C # {}
        PROVE  Out(o) # A
    <3>1. C \in SUBSET A /\ C # {}
      OBVIOUS
    <3>2. ~ (Out(o) = A)
      BY <1>6, <2>1, <3>1
    <3>. QED
      BY <3>2
  <2>. QED
    BY <1>5, <2>1
<1>. QED
  BY <1>1, <1>4, <1>7

\* Comparing the number of sorted plugins with the number to sort finds the
\* circular requirements and nothing else, for any plugins (load_directory and
\* _topo_sort).
THEOREM RefusalJustified == Spec => []RefusalIsJustified
  BY TypeInvInit, TypeInvNext, CyclesAreCounted, PTL DEF Spec, TypeInv

\* The visited plugins are a beginning of the order.
VisitedSorted ==
    \E v \in Seq(active) :
        Sorted(active, v) /\ Out(v) = visited /\ Cardinality(visited) = Len(v)

LEMMA NothingVisited ==
    ASSUME NEW nodes
    PROVE  \E v \in Seq(nodes) : Sorted(nodes, v) /\ Out(v) = {} /\ Cardinality({}) = Len(v)
<1>1. << >> \in Seq(nodes) /\ Len(<< >>) = 0
  OBVIOUS
<1>2. Sorted(nodes, << >>) /\ Out(<< >>) = {}
  BY <1>1 DEF Sorted, Out, Before
<1>. QED
  BY <1>1, <1>2, FS_EmptySet

\* What the next visit adds is the next of the sort.
LEMMA VisitNext ==
    ASSUME TypeOK, VisitedSorted, NEW p \in Ready, First(p, Ready)
    PROVE  /\ p = TopoSort(active)[Cardinality(visited) + 1]
           /\ \E w \in Seq(active) : /\ Sorted(active, w) /\ Out(w) = visited \union {p}
                                     /\ Cardinality(visited \union {p}) = Len(w)
<1>1. PICK v \in Seq(active) : Sorted(active, v) /\ Out(v) = visited /\ Cardinality(visited) = Len(v)
  BY DEF VisitedSorted
<1>2. Ready = ReadyIn(active, Out(v)) /\ p \in active /\ p \notin visited
  BY <1>1 DEF Ready, ReadyIn, Deps
<1>3. PICK w \in Seq(active) : w = Append(v, p)
  BY <1>2, AppendedIsOut
<1>4. /\ Len(v) \in Nat /\ Len(w) = Len(v) + 1 /\ Out(w) = visited \union {p}
      /\ w[Len(v) + 1] = p
      /\ \A i \in 1..Len(v) : w[i] = v[i]
      /\ \A n \in 0..Len(v) : Before(w, n) = Before(v, n)
  BY <1>1, <1>2, <1>3, AppendedIsOut
<1>5. Sorted(active, w)
  BY <1>1, <1>2, <1>3, SortedExtends
<1>6. active \in SUBSET Nat /\ IsFiniteSet(active) /\ visited \subseteq active
  BY FS_Subset DEF TypeOK
<1>7. Cardinality(visited \union {p}) = Len(w)
  <2>1. PICK out : out = visited
    OBVIOUS
  <2>2. IsFiniteSet(out) /\ p \notin out
    BY <1>2, <1>6, <2>1, FS_Subset
  <2>3. Cardinality(out \union {p}) = Cardinality(out) + 1
    BY <2>2, FS_AddElement
  <2>. QED
    BY <1>1, <1>4, <2>1, <2>3
<1>8. PICK o : o = TopoSort(active)
  OBVIOUS
<1>9. o \in Seq(active) /\ Sorted(active, o) /\ ReadyIn(active, Out(o)) = {} /\ Len(o) \in Nat
  BY <1>6, <1>8, TopoSortIs
<1>10. Len(w) <= Len(o)
  <2>1. SUFFICES ASSUME Len(o) <= Len(v) PROVE FALSE
    BY <1>4, <1>9
  <2>2. \A i \in 1..Len(o) : o[i] = w[i]
    <3>1. Len(o) <= Len(w) /\ Len(o) <= Len(o)
      BY <1>4, <1>9, <2>1
    <3>. QED
      BY <1>5, <1>6, <1>9, <3>1, SortedUnique
  <2>3. Before(w, Len(o)) = Out(o)
    BY <2>2 DEF Out, Before
  <2>4. Len(o) + 1 \in 1..Len(w) /\ (Len(o) + 1) - 1 = Len(o)
    BY <1>4, <1>9, <2>1
  <2>5. w[Len(o) + 1] \in ReadyIn(active, Before(w, (Len(o) + 1) - 1))
    BY <1>5, <2>4 DEF Sorted
  <2>. QED
    BY <1>9, <2>3, <2>4, <2>5
<1>11. \A i \in 1..Len(w) : w[i] = o[i]
  <2>1. Len(w) \in Nat /\ Len(w) <= Len(w)
    BY <1>4
  <2>. QED
    BY <1>5, <1>6, <1>9, <1>10, <2>1, SortedUnique
<1>12. p = o[Cardinality(visited) + 1]
  BY <1>1, <1>4, <1>11
<1>. QED
  BY <1>4, <1>5, <1>7, <1>8, <1>12

LEMMA VisitedSortedNext ==
    ASSUME TypeInv, VisitedSorted, [Next]_vars
    PROVE  /\ VisitedSorted'
           /\ \A p \in visited' \ visited : p = TopoSort(active)[Cardinality(visited) + 1]
<1>1. ASSUME visited' = {}
      PROVE  /\ VisitedSorted'
             /\ \A p \in visited' \ visited : p = TopoSort(active)[Cardinality(visited) + 1]
  <2>1. PICK v : v = << >>
    OBVIOUS
  <2>2. v \in Seq(active') /\ Len(v) = 0 /\ Out(v) = {}
    BY <2>1 DEF Out, Before
  <2>3. Sorted(active, v)'
    BY <2>2 DEF Sorted
  <2>. QED
    BY <1>1, <2>2, <2>3, FS_EmptySet DEF VisitedSorted
<1>2. ASSUME SkipDependent \/ StartLoad
      PROVE  /\ VisitedSorted'
             /\ \A p \in visited' \ visited : p = TopoSort(active)[Cardinality(visited) + 1]
  <2>1. PICK p \in Ready : First(p, Ready) /\ visited' = visited \union {p}
    BY <1>2 DEF SkipDependent, StartLoad
  <2>2. cat' = cat /\ active' = active
    BY <1>2 DEF SkipDependent, StartLoad
  <2>3. p = TopoSort(active)[Cardinality(visited) + 1]
    BY <2>1, VisitNext DEF TypeInv
  <2>4. PICK w \in Seq(active) : /\ Sorted(active, w) /\ Out(w) = visited'
                                 /\ Cardinality(visited') = Len(w)
    BY <2>1, VisitNext DEF TypeInv
  <2>5. Sorted(active, w)'
    BY <2>2, <2>4 DEF Sorted, ReadyIn, Deps, Requires
  <2>6. VisitedSorted'
    BY <2>2, <2>4, <2>5 DEF VisitedSorted
  <2>. QED
    BY <2>1, <2>3, <2>6
<1>3. ASSUME visited' = visited, active' = active, cat'.requires = cat.requires
      PROVE  /\ VisitedSorted'
             /\ \A p \in visited' \ visited : p = TopoSort(active)[Cardinality(visited) + 1]
  <2>1. PICK v \in Seq(active) : Sorted(active, v) /\ Out(v) = visited /\ Cardinality(visited) = Len(v)
    BY DEF VisitedSorted
  <2>2. Sorted(active, v)'
    BY <1>3, <2>1 DEF Sorted, ReadyIn, Deps, Requires
  <2>. QED
    BY <1>3, <2>1, <2>2 DEF VisitedSorted
<1>4. CASE PassStep
  BY <1>1, <1>2, <1>3, <1>4
  DEF PassStep, PassRefused, InstallFails, PlanPass, EndPass, passVars
<1>5. CASE LoadStep
  BY <1>3, <1>5
  DEF LoadStep, LoadFails, ReturnDisabled, PassChecks, AutoLoad, Register, ConfigureFails,
      SetupFails, Raise, passVars
<1>6. CASE SetupStep
  BY <1>3, <1>6 DEF SetupStep, StartSetup, RunSetup, Booted, passVars
<1>7. CASE Operate
  <2>1. CASE Start \/ Stop
    BY <1>1, <1>3, <2>1 DEF Start, Stop, passVars
  <2>2. ASSUME NEW p \in Plugin, Unload(p) \/ \E s \in 1..Sources : DirectLoad(p, s)
        PROVE  visited' = visited /\ active' = active /\ cat' = cat
    BY <2>2 DEF Unload, DirectLoad, passVars
  <2>3. ASSUME NEW p \in Plugin, NEW on \in BOOLEAN, SetEnabled(p, on)
        PROVE  visited' = visited /\ active' = active /\ cat'.requires = cat.requires
    BY <2>3 DEF SetEnabled, passVars, TypeInv, TypeOK, CatalogueType
  <2>. QED
    BY <1>3, <1>7, <2>1, <2>2, <2>3 DEF Operate
<1>8. CASE UNCHANGED vars
  BY <1>3, <1>8 DEF vars, passVars
<1>. QED
  BY <1>4, <1>5, <1>6, <1>7, <1>8 DEF Next

LEMMA VisitedSortedInit == Init => VisitedSorted
<1>. SUFFICES ASSUME Init PROVE VisitedSorted
  OBVIOUS
<1>1. visited = {} /\ \E v \in Seq(active) : Sorted(active, v) /\ Out(v) = {} /\ Cardinality({}) = Len(v)
  BY NothingVisited DEF Init
<1>. QED
  BY <1>1 DEF VisitedSorted

\* The pass visits the plugins in the order _topo_sort returned, one after the
\* other (_load_discovered), for any plugins and requirements.
THEOREM KahnOrder == Spec => VisitsInKahnOrder
<1>1. TypeInv /\ VisitedSorted /\ [Next]_vars => VisitedSorted'
  BY VisitedSortedNext
<1>2. TypeInv /\ VisitedSorted /\ [Next]_vars =>
        [\A p \in visited' \ visited : p = TopoSort(active)[Cardinality(visited) + 1]]_vars
  BY VisitedSortedNext
<1>. QED
  BY <1>1, <1>2, TypeInvInit, TypeInvNext, VisitedSortedInit, PTL DEF Spec, VisitsInKahnOrder

===============================================================================
