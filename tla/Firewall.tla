------------------------------- MODULE Firewall -------------------------------
(***************************************************************************)
(* The firewall plugin (src/plugins/firewall/plugin.py): rule and chain    *)
(* edits, apply, discard and compile requests, the boot-time re-apply, and *)
(* the kernel they drive through "sudo nft -f".  Handlers are plain "def"  *)
(* endpoints on FastAPI's thread pool and share the plugin's dicts without *)
(* a lock, so the steps of several requests interleave.                    *)
(*                                                                         *)
(* A rule's content is an opaque Body and its id, the hash of the content  *)
(* it was created with, is that content: equal bodies have equal ids.  The *)
(* chain section is one policy.  The other sections (sets, NAT, ingress,   *)
(* flowtables, custom chains, verdict maps, quotas) are saved, compiled    *)
(* and discarded with these two.                                           *)
(***************************************************************************)
CONSTANTS
    Body,               \* contents a rule can have
    Disabled,           \* those with enabled=False
    Refused,            \* those that make nft reject the whole script
    Seeds,              \* the two rules of a fresh install
    Policy,             \* contents of the chain section
    DefaultPolicy,      \* _DEFAULT_CHAINS
    Absent,             \* no rule under this id
    Thread,             \* request threads
    EnableOsBoot,       \* enable_os_boot: nft -f <compiled file> at OS boot
    IgnoreStateOnBoot,  \* --ignore-plugins-states
    None, Corrupt

Config == [rules : [Body -> Body \union {Absent}], policy : Policy]

\* What the compiler makes of a configuration: the enabled rules, equal ones
\* once, over the chains.
Ruleset == [rules : SUBSET Body, policy : Policy]

ASSUME FirewallAssumption ==
    /\ Disabled \subseteq Body /\ Refused \subseteq Body /\ Seeds \subseteq Body
    /\ DefaultPolicy \in Policy
    /\ Absent \notin Body
    /\ None \notin Config \union Ruleset
    /\ EnableOsBoot \in BOOLEAN /\ IgnoreStateOnBoot \in BOOLEAN

VARIABLES
    phase,      \* "down", then configure() and setup() up to "up"
    live,       \* self._rules and self._chains
    desired, current, file,     \* the plugin's PluginStateFile
    pc,         \* where each request thread is
    held,       \* the snapshot or compiled configuration its frame holds
    kernel,     \* what the kernel runs for the plugin's table
    nftFile,    \* <filter>.nft, kept only if the OS boot service reads it
    enforced    \* history: this process has loaded a script since it started

memVars == <<live, desired, current>>
threadVars == <<pc, held>>
vars == <<phase, memVars, file, threadVars, kernel, nftFile, enforced>>

EmptyConfig == [rules |-> [b \in Body |-> Absent], policy |-> DefaultPolicy]

SeededConfig ==
    [EmptyConfig EXCEPT !.rules = [b \in Body |-> IF b \in Seeds THEN b ELSE Absent]]

SF == INSTANCE StateFile WITH
        Snapshot <- Config, Default <- EmptyConfig, Immediate <- FALSE

Enabled(c) == {c.rules[id] : id \in Body} \ (Disabled \union {Absent})

Compile(c) == [rules |-> Enabled(c), policy |-> c.policy]

\* nft takes or refuses a script as a whole.
Loads(script) == script.rules \intersect Refused = {}

Steps == {"idle", "snapshot", "save", "nft", "commit"}

TypeOK ==
    /\ phase \in {"down", "loaded", "reapplied", "up"}
    /\ live \in Config \union {None}
    /\ SF!sfTypeOK
    /\ pc \in [Thread -> Steps]
    /\ held \in [Thread -> Config \union {None}]
    /\ kernel \in Ruleset \union {None}
    /\ nftFile \in Ruleset \union {None}
    /\ enforced \in BOOLEAN
    \* memory is there exactly while the process is, and a frame holds a
    \* configuration exactly while it needs one
    /\ phase = "down" <=> live = None
    /\ live = None => desired = None /\ current = None
    /\ live # None => desired # None
    /\ \A t \in Thread : phase # "up" => pc[t] = "idle"
    /\ \A t \in Thread : pc[t] \in {"save", "nft", "commit"} => held[t] # None

Init ==
    /\ phase = "down"
    /\ live = None
    /\ SF!sfInit
    /\ pc = [t \in Thread |-> "idle"]
    /\ held = [t \in Thread |-> None]
    /\ kernel = None
    /\ nftFile = None
    /\ enforced = FALSE

-----------------------------------------------------------------------------
(* Boot: configure(), then setup().  No route is mounted yet. *)

\* _load_state on a machine with no state file: the default is flushed, the
\* seed rules are added and saved; either flush can fail.
LoadFresh ==
    /\ phase = "down" /\ file = None
    /\ live' = SeededConfig
    /\ desired' = SeededConfig
    /\ current' = None
    /\ file' \in {None, SF!Envelop(EmptyConfig, None), SF!Envelop(SeededConfig, None)}
    /\ phase' = "loaded"
    /\ UNCHANGED <<threadVars, kernel, nftFile, enforced>>

\* Mutant of LoadExisting: boots from what was last applied.
LoadApplied ==
    /\ phase = "down" /\ file # None
    /\ SF!LoadDesired
    /\ live' = current'
    /\ phase' = "loaded"
    /\ UNCHANGED <<threadVars, kernel, nftFile, enforced>>

LoadExisting ==
    /\ phase = "down" /\ file # None
    /\ SF!LoadDesired
    /\ live' = desired'
    /\ phase' = "loaded"
    /\ UNCHANGED <<threadVars, kernel, nftFile, enforced>>

\* _apply_state returns before compiling when there is nothing to apply, which
\* it decides from the rules and never from the chains.
NothingToReapply == Enabled(live) = {}

SkipReapply ==
    /\ phase = "loaded"
    /\ IgnoreStateOnBoot \/ NothingToReapply
    /\ phase' = "up"
    /\ UNCHANGED <<memVars, file, threadVars, kernel, nftFile, enforced>>

Reapply ==
    /\ phase = "loaded"
    /\ ~IgnoreStateOnBoot /\ ~NothingToReapply
    /\ Loads(Compile(live))
    /\ kernel' = Compile(live)
    /\ enforced' = TRUE
    /\ phase' = "reapplied"
    /\ UNCHANGED <<memVars, file, threadVars, nftFile>>

CommitReapplied ==
    /\ phase = "reapplied"
    /\ SF!Commit(live)
    /\ phase' = "up"
    /\ UNCHANGED <<live, threadVars, kernel, nftFile, enforced>>

\* sudo or nft fails, or the script is refused: logged, and the boot goes on.
ReapplyFails ==
    /\ phase = "loaded"
    /\ ~IgnoreStateOnBoot /\ ~NothingToReapply
    /\ phase' = "up"
    /\ UNCHANGED <<memVars, file, threadVars, kernel, nftFile, enforced>>

-----------------------------------------------------------------------------
(* Requests. *)

Goto(t, step) == pc' = [pc EXCEPT ![t] = step]

Hold(t, c) == held' = [held EXCEPT ![t] = c]

Ready(t) == phase = "up" /\ pc[t] = "idle"

\* The handler changes a dict and calls _save_state.
Edit(t, c) ==
    /\ Ready(t)
    /\ live' = c
    /\ Goto(t, "snapshot")
    /\ UNCHANGED <<phase, desired, current, file, held, kernel, nftFile, enforced>>

CreateRule(t, body) ==
    /\ live # None /\ live.rules[body] = Absent            \* else 409
    /\ Edit(t, [live EXCEPT !.rules[body] = body])

UpdateRule(t, id, body) ==
    /\ live # None /\ live.rules[id] # Absent              \* else 404
    /\ Edit(t, [live EXCEPT !.rules[id] = body])

DeleteRule(t, id) ==
    /\ live # None /\ live.rules[id] # Absent              \* else 404
    /\ Edit(t, [live EXCEPT !.rules[id] = Absent])

UpdateChain(t, policy) ==
    /\ live # None
    /\ Edit(t, [live EXCEPT !.policy = policy])

\* Mutants of Discard: nothing is saved; one section is forgotten.
DiscardUnsaved(t) ==
    /\ Ready(t) /\ current # None
    /\ live' = current
    /\ UNCHANGED <<phase, desired, current, file, threadVars, kernel, nftFile, enforced>>

DiscardRulesOnly(t) ==
    /\ current # None
    /\ Edit(t, [live EXCEPT !.rules = current.rules])

\* Every section is rebuilt from the committed snapshot.
Discard(t) ==
    /\ current # None                                      \* else 409
    /\ Edit(t, [live EXCEPT !.rules = current.rules, !.policy = current.policy])

\* _save_state: the snapshot is built first, then handed to save_desired.
Snapshot(t) ==
    /\ pc[t] = "snapshot"
    /\ Hold(t, live)
    /\ Goto(t, "save")
    /\ UNCHANGED <<phase, memVars, file, kernel, nftFile, enforced>>

\* Mutant of Save: every mutation is committed, as in the immediate model.
SaveCommitted(t) ==
    /\ pc[t] = "save"
    /\ SF!SaveAndCommit(held[t])
    /\ Hold(t, None)
    /\ Goto(t, "idle")
    /\ UNCHANGED <<phase, live, kernel, nftFile, enforced>>

Save(t) ==
    /\ pc[t] = "save"
    /\ SF!SaveDesired(held[t])
    /\ Hold(t, None)
    /\ Goto(t, "idle")
    /\ UNCHANGED <<phase, live, kernel, nftFile, enforced>>

WriteNftFile(script) == nftFile' = IF EnableOsBoot THEN script ELSE None

\* POST /apply compiles the live dicts and writes the script to a file ...
Apply(t) ==
    /\ Ready(t)
    /\ Hold(t, live)
    /\ WriteNftFile(Compile(live))
    /\ Goto(t, "nft")
    /\ UNCHANGED <<phase, memVars, file, kernel, enforced>>

\* ... runs nft on it, a subprocess during which other requests go on ...
NftLoads(t) ==
    /\ pc[t] = "nft"
    /\ Loads(Compile(held[t]))
    /\ kernel' = Compile(held[t])
    /\ enforced' = TRUE
    /\ Goto(t, "commit")
    /\ UNCHANGED <<phase, memVars, file, held, nftFile>>

\* Mutant of NftFails: the return code is not looked at.
NftFailsUnnoticed(t) ==
    /\ pc[t] = "nft"
    /\ Goto(t, "commit")
    /\ UNCHANGED <<phase, memVars, file, held, kernel, nftFile, enforced>>

NftFails(t) ==
    /\ pc[t] = "nft"
    /\ Hold(t, None)
    /\ Goto(t, "idle")
    /\ UNCHANGED <<phase, memVars, file, kernel, nftFile, enforced>>

\* ... and calls commit() without a snapshot.
Commit(t) ==
    /\ pc[t] = "commit"
    /\ SF!CommitDesired
    /\ Hold(t, None)
    /\ Goto(t, "idle")
    /\ UNCHANGED <<phase, live, kernel, nftFile, enforced>>

\* POST /compile with the default filter_name writes the same file.
CompileToFile(t) ==
    /\ Ready(t)
    /\ WriteNftFile(Compile(live))
    /\ UNCHANGED <<phase, memVars, file, threadVars, kernel, enforced>>

-----------------------------------------------------------------------------
Die ==
    /\ phase # "down"
    /\ phase' = "down"
    /\ live' = None
    /\ SF!Forget
    /\ pc' = [t \in Thread |-> "idle"]
    /\ held' = [t \in Thread |-> None]
    /\ enforced' = FALSE
    /\ UNCHANGED nftFile

\* The server process ends, by a signal or a failure; nothing is torn down.
Crash == Die /\ UNCHANGED kernel

\* The machine restarts; the boot service, if registered, loads the file.
Reboot ==
    /\ Die
    /\ kernel' = IF nftFile # None /\ Loads(nftFile) THEN nftFile ELSE None

Boot == LoadFresh \/ LoadExisting \/ SkipReapply \/ Reapply \/ CommitReapplied \/ ReapplyFails

Request(t) ==
    \/ \E body \in Body : CreateRule(t, body)
    \/ \E id, body \in Body : UpdateRule(t, id, body)
    \/ \E id \in Body : DeleteRule(t, id)
    \/ \E policy \in Policy : UpdateChain(t, policy)
    \/ Discard(t) \/ Apply(t) \/ CompileToFile(t)

Continue(t) == Snapshot(t) \/ Save(t) \/ NftLoads(t) \/ NftFails(t) \/ Commit(t)

Next ==
    \/ Boot
    \/ \E t \in Thread : Request(t) \/ Continue(t)
    \/ Crash \/ Reboot

Spec == Init /\ [][Next]_vars

-----------------------------------------------------------------------------
Idle == \A t \in Thread : pc[t] = "idle"

\* Once this process has loaded a script, what current_state reports as
\* applied is what the kernel runs, except between nft and the commit.
RecordedIsEnforced ==
    enforced /\ phase = "up" /\ (\A t \in Thread : pc[t] # "commit")
        => current # None /\ kernel = Compile(current)

\* When every request has been answered, desired_state is what the plugin
\* lists: README.md, "Updated on every API mutation".
MutationsAreSaved == phase = "up" /\ Idle => desired = live

\* A discard leaves the plugin with the configuration the kernel runs, all
\* sections of it, so that applying it again would change nothing.
DiscardRestoresKernel ==
    [][\A t \in Thread : Discard(t) /\ enforced => Compile(live') = kernel]_vars

\* current_state is "the last state that was successfully applied to the
\* system": a request that sets it sets it to what the kernel runs.
CommitRecordsKernel ==
    [][\A t \in Thread : Commit(t) => kernel = Compile(current')]_vars

\* "the system configuration survives a reboot": a boot that finds nothing to
\* re-apply, with nothing pending, leaves the kernel as desired.
SkippedBootIsHarmless ==
    [][SkipReapply /\ desired = current => kernel = Compile(live)]_vars

\* Requests that do not overlap keep the promise of the deferred model.
Promise == INSTANCE DeferredConfig WITH
              Image <- Compile, intended <- live, enforced <- kernel, recorded <- current

KeepsPromise == Promise!Spec
===============================================================================
