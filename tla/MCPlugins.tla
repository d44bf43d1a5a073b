------------------------------- MODULE MCPlugins -------------------------------
(***************************************************************************)
(* The plugins' models on small instances, with two request threads.  No   *)
(* two of them share a variable, so that a run explores each with the      *)
(* others at rest: a behaviour is one of the plugin it has chosen at its   *)
(* beginning.                                                              *)
(***************************************************************************)
EXTENDS Dnsmasq, Caddy, Host, InitSys, Packages, Daemon

CONSTANTS Chosen,     \* the plugins a run is about
          t1, t2

VARIABLE plug

AllPlugins == {"dnsmasq", "caddy", "host", "initsys", "packages", "daemon"}

TwoThreads == {t1, t2}
Tlc == INSTANCE TLC
ThreadSymmetry == Tlc!Permutations(TwoThreads)

\* Dnsmasq: a lease and a block list were installed by an earlier process.
DnsBefore == {[Defaults EXCEPT !.dhcp = TRUE, !.leases = "id" :> "good",
                               !.lists = "list" :> "ads"]}

\* Caddy: the application the plugin comes with.
Itself == "web" :> "good"

\* Host: the system has one command in /etc/cron.d and in /etc/cron.daily.
SystemJobs ==
    {[command |-> "c", schedule |-> "daily"], [command |-> "c", schedule |-> None]}

\* Packages: one package, found only in the repository that is not stock, and
\* each kind of package manager and of init system.
Origins == [p \in {"curl"} |-> "vendor"]
Platforms ==
    {[manager |-> "apt", initd |-> "systemd"], [manager |-> "pacman", initd |-> "systemd"],
     [manager |-> "apk", initd |-> "sysvinit"], [manager |-> "yum", initd |-> "upstart"],
     [manager |-> "unknown", initd |-> "systemd"]}

-----------------------------------------------------------------------------
\* One initial state of the plugins that are not chosen.
AtRest ==
    /\ plug # "dnsmasq" => dnsFile = None
    /\ plug # "initsys" => initSystem = "systemd"
    /\ plug # "packages" => manager = "apt"
    /\ plug # "daemon" => plugin = "syslog" /\ osBoot

PluginsInit ==
    /\ DnsInit /\ CadInit /\ HostInit /\ InitsysInit /\ PkgInit /\ DmnInit
    /\ plug \in Chosen
    /\ AtRest

PluginsNext ==
    /\ UNCHANGED plug
    /\ plug # "dnsmasq" => UNCHANGED dnsVars
    /\ plug # "caddy" => UNCHANGED cadVars
    /\ plug # "host" => UNCHANGED hostVars
    /\ plug # "initsys" => UNCHANGED initsysVars
    /\ plug # "packages" => UNCHANGED pkgVars
    /\ plug # "daemon" => UNCHANGED dmnVars
    /\ \/ plug = "dnsmasq" /\ DnsNext
       \/ plug = "caddy" /\ CadNext
       \/ plug = "host" /\ HostNext
       \/ plug = "initsys" /\ InitsysNext
       \/ plug = "packages" /\ PkgNext
       \/ plug = "daemon" /\ DmnNext

PluginsVars == <<plug, dnsVars, cadVars, hostVars, initsysVars, pkgVars, dmnVars>>

PluginsSpec == PluginsInit /\ [][PluginsNext]_PluginsVars
=============================================================================
