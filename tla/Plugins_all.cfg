SPECIFICATION PluginsSpec
CONSTANTS
    None = None
    Chosen <- AllPlugins
    t1 = t1
    t2 = t2
    Thread <- TwoThreads
    Id = {"id"}
    ListId = {"list"}
    Item = {"good", "bad"}
    Domains = {"ads", "more"}
    BadItem = {"bad"}
    DnsEarlier <- DnsBefore
    MaxServices = 1
    MaxDnsOps = 4
    App = {"web"}
    Upstream = {"good", "bad"}
    Rejected = {"bad"}
    Setting = {"s1", "s2"}
    DefaultSetting = "s1"
    DefaultApps <- Itself
    MaxCadOps = 7
    Param = {"p"}
    User = {"u"}
    Group = {"g"}
    Job = {"j1", "j2"}
    Kmod = {"m"}
    Spec = {"v", "w"}
    Volatile = {"w"}
    Command = {"c"}
    Schedule = {"daily", "always"}
    Always = "always"
    Foreign <- SystemJobs
    ConfFile = {"f"}
    MaxHostOps = 3
    Svc = {"s"}
    Definition = {"d1", "d2"}
    MaxEvents = 4
    Service = {"s", "g"}
    Exits = {"s"}
    Generated = {"g"}
    Package = {"curl"}
    Repo = {"r1", "r2"}
    Url = {"stock", "vendor"}
    StockUrl = "stock"
    Origin <- Origins
    Platform <- Platforms
    MaxPkgOps = 2
    Field = {"f"}
    SettingValue = {"a", "b"}
    MaxDmnOps = 3
SYMMETRY ThreadSymmetry
INVARIANTS
    DnsTypeOK  DnsRecordIsServed
    CadTypeOK  CadCommitIsServed
    HostTypeOK ManagedIsOnSystem
    RunningHasUnit
    PkgTypeOK ManagedIsAsShown
    ConfHoldsSettings DaemonServesConf
PROPERTIES
    RefreshResurrectsNothing BootServesWorking ModuleStaysConfigured
CHECK_DEADLOCK FALSE
