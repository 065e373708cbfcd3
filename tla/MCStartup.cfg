CONSTANTS
    Configs <- MCConfigs
    Path <- MCPath
    Blank = Blank
    None = None
SPECIFICATION Spec
INVARIANTS
    SitesAreServed
    RefusedForCause
PROPERTY
    StartupEnds
\* Startup ends; what follows is Proxy.tla.
CHECK_DEADLOCK FALSE
