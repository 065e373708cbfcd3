------------------------------ MODULE Startup ------------------------------
(***************************************************************************)
(* From the command line to the first listener: run_waf in src/main.rs,    *)
(* AppConfig::validate in src/config.rs, WafEngine::from_config in         *)
(* src/engine.rs with the loading of modules in src/wasm/vm.rs, and the    *)
(* parsing of upstreams at the top of run() in src/proxy.rs.  Where it     *)
(* ends well, Proxy.tla begins.                                            *)
(***************************************************************************)
EXTENDS Integers, Sequences

CONSTANTS
    Configs,    \* configurations a file may hold
    Path,       \* paths of modules
    Blank,      \* a string with nothing but white space in it
    None        \* the absent value of every Option

(* What starts with http:// is "http" if it has a host and a port that is  *)
(* a u16 or none, and "broken http" if it does not.                        *)
Url == {"http", "broken http", "other", "blank"}

(* What is found at a path: nothing; bytes that do not compile; a module   *)
(* that imports what the host does not offer; one whose start function     *)
(* traps, or never ends; one that lacks an export or has it with another   *)
(* signature; one that can be used, importing env.abort or nothing.        *)
File == {"missing", "not wasm", "imports more", "traps", "endless", "lacks export"}
            \cup {"usable", "imports abort"}

Usable == {"usable", "imports abort"}

IsSequence(entries) == Len(entries) \in Nat /\ DOMAIN entries = 1 .. Len(entries)

ASSUME StartupAssumption ==
    \A c \in Configs :
        /\ IsSequence(c.sites) /\ IsSequence(c.profiles)
        /\ \A k \in DOMAIN c.sites : c.sites[k].url \in Url
        /\ \A k \in DOMAIN c.profiles : c.profiles[k].path \in Path \cup {Blank}

VARIABLES
    phase,      \* how far startup has come
    file,       \* what the file of the command line holds, None if no AppConfig
    disk,       \* what is at each module's path
    config,     \* the AppConfig read, or None
    next,       \* the profile or the site that is next in a loop
    instance,   \* "running" while a start function runs
    modules,    \* modules of the WasmVm: profile id -> path of the module
    params,     \* profile_params: the profiles that have some
    upstreams   \* upstreams of the SiteRuntimes made

vars == <<phase, file, disk, config, next, instance, modules, params, upstreams>>

TypeOK ==
    /\ phase \in {"read", "validate", "load", "parse", "run", "exit"}
    /\ config \in {file, None}
    /\ disk \in [Path -> File]
    /\ next \in Nat
    /\ instance \in {"none", "running"}
    /\ phase \in {"validate", "load", "parse", "run"} => config # None
    /\ \A id \in DOMAIN modules :
        /\ \E k \in DOMAIN config.profiles : config.profiles[k].id = id
        /\ modules[id] \in Path
    /\ upstreams \in Seq(Url)

Init ==
    /\ phase = "read"
    /\ file \in Configs \cup {None}
    /\ config = None
    /\ disk \in [Path -> File]
    /\ next = 1
    /\ instance = "none"
    /\ modules = << >>
    /\ params = << >>
    /\ upstreams = << >>

(* A function with one more argument, or another value at it: insert() *)
Put(f, x, v) == [y \in DOMAIN f \cup {x} |-> IF y = x THEN v ELSE f[y]]

Exit ==
    /\ phase' = "exit"
    /\ UNCHANGED <<file, disk, config, next, modules, params, upstreams>>

----------------------------------------------------------------------------
(* AppConfig::from_path *)
ReadConfig ==
    /\ phase = "read"
    /\ file # None
    /\ config' = file
    /\ phase' = "validate"
    /\ UNCHANGED <<file, disk, next, instance, modules, params, upstreams>>

ReadFails ==
    /\ phase = "read"
    /\ file = None
    /\ Exit
    /\ UNCHANGED instance

(* An entry whose key an earlier entry has: HashSet::insert is false. *)
Repeats(keys, k) == \E j \in 1 .. k - 1 : keys[j] = keys[k]

Ids(entries) == [k \in DOMAIN entries |-> entries[k].id]
Listens(entries) == [k \in DOMAIN entries |-> entries[k].listen]

ProfileValid(ps, k) ==
    /\ ps[k].id # Blank
    /\ ~Repeats(Ids(ps), k)
    /\ ps[k].path # Blank

(* Mutant of SiteValid: the profile is not looked up. *)
SiteValidAnyProfile(c, k) ==
    /\ c.sites[k].id # Blank /\ ~Repeats(Ids(c.sites), k)
    /\ c.sites[k].listen # Blank /\ ~Repeats(Listens(c.sites), k)
    /\ c.sites[k].url \in {"http", "broken http"}

SiteValid(c, k) ==
    /\ c.sites[k].id # Blank /\ ~Repeats(Ids(c.sites), k)
    /\ c.sites[k].listen # Blank /\ ~Repeats(Listens(c.sites), k)
    /\ c.sites[k].url \in {"http", "broken http"}
    /\ \E p \in DOMAIN c.profiles : c.profiles[p].id = c.sites[k].profile

Valid(c) ==
    /\ c.sites # << >> /\ c.profiles # << >>
    /\ \A k \in DOMAIN c.profiles : ProfileValid(c.profiles, k)
    /\ \A k \in DOMAIN c.sites : SiteValid(c, k)

Validate ==
    /\ phase = "validate"
    /\ IF Valid(config)
       THEN phase' = "load" /\ UNCHANGED <<file, disk, config, next, modules, params, upstreams>>
       ELSE Exit
    /\ UNCHANGED instance

----------------------------------------------------------------------------
(* The loop of from_config, and load_module in it *)
profile == config.profiles[next]

ToLoad == phase = "load" /\ next \in DOMAIN config.profiles

(* Mutant of Linked: the linker is given no env.abort. *)
LinkedAlone == File \ {"missing", "not wasm", "imports more", "imports abort"}

(* What can be read and compiled, and has its imports defined *)
Linked == File \ {"missing", "not wasm", "imports more"}

(* The module is instantiated: its start function runs. *)
Instantiate ==
    /\ ToLoad
    /\ instance = "none"
    /\ disk[profile.path] \in Linked
    /\ instance' = "running"
    /\ UNCHANGED <<phase, file, disk, config, next, modules, params, upstreams>>

LoadFails ==
    /\ ToLoad
    /\ instance = "none"
    /\ disk[profile.path] \notin Linked
    /\ Exit
    /\ UNCHANGED instance

(* Mutant of Trapping: no fuel is set, so an endless function does not end. *)
TrappingNoFuel == {"traps"}

(* Out of WASM_FUEL_PER_CALL, an endless function traps as well. *)
Trapping == {"traps", "endless"}

StartFails ==
    /\ instance = "running"
    /\ disk[profile.path] \in Trapping \cup {"lacks export"}
    /\ Exit
    /\ instance' = "none"

ModuleKey(p) == p.id

Loaded ==
    /\ instance = "running"
    /\ disk[profile.path] \in Usable
    /\ modules' = Put(modules, ModuleKey(profile), profile.path)
    /\ params' = IF profile.params = None THEN params
                 ELSE Put(params, profile.id, profile.params)
    /\ next' = next + 1
    /\ instance' = "none"
    /\ UNCHANGED <<phase, file, disk, config, upstreams>>

EngineReady ==
    /\ phase = "load"
    /\ next \notin DOMAIN config.profiles
    /\ phase' = "parse"
    /\ next' = 1
    /\ UNCHANGED <<file, disk, config, instance, modules, params, upstreams>>

----------------------------------------------------------------------------
(* The first loop of run() *)
site == config.sites[next]

ToParse == phase = "parse" /\ next \in DOMAIN config.sites

(* Upstream::parse *)
ParsesUrl(url) == url = "http"

ParseUpstream ==
    /\ ToParse
    /\ ParsesUrl(site.url)
    /\ upstreams' = Append(upstreams, site.url)
    /\ next' = next + 1
    /\ UNCHANGED <<phase, file, disk, config, instance, modules, params>>

ParseFails ==
    /\ ToParse
    /\ ~ParsesUrl(site.url)
    /\ Exit
    /\ UNCHANGED instance

StartsBinding ==
    /\ phase = "parse"
    /\ next \notin DOMAIN config.sites
    /\ phase' = "run"
    /\ UNCHANGED <<file, disk, config, next, instance, modules, params, upstreams>>

Next ==
    \/ ReadConfig \/ ReadFails \/ Validate
    \/ Instantiate \/ LoadFails \/ StartFails \/ Loaded \/ EngineReady
    \/ ParseUpstream \/ ParseFails \/ StartsBinding

(* Startup is one task that awaits nothing but the disk. *)
Spec == Init /\ [][Next]_vars /\ WF_vars(Next)

----------------------------------------------------------------------------
(* No listener opens before every site has what its connections will need: *)
(* the usable module that the one profile of that name points to, with its *)
(* parameters and no other profile's, and an upstream to connect to.  So   *)
(* decide() never misses the module of a profile.                          *)
SitesAreServed ==
    phase = "run" => \A s \in DOMAIN config.sites :
        /\ upstreams[s] = "http"
        /\ \E p \in DOMAIN config.profiles :
            LET it == config.profiles[p] IN
            /\ it.id = config.sites[s].profile
            /\ it.id \in DOMAIN modules
            /\ modules[it.id] = it.path /\ disk[it.path] \in Usable
            /\ it.params = IF it.id \in DOMAIN params THEN params[it.id] ELSE None
            /\ \A q \in DOMAIN config.profiles : config.profiles[q].id = it.id => q = p

(* A configuration that asks for something impossible is refused before    *)
(* any socket is opened; one that does not is served.                      *)
RefusedForCause ==
    phase = "exit" /\ config # None =>
        \/ ~Valid(config)
        \/ \E p \in DOMAIN config.profiles : disk[config.profiles[p].path] \notin Usable
        \/ \E s \in DOMAIN config.sites : config.sites[s].url # "http"

(* Startup ends, though the start function of a module may not. *)
StartupEnds == <>(phase \in {"run", "exit"})

(* The inductive invariant: the profiles and the sites the two loops have  *)
(* done with are all served, and nothing runs but to load the next.        *)
Fresh == next = 1 /\ modules = << >> /\ params = << >> /\ upstreams = << >>

LoadedUpTo(n) ==
    LET ps == config.profiles
    IN  /\ DOMAIN modules = {ps[k].id : k \in 1 .. n}
        /\ DOMAIN params \subseteq DOMAIN modules
        /\ \A k \in 1 .. n :
            /\ modules[ps[k].id] = ps[k].path
            /\ disk[ps[k].path] \in Usable
            /\ ps[k].params = IF ps[k].id \in DOMAIN params THEN params[ps[k].id] ELSE None

ParsedUpTo(n) ==
    /\ Len(upstreams) = n
    /\ \A k \in 1 .. n : config.sites[k].url = "http" /\ upstreams[k] = "http"

IInv ==
    /\ TypeOK
    /\ file \in Configs \cup {None}
    /\ phase = "read" => config = None /\ Fresh
    /\ phase = "validate" => config \in Configs /\ Fresh
    /\ phase \in {"load", "parse", "run"} => config \in Configs /\ Valid(config)
    /\ phase = "load" =>
        /\ next \in 1 .. Len(config.profiles) + 1
        /\ LoadedUpTo(next - 1)
        /\ upstreams = << >>
    /\ phase \in {"parse", "run"} => LoadedUpTo(Len(config.profiles))
    /\ phase = "parse" => next \in 1 .. Len(config.sites) + 1 /\ ParsedUpTo(next - 1)
    /\ phase = "run" => ParsedUpTo(Len(config.sites))
    /\ instance = "running" => ToLoad
    /\ RefusedForCause
============================================================================
