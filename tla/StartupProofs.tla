---------------------------- MODULE StartupProofs ----------------------------
(* What is there when the first listener opens, and why startup is refused *)
(* when it is, for every configuration and every file at a module's path.  *)
EXTENDS Startup, TLAPS

(* The two loops of startup run over sequences. *)
LEMMA ConfigType ==
    ASSUME NEW c \in Configs
    PROVE  /\ Len(c.sites) \in Nat /\ DOMAIN c.sites = 1 .. Len(c.sites)
           /\ Len(c.profiles) \in Nat /\ DOMAIN c.profiles = 1 .. Len(c.profiles)
           /\ \A k \in DOMAIN c.sites : c.sites[k].url \in Url
           /\ \A k \in DOMAIN c.profiles : c.profiles[k].path \in Path \cup {Blank}
BY StartupAssumption DEF IsSequence

(* In a valid configuration, every profile has a path and an id of its own. *)
LEMMA ValidProfiles ==
    ASSUME NEW c \in Configs, Valid(c)
    PROVE  /\ \A k \in DOMAIN c.profiles : c.profiles[k].path \in Path
           /\ \A j, k \in DOMAIN c.profiles : c.profiles[j].id = c.profiles[k].id => j = k
<1>1. ASSUME NEW k \in DOMAIN c.profiles
      PROVE  c.profiles[k].path \in Path /\ ~Repeats(Ids(c.profiles), k)
    BY ConfigType DEF Valid, ProfileValid
<1>2. ASSUME NEW j \in DOMAIN c.profiles, NEW k \in DOMAIN c.profiles, j < k
      PROVE  c.profiles[j].id # c.profiles[k].id
  <2>1. j \in 1 .. k - 1
    BY <1>2, ConfigType
  <2>2. Ids(c.profiles)[j] # Ids(c.profiles)[k]
    BY <1>1, <2>1 DEF Repeats
  <2> QED
    BY <2>2 DEF Ids
<1>3. \A j, k \in DOMAIN c.profiles : j < k \/ k < j \/ j = k
    BY ConfigType
<1> QED
    BY <1>1, <1>2, <1>3

(* In a valid configuration, every site names a profile there is. *)
LEMMA ValidSites ==
    ASSUME NEW c \in Configs, Valid(c), NEW s \in DOMAIN c.sites
    PROVE  \E p \in DOMAIN c.profiles : c.profiles[p].id = c.sites[s].profile
BY DEF Valid, SiteValid

----------------------------------------------------------------------------
(* A configuration is as valid as it was while it is the same. *)
LEMMA SameValid ==
    ASSUME config' = config
    PROVE  Valid(config)' <=> Valid(config)
BY DEF Valid, ProfileValid, SiteValid, Repeats, Ids, Listens

(* Steps that leave the configuration and what was made of it as it was    *)
LEMMA Same ==
    ASSUME UNCHANGED <<file, disk, config, modules, params, upstreams>>, NEW n
    PROVE  /\ Valid(config)' <=> Valid(config)
           /\ LoadedUpTo(n)' <=> LoadedUpTo(n)
           /\ ParsedUpTo(n)' <=> ParsedUpTo(n)
<1>1. Valid(config)' <=> Valid(config)
    BY SameValid
<1>2. LoadedUpTo(n)' <=> LoadedUpTo(n)
    BY DEF LoadedUpTo
<1>3. ParsedUpTo(n)' <=> ParsedUpTo(n)
    BY DEF ParsedUpTo
<1> QED
    BY <1>1, <1>2, <1>3

(* Every first state satisfies the invariant. *)
LEMMA InvInit == Init => IInv
BY DEF Init, IInv, TypeOK, Fresh, RefusedForCause, Url

(* What a step that ends startup leaves to show: a cause *)
LEMMA InvExit ==
    ASSUME IInv, Exit, instance' = "none",
           config # None => \/ ~Valid(config)
                            \/ \E p \in DOMAIN config.profiles :
                                disk[config.profiles[p].path] \notin Usable
                            \/ \E s \in DOMAIN config.sites : config.sites[s].url # "http"
    PROVE  IInv'
<1>1. TypeOK'
    BY DEF Exit, IInv, TypeOK
<1>2. Valid(config)' <=> Valid(config)
    BY SameValid DEF Exit
<1>3. RefusedForCause'
    BY <1>2 DEF Exit, RefusedForCause
<1> QED
    BY <1>1, <1>3 DEF Exit, IInv

(* ReadConfig keeps the invariant. *)
LEMMA InvReadConfig == ASSUME IInv, ReadConfig PROVE IInv'
<1>1. /\ phase = "read" /\ phase' = "validate" /\ config' = file /\ file \in Configs /\ file # None
      /\ UNCHANGED <<file, disk, next, instance, modules, params, upstreams>> /\ Fresh
    BY DEF ReadConfig, IInv
<1>2. TypeOK'
    BY <1>1 DEF IInv, TypeOK, Fresh
<1>3. instance' = "none"
    BY <1>1 DEF IInv, TypeOK, ToLoad
<1> QED
    BY <1>1, <1>2, <1>3 DEF IInv, Fresh, RefusedForCause

(* ReadFails keeps the invariant. *)
LEMMA InvReadFails == ASSUME IInv, ReadFails PROVE IInv'
<1>1. config = None /\ instance' = instance /\ Exit
    BY DEF ReadFails, IInv
<1>2. instance = "none"
    BY DEF ReadFails, IInv, ToLoad, TypeOK
<1> QED
    BY <1>1, <1>2, InvExit

(* Validate keeps the invariant. *)
LEMMA InvValidate == ASSUME IInv, Validate PROVE IInv'
<1>1. phase = "validate" /\ config \in Configs /\ Fresh /\ TypeOK /\ instance' = instance
    BY DEF Validate, IInv
<1>2. instance = "none"
    BY <1>1 DEF IInv, ToLoad, TypeOK
<1>3. CASE Valid(config)
  <2>1. phase' = "load" /\ UNCHANGED <<file, disk, config, next, modules, params, upstreams>>
    BY <1>3 DEF Validate
  <2>2. config # None
    BY <1>1 DEF TypeOK
  <2>3. TypeOK'
    BY <1>1, <2>1, <2>2 DEF TypeOK
  <2>4. Valid(config)'
    BY <1>3, <2>1, SameValid
  <2>5. next' = 1 /\ 1 \in 1 .. Len(config'.profiles) + 1
    BY <1>1, <2>1, ConfigType DEF Fresh
  <2>6. LoadedUpTo(next - 1)'
    BY <1>1, <2>1, <2>5 DEF LoadedUpTo, Fresh
  <2> QED
    BY <1>1, <1>2, <2>1, <2>3, <2>4, <2>5, <2>6 DEF IInv, Fresh, RefusedForCause
<1>4. CASE ~Valid(config)
  <2>1. Exit
    BY <1>4 DEF Validate
  <2> QED
    BY <1>1, <1>2, <1>4, <2>1, InvExit
<1> QED
    BY <1>3, <1>4

(* Instantiate keeps the invariant. *)
LEMMA InvInstantiate == ASSUME IInv, Instantiate PROVE IInv'
<1>1. /\ ToLoad /\ phase = "load" /\ instance' = "running"
      /\ UNCHANGED <<phase, file, disk, config, next, modules, params, upstreams>>
    BY DEF Instantiate, ToLoad
<1>2. TypeOK'
    BY <1>1 DEF IInv, TypeOK
<1>3. Valid(config)' /\ LoadedUpTo(next - 1)' /\ ToLoad'
    BY <1>1, SameValid DEF IInv, LoadedUpTo, ToLoad
<1> QED
    BY <1>1, <1>2, <1>3 DEF IInv, RefusedForCause

(* LoadFails keeps the invariant. *)
LEMMA InvLoadFails == ASSUME IInv, LoadFails PROVE IInv'
<1>1. Exit /\ instance' = "none" /\ next \in DOMAIN config.profiles
      /\ disk[config.profiles[next].path] \notin Usable
    BY DEF LoadFails, ToLoad, profile, Linked, Usable, File
<1> QED
    BY <1>1, InvExit

(* StartFails keeps the invariant. *)
LEMMA InvStartFails == ASSUME IInv, StartFails PROVE IInv'
<1>1. ToLoad
    BY DEF StartFails, IInv
<1>2. Exit /\ instance' = "none" /\ next \in DOMAIN config.profiles
      /\ disk[config.profiles[next].path] \notin Usable
    BY <1>1 DEF StartFails, ToLoad, profile, Trapping, Usable
<1> QED
    BY <1>2, InvExit

(* The profile just loaded is served, and so are those before it, whose    *)
(* ids are others.                                                         *)
LEMMA LoadedNext ==
    ASSUME IInv, Loaded
    PROVE  LoadedUpTo(next - 1)'
<1> DEFINE ps == config.profiles
           it == ps[next]
<1>1. /\ ToLoad /\ phase = "load" /\ next \in DOMAIN ps /\ disk[it.path] \in Usable
      /\ modules' = Put(modules, it.id, it.path)
      /\ params' = IF it.params = None THEN params ELSE Put(params, it.id, it.params)
      /\ config' = config /\ disk' = disk /\ next' = next + 1
    BY DEF Loaded, IInv, ToLoad, profile, ModuleKey
<1>2. /\ config \in Configs /\ Valid(config)
      /\ DOMAIN modules = {ps[k].id : k \in 1 .. next - 1}
      /\ DOMAIN params \subseteq DOMAIN modules
      /\ \A k \in 1 .. next - 1 :
            /\ modules[ps[k].id] = ps[k].path
            /\ disk[ps[k].path] \in Usable
            /\ ps[k].params = IF ps[k].id \in DOMAIN params THEN params[ps[k].id] ELSE None
    BY <1>1 DEF IInv, LoadedUpTo
<1>3. /\ next \in Nat \ {0} /\ next' - 1 = next /\ 1 .. next = 1 .. next - 1 \cup {next}
      /\ 1 .. next \subseteq DOMAIN ps
    BY <1>1, <1>2, ConfigType
<1>4. \A k \in 1 .. next - 1 : ps[k].id # it.id
  <2>1. \A k \in 1 .. next - 1 : k \in DOMAIN ps /\ k # next
    BY <1>3
  <2> QED
    BY <1>1, <1>2, <2>1, ValidProfiles
<1>5. it.id \notin DOMAIN params
    BY <1>2, <1>4
<1> HIDE DEF it
<1>6. /\ DOMAIN modules' = DOMAIN modules \cup {it.id}
      /\ modules'[it.id] = it.path
      /\ \A id \in DOMAIN modules : id # it.id => modules'[id] = modules[id]
    BY <1>1 DEF Put
<1>7. /\ DOMAIN params' \subseteq DOMAIN params \cup {it.id}
      /\ it.params = IF it.id \in DOMAIN params' THEN params'[it.id] ELSE None
      /\ \A id \in DOMAIN modules :
            id # it.id => /\ id \in DOMAIN params' <=> id \in DOMAIN params
                          /\ id \in DOMAIN params => params'[id] = params[id]
    BY <1>1, <1>5 DEF Put
<1>8. DOMAIN modules' = {ps[k].id : k \in 1 .. next}
    BY <1>2, <1>3, <1>6 DEF it
<1>9. DOMAIN params' \subseteq DOMAIN modules'
    BY <1>2, <1>6, <1>7
<1>10. ASSUME NEW k \in 1 .. next
       PROVE  /\ modules'[ps[k].id] = ps[k].path
              /\ disk[ps[k].path] \in Usable
              /\ ps[k].params = IF ps[k].id \in DOMAIN params' THEN params'[ps[k].id] ELSE None
  <2>1. CASE k = next
    BY <1>1, <1>6, <1>7, <2>1 DEF it
  <2>2. CASE k \in 1 .. next - 1
    <3>1. ps[k].id # it.id /\ ps[k].id \in DOMAIN modules
        BY <1>2, <1>4, <2>2
    <3>2. modules'[ps[k].id] = modules[ps[k].id]
        BY <1>6, <3>1
    <3>3. /\ ps[k].id \in DOMAIN params' <=> ps[k].id \in DOMAIN params
          /\ ps[k].id \in DOMAIN params => params'[ps[k].id] = params[ps[k].id]
        BY <1>7, <3>1
    <3> HIDE DEF ps
    <3> QED
        BY <1>2, <2>2, <3>2, <3>3
  <2> QED
    BY <1>3, <2>1, <2>2
<1> QED
    BY <1>1, <1>3, <1>8, <1>9, <1>10 DEF LoadedUpTo

(* Loaded keeps the invariant. *)
LEMMA InvLoaded == ASSUME IInv, Loaded PROVE IInv'
<1>1. /\ ToLoad /\ phase = "load" /\ phase' = "load" /\ next \in DOMAIN config.profiles
      /\ next' = next + 1 /\ instance' = "none"
      /\ UNCHANGED <<phase, file, disk, config, upstreams>>
    BY DEF Loaded, IInv, ToLoad
<1>2. config \in Configs /\ Valid(config) /\ TypeOK /\ upstreams = << >>
    BY <1>1 DEF IInv
<1>3. next' \in 1 .. Len(config.profiles) + 1 /\ next' \in Nat /\ 1 .. next' - 1 \subseteq DOMAIN config.profiles
    BY <1>1, <1>2, ConfigType
<1>4. LoadedUpTo(next - 1)'
    BY LoadedNext
<1>5. ASSUME NEW id \in DOMAIN modules'
      PROVE  /\ \E k \in DOMAIN config.profiles : config.profiles[k].id = id
             /\ modules'[id] \in Path
  <2>1. PICK k \in 1 .. next' - 1 : id = config.profiles[k].id /\ modules'[id] = config.profiles[k].path
    BY <1>1, <1>4 DEF LoadedUpTo
  <2> QED
    BY <1>2, <1>3, <2>1, ValidProfiles
<1>6. TypeOK'
    BY <1>1, <1>2, <1>3, <1>5 DEF TypeOK
<1> QED
    BY <1>1, <1>2, <1>3, <1>4, <1>6, SameValid DEF IInv, RefusedForCause

(* EngineReady keeps the invariant. *)
LEMMA InvEngineReady == ASSUME IInv, EngineReady PROVE IInv'
<1>1. /\ phase = "load" /\ phase' = "parse" /\ next \notin DOMAIN config.profiles /\ next' = 1
      /\ UNCHANGED <<file, disk, config, instance, modules, params, upstreams>>
    BY DEF EngineReady
<1>2. /\ config \in Configs /\ Valid(config) /\ TypeOK /\ upstreams = << >>
      /\ next \in 1 .. Len(config.profiles) + 1 /\ LoadedUpTo(next - 1)
    BY <1>1 DEF IInv
<1>3. next - 1 = Len(config.profiles) /\ 1 \in 1 .. Len(config.sites) + 1
    BY <1>1, <1>2, ConfigType
<1>4. instance = "none"
    BY <1>1 DEF IInv, ToLoad, TypeOK
<1>5. LoadedUpTo(Len(config.profiles))'
    BY <1>1, <1>2, <1>3, Same
<1>6. ParsedUpTo(next - 1)'
    BY <1>1, <1>2 DEF ParsedUpTo
<1>7. TypeOK'
    BY <1>1, <1>2 DEF TypeOK
<1> QED
    BY <1>1, <1>2, <1>3, <1>4, <1>5, <1>6, <1>7, SameValid DEF IInv, RefusedForCause

(* ParseUpstream keeps the invariant. *)
LEMMA InvParseUpstream == ASSUME IInv, ParseUpstream PROVE IInv'
<1>1. /\ phase = "parse" /\ next \in DOMAIN config.sites /\ config.sites[next].url = "http"
      /\ upstreams' = Append(upstreams, "http") /\ next' = next + 1
      /\ UNCHANGED <<phase, file, disk, config, instance, modules, params>>
    BY DEF ParseUpstream, ToParse, site, ParsesUrl
<1>2. /\ config \in Configs /\ Valid(config) /\ TypeOK /\ upstreams \in Seq(Url)
      /\ LoadedUpTo(Len(config.profiles)) /\ ParsedUpTo(next - 1)
    BY <1>1 DEF IInv, TypeOK
<1>3. next \in Nat \ {0} /\ next' \in 1 .. Len(config.sites) + 1 /\ next' - 1 = next
    BY <1>1, <1>2, ConfigType
<1>4. instance = "none"
    BY <1>1 DEF IInv, ToLoad, TypeOK
<1>5. LoadedUpTo(Len(config.profiles))'
    BY <1>1, <1>2 DEF LoadedUpTo
<1>6. /\ upstreams' \in Seq(Url) /\ Len(upstreams') = next
      /\ \A k \in 1 .. next : upstreams'[k] = "http"
  <2>1. /\ Len(upstreams) = next - 1 /\ "http" \in Url
        /\ \A k \in 1 .. next - 1 : upstreams[k] = "http"
    BY <1>2 DEF ParsedUpTo, Url
  <2>2. /\ upstreams' \in Seq(Url) /\ Len(upstreams') = Len(upstreams) + 1
        /\ \A k \in 1 .. Len(upstreams) : upstreams'[k] = upstreams[k]
        /\ upstreams'[Len(upstreams) + 1] = "http"
    BY <1>1, <1>2, <2>1
  <2> QED
    BY <1>3, <2>1, <2>2
<1>7. \A k \in 1 .. next : config.sites[k].url = "http"
  <2>1. \A k \in 1 .. next : k \in 1 .. next - 1 \/ k = next
    BY <1>3
  <2> QED
    BY <1>1, <1>2, <2>1 DEF ParsedUpTo
<1>8. ParsedUpTo(next - 1)'
    BY <1>1, <1>3, <1>6, <1>7 DEF ParsedUpTo
<1>9. TypeOK'
    BY <1>1, <1>2, <1>3, <1>6 DEF TypeOK
<1> QED
    BY <1>1, <1>2, <1>3, <1>4, <1>5, <1>8, <1>9, SameValid DEF IInv, RefusedForCause

(* ParseFails keeps the invariant. *)
LEMMA InvParseFails == ASSUME IInv, ParseFails PROVE IInv'
<1>1. /\ Exit /\ instance' = instance /\ phase = "parse"
      /\ next \in DOMAIN config.sites /\ config.sites[next].url # "http"
    BY DEF ParseFails, ToParse, site, ParsesUrl
<1>2. instance = "none"
    BY <1>1 DEF IInv, ToLoad, TypeOK
<1> QED
    BY <1>1, <1>2, InvExit

(* StartsBinding keeps the invariant. *)
LEMMA InvStartsBinding == ASSUME IInv, StartsBinding PROVE IInv'
<1>1. /\ phase = "parse" /\ phase' = "run" /\ next \notin DOMAIN config.sites
      /\ UNCHANGED <<file, disk, config, next, instance, modules, params, upstreams>>
    BY DEF StartsBinding
<1>2. /\ config \in Configs /\ Valid(config) /\ TypeOK /\ LoadedUpTo(Len(config.profiles))
      /\ next \in 1 .. Len(config.sites) + 1 /\ ParsedUpTo(next - 1)
    BY <1>1 DEF IInv
<1>3. next - 1 = Len(config.sites)
    BY <1>1, <1>2, ConfigType
<1>4. instance = "none"
    BY <1>1 DEF IInv, ToLoad, TypeOK
<1>5. LoadedUpTo(Len(config.profiles))' /\ ParsedUpTo(Len(config.sites))'
    BY <1>1, <1>2, <1>3, Same
<1>6. TypeOK'
    BY <1>1, <1>2 DEF TypeOK
<1> QED
    BY <1>1, <1>2, <1>4, <1>5, <1>6, SameValid DEF IInv, RefusedForCause

(* Every step keeps the invariant. *)
LEMMA InvStep == IInv /\ [Next]_vars => IInv'
<1> SUFFICES ASSUME IInv, [Next]_vars PROVE IInv'
    OBVIOUS
<1>1. CASE UNCHANGED vars
  <2>1. UNCHANGED <<phase, file, disk, config, next, instance, modules, params, upstreams>>
    BY <1>1 DEF vars
  <2>2. TypeOK' /\ RefusedForCause' /\ Fresh' = Fresh /\ ToLoad' = ToLoad
    BY <2>1, SameValid DEF IInv, TypeOK, RefusedForCause, Fresh, ToLoad
  <2>3. /\ Valid(config)' <=> Valid(config)
        /\ LoadedUpTo(next - 1)' <=> LoadedUpTo(next - 1)
        /\ LoadedUpTo(Len(config.profiles))' <=> LoadedUpTo(Len(config.profiles))
        /\ ParsedUpTo(next - 1)' <=> ParsedUpTo(next - 1)
        /\ ParsedUpTo(Len(config.sites))' <=> ParsedUpTo(Len(config.sites))
    BY <2>1, SameValid DEF LoadedUpTo, ParsedUpTo
  <2> QED
    BY <2>1, <2>2, <2>3 DEF IInv
<1> QED
    BY <1>1, InvReadConfig, InvReadFails, InvValidate, InvInstantiate, InvLoadFails,
       InvStartFails, InvLoaded, InvEngineReady, InvParseUpstream, InvParseFails,
       InvStartsBinding DEF Next

(* The inductive invariant of startup holds always. *)
THEOREM Invariance == Spec => []IInv
BY InvInit, InvStep, PTL DEF Spec

(* No module is kept but those of the profiles of the configuration.       *)
THEOREM TypeCorrect == Spec => []TypeOK
<1>1. IInv => TypeOK
    BY DEF IInv
<1> QED
    BY <1>1, Invariance, PTL

(* Whatever the configuration and the files it points to, no listener      *)
(* opens before every site has the module, the parameters and the upstream *)
(* its connections will need: decide() finds the module of every profile.  *)
THEOREM AllSitesAreServed == Spec => []SitesAreServed
<1>1. IInv => SitesAreServed
  <2> SUFFICES ASSUME IInv, phase = "run", NEW s \in DOMAIN config.sites
               PROVE  /\ upstreams[s] = "http"
                      /\ \E p \in DOMAIN config.profiles :
                            LET it == config.profiles[p] IN
                            /\ it.id = config.sites[s].profile
                            /\ it.id \in DOMAIN modules
                            /\ modules[it.id] = it.path /\ disk[it.path] \in Usable
                            /\ it.params = IF it.id \in DOMAIN params THEN params[it.id] ELSE None
                            /\ \A q \in DOMAIN config.profiles : config.profiles[q].id = it.id => q = p
    BY DEF SitesAreServed
  <2>1. /\ config \in Configs /\ Valid(config)
        /\ LoadedUpTo(Len(config.profiles)) /\ ParsedUpTo(Len(config.sites))
    BY DEF IInv
  <2>2. /\ DOMAIN config.profiles = 1 .. Len(config.profiles)
        /\ s \in 1 .. Len(config.sites)
    BY <2>1, ConfigType
  <2>3. upstreams[s] = "http"
    BY <2>1, <2>2 DEF ParsedUpTo
  <2>4. PICK p \in DOMAIN config.profiles : config.profiles[p].id = config.sites[s].profile
    BY <2>1, ValidSites
  <2>5. \A q \in DOMAIN config.profiles : config.profiles[q].id = config.profiles[p].id => q = p
    BY <2>1, ValidProfiles
  <2> QED
    BY <2>1, <2>2, <2>3, <2>4, <2>5 DEF LoadedUpTo
<1> QED
    BY <1>1, Invariance, PTL

(* Startup never refuses a configuration without a cause in it or in the   *)
(* modules: one that is valid, whose modules can be used and whose         *)
(* upstreams parse is never refused.                                       *)
THEOREM RefusalHasCause == Spec => []RefusedForCause
<1>1. IInv => RefusedForCause
    BY DEF IInv
<1> QED
    BY <1>1, Invariance, PTL
----------------------------------------------------------------------------
(* What is left of startup, in a phase, with the file's numbers of         *)
(* profiles and sites, at the n-th of them: two steps for a profile, of    *)
(* which one is done when its module runs, and one for a site.             *)
StepsFrom(p, profiles, sites, n, running) ==
    CASE p = "read" -> 2 * profiles + sites + 4
      [] p = "validate" -> 2 * profiles + sites + 3
      [] p = "load" -> 2 * (profiles + 1 - n) - running + sites + 2
      [] p = "parse" -> sites + 1 - n + 1
      [] OTHER -> 0

Running(i) == IF i = "running" THEN 1 ELSE 0

StepsLeft ==
    IF file = None THEN (IF phase = "read" THEN 1 ELSE 0)
    ELSE StepsFrom(phase, Len(file.profiles), Len(file.sites), next, Running(instance))

(* The phases, one by one *)
LEMMA Phases ==
    ASSUME NEW profiles, NEW sites, NEW n, NEW running
    PROVE  /\ StepsFrom("read", profiles, sites, n, running) = 2 * profiles + sites + 4
           /\ StepsFrom("validate", profiles, sites, n, running) = 2 * profiles + sites + 3
           /\ StepsFrom("load", profiles, sites, n, running) =
                  2 * (profiles + 1 - n) - running + sites + 2
           /\ StepsFrom("parse", profiles, sites, n, running) = sites + 1 - n + 1
           /\ StepsFrom("run", profiles, sites, n, running) = 0
           /\ StepsFrom("exit", profiles, sites, n, running) = 0
BY DEF StepsFrom

(* A file that was read is the configuration, and has its numbers. *)
LEMMA Counted ==
    ASSUME IInv
    PROVE  /\ phase \in {"validate", "load", "parse", "run"} => file # None /\ config = file
           /\ file # None => Len(file.profiles) \in Nat /\ Len(file.sites) \in Nat
           /\ next \in Nat
<1>1. file # None => file \in Configs
    BY DEF IInv
<1>2. phase \in {"validate", "load", "parse", "run"} => config # None /\ config \in {file, None}
    BY DEF IInv, TypeOK
<1>3. next \in Nat
    BY DEF IInv, TypeOK
<1>4. file # None => Len(file.profiles) \in Nat /\ Len(file.sites) \in Nat
    BY <1>1, ConfigType
<1> QED
    BY <1>2, <1>3, <1>4

(* A step of startup is one less that is left. *)
LEMMA StepAdvances == IInv /\ [Next]_vars => [StepsLeft' < StepsLeft]_vars
<1> SUFFICES ASSUME IInv, Next PROVE StepsLeft' < StepsLeft
    BY DEF vars
<1> DEFINE P == Len(file.profiles)
           S == Len(file.sites)
<1> HIDE DEF P, S
<1>1. CASE ReadFails
  <2>1. StepsLeft = 1 /\ StepsLeft' = 0
    BY <1>1 DEF ReadFails, Exit, StepsLeft
  <2> QED
    BY <2>1
<1>2. CASE ReadConfig
  <2>1. file # None /\ file' = file /\ phase = "read" /\ phase' = "validate"
    BY <1>2 DEF ReadConfig
  <2>2. StepsLeft = StepsFrom("read", P, S, next, Running(instance))
    BY <2>1 DEF StepsLeft, P, S
  <2>3. StepsLeft' = StepsFrom("validate", P, S, next', Running(instance'))
    BY <2>1 DEF StepsLeft, P, S
  <2>4. StepsLeft = 2 * P + S + 4
    BY <2>2, Phases
  <2>5. StepsLeft' = 2 * P + S + 3
    BY <2>3, Phases
  <2>6. P \in Nat /\ S \in Nat
    BY <2>1, Counted DEF P, S
  <2> QED
    BY <2>4, <2>5, <2>6
<1>3. ASSUME phase \in {"validate", "load", "parse"}
      PROVE  /\ file # None /\ P \in Nat /\ S \in Nat /\ next \in Nat /\ config = file
             /\ StepsLeft = StepsFrom(phase, P, S, next, Running(instance))
    BY <1>3, Counted DEF StepsLeft, P, S
<1>4. ASSUME phase = "load" PROVE next \in 1 .. P + 1
    BY <1>3, <1>4 DEF IInv, P, S
<1>5. ASSUME phase = "load", next \in DOMAIN config.profiles PROVE next <= P
  <2>1. file \in Configs
    BY <1>3, <1>5 DEF IInv
  <2> QED
    BY <1>3, <1>5, <2>1, ConfigType DEF P, S
<1>6. ASSUME phase = "parse" PROVE next \in 1 .. S + 1
    BY <1>3, <1>6 DEF IInv, P, S
<1>7. Running(instance) \in 0 .. 1 /\ Running("running") = 1 /\ Running("none") = 0
    BY DEF Running
<1>8. CASE Exit /\ phase \in {"validate", "load", "parse"}
  <2>1. StepsLeft' = 0
    BY <1>3, <1>8, Phases DEF Exit, StepsLeft, P, S
  <2>2. StepsLeft > 0
    <3>1. CASE phase = "validate"
      <4>1. P \in Nat /\ S \in Nat /\ StepsLeft = StepsFrom("validate", P, S, next, Running(instance))
        BY <1>3, <3>1
      <4>2. StepsLeft = 2 * P + S + 3
        BY <4>1, Phases
      <4> QED
        BY <4>1, <4>2
    <3>2. CASE phase = "load"
      <4>1. /\ StepsLeft = 2 * (P + 1 - next) - Running(instance) + S + 2
            /\ P \in Nat /\ S \in Nat /\ next \in 1 .. P + 1
        BY <1>3, <1>4, <3>2, Phases DEF P, S
      <4> QED
        BY <4>1, <1>7
    <3>3. CASE phase = "parse"
      <4>1. StepsLeft = S + 1 - next + 1 /\ S \in Nat /\ next \in 1 .. S + 1
        BY <1>3, <1>6, <3>3, Phases DEF P, S
      <4> QED
        BY <4>1
    <3> QED
        BY <1>8, <3>1, <3>2, <3>3
  <2> QED
    BY <2>1, <2>2
<1>9. CASE Validate
  <2>1. CASE Exit
    BY <1>8, <1>9, <2>1 DEF Validate
  <2>2. CASE ~Exit
    <3>1. phase = "validate" /\ phase' = "load" /\ file' = file /\ next' = next /\ instance' = instance
        BY <1>9, <2>2 DEF Validate
    <3>2. next = 1 /\ instance = "none"
        BY <3>1 DEF IInv, Fresh, ToLoad, TypeOK
    <3>3. P \in Nat /\ S \in Nat /\ StepsLeft = StepsFrom("validate", P, S, next, Running(instance))
        BY <1>3, <3>1
    <3>4. StepsLeft = 2 * P + S + 3
        BY <3>3, Phases
    <3>5. StepsLeft' = StepsFrom("load", P, S, 1, 0)
        BY <1>3, <1>7, <3>1, <3>2 DEF StepsLeft, P, S
    <3>6. StepsLeft' = 2 * (P + 1 - 1) - 0 + S + 2
        BY <3>5, Phases
    <3> QED
        BY <3>3, <3>4, <3>6
  <2> QED
    BY <2>1, <2>2
<1>10. CASE Instantiate
  <2>1. /\ phase = "load" /\ UNCHANGED <<phase, file, next>>
        /\ instance = "none" /\ instance' = "running"
    BY <1>10 DEF Instantiate, ToLoad
  <2>2. /\ StepsLeft = 2 * (P + 1 - next) - 0 + S + 2
        /\ StepsLeft' = 2 * (P + 1 - next) - 1 + S + 2
        /\ P \in Nat /\ S \in Nat /\ next \in Nat
    BY <1>3, <1>7, <2>1, Phases DEF StepsLeft, P, S
  <2> QED
    BY <2>2
<1>11. CASE LoadFails
    BY <1>8, <1>11 DEF LoadFails, ToLoad
<1>12. CASE StartFails
  <2>1. Exit /\ phase = "load"
    BY <1>12 DEF StartFails, IInv, ToLoad
  <2> QED
    BY <1>8, <2>1
<1>13. CASE Loaded
  <2>1. /\ phase = "load" /\ UNCHANGED <<phase, file>> /\ next' = next + 1
        /\ instance = "running" /\ instance' = "none"
    BY <1>13 DEF Loaded, IInv, ToLoad
  <2>2. /\ StepsLeft = 2 * (P + 1 - next) - 1 + S + 2
        /\ StepsLeft' = 2 * (P + 1 - (next + 1)) - 0 + S + 2
        /\ P \in Nat /\ S \in Nat /\ next \in Nat
    BY <1>3, <1>7, <2>1, Phases DEF StepsLeft, P, S
  <2> QED
    BY <2>2
<1>14. CASE EngineReady
  <2>1. phase = "load" /\ phase' = "parse" /\ UNCHANGED file /\ next' = 1
    BY <1>14 DEF EngineReady
  <2>2. /\ StepsLeft = 2 * (P + 1 - next) - Running(instance) + S + 2
        /\ StepsLeft' = S + 1 - 1 + 1
        /\ P \in Nat /\ S \in Nat /\ next \in 1 .. P + 1
    BY <1>3, <1>4, <2>1, Phases DEF StepsLeft, P, S
  <2>3. Running(instance) = 0
    BY <1>14 DEF EngineReady, IInv, ToLoad, Running
  <2> QED
    BY <2>2, <2>3
<1>15. CASE ParseUpstream
  <2>1. phase = "parse" /\ UNCHANGED <<phase, file>> /\ next' = next + 1
    BY <1>15 DEF ParseUpstream, ToParse
  <2>2. /\ StepsLeft = S + 1 - next + 1
        /\ StepsLeft' = S + 1 - (next + 1) + 1
        /\ S \in Nat /\ next \in Nat
    BY <1>3, <2>1, Phases DEF StepsLeft, P, S
  <2> QED
    BY <2>2
<1>16. CASE ParseFails
    BY <1>8, <1>16 DEF ParseFails, ToParse
<1>17. CASE StartsBinding
  <2>1. phase = "parse" /\ phase' = "run" /\ UNCHANGED file
    BY <1>17 DEF StartsBinding
  <2>2. StepsLeft = S + 1 - next + 1 /\ StepsLeft' = 0 /\ S \in Nat /\ next \in 1 .. S + 1
    BY <1>3, <1>6, <2>1, Phases DEF StepsLeft, P, S
  <2> QED
    BY <2>2
<1> QED
    BY <1>1, <1>2, <1>9, <1>10, <1>11, <1>12, <1>13, <1>14, <1>15, <1>16, <1>17 DEF Next

(* Each step of startup is one of those it has left, so that startup takes *)
(* no more of them than two for each profile, one for each site and four;  *)
(* a start function that never ends is no exception.                       *)
THEOREM StartupAdvances == Spec => [](StepsLeft \in Nat) /\ [][StepsLeft' < StepsLeft]_vars
<1>1. ASSUME IInv PROVE StepsLeft \in Nat
  <2>1. CASE file = None
    BY <2>1 DEF StepsLeft
  <2> DEFINE P == Len(file.profiles)
             S == Len(file.sites)
  <2> HIDE DEF P, S
  <2>2. CASE file # None
    <3>1. P \in Nat /\ S \in Nat /\ next \in Nat
        BY <1>1, <2>2, Counted DEF P, S
    <3>2. StepsLeft = StepsFrom(phase, P, S, next, Running(instance))
        BY <2>2 DEF StepsLeft, P, S
    <3>3. Running(instance) \in 0 .. 1
        BY DEF Running
    <3>4. CASE phase \in {"read", "validate", "run", "exit"}
      <4> DEFINE Is(p) == StepsFrom(p, P, S, next, Running(instance))
      <4>1. StepsLeft \in {Is("read"), Is("validate"), Is("run"), Is("exit")}
        BY <3>2, <3>4
      <4>2. Is("read") = 2 * P + S + 4
        BY Phases
      <4>3. Is("validate") = 2 * P + S + 3
        BY Phases
      <4>4. Is("run") = 0 /\ Is("exit") = 0
        BY Phases
      <4> HIDE DEF Is
      <4> QED
        BY <3>1, <4>1, <4>2, <4>3, <4>4
    <3>5. CASE phase = "load"
      <4>1. /\ StepsLeft = 2 * (P + 1 - next) - Running(instance) + S + 2
            /\ next \in 1 .. P + 1
        BY <1>1, <3>2, <3>5, Phases, Counted DEF IInv, P, S
      <4> QED
        BY <3>1, <3>3, <4>1
    <3>6. CASE phase = "parse"
      <4>1. StepsLeft = S + 1 - next + 1 /\ next \in 1 .. S + 1
        BY <1>1, <3>2, <3>6, Phases, Counted DEF IInv, P, S
      <4> QED
        BY <3>1, <4>1
    <3> QED
        BY <1>1, <3>4, <3>5, <3>6 DEF IInv, TypeOK
  <2> QED
    BY <2>1, <2>2
<1> QED
    BY <1>1, StepAdvances, Invariance, PTL DEF Spec
============================================================================
