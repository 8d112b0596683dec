----------------------------- MODULE StartupProofs -----------------------------
(***************************************************************************)
(* Ports and configurations of processes that start, give up, stop and     *)
(* start again on one host, for every number of them, every configuration  *)
(* file and every command line.                                            *)
(***************************************************************************)
EXTENDS Startup, TLAPS, SequenceTheorems, WellFoundedInduction

\* What a process may be configured with: a file or the defaults, in either mode.
Possible == Configs \cup {WithMode(c, m) : c \in Configs, m \in RuntimeModes}

\* The mode is a field like any other: overriding it leaves the rest (config.rs:570-573).
LEMMA ModeAlone ==
    ASSUME NEW c \in Configs, NEW m
    PROVE  /\ WithMode(c, m).setting = c.setting
           /\ WithMode(c, m).table = c.table
           /\ WithMode(c, m).legacy = c.legacy
<1>1. \E md, s, t, l : c = [mode |-> md, setting |-> s, table |-> t, legacy |-> l]
    BY DEF Configs, DefaultConfig, FromFile
<1> QED
    BY <1>1 DEF WithMode

\* Every configuration has its legacy fields in step and asks for ports of this host.
LEMMA PossibleFacts ==
    ASSUME NEW c \in Possible
    PROVE  /\ c.legacy = Radians(c.table[0])
           /\ c.setting.orion_listen_port \in TrilliumPorts
           /\ c.setting.cigi_listen_port \in CigiPorts
<1>1. ASSUME NEW d \in Configs
      PROVE  /\ d.legacy = Radians(d.table[0])
             /\ d.setting.orion_listen_port \in TrilliumPorts
             /\ d.setting.cigi_listen_port \in CigiPorts
    <2>1. d.legacy = Radians(d.table[0])
        BY DEF Configs, DefaultConfig, FromFile
    <2> QED
        BY <2>1 DEF TrilliumPorts, CigiPorts
<1>2. CASE c \in Configs
    BY <1>1, <1>2
<1>3. CASE c \in {WithMode(d, m) : d \in Configs, m \in RuntimeModes}
    <2>1. PICK d \in Configs, m \in RuntimeModes : c = WithMode(d, m)
        BY <1>3
    <2> QED
        BY <1>1, <2>1, ModeAlone
<1> QED
    BY <1>2, <1>3 DEF Possible

\* Every set of indices has a greatest one.
LEMMA GreatestIndex ==
    ASSUME NEW n \in Nat, NEW T \in SUBSET (1..n), T # {}
    PROVE  \E m \in T : \A k \in T : k <= m
<1> DEFINE R == {n - k : k \in T}
<1>1. R \in SUBSET Nat /\ R # {}
    <2>1. \A k \in T : n - k \in Nat
        OBVIOUS
    <2>2. \E k \in T : n - k \in R
        OBVIOUS
    <2> QED
        BY <2>1, <2>2
<1>2. PICK r \in R : \A q \in R : <<q, r>> \notin OpToRel(<, Nat)
    BY <1>1, NatLessThanWellFounded, WFMin
<1>3. PICK m \in T : r = n - m
    OBVIOUS
<1>4. ASSUME NEW k \in T PROVE k <= m
    <2>1. n - k \in R /\ n - k \in Nat /\ r \in Nat
        BY <1>1
    <2>2. ~(n - k < r)
        BY <1>2, <2>1 DEF OpToRel
    <2> QED
        BY <1>3, <2>2
<1> QED
    BY <1>4

\* The search from the end of the command line finds its last flag, if there is one.
LEMMA LastFlag ==
    ASSUME NEW a \in CommandLines
    PROVE  LET last == SelectLastInSeq(a, IsFlag)
           IN  \/ last = 0 /\ \A i \in DOMAIN a : a[i] \notin Flags
               \/ /\ last \in DOMAIN a /\ last # 0 /\ a[last] \in Flags
                  /\ \A j \in DOMAIN a : j > last => a[j] \notin Flags
<1> DEFINE T == {i \in 1..Len(a) : IsFlag(a[i])}
<1>1. a \in Seq(STRING) /\ Len(a) \in Nat /\ DOMAIN a = 1..Len(a)
    BY StartupAssumption
<1>2. SelectLastInSeq(a, IsFlag) = IF T # {} THEN CHOOSE m \in T : \A k \in T : m >= k ELSE 0
    BY DEF SelectLastInSeq, Max
<1>3. CASE T = {}
    BY <1>1, <1>2, <1>3 DEF IsFlag
<1>4. CASE T # {}
    <2>1. \E m \in T : \A k \in T : k <= m
        BY <1>1, <1>4, GreatestIndex
    <2>2. \E m \in T : \A k \in T : m >= k
        BY <1>1, <2>1
    <2>3. PICK m \in T : m = SelectLastInSeq(a, IsFlag) /\ \A k \in T : m >= k
        BY <1>2, <1>4, <2>2
    <2>4. m \in DOMAIN a /\ m # 0 /\ a[m] \in Flags
        BY <1>1 DEF IsFlag
    <2>5. ASSUME NEW j \in DOMAIN a, j > m PROVE a[j] \notin Flags
        <3>1. j \notin T
            <4>1. j \in Nat /\ m \in Nat /\ ~(m >= j)
                BY <1>1, <2>5
            <4> QED
                BY <2>3, <4>1
        <3> QED
            BY <1>1, <3>1 DEF IsFlag
    <2> QED
        BY <2>3, <2>4, <2>5
<1> QED
    BY <1>3, <1>4

\* Whatever the file and the command line (main.rs:46-56).
LEMMA LoadedIsPossible ==
    ASSUME NEW f \in Files, NEW a
    PROVE  Overridden(Load(f), a) \in Possible
<1>1. Load(f) \in Configs
    BY DEF Load, Configs
<1>2. \A x : FlagMode(x) \in RuntimeModes
    BY DEF FlagMode, RuntimeModes
<1> DEFINE last == SelectLastInSeq(a, IsFlag)
<1>3. Overridden(Load(f), a) = IF last = 0 THEN Load(f) ELSE WithMode(Load(f), FlagMode(a[last]))
    BY DEF Overridden
<1> HIDE DEF last
<1> QED
    BY <1>1, <1>2, <1>3 DEF Possible

-------------------------------------------------------------------------------
Phases == {"off", "loading", "binding", "serving", "running", "exited"}

StateTypes ==
    /\ phase \in [Processes -> Phases]
    /\ file \in [Processes -> Files]
    /\ cfg \in [Processes -> Possible]
    /\ host \in [Processes -> {"none", "spawned", "bound", "ended"}]
    /\ tcp \in [TrilliumPorts -> Processes \cup {Nobody}]
    /\ udp \in [CigiPorts -> Processes \cup {Nobody}]

\* Between its bind and its end a process has its Trillium port, and nobody has one
\* without being there or on a port that is not its own.
TrilliumOwners ==
    /\ \A p \in Processes : phase[p] \in {"serving", "running"} => tcp[TrilliumPort(p)] = p
    /\ \A n \in TrilliumPorts, p \in Processes :
          tcp[n] = p => phase[p] \in {"serving", "running"} /\ n = TrilliumPort(p)

\* A CIGI port and its task belong to a process in its loop.
CigiOwners ==
    \A p \in Processes : phase[p] # "running" =>
       host[p] = "none" /\ \A m \in CigiPorts : udp[m] # p

StartInv == StateTypes /\ TrilliumOwners /\ CigiOwners

LEMMA StartBegins == StartInit => StartInv
<1> SUFFICES ASSUME StartInit PROVE StartInv
    OBVIOUS
<1>1. DefaultConfig \in Possible
    BY DEF Possible, Configs
<1>2. Nobody \notin Processes
    BY StartupAssumption
<1> QED
    BY <1>1, <1>2 DEF StartInit, StartInv, StateTypes, TrilliumOwners, CigiOwners, Phases

LEMMA LoadConfigStep == ASSUME StartInv, NEW p \in Processes, LoadConfig(p) PROVE StartInv'
<1>1. Overridden(Load(file[p]), args[p]) \in Possible
    BY LoadedIsPossible DEF StartInv, StateTypes
<1>2. StateTypes'
    BY <1>1 DEF LoadConfig, StartInv, StateTypes, Phases
<1>3. \A q \in Processes : q # p => phase'[q] = phase[q] /\ TrilliumPort(q)' = TrilliumPort(q)
    BY DEF LoadConfig, StartInv, StateTypes, TrilliumPort
<1>4. phase[p] = "loading" /\ phase'[p] = "binding" /\ UNCHANGED <<tcp, udp, host>>
    BY DEF LoadConfig, StartInv, StateTypes
<1>5. TrilliumOwners' /\ CigiOwners'
    BY <1>3, <1>4 DEF StartInv, TrilliumOwners, CigiOwners
<1> QED
    BY <1>2, <1>5 DEF StartInv

LEMMA BindTrilliumStep == ASSUME StartInv, NEW p \in Processes, BindTrillium(p) PROVE StartInv'
<1>1. TrilliumPort(p) \in TrilliumPorts
    BY PossibleFacts DEF StartInv, StateTypes, TrilliumPort
<1>2. \A q \in Processes : TrilliumPort(q)' = TrilliumPort(q)
    BY DEF BindTrillium, TrilliumPort
<1>3. /\ \A q \in Processes : q # p => phase'[q] = phase[q]
      /\ phase[p] = "binding" /\ UNCHANGED <<cfg, file, udp, host>>
    BY DEF BindTrillium, StartInv, StateTypes
<1>4. CASE tcp[TrilliumPort(p)] = Nobody
    <2>1. tcp' = [tcp EXCEPT ![TrilliumPort(p)] = p] /\ phase' = [phase EXCEPT ![p] = "serving"]
        BY <1>4 DEF BindTrillium
    <2>2. StateTypes'
        BY <1>1, <1>3, <2>1 DEF StartInv, StateTypes, Phases
    <2>3. /\ phase'[p] = "serving" /\ tcp'[TrilliumPort(p)] = p
          /\ \A n \in TrilliumPorts : n # TrilliumPort(p) => tcp'[n] = tcp[n]
        BY <1>1, <2>1 DEF StartInv, StateTypes
    <2>4. \A q \in Processes : q # p /\ phase[q] \in {"serving", "running"} =>
             TrilliumPort(q) # TrilliumPort(p) /\ TrilliumPort(q) \in TrilliumPorts
        BY <1>4, StartupAssumption, PossibleFacts
           DEF StartInv, StateTypes, TrilliumOwners, TrilliumPort
    <2>5. TrilliumOwners'
        BY <1>1, <1>2, <1>3, <2>3, <2>4 DEF StartInv, TrilliumOwners
    <2>6. CigiOwners'
        BY <1>3, <2>3 DEF StartInv, CigiOwners
    <2> QED
        BY <2>2, <2>5, <2>6 DEF StartInv
<1>5. CASE tcp[TrilliumPort(p)] # Nobody
    <2>1. tcp' = tcp /\ phase' = [phase EXCEPT ![p] = "exited"]
        BY <1>5 DEF BindTrillium
    <2>2. StateTypes' /\ phase'[p] = "exited"
        BY <1>3, <2>1 DEF StartInv, StateTypes, Phases
    <2>3. TrilliumOwners' /\ CigiOwners'
        BY <1>2, <1>3, <2>1, <2>2 DEF StartInv, TrilliumOwners, CigiOwners
    <2> QED
        BY <2>2, <2>3 DEF StartInv
<1> QED
    BY <1>4, <1>5

LEMMA LoopStep == ASSUME StartInv, NEW p \in Processes, EnterLoop(p) \/ HostBinds(p) PROVE StartInv'
<1>1. \A q \in Processes : TrilliumPort(q)' = TrilliumPort(q)
    BY DEF EnterLoop, HostBinds, TrilliumPort
<1>2. CigiPort(p) \in CigiPorts
    BY PossibleFacts DEF StartInv, StateTypes, CigiPort
<1>3. CASE EnterLoop(p)
    <2>1. StateTypes'
        BY <1>3 DEF EnterLoop, StartInv, StateTypes, Phases
    <2>2. /\ phase[p] = "serving" /\ phase'[p] = "running" /\ UNCHANGED <<tcp, udp>>
          /\ \A q \in Processes : q # p => phase'[q] = phase[q] /\ host'[q] = host[q]
        BY <1>3 DEF EnterLoop, StartInv, StateTypes
    <2>3. TrilliumOwners' /\ CigiOwners'
        BY <1>1, <2>2 DEF StartInv, TrilliumOwners, CigiOwners
    <2> QED
        BY <2>1, <2>3 DEF StartInv
<1>4. CASE HostBinds(p)
    <2>1. StateTypes'
        BY <1>2, <1>4 DEF HostBinds, StartInv, StateTypes
    <2>2. phase[p] = "running" /\ UNCHANGED <<phase, tcp>>
        BY <1>4 DEF HostBinds, StartInv, CigiOwners
    <2>3. \A q \in Processes : q # p =>
             host'[q] = host[q] /\ \A m \in CigiPorts : udp'[m] = q => udp[m] = q
        BY <1>2, <1>4 DEF HostBinds, StartInv, StateTypes
    <2>4. TrilliumOwners' /\ CigiOwners'
        BY <1>1, <2>2, <2>3 DEF StartInv, TrilliumOwners, CigiOwners
    <2> QED
        BY <2>1, <2>4 DEF StartInv
<1> QED
    BY <1>3, <1>4

LEMMA LaunchStep == ASSUME StartInv, NEW p \in Processes, Launch(p) PROVE StartInv'
<1>1. DefaultConfig \in Possible
    BY DEF Possible, Configs
<1>2. StateTypes'
    BY <1>1 DEF Launch, StartInv, StateTypes, Phases
<1>3. \A q \in Processes : q # p => phase'[q] = phase[q] /\ TrilliumPort(q)' = TrilliumPort(q)
    BY DEF Launch, StartInv, StateTypes, TrilliumPort
<1>4. phase[p] \in {"off", "exited"} /\ phase'[p] = "loading" /\ UNCHANGED <<tcp, udp, host>>
    BY DEF Launch, StartInv, StateTypes
<1>5. TrilliumOwners' /\ CigiOwners'
    BY <1>3, <1>4 DEF StartInv, TrilliumOwners, CigiOwners
<1> QED
    BY <1>2, <1>5 DEF StartInv

LEMMA StopStep == ASSUME StartInv, NEW p \in Processes, Stop(p) PROVE StartInv'
<1>1. StateTypes'
    BY DEF Stop, StartInv, StateTypes, Phases
<1>2. \A q \in Processes : TrilliumPort(q)' = TrilliumPort(q) /\ TrilliumPort(q) \in TrilliumPorts
    BY PossibleFacts DEF Stop, TrilliumPort, StartInv, StateTypes
<1>3. /\ \A n \in TrilliumPorts, q \in Processes : tcp'[n] = q <=> tcp[n] = q /\ q # p
      /\ \A m \in CigiPorts, q \in Processes : udp'[m] = q <=> udp[m] = q /\ q # p
    BY StartupAssumption DEF Stop, StartInv, StateTypes
<1>4. /\ phase'[p] = "off" /\ host'[p] = "none"
      /\ \A q \in Processes : q # p => phase'[q] = phase[q] /\ host'[q] = host[q]
    BY DEF Stop, StartInv, StateTypes
<1>5. TrilliumOwners' /\ CigiOwners'
    BY <1>2, <1>3, <1>4 DEF StartInv, TrilliumOwners, CigiOwners
<1> QED
    BY <1>1, <1>5 DEF StartInv

LEMMA StartStep == StartInv /\ [StartNext]_startVars => StartInv'
<1> SUFFICES ASSUME StartInv, [StartNext]_startVars PROVE StartInv'
    OBVIOUS
<1>1. CASE UNCHANGED startVars
    BY <1>1 DEF startVars, StartInv, StateTypes, TrilliumOwners, CigiOwners, TrilliumPort
<1>2. ASSUME NEW p \in Processes, Boot(p) \/ HostBinds(p) \/ Launch(p) \/ Stop(p)
      PROVE  StartInv'
    BY <1>2, LoadConfigStep, BindTrilliumStep, LoopStep, LaunchStep, StopStep DEF Boot
<1> QED
    BY <1>1, <1>2 DEF StartNext

\* No process is in its loop without its Trillium port, however often processes start and
\* stop around it, and one that gave up has left every port (main.rs:71-84).
THEOREM NobodyIsDeaf == StartSpec => []NeverDeaf
<1>1. StartInv => NeverDeaf
    BY DEF StartInv, StateTypes, TrilliumOwners, CigiOwners, NeverDeaf
<1> QED
    BY <1>1, StartBegins, StartStep, PTL DEF StartSpec

\* The legacy field of view is camera 0's, for every file, index and zoom
\* (config.rs:463-468, 586-622).
THEOREM LegacyFollowsTable == StartSpec => []LegacyInStep
<1>1. StartInv => LegacyInStep
    <2> SUFFICES ASSUME StartInv, NEW p \in Processes, NEW z \in -1..(ZoomEnd + 1),
                        NEW index \in {-1, 0, 3}
                 PROVE  FovAtZoom(cfg[p], z) = FovAtZoomForCamera(cfg[p], index, z)
        BY DEF LegacyInStep
    <2>1. cfg[p].legacy = Radians(cfg[p].table[0])
        BY PossibleFacts DEF StartInv, StateTypes
    <2>2. Slot(index) = 0
        BY DEF Slot, Slots
    <2> QED
        BY <2>1, <2>2 DEF FovAtZoom, FovAtZoomForCamera
<1> QED
    BY <1>1, StartBegins, StartStep, PTL DEF StartSpec

\* A process only gives way to another one on its own Trillium port (main.rs:71-99).
THEOREM OnlyTrilliumPortsCollide == StartSpec => GivesUpForTrilliumOnly
<1>1. StartInv /\ [StartNext]_startVars =>
         [ \A p \in Processes : (phase[p] # "exited" /\ phase'[p] = "exited") =>
              \E q \in Processes \ {p} : /\ phase[q] \in {"serving", "running"}
                                         /\ TrilliumPort(q) = TrilliumPort(p) ]_startVars
    <2> SUFFICES ASSUME StartInv, StartNext, NEW p \in Processes,
                        phase[p] # "exited", phase'[p] = "exited"
                 PROVE  \E q \in Processes \ {p} : /\ phase[q] \in {"serving", "running"}
                                                   /\ TrilliumPort(q) = TrilliumPort(p)
        OBVIOUS
    <2>1. BindTrillium(p) /\ tcp[TrilliumPort(p)] # Nobody
        BY DEF StartNext, Boot, LoadConfig, BindTrillium, EnterLoop, HostBinds, Launch, Stop,
               StartInv, StateTypes
    <2>2. TrilliumPort(p) \in TrilliumPorts
        BY PossibleFacts DEF StartInv, StateTypes, TrilliumPort
    <2>3. PICK q \in Processes : tcp[TrilliumPort(p)] = q
        BY <2>1, <2>2 DEF StartInv, StateTypes
    <2>4. phase[q] \in {"serving", "running"} /\ TrilliumPort(p) = TrilliumPort(q)
        BY <2>2, <2>3 DEF StartInv, TrilliumOwners
    <2>5. q # p
        BY <2>1, <2>4 DEF BindTrillium
    <2> QED
        BY <2>4, <2>5
<1> QED
    BY <1>1, StartBegins, StartStep, PTL DEF StartSpec, GivesUpForTrilliumOnly

-------------------------------------------------------------------------------
(***************************************************************************)
(* What a process is configured with, and why.                             *)
(***************************************************************************)
OtherTypes ==
    /\ args \in [Processes -> CommandLines]
    /\ source \in [Processes -> {"none", "static", "mavlink", "stanag4586"}]

\* A configuration, once loaded, is never touched again until the next launch.
AsLoaded ==
    \A p \in Processes : Configured(p) => cfg[p] = Overridden(Load(file[p]), args[p])

ConfigInv == StartInv /\ OtherTypes /\ AsLoaded

LEMMA ConfigBegins == StartInit => ConfigInv
BY StartBegins DEF StartInit, ConfigInv, OtherTypes, AsLoaded, Configured

LEMMA ConfigStep == ConfigInv /\ [StartNext]_startVars => ConfigInv'
<1> SUFFICES ASSUME ConfigInv, [StartNext]_startVars PROVE ConfigInv'
    OBVIOUS
<1>1. StartInv'
    BY StartStep DEF ConfigInv
<1>2. /\ phase \in [Processes -> Phases] /\ file \in [Processes -> Files]
      /\ cfg \in [Processes -> Possible] /\ OtherTypes /\ AsLoaded
    BY DEF ConfigInv, StartInv, StateTypes
<1>3. CASE UNCHANGED startVars
    <2>1. UNCHANGED <<phase, file, args, cfg, source>>
        BY <1>3 DEF startVars
    <2>2. OtherTypes'
        BY <1>2, <2>1 DEF OtherTypes
    <2>3. \A q \in Processes : Configured(q)' => Configured(q)
        BY <2>1 DEF Configured
    <2>4. AsLoaded'
        BY <1>2, <2>1, <2>3 DEF AsLoaded
    <2> QED
        BY <1>1, <2>2, <2>4 DEF ConfigInv
<1>4. ASSUME NEW p \in Processes, LoadConfig(p) PROVE OtherTypes' /\ AsLoaded'
    <2>1. \A c : PlatformSource(c) \in {"static", "mavlink", "stanag4586"}
        BY DEF PlatformSource
    <2>2. OtherTypes'
        BY <1>2, <1>4, <2>1 DEF LoadConfig, OtherTypes
    <2>3. /\ cfg'[p] = Overridden(Load(file[p]), args[p]) /\ UNCHANGED <<file, args>>
          /\ \A q \in Processes : q # p => cfg'[q] = cfg[q] /\ phase'[q] = phase[q]
        BY <1>2, <1>4 DEF LoadConfig
    <2> QED
        BY <1>2, <2>2, <2>3 DEF AsLoaded, Configured
<1>5. ASSUME NEW p \in Processes, Launch(p) PROVE OtherTypes' /\ AsLoaded'
    <2>1. OtherTypes'
        BY <1>2, <1>5 DEF Launch, OtherTypes
    <2>2. /\ phase'[p] = "loading"
          /\ \A q \in Processes : q # p => /\ cfg'[q] = cfg[q] /\ phase'[q] = phase[q]
                                           /\ file'[q] = file[q] /\ args'[q] = args[q]
        BY <1>2, <1>5 DEF Launch, OtherTypes
    <2> QED
        BY <1>2, <2>1, <2>2 DEF AsLoaded, Configured
<1>6. ASSUME NEW p \in Processes, BindTrillium(p) \/ EnterLoop(p) \/ HostBinds(p) \/ Stop(p)
      PROVE  OtherTypes' /\ AsLoaded'
    <2>1. UNCHANGED <<cfg, file, args>>
        BY <1>6 DEF BindTrillium, EnterLoop, HostBinds, Stop
    <2>2. OtherTypes'
        BY <1>2, <1>6 DEF BindTrillium, EnterLoop, HostBinds, Stop, OtherTypes
    <2>3. \A q \in Processes : Configured(q)' => Configured(q)
        BY <1>2, <1>6 DEF BindTrillium, EnterLoop, HostBinds, Stop, Configured
    <2> QED
        BY <1>2, <2>1, <2>2, <2>3 DEF AsLoaded
<1> QED
    BY <1>1, <1>3, <1>4, <1>5, <1>6 DEF StartNext, Boot, ConfigInv

LEMMA ConfigHolds == StartSpec => []ConfigInv
BY ConfigBegins, ConfigStep, PTL DEF StartSpec

\* A mode of a file that is neither of the two counts as Bridge (config.rs:421-429).
LEMMA LoadedMode ==
    ASSUME NEW f \in Files
    PROVE  /\ Load(f).mode \in RuntimeModes
           /\ Load(f).mode = "Simulator" <=> (/\ f.exists /\ Accepted(f)
                                              /\ f.mode \in {"simulator", "sim"})
<1>1. DefaultConfig.mode = "Bridge"
    BY DEF DefaultConfig
<1>2. FromFile(f).mode = ParseMode(f.mode, "Bridge")
    BY DEF FromFile
<1>3. /\ ParseMode(f.mode, "Bridge") \in RuntimeModes
      /\ ParseMode(f.mode, "Bridge") = "Simulator" <=> f.mode \in {"simulator", "sim"}
    BY DEF ParseMode, RuntimeModes
<1>4. CASE f.exists /\ Accepted(f)
    BY <1>2, <1>3, <1>4 DEF Load
<1>5. CASE ~(f.exists /\ Accepted(f))
    BY <1>1, <1>5 DEF Load, RuntimeModes
<1> QED
    BY <1>4, <1>5

\* Every configuration has one of the two modes, and a share is a share (config.rs:478).
LEMMA PossibleTypes ==
    ASSUME NEW c \in Possible
    PROVE  c.mode \in RuntimeModes /\ c.setting.stabilization_quality \in 0..One
<1>1. One \in Nat /\ \A k \in Shares : DefaultSetting[k] \in 0..One
    BY ConfigurationAssumption
<1>2. "stabilization_quality" \in Shares /\ "stabilization_quality" \in Settings
    BY DEF Shares, Settings
<1>3. ASSUME NEW f \in Files
      PROVE  Setting(f)["stabilization_quality"] \in 0..One
    <2>1. ASSUME NEW v \in Int PROVE Taken("stabilization_quality", v) \in 0..One
        <3>1. Taken("stabilization_quality", v) = IF v < 0 THEN 0 ELSE IF v > One THEN One ELSE v
            <4> DEFINE k == "stabilization_quality"
            <4>1. k \notin InDegrees /\ k \in Shares /\ k \notin NonNegative
                BY DEF InDegrees, Shares, NonNegative
            <4> HIDE DEF k
            <4>2. Taken(k, v) = IF v < 0 THEN 0 ELSE IF v > One THEN One ELSE v
                BY <4>1 DEF Taken
            <4> QED
                BY <4>2 DEF k
        <3> QED
            BY <1>1, <3>1
    <2>2. CASE "stabilization_quality" \in DOMAIN f.setting
        <3>1. f.setting["stabilization_quality"] \in Int
            BY <1>2, <2>2, StartupAssumption
        <3> QED
            BY <1>2, <2>1, <2>2, <3>1 DEF Setting
    <2>3. CASE "stabilization_quality" \notin DOMAIN f.setting
        BY <1>1, <1>2, <2>3 DEF Setting
    <2> QED
        BY <2>2, <2>3
<1>4. ASSUME NEW d \in Configs
      PROVE  d.mode \in RuntimeModes /\ d.setting.stabilization_quality \in 0..One
    <2>1. CASE d = DefaultConfig
        BY <1>1, <1>2, <2>1 DEF DefaultConfig, RuntimeModes
    <2>2. ASSUME NEW f \in Files, d = FromFile(f)
          PROVE  d.mode \in RuntimeModes /\ d.setting.stabilization_quality \in 0..One
        <3>1. d.mode = ParseMode(f.mode, "Bridge") /\ d.setting = Setting(f)
            BY <2>2 DEF FromFile
        <3>2. ParseMode(f.mode, "Bridge") \in RuntimeModes
            BY DEF ParseMode, RuntimeModes
        <3> QED
            BY <1>3, <3>1, <3>2
    <2> QED
        BY <2>1, <2>2 DEF Configs
<1>5. ASSUME NEW d \in Configs, NEW m \in RuntimeModes, c = WithMode(d, m)
      PROVE  c.mode \in RuntimeModes /\ c.setting.stabilization_quality \in 0..One
    <2>1. c.setting = d.setting
        BY <1>5, ModeAlone
    <2>2. c.mode = m
        <3>1. \E md, st, t, l : d = [mode |-> md, setting |-> st, table |-> t, legacy |-> l]
            BY DEF Configs, DefaultConfig, FromFile
        <3> QED
            BY <1>5, <3>1 DEF WithMode
    <2> QED
        BY <1>4, <2>1, <2>2
<1> QED
    BY <1>4, <1>5 DEF Possible

(***************************************************************************)
(* Types: ports belong to processes or to nobody, every process has one of *)
(* the two modes and a share within its bounds, whatever the file says     *)
(* (config.rs:421-428, 478).                                               *)
(***************************************************************************)
THEOREM StartupTypeCorrect == StartSpec => []StartupTypeOK
<1>1. ConfigInv => StartupTypeOK
    BY PossibleTypes DEF ConfigInv, StartInv, StateTypes, OtherTypes, StartupTypeOK, Phases
<1> QED
    BY <1>1, ConfigHolds, PTL

\* Each setting and camera entry of a file that counts is taken over on its own
\* (config.rs:416-531).
LEMMA LoadedRest ==
    ASSUME NEW f \in Files
    PROVE  /\ \A k \in Settings :
                 Load(f).setting[k] = IF f.exists /\ Accepted(f) /\ k \in DOMAIN f.setting
                                      THEN Taken(k, f.setting[k]) ELSE DefaultSetting[k]
           /\ \A c \in Slots, e \in Ends :
                 Load(f).table[c][e] = IF f.exists /\ Accepted(f) /\ <<c, e>> \in DOMAIN f.camera
                                       THEN f.camera[<<c, e>>] ELSE DefaultTable[c][e]
<1>1. CASE f.exists /\ Accepted(f)
    <2>1. Load(f).setting = Setting(f) /\ Load(f).table = Table(f)
        BY <1>1 DEF Load, FromFile
    <2>2. \A k \in Settings : Setting(f)[k] = IF k \in DOMAIN f.setting
                                              THEN Taken(k, f.setting[k]) ELSE DefaultSetting[k]
        BY DEF Setting
    <2>3. \A c \in Slots, e \in Ends :
             Table(f)[c][e] = IF <<c, e>> \in DOMAIN f.camera
                              THEN f.camera[<<c, e>>] ELSE DefaultTable[c][e]
        BY DEF Table
    <2> QED
        BY <1>1, <2>1, <2>2, <2>3
<1>2. CASE ~(f.exists /\ Accepted(f))
    <2>1. Load(f).setting = DefaultSetting /\ Load(f).table = DefaultTable
        BY <1>2 DEF Load, DefaultConfig
    <2> QED
        BY <1>2, <2>1
<1> QED
    BY <1>1, <1>2

(***************************************************************************)
(* The mode is the last flag's, else a good file's, else Bridge, and all   *)
(* the rest, the ports among it, is the file's or the default's whatever   *)
(* the flags are (main.rs:46-56, config.rs:416-531).                       *)
(***************************************************************************)
THEOREM LastFlagWins == StartSpec => []Precedence
<1>1. ASSUME NEW f \in Files, NEW a \in CommandLines, NEW c, c = Overridden(Load(f), a)
      PROVE  /\ \/ \E i \in DOMAIN a :
                      /\ a[i] \in Flags /\ c.mode = FlagMode(a[i])
                      /\ \A j \in DOMAIN a : j > i => a[j] \notin Flags
                \/ /\ \A i \in DOMAIN a : a[i] \notin Flags
                   /\ c.mode = "Simulator" <=> (/\ f.exists /\ Accepted(f)
                                                /\ f.mode \in {"simulator", "sim"})
             /\ c.setting = Load(f).setting /\ c.table = Load(f).table
    <2> DEFINE last == SelectLastInSeq(a, IsFlag)
    <2>1. \/ last = 0 /\ \A i \in DOMAIN a : a[i] \notin Flags
          \/ /\ last \in DOMAIN a /\ last # 0 /\ a[last] \in Flags
             /\ \A j \in DOMAIN a : j > last => a[j] \notin Flags
        BY LastFlag
    <2>2. c = IF last = 0 THEN Load(f) ELSE WithMode(Load(f), FlagMode(a[last]))
        BY <1>1 DEF Overridden
    <2> HIDE DEF last
    <2>3. Load(f) \in Configs
        BY DEF Load, Configs
    <2>4. CASE last = 0
        BY <2>1, <2>2, <2>4, LoadedMode
    <2>5. CASE last # 0
        <3>1. c = WithMode(Load(f), FlagMode(a[last]))
            BY <2>2, <2>5
        <3>2. \E md, st, t, l : Load(f) = [mode |-> md, setting |-> st, table |-> t, legacy |-> l]
            BY DEF Load, DefaultConfig, FromFile
        <3>3. c.mode = FlagMode(a[last])
            BY <3>1, <3>2 DEF WithMode
        <3> QED
            BY <2>1, <2>3, <2>5, <3>1, <3>3, ModeAlone
    <2> QED
        BY <2>4, <2>5
<1>2. ASSUME ConfigInv, NEW p \in Processes, Configured(p)
      PROVE  /\ \/ \E i \in DOMAIN args[p] :
                      /\ args[p][i] \in Flags /\ cfg[p].mode = FlagMode(args[p][i])
                      /\ \A j \in DOMAIN args[p] : j > i => args[p][j] \notin Flags
                \/ /\ \A i \in DOMAIN args[p] : args[p][i] \notin Flags
                   /\ cfg[p].mode = "Simulator" <=> (Counts(p) /\ file[p].mode \in {"simulator", "sim"})
             /\ \A k \in Settings :
                   cfg[p].setting[k] = IF Counts(p) /\ k \in DOMAIN file[p].setting
                                       THEN Taken(k, file[p].setting[k]) ELSE DefaultSetting[k]
             /\ \A c \in Slots, e \in Ends :
                   cfg[p].table[c][e] = IF Counts(p) /\ <<c, e>> \in DOMAIN file[p].camera
                                        THEN file[p].camera[<<c, e>>] ELSE DefaultTable[c][e]
    <2>1. file[p] \in Files /\ args[p] \in CommandLines
        BY <1>2 DEF ConfigInv, StartInv, StateTypes, OtherTypes
    <2>2. cfg[p] = Overridden(Load(file[p]), args[p])
        BY <1>2 DEF ConfigInv, AsLoaded
    <2>3. cfg[p].setting = Load(file[p]).setting /\ cfg[p].table = Load(file[p]).table
        BY <1>1, <2>1, <2>2
    <2>4. \A k \in Settings :
             cfg[p].setting[k] = IF Counts(p) /\ k \in DOMAIN file[p].setting
                                 THEN Taken(k, file[p].setting[k]) ELSE DefaultSetting[k]
        BY <2>1, <2>3, LoadedRest DEF Counts
    <2>5. \A c \in Slots, e \in Ends :
             cfg[p].table[c][e] = IF Counts(p) /\ <<c, e>> \in DOMAIN file[p].camera
                                  THEN file[p].camera[<<c, e>>] ELSE DefaultTable[c][e]
        <3>1. ASSUME NEW f \in Files, f = file[p], NEW c \in Slots, NEW e \in Ends
              PROVE  cfg[p].table[c][e] = IF f.exists /\ Accepted(f) /\ <<c, e>> \in DOMAIN f.camera
                                          THEN f.camera[<<c, e>>] ELSE DefaultTable[c][e]
            BY <2>3, <3>1, LoadedRest
        <3> QED
            BY <2>1, <3>1 DEF Counts
    <2> QED
        BY <1>1, <2>1, <2>2, <2>4, <2>5 DEF Counts
<1>3. ConfigInv => Precedence
    BY <1>2 DEF Precedence
<1> QED
    BY <1>3, ConfigHolds, PTL
===============================================================================
