-------------------------------- MODULE Startup --------------------------------
(***************************************************************************)
(* main.rs up to its event loop, for several processes of the program on   *)
(* one host: configuration, command line, the Trillium listener that must  *)
(* be bound, and the CIGI port that only a bridge asks for and may miss.   *)
(* A process that serves may be stopped, or die, and be started again with *)
(* another file and command line.                                          *)
(*                                                                         *)
(* External: the platform sources and the CIGI host live in sim_core; of   *)
(* the host only the bind of its port is modelled, whose failure ends its  *)
(* own task and nothing else.                                              *)
(***************************************************************************)
EXTENDS Configuration, Sequences, SequencesExt

CONSTANTS
    Processes,
    Files,          \* what config.toml may hold, or that there is none
    CommandLines,   \* what std::env::args may be
    Nobody          \* the owner of a free port

ASSUME StartupAssumption ==
    /\ Nobody \notin Processes
    /\ \A f \in Files : /\ f.exists \in BOOLEAN /\ f.wellFormed \in BOOLEAN
                        /\ f.mode \in STRING
                        /\ \A k \in DOMAIN f.setting : k \in Shares => f.setting[k] \in Int
                        /\ DOMAIN f.camera \subseteq Slots \X Ends
    /\ CommandLines \subseteq Seq(STRING)

VARIABLES
    phase,      \* of each process: off, loading, binding, serving, running, exited
    file, args, \* what it was started with
    cfg,        \* its configuration, once loaded
    source,     \* the platform source it has spawned
    tcp,        \* the owner of each Trillium port
    host,       \* its CIGI host task: none, spawned, bound, ended
    udp         \* the owner of each CIGI port

startVars == <<phase, file, args, cfg, source, tcp, host, udp>>

TrilliumPort(p) == cfg[p].setting.orion_listen_port
CigiPort(p) == cfg[p].setting.cigi_listen_port

Configs == {DefaultConfig} \cup {FromFile(f) : f \in {g \in Files : Accepted(g)}}
TrilliumPorts == {c.setting.orion_listen_port : c \in Configs}
CigiPorts == {c.setting.cigi_listen_port : c \in Configs}

StartInit ==
    /\ phase = [p \in Processes |-> "off"]
    /\ file \in [Processes -> Files] /\ args \in [Processes -> CommandLines]
    /\ cfg = [p \in Processes |-> DefaultConfig]
    /\ source = [p \in Processes |-> "none"]
    /\ host = [p \in Processes |-> "none"]
    /\ tcp = [n \in TrilliumPorts |-> Nobody]
    /\ udp = [n \in CigiPorts |-> Nobody]

-------------------------------------------------------------------------------
Flags == {"--simulator", "--bridge"}
FlagMode(a) == IF a = "--simulator" THEN "Simulator" ELSE "Bridge"

IsFlag(x) == x \in Flags

\* Mutant: the first flag wins.
OverriddenFirst(c, a) ==
    LET first == SelectInSeq(a, IsFlag)
    IN  IF first = 0 THEN c ELSE WithMode(c, FlagMode(a[first]))

\* Mutant: a flag is put on the defaults.
OverriddenAfresh(c, a) ==
    LET last == SelectLastInSeq(a, IsFlag)
    IN  IF last = 0 THEN c ELSE WithMode(DefaultConfig, FlagMode(a[last]))

\* rev().find_map: the last flag on the command line wins over the file.
Overridden(c, a) ==
    LET last == SelectLastInSeq(a, IsFlag)
    IN  IF last = 0 THEN c ELSE WithMode(c, FlagMode(a[last]))

\* Configuration and command line, and then the platform source: its task runs before
\* anything is bound.
LoadConfig(p) ==
    /\ phase[p] = "loading"
    /\ cfg' = [cfg EXCEPT ![p] = Overridden(Load(file[p]), args[p])]
    /\ source' = [source EXCEPT ![p] = PlatformSource(cfg'[p])]
    /\ phase' = [phase EXCEPT ![p] = "binding"]
    /\ UNCHANGED <<file, args, tcp, host, udp>>

\* Mutant: a failed bind ends the server's task only, and main goes on.
BindTrilliumDeaf(p) ==
    /\ phase[p] = "binding"
    /\ tcp' = IF tcp[TrilliumPort(p)] = Nobody THEN [tcp EXCEPT ![TrilliumPort(p)] = p] ELSE tcp
    /\ phase' = [phase EXCEPT ![p] = "serving"]
    /\ UNCHANGED <<file, args, cfg, source, host, udp>>

\* Mutant: the bind waits until the port is free.
BindTrilliumWaiting(p) ==
    /\ phase[p] = "binding" /\ tcp[TrilliumPort(p)] = Nobody
    /\ tcp' = [tcp EXCEPT ![TrilliumPort(p)] = p]
    /\ phase' = [phase EXCEPT ![p] = "serving"]
    /\ UNCHANGED <<file, args, cfg, source, host, udp>>

\* trillium::server::bind, and process::exit(1) if the port is in use: the runtime and
\* the platform source's task go with the process.
BindTrillium(p) ==
    /\ phase[p] = "binding"
    /\ IF tcp[TrilliumPort(p)] = Nobody
       THEN /\ tcp' = [tcp EXCEPT ![TrilliumPort(p)] = p]
            /\ phase' = [phase EXCEPT ![p] = "serving"]
            /\ UNCHANGED source
       ELSE /\ phase' = [phase EXCEPT ![p] = "exited"]
            /\ source' = [source EXCEPT ![p] = "none"]
            /\ UNCHANGED tcp
    /\ UNCHANGED <<file, args, cfg, host, udp>>

\* Mutant: a CIGI port in use ends the process, whatever its mode.
EnterLoopStrict(p) ==
    /\ phase[p] = "serving"
    /\ IF udp[CigiPort(p)] = Nobody
       THEN /\ udp' = [udp EXCEPT ![CigiPort(p)] = p]
            /\ host' = [host EXCEPT ![p] = "bound"]
            /\ phase' = [phase EXCEPT ![p] = "running"]
            /\ UNCHANGED <<tcp, source>>
       ELSE /\ phase' = [phase EXCEPT ![p] = "exited"]
            /\ tcp' = [tcp EXCEPT ![TrilliumPort(p)] = Nobody]
            /\ source' = [source EXCEPT ![p] = "none"]
            /\ UNCHANGED <<udp, host>>
    /\ UNCHANGED <<file, args, cfg>>

\* The server is spawned; a bridge spawns the CIGI host as well.  The loop begins.
EnterLoop(p) ==
    /\ phase[p] = "serving"
    /\ host' = IF cfg[p].mode = "Bridge" THEN [host EXCEPT ![p] = "spawned"] ELSE host
    /\ phase' = [phase EXCEPT ![p] = "running"]
    /\ UNCHANGED <<file, args, cfg, source, tcp, udp>>

Boot(p) == LoadConfig(p) \/ BindTrillium(p) \/ EnterLoop(p)

\* sim_core's cigi::host::run binds its port or ends.
HostBinds(p) ==
    /\ host[p] = "spawned"
    /\ IF udp[CigiPort(p)] = Nobody
       THEN /\ udp' = [udp EXCEPT ![CigiPort(p)] = p]
            /\ host' = [host EXCEPT ![p] = "bound"]
       ELSE /\ host' = [host EXCEPT ![p] = "ended"] /\ UNCHANGED udp
    /\ UNCHANGED <<phase, file, args, cfg, source, tcp>>

\* Somebody starts the program: nothing of an earlier run is left.
Launch(p) ==
    /\ phase[p] \in {"off", "exited"}
    /\ phase' = [phase EXCEPT ![p] = "loading"]
    /\ cfg' = [cfg EXCEPT ![p] = DefaultConfig]
    /\ \E f \in Files, a \in CommandLines : file' = [file EXCEPT ![p] = f]
                                           /\ args' = [args EXCEPT ![p] = a]
    /\ UNCHANGED <<source, tcp, host, udp>>

\* Stopped, or dead: the kernel takes the ports back.
Stop(p) ==
    /\ phase[p] = "running"
    /\ phase' = [phase EXCEPT ![p] = "off"]
    /\ tcp' = [n \in DOMAIN tcp |-> IF tcp[n] = p THEN Nobody ELSE tcp[n]]
    /\ udp' = [n \in DOMAIN udp |-> IF udp[n] = p THEN Nobody ELSE udp[n]]
    /\ host' = [host EXCEPT ![p] = "none"]
    /\ source' = [source EXCEPT ![p] = "none"]
    /\ UNCHANGED <<file, args, cfg>>

StartNext == \E p \in Processes : Boot(p) \/ HostBinds(p) \/ Launch(p) \/ Stop(p)

StartSpec == StartInit /\ [][StartNext]_startVars

\* main runs on: no step of it waits for anything but a bind, which returns.
FairStartSpec == StartSpec /\ \A p \in Processes : WF_startVars(Boot(p)) /\ WF_startVars(HostBinds(p))

-------------------------------------------------------------------------------
Configured(p) == phase[p] \in {"binding", "serving", "running", "exited"}

StartupTypeOK ==
    /\ phase \in [Processes -> {"off", "loading", "binding", "serving", "running", "exited"}]
    /\ file \in [Processes -> Files] /\ args \in [Processes -> CommandLines]
    /\ \A p \in Processes : /\ cfg[p].mode \in RuntimeModes
                            /\ cfg[p].setting.stabilization_quality \in 0..One
    /\ source \in [Processes -> {"none", "static", "mavlink", "stanag4586"}]
    /\ host \in [Processes -> {"none", "spawned", "bound", "ended"}]
    /\ tcp \in [TrilliumPorts -> Processes \cup {Nobody}]
    /\ udp \in [CigiPorts -> Processes \cup {Nobody}]

\* The file counts: it is there and toml::from_str returned Ok.
Counts(p) == file[p].exists /\ Accepted(file[p])

(***************************************************************************)
(* "--simulator / --bridge override [runtime] mode in the config file.     *)
(* Last-wins on duplicates" (main.rs:46-47): a flag that no later one      *)
(* revokes is the mode of the process, else a good file's, else Bridge.    *)
(* Everything else is the file's, whatever the flags are: each setting and *)
(* each camera entry of a file that counts is taken over on its own, and   *)
(* what it does not name is the default's; of a file that does not count   *)
(* nothing is taken over (config.rs:416-531).                              *)
(***************************************************************************)
Precedence ==
    \A p \in Processes : Configured(p) =>
       /\ \/ \E i \in DOMAIN args[p] :
                /\ args[p][i] \in Flags /\ cfg[p].mode = FlagMode(args[p][i])
                /\ \A j \in DOMAIN args[p] : j > i => args[p][j] \notin Flags
          \/ /\ \A i \in DOMAIN args[p] : args[p][i] \notin Flags
             /\ cfg[p].mode = "Simulator" <=> (Counts(p) /\ file[p].mode \in {"simulator", "sim"})
       /\ \A k \in Settings :
             cfg[p].setting[k] = IF Counts(p) /\ k \in DOMAIN file[p].setting
                                 THEN Taken(k, file[p].setting[k]) ELSE DefaultSetting[k]
       /\ \A c \in Slots, e \in Ends :
             cfg[p].table[c][e] = IF Counts(p) /\ <<c, e>> \in DOMAIN file[p].camera
                                  THEN file[p].camera[<<c, e>>] ELSE DefaultTable[c][e]

(***************************************************************************)
(* "Unknown keys are silently ignored" (README.md:92): the keys of a file  *)
(* that the program knows count, whatever stands beside them.              *)
(***************************************************************************)
UnknownKeysIgnored ==
    \A p \in Processes : (Configured(p) /\ file[p].exists /\ file[p].wellFormed) =>
       \A k \in Settings \cap DOMAIN file[p].setting :
          cfg[p].setting[k] = Taken(k, file[p].setting[k])

(***************************************************************************)
(* The two ways to ask for camera 0's field of view agree, at every zoom,  *)
(* inside its range and out, and for every index that falls back to it,    *)
(* whatever the file says of the cameras (config.rs:463-468, 582-622).     *)
(***************************************************************************)
LegacyInStep ==
    \A p \in Processes, z \in -1..(ZoomEnd + 1), index \in {-1, 0, 3} :
       FovAtZoom(cfg[p], z) = FovAtZoomForCamera(cfg[p], index, z)

(***************************************************************************)
(* No process ticks without its Trillium port: "main kept ticking with no  *)
(* Trillium connectivity" is what binding up front is to prevent           *)
(* (main.rs:71-74); and one that gave up holds no port of either kind.     *)
(***************************************************************************)
NeverDeaf ==
    \A p \in Processes :
       /\ phase[p] \in {"serving", "running"} => tcp[TrilliumPort(p)] = p
       /\ phase[p] = "exited" => \A n \in DOMAIN tcp, m \in DOMAIN udp : p \notin {tcp[n], udp[m]}

(***************************************************************************)
(* "multiple sims can run on one host" (main.rs:92-94): a process gives up *)
(* only because another one serves on its very Trillium port, whoever has  *)
(* the CIGI port.                                                          *)
(***************************************************************************)
GivesUpForTrilliumOnly ==
    [][ \A p \in Processes : (phase[p] # "exited" /\ phase'[p] = "exited") =>
           \E q \in Processes \ {p} : /\ phase[q] \in {"serving", "running"}
                                      /\ TrilliumPort(q) = TrilliumPort(p) ]_startVars

(***************************************************************************)
(* Starting up always ends, in the loop or in an exit: a port in use makes *)
(* nothing wait (main.rs:71-84).                                           *)
(***************************************************************************)
StartsOrExits ==
    \A p \in Processes : phase[p] = "loading" ~> phase[p] \in {"running", "exited"}
===============================================================================
