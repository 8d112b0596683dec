----------------------------- MODULE Configuration -----------------------------
(***************************************************************************)
(* src/src/config.rs: what config.toml and its absence turn into.          *)
(*                                                                         *)
(* A configuration holds the runtime mode, the settings that are copied    *)
(* from the file one by one, the camera table, and the four legacy fields  *)
(* of view.  Abstracted: the TOML syntax and the sections, which only      *)
(* group the keys; letter case and blanks in a mode's name.  Numbers are   *)
(* whole steps; a field of view is held as its logarithm, in which the     *)
(* interpolation by zoom is linear and degrees become radians by adding.   *)
(***************************************************************************)
EXTENDS Integers

CONSTANTS
    DefaultSetting,     \* [Settings -> value], the numbers of Config::default
    DefaultTable,       \* its camera_table
    One,                \* 1.0 in the steps of a share
    PerDegree,          \* radians per degree, in steps
    LogPerDegree,       \* its logarithm
    ZoomEnd             \* zoom 1.0, in steps

Copied == {"orion_listen_port", "scene_generator_ip", "scene_generator_cigi_port",
           "cigi_listen_port", "platform_source", "mavlink_listen_port",
           "mavlink_system_id", "stanag_listen_port", "stanag_multicast_group",
           "stanag_vehicle_id", "platform_alt", "jitter_freq", "jitter_freq_2",
           "fwd_m", "right_m", "down_m", "refraction_enabled", "geopoint_alt_m",
           "track_p_gain", "track_d_gain", "gyro_coupling_factor"}
InDegrees == {"platform_lat", "platform_lon", "platform_roll", "platform_pitch",
              "platform_yaw", "max_slew_rate", "max_accel", "pan_limit", "tilt_min",
              "tilt_max", "jitter_amplitude", "jitter_amplitude_2", "noise_floor",
              "roll_deg", "pitch_deg", "yaw_deg"}
Shares == {"stabilization_quality", "track_loss_threshold"}
NonNegative == {"terrain_elevation_m", "track_gate_size_deg", "track_target_size_m",
                "laser_max_range_m"}
Settings == Copied \cup InDegrees \cup Shares \cup NonNegative

RuntimeModes == {"Bridge", "Simulator"}
Slots == 0..2
Ends == {"hfov_wide", "vfov_wide", "hfov_narrow", "vfov_narrow"}
Fovs == [Ends -> Int]

ASSUME ConfigurationAssumption ==
    /\ DOMAIN DefaultSetting = Settings
    /\ \A k \in Settings \ Copied : DefaultSetting[k] \in Int
    /\ \A k \in Shares : DefaultSetting[k] \in 0..One
    /\ DefaultTable \in [Slots -> Fovs]
    /\ One \in Nat /\ PerDegree \in Nat \ {0} /\ LogPerDegree \in Int
    /\ ZoomEnd \in Nat \ {0}

-------------------------------------------------------------------------------
\* RuntimeMode::parse; an unknown name is warned about and changes nothing.
ParseMode(name, otherwise) ==
    CASE name = "bridge"               -> "Bridge"
      [] name \in {"simulator", "sim"} -> "Simulator"
      [] OTHER                         -> otherwise

Radians(fovs) == [e \in Ends |-> fovs[e] + LogPerDegree]

\* Config::default writes camera 0 twice, in the table and in the legacy fields.
DefaultConfig ==
    [mode |-> "Bridge", setting |-> DefaultSetting, table |-> DefaultTable,
     legacy |-> Radians(DefaultTable[0])]

\* Mutant: a share is not cut to 0..1.
TakenUncut(k, v) ==
    CASE k \in InDegrees   -> v * PerDegree
      [] k \in NonNegative -> IF v < 0 THEN 0 ELSE v
      [] OTHER             -> v

\* How a setting of the file is taken over.
Taken(k, v) ==
    CASE k \in InDegrees   -> v * PerDegree
      [] k \in Shares      -> IF v < 0 THEN 0 ELSE IF v > One THEN One ELSE v
      [] k \in NonNegative -> IF v < 0 THEN 0 ELSE v
      [] OTHER             -> v

Setting(f) ==
    [k \in Settings |-> IF k \in DOMAIN f.setting THEN Taken(k, f.setting[k])
                        ELSE DefaultSetting[k]]

\* apply_camera_entry for the three slots: each number on its own.
Table(f) ==
    [c \in Slots |-> [e \in Ends |-> IF <<c, e>> \in DOMAIN f.camera THEN f.camera[<<c, e>>]
                                     ELSE DefaultTable[c][e]]]

\* Mutant: the legacy fields are synchronised before the entries of the file.
FromFileEarly(f) ==
    [mode    |-> ParseMode(f.mode, "Bridge"),
     setting |-> Setting(f),
     table   |-> Table(f),
     legacy  |-> Radians(DefaultTable[0])]

\* From<ConfigFile>: the defaults, overwritten by what the file has.
FromFile(f) ==
    [mode    |-> ParseMode(f.mode, "Bridge"),
     setting |-> Setting(f),
     table   |-> Table(f),
     legacy  |-> Radians(Table(f)[0])]

\* deny_unknown_fields: one key that no section has, and toml::from_str fails.
Accepted(f) == f.wellFormed /\ DOMAIN f.setting \subseteq Settings

\* Mutant: unknown keys are skipped.
LoadLenient(f) == IF f.exists /\ f.wellFormed THEN FromFile(f) ELSE DefaultConfig

\* Config::load.
Load(f) == IF f.exists /\ Accepted(f) THEN FromFile(f) ELSE DefaultConfig

\* with_runtime_mode
WithMode(c, m) == [c EXCEPT !.mode = m]

\* platform_source_config: any other name is the static source.
PlatformSource(c) ==
    IF c.setting.platform_source \in {"mavlink", "stanag4586"}
    THEN c.setting.platform_source ELSE "static"

-------------------------------------------------------------------------------
ClampZoom(z) == IF z < 0 THEN 0 ELSE IF z > ZoomEnd THEN ZoomEnd ELSE z

\* The way from the wide to the narrow end, in ZoomEnd steps.
Interpolated(wide, narrow, z) == wide * ZoomEnd + (narrow - wide) * ClampZoom(z)

\* <<hfov, vfov>> of fov_at_zoom and fov_at_zoom_for_camera, ZoomEnd times too large.
Pair(fovs, z) == <<Interpolated(fovs.hfov_wide, fovs.hfov_narrow, z),
                   Interpolated(fovs.vfov_wide, fovs.vfov_narrow, z)>>

FovAtZoom(c, z) == Pair(c.legacy, z)

\* A negative index is camera 0, and so is one beyond the table.
Slot(index) == IF index \in Slots THEN index ELSE 0

FovAtZoomForCamera(c, index, z) == Pair(Radians(c.table[Slot(index)]), z)
===============================================================================
