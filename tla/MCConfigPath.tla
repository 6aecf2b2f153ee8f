---------------------------- MODULE MCConfigPath ----------------------------
(* The lengths keep the order of the limits: cfgA and cfgB fit, in one and *)
(* two fragments; cfgBig fits the buffer of mqtt_app (8192) and not        *)
(* device_config (4096); cfgHuge fits neither.                             *)
EXTENDS ConfigPath, TLC

CONSTANTS cfgA, cfgB, cfgBig, cfgHuge

MCPayload == {cfgA, cfgB, cfgBig, cfgHuge}
MCCrc == (cfgA :> 10) @@ (cfgB :> 20) @@ (cfgBig :> 30) @@ (cfgHuge :> 40)
MCSize == (cfgA :> 3) @@ (cfgB :> 4) @@ (cfgBig :> 5) @@ (cfgHuge :> 6)
=============================================================================
