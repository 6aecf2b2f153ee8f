--------------------------- MODULE MCDeviceConfig ---------------------------
(* Model values for DeviceConfig: two configurations that fit, with        *)
(* different CRCs, and one that does not.                                  *)
EXTENDS DeviceConfig, TLC

CONSTANTS cfgA, cfgB, cfgBig

MCPayload == {cfgA, cfgB, cfgBig}
MCCrc == (cfgA :> 10) @@ (cfgB :> 20) @@ (cfgBig :> 30)
=============================================================================
