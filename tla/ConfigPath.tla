------------------------------ MODULE ConfigPath ------------------------------
(***************************************************************************)
(* A configuration on its way from the operator to flash: the broker's     *)
(* retained message on device/config/set, the sessions and the reassembly  *)
(* of MqttApp, on_mqtt_config_data of app_main, and DeviceConfig.          *)
(*                                                                         *)
(* The broker sends the retained message after each subscription and each  *)
(* new one as it is published; within a session it repeats none.  Which    *)
(* interface the sessions go by is left to Network.                        *)
(***************************************************************************)
EXTENDS DeviceConfig, MqttApp

CONSTANT MaxLosses  \* bound on what goes wrong between broker and on_data

ASSUME PathAssumption == Payload = Message /\ MaxLosses \in Nat

VARIABLES
    next,       \* the place in published of what the session sends next
    losses      \* what has gone wrong so far

pathVars == <<vars, mqttVars, next, losses>>

Retained == IF published = <<>> THEN None ELSE published[Len(published)]

PathInit == Init /\ MqttInit /\ next = 1 /\ losses = 0

Loss == losses < MaxLosses /\ losses' = losses + 1

(* A configuration is published, NVS fails, or a call goes on, during      *)
(* which the esp-mqtt task is busy.                                        *)
PathPublish(p) == Publish(p) /\ UNCHANGED <<mqttVars, next, losses>>

PathApply == (Apply \/ NvsError) /\ UNCHANGED <<mqttVars, next, losses>>

PathBoot == (Boot \/ BootErasing) /\ UNCHANGED <<mqttVars, next, losses>>

PathReset ==
    /\ Reset
    /\ MqttReset
    /\ next' = 1
    /\ UNCHANGED losses

(* Mutant of PathStart: the client is started before device_config. *)
PathStartEarly ==
    /\ \/ StartClient /\ UNCHANGED losses
       \/ StartClientFails /\ Loss
    /\ UNCHANGED <<vars, next>>

(* app_main, once the saved configuration has been loaded. *)
PathStart ==
    /\ up
    /\ \/ StartClient /\ UNCHANGED losses
       \/ StartClientFails /\ Loss
    /\ UNCHANGED <<vars, next>>

(* The esp-mqtt task between two calls of on_data. *)
Free == call = Idle

(* The retained message, if there is one, comes first. *)
Subscribes ==
    /\ Free
    /\ \/ Connected /\ UNCHANGED losses
       \/ ConnectedDeaf /\ Loss
    /\ next' = IF published = <<>> THEN 1 ELSE Len(published)
    /\ UNCHANGED vars

Quiet == transfer = <<>> /\ (session = "up" => next > Len(published))

(* A session ends, when nothing is on its way or in the middle of it.      *)
SessionEnds ==
    /\ Free
    /\ Disconnected
    /\ Quiet
    /\ next' = 1
    /\ UNCHANGED <<vars, losses>>

SessionLost ==
    /\ Free
    /\ Disconnected
    /\ ~Quiet
    /\ next' = 1
    /\ Loss
    /\ UNCHANGED vars

BrokerSends ==
    /\ Free
    /\ next \in DOMAIN published
    /\ Send(published[next])
    /\ next' = next + 1
    /\ UNCHANGED <<vars, losses>>

(* A fragment that completes no message. *)
PathFragment ==
    /\ Free
    /\ \/ DiscardTooLong \/ Ignore \/ StoreFirst \/ StoreFurther
    /\ handed' = <<>>
    /\ UNCHANGED <<vars, next, losses>>

PathNoMemory ==
    /\ Free
    /\ DiscardNoMemory
    /\ Loss
    /\ UNCHANGED <<vars, next>>

(* One that does: on_mqtt_config_data is called. *)
PathComplete ==
    /\ Free
    /\ StoreFirst \/ StoreFurther
    /\ handed' # <<>>
    /\ seen' = next - 1
    /\ call' = [at |-> "check", payload |-> handed'[1]]
    /\ UNCHANGED <<published, view, survivors, up, boot_cfg, result, ghosts, faults,
                   next, losses>>

PathNext ==
    \/ \E p \in Payload : PathPublish(p)
    \/ PathApply
    \/ PathBoot \/ PathReset \/ PathStart
    \/ Subscribes \/ SessionEnds \/ SessionLost
    \/ BrokerSends \/ PathFragment \/ PathNoMemory \/ PathComplete

PathSpec == PathInit /\ [][PathNext]_pathVars

(* A powered device boots, its tasks run and the broker answers; and no    *)
(* session lasts for ever: what was missed in one comes with the next.     *)
PathFairness ==
    /\ WF_pathVars(PathBoot) /\ WF_pathVars(PathStart) /\ WF_pathVars(PathApply)
    /\ WF_pathVars(Subscribes) /\ WF_pathVars(SessionEnds)
    /\ WF_pathVars(BrokerSends \/ PathFragment \/ PathComplete)

FairPathSpec == PathSpec /\ PathFairness

-----------------------------------------------------------------------------
(* Whatever is lost on the way, what reaches device_config is what         *)
(* DeviceConfig assumes of it: publications in their order, none before    *)
(* device_config_init (app_main.c:313-324, :432).                          *)
ImplementsDeviceConfig == Spec

(* A retained configuration that fits ends up saved, whatever interrupted  *)
(* its way and the earlier attempts, unless another one replaces it or the *)
(* MQTT client could not be made: blob before hash (device_config.c:86,    *)
(* :91) makes a redelivery repair a torn save, and a first fragment        *)
(* (mqtt_app.c:57-62) clears what an interrupted message left.  One        *)
(* published a second time may meet its own old hash instead               *)
(* (UnchangedMeansSaved).  When nvs_commit itself fails, the redelivery    *)
(* finds the hash and returns before any further commit, so what is        *)
(* promised is what gets return.                                           *)
PublishedAgain(p) ==
    \E i, j \in DOMAIN published : i # j /\ published[i] = p /\ published[j] = p

RetainedIsSaved ==
    \A p \in Payload \ Oversize :
        Retained = p ~> \/ Retained # p
                        \/ PublishedAgain(p)
                        \/ s_client = "failed"
                        \/ up /\ view = [raw |-> p, hash |-> Crc[p]]
=============================================================================
