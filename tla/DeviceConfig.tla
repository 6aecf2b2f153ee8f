---------------------------- MODULE DeviceConfig ----------------------------
(***************************************************************************)
(* components/device_config: the configuration received over MQTT, kept in *)
(* NVS as a raw blob and its CRC32, and rewritten only when the CRC        *)
(* changes.  Around it, the messages on device/config/set that reach it    *)
(* (ConfigPath says how), the boot sequence of app_main, NVS errors and    *)
(* resets at any point.                                                    *)
(*                                                                         *)
(* NVS is external.  Its contract: a get sees the last set; a set is       *)
(* durable once a commit has succeeded; a reset before that keeps the      *)
(* writes up to some point and loses the later ones, each key whole.       *)
(***************************************************************************)
EXTENDS Naturals, Sequences, FiniteSets

CONSTANTS
    Payload,    \* configurations an operator may publish
    Oversize,   \* those longer than DEVICE_CONFIG_MAX_LEN
    Crc,        \* CRC32 of a configuration
    None,       \* key not found, no call, nothing published
    MaxPublish, \* bound on the publications
    MaxFaults   \* bound on NVS errors, erasures and resets

ASSUME OversizeAssumption == Oversize \subseteq Payload
ASSUME NoneAssumption == None \notin Payload /\ \A p \in Payload : Crc[p] # None
ASSUME BoundAssumption == MaxPublish \in Nat /\ MaxFaults \in Nat

VARIABLES
    published,  \* what the operator has published
    seen,       \* how far in it the last message that reached the device was
    view,       \* cfg_raw and cfg_hash, as nvs_get_* returns them
    survivors,  \* what a reset at this moment may leave in flash
    up,         \* s_initialized, and app_main past device_config_init
    boot_cfg,   \* what app_main loaded at boot
    call,       \* progress of device_config_apply_if_changed
    result,     \* what the last call returned, since the boot
    acked,      \* ghost: the payload of the last call that returned changed
    attempts,   \* ghost: payloads written to cfg_raw since then
    writes,     \* ghost: nvs_set_* calls that wrote
    faults      \* errors, erasures and resets so far

vars == <<published, seen, view, survivors, up, boot_cfg, call, result,
          acked, attempts, writes, faults>>
broker == <<published, seen>>
ghosts == <<acked, attempts, writes>>

Blank == [raw |-> None, hash |-> None]
Idle == [at |-> "idle", payload |-> None]
NoResult == [of |-> None, is |-> "none"]

Init ==
    /\ published = <<>>
    /\ seen = 0
    /\ view = Blank
    /\ survivors = {Blank}
    /\ up = FALSE
    /\ boot_cfg = None
    /\ call = Idle
    /\ result = NoResult
    /\ acked = None
    /\ attempts = {}
    /\ writes = 0
    /\ faults = 0

(* The operator publishes p, retained, on device/config/set. *)
Publish(p) ==
    /\ Len(published) < MaxPublish
    /\ published' = Append(published, p)
    /\ UNCHANGED <<seen, view, survivors, up, boot_cfg, call, result, ghosts, faults>>

(* The i-th publication reaches on_mqtt_config_data, perhaps again, which  *)
(* calls device_config_apply_if_changed: publications arrive in order, may *)
(* be late and may be skipped.  The esp-mqtt task makes one call at a time.*)
Receive(i) ==
    /\ up
    /\ call = Idle
    /\ seen <= i
    /\ seen' = i
    /\ call' = [at |-> "check", payload |-> published[i]]
    /\ UNCHANGED <<published, view, survivors, up, boot_cfg, result, ghosts, faults>>

ReturnResult(outcome) ==
    /\ call' = Idle
    /\ result' = [of |-> call.payload, is |-> outcome]

At(place) == call.at = place
Valid == call.payload \notin Oversize

(* Mutant of SameHash: any stored hash is taken for the same. *)
AnyHash == view.hash # None

SameHash == view.hash = Crc[call.payload]

(* len > DEVICE_CONFIG_MAX_LEN *)
Reject ==
    /\ At("check")
    /\ ~Valid
    /\ ReturnResult("invalid")
    /\ UNCHANGED <<broker, view, survivors, up, boot_cfg, ghosts, faults>>

(* have_stored and equal hashes: nothing is written. *)
Unchanged ==
    /\ At("check")
    /\ Valid
    /\ SameHash
    /\ ReturnResult("unchanged")
    /\ UNCHANGED <<broker, view, survivors, up, boot_cfg, ghosts, faults>>

(* A set changes what gets return now and what a reset may leave. *)
Write(contents) ==
    /\ view' = contents
    /\ survivors' = survivors \cup {contents}
    /\ writes' = writes + 1

(* Mutant of SetRaw: the hash is written where the blob should be. *)
SetHashFirst ==
    /\ At("check")
    /\ Valid
    /\ ~SameHash
    /\ Write([view EXCEPT !.hash = Crc[call.payload]])
    /\ call' = [call EXCEPT !.at = "setHash"]
    /\ attempts' = attempts \cup {call.payload}
    /\ UNCHANGED <<broker, up, boot_cfg, result, acked, faults>>

(* nvs_set_blob(cfg_raw) *)
SetRaw ==
    /\ At("check")
    /\ Valid
    /\ ~SameHash
    /\ Write([view EXCEPT !.raw = call.payload])
    /\ call' = [call EXCEPT !.at = "setHash"]
    /\ attempts' = attempts \cup {call.payload}
    /\ UNCHANGED <<broker, up, boot_cfg, result, acked, faults>>

(* Mutant of SetHash: the hash of the initial value is written. *)
SetInitialHash ==
    /\ At("setHash")
    /\ Write([view EXCEPT !.hash = 0])
    /\ call' = [call EXCEPT !.at = "commit"]
    /\ UNCHANGED <<broker, up, boot_cfg, result, acked, attempts, faults>>

(* Mutant of SetHash: the hash is never updated. *)
SetNoHash ==
    /\ At("setHash")
    /\ Write(view)
    /\ call' = [call EXCEPT !.at = "commit"]
    /\ UNCHANGED <<broker, up, boot_cfg, result, acked, attempts, faults>>

(* nvs_set_u32(cfg_hash) *)
SetHash ==
    /\ At("setHash")
    /\ Write([view EXCEPT !.hash = Crc[call.payload]])
    /\ call' = [call EXCEPT !.at = "commit"]
    /\ UNCHANGED <<broker, up, boot_cfg, result, acked, attempts, faults>>

(* Mutant of Commit: success is reported without a commit. *)
CommitForgotten ==
    /\ At("commit")
    /\ ReturnResult("changed")
    /\ acked' = call.payload
    /\ attempts' = {}
    /\ UNCHANGED <<broker, view, survivors, up, boot_cfg, writes, faults>>

(* nvs_commit, and the return with *out_changed = true *)
Commit ==
    /\ At("commit")
    /\ survivors' = {view}
    /\ ReturnResult("changed")
    /\ acked' = call.payload
    /\ attempts' = {}
    /\ UNCHANGED <<broker, view, up, boot_cfg, writes, faults>>

Fault == faults < MaxFaults /\ faults' = faults + 1

(* The NVS call due next returns an error and leaves the key as it was. *)
NvsError ==
    /\ \/ At("check") /\ Valid /\ ~SameHash
       \/ At("setHash")
       \/ At("commit")
    /\ Fault
    /\ ReturnResult("error")
    /\ UNCHANGED <<broker, view, survivors, up, boot_cfg, ghosts>>

(* A reset at any point; the RAM state is lost. *)
Reset ==
    /\ up
    /\ Fault
    /\ view' \in survivors
    /\ survivors' = {view'}
    /\ up' = FALSE
    /\ boot_cfg' = None
    /\ call' = Idle
    /\ result' = NoResult
    /\ UNCHANGED <<broker, ghosts>>

(* nvs_flash_init, device_config_init, then device_config_load_raw. *)
Boot ==
    /\ ~up
    /\ up' = TRUE
    /\ boot_cfg' = view.raw
    /\ UNCHANGED <<broker, view, survivors, call, result, ghosts, faults>>

(* nvs_flash_init finds no free page or a new layout: app_main erases all. *)
BootErasing ==
    /\ ~up
    /\ Fault
    /\ up' = TRUE
    /\ view' = Blank
    /\ survivors' = {Blank}
    /\ boot_cfg' = None
    /\ acked' = None
    /\ attempts' = {}
    /\ UNCHANGED <<broker, call, result, writes>>

Apply == Reject \/ Unchanged \/ SetRaw \/ SetHash \/ Commit

Next ==
    \/ \E p \in Payload : Publish(p)
    \/ \E i \in DOMAIN published : Receive(i)
    \/ Apply
    \/ NvsError
    \/ Reset
    \/ Boot
    \/ BootErasing

Spec == Init /\ [][Next]_vars

-----------------------------------------------------------------------------
Contents == [raw : Payload \cup {None},
             hash : {Crc[p] : p \in Payload} \cup {None}]
(* Types; what a get returns is always among what a reset may leave.       *)
TypeOK ==
    /\ published \in Seq(Payload)
    /\ seen \in 0..Len(published)
    /\ view \in Contents
    /\ survivors \subseteq Contents
    /\ view \in survivors
    /\ up \in BOOLEAN
    /\ boot_cfg \in Payload \cup {None}
    /\ \/ call = Idle
       \/ up /\ call \in [at : {"check", "setHash", "commit"}, payload : Payload]
    /\ result \in [of : Payload \cup {None},
                   is : {"none", "invalid", "unchanged", "changed", "error"}]
    /\ acked \in Payload \cup {None}
    /\ attempts \subseteq Payload
    /\ writes \in Nat
    /\ faults \in Nat

(* The hash never vouches for a configuration that is not there, also      *)
(* after a reset between the two writes (device_config.c:86, :91): a       *)
(* stored hash comes with a stored blob.                                   *)
HashComesWithRaw == \A s \in survivors : s.hash # None => s.raw # None

(* A configuration reported as saved is durable: whatever resets and NVS   *)
(* errors follow, flash holds it or one received later whose save was      *)
(* begun (device_config.h:61-64, README.md:422-424).                       *)
SavedIsDurable ==
    acked # None => \A s \in survivors : s.raw \in attempts \cup {acked}

(* "Unchanged" means the payload is the saved configuration                *)
(* (device_config.h:32-34, :47-52, :61-63).                                *)
UnchangedMeansSaved ==
    At("idle") /\ result.is = "unchanged" => view.raw = result.of

(* So it does whenever no save has been begun since the last complete one: *)
(* what breaks UnchangedMeansSaved is an interrupted save and nothing else *)
(* (device_config.c:74).                                                   *)
UnchangedAfterCompleteSave == attempts = {} => UnchangedMeansSaved

(* Redeliveries do not wear the flash (README.md:413-419): two writes for  *)
(* each publication and two more for each fault, however often the         *)
(* message is delivered.                                                   *)
WearIsBounded == writes <= 2 * (Len(published) + faults)
=============================================================================
