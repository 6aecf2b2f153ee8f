------------------------------- MODULE MqttApp -------------------------------
(***************************************************************************)
(* mqtt_app: the start of the MQTT client, its sessions with the broker    *)
(* and the reassembly of the messages that arrive in fragments.            *)
(*                                                                         *)
(* esp-mqtt is external.  Its task makes one session after another, hands  *)
(* over all fragments of a message before the first of the next one, and   *)
(* drops a message whose session is lost.  Of esp_netif: it chooses the    *)
(* default interface until esp_netif_set_default_netif is called, and      *)
(* never again after that.                                                 *)
(*                                                                         *)
(* A call that fails under ESP_ERROR_CHECK starts the program again.  The  *)
(* NULL arguments mqtt_app_start refuses are never given by app_main.      *)
(***************************************************************************)
EXTENDS Integers, Sequences

CONSTANTS
    Message,    \* messages on the subscribed topic
    Size,       \* Size[m]: total_data_len of m
    MaxLen,     \* MQTT_APP_MAX_MESSAGE_LEN
    Chunk,      \* what esp-mqtt hands over at a time
    Netif,      \* network interfaces
    eth,        \* config->eth_netif
    Nil         \* NULL

ASSUME MessageAssumption ==
    /\ Size \in [Message -> Nat \ {0}]
    /\ MaxLen \in Nat
    /\ Chunk \in Nat \ {0}
ASSUME NetifAssumption == eth \in Netif /\ Nil \notin Netif

VARIABLES
    s_client,   \* "none", "started", or "failed": esp_mqtt_client_init failed
    default,    \* the default interface of esp_netif
    previous,   \* s_previous_default_netif
    found,      \* ghost: the default interface when mqtt_app_start was called
    via,        \* ghost: the default interface when the last session was made
    session,    \* "down", "up", or "deaf": connected but not subscribed
    transfer,   \* <<message, offset of its next fragment>>, <<>> between messages
    rx_buf,     \* s_rx_buf, <<>> for NULL
    rx_len,     \* s_rx_len
    handed      \* ghost: what on_data was given of the last message sent

route == <<default, previous, found, via>>
reception == <<transfer, rx_buf, rx_len, handed>>
mqttVars == <<s_client, route, session, reception>>

(* The bytes of m; a block just allocated. *)
Bytes(m) == [i \in 1..Size[m] |-> <<m, i>>]
Block(m) == [i \in 1..Size[m] |-> <<>>]

MqttInit ==
    /\ s_client = "none"
    /\ default = Nil /\ previous = Nil /\ found = Nil /\ via = Nil
    /\ session = "down"
    /\ transfer = <<>> /\ rx_buf = <<>> /\ rx_len = 0 /\ handed = <<>>

(* A reset of the device. *)
MqttReset ==
    /\ s_client' = "none"
    /\ default' = Nil /\ previous' = Nil /\ found' = Nil /\ via' = Nil
    /\ session' = "down"
    /\ transfer' = <<>> /\ rx_buf' = <<>> /\ rx_len' = 0 /\ handed' = <<>>

-----------------------------------------------------------------------------
(* esp_netif follows the links and their priorities. *)
StackChooses(n) ==
    /\ s_client = "none"
    /\ default' = n
    /\ UNCHANGED <<s_client, previous, found, via, session, reception>>

(* Mutant of ForceDefault: put back when mqtt_app_start returns. *)
ForceDefaultBriefly ==
    /\ s_client = "none"
    /\ previous' = Nil
    /\ found' = default
    /\ default' = IF default = Nil THEN eth ELSE default
    /\ UNCHANGED <<via, session, reception>>

ForceDefault ==
    /\ s_client = "none"
    /\ previous' = default
    /\ found' = default
    /\ default' = eth
    /\ UNCHANGED <<via, session, reception>>

StartClient == ForceDefault /\ s_client' = "started"

(* esp_mqtt_client_init fails: NULL is returned, the default stays forced. *)
StartClientFails == ForceDefault /\ s_client' = "failed"

mqtt_app_start == StartClient \/ StartClientFails

-----------------------------------------------------------------------------
(* MQTT_EVENT_CONNECTED. *)
Connects(outcome) ==
    /\ s_client = "started"
    /\ session = "down"
    /\ via' = default
    /\ default' = IF previous = Nil THEN default ELSE previous
    /\ previous' = Nil
    /\ session' = outcome
    /\ UNCHANGED <<s_client, found, reception>>

Connected == Connects("up")

(* esp_mqtt_client_subscribe fails, which is only logged. *)
ConnectedDeaf == Connects("deaf")

(* MQTT_EVENT_DISCONNECTED, also in the middle of a message. *)
Disconnected ==
    /\ session # "down"
    /\ session' = "down"
    /\ transfer' = <<>>
    /\ UNCHANGED <<s_client, route, rx_buf, rx_len, handed>>

(* The broker sends m. *)
Send(m) ==
    /\ session = "up"
    /\ transfer = <<>>
    /\ transfer' = <<m, 0>>
    /\ handed' = <<>>
    /\ UNCHANGED <<s_client, route, session, rx_buf, rx_len>>

-----------------------------------------------------------------------------
(* mqtt_app_handle_data_event. *)
Arriving == transfer # <<>>
message == transfer[1]
offset == transfer[2]

(* The end of the fragment. *)
Upto == IF offset + Chunk < Size[message] THEN offset + Chunk ELSE Size[message]

NextFragment ==
    /\ transfer' = IF Upto < Size[message] THEN <<message, Upto>> ELSE <<>>
    /\ UNCHANGED <<s_client, route, session>>

(* Mutant of Discard: the old buffer is kept. *)
DiscardKeepsBuffer ==
    /\ Arriving
    /\ offset = 0
    /\ NextFragment
    /\ UNCHANGED <<rx_buf, rx_len, handed>>

(* The first fragment frees what an interrupted message left. *)
Discard ==
    /\ Arriving
    /\ offset = 0
    /\ rx_buf' = <<>>
    /\ rx_len' = 0
    /\ NextFragment
    /\ UNCHANGED handed

DiscardTooLong == Discard /\ Size[message] > MaxLen

DiscardNoMemory == Discard /\ Size[message] <= MaxLen

(* Further fragments of a discarded message. *)
Ignore ==
    /\ Arriving
    /\ offset > 0
    /\ rx_buf = <<>>
    /\ NextFragment
    /\ UNCHANGED <<rx_buf, rx_len, handed>>

(* memcpy to the place of the fragment; a complete message is given to     *)
(* on_data and freed.                                                      *)
Store(block, len) ==
    LET copied == [i \in DOMAIN block |->
                      IF offset < i /\ i <= Upto THEN <<message, i>> ELSE block[i]]
        stored == len + (Upto - offset)
    IN  /\ IF stored < Size[message]
           THEN rx_buf' = copied /\ rx_len' = stored /\ UNCHANGED handed
           ELSE rx_buf' = <<>> /\ rx_len' = 0 /\ handed' = <<message, copied, stored>>
        /\ NextFragment

(* Mutant of StoreFirst: s_rx_len is not reset. *)
StoreFirstKeepsLength ==
    /\ Arriving
    /\ offset = 0
    /\ Size[message] <= MaxLen
    /\ Store(Block(message), rx_len)

StoreFirst ==
    /\ Arriving
    /\ offset = 0
    /\ Size[message] <= MaxLen
    /\ Store(Block(message), 0)

StoreFurther ==
    /\ Arriving
    /\ offset > 0
    /\ rx_buf # <<>>
    /\ Store(rx_buf, rx_len)

mqtt_app_handle_data_event ==
    DiscardTooLong \/ DiscardNoMemory \/ Ignore \/ StoreFirst \/ StoreFurther

MqttNext ==
    \/ \E n \in Netif \cup {Nil} : StackChooses(n)
    \/ mqtt_app_start
    \/ Connected \/ ConnectedDeaf \/ Disconnected
    \/ \E m \in Message : Send(m)
    \/ mqtt_app_handle_data_event
    \/ MqttReset

MqttSpec == MqttInit /\ [][MqttNext]_mqttVars

-----------------------------------------------------------------------------
(* on_data is given a message whole and unmixed or not at all, whatever    *)
(* sessions were lost in the middle of one, did not fit or found no memory *)
(* (mqtt_app.h:21-24, "chegam completos aqui").                            *)
OnlyWhole == handed # <<>> => handed = <<handed[1], Bytes(handed[1]), Size[handed[1]]>>

(* A fragment is copied within the block: one left by another message is   *)
(* never written to (mqtt_app.c:88).                                       *)
CopiesInside == Arriving /\ offset > 0 /\ rx_buf # <<>> => Upto \in DOMAIN rx_buf

(* The first session goes by ETH1, whichever links come up while it is     *)
(* being made; from then on the default is what it was before, or ETH1 for *)
(* good when there was none (mqtt_app.c:11-15, :175-177).                  *)
DefaultRoute ==
    IF via = Nil THEN s_client # "none" => default = eth
    ELSE default = IF found = Nil THEN eth ELSE found
=============================================================================
