# Formal models of the dual-Ethernet radar gateway

The repository is the firmware of an ESP32-S3 with two W5500 Ethernet ports. It is a TCP proxy
between one local client and a remote radar, decodes the radar's packets, publishes what it
receives over MQTT, and keeps a configuration received over MQTT in flash. This directory holds
TLA+ models of that firmware, the TLC configurations that check them on small instances, and
theorems about them that the TLA+ proof system checks for every value of the constants.

    tlasany M.tla                          parse a module
    tlc -workers 2 -config X.cfg M         model-check (the table of runs names M and X)
    tlapm M.tla                            check the proofs of one of the *Proofs modules

`PROJECT.json` maps each definition to the source lines it models, lists the runs, the hazards and
the theorems, and has for each checked property a mutant of the model - a plausible bug in the
code - under which TLC finds the property violated.


## 1. Inventory of the system

All paths are under `src/`; a component `x` is `components/x/x.c` with its header.

| component | state | operations | talks to |
|---|---|---|---|
| `main/app_main.c` | none of its own after the boot | boot sequence; callbacks `on_data_from_tcp_client`, `on_data_from_remote_host`, `on_mqtt_config_data`; handlers of the proxy events | calls every component; is called back by server, client, MQTT and loop tasks |
| `proxy_events` | event loop: queue of 16, task; heap copies of the data | `init`, `register_handler`, `post_data` | posted to by the two network tasks, runs app_main's handlers |
| `doppler_events` | the same for decoded packets | `init`, `register_handler`, `post_data` | posted to by the client task, runs `doppler_processing` |
| `doppler_processing` | table command -> function | `init`, dispatcher | handler of `doppler_events`; owns and frees the data |
| `tcp_client_app`, parser | parser state in a local variable of the task; `s_tx_frame_number` | `process_byte`, `reset_parser`, `tcp_client_app_send_command` | calls `on_data_from_remote_host` |
| `tcp_client_app`, connection | `s_sock`, `s_sock_mutex`, the task's `sock` | `tcp_client_app_start`, `tcp_client_task`, `connect_to_remote_host`, `tcp_client_app_send` | lwIP; other tasks send through it |
| `tcp_server_app` | `s_client_sock`, `s_sock_mutex`, listening and client sockets | `tcp_server_app_start`, `tcp_server_task`, `tcp_server_app_send` | lwIP; other tasks send through it |
| `mqtt_app` | reassembly buffer, subscriptions, saved default netif | `start`, `publish`, event handler | esp-mqtt; calls `on_mqtt_config_data` |
| `device_config` | `cfg_raw` and `cfg_hash` in NVS, `s_initialized` | `init`, `load_raw`, `apply_if_changed` | NVS; called at boot and by the MQTT task |
| `eth_w5500` | per port a context with MAC and IP; the chip's own MAC register | `eth_w5500_init`, `eth_event_handler`, GOT_IP handler | default event loop, W5500 driver |
| `scripts/*.sh` | certificate files | run by hand | openssl |
| Kconfig, CMake, `mosquitto/` | - | - | declarative |

What is hard about it, and what makes each part correct:

* **Event loops.** Two network tasks, a queue that may be full, a post timeout, three allocations
  that fail separately, and a buffer whose owner changes from call to queue to handler. *Correct*:
  every block has one owner from `malloc` to `free`; a network task always gets out of the call;
  what is queued is what was received, in order.
* **The two TCP tasks.** A descriptor is shared between the task that serves the connection and
  tasks that send on it; `send` blocks with the mutex held; lwIP gives a closed number out again;
  the rest of the program opens sockets too. *Correct*: a send never touches a closed or recycled
  descriptor; none leaks; a connection that ended is always let go.
* **The proxy as a whole.** One loop task sends in both directions while both network tasks post
  to it. *Correct*: data crosses over, in order and at most once; reading never stops because of a
  handler; nothing waits in a circle.
* **The parser.** Lengths with and without overhead, a `uint16_t` subtraction, an 8-bit checksum,
  state that survives a reconnection. *Correct*: it delivers exactly the frames of the format it
  reads (which is not quite that of `README.md:189`, see the findings), is at the byte of the frame
  its state says, finds its way back, stays inside its buffer - the last two not after a length
  below seven.
* **device_config.** Two keys that are not written atomically, errors and resets between any two
  calls, redelivery of the retained message. *Correct*: what was reported saved survives,
  "unchanged" means saved, redeliveries do not wear the flash, the retained configuration ends up
  saved.
* **eth_w5500.** A chip that forgets its MAC, link events queued while another instance is being
  set up, two registrations of one handler for events of any source. *Correct*: a port whose
  link-up was handled has a MAC - its own.
* **mqtt_app.** Fragments of messages of any size, sessions lost between two of them, memory
  that runs out; a default interface that is forced at the start and restored at the first
  session, while links come and go. *Correct*: `on_data` gets whole messages or nothing, no
  fragment is copied outside its block, the first session goes by ETH1, and the client comes to a
  session whatever happens to ETH2.
* **The boot.** Server, client and MQTT run as soon as they are started, some without checking
  what they need. *Correct*: nothing is handed to a part that has not been started.

The full list of hazards, each at its line, is in `PROJECT.json` (`hazards`).


## 2. The modules

    Sockets              lwIP's descriptors and the far ends (external)
      ActiveSocket       slot + mutex + *_send, common to server and client
        TcpServer        tcp_server_task             TcpServerProofs
        TcpClient        tcp_client_task             TcpClientProofs
                         (lemmas for both: SocketsProofs)
    EventChannel         abstract: a bounded FIFO channel with loss on a full queue
      EventLoop          proxy_events, doppler_events; implements EventChannel
                                                     EventLoopProofs
    ProxySystem          INSTANCEs TcpServer, TcpClient and two EventChannels, with app_main's glue;
                         implements TcpServer and TcpClient
                                                     ProxySystemProofs
    FrameParser          process_byte
      RadarLink          packets, reconnections, send_command
                                                     FrameParserProofs
    DeviceConfig         device_config + NVS + retained message + resets
                                                     ConfigPathProofs
    MqttApp              the MQTT client: start, sessions, default interface, fragments
    EthW5500             both ports, their chips, the default loop
    ConfigPath           DeviceConfig and MqttApp: from the broker to flash; implements
                         DeviceConfig                ConfigPathProofs
    Network              EthW5500 and MqttApp: ports and sessions
                                                     NetworkProofs
    MC*                  constants for TLC

Operators introduced by a comment "Mutant of ..." are no part of any specification: each is the
definition after it as a plausible bug would have it, used by the mutants of `PROJECT.json`.

**EventChannel / EventLoop.** A call of `*_events_post_data` is `Call` (the receive callback enters
with its buffer), then `ReturnEmpty` (`len == 0`), or `Copy` (`malloc` + `memcpy`) or `NoMemory`,
then `Post`, `PostTimeout` (queue still full: the copy is freed) or `PostNoMemory` (the loop cannot
allocate its own copy of the event). `Dispatch` takes an event, `Release` is the handler's `free`
and return. Both event components are this code with another event base. `EventChannel` promises
what a user sees: an offer is accepted in order or dropped, accepted data is handled one at a
time. A copy may be dropped at any time (memory) in the abstract specification; what happens to
blocks is only in the detailed one. The refinement maps a queued pointer to the content of its
block, so data freed or overwritten too early would be seen.

**Sockets / ActiveSocket.** `file[f]` is what descriptor `f` stands for, `link[c]` the connection:
its state and how many receives and sends are outstanding, at most `Window` each. `send` may fail
at any time (memory, or another task sending on the same connection) and blocks when the window is
full and the far end does not read. A far end closes, resets or vanishes without a word; TCP gives
up on a vanished one only while data is outstanding. `OtherStep` is a step of the rest of the program
on connections of its own: it opens them (at once, or `socket` first and `connect` later), sends,
receives and closes. `set_active_socket` is one step because
nothing is seen between its take and give; `*_send` is two, `SendBegins` and `SendEnds`, with the
mutex held between.

**TcpServer / TcpClient.** Before the start there is neither task nor mutex ("off", `Absent`).
`tcp_server_app_start` creates both without checking either; when the mutex is missing, the first
`set_active_socket` or `tcp_server_app_send` asserts and the program starts again
(`ActivateCrashes`, `SendCrashes`). `tcp_client_app_start` gives up on the first thing missing, and
`tcp_client_app_send` tests for the mutex. From then on the task's program counter follows the
code: for the server listen, accept, activate, welcome, notify, recv, callback, deactivate, close,
and "dead" after a failing `bind`, `listen` or `accept`; for the client connect, connecting,
activate, recv, callback, deactivate, close, delay. Several tasks may send. `Environment` is what each
module takes the others to do: the far ends, and the rest of the program on descriptors from the
same pool (`OtherStep`); `Restart` starts the program again at any time in `TcpClient`, and after a
missing mutex in `TcpServer`. Section 4 says that the other half of the proxy is such an environment.

**ProxySystem.** Two network tasks, the proxy loop with the two handlers, the doppler loop with
its dispatcher, and the far ends, from the moment app_main has made the loops: `ServerStart`, then
`ClientStart`, while whatever has been started runs already; `Crash` is the end of a program whose
server found no mutex. The loops are taken at the level of `EventChannel`, which
`EventLoop` is proved to implement. A message is what one `recv` returned to the server task, or
one packet of the remote host; it carries its connection and its number.

**FrameParser / RadarLink.** One action per state of `process_byte` and per early return, over
bytes `0..Base-1`, with the `uint16_t` arithmetic modulo `Base * Base`. `raw` is a ghost: the bytes
since the last accepted header. `RadarLink` feeds it whole packets over a connection that is lost
between any two bytes, without resetting the parser, as `tcp_client_task` does. `send_command`
builds what `tcp_client_app_send_command` builds.

**DeviceConfig.** `view` is what `nvs_get_*` returns, `survivors` what a reset at this moment may
leave: each set adds to it, a commit reduces it to the view. A reset picks one of them. Every NVS
call that writes may fail; the boot may erase the partition (`app_main.c`). `acked`, `attempts`
and `writes` are ghosts for the properties. By itself it assumes of deliveries only that they are
publications in their order, any number of times.

**MqttApp.** `StartClient` and `StartClientFails` are `mqtt_app_start`, `Connected` and
`ConnectedDeaf` the CONNECTED event with subscriptions that succeed or not, `Disconnected` the end
of a session at any point. A message is sent as fragments of `Chunk` bytes; the handler of a
fragment is `DiscardTooLong`, `DiscardNoMemory`, `Ignore`, or `Store*`, which ends in `on_data` when
the message is complete. `rx_buf` is the block byte by byte, each byte named by its message and
place, so a mixture of two messages would be seen.

**ConfigPath.** The broker sends the retained message after each subscription and new ones as they
come; a complete message is `on_mqtt_config_data`, which calls `device_config_apply_if_changed` on
the task of esp-mqtt, so no fragment is handled during the call. A reset takes everything but NVS
and the broker. Everything that goes wrong on the way is counted by `losses`, apart from the NVS
errors and resets counted by `faults`.

**Network.** The default interface follows the links (the ports' `route_prio`) until mqtt_app
forces it; a session is made over the default interface when its link is up. The client is started
only when both ports are set up (`app_main.c:399-402`).

**EthW5500.** `shar[p]` is the MAC in chip `p`, named by the instance it belongs to; a reset of
the chip blanks it and drops the link. Instances are set up one after another; each step of the
set-up may fail and frees the context. Link-up events queue on the default loop, which runs all
handlers registered at the time, each writing its own MAC to the chip the event came from.


## 3. What the runs check

| run | module, cfg | states | question and answer |
|---|---|---|---|
| `proxy_safety` | MCProxySystem, ProxySafety | 1.58 M (with symmetry) | Two local clients in turn, one remote connection, resets at any point, two descriptors given out again, server and client started in turn with or without memory: data crosses over (`CrossesOver`), in order and at most once (`InOrder`), and no handler sends to a server that has not been started (`ServerFirst`). Holds. |
| `proxy_progress` | MCProxySystem, ProxyProgress | 100 k | A task in its receive loop keeps taking data whatever handlers and far ends do (`KeepsReading`); with far ends that read in turn, no circle of waits stops a handler (`HandlersFinish`). Holds. |
| `event_loop` | MCEventLoop | 44 k | Buffer ownership, calls return even if a handler never does, the loop implements the channel, safety and liveness. Holds. |
| `tcp_server` | MCTcpServer | 101 k | `SendsToServedClient`, `NoDescriptorLeak`, `LeaverIsReleased`. Holds. |
| `tcp_client` | MCTcpClient | 59 k | `SendsToHost`, `NoDescriptorLeak`, `Reconnects`. Holds. |
| `radar` | MCRadarLink | 184 k | The parser delivers exactly the frames well formed in the format it reads (`DeliversFrames`); on the first connection every good packet up to the maximum length and none that is longer or defective (`FirstConnectionDelivers`); within a frame that announces at least seven bytes it stands where its state says and waits for no more bytes than announced (`KeepsPosition`); it overruns only after a short length and resynchronises after reconnections. Holds. |
| `device_config` | MCConfigPath | 416 k | A configuration from the broker to flash: `on_data` gets whole messages (`OnlyWhole`), copied inside their block (`CopiesInside`); the path gives device_config only what it accepts (`ImplementsDeviceConfig`); `HashComesWithRaw`, `SavedIsDurable`, `UnchangedAfterCompleteSave`, `WearIsBounded`, and the retained configuration ends up saved (`RetainedIsSaved`). Holds. |
| `eth` | MCNetwork | 182 k | `ConfiguredAfterLinkUp`, `OwnMacUnlessFollowed`, `LinkUpIsHandled`; the interface MQTT goes by (`DefaultRoute`), and that the client comes to its sessions (`ReachesBroker`). Holds. |
| `eth_own_mac` | MCEthW5500, EthOwnMac | | `OwnMac` is **violated**: the first port ends with the second one's MAC. |
| `device_config_torn` | MCDeviceConfig, DeviceConfigTorn | | `UnchangedMeansSaved` is **violated** after an interrupted save. |
| `radar_short_length` | MCRadarLink, RadarShortLength | | `PayloadInBounds` is **violated** by a length below seven. |
| `radar_send_command` | MCRadarLink, RadarSendCommand | | `PacketsDelivered` is **violated**: a command sent is not a packet to this file's parser. |

### What the violations show

* `eth_own_mac`: `eth_w5500_init` registers `eth_event_handler` for `ETH_EVENT` of any source, once
  per port, and the handler does not check that the event comes from its own chip. At a link-up of
  port 1 after port 2 was registered both handlers run, the second one last, and chip 1 gets port
  2's MAC, contrary to `eth_w5500.h:54-56`. `OwnMacUnlessFollowed` says how far the promise goes:
  it holds for a port as long as none set up after it is registered.
* `device_config_torn`: blob A is saved; while B is saved, a reset (or an error) falls between the
  blob and its hash; A is published again, its hash matches, and the call returns "unchanged" while
  the blob is B. `UnchangedAfterCompleteSave` shows that an interrupted save is the only way.
* `radar_short_length`: the overhead of seven is subtracted from a `uint16_t` without a check.
  `OverrunOnlyIfShort`, also proved, shows it is the only way out of the buffer.
* `radar_send_command`: length and command are swapped with respect to the parser, and the length
  counts the payload only. `README.md:189` has the sender's order, so it is the parser that departs
  from the repository's own description of the radar's packets.

### Behaviour to know, modelled and not claimed as wrong

* The parser is not reset on a reconnection (`tcp_client_app.c:321`). The first packet of a new
  connection may complete an abandoned frame and be lost; misplaced bytes may even be read as a
  short length, so in run `radar` an overrun is reachable from valid packets and a reconnection.
* The maximum is compared with the whole length, before seven is subtracted (`:120`): the longest
  payload delivered is 1017 bytes, where `README.md:194` speaks of 1024, and good packets with a
  payload of 1018 to 1024 bytes are discarded. `FirstConnectionDelivers` states this boundary of the
  code, not the README's, and run `radar` has packets on it, one byte above it and with a payload of
  the full maximum.
* A frame that announces fewer than seven bytes keeps the parser in payload from its fifth byte on,
  waiting for the wrapped length (`:125`), until the buffer is overrun: the promise of
  `README.md:195-196` that the parser is not held up is kept only for lengths of at least seven,
  which is how `KeepsPosition` states it.
* After a failed `nvs_commit` a redelivery finds the hash and returns "unchanged" without another
  commit: what `RetainedIsSaved` promises is what `nvs_get` returns.
* Data queued while no one is connected, or while a connection is replaced, goes to whoever is
  connected when the handler runs.
* The welcome message is sent without the mutex, after the slot is set: proxied data can come
  before it, or be refused by lwIP while it is being sent.
* The default interface that mqtt_app restores is the one of the moment it was started. If that was
  ETH2 (ETH1 had no link yet), every session but the first goes by ETH2 for good, and none is made
  while ETH2 is down although ETH1 is up: `ReachesBroker` has `found \in {Nil, eth}` as a
  hypothesis once there has been a session. With no default at the start, ETH1 stays forced.
* If `esp_mqtt_client_init` fails the default stays forced and nothing tries again.
* A failed subscription is only logged: the session stays deaf until it is lost and made again. A
  message dropped for lack of memory comes again only with the next session.
* A message longer than 4096 bytes and up to 8192 is reassembled and then refused by device_config.
* Without memory for its mutex the server brings the program down at the first client or packet;
  without memory for its task there is no server, and nothing reports it. The same goes for the
  client's task. `ServerFirst` holds because `app_main` starts the server first; nothing in
  `tcp_server_app_send` would.
* A failing `accept` ends the server task for good.
* A host that vanishes while nothing is sent to it is never noticed (no keepalive, no receive
  timeout).

### Bounds, and why they are enough

* **Event loop**: two producers (there are two network tasks), queue of 2, five blocks - one per
  producer, two queued, one being handled - so memory and queue run out separately; data of
  length zero and two other contents.
* **Sockets**: two descriptors, so a closed one is reused at once by another connection; window 1,
  so a send blocks after one unread; two clients or two host connections that come back, plus one
  connection of another part of the program; two sending tasks.
* **Proxy, safety**: queue 2, window 1, one message from each local client and two from the host
  (`MaxMessages`), connections end by reset only (`Endings`): closing and vanishing reach the
  server and client tasks through the same steps and are covered by `tcp_server` and `tcp_client`.
  Descriptors and local clients are interchangeable, which makes the symmetry sound; there is no
  temporal property in that run. Each connection identity is used once, and two local ones are
  enough to follow another.
* **Proxy, progress**: queue 1, window 1, three messages from the host and two from the client, so
  queue, both windows and the handler are all full together with one message to spare. Connections
  do not end here (`Endings = {}`); ending one only removes a wait, and `LeaverIsReleased` covers a
  connection that ends under a blocked send.
* **Radar**: bytes of four bits (`Base = 16`), a maximum of 10 - one or two length bytes both occur
  and 16-bit wrap-around becomes wrap-around at 256; payloads of 0 to 3 bytes with header and
  footer values inside, up to a packet of the maximum length, good packets of one byte more and with
  a payload of the maximum, which are discarded, and a packet with each defect; two reconnections (`MaxReconnects`), so an
  abandoned frame can be followed by another abandoned one.
* **ConfigPath, DeviceConfig**: four configurations whose lengths (3, 4, 5, 6 with `Chunk` 3 and
  `MaxLen` 5) keep the order of the code's limits: one of a single fragment, one of two, one that
  mqtt_app takes and device_config refuses, one that both refuse; three publications
  (`MaxPublish`), so A, B, A occurs; two faults (`MaxFaults`), so a repair can itself be
  interrupted; one loss (`MaxLosses`) on the way - a session lost in the middle, a fragment without
  memory, a failed subscription, a client that could not be made - at any point, and sessions that
  end between messages any number of times. The violation run uses three configurations and one
  fault. The block is one chunk and a bit, so a fragment of a second message over a block of a
  first one would show.
* **EthW5500, Network**: the two ports of the device and at most three queued events (`MaxEvents`):
  both ports' link-ups and one more of a port that went down and up again meanwhile. Sessions and
  the two ports' links are not bounded.

`CHECK_DEADLOCK FALSE` is set in the two proxy configurations, where the messages are bounded and
used-up connections do not return, and in MCConfigPath, where a client that could not be made never
runs again: there the system may come to rest once publications and faults are used up.

### Fairness, and why the code justifies it

* **EventLoop `FairSpec`**: each call goes on (the scheduler runs the task, `esp_event_post_to`
  returns at its timeout) and the loop's task takes events. Nothing is assumed of handlers;
  `ChannelLiveness` has "handlers return" as its hypothesis.
* **TcpServer, TcpClient**: weak fairness of the task's steps and of callers; strong fairness where
  a FreeRTOS mutex is taken (waiters are queued) and where a send waits for room (lwIP refuses a
  second send on the connection, it does not let it pass); a blocked `send` returns only when there
  is room or the connection failed (`Ready`). Of far ends: one that closed reads or resets, and TCP
  gives up on one that vanished with data outstanding. A far end that is merely slow is free to
  stay so for ever.
* **ProxySystem**: `KeepsReading` needs only the two network tasks to run and a post to end
  (`TaskFairness`). `HandlersFinish` has `SystemFairness` as hypothesis: all tasks run, and a far
  end reads - but, once its connection is being served, only when it has no write it still waits to
  finish (`ReadsInTurn`). That is the weakest kind of far end the code can live with, and the one
  that would close a circle of waits if posts had no timeout; the mutant without the timeout
  violates both properties.
* **RadarLink**: the host keeps sending and TCP keeps delivering.
* **ConfigPath**: a powered device boots and starts its client, a call of device_config goes on,
  esp-mqtt connects again after each session, the broker sends what it has, and no session lasts for
  ever. The last one is needed: a configuration that was dropped comes again only with the next
  session. A client that could not be made is excepted by the property.
* **Network**: the default loop's task runs, and esp-mqtt tries to connect again and again; nothing
  is assumed of links or chips.
* **Crash** (ProxySystem, TcpServer): a task that takes a mutex that does not exist does so in the
  end.


## 4. What is proved

Proved by TLAPS for every value of the constants, from the named assumptions in the modules
(`ASSUME` statements, which TLC evaluates in the runs). Each invariant theorem is `Spec => []Inv` from
`Init => IInv`, `IInv /\ [Next]_vars => IInv'` and `IInv => Inv`, with one step per action.

| module | theorems | inductive invariant and why it is needed |
|---|---|---|
| `EventLoopProofs` | `TypeCorrect`, `OwnershipCorrect`, `ImplementsChannel` | `TypeOK`, `Ownership` and `CallOK`: a copy in a call's hands holds what the call was given. Without ownership, freeing one block could change the content of a queued one, and the refinement would break at `Release` and `PostTimeout`. |
| `TcpServerProofs`, `TcpClientProofs` (lemmas in `SocketsProofs`) | `TypeCorrect`, `SendsToServedClientCorrect` / `SendsToHostCorrect`, `NoDescriptorLeakCorrect` | `Serves`: the task's descriptor is open to its connection exactly in the states between opening and closing it; `SlotInLife`: the slot is set only within that life and the mutex held only while it is set. The order deactivate-then-close keeps `SlotInLife`. |
| `FrameParserProofs` | `TypeCorrect`, `OverrunOnlyIfShortCorrect`, `KeepsPositionCorrect`, `DeliversFramesCorrect` (for `Spec`: any stream of bytes), `LinkOverrunOnlyIfShort`, `LinkDeliversFrames` (for `LinkSpec`: any packets and reconnections), `FirstConnectionCorrect`; `CommandsAreMisread` (of `TxBytes`) | `Place`: for each state, how many bytes of the frame have come, how many of them are payload and what is still expected; `Expected`: the expected length is the announced one less seven, modulo the width; `OverrunPlace`. For what is delivered, `Content`: the fields kept are those of the bytes that came, and the running checksum is their sum. `SumIs(s, v)` says that `v` is the sum of `s` by every function of the recursive definition; `SumEmpty` and `SumAppend` show it for the empty sequence and for one more byte, so each step of the parser does one step of the induction over the frame, and the prover needs no induction. At the footer the length is the announced one, because a length that wrapped would have asked for more payload than the maximum. `InStep`: until a connection is lost, what the parser has and what the line holds are together the packet (`Halfway`), or the packet was too long and its rest holds no header (`Dropped`). |
| `ConfigPathProofs`, of `DeviceConfig` | `TypeCorrect`, `HashComesWithRawCorrect`, `SavedIsDurableCorrect`, `WearIsBoundedCorrect`, and, assuming that no two configurations have one CRC (`Distinct`), `UnchangedAfterCompleteSaveCorrect` | `CallOK` ties a call in progress to what it has written. `WearInv` strengthens the bound on writes by the writes still owed - those of the call in progress and of the next delivery of the retained message - without which a single write step would break the bound. `Matched`: while no save has begun since the last complete one, each hash a reset may leave is that of the blob it comes with; with `Distinct`, equal hashes are then equal configurations. |
| `ConfigPathProofs`, of `MqttApp` and `ConfigPath` | `OnlyWholeCorrect`, `CopiesInsideCorrect`, `DefaultRouteCorrect` (for `MqttSpec`), `ImplementsDeviceConfigCorrect`, `PathImplementsMqtt`, `PathSavesDurably`, `PathUnchangedAfterCompleteSave` (for `PathSpec`) | `Reception`: while a message arrives, the block is NULL or that message's, filled exactly up to the offset. It holds because the fragment at offset 0 clears whatever was left - between messages nothing is known of the block. `Route`: which of `default`, `previous` and `found` agree before and after the first session. `Path`: what the session has sent lies between what device_config has seen and what is published, and no client runs before `device_config_init`. Since each step of the path is one of `DeviceConfig`, what is proved there holds on the path. |
| `NetworkProofs` | `TypeCorrect`, `ConfiguredAfterLinkUpCorrect`, `OwnMacUnlessFollowedCorrect` (for `Spec` of `EthW5500`), `NetworkImplements`, `NetworkKeepsPromises` (for `NetSpec`) | `Covered`: a port that is up and blank has its link-up waiting or being handled; it needs that events come from started chips (`FromStarted`) and that at least one handler is then registered (`SomeHandler`). For the own MAC: ports are set up in order (`InTurn`), so handlers are registered in that order (`Sorted`), so the last handler to run for a port that no later one follows is its own (`LastIsOwn`), and a port up with another's MAC is followed or has its event still to come (`Own`). `NetworkImplements`: each step of the composition is a step of ports or client or neither, so what is proved of each alone carries over. |
| `ProxySystemProofs` | `TypeCorrect`, `CrossesOverCorrect`, `InOrderCorrect`, `ServerFirstCorrect`, `PartsKeepPromises`, `UsesChannel`, `UsesDopplerChannel`, `ImplementsServer`, `ImplementsClient` | `Sides`: each task holds the one descriptor of its side, and what the other does with its own leaves that as it is - without it a message in the queue could come to a descriptor that has changed sides. `Counted`: a connection gives no more than it wrote. `Posts`: each task posts what its own side sent, the client task to one loop after the other. `Started`: the client is started after the server, and before that nothing of the remote host is queued. `Rising`: along deliveries, the event being handled, the queue, the posts and what is received next, the numbers of each connection rise; order at the end of that chain is kept only with order all along it. |

`FirstConnectionCorrect` has a hypothesis on the packets (`LengthsMatch`): each has a header and
either the length it announces, at most the maximum for the whole packet, with any checksum and
footer, or announces more than the maximum and holds no second header. Packets of the second kind
are discarded, good ones too: those of 1025 to 1031 bytes, with payloads of 1018 to 1024. The
hypothesis holds of the packets of run `radar` (the defects and the good packets above the maximum
are among them). It leaves out packets up to the maximum that announce another length than their
own, and those above it with a header byte inside, at which the parser takes a new frame to begin.

`CommandsAreMisread` is what run `radar_send_command` finds, for every command and payload: to match,
the length in digits `q`, `r` of `Base` would have to satisfy `r * Base + q = q * Base + r + 7` with
the command equal to `q`, and no digits do when `Base > 8`. Some commands are well-formed packets to
the parser - command 7 without payload is read as command 0 - but never the command that was sent.

`ImplementsServer` and `ImplementsClient` say that the proxy, seen from one task, is that task in the
environment its module gives it: the other task and its connections are `OtherStep`, crashes are
`Restart`. Nothing of fairness is carried over by them. `UsesChannel` and `UsesDopplerChannel` do the same
for the loops, from one start of the program to the next, and `EventLoopProofs` shows that
proxy_events and doppler_events are such channels. The prover cannot cite theorems about a module
that is instantiated, so `PartsKeepPromises` proves the promises of the two sides again, from
`Sides`. Besides the ranges of the constants these proofs assume only that `None`, `Absent` and the
loop's task are different values (`AbsentAssumption`).

Only model-checked:

* every liveness property (`CallReturns`, `ChannelLiveness`, `KeepsReading`, `HandlersFinish`,
  `LeaverIsReleased`, `Reconnects`, `Resynchronises`, `RetainedIsSaved`, `LinkUpIsHandled`,
  `ReachesBroker`):
  fairness and ENABLED are beyond the prover. The safety part of `ChannelLiveness` is
  `ImplementsChannel`; for the others nothing is proved;
* the four properties that the code violates, which are counterexamples.


## 5. What is abstracted, and what is not modelled

* Contents of messages, JSON, hex, logs, latencies other than the number of bytes since the header.
* What one `recv` returns is one message in `ProxySystem`; a `recv` on the client side completes
  one packet or none. Several packets in one receive are the same steps in turn.
* The doppler channel in `ProxySystem` carries one value: its handlers change nothing else.
* `send` and NVS are modelled from their use and contract; partial `send`s do not occur on lwIP's
  blocking sockets as used here, and the code does not look for them.
* `ESP_ERROR_CHECK` failures restart the program: they are not actions, the models start again. The
  restart for want of the server's mutex is an action, because other parts run by then.
* At a link-up the handler's writes of MAC and IP are one step; either may fail (`MacRefused`,
  `ApplyIp`), which the code only logs. No property reads `ip`.
* A chip reset is taken to drop its link. The local `bind` to an interface changes no state here.
* The two command handlers of `doppler_processing` only log.
* `mqtt_app_publish` changes no state of the firmware: in `ProxySystem` it is the handler's step
  `Process`, which may take as long as it likes; the payload and its loss are left out.
* esp_netif is taken to follow the links by priority until its default is set by hand; both uses
  are modelled from the calls in `mqtt_app.c` and `eth_w5500.c`.
* The Wi-Fi bench backend (`app_main.c:250-309`), a build for the bench that replaces both ports by
  one Wi-Fi interface, with a retry at each disconnection. `app_main` is partly modelled for this
  reason alone, besides formatting.
* Certificate scripts: hand-run on a workstation, their only state is files. Kconfig and broker
  files: declarative.


## 6. Plan

Done, in this order: event loops and their channel; device configuration; parser and radar link;
server and client connections; the proxy composed of them; Ethernet ports; the MQTT client, the
configuration's path from broker to flash, the network composed of ports and sessions; the starts
of server and client; and the theorems of section 4.

To come, in order of importance:

1. **Leads-to without fairness**: the safety halves of `LeaverIsReleased` and `HandlersFinish` - which
   step is next in each state of a send or a post, and that no state is without one - as invariants
   with proofs.
2. **The rest of the network**: which port the remote host and the local client are reached by
   (`CONFIG_TCP_PROXY_BIND_ETH_IDX`), once a property depends on it.
