---------------------------- MODULE MCEventLoop ----------------------------
(* Model values for EventLoop: two tasks post to one loop, as the server   *)
(* and client tasks do to proxy_events.                                    *)
EXTENDS EventLoop, TLC

CONSTANTS server, client, d1, d2

MCProducer == {server, client}
MCData == {d1, d2, Empty}
=============================================================================
