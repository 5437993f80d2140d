# A TLA+ model of WBFreeRDP

WBFreeRDP is a fork of FreeRDP: an RDP client library, an RDP server library (the
"peer"), the WinPR portability layer, virtual channel plugins and the applications
built on them. This directory models the parts that carry the protocol and its concurrency:
how a client and a server negotiate the security protocol, get from a fresh transport to an
active session, stay there, go through a deactivation-reactivation sequence, reconnect and
close; how static and dynamic virtual channels carry data between the threads of the two
ends; and the timers, the message queue, the thread pool and the multi-client event on which
those threads meet. Paths below are relative to `src/`; "core" is `libfreerdp/core`.

## 1. The system

### Inventory

| Component | State it keeps | Operations | Interacts with |
|---|---|---|---|
| Client connection sequence (core `connection.c`, `rdp.c`, `activation.c`, `mcs.c`) | `rdp->state`, the finalize flags, the joined flags of MCS, `monitor_layout_pdu`, negotiated settings | one handler per `CONNECTION_STATE` in `rdp_recv_callback_int`; connect, reconnect, redirect, disconnect | transport (receives PDUs), licensing, auto-detect, multitransport, input from other threads |
| Server connection sequence (core `peer.c`, `connection.c`, `activation.c`) | the same fields, `client->connected`, `client->activated` | one handler per state in `peer_recv_callback_internal`; `rdp_server_reactivate`, close | transport, server application (PostConnect, Activate, DesktopResize, updates) |
| Licensing (core `license.c`) | `license->state` and key material | `license_client_recv`, `license_server_recv` | called from both sequences |
| Auto-detect, multitransport (core `autodetect.c`, `multitransport.c`) | measurement in progress, request id | request and response on the message channel | called from both sequences in several states |
| Security negotiation (core `nego.c`) | `nego->state`, enabled, requested and selected protocols | client fallback from protocol to protocol, server choice | transport, NLA; ends where the connection sequence starts |
| Authentication (core `nla.c`, `aad.c`, `rdstls.c`, `credssp_auth.c`) | token exchange state | one step per token | nego, SSPI |
| Transport (core `transport.c`, `tcp.c`, `tpkt.c`) | BIO stack, receive buffer, layer | read a whole PDU, call `ReceiveCallback`, write | operating system sockets |
| Gateway (core `gateway/`) | virtual connection, channels, flow control windows | RTS PDUs, RPC calls, HTTP tunnels | transport |
| Static channels (core `channels.c`, `client.c`, `server.c`; `channels/client/addin.c`) | open channels, the queue of writes, the chunks of an unfinished message | open, write, receive, disconnect, connect again, close; the plugin's message handler and its thread | main loop, plugins, threads that write |
| Dynamic channels (core `server.c`; `channels/drdynvc/client`) | open channels and their state at both ends, reassembly buffers, the queue of the server's channel manager | capabilities, create request and response, data in fragments, close by either end | static channel, plugins, server application |
| Timers (core `timer.c`) | list of timers, the thread's timeout and event | add, remove, poll, run a callback that may add and remove | main loop, channel plugins |
| Channel plugins (`channels/`) | per device, surface, sound stream | request and response PDUs | channels, operating system |
| WinPR message queue and collections (`winpr/libwinpr/utils/collections`) | ring buffers, counters, events | post, get, take, return | every thread of the program |
| WinPR thread pool (`winpr/libwinpr/pool`, `CountdownEvent.c`) | pending work, workers, the countdown of outstanding work | submit, wait, change the number of threads, close | codecs, every thread that submits |
| Shadow server (`server/shadow`) | clients, the multi-client event, surface | publish a frame and wait for all clients | server library |
| Proxy (`server/proxy`) | a server and a client side per session | forward PDUs and channels between threads | both libraries |
| Caches, codecs, primitives, crypto, user interfaces | data | computation and I/O | |

`PROJECT.json` lists these components with their files and with the reason for those
that are not modelled.

### What is hard here

* A PDU is not always handled once, in one state. `STATE_RUN_TRY_AGAIN` and
  `STATE_RUN_CONTINUE` rerun the handlers, with the same PDU or an empty stream.
* Progress through finalization depends on flags that outlive the PDU that set them, an
  activation and nearly a connection.
* The two ends run concurrently and do not wait for each other in finalization; input,
  updates, channel data, resizes and closes cross on the wire with the handshake.
* Both ends decide independently whether the persistent key list is sent.
* Several phases are optional, each decided by settings negotiated in both directions.
* The client negotiates by trial: each answer disables protocols for the rest of the
  negotiation, and the next attempt runs on a new connection with what the last one left.
* A channel is opened, written and closed from several threads at both ends; a CLOSE, a lost
  connection or a new session meets fragments and writes that are half done.
* Writers look at `connected` and at flags without a lock and queue their write later.
* Manual-reset events are set by one thread and taken back by another (timers, message queue,
  countdown, multi-client event): a set lost is a thread that sleeps forever.
* Workers and the plugin's thread are ended while there is work; whoever ends them waits for
  them.

### What makes the components correct

The client, whatever a server sends: it is active only after this activation's
finalization, exchanges capabilities only after licensing, and leaves the MCS phase only
with all channels joined. The server, whatever a client sends: the same three (with one
exception in the code, see `DemandAfterLicense`), and control is granted only to a client that
has synchronised and cooperates. The two together: neither
fails the other, they never wait for each other, and each activation completes.

Negotiation: both ends end with the same protocol, one the user permits, whenever they share
one, but for one kind of client; it ends. Channels: messages arrive whole and in order at whoever still has the channel
open, the ends agree on which are open, every write is given back once and in the session it
was made for, and disconnecting ends. Timers: what is due runs, what was removed does not.
Thread pool: waiting means done, nothing is run twice or forgotten. Multi-client event: every
client that owes a frame sends it before the next one, and nobody else is waited for.

## 2. Modules

| Module | Contents |
|---|---|
| `RdpTypes` | connection states, finalize flags, channels, PDUs |
| `RdpClient` | the client: its state and one action per case of `rdp_recv_callback_int` |
| `RdpServer` | the server: its state and one action per case of `peer_recv_callback_internal`, plus what the application may do |
| `RdpClientOpen` | the client with a server that sends anything; the client's own guarantees |
| `RdpServerOpen` | the server with a client that sends anything; the server's own guarantees |
| `RdpConnection` | client and server with a FIFO in each direction; the properties of the pair |
| `ActivationView` | what activation promises: the server announces, the client follows in order |
| `RdpPartsProofs` | theorems about the parts of the sequence on their own: the negotiation and the two open systems |
| `RdpInvariants` | the inductive invariants of the pair |
| `RdpProofs` | theorems about the pair: joined channels, reactivation, no failure, quiescence and the implementation of `ActivationView` |
| `QueueContract` | what a WinPR message queue promises: first in, first out, nothing after WMQ_QUIT |
| `MessageQueue` | `MessageQueue.c`: the growing ring, its event, producers and a consumer |
| `MessageQueueProofs` | theorems about the queue, the implementation of the contract among them |
| `Nego` | `nego.c`: one `nego_connect` with its attempts against `rdp_server_accept_nego` and three other servers |
| `StaticChannel` | core `client.c` and `channels/client/addin.c`: one channel and its plugin, the main thread, the plugin's thread and a writer |
| `StaticChannelProofs` | writes, sessions and messages, for any bounds |
| `Dvc` | core `server.c` and `drdynvc_main.c`: both ends of the dynamic channels over one static channel |
| `DvcProofs` | order of the messages and agreement of the ends, for any channels, messages, writes and closes |
| `Timer` | core `timer.c`: the list, its thread, the main loop, users and callbacks |
| `TimerProofs` | the wait of the thread and removed timers, for any users and bounds |
| `ThreadPool` | `pool.c`, `work.c`, `CountdownEvent.c`: submitters, workers, the owner |
| `ThreadPoolProofs` | the countdown and the places of work, for any submitters and workers |
| `ShadowMcEvent` | `shadow_mcevent.c` and its use in `shadow_client.c`: the publisher and the clients |
| `ShadowMcEventProofs` | the life of a frame, for any finite set of clients |
| `MC...` | values of the constants for TLC, one module per system checked |

The modules describe separate parts of the program. They meet where one part's promise is the
other's assumption: `Nego` ends where `RdpConnection` starts, with both ends knowing the
protocol (`NegoInv`); `RdpConnection` is the transport on which the static channel of `Dvc`
and `StaticChannel` runs while both ends are active; the queues in `Dvc` and `StaticChannel`
are sequences with an event, which is what `MessageQueue` is shown to implement.

### How state and steps correspond to the code

`cState`, `cFinalize`, `cMonitorLayout`, `cLicense`, `cJoined`, `cMessageChannel` and
`cSettings` are fields of `rdpRdp`, `rdpMcs`, `rdpLicense` and `rdpSettings`; the server
has the same with `s`, and `sConnected`, `sActivated` for the flags of `freerdp_peer`.
`cOut` and `sOut` are the bytes under way, as PDUs.

The loop of `rdp_recv_callback` (and of `peer_recv_callback`) is the pair `cRun`, `cPdu`:
`"idle"` between PDUs; `"run"` while the loop works, on `cPdu` or, when the PDU has been
read, on an empty stream (`NoPdu`); `"failed"`, `"closed"` and `"redirect"` when it has
ended the session. One call of `rdp_recv_callback_int` is one step. The five results of a
handler are `ClientSuccess`, `ClientContinue`, `ClientTryAgain`, `ClientFail` and
`ClientQuit`, and likewise for the server.

Steps are finer than a call in one place: `rdp_client_connect_finalize` sends up to five
PDUs and changes `rdp->state` in between, which other threads read to decide whether input
may be sent (`rdp_is_active_state`); each of its PDUs is a step. They are coarser than the
code nowhere it matters: a handler runs on one thread, and what it sends becomes visible to
the peer in order.

`RecvPdu` (client) and `PeerRecv` (server) are `rdp_recv_pdu` and `peer_recv_pdu`: what a
PDU does to flags, licence and settings and what is sent in reply. The handlers pass them
the state to end in and the result to return, because in the code the handlers look at the
flags the call has set. `RecvFails` and `PeerRecvFails` collect the conditions under which
those functions fail.

A PDU is a record with a `type`. A further field is present only where a handler reads it:
the capabilities in the MCS connect PDUs, the channel of a join, the transition of a
licence error alert, the persistent-cache capability in Confirm Active.

Mutated forms of some definitions stand before them, with a comment that begins "Mutant:".
They are what `PROJECT.json` substitutes to see that a property can fail.

`MessageQueue` has the fields of `wMessageQueue` under their names; `event` is whether the
manual-reset event is set. A function's critical section is one step (`Dispatch`, `Peek`,
`Clear`), `MessageQueue_Wait`, which is outside of it, is another (`Wait`). The consumer is
the loop of `channel_client_thread_proc` (`channels/client/addin.c`): wait, take one message,
end on WMQ_QUIT or on an error. `Ensured` is `MessageQueue_EnsureCapacity` with the move of
the wrapped entries (`Rearranged`). `Contents` maps the ring to the sequence of
`QueueContract`.

`Nego` has the fields of `rdpNego` (`state`, `enabled`, `requested`, `selected`,
`sendNegoData`, `failureCode`); `pc` is where `nego_connect` is. An attempt is a new TCP
connection, a request and an answer. The server is `rdp_server_accept_nego`, or one that knows
nothing of negotiation, one without a certificate, or one that expects the security layer at
once; `faulty` records that a connection broke.

`StaticChannel` follows three threads. `main` is the session's thread between connecting and
`freerdp_channels_free`; `thread` is that of `channel_client_thread_proc`; a writer is between
its checks and its queued message when `writer[w]` is not idle. There are two writers, the
application's thread and the plugin's. `session` counts sessions, and a write carries the session
in which it was queued (`on`, 0 when the channel was not connected then).

In `Dvc` the server's PDUs go from `posting` (a write in progress) through `queue` (the channel
manager's, drained by `CheckFileDescriptor`) to `toClient`; the client's from `sending` to
`toServer`. A message is a sequence of units and each unit a PDU, so that a close can come
between any two.

`FreeRDP_WTSVirtualChannelClose` is three steps, because it holds no lock: `VirtualChannelClose`
looks whether the channel is known to be open, `CloseWrite` queues the CLOSE if it was, `CloseRemove`
takes the channel out of the table. The session's thread may process the client's create response
or CLOSE between any two of them. `closing` records what the look has found. At the client a
channel is closed by the drdynvc thread, or by a plugin's thread with a write of length 0
(`WriteNothing`), which the USB channel does when a device is gone
(`channels/urbdrc/client/libusb/libusb_udevice.c:1238`). A plugin's thread may write until its
`OnClose` has stopped it, as `dvcman_write_channel` does not look at the state of the channel.

`Timer` takes the lock of the list for a whole pass, as the code does; `cursor` is the position
in the pass, `callback` the timer whose callback runs. Time is a step that makes an entry due.

`ThreadPool` splits `SubmitThreadpoolWork` into counting and enqueuing, and a worker into
waiting, dequeuing, running and signalling. `ShadowMcEvent` has one step per stretch under the
lock, with the three waits outside of it; `owes` is a history variable with the clients the
frame was published to and that have not consumed it.

### Environment

`RdpClientOpen` lets the server send any PDU at any time, with two limits (`ServerMaySend`):
message channel PDUs only when such a channel was announced, and licensing PDUs on the I/O channel
only until licensing is over (after that the code reads the same bytes with a different header and
they would not be licensing PDUs). On the message channel licensing PDUs come at any time
(`LicenseMessage`; `rdp_recv_message_channel_pdu` gives them to `license_recv` in any state).
`RdpServerOpen` has the mirror image (`ClientMaySend`), and share control PDUs arrive after
licensing, because before it they would be read with a security header. A multitransport response
may come at any time. The application may close in any state.

History variables have the finalize flags of the PDUs processed since the last Confirm Active
(`cHeard`, `sHeard`), whether licensing has completed in this connection (`cLicensed`,
`sLicensed`; the licensing state itself may change again later) and whether a multitransport
response came before the end of licensing (`sUnasked`). The output queue is drained as a whole and
input arrives only when the last output was read, which keeps it short; the guarantees do not
mention it.

In `RdpConnection` the server closes the session of an activated client (`ServerCloseSession`): a
server that gives up during the handshake is in `RdpServerOpen`.

`RdpConnection` starts both ends after security negotiation, with equal knowledge of
whether the RDP security layer is used, which is what negotiation decides.

## 3. Model checking

| Run | Question | Bounds | Distinct states |
|---|---|---|---|
| `client_open` | the client's guarantees against any server | two static channels, input while fewer than `MaxInput` PDUs are in flight | 3.9 million |
| `server_open` | the server's guarantees against any client and an application that resizes, draws and closes | one static channel, updates while fewer than `MaxUpdates` PDUs are in flight; skipped joins, auto-detection and multitransport one at a time | 3.8 million |
| `connection` | the pair: `NoFailure`, `Quiescence`, agreement on reactivation and channels, implementation of `ActivationView` | one static channel, two PDUs for input, one for updates, one reconnect; every feature on or off, no licences | 1.7 million |
| `connection_fair` | the pair: liveness, also through licensing | a few configurations, with and without a server that requires a licence, one reconnect | 84 thousand |
| `message_queue` | the queue: implementation of the contract, waking, quitting, reuse | two messages and WMQ_QUIT, room for 1 + 1 at first, growth by 1 more than needed, `MaxSize` 5 | 6 thousand |
| `nego` | agreement, permission, completeness and end of the negotiation | every set of protocols and of required modes at both ends, four kinds of servers | 239 thousand |
| `static_channel` | writes, messages and the end of sessions | two sessions, two messages of up to two chunks per session, two writes of the application and one of the plugin | 420 thousand |
| `dvc` | both ends of dynamic channels | two channels, two writes of up to two fragments in either direction, one close by the server (`MaxCloses`) | 594 thousand |
| `timer` | removal, waking, running | one user besides the callbacks, the thread and the main loop; two timers | 62 thousand |
| `timer_ids` | finding: ids are not always new | two users, two timers | |
| `thread_pool` | no work lost, run twice or waited for in vain | two submitters, two workers, three pieces of work, two changes of the limits | 210 thousand |
| `shadow_mcevent` | the life of a frame | four clients | 5 thousand |

One static channel is enough to distinguish the message, user, global and static channels;
the client, which joins them in a fixed order, is run with two, and the proofs are for any
number. The bounds on input and updates limit how
many such PDUs are queued behind others, not how many are sent in a behaviour; two suffice
to have one processed and one waiting while the state changes. Resizes are not bounded, so
every number of successive reactivations is covered. One reconnect is enough for whatever a
first connection leaves behind to meet a second one. The queue grows from 2 to 4 and 6
slots; at the second growth up to three entries are wrapped and there are two new slots, so
both branches of the rearrangement happen, from every position of the head.

Two sessions are enough for what one leaves to the next. Two dynamic channels let fragments of
different channels mix and one close under the other; two messages let two writes meet on one
channel, or cross. One close by the server meets every step of the client; what two of them could
do to each other is covered by the proof, which has no bound. The settings that `server_open`
takes one at a time belong to phases that follow each other. Two timers let a callback remove or add the other one. Two workers race for
one piece of work and two changes of the limits end them twice; the third piece of work is the
one that is pending while the others run. With four clients one can enter, one wait, one send
and one leave during a frame. In `nego` everything is finite, nothing is bounded.

Deadlock is checked in all connection runs but `server_open`, in which a server that has failed
or closed stops (a closed session is an explicit final stutter in the others), and in
`message_queue`, `nego` and `shadow_mcevent`. The others end by themselves: when the owner has
closed the pool, the channels are freed, or a bound is reached.

What the properties say:

* `ActiveAfterFinalization`, `ActivatedAfterFontList`, `GrantAfterCooperate`: no finalize
  flag from an earlier activation or connection counts.
* `CapabilitiesAfterLicense`: reruns of the handlers never skip licensing, nor do licensing PDUs
  on the message channel.
* `DemandAfterLicense`: the server asks for capabilities only when licensing has completed, with
  one exception. `multitransport_server_handle_response` looks at no state and goes to Demand
  Active, and while the server is licensing or earlier `peer_recv_pdu` gives it what comes on the
  message channel; so a response to a request that was not made passes the phase over. No other PDU
  does, in whatever order they come. A client of this code base answers only requests, so
  `RdpConnection` has no such case.
* `InfoAfterJoin`, `KeysAfterJoin`, `JoinAgreed`: channel joining is complete on both sides,
  in whatever order and whether or not a message channel exists.
* `NoFailure`: input crossing with Deactivate All, channel data and updates crossing with the
  capability exchange, early finalization PDUs and an optional Monitor Layout PDU never make a
  handler fail. It depends on `DesktopResize` being called only for an activated client, as
  the shadow server does; the mutant of `ServerReactivate` shows the failure otherwise.
* `Quiescence`: when nothing moves, both ends are active and Activate was called.
* `ReactivationAgreed`: both ends decide alike on the persistent key list.
* `ImplementsActivation`: the two ends implement `ActivationView`, with Font Map and Deactivate
  All as the announcements; so the views of the two ends differ only by messages under way.
* `ActiveAgain`, `ActivationCompletes`: the client becomes active again and again, and each
  activation the server starts reaches the application.
* `ImplementsContract`: the ring keeps every message once and in order through growth,
  quitting, clearing and reuse.
* `PeekFindsMessage`: a consumer that was woken finds a message although it waited without the
  lock. This holds for one consumer, which is how the channel plugins use the queue.
* `QuitIsLast`, `QuitEndsConsumer`: nothing is behind WMQ_QUIT, and posting it ends the
  consumer.
* `NegoInv`: types, and when `nego_connect` leaves its loop with a protocol the server at the
  other end of the connection has selected that protocol and knows the required modes.
* `SelectedPermitted`, `FallbackFindsCommon`, `Returns`: the protocol is one the user enabled,
  although TLS is offered regardless; a common protocol is found whatever the failure codes
  disable on the way; the attempts come to an end. `FallbackFindsCommon` has one exception
  (`Misled`): AAD and RDSTLS are offered alone or nearly so, and the failure code with which a
  FreeRDP server answers them disables all protocols but one (core `nego.c:1502`), among them
  protocols that were never offered. When the remaining one is not shared the client is turned
  away, although another may be. The exception is exact: TLC finds that a misled client never
  gets a protocol.
* `StaticInv`, `EveryWriteReleased`: types, and every accepted write is given back to its plugin
  exactly once, in order and while the plugin exists, also one queued after the last flush.
* `SentInItsSession`: nothing queued in one session is sent in the next. It says nothing about a
  write that passed its checks in one session and is queued in the next, or while the channel is
  not connected: the code sends it in the session that comes.
* `MessagesHandled`, `DisconnectReturns`: what the handler is given are the server's messages,
  whole and in order, and all of them before an orderly disconnect; the main thread, which waits
  for the handler's thread, does not wait forever.
* `DvcInv`: types, and a channel the server takes for open is open at the client or its CLOSE is
  on its way; and a channel the server has removed is open at the client only while a CLOSE is on
  its way, or if the close looked at the channel before the session had processed the create
  response. For such a channel `FreeRDP_WTSVirtualChannelClose` sends nothing, and it stays open
  at the client; this also happens when the response is processed between the look and the removal
  (core `server.c:1671` and `1692`).
* `ReceivedInOrder`: in both directions readers get a prefix of what was written, whole messages
  only, and all of it before the end-of-data mark.
* `CloseArrives`, `DisconnectClosesAll`: a channel whose close has found it open is closed at the
  client in the end, so nothing stays in the manager's queue, whose event is set by the writers and
  by the capability response (core `server.c:184`) and reset by the loop that drains it, and the
  client's thread is not held up forever by another channel; a lost connection closes every channel
  at the client.
* `TimerInv`, `RemovedStaysSilent`, `DueRuns`: types, and the thread's sleep covers every timer
  that is set; a timer removed from outside its own callback does not run again; a due timer
  runs, is removed or the session ends. A callback that removes its own timer and returns an
  interval keeps it running: `runTimerEvent` stores what it returns (core `timer.c:127`).
* `PoolInv`, `WaitedIsDone`, `WorkGetsDone`: types, and the countdown, the queue and the threads
  agree; after waiting all of one's work is done; all work is done although all workers are
  ended and replaced meanwhile.
* `McEventInv`, `EverybodyContinues`: types, and a frame is owed by exactly the clients counted,
  is stable while one sends it, is consumed once and leaves no event behind; server and clients
  continue.

### Finding

`timer_ids`: `freerdp_timer_add` increments `maxIdx` without the lock of the list (core
`timer.c:79`). Two threads that add timers at the same time can be given the same id, while
`include/freerdp/timer.h` promises "A new timer ID"; removing it then disables the first of
the two timers only. `RemovedStaysSilent` sets such ids apart.

### Fairness

`FairSpec` assumes weak fairness of the two event loops (`ClientHandles`, `ServerHandles`)
and of delivery in each direction. The loops are `freerdp_check_event_handles` and
`CheckFileDescriptor` in the applications, called whenever the transport is readable; TCP
delivers what was sent while the connection lives. Nothing is assumed of input, of the
application or of reconnects: these may happen or not.

In the other modules the threads of the program run, and nobody has to start anything:

* `nego`: the client goes on, and the server answers or the connection closes. The code waits
  with the TCP timeout of the transport.
* `static_channel`: the main thread goes on, leaves the session after a channel error and after
  a session connects again or closes; the plugin's thread and begun writes go on.
* `dvc`: the session's loop, the plugin's threads, and writes and closes that have begun go on, and
  a plugin's `OnClose` returns. Callers finish their writes before they close the channel.
* `timer`: time passes, callbacks return, the thread and the main loop go on. Taking the lock is
  strongly fair, because the critical section hands itself to a waiting thread.
* `thread_pool`: threads run and callbacks return. Submissions are bounded, so that liveness is
  shown for finitely many.
* `shadow_mcevent`: threads run and sending a frame ends, in success or failure.

In `MessageQueue` the consumer's
loop is weakly fair (a thread that waits for a manual-reset event that stays set is woken);
producers and the owner are not.

## 4. Proofs

TLAPS proves the following for every `ChannelCount`, every set of configurations and every
bound, from the assumptions on constants stated in `RdpTypes`, `RdpClient` and `RdpServer`
(`ChannelCount`, `MaxInput` and `MaxUpdates` are natural numbers, configurations have the
fields of the settings).

Client (`RdpPartsProofs`): `ClientTypeTheorem`; `LicenseTheorem` (`CapabilitiesAfterLicense`);
`ActiveTheorem` (`ActiveAfterFinalization`); `ClientJoinTheorem` (`InfoAfterJoin`).

* Type correctness is inductive with the lemmas on what a handler sends (`ClientSendType`
  and those after it). It carries the others.
* `CapabilitiesAfterLicense` is inductive: only `ClientLicensing` leaves the phase, and only when
  its own PDU has made the licence state `COMPLETED`, which the history records.
* `ActiveAfterFinalization` is not. `FinalizationInv` adds that flags are fresh where they
  are looked at (`FlagsFresh`; during the batch that runs inside Confirm Active they may be
  old, because the code resets them after it), and which flags each state implies.
* `InfoAfterJoin` rests on `NothingExpected`: when no channel is expected, all are joined.
  For the static channels that is the existence of a smallest channel not yet joined
  (`SmallestChannel`, from well-foundedness of the naturals).

Server (`RdpPartsProofs`): `ServerTypeTheorem`; `ActivationTheorem` (the inductive invariant
`ActivationInv`), from which `ActivatedTheorem` (`ActivatedAfterFontList`) and
`GrantTheorem` (`GrantAfterCooperate`); `KeysTheorem` (`KeysAfterJoin`); `DemandTheorem`
(`DemandAfterLicense`).

* `ActivationInv`: no client flag is older than the last Confirm Active; each finalization
  state implies its flags; an activated client is active, except inside a handler that has
  moved to `CAPABILITIES_EXCHANGE_DEMAND_ACTIVE` on a multitransport response and has not
  yet left that state (the transition out of it clears the flag).
* `LicenseInv`: a completed licence state has been recorded, and as long as the phase lasts a
  multitransport response on the stream has been recorded as unasked and no share control PDU is on
  the stream. Without it a PDU left unread could complete the phase.

Message queue (`MessageQueueProofs`), for every set of messages, initial room, increment and
limit, from `QueueAssumption` (WMQ_QUIT and a zeroed slot are no ordinary messages, the
increment is positive): `TypeTheorem`, `EventTheorem` (`EventTellsNonEmpty`), `PeekTheorem`
(`PeekFindsMessage`), `ContractTheorem` (`ImplementsContract`), `QuitTheorem`
(`QuitIsLast`).

* `QueueInv` adds `TailFollows`, that the tail is `size` slots after the head. It is why a
  full ring has its tail at its head and `tail <= head` recognises that entries wrap.
* `EnsuredKeeps` is the heart: after growing, position `i` of the queue, now counted modulo
  the new capacity, holds the message it held before.
* `QuitIsLast` needs that a consumer that has ended normally has left the queue closed
  (`QuitInv`), so that no producer can follow it.

Multi-client event (`ShadowMcEventProofs`), for every finite set of clients (`ClientsFinite`):
`McEventCorrect` (`McEventInv`).

* `FrameInv` says what the code keeps only implicitly: `waiting` counts the clients inside the
  wait of `Consume`; each of the three events is a function of who owes the frame and who waits;
  and while somebody owes it, a client in its loop owes it too. The last part is why
  `pleaseHandle`, which is never cleared, is not taken for a second request.
* `ConsumeShare` and `ConsumeNothing` are what `Consume` does for a client that owes its share
  and for one that does not; the three actions that call it rest on them.

The pair (`RdpProofs`), for every number of static channels, every set of
configurations of either end, every bound on input and updates, any number of reactivations and
reconnects: `JoinTheorem` (`JoinAgreed`), `ReactivationTheorem` (`ReactivationAgreed`),
`SessionTheorem` (the inductive invariant `SessionRight`), and from the last one
`NoFailureTheorem` (`NoFailure`), `QuiescenceTheorem` (`Quiescence`) and
`ImplementsActivationTheorem` (`ImplementsActivation`). All are about PDUs under way, so their
invariants are about the content of the two queues.

* `JoinRight`: what is under way in either direction agrees with what the server announced,
  accepted and joined. A confirm, or a client that counts a channel as joined, implies that the
  server has it; a client that skips joining was allowed to by a server that has joined
  everything. It also says that no PDU of the MCS phase is under way before the server has
  answered the Connect Initial.
* `ReactivationAgreed` is about `FINALIZE_DEACTIVATE_REACTIVATE`, which the server sets when it
  sends Deactivate All and the client when it reads it, but only in `ACTIVE`: in any other state
  `rdp_recv_deactivate_all` leaves the flag alone. The flag is never cleared within a
  connection, so only the first activation has to be followed. `ReactivationRight` numbers its
  phases by marks, from the Demand Active to the Deactivate All. `Move` says which PDU takes a
  direction from one mark to the next, `Walks` that the PDUs under way lead from the mark of the
  receiver to that of the sender, and the two ends' marks follow from their states. A Deactivate
  All is the last move, so a client that reads one has made all the others and is active.
  Multitransport adds a mark, which is why `Move` has it as a parameter.
* `Walks` is stated by a function from positions to marks instead of recursion; `WalkStays`,
  `LeadsOn` and the lemmas around them say what sending and receiving do to a walk.
* `SessionTheorem` and the three that follow from it assume `Licensable`: if some server requires a
  licence, every client holds one and has a message channel. Without it a server of this code base
  does make a client fail (see the licences in section 5), so `NoFailure` is false; with no server
  that requires a licence, as in the run `connection`, the assumption holds whatever the clients
  are.
* `SessionRight` describes the pair in three parts. In `Setup`, up to the licence, one end waits for
  the other, and the state of both is known PDU by PDU: who has asked what, or who has
  something left to do. In `Session` both talk at once. Thirteen places say which PDU a
  direction is to carry next, `Down` and `Up` which PDU leads from one place to another, input,
  updates and channel data leaving the place as it is, and `Path` that the PDUs under way lead from
  the place of the receiver to that of the sender. `Meeting` ties the places to the states of the
  two ends: when a server has resized the desktop before the client has finished the round, the
  client's place is still of the old round, while the server's is of the next one (9 to
  11), and the client goes back by seven places when it reads the new Demand Active (`PathBack`).
  `ClientFit` and `ServerFit` are what the finalize flags say at each place. In `Closing` the
  server is gone and what is under way leads the client to the Disconnect Provider Ultimatum.
* That no end fails is then a matter of each handler: with the PDU that `Down` or `Up` allows at its
  place, none reaches a failing branch (`ClientStepsOn`, `ServerStepsOn`). `Quiescence` follows
  because with nothing under way both ends are at the same places, and the only ones at which
  neither works are those of an active session.
* `ImplementsActivationTheorem` reads three stages off the places: not yet active, active, over.
  `PathTells` says that the announcements under way are those between the stage of the client and
  that of the server, at most two. A step moves one end by at most one stage, or both
  back to the first (`StageStep`): an announcement, one that is followed, or a loss. A client that
  begins the next round takes both ends, which are over, back to not yet active, which in
  `ActivationView` changes nothing. `Told` picks the announcements out of a queue by their positions
  instead of with `SelectSeq`, so that no induction over the queue is needed.

Negotiation (`RdpPartsProofs`), for every set of servers and of flags (`NegoAssumption`):
`AgreementTheorem` (`NegoInv`), `PermittedTheorem` (`SelectedPermitted`) and `FallbackTheorem`
(`FallbackFindsCommon`), all from the inductive invariant `NegoRight`.

* `LoopRight`, `RequestRight`, `AnswerRight` tie an answer to the request and the connection it
  belongs to. In particular `SelectedProtocol` is still RDP when a confirm without `rdpNegData`
  can arrive, and RDSTLS, which `nego_recv` does not look up, is selected only when it was tried.
* `CommonAhead`: while the ends share a protocol, one they share is enabled and not above the one
  being tried, unless the client is `Misled`. The cases are those of the failure codes. AAD and
  RDSTLS are tried first or never (`LoopRight`), so that nothing is disabled when they are refused,
  and a client that is not misled has the one protocol that the code leaves. In the other attempts,
  when a shared protocol is left, `rdp_server_accept_nego` can only have answered
  `SSL_NOT_ALLOWED`, and that protocol is RDP.

Static channel (`StaticChannelProofs`), for the two writers and every bound on sessions, messages,
chunks and writes (`ChannelBounds`): `WritesTheorem` (`StaticInv`), `SessionsTheorem`
(`SentInItsSession`) and `MessagesTheorem` (`MessagesHandled`), from `ChannelRight`.

* `SessionsRight`, `OrderRight`: the queue of writes is in the order of sessions and, for each
  writer, of its writes; a write under way comes after all of them. That is why what the last
  flush of a session leaves behind is released and not sent.
* `StreamRight`, `MessagesWhole`, `InboxRight`: the chunks received are the beginning of a message
  the server sent, and what the handler was given followed by its queue are the messages posted.
* As a by-product two error branches are shown to be unreachable in the model: the stream that is
  not exactly full in `channel_client_post_message`, and the channel that is already open in
  `OpenEx`.

Dynamic channels (`DvcProofs`), for every number of channels, length of messages and number of
writes and closes (`DvcBounds`): `DvcOrderTheorem` (`ReceivedInOrder`) and `DvcAgreementTheorem`
(`DvcInv`), both from the inductive invariant `IInv`.

* A PDU passes from a write in progress through a queue of the writer, the static channel and a
  queue of the reader, and PDUs of other channels lie in between. `Before` orders the PDUs of one
  channel: the create first, then the fragments by message and place; `InOrder` and `AllBefore`
  lift it to a queue and to two queues one after the other.
* `Place` adds that nothing is missing: after the fragment that the reader has processed last,
  every fragment of a started message that follows is in one of the queues or still to be posted.
  With the order that makes the next one read the right one, which is `ReceivedInOrder`.
* `DownLive` and `UpLive` say so for the two directions of a channel that is alive, `Fresh` that
  the client has not heard of it. The CLOSE of the client may come between finished messages and
  the unfinished one of another thread; `Before` takes the place at which it is ordered.
* `Ends` is what the two ends know of a channel and what is under way between them: a channel that
  the server takes for open is open at the client, or its CLOSE is under way. `ClosingInv` follows
  the server's close: one that has found the channel open has not removed it before its CLOSE is
  queued, and that CLOSE stays under way until the client has closed the channel.
* A plugin may begin messages after the CLOSE of its channel. `SendingInv` has the messages begun
  as a log of which `clientSent` is the beginning; the server reads none of the others, because
  they are behind the CLOSE (last part of `UpLive`).

Timers (`TimerProofs`), for every finite set of users and every positive bound on timers
(`TimerAssumption`): `WaitTheorem` (`TimerInv`) and `SilenceTheorem` (`RemovedStaysSilent`).

* `TimersRight` follows a pass over the list (`PassRight`), the ids given out (`CountRight`,
  `IdsRight`) and what the thread has to wait for (`NothingForgotten`): a timer that is set is
  covered by the thread's wait, or the signal that will wake the thread is still to come.
  `SilentRight` is the same for removed ones, and sets apart ids given out twice.

Thread pool (`ThreadPoolProofs`), for every finite set of submitters, all workers and bounds
(`PoolAssumption`): `PoolTheorem` (`PoolInv`) and `WaitTheorem` (`WaitedIsDone`).

* `BooksRight`: every piece of work that is not done is in exactly one place, being submitted, in
  the queue or at a worker, and the countdown is the number of such pieces. A countdown of zero
  then means that all is done, which is what the waiting submitter relies on.

TLC finds no violation of `JoinRight`, `NegoRight`, `ChannelRight`, `TimersRight`, `BooksRight`
and of `IInv` of `DvcProofs` on the instances of the runs, nor of `ReactivationRight` and
`SessionRight`, with the walks and paths written recursively, on smaller instances than that of
`connection`.

Only model-checked is liveness under fairness, which is out of the prover's reach:
`ActiveAgain`, `ActivationCompletes`, `QuitEndsConsumer`, `Returns`, `EveryWriteReleased`,
`DisconnectReturns`, `CloseArrives`, `DisconnectClosesAll`, `DueRuns`, `WorkGetsDone`, `EverybodyContinues`.

What is proved and not run: the type invariants `ClientTypeOK`, `ServerTypeOK`, `QueueTypeOK`, and
`EventTellsNonEmpty`.

## 5. What is not modelled, and what was left out of the modelled parts

* Authentication (NLA, AAD, RDSTLS), the transport's own layers, the gateway, the proxy, the
  channel plugins with their devices, graphics, codecs, cryptography, user interfaces, and the
  rest of the shadow server and of WinPR. See `PROJECT.json` for each.
* Data PDUs that change no connection state (pointers, sounds, statistics, save session
  info), and failures of memory allocation and of system calls.
* Continuous (not connect-time) auto-detection.
* A client without a stored licence against a server that requires one: at
  core `license.c:1029` the server sends an `ERROR_ALERT` with `ST_TOTAL_ABORT` before the
  platform challenge, at a place marked "TODO: Validate if client is allowed", so that
  client aborts. The step is in the model (`PeerReply`), and `connection_fair`, the run with
  licences, is for clients that have one and announce a message channel (without one the
  server refuses the licence PDUs in `rdp_handle_message_channel`).
* `MessageQueue_Peek` without removal (it changes nothing) and the failure of
  `MessageQueue_PostQuit` in `channel_client_quit_handler`, which takes an allocation that fails.
* In `Nego`: routing tokens and cookies, AAD's and NLA's own exchange (a success or a failure of
  `SecurityConnect`), and a server that selects TLS for one request and confirms the next one
  without `rdpNegData`. The client would keep `SelectedProtocol` of the answer it refused
  (core `nego.c:895`); no server of this code base does that.
* In `StaticChannel`: more than one channel, the variant of the message handler without a
  thread, the suspend and resume flags, and servers whose chunks contradict the announced
  length. The application stops writing before `freerdp_channels_free`. `VCChunkSize` is positive:
  for 0, which capability negotiation replaces (core `capabilities.c:2215`),
  `freerdp_channels_process_message` releases nothing.
* In `Dvc`: soft sync and compression, priorities, and several listeners for one name; and two
  closes of one channel that overlap at the client, by the drdynvc thread and by a plugin's write of
  length 0. `dvcman_channel_close` looks at `channel->state` without a lock
  (`channels/drdynvc/client/drdynvc_main.c:505`), and what follows depends on the plugin. The
  shadow server, the proxy and the sample server process the capability response in the thread
  that drains the queue.
* In `ThreadPool`: cleanup groups, and `GetDefaultThreadpool`, which initializes the static pool
  without a lock (`winpr/libwinpr/pool/pool.c:112`). `SetThreadpoolThreadMaximum` with less than
  the minimum restarts as many threads as the minimum says, as in the code.
* In `Timer`: the length of intervals. While a due timer of the main loop is not polled the
  timer thread does not sleep; no property is about that.
* `DesktopResize` from another thread or without regard to `client->activated`, as in
  `server/proxy/pf_client.c` and `server/Sample/sfreerdp.c`.

## 6. Plan

Done: the connection sequence and its composition, the implementation of `ActivationView`,
negotiation, the message queue, static and dynamic channels, timers, the thread pool, the
multi-client event; the proofs of section 4. Left, in this order:

1. RTS flow control of the gateway: the sender never exceeds the receiver's window.
2. The proxy as two connections, with `DesktopResize` called from the other thread.
