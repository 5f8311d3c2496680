# ModemManagerRs in TLA+

A verification project for the driver of Quectel BG9x/EG916 modems in `src/`: models
written from the Rust source, TLC configurations that check them on small instances,
and TLAPS proofs of the properties that matter most. References such as
`cellular.rs:431` are to `src/src/`.

## The system

| Part | State | Operations | Talks to |
|---|---|---|---|
| `net.rs` `CellularNetwork` (handle) and `CellularNetworkTask` (supervisor) | control slot (`Signal<Control>`), `shutdown_done`, power pin, client slot, PPP transport, backoff, status | `init`, `run`, `run_session`, `pause`, `resume`, `shutdown`, drop of the handle | the driver during setup; `embassy-net-ppp` once dialled; the owner through the slot |
| `ppp.rs` `Reclaimable`, `Duplex` | the writer (present or taken), the two serial halves | `put`, `take`, `read`, `write` | moved between AT client and PPP |
| `cellular.rs` `QuectelBG9X`: power, identity, SIM | pin, revision, IMEI | `new`, `power_on`, `power_off`, `is_alive`, `test_sim` | modem over AT, URC channel |
| — network attach, dial | radio technology (`mode`) | `network_attach`, `register_*`, `dial_ppp` | network |
| — sockets, with `tcp.rs` | `next_id` per client, `socket_sub`, the mutex around the driver | `connect`, `read`, `write`, `close` | modem's socket table, peer |
| — receive framing, with `quectel_atat/mod.rs` | the ingress buffer | three digester hooks, `recv_digest_frame`, `parse_socket_recv` | the UART's byte stream |
| — MQTT and SSL contexts | `ssl_configured`, subscribers | `mqtt_connect/publish/disconnect`, `configure_ssl_context`, `reset_ssl_context`, `factory_reset` | broker, through the modem |
| — files | none; the modem's files, handles and data mode | `upload_`, `write_`, `read_`, `delete_`, `get_all_files_list_`, `get_file_meta_`, `work_in_progress_download_file_*` | modem's flash |
| — configuration, with `types.rs` | band masks and scan order of `ModemConfiguration`; the modem's settings | `set_bands`, `set_rat_order`, `get_band_string`, `get_iotop_mode`, `set_modem_configuration` | modem |
| — PDP context, clock, signal, GNSS | none; the modem's context, request and receiver | `set_context_configuration`, `context_*`, `get_nitz_time`, `get_ntp_time`, `get_signal_strength`, `*_gnss*`, `set_modem_funcionality` | modem, network |
| `examples/` | the program's position | `main`: the intended order of the calls, and what to do with an `Err` | the driver |
| atat, embassy-sync, embassy-net-ppp (not under `src/`) | response slot, URC channel (128 entries, 3 subscribers), mutex, signal | `send`, `subscribe`, `lock`, `signal` | modelled from their use and marked external |

What is hard in it:

* **One slot for three requests.** `pause`, `resume` and `shutdown` overwrite one
  `Signal` that the task empties in three places, between awaits.
* **Custody.** Pin, client, writer and read half wander between task, session, driver
  and PPP through a dozen early returns; whatever is dropped on one of them is gone.
* **One UART, two languages.** AT commands and PPP, but also raw payloads between AT
  commands: bytes in the wrong mode are not noticed by anyone.
* **Results are events.** The modem answers `OK` and reports the result later in a URC,
  possibly after the wait gave up, among others, or before anybody subscribed.
* **Several tasks, one modem**, serialised by a mutex held for an exchange, not for a call.
* **Caches of modem state** (`ssl_configured`, ids, revision) that the modem can outlive.
* **The modem outlives the program.** A program unwraps most results; one that panics or
  is reset leaves a context, a receiver or half a configuration behind for the next.
* **Time.** Fixed delays and attempt counts meet a modem that boots, registers and stops
  in its own time.

`PROJECT.json` lists these hazards at their lines, with the properties that watch them
or the reason why none does.

## Modules

| Module | Models | State and actions |
|---|---|---|
| `LinkService` | abstract: what the supervisor promises its owner | link, who has the UART, the request slot, acknowledgement |
| `CellularNetwork`, `CellularNetworkProofs` | `net.rs`, `ppp.rs` Reclaimable | one action per await point of `run` and `run_session`: `OpenSerial`, `SendPowerKey`, `Probe`, `SetupCommand`, `Dial`, `LoopHead`, `LinkEnds`, `DrivingInterrupted`, `BackoffExpires`, `PausedWakes`, …; the owner's `Call`, `Shutdown`, `DropHandle`; the modem's `ModemHangsUp`, `ModemLosesPower`. `Failed` and `Unrecoverable` are the two error outcomes of `run_session`. Composes with `LinkService` by a refinement mapping (`Link`, `Service`) |
| `ModemBoot`, `ModemBootProofs` | `cellular.rs:232-540` | `Exchange` is one AT command with its four outcomes; `Elapse` lets the modem's clock run while the driver waits; one action per loop body of `is_powered_on`, `update_module_revision`, `is_powered_off`, `test_sim` |
| `NetworkAttach` | `cellular.rs:844-1074` | the two polling loops, their clock and the subtraction between them; its names are its own, and its proof is the last part of `ModemBootProofs`, which extends both: what the driver does by the clock before there is a network |
| `SocketService` | abstract: what `tcp.rs` promises a program of its sockets | per task its handle, its peer, what the peer sent, what is behind its next read, what was read, and whether a read returned an error |
| `TcpSockets`, `TcpSocketsProofs` | `tcp.rs`, `cellular.rs:1693-2043` | per task a label between awaits; the mutex, the ids, the URC subscribers, the modem's socket table with its receive buffer, its data mode (`prompt`), the peer; `Transport` selects TCP or TLS. After a payload that did not go out whole (`cut`) the modem swallows commands, of whichever task, until it has what was announced (`Heeded`, `Swallowed`); a read that fails may have taken bytes out of the modem (`ReadFails`, `HandOver`). Implements `SocketService` by a refinement mapping (`HandleOf`, `PeerOf`, `CameOf`, `PassedOf`, `ReadOf`, `FailedOf`) |
| `RecvFrame`, `RecvFrameProofs` | `cellular.rs:102-196`, `mod.rs:885-927` | the hooks and the parser as operators over sequences of tokens (`Digest`, `ParseSocketRecv`), the ingress that calls them on a stream split anywhere |
| `MqttSession`, `MqttSessionProofs` | `cellular.rs:564-599, 1283-1680, 2168-2401` | one label per command and wait; the modem's contexts, its link to the broker, URCs on their way. A command that fails was refused, lost, or carried out with only its `OK` lost (`CommandFails`) |
| `FileStore` | abstract: what the file calls promise a program | the call, the file and whether anything else got into it, how many others there are, and the data owed to the file |
| `FileTransfer`, `FileTransferProofs` | `cellular.rs:2124-2141, 2412-2858`, `ReadFile::parse` | chunks, blocks, the wait for the report; the directory calls (`Ask`); the modem's data mode, in which it answers no command and takes its text for the file (`NotDone`, `foul`, then `spoiled`); an open that worked although its answer is lost (`stray`). Implements `FileStore` by a refinement mapping (`StepOf`, `ToldOf`, `SureOf`, `DueOf`, `OwedOf`, `MixedOf`) |
| `ModemConfiguration`, `MCModemConfiguration` (its instance), `ModemConfigurationProofs` | `types.rs:87-405`, `cellular.rs:197-210, 601-747` | a mask is a set of bands; `SetBands`, `SetRatOrder`, and `set_modem_configuration` as one `Start` and one `Accept` or `Reject` per setting; the chip (a cargo feature) and the build (debug or release arithmetic) are chosen once |
| `DataSession`, `DataSessionProofs` | `main` of four examples; `cellular.rs:540-560, 748-842, 1076-1173, 2045-2122, 2862-2899` | a program is the list of its calls, each unwrapped (`Must`) or logged (`May`); one action per call, or per command of `context_activate`, `get_ntp_time` and `get_gnss_location`; `Stopped` ends it anywhere, `Start` begins another on the modem as it is, or as it boots (always for the ESP32, whose `main` first takes the modem's power away, lines 97-102); NTP reports, the receiver's fix and `Drop` are the modem's |

How they fit: `DataSession` is the program around the driver; power, SIM, attach,
settings and the use of the connection are one step of it and have the modules
`ModemBoot`, `NetworkAttach`, `ModemConfiguration`, `TcpSockets`, `FileTransfer` and
`MqttSession`. `CellularNetwork` is the other way to run it, in which the supervisor makes
those calls itself and PPP takes the place of the modem's sockets. `RecvFrame` is under all.

In every module an operator `X_Suffix` next to an operator `X` is `X` with a plausible
bug in it, used to show that the properties notice it; the specifications never use it.

Abstractions common to all: names, payloads and files are counted, numbered or
tokens; logging and formatting are left out; an AT command is one step unless
something can happen between its parts. Failures come from a budget `MaxFaults`, so
that behaviours without failures, with one and with several are all there.

## What the runs show

Passing runs:

| Run | Question |
|---|---|
| `network` | Through any order of requests and up to five failures: pin and client are never lost while the supervisor lives (`Custody`), AT and PPP never share the UART and no AT command meets a taken writer (`UartHasOneUser`), no shutdown and no wakeup is lost, every wait ends, `shutdown()` returns unless the pin was lost, and the supervisor implements `LinkService` (safety, and `ClosesInTheEnd`, its liveness) |
| `boot` | `Ok` from `new`/`power_on` means a modem that answers without echo and whose revision was read; a modem that boots within the first delay is brought up whatever its boot URCs collide with, except for the IMEI; `Ok` from `power_off` means off; `test_sim` is right about the SIM; every call ends after its attempts (`CallsEnd`) |
| `attach` | The two loops of `network_attach` share 60 s and overrun them by less than one round |
| `sockets_tcp` | Two tasks, two connects: exchanges are atomic, a handle is the connection its own connect opened, received bytes come once and in order and none is lost unless a read returned an error, with payloads cut off and the commands they swallow, lost answers, late results and dropped handles; and what a task sees of its handle is `SocketService`: connected only to a peer that accepted, what it sent in order and once, whole but for what a failed read lost, the end of file only after its close and the last byte |
| `sockets_tls` | TLS shares `socket_sub`: subscribers stay within two, and a read that found nothing returns what comes later |
| `frames` | Every payload of up to two tokens (CRLF, OK and headers among them) and every split: the answer is the payload, the frame is consumed entirely, every read is answered |
| `mqtt` | No success is acted on that the modem did not report; `Ok` in time rests on reports this call heard; no TLS on contexts that a factory reset cleared; every call ends after its rounds, whatever URCs keep coming (`CallsEnd`) |
| `files` | What is read is the file up to the buffer, what was reported is stored and nothing else with it, the handles a call was told of get closed, and what delete, list and metadata return is so on the modem: a list that is `Ok` is whole, and more files than it can hold are an error; the calls implement `FileStore`: each takes effect once or not at all, in the order of the calls, and text that was not offered only comes into a file whose data was owed; every call ends after its bytes and rounds (`CallsEnd`) |
| `configuration` | On three chips and in both builds: the modem's settings are at every moment, and after every error, a prefix of the new ones over the old; `Ok` means all five and a search mode that fits the scan order; a mask that `set_bands` accepted, wrapped or of another technology's type, never makes the driver panic when it is sent |
| `session` | Three programs in turn on one modem, each free to panic or to be stopped anywhere: a program uses only a context it activated itself with its own APN; what a dead one left kills no later one; the tick count of `get_ntp_time` is of the moment the report came whose time it returns (which may be a late report of an earlier request) |

Runs that find the code at odds with its documentation (one property each; the
counterexample is the run's result):

| Run | Disagreement |
|---|---|
| `network_shutdown_hangs` | `net.rs:463`: after `Unrecoverable` the task returns without signalling, and `shutdown()` (`net.rs:229`, "Awaits confirmation") waits forever |
| `sockets_eof` | `cellular.rs:2026`: the poll subscribes and drains at once, so a close between two polls is missed and `read` never returns EOF (`tcp.rs:249`) |

Other disagreements met while modelling, which no run reports. The first two are stated in the
modules, as `PauseTakesEffect` (`CellularNetwork`) and `ProvidedIsConfigured`
(`MqttSession`), and do not hold:

* the loop head takes a `Pause` and throws it away (`net.rs:431`), while "the pause takes
  effect once the task notices" (`net.rs:217`);
* `ssl_configured` does not say which SSL context it is about, so configuration for a
  second one is skipped (`cellular.rs:1298`), where 1294 says "Configure SSL if provided";
* `tcp.rs:112` has one `QuectelTcpClient` per transport and SSL context, but each counts its
  ids from 0 over one socket table of the modem: the second client's connect is refused, or,
  when the first one's timed out and its result comes late, returns a handle on the first one's
  connection. `sockets_tls` with `Clients = {"c1", "c2"}` violates `HandleOwnsSocket` in nine
  steps; so does one client whose ids wrap (`IdSpace = 2`);
* `shutdown()` leaves the modem powered and in data mode (`net.rs:488`);
* a `resume()` that nobody needs ends a running session (`net.rs:502`);
* `upload_file_to_internal_flash` ignores the answer to AT+QFUPL, which refuses a file that
  exists, subscribes for the report after the last byte and returns `Ok` when it hears none
  (`cellular.rs:2503-2569`, doc at 2494);
* waits of the MQTT calls and of `write_file_to_internal_flash` that expire return `Ok`
  (1647, 2822);
* a TCP payload that contains a TLS header is cut by the combined hook (142);
* `update_imei` panics when the garbled answer it does not ask for again is not 15 bytes
  long (333); `network_attach` panics when an answer comes after the 60 s (1066);
  `get_nitz_time` panics when the network's string does not fit the format (2894), where
  the NTP parser next to it returns an error;
* an order of `Default` or of `GSM` alone, which `set_rat_order` accepts, is refused with
  `NotSupported` only after four settings were changed on the modem (728);
* the EMTC mask of the EG916U, 0x800800B5, is bands 1, 3, 5, 6, 8, 20 and 32, where its
  comment says "1/3/5/8/20/28" (`types.rs:246-250`): `set_bands` refuses 28;
* `examples/linux_simple/src/bin/file_handling.rs:194` says "Append more data" and calls
  `write_file_to_internal_flash`, which opens with mode 1, create or overwrite
  (`cellular.rs:2756`);
* a list of more than five files is an error, so
  `esp32c3_…/erase_all_files_in_modem.rs`, which deletes what it lists, erases nothing then;
* a socket write that fails (`cellular.rs:1788`, 1948) gives the mutex back with the modem
  still waiting for the announced bytes: "each socket operation locks it for the duration of
  a single command" (`tcp.rs:22`), but the next task's commands are taken for the rest of them;
* an open whose answer comes after the second that `send` waits leaks its handle on the modem
  and, for a write, has emptied the file although the call returns `Err` (2668, 2769);
* a report of an NTP request that a call gave up on ends the wait of the next call (793).

### Bounds

* `CellularNetwork`: `MaxFaults = 5` walks the backoff 2, 4, 8, 16, 32, 60 to its cap;
  `MaxCommands = 3` allows every pair of racing requests plus one to undo them, followed
  by a shutdown or a dropped handle at any point.
* `ModemBoot`: in units of 100 ms. Boot times below, at and above the first delay of
  5 s; stop times that end within the ten rounds and within the last probe (the modem is
  assumed down 11 s after AT+QPOWD: `ModemBootAssumption`); SIM times of none, of two
  attempts, and beyond all five. Four calls make a power cycle with a SIM test; one lost
  answer or restart comes on top of the two boot URCs.
* `NetworkAttach`: the code's own timeouts in half seconds.
* `TcpSockets`: two tasks are enough for every race over one mutex. In `sockets_tcp` two connects
  let one task work on the socket after, or beside, the other's, and two bytes a peer sends let a
  failed read lose the first and a later one return the second. `MaxConnects` stays
  below `IdSpace`, so ids do not wrap within a run, and there is one client: the two cases that break
  `HandleOwnsSocket` are listed above. The
  modem has fewer sockets (`ModemIds`) than ids, so that an open can be refused.
* `RecvFrame`: a token is the smallest unit that the search functions tell apart, and two
  of them make every adjacent pair that could be mistaken for an end or a header.
* `MqttSession`: three calls make connect, disconnect, connect, and reset between them;
  `Rounds = 2` is the least at which a wait can see two URCs or expire in between.
* `FileTransfer`: `Chunk = 3`, `Block = 2`, `MaxLen = 5` stand for 256, 128 and a file of
  one, two and three of either, with and without a remainder. `ListCap = 2` stands for five
  entries; with none or two other files a listing is below, at and above it. Three calls
  let one fail with the modem in data mode, one meet that, and one look at the result.
* `ModemConfiguration`: one build per chip feature, `BandArgs` with a single band, bands
  of the chip's table and outside it, `NoChange` and `Any` alone, first and among others,
  and bands of one type given for another technology; `RatArgs` with every size, a
  repetition, `Default` and `GSM` alone. Two builder calls and two calls of the driver let a second
  configuration meet what a first one left half done; the properties look at two calls at most.
* `DataSession`: three programs, so that a second one that died too meets a third; two
  mishaps make a program die and leave one for the modem to drop what it holds.

### Fairness

* `CellularNetwork`: weak fairness of the session, of the task's own steps, of the spawn
  (the owner runs the task `init` returned) and of the return of `shutdown()`: an async
  executor polls what is ready, and every AT command has a timeout. Nothing is assumed of
  the owner's requests, of the modem or of failures.
* `TcpSockets`: weak fairness of each task's step, weak fairness of the modem's end of an
  open (it reports success or failure), and strong fairness of taking the mutex: it is
  released between two rounds of a read, for 100 ms, and a release wakes its waiters.
* `RecvFrame`: bytes that were sent arrive and are looked at. The other modules state
  safety only.

Deadlock is not checked: every model really stops when its bounds on calls and failures
are used up, and the supervisor's task returns.

`CallsEnd` needs no fairness: it is the safety half of termination. Each step of a call lowers
what is left of it (stages, then bytes, rounds or attempts) and no step of the modem raises it,
so a call that keeps being polled returns. It says nothing of a step that changes nothing at
all, which TLA+ does not see.

## What is proved

With TLAPS, for every value of the constants.

`CellularNetworkProofs`, from `CellularNetworkAssumption` (the bounds are naturals):
`TypeCorrect`, `CustodyHolds`, `UartHasOneUserHolds`, `CmdBufClaimedOnceHolds`,
`ShutdownNotLostHolds`, `NoLostWakeupHolds`, `BackoffValuesHold`,
`BackoffNeverShrinksHolds` and `Implementation` (every behaviour is one of `LinkService`).
None of the invariants is inductive alone: where the pin is at `dial_ppp` says nothing
about the writer. `IInv` joins them with `Bookkeeping` (an
unbuilt client means an unclaimed buffer; the transport of `init` exists only until the
spawned task takes it; no pump is left on the read half that PPP got) and
`LatestRequest` (what is in the slot is what was asked last, and an owner that can
still ask has not asked for a shutdown). `Step` goes through the actions one by one, `Implementation` uses the
same invariant to map each of them to an action of `LinkService` or to a stutter.

`ModemBootProofs`, from `ModemBootAssumption` (boot times are positive, a modem told to stop is
off within 11 s, no firmware is called "none"): `TypeCorrect`, `OkMeansReadyHolds`,
`BootCollisionsForgivenHolds`, `OkMeansOffHolds`, `SimVerdictIsRightHolds`, `CallsEndHolds`. Each of
the four about results compares the driver's clock with the modem's, and its invariant is the budget that is
left: `OffInv`, that a stopping modem has at most 110 units less 10 for each look to go, so
that the last look and its probe outlast it; `CollisionInv`, that the attempts used and the
boot URCs still to come are two at most, of three attempts; `SimInTime`, that attempts 25
units apart outlast an initialisation of 50 units and both collisions; `ReadyInv`, what each step
of `new` and `power_on` has established. `AfterWhat`, `ElapseWhat` and
`FailedWhat` say what the passing of time and an exchange do to the modem, and there is one lemma per
action. `CallsEndHolds` needs of it only that attempts are counted in numbers (`BootLoops`,
`OffLoop` and `SimLoop`, one lemma for each kind of loop). From `NetworkAttachAssumption`:
`ClockBoundedHolds`, types and time budget for every timeout, poll interval and answer time. The
invariant `ClockInv` states the budget phase by phase: nothing is booked to the attach before its
loop ends, and what it used is what the registration loop has less.

`TcpSocketsProofs`, from `TcpSocketsAssumption`: `TypeCorrect`, `OneExchangeHolds` and
`SubscribersBoundedHolds`, for any number of tasks, clients and ids: the exchanges are what the
mutex guards, a modem that waits for data waits for the holder's or for the rest of a payload
that was cut, and every subscriber but `socket_sub` belongs to a task in its exchange
(`SubsInv`), of which there is one. `HandleOwnsSocketHolds`, `StreamIntactHolds` and
`SocketImplementation` have `FreshIds` as a further hypothesis: one client, and no more connects than ids. The code
grants that for the first 256 connects of a program with one client and no longer; without
it all three are false (see above). Under it the connection with number n is the only one that ever has
the id n - 1 (`OwnInv`), a socket is free and nobody was told that it is open until its own
open was sent (`OpeningInv`), what is in the socket is the end of 1, 2, ... up to what came, and
what was read is in order and comes before it, without a gap as long as no read of the handle
returned an error (`StreamInv`). The refinement needs `ClosedInv` as well: the close of a socket is
told only after it happened, so a task that reads for the last time has a closed socket. Then a
step of a task changes what that task alone sees (`OthersSame`), one of the modem what the socket's
owner sees (`ModemSeen`), and each is an action of `SocketService` or a stutter: the
task's `CloseLock` is its `Ends`, a result that comes after the timeout is nothing.

`RecvFrameProofs`, from `RecvFrameAssumption`: `AnswerIsPayloadHolds`,
`FrameConsumedHolds` and `TypeCorrect`. For the first two: first, what the search functions find in a beginning of a frame
(`FindIs`, `DigestWhat`): nothing before the last token came, however many headers, lengths and
ends the payload imitates, and the whole frame then; that the other command's hook finds none
(`DigestForeign`, `DigestSsl`); and that the parser takes the payload out of it
(`ParseFrame`). Then `FrameInv`: the buffer and what is still to come are together the
frame of the read under way, and between reads both are empty. The length of a payload, the number of frames and the splits are unbounded.
`TypeCorrect` is about the other frames too, those cut at the wrong place after a TCP payload that held a TLS
header: what the parser makes of any piece of the stream is a payload or an error. It has an
invariant of its own. `Find` takes the least position at which something starts, and that a set of positions
which is not empty has a least one is an induction over data; `HasLeast`
carries it in the state instead, where the buffer grows by one token at a time (`LeastGrows`) and
loses a beginning (`LeastShrinks`). `Sound` says that every length in
the buffer or on the way, wherever the frame it announced was cut, is one of a frame, so that what
it counts is a payload (`CountsWindow`, `ParseBounded`).

`MqttSessionProofs`, from `MqttSessionAssumption`: `TypeCorrect`, `NoForgedSuccessHolds`,
`OkIsReportedHolds`, `SslAfterConfigureHolds`, `CallsEndHolds`. `NoForgedSuccess` says nothing of the
reports that wait to be read; `Counted` does: of each kind, what was acted on and what waits in the
subscriber's queue were reported once each. `Progress` ties each step of a call to the
reports it has seen, `FlagInv` the flag to a configured context from the step on that
sets it. These are counts: which publish a report is of, the code does not look at, and the report of one whose wait
expired, when it comes late, ends the wait of the next (`cellular.rs:1651`).

`FileTransferProofs`, from `FileTransferAssumption`: `TypeCorrect`, `ReadIsWholeHolds`,
`ReportedIsStoredHolds`, `HandlesClosedHolds`, `DirectoryIsTrueHolds`, `StoreImplementation` and
`CallsEndHolds`, for every chunk, block, buffer, file and list capacity. `Phases` says which call a step is of; `HandleInv`
counts the handles of the call, those that are stuck and those whose number was lost; `ModeInv` says who put the modem into
data mode; `ReadInv` that what has been read is the beginning of the file; `ReportInv` that a
report is of the file as it is stored with nothing else in it, and no later step of the call touches it. The refinement needs
`ReadEnds` besides: a read that goes on has not read past the end of the file, which the modem cannot
change under it. Then an `Open` is `FileStore`'s `Opens`, an `Announce` its `Offers`, the
modem's `ModemStores` its `Lands`, a block that was cut its `Breaks`, a return the one of its kind, and
all the chunks, blocks and rounds between are stutters (one lemma per action, `OpenSeen` to `LandSeen`).
An open of a write whose answer is lost is its `EmptiesOnly`, and a command that a modem in data
mode takes for data may mix with what is owed (`NotDoneFouls`, `MixSeen`).

`DataSessionProofs`, from `DataSessionAssumption`: `TypeCorrect`, `UseIsOnOwnContextHolds`,
`LeftoverNeverKillsHolds`, `ClockPairIsOfOneMomentHolds`, for any number of programs, mishaps and
reports. What a program has done is known from the calls it still has before it, because of
the order it makes them in: `Ordered` is that order, every one of the four programs has it, and
it is kept as calls are made. `ContextInv` says what a program that is going to use a connection has
made of the context, `CleanInv` how a run without a mishap finds the modem, `GnssInv` that the
program which uses the receiver finds it off, `InboxInv` that a
waiting call's inbox holds reports of the wait.

`ModemConfigurationProofs`, from `ModemConfigurationAssumption` (which chips, builds, bands
and orders there are to choose from): `TypeCorrect`, `PrefixAppliedHolds`,
`OkIsWholeHolds` and `SendNeverPanicsHolds`, for every set of band lists and orders and any number of calls and
faults. `PrefixApplied` is not inductive: it does not say where the prefix ends. `SentInv`
ties its end to `next`, the setting being sent, and to `result`; `OkIsWhole` follows from
it at the end of the sequence. `SendNeverPanics` rests on `BandsFit`: whatever `set_bands` lets
through on the chips that are sent bands, a shift that wrapped included, stays within the 96
bits of their tables, so the strings are long enough.

The runs satisfy these assumptions: TLC evaluates each of them, and `FreshIds` holds of the instances of `sockets_tcp` and `sockets_tls`.

Model-checked only is every liveness property (`Reconnects`, `ShutdownReturnsOrPinLost`,
`ClosesInTheEnd`, `ReadGetsData`, `ReadAnswered`): liveness under fairness is beyond the prover.
Every invariant and action property that a run checks is also proved.

The types of all modules but `RecvFrame`, and the single claim of `CMD_BUF` and the backoff's schedule of
`CellularNetwork`, are left to the proofs, which cover every instance; no run repeats them.

## Not modelled

* `Duplex` and the bytes lost between AT and PPP (`ppp.rs:38-44`): below the models.
* `NetworkStatus` (signal and session count, `net.rs:361`), which nothing in the supervisor reads back; the
  stack's IPv4 configuration, which is never cleared (`net.rs:277`); and a second
  `init` (`net.rs:557`), which panics at a claimed buffer: embassy-net and a second owner are
  outside the models.
* The other examples: the file examples call what `FileTransfer` has in any order; the two
  PPP programs call `CellularNetwork::init` and then embassy-net; the rest are tools for a
  certificate, for erasing and for a serial console.
* `SslConfiguration` (`types.rs:548-994`): a record with setters, sent by `Configure` of
  `MqttSession` as one value.
* The derive-generated formatting of commands and responses, logging, compat.

## Plan

Written, in this order: supervisor with its abstract service (the part where an error
costs the product its connection), attach, sockets, framing, MQTT, files, boot, modem
configuration, programs on one modem.

Next:

1. A free-running id after the wrap at 256 and for a second client, once the driver keeps a
   list of ids in use.
2. A session setup that composes `ModemBoot` and `NetworkAttach` and refines the setup
   steps of `CellularNetwork`.
3. An abstract context (owner, activated, used) that `DataSession` implements.
