# Verification of PyBluez

PyBluez gives Python programs Bluetooth sockets, device discovery, service
advertising and, on macOS, OBEX. This directory holds TLA+ modules of its parts
that keep state and meet concurrency, failure or reordering, the TLC
configurations that check them on small instances, and proofs that TLAPS checks
for every value of the constants.

Paths below are relative to the repository.

## 1. Inventory

| Component | Source | State it keeps | Operations | Interacts with |
|---|---|---|---|---|
| Asynchronous discovery (Linux) | `bluetooth/bluez.py` `DeviceDiscoverer` | socket, `is_inquiring`, `lookup_names`, `names_to_find`, `names_found` | `find_devices`, `cancel_inquiry`, `process_event`, `process_inquiry`, callbacks | raw HCI socket shared with every process on the adapter |
| Bluetooth socket (Linux) | `bluez/btmodule.c` | descriptor, timeout, listening flag, SDP session and record handle | `bind` ... `shutdown`, `close`, `settimeout`, `sdp_advertise_service`, `sdp_stop_advertising`, HCI calls | the kernel with the GIL released, the local SDP daemon |
| SDP sessions (Linux) | `bluez/btsdp.c` | session pointer | `connect`, `close`, `search`, `browse`, `fileno` | SDP daemon of this or another device |
| Socket wrapper and synchronous calls (Linux) | `bluetooth/bluez.py`, `examples/advanced/*.py` | wrapped socket, filter of an HCI socket | `bind` to a free port, `dup`, `read_local_bdaddr`, inquiry mode, scan activity, flush timeouts, `discover_devices`, `find_service` | the two above, other programs on the adapter |
| OBEX server (macOS) | `LightAquaBlue/BBBluetoothOBEXServer.m`, `BBOBEXRequestHandler.m` | session, current handler with stream, headers, response code | events of the session, `close`, delegate callbacks | OBEX client over an RFCOMM channel, the delegate |
| OBEX client (macOS) | `LightAquaBlue/BBBluetoothOBEXClient.m`, `BBOBEXRequest.m` | session, current request, abort flag, connection id | `send...Request`, `abortCurrentRequest`, `close`, session events | OBEX server, the delegate |
| OBEX calls (macOS) | `macos/_obex.py`, `_obexcommon.py` | result of the last request, what the receiver has seen | `connect`, `put`, `get`, `sendfile`, `recvfile` | client and server above, the event loop wait |
| Sockets (macOS) | `macos/_bluetoothsockets.py` | bound ports, connection queue, receive queue, timeout, shutdown state | socket API, channel callbacks | IOBluetooth, the event loop wait |
| Event loop wait (macOS) | `macos/_macutil.py` | - | `waituntil`, `interruptwait`, sleeper | the Cocoa event queue |
| Service advertising (macOS) | `macos/_lightblue.py`, `bluetooth/macos.py`, `BBServiceAdvertiser.m` | handle of the record of each socket | `advertise`, `stopadvertise`, `bind`, `close` | the sockets, the SDP daemon |
| Device and service discovery (macOS) | `macos/_lightblue.py`, `bluetooth/macos.py` | results of the running inquiry or query | `finddevices`, `findservices`, `discover_devices`, `find_service` | IOBluetooth, the event loop wait |
| Windows back end | `bluetooth/msbt.py` | descriptor, raw SDP record and handle | socket API, advertise, find | Winsock, the helpers |
| Windows extension module | `msbt/_msbt.c` | - | wrappers of Winsock calls | - |
| Common helpers | `bluetooth/btcommon.py`, `macos/_lightbluecommon.py` | - | UUID and address checks, SDP records | - |
| OBEX header sets, streams | `LightAquaBlue/BB*HeaderSet.m`, `BBStreaming*.m` | headers in order of addition | build, parse, merge | OBEX client and server |
| Front end, BLE | `bluetooth/__init__.py`, `ble.py` | - | selects a back end | - |

What is hard, and what makes each component correct:

* **Asynchronous discovery.** The raw socket sees the events of the whole
  adapter, and none of them says which inquiry it belongs to. Inquiries are
  cancelled, superseded, refused and interrupted by the adapter going down, and
  their events arrive late. Correct: one `inquiry_complete` for an inquiry, no
  results or names of an earlier one, no wait for something that never comes.
* **Bluetooth socket, SDP sessions.** Every blocking call releases the GIL, so
  that another thread can close the socket, change its timeout or advertise over
  it in between. Correct: each descriptor and session is closed once, a
  service is advertised exactly while the socket holds its session.
* **Synchronous calls.** An HCI socket hears the commands of other programs, and a
  port that is free when one looks is taken when one binds. Correct: a call
  returns the answer to its own command, and always returns.
* **OBEX server and client.** Requests of many packets, which may be refused
  or aborted at any of them, by either side, with streams of the delegate that
  fail, and a channel that breaks. Correct: data reaches the stream of its own
  request, success is true, streams are given back, each request is told its
  end once, an abort aborts the request it was meant for.
* **OBEX calls.** They wait in the event loop, may be interrupted there, and leave
  requests under way. Correct: an answer belongs to its call, what was reported
  sent was received, both ends return.
* **macOS sockets, event loop wait.** Blocking calls are event loops that run
  callbacks. Correct: data and connections are handed out
  once and in order, a wait whose condition holds ends.
* **macOS advertising and discovery.** State is kept under addresses that are
  used again, and what one lookup gave up completes in the next. Correct: services
  end with their own socket, what is found is of this lookup.
* **Windows.** Records are registered and found again as octets; registering can
  fail. Correct: what is advertised is registered, and is found as advertised.

## 2. Modules

| Module | Models | Checked by | Proved in |
|---|---|---|---|
| `DeviceDiscoverer` | `DeviceDiscoverer` of `bluez.py`, the adapter and other processes | `DeviceDiscoverer.cfg` | `BluezProofs` |
| `OBEXLink` | the session between an OBEX client and a server (external) | through the modules that extend it | - |
| `OBEXServer` | `BBBluetoothOBEXServer`, `BBOBEXRequestHandler` and its subclasses, against any client | `OBEXServer.cfg`, `OBEXHeaders.cfg` | `OBEXServerProofs` |
| `OBEXClient` | `BBBluetoothOBEXClient`, the `BBOBEXRequest` classes, against any server | `OBEXClient.cfg` | `OBEXClientProofs` |
| `OBEXTransfer` | `OBEXClient` and `OBEXServer` on one session | `OBEXTransfer.cfg` | `OBEXClientProofs` |
| `OBEXCalls` | the Python calls on top of the two, sender and receiver | `OBEXCalls.cfg` | `OBEXCallsProofs` |
| `BtSocket` | `_bluetooth.socket` of `btmodule.c` under several threads and the GIL | `BtSocket.cfg`, by `MCBtSocket` | `BtSocketProofs` |
| `BluezCalls` | the blocking HCI calls and `bind` to a free port of `bluez.py`, by several programs | `BluezCalls.cfg` | `BluezProofs` |
| `MacSocket` | sockets over IOBluetooth channels and the event loop wait | `MacSocket.cfg` | `MacSocketProofs` |
| `MacAdvertising` | ports, duplicates and advertised services on macOS | `MacAdvertising.cfg`, by `MCMacAdvertising` | `LightblueProofs` |
| `MacDiscovery` | lookups of devices and services on macOS | `MacDiscovery.cfg`, by `MCMacDiscovery` | `LightblueProofs` |
| `SdpData` | SDP data elements and records, as functions on octets | through `MsbtServices` | `MsbtServicesProofs` |
| `MsbtServices` | sockets, services and the search for them of `msbt.py` | `MsbtServices.cfg`, by `MCMsbtServices` | `MsbtServicesProofs` |

### DeviceDiscoverer

`sock`, `is_inquiring`, `lookup_names` and `names_to_find` are the fields of the
object. `queue` is the receive buffer of its raw socket, `cmds` the commands the
kernel holds for the adapter. `FindDevices` / `FindDevicesFails`,
`CancelInquiry` / `CancelInquiryFails` / `CancelLookup` are the calls of the
user, by outcome; `ReadInquiryResult` ... `NameNotFound` are `process_event` by
the type of the event it reads. `names_found` stays empty (`NameFound` raises
before its only entry is made) and is left out.

The adapter takes commands in order, accepts or refuses inquiries, finds
devices, ends inquiries and name requests. Other processes complete or refuse
commands and look up names on the same adapter (`ForeignEvent`). The
adapter may be switched off (`AdapterDown`), whereupon what it did is lost; the
receive buffer may overflow. Both set `lost`. `process_event` raises where extended
data end too early (`bluez.py:553`), where a name arrives (`:588`) and where the next
name request cannot be sent: `raised` notes it, since nothing in the loops that call
it catches the exception. `inquiry`, `completions`, `seen`, `cancelled` are history
for the properties.

A callback is the last statement of each path that makes one, so a call made in
a callback is simply the next step.

The module is of the object with a filter that works. Under Python 3, which
`setup.py` requires, `hci_filter_all_events` (`btmodule.c:2299`) returns its
octets as text, which 0xff is not: `find_devices` raises `UnicodeDecodeError` at
`bluez.py:434`, before anything is sent (`CHANGELOG:49` lists an error of this kind
as fixed).

Left out: reuse of one object by several threads (the class has no provision
for it); the arguments `duration` and `flush_cache`, class, RSSI and clock of
a response; a second `cancel_inquiry` after one that failed, which passes `None`
for the socket to `hci_send_cmd`, where the C code casts it unchecked.

### OBEXLink and OBEXServer

OBEX is half duplex, so the session holds at most one packet of either side. A
packet is reduced to its operation, the number of its request, whether it has a
body, is the last and parses. Headers are the set of requests they came from.

`running` is `mSession`, `handler` the current request handler: its class,
`mDefinitelyIsPut`, the request whose stream it holds and the requests whose
headers are in `mPreviousRequestHeaders`. One session event is handled to its
end before the next is delivered, so handling a packet is one step:
`HandleWrongType`, `HandleUnreadable`, `HandleSingle` (Connect, Disconnect,
SetPath), `HandlePut...`, `HandleGet...`, `HandleAbort`, `HandleIdleAbort`,
`HandleError`, `Close`, `ChannelClosed`. Within the step the delegate answers as
it likes (no method, refuses, no stream, a stream that fails, a code of its own),
and `Responds` / `Rejects` are the common end of `handleRequestEvent:`, with a
response that cannot be sent as an alternative.

The delegate's view is history: the fate of the stream of each request, the
headers it was asked about, the kind of request it was told the end of, whether
it was told of an error.

`SetsCodeLate` tells delegates apart: with FALSE they set a response code when
asked about a request or between two packets, with TRUE also when told that data
was sent. The delegates of `macos/_obex.py` never set one.

The client is any that keeps to OBEX (`PeerStarts`, `PeerContinues`,
`PeerAborts`, `PeerEnds`). It may abort in place of its next packet or when no
answer comes, or stop there (`PeerStalls`).

Left out: a delegate that closes the server in one of its callbacks; a delegate
that answers Connect, Disconnect or SetPath with Continue; the layout of headers.

The delegate's stream may take a part of a packet only. The server looks for an
error and nothing else (`BBOBEXRequestHandler.m:456`), so that the rest is lost and the
Put goes on: `cut` notes it, and the properties about what was written except such
a Put by name.

### OBEXClient

`current` is `mCurrentRequest` (none, a request of the user, or the Abort that
took its place), `aborting` and `hasConnectionID` are the flags of the same name.
`last` is the request begun last with its progress: the stream of a Put is
reduced to whether it has more to read (`more`), a chunk to whether it fills its
packet. The code takes one that does not for the last (`BBOBEXRequest.m:253`), also where
the stream gave fewer octets than it was asked for and has more (`short`): then the Put
ends there, and may succeed. `SuccessSendsTheStream`, which says that it does not, is
violated (section 5); `PutSuccessIsWhole` excepts such a Put.

`SendRequest`, `AbortCurrentRequest`, `Dealloc` are the calls of the user. A
session event is handled in one step, by what it is and what the request does
next: `PerformAbort`, `SendNextPut`, `NextPutRaises`, `SendNextGet`,
`SendNextFails` on Continue, `HandleFinal` on any other answer, `IgnoreResponse`
without a request, `HandleOtherIdle` / `HandleOtherBusy` for an event that is no
answer to the request, `HandleError` when the channel is gone. `Ends` is
`finishedCurrentRequestWithError:`.

A callback is made in the middle of a step, but what it may do is refused or
has the effect of a call right after the step, with one exception:
`finishedCurrentRequestWithError:` clears the current request after the callback,
so a request begun there is lost. `RequestsInCallbacks` = TRUE gives the delegate
that habit (`EndsIdle`); `GivesUp` = TRUE lets a request end at the client's own
motion, as when a packet does not fit or an event is none it knows.

The server is any that keeps to OBEX (`ServerAnswers`, `ServerIsSilent`), and
answers Continue only to a Put that is not over and to a Get. `outcome`, `asked`,
`missed`, `raised`, `silent` are history.

Left out: the stream given to `client:didAbortRequestWithStream:...` (an Abort
request has none, so it is always nil); `mLastServerResponse`, which nothing
reads but its getter; the layout of headers; a short write of the stream of
a Get.

### OBEXTransfer

The module extends `OBEXClient` and has the server as the instance `S` over the
same link, in place of the any-server the client is specified against. A
`ClientStep` is a step of the client that leaves the server alone, a `ServerStep`
the reverse; `silent` is what a server does that takes a packet and sends nothing.
What the server's module knows of its client is a function of the client's state
(`peer`). `ClientMeetsItsServer` (`Spec` of `OBEXClient`, with the any-server) and
`ServerMeetsItsClient` (`S!Spec`, with the any-client) are properties, checked and
proved, so that what is proved of either end holds in the composition.
`ServerAnswersLast` is the answer that ends a request. The client is that of
`macos/_obex.py`: it gives nothing up and begins no request in a callback
(`GivesUp`, `RequestsInCallbacks` FALSE).

### BtSocket

`fd`, `timeout`, `listening`, `session` and `handle` are the fields `sock_fd`,
`sock_timeout` (negative, zero or positive), `is_listening_socket`, `sdp_session`
and `sdp_record_handle` of each object. `file` and `fds` are the kernel's: an
object is made for a file, and a descriptor names a file until it is closed and
given out again. A session of the SDP daemon is opened, holds a record, is freed.

Each thread is in one method of one object (`op`, `on`) at one place (`pc`).
What a method does without releasing the GIL is a step; between
`Py_BEGIN_ALLOW_THREADS` and `Py_END_ALLOW_THREADS` each system call is, and
reading `sock_fd` for it comes before (`Load`), so that the descriptor may be
closed and given out again in between. `Transfer` ... `CallAccepts` are the methods
that move data or take connections, `Select...` is `internal_select`,
`SetTimeout` and `InternalSetBlocking` the two halves of `settimeout`,
`Close`, `CloseFd`, `CloseSession` those of `close`, `Advertise` ...
`NoteHandle` `sdp_advertise_service`, `StopAdvertising` ... `NoteStopped`
`sdp_stop_advertising`. Objects are made by `accept` and `dup`; one is there from
the start, as `socket()` makes it, perhaps listening.

Two threads that set a socket's timeout, close it, advertise or stop advertising
at the same time are ordered by nothing in the code, and do break it: one that
closes while the other registers leaves a service without a socket, two that stop
free the session twice. `overlapped` notes the sockets this happened to, and the
properties about sessions and timeouts except them, and no others: data calls,
`listen`, `dup` and everything on other objects may overlap with anything.
There is a second way: `settimeout` reads `sock_fd`, releases the GIL and calls
`fcntl` (`btmodule.c:115`). A `close` of the same socket in between frees the
descriptor; when it was given out for another socket by then, that
socket is made blocking or not behind its back, whatever its timeout says.
`InternalSetBlocking` notes this in `overlapped` too. The run's bounds do not show it,
it takes three objects and more calls; the proof of `TimeoutHolds` failed on it.
`timed`, `steady`, `misused` are history too.

Left out: `bind`, `shutdown`, `getsockopt`, which change no field; `makefile`; a
second `__init__` on one object; the direction data goes and the state of a
connection; a descriptor cleared between `FD_SET` and `select`, or between the
two `fcntl` of `internal_setblocking`.

### BluezCalls

`pc` and `call` say where each program is in which call, `filter` and `heard` are
of its HCI socket, `sent` and `value` the commands on their way and the registers
of the adapter. `ReadInquiryMode` ... `WriteFlushTimeout` begin a call: the
filter is set. `SendCmd`, `RecvAnswer` / `RecvRaises` and `Restore` are its other
steps, between which the other program's commands are heard. `Bind`,
`PortIsFree` / `PortInUse`, `NoneLeft`, `BindRaises` are the search for a free
port, with others that take and free ports meanwhile.

What the calls do that their authors may not know is in the model: those that
write or read a flush timeout raise after the command was carried out, since they
expect octets where `hci_send_req` returns text; the call that writes the inquiry
mode returns -1 where it succeeds (`inquiry-with-rssi.py:70`; its docstring says 0).

Left out: an adapter that goes down or does not answer; a connection handle that
is used again between its lookup and the write of its flush timeout; a search
among L2CAP ports that stops with an error at port 0x1101, which is no port
(`BindRaises` has the outcome); the inquiry of the example, which raises as above.

### OBEXCalls

`call` is the call of the sender that waits in the event loop; `busy`, `error`,
`answer` are what it waits with, `pending` the request that LightAquaBlue's client
is at, which outlives an interrupted call. `SendFile` follows `sendfile` through
Connect, Put and Disconnect (`script`). `Starts`, `StartFails`, `HeadersRaise`,
`NotMade`, `Returns`, `Interrupted` are the calls by outcome; `GoesOn`, `Finishes`,
`Dies`, `GivesUp` what the client does in the event loop, as in module
`OBEXClient`. `NotMade` is a call that raises before it begins anything, among them the
Put of a file object without a name (`headers` is unbound, `_obex.py:431`).

`source` is the kind of file a Put reads. The reader (`_macutil.py:208-213`) encodes what
it has read. Octets have no such method, so it raises, outside the `try`: a `sendfile`
of a filename opens the file for octets and fails in the first read. Text of one octet
for a character is sent as it is (`exact`); of other text the octets that exceed the
length asked for are dropped (`BBStreamingInputStream.m:46`), and a read that is short
ends the Put (`inexact`): `SentIsReceived` is of the former, `SentIsTheFile`, of both, is
violated (section 5). Where a later read raises, PyObjC carries the exception out of
the event loop and so out of the wait, with the request still under way (`ReadRaises`).
`PutSources` bounds the kinds for a `put` that a program makes itself.

`recvfile` compares its argument with `types.FileType` (`_obex.py:570`), which Python 3 does
not have: it always raises there. With `NoFileType` = TRUE the module does as well, and
`RecvFileReceives` is violated (section 5). With FALSE, as in the run, it is
what the code is with that line mended: what is said of received files is said of that.

`RecvFile`, `Accepts`, `Run`, `RunInterrupted` are `recvfile` and its
three waits (`stage`), `Serve...` and `LinkLost` what its server calls back.

A second Put that arrives within the three seconds `run` waits for a Disconnect is
appended to the same file, as in the code: `file` holds the parts of both.

Left out: two threads that make calls; the layout of headers, of which only the
check of values is here (`Sendable`); what `get` receives.

### MacSocket

One thread makes calls (`call`), one at a time, and they run the event loop in
them. `link` and `pend` are each channel in the system and its events not yet
called back, `buf`, `closed`, `queued`, `refs` the fields of the sockets, `notes` the
events of `interruptwait` in the queue of the application. A callback
(`NewChannelOpened`, `HandleChannelData`, `HandleChannelClosed`) is a step of any
call that is in the loop; `waituntil` looks at its condition in `Notified` and
`WaitTimesOut` only. `Send` goes by chunks of `Mtu`, with the event loop between.

A wait that is begun within another, by a callback, is not in the model; no callback of the
repository begins one, an application's own could. Events of the application that are not
of `interruptwait` are put back by `waituntil` and change nothing here; they are left out.

Left out: `settimeout(None)`, which raises in Python 3 (`float(None)`); what comes on
an incoming channel before `accept` made a socket for it is lost in the code
(`_bluetoothsockets.py:883`) and so in the model (`past`); channels that wait in the
queue of a server that is closed stay open (`:293`); `accept` on a duplicate after
`close` waits for good.

### MacAdvertising

`wrapper`, `sock`, `port`, `bound`, `advertised` are the objects of a program by
address (`Ids`), the socket each wraps, `__port`, `_boundports` and `__advertised`;
`records` what the SDP daemon publishes. `Collect` gives an address back. `api`
says whether the program uses `lightblue` or `bluetooth`, `removable` whether
records can be removed: with an SDK from 10.5 on they cannot, then every `bind`
raises and leaves its dummy record.

Known and excepted by name (`strays`, `freed`): records nobody keeps track of
(advertised twice, or on another channel than the one bound, or left by an object
that was collected, or by the probe of a `bind` that could not remove its own), and a
port that closing a duplicate gives back a second time. Closing an object adds nothing
to `strays`. A duplicate's record lasts until the duplicate is closed or stops it, also
where the socket it is for was closed through another; `ServicesEndWithSockets` says that
the object a record was advertised with has not been closed.

In the `bluetooth` package services do not end with their sockets. What is kept is kept
under the id of the `BluetoothSocket`, what `close` stops is what is kept under that of the
wrapper it holds (`_bluetoothsockets.py:193`), and `bluetooth.stop_advertising` calls a
function that `lightblue` does not have. `ServicesEndWithSockets` says of this package
only that the object keeps its record; that the service ends is
`BluetoothServicesEnd`, which is violated (section 5).

LightAquaBlue tells success also where publishing gave no record (`AdvertiseNothing`,
`BBServiceAdvertiser.m:137`). What channel and handle `advertise` gets then is PyObjC's
to say; they are taken to be 0, so that the service is remembered by no handle.

### MacDiscovery

`op`, `on`, `todo`, `answer` are the lookup under way, `inquiry` and `queries` what
any lookup has started and not seen the end of, `cache` and `recent` what
IOBluetooth remembers of a device. Completions arrive in the event loop of whatever
lookup runs by then. `find_service` of `macos.py` ignores the UUID it is given.
The addresses an inquiry has found are octets under Python 3 (`formatdevaddr`,
`_macutil.py:68`), and what `withAddressString_` makes of them is not said anywhere: it may give the
device, none, or raise (`NoDevice`). With an address the user gave it may give
none, and the lookup raises.

`FoundIsCurrent` looks at when a device is read, and whether a query of this lookup has
succeeded for it by then (`fresh`, noted under the same condition as `answer`). What is offered,
which of it matches and the tuples made of it are in the model and read by no property.
One lookup is under way at a time, as in `MacSocket`.

Left out: `selectdevice`, `selectservice` (dialogs of the system), `finddevicename` and
`gethost...` (a question to IOBluetooth each).

### SdpData and MsbtServices

`Make` is `sdp_make_data_element`, `Parse` ... `ParseRecord` the parser, both
on sequences of octets, with the sizes the code writes: that of a string counts
characters where octets follow. Both functions of the code call themselves. What is
parsed may be any octets, so the parser is a recursive function of them (`ParseSeq`,
to which `Parse` goes for what is in a list); what is made is an element whose lists
are nested at most three deep in an attribute (`Nested3`, a bound), so that `Of3`
writes out the levels. `advertise_service` nests two deep. `raw` and `handle` are `_raw_sdp_record` and
`_sdp_handle`, `fds` the descriptors of the process: a second `close` closes whatever
has the descriptor by then. `Advertise` registers a record or fails, with the record
remembered in either case; `Collect` is the end of an object, of which the descriptor stays
open and the service registered, since the class has no `__del__`. `Objects` are all that are ever
made. `FindService` searches what is registered here or what a
peer offers (`Peers`: one has every type of element). Classes and profiles
of a record are taken to be lists, of pairs and of lists of pairs (a bound): of
another shape, `find_service` raises or gives what it makes of the octets.

Left out: text that is not UTF-8, elements whose size is no power of two, records
that end early, the rest of `_msbt.c`.

## 3. Runs

| Run | Shows | Bounds | Distinct states |
|---|---|---|---|
| `discoverer` | `CompletesOnce`, `NamesAreFresh`, `NoLostWakeup` and, under the select loop, `InquiryIsCompleted` | 2 devices, 2 inquiries, 2 responses, 1 foreign event, 1 power cycle, buffer of 2 events, 2 commands | 287,490 |
| `obex_server` | `NoStreamForgotten`, `StreamIsOfRequest`, `NoFalseSuccess`, `DelegateSeesRequest`, `EveryPacketAnswered` | 3 requests, 2 packets with a body in each | 17,598 |
| `obex_headers` | violated: the headers of an aborted Put are presented as those of the next (`BBBluetoothOBEXServer.h:176`) | 2 requests, 1 packet | - |
| `obex_client` | `NoneForgotten`, `AbortHitsItsRequest`, `PutSuccessIsWhole`, `AbortStopsRequest`, `RequestEnds` | 2 requests, 2 packets with a body in a Put | 63,715 |
| `obex_transfer` | `ServerMeetsItsClient` (`S!Spec`), `ClientMeetsItsServer` (`Spec` of `OBEXClient`), `PutArrives`, `StreamsEndTogether` | 2 requests, 2 packets with a body | 179,578 |
| `obex_calls` | `AnswerIsOwn`, `SentIsReceived`, `RunEnds`, `CallsEnd` | 5 requests, 2 packets in a Put, puts outside `sendfile` of `exact` files | 93,428 |
| `bt_socket` | `ClosesItsOwn`, `ServiceEndsWithSocket`, `SessionsAreAlive`, `TimeoutHolds` | 2 threads, 2 objects (symmetric), 2 descriptors, 2 sessions, 2 pieces in a `sendall`, 3 calls | 652,523 |
| `bluez_calls` | `AnswerIsCurrent`, `BindFindsPort`, `CallsEnd` | 2 programs, 4 calls, 2 ports, 1 port taken meanwhile | 351,168 |
| `mac_socket` | `NoLostWakeup`, `StreamsInOrder`, `WaitsEnd` | a server, 1 incoming and 1 outgoing channel, 2 data of the peers, 2 chunks in a send, 1 duplicate | 794,070 |
| `mac_advertising` | `PortsAreUnique`, `ServicesEndWithSockets`, `StopsItsOwn` | 3 addresses, 2 ports, 2 sockets at a time, 2 records ever (symmetric) | 742,748 |
| `mac_discovery` | `FoundIsCurrent`, `LookupsEnd` | 2 devices, 2 lookups, 1 change of what is offered | 396,742 |
| `msbt_services` | `AdvertisedIsRegistered`, `FoundAsAdvertised`, `FoundAsOffered` | 2 objects (symmetric), 2 descriptors, 2 records ever, 7 services, 3 peers | 339,615 |

Why the bounds are enough. In the discovery object every hazard needs two
inquiries (a stale event needs one to come from and one to meet), two responses
(one before and one after the change) and one disturbance from outside; the
buffer must be able to overflow, which two events do. In the server everything
kept between requests is in the handler, which one request leaves and the next
finds; a third shows that what the second left is no worse. Two packets make a
first, a middle and a last one. The client keeps a flag and the connection id
from one request to the next, which two requests show. Packets without a body are
not counted, so a Put may have more packets than the bound. The OBEX calls need
Connect, Put and Disconnect for one `sendfile`, and two more for what an interrupted
call leaves. A socket needs two
threads for every interleaving, a second object for a descriptor that is given
out again, a second session for one that replaces the first, and three calls to
prepare a state and have two calls meet in it (a listening socket is an initial
state); `dup` and the end of an object are not counted. Of four HCI calls two leave a
filter and a queue behind and two meet them. On macOS one channel of
each kind has every callback, two data can be reordered, and a call takes what the calls before it
have left; three addresses are a socket, its duplicate and one that is
used again, or two objects of `bluetooth` one of which has its wrapper; a query
that is given up in one lookup completes in the next. On Windows two descriptors
and two objects let one take the descriptor of another; the services and peers
(`MCMsbtServices`) have every type of element, a size of two octets, text that is
not ASCII and UUIDs that are valid for one check and not for the other.

Deadlock is not checked: the programs stop when their users do.

Fairness. The discovery object has no thread: what reads events is the user's
loop. `SelectLoop` is the loop of `examples/simple/asynchronous-inquiry.py`,
which reads until `inquiry_complete` was called, `ProcessInquiryLoop` is the loop
of `process_inquiry`. Neither has a `try`, so both end when `process_event` raises, and
`InquiryIsCompleted` says nothing of an inquiry during which it did. The adapter answers its commands and ends what it starts,
as the HCI prescribes; the user's calls are not fair. In the server the run loop
delivers the events that arrive (`WF` on `HandleSessionEvent`); the client is not
fair, nor is the channel. In the client the run loop delivers answers and the error
of a channel that is gone; the server takes what it is sent, and what a Get fetches
has an end (`SF` on `ServerEnds`: a server that may end a request again and again
does so once). In `OBEXTransfer` both run loops are fair, and a Get ends likewise.
In `OBEXCalls` both event loops take their events and each wait looks at what they
brought; nobody has to call. In `BluezCalls` a program goes on once it is in a call
and the adapter takes commands. In `MacSocket` what is pending is called back, the
timer of `waitfor` fires and a method that does not wait goes on; peers need not
send or close, and `WaitsEnd` speaks only of waits for what has come or will come.
In `MacDiscovery` an inquiry completes, since its length is limited; an SDP query
need not, only time passes.

## 4. Proofs

Every safety invariant and action property that a passing run checks is proved for
every value of the constants. The assumptions are those on
the constants, named in the modules, and where a theorem is of delegates or clients
of one kind only it says so in an `ASSUME`; nothing else is assumed. Each proof has
one inductive invariant, a conjunction of named parts, one lemma for each action or
kind of action, and lemmas that say what a step that touches only some variables
leaves true (`...Frame`). The type invariants, `InquiringHasSocket`,
`AbortFindsRequest` and `ToldOnce` are proved, and no run checks them again.

| Module | Theorems | Property |
|---|---|---|
| `BluezProofs`, of `DeviceDiscoverer` | `InquiryCompletesOnce`, `NamesStayFresh`, `SocketWhileInquiring`, `NeverWaitsInVain` | `CompletesOnce`, `NamesAreFresh`, `InquiringHasSocket`, `NoLostWakeup` |
| `OBEXServerProofs` | `StreamsAreHandedBack`, `StreamsAreNotMixed`, `SuccessIsTrue`, `DelegateSeesItsRequest`, `AbortsFindTheirRequest` | `NoStreamForgotten`, `StreamIsOfRequest`, `NoFalseSuccess`, `DelegateSeesRequest`, `AbortFindsRequest` |
| `OBEXClientProofs` | `OutcomesStand`, `RequestsAreRemembered`, `AbortsHitTheirRequest`, `AbortsStopTheirRequest`, `PutsAreWhole` | `ToldOnce`, `NoneForgotten`, `AbortHitsItsRequest`, `AbortStopsRequest`, `PutSuccessIsWhole` |
| `OBEXClientProofs`, of `OBEXTransfer` | `ClientIsThePeer`, `ServerIsThePeer`, `PutsArrive`, `StreamsEndWithTheirRequests` | `ServerMeetsItsClient`, `ClientMeetsItsServer`, `PutArrives`, `StreamsEndTogether` |
| `OBEXCallsProofs` | `OwnAnswers`, `WhatIsSentIsReceived` | `AnswerIsOwn`, `SentIsReceived` |
| `BtSocketProofs` | `OwnDescriptors`, `ServicesEnd`, `LiveSessions`, `TimeoutsHold` | `ClosesItsOwn`, `ServiceEndsWithSocket`, `SessionsAreAlive`, `TimeoutHolds` |
| `BluezProofs`, of `BluezCalls` | `AnswersAreCurrent`, `BindsFindPorts` | `AnswerIsCurrent`, `BindFindsPort` |
| `MacSocketProofs` | `NoWakeupIsLost`, `StreamsAreInOrder` | `NoLostWakeup`, `StreamsInOrder` |
| `LightblueProofs`, of `MacAdvertising` | `UniquePorts`, `ServicesEnd`, `StopsOnlyItsOwn` | `PortsAreUnique`, `ServicesEndWithSockets`, `StopsItsOwn` |
| `LightblueProofs`, of `MacDiscovery` | `LookupsAreCurrent` | `FoundIsCurrent` |
| `MsbtServicesProofs` | `AdvertisedServicesAreRegistered`, `ServicesAreFoundAsAdvertised`, `PeersAreUnderstood` | `AdvertisedIsRegistered`, `FoundAsAdvertised`, `FoundAsOffered` |
| `MsbtServicesProofs`, of `SdpData` | `ParseSeqIs`, `ElementsAreReadAsMade`, `RecordsAreReadAsMade` | - |

### The discovery object

`CompletesOnce`, `NamesAreFresh` and `InquiringHasSocket` are made inductive with
what ties the flags to the socket (an idle object without a socket has no names
to find, the counter of completions belongs to the open socket).
`NoLostWakeup` is inductive once it is split by where the event that will end the
wait is: a command that was sent, an adapter at work, an event in the buffer.

### OBEX

The server: `TypeOK` together with the client's own invariant (`PeerOK`), then
`StreamOK` (a stream is open exactly while the handler holds it, and the handler's
request is the client's), `PutOK` (the packets written are those given, except
for one under way or one that failed) and `AbortOK` (while a request is under way
the handler is there unless an error was reported; for delegates with
`SetsCodeLate` = FALSE). `SuccessIsTrue` is of a stream that takes what it is given or
reports an error; a Put whose stream took a part (`cut`) it excepts. `DelegateSeesRequest` holds until the client aborts. Up to
then the handler is of the present request, in its class and its headers, since
each answer that ends a request releases it (`SeesOK`); an Abort that leaves a handler
behind is the disagreement of `obex_headers`.

The client: `TypeOK` together with the numbering of the requests (`NumbersOK`:
nothing is known of a request not yet begun), the one way in which outcomes change
(`OutcomeStep`), `AbortOK` (the mark is set only while a request that an abort was
asked for is current), and `PutOK` (the packet under way is the last one exactly
when the stream has been read to its end or gave too little at once, and Success has
only been answered to a last packet). All hold for every delegate and every server the module allows;
`NoneForgotten` says so for delegates that begin no request in a callback.

The composition: `OBEXTransfer` has no environment, each end is the other's. That
the client meets what the server's specification says of clients, and the reverse,
cannot be shown one after the other: a packet is what the server expects because the
answer before it was what the client expects. `TransferMeets` therefore shows of each
step of `TransferNext` that it is a step, or a stutter, of both specifications, under
one invariant (`TransferInv`) which contains the invariants of both ends, among them
those of the server under the mapping (`SP`, the instance of `OBEXServerProofs` with
`peer`), and three parts that relate the ends: `ChannelOK` (nothing is under way on a
channel that is gone, and requests fail on such a channel only), `RequestOK` (packets
and responses are of the current request, Continue answers one that can go on) and
`EndsOK` (a final response leaves no stream open, nor does the end that is told of it,
with `PutArrives` and `StreamsEndTogether`). The four theorems are of clients that
do as `macos/_obex.py` does (`~GivesUp`, `~RequestsInCallbacks`), as the run is: one
that gives a request up without an Abort is none the server's specification allows.

The Python calls: `RequestInv` (the packet on the channel is of the request the client
is at, which is the last one made, and of the call that waits), `FileInv` (the parts of
a Put so far are the last ones in the receiver's file), `AnswersInv` (OK to a Put says
that the file is received), `ScriptInv` (what `sendfile` is at is what it calls). That a
call which was interrupted leaves its request under way is why the answer needs the
number of its request to be seen as another's. `FileInv` and `WhatIsSentIsReceived` are of
`exact` files; for the others the receiver's file may hold parts that are cut, which
`Whole` tells apart.

### Linux sockets and HCI calls

`BtSocketProofs`: `CallsInv` says where a thread may be in which method. `FdsInv` gives
every descriptor of a file one owner, the object whose field it is or the call of
`close` that has taken it from there; from this `ClosesItsOwn`. `OnceInv` says that two
calls that configure a socket at the same time are noted in `overlapped`, `OwnersInv`
that sessions are those of the objects they are kept in, and `SessionsInv` follows one
session through `sdp_advertise_service` and `sdp_stop_advertising` for the sockets not
noted. `TimeoutsInv`: the file of a socket with a timeout does not block unless its
timeout is being set, and a call that is `steady` has none being set.

`BluezProofs`, of the calls: a socket lets the answers to the call it is used for pass and nothing
between two calls (`FilterOK`); a program that heard no other has sent one command or
has its answer in the queue, and this only where it waits for it (`QueueOK`); a call that
reads knows the value its register has now (`HadOK`, `AnswerOK`); a search for a port has
passed only ports that were taken at some time of it (`PortOK`).

### macOS sockets, services and lookups

`MacSocketProofs`: `CallInv` (what a call is for and how far it is), `SocketInv` (the
socket that is open is the one called back), `QueueInv` (a channel is opened once and
queued once, before it has a socket) and `StreamInv`: what was read, what is in the buffer
and what the events still to be called back carry follow one another without a gap.

`LightblueProofs`, of the services: which object a wrapper is of (`WrappersOK`), where the
port of an open socket is noted (`BoundOK`), that a handle is kept for one object
(`KeptOnce`). `StopsItsOwn` is shown action by action: a record goes only when the object
that keeps its handle is stopped or closed. Of the lookups: an inquiry
of the present lookup is under way only while it is waited for or was given up, so that what
ends a wait for a query is that query's own completion (`LookupOK`), of a device whose
services were just read. `ServicesEnd` is of `lightblue`, and of `bluetooth` only where it says that
the object keeps its record.

### Windows services and SDP data

`MsbtServicesProofs` has three parts. First, the parser ends: a recursive function of
octets is a `CHOOSE`, which says nothing until something is shown to satisfy its
equation. `ParseSeqIs` shows it. The element read first takes at least one octet, so
the equation asks for `ParseSeq` only at fewer octets (`BodyLocal`); for each bound on
the number of octets some function satisfies the equation below it (`FixedExists`), two
such functions agree where both do (`FixedUnique`), and together they make one. Both are
inductions over a number, done on the set of numbers for which the statement holds
(`LeastNumber`, `SetInduction`), since the library's theorems that take the statement as
a parameter cannot be used here.

Second, what is made is read as it was made. `Made(e, codes, v)` says that from
octets made of `e`, whatever follows them, the parser takes all of those and gives the
type of `e` and the value `v`. It is shown of the octets of a size, of each type of
element that is no list, of a list from its elements (an induction over their number, with
`ParseSeqIs` at each), then of lists of lists of lists (`ElementsAreReadAsMade`) and of
records (`RecordsAreReadAsMade`). The statements take ASCII strings for what this host makes
and any strings for what peers offer, for the size a peer writes is that of the octets.
`PeersAreUnderstood` follows at once, with what is and is not lost of an integer of
128 bits (`WideIsExact`).

Third, the states. `HandlesInv` adds to `AdvertisedIsRegistered` that no two objects
have one handle, those that were collected included, and that no handle exceeds the number issued: without the first,
stopping one service could take away another's record, without the second a new
handle could be one in use. `ToldInv` says of each record that it was made of the arguments it
was advertised with and some port, and of what was found that `find_service` made it of
some records; with it, `ServicesAreFoundAsAdvertised` is `RecordsAreReadAsMade` for
the attributes of a service, whose identifiers differ (`Pairs`). TLC checked both
invariants on the run's constants before they were proved.

An attempt to prove the earlier form of `FoundAsAdvertised`, that a search raises where a
service has a name that is not ASCII, failed for a good reason: what the size cuts off
such a name may happen to read as further attributes, and then the search returns
a name cut short. `MCServices` now has a service with such a name.

### Only model-checked

The liveness properties (`InquiryIsCompleted`, `EveryPacketAnswered`, `RequestEnds`,
`RunEnds`, `CallsEnd`, `WaitsEnd`, `LookupsEnd`), since TLAPS does not handle fairness.
The two refinements of `obex_transfer` are of the specifications without fairness, in
the run as in the theorems. Nesting is proved to depth three, the model's bound; an induction over the depth would be one over data.

## 5. Where the documentation says otherwise

`obex_headers` is the run of one disagreement. Others are stated at the end of the
modules and are no part of a run; each is violated when its name is added to a
configuration with the constants given here.

| Property | Says, and where | What the code does |
|---|---|---|
| `DeviceDiscoverer!CompletedMeansAdapterDone` | "Called when an inquiry started by find_devices has completed" (`bluez.py:689`) | the command-complete of a cancel, or of another process, ends the next inquiry (`:563`) |
| `DeviceDiscoverer!CancelStillCompletes` | "inquiry_complete will still be called" (`bluez.py:462`) | not under `process_inquiry`, which stops first (`ProcessInquirySpec`) |
| `DeviceDiscoverer!ProcessInquiryReturns` | "until the device inquiry has completed" (`bluez.py:481`) | with name lookup the wait never ends (`:633`; `ProcessInquirySpec`) |
| `OBEXServer!GetNoticeMeansDone` | `BBBluetoothOBEXServer.h:245` | a delegate that sets a code late is told of the end of a Get that goes on (`SetsCodeLate = TRUE`) |
| `OBEXClient!DelegateIsInformed` | `BBBluetoothOBEXClient.h:68` | a request begun in the callback that ends another is forgotten (`RequestsInCallbacks = TRUE`) |
| `OBEXClient!SuccessSendsTheStream` | "will send the data from the given <inputStream>" (`BBBluetoothOBEXClient.h:91`) | a read that is short before the end of the stream ends the Put, with success (`BBOBEXRequest.m:253`) |
| `OBEXClient!GetSuccessIsTrue` | `BBBluetoothOBEXClient.h:280` | a Get whose data could not be written ends with success |
| `OBEXCalls!SentIsTheFile` | "containing the data to be sent" (`obex.py:44`) | of text with characters of several octets those that exceed the length asked for are dropped (`_macutil.py:213`), and `sendfile` returns (`MaxRequests = 3`) |
| `OBEXCalls!RecvFileReceives` (a property) | "to which the received data will be written" (`obex.py:68`) | `recvfile` raises before it listens (`_obex.py:570`, `NoFileType = TRUE`) |
| `OBEXCalls!ReturnedHasFile` | "only raise OBEXError if file was not received" (`_obex.py:489`) | a failed write counts as a file received |
| `MacAdvertising!BluetoothServicesEnd` | "must be a bound, listening socket" (`bluetooth/__init__.py:83`), to stop "right before you close socket" (`:147`) | stopping raises (`bluetooth/macos.py:88`), and closing stops what another object advertised (`_bluetoothsockets.py:193`) |
| `MsbtServices!NamedServicesAreFound` | results match all criteria (`bluetooth/__init__.py:171`) | a search by name compares octets with text and finds nothing (`msbt.py:288`) |

Found while modelling, and in the models as outcomes or left out as said above:
under Python 3 `find_devices`, the calls for flush timeouts, `settimeout(None)` on
macOS, `removeService` with an SDK from 10.5 on and `bluetooth.stop_advertising`
always raise, as do `recvfile` (`types.FileType`) and `sendfile` of a filename, in its first
read (`encode` of octets); a name that arrives in `process_event` raises, and the example's
loop ends with it; `sendfile` of an object without a name connects and then raises (`headers`
is unbound), and a Time header in a response raises; addresses that an inquiry found
go to IOBluetooth as octets (`_macutil.py:68`, `_lightblue.py:73`); a `BBServiceAdvertiser` that
published nothing reports success; short writes of a receiver's stream and short reads
of a sender's are taken for whole; `recvfile`, were its first check mended, leaves its
connection open where it raises (`_obex.py:585`); `connect()` of an OBEX client that is connected fails and closes
the channel that was working; a client interrupted in a call is busy until the event loop
runs again; `find_service` of this host on Windows raises, or gives names cut short, while any
service has a name that is not ASCII, and gives the classes of a service that has none under another key
(`msbt.py:255`); there `close` called twice closes the descriptor of another file
(`msbt.py:105`).

## 6. Plan

1. A client in `OBEXTransfer` that gives requests up without an Abort, which the any-client
   of `OBEXServer` has to allow first.
2. `SDPSession` of `btsdp.c`; `discover_devices` and `find_service` of `bluez.py`,
   which share its socket.
3. Pure operators for the header sets of OBEX, and what is made of headers read back.

Not modelled, and why: wrappers of single HCI, Winsock or IOBluetooth calls
(`_msbt.c`, `hci_*` functions of `btmodule.c`, `BBLocalDevice.m`) keep no state;
`ble.py` is a re-export; dialogs of macOS are the system's; build files and the
other examples have no logic of the program.
