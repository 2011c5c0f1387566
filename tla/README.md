# Specifications of libidevice

libidevice talks to the instruments service of an iOS device. Its core is the
DTX stack: a program calls a `DTXConnection`, three worker threads carry
`DTXMessage`s to the device and back, and channels and reply handlers decide who
gets what. This directory holds TLA+ modules of that stack, TLC configurations
that check them on small instances, and proofs for every value of the constants.
Paths below are those of the repository; `dtxconnection.cpp` stands for
`src/instrument/dtxconnection.cpp` and so on.

## The system

| Component | State | Operations | Interacts through |
|---|---|---|---|
| `DTXConnection`, messaging | `next_msg_identifier_`, `next_channel_code_` (atomic), `_handlers_by_identifier_`, `channels_by_code_` (no lock), promises of synchronous calls | `SendMessageAsync`, `SendMessageSync`, `MakeChannelWithIdentifier`, `CancelChannel`, `RouteMessage`, `ReplyMessage` | send queue, handlers invoked on the parsing thread |
| `DTXConnection`, threads | three `std::thread` pointers with a running flag each | `Connect`, `Disconnect`, `SendThread`, `ReceiveThread`, `ParsingThread` | flags, `join`, both queues, the transport |
| `DTXChannel` | code, message handler, `canceled_` | `SendMessageSync`/`Async`, `SetMessageHandler`, `Cancel` | the connection |
| `BlockingQueue<T>` | queue, mutex, condition variable | `Push`, `Take`, `WaitToTake`, `Empty`, `Clear` | shared by the program and the threads |
| `DTXMessage`, `DTXPrimitiveArray` | type, payload object and buffer, auxiliary values, objects to be archived | factories, `AppendAuxiliary`, `SetPayload...`, `SerializedLength`, `SerializeTo`, `Deserialize` | built by the program, serialized by the send thread |
| `DTXMessageTransmitter` | locals of one call: fragment buffer, offsets, header | `TransmitMessage` | the serializer callback, the transport |
| `BufferedDTXTransport` | the 8 KB buffer of the send thread | `Send`, `Flush` | `IDTXTransport::Send` |
| `DTXTransport`, `InstrumentService` | the client pointer | `Connect`, `Disconnect`, `IsConnected`, `Send`, `ReceiveWithTimeout` | libimobiledevice |
| `DTXMessageParser` | parsing buffer, fragment buffers by identifier, queue of messages | `ParseIncomingBytes`, `PopAllParsedMessages` | packets from the receive thread |
| `BufferMemory`, `ByteBuffer` | a block with size and capacity; a vector | `Allocate`, `SetSize`; `Append`, `Resize` | the parser; the parser and the transmitter |
| command line tools | arguments and flags; a list of deferred functions | `decode`; `get_value`, `set_developer_mode`, `instruments` | dump files, the parser; the services and a connection |
| `LockdownService`, `AMFIService` | a client pointer | `Connect`, `Disconnect`, `GetValue`, `SetDeveloperMode` | the tools, libimobiledevice |
| the rest | kperf configuration, `DebugProxyTransport` | straight-line code | not modelled, see below |

A message goes program -> `send_queue_` -> transmitter -> buffered transport ->
device, and back device -> packets -> `receive_queue_` -> parser -> `RouteMessage`
-> handler of the request, handler of the channel, or nowhere.

What is hard about it: the request is on its way before its handler is in the
map; two maps are shared without a lock; the parser cuts messages out of packets
that end anywhere; both sides number messages on their own; `Disconnect` joins
threads that call `Disconnect` themselves. `PROJECT.json` lists these hazards at
their lines with the properties that cover them.

What makes each component correct: identifiers are unique and every reply finds
its own caller (messaging); no fault, leak or leftover whichever way sessions and
errors follow each other (threads); first in, first out, nobody sleeps on a full
queue (queue); what the device reads is what the program appended (message,
transmitter), and its heap blocks have one owner each; no byte lost, twice or out
of order (transport); every message of the stream once, in order, whole (parser);
the files that were named, in the order of the conversations, and everything
released in a safe order from every early return (tools).

## Modules

| Module | Models | A step is |
|---|---|---|
| `DTXMessaging` | messaging of `DTXConnection`, `DTXChannel`, the device | one access to a counter, the queue, a map or a promise |
| `DTXCalls` | what the connection promises to the program, with no threads, maps or identifiers: the abstract specification of `DTXMessaging` | sending, answering, invoking, returning |
| `DTXLifecycle` | `Connect`, `Disconnect`, the loops of the threads | one access to a flag, a thread object, a queue or the transport |
| `DTXSessions` | extends `DTXMessaging`: another thread disconnects and connects while the callers send and wait | a step of messaging, or a stage of `Disconnect` |
| `BlockingQueue`, `FifoQueue` | the queue; the abstract queue it implements | a lock, an unlock, a wait, a wake-up, reading and removing the front |
| `DTXMessageParser` | the parser over a stream of cells, in a connection that may be cut and made again | one turn of the parsing loop, or a new session |
| `BufferMemory` | the block under the parser's buffer, with `malloc` and `realloc` that fail | an allocation, a copy, a shift |
| `DTXMessage` | building, archiving, serializing and reading one message | operators and actions, used by `DTXSending` |
| `DTXMessageMemory` | who owns and frees the heap blocks of messages, arrays and values | one operation of the program or of the send thread |
| `DTXMessageTransmitter` | `TransmitMessage` | one serializer callback or one turn of its loop |
| `DTXSending` | composes `DTXMessage` and `DTXMessageTransmitter`: build, send, change, send again | as above |
| `FragmentCount` | `FragmentsForLength` with floats of any width | operators |
| `Sums` | the sum of the first numbers of a list, for lengths and counts | operators, used by `DTXMessage` and `DTXMessageTransmitter` |
| `BufferedDTXTransport` | from the send queue through the 8 KB buffer to the device | at most one call of the transport |
| `DecodeTool` | `parse_args`, the flags, the `decode` command | an argument, a chunk of a file, a message |
| `DeviceTools` | extends `DecodeTool` by the three tools that talk to a device, with the services they use; `main` chooses among them | a call, an early return, a deferred function |
| `*_proofs` | theorems about the module of that name; `DTXMessaging_proofs` also has those about `DTXSessions`, `DTXSending_proofs` those about `DTXMessage` and `DTXMessageTransmitter`, `DeviceTools_proofs` those about `DecodeTool`, and `Utils_proofs` those about `BlockingQueue` and `BufferMemory` | |
| `MC*` | sets and messages for TLC | |

How the models correspond to the code:

* **DTXMessaging.** `pc[c]` is the place of caller `c` in a call: `fetch`
  (`fetch_add`), `push`, `insert`, `wait`, and `open`/`close` for the channel map.
  `ppc` is the same for the parsing thread inside `RouteMessage` and
  `ReplyMessage`. The handler map is a set of entries with their key; the promise
  of a call is its ticket in `invoked`. `RouteMessage` erases by the iterator it
  found, also after a callback has inserted into the map: an insert may rehash and
  invalidate it, but libstdc++ and libc++ erase by its node, which stays, and so do
  the models. `stale` are messages the parser will
  return again (see the parser). The device answers requests in any order, and
  sends messages of its own under identifiers it chooses. Callbacks run on the
  parsing thread: it is a thread that sends like the others while `ppc` is
  `callback` or `handler`, with the operations of `CallbackOps`.
* **DTXCalls.** The refinement maps the tickets issued to `sent`, the tickets of
  threads at `wait` to `waiting`; `GivesUp` is `LongWait`.
* **DTXSessions.** `stage` is how far `Disconnect` has come: the threads have ended
  one by one (`silent`, `deaf`, `joined`), the queues are `cleared`, the transport
  is `closed`. Threads end between two turns; how, is `DTXLifecycle`. `Connect`
  changes nothing but `stage`: handlers, counters and the parser are as they were.
* **DTXLifecycle.** `step[c]` and `subject[c]` are the place of a caller of
  `Connect`/`Disconnect` and the thread it is dealing with; callers are the
  program, the send thread and the parsing thread. `at[t]` is the place of worker
  `t` in its loop. `client_` is 0 or the number of the session. `fault` records
  `std::terminate` (joining oneself, replacing a running thread) or undefined
  behaviour (a null thread, a client freed under its user). A worker is `stuck` when
  the callback it runs waits for its own thread, when `service_send` does not return,
  or when the transmitter never comes out of its loop.
* **BlockingQueue.** `roles` gives each thread the operations it uses; `pc` is
  `wait` while it is in the condition variable's wait set, `relock` after it was
  woken. `Take` reads and removes the front in two steps.
* **DTXMessageParser.** The stream is a sequence of cells that know their
  message, fragment and place; what the code reads from a header is read from the
  cell. A fragment with a wrong magic is what the loop sees when it stands at a
  cell that begins no header. `Reconnect` ends a session between two packets and
  begins another one with the same parser; `torn` remembers that it did so inside
  a message.
* **BufferMemory.** A cell of the block holds the number of the byte of the stream
  it was filled with; `ptr` is what `Allocate` returned. A failed `realloc` loses
  the block and leaves `size_` and `capacity_`, as the code does.
* **DTXMessage, DTXMessageTransmitter, DTXSending.** A cell is 4 bytes. Archives
  of nskeyedarchiver are opaque, non-empty and different for different objects.
  The transmitter works on byte numbers, `Junk` for a byte behind the end of a
  chunk; `DTXSending` puts the cells of the message in their place and reads the
  result with `Deserialize`. `FragmentCount` takes up what these modules leave
  exact: a float whose mantissa is below `Mantissa`, rounded to nearest even.
* **DTXMessageMemory.** The heap maps blocks to `unused`, `live` and `freed`; no
  block is given out twice, so that a use after free shows. Several calls of
  `malloc` or `free` in a row are one function of the heap (`MallocAll`,
  `FreeAll`); the order in which the pending objects are archived is a bijection
  between their places and the new blocks. `message.holders` are the threads that
  hold the `shared_ptr`. `arguments` maps the places of the current list to what
  the program gave to them, `stale` is whether a list was replaced while objects
  of it were pending, `faithful` whether every list written was the current one,
  each value at its place.
* **BufferedDTXTransport.** Messages are those of one fragment. The transport
  delivers all the bytes of a call, or fails after some of them.
* **DecodeTool.** A word is a text or a flag; a file is a sequence of chunks with
  the messages that the parser finds in each, the last of which it may reject.
* **DeviceTools.** `deferred` is the list of `defer`s, `live` what was created or
  opened, the list of devices included. A subcommand of instruments is the number of
  its calls, what it does with a response, and what follows. `WorkerFails` and
  `Terminate` stand for an error of the send or the parsing thread, which ends the
  tool wherever it is; how, is `DTXLifecycle`.

History variables do not influence what the models do: `issued`, `invoked`,
`answered`, `seen` (messaging); `lost` (sessions); `sessions`, `buffers`,
`failures`, `fault` (lifecycle; the models stop at a fault as the program does);
`delivered` (queue, parser), `sent`, `torn`, `replayed` (parser); `arguments`,
`payload`, `late` (message); `refused` (transmitter; it bounds the refusals too);
`handed`, `taken`, `failed` (transport); `received`, `wild` (buffer memory);
`arguments`, `stale`, `faithful`, `overwritten`, `archives` (message memory).

## Runs

| Run | Instance | Shows |
|---|---|---|
| `messaging_race` | 2 callers, 2 requests, 1 device message, racing maps, prompt device, expiring waits | identifiers grow and follow those of the device; a reply never reaches a foreign handler |
| `messaging_service` | 2 callers, 2 requests, 1 channel, 1 device message on a negative code; callbacks send without waiting; maps do not race, the device is not prompt | each handler runs once, for its reply, while its caller waits, and what a callback inserts survives; waiting calls are served and return; channel messages are handled, cancelled channels stay quiet; a reply goes out for each message that expects one; refinement of `DTXCalls` with its fairness |
| `messaging_cancel` | make and cancel one channel, prompt device | **violated**: the reply overtakes the handler and `Cancel` blocks |
| `sessions` | 2 callers, 2 synchronous calls, 1 device message, 2 sessions | handlers left behind stay quiet, own replies in every session, lost requests stay lost, only `Disconnect` strands a caller, and a call returns while its session lasts unless an earlier `Disconnect` lost it |
| `queue_all` | 4 threads in two assignments of roles, 2 elements | no lost wake-up, refinement of `FifoQueue`, what is pushed is taken |
| `parser` | 3 messages of 1, 2 and 2 pieces, two with the same identifier, header 2 cells, packets up to 5, 2 sessions | messages in order, whole, none mixed with another, or kept back unless behind an unfinished one; a session that ends between messages leaves the parser at the beginning of a fragment |
| `buffer_memory` | 9 bytes in packets up to 5, blocks in steps of 4, 1 failure | what is not consumed is there, in order, until an allocation fails |
| `sending` | up to 2 arguments out of 5 values and an object, a long payload, 2 transmissions, fragments of 12 cells, 1 refusal; `FragmentsForLength` with floats of 6 bits, as assumptions | headers tell the truth, nothing twice, the transmission ends unless a chunk runs over its fragment, the device reads what was appended; the count of fragments is exact up to the mantissa and not beyond it |
| `message_memory` | 2 objects, 3 blocks, lists of up to 2 values | no double free, no use after free, one owner, two known leaks, the current list is sent unless one was replaced with objects pending |
| `transport` | 2 messages, chunks of 1 to 6 bytes, a buffer of 4 | nothing overtakes, messages are complete, order survives failures, everything is sent |
| `lifecycle` | 2 sessions, 1 element in each queue | no fault without an error of the send or parsing thread, and none that does not come of joining oneself or of two `Disconnect`s at once; no leak, sessions do not mix, `Disconnect` returns unless a thread is stuck |
| `tools` | every command line of `decode` of up to 5 words, 2 files; every tool and subcommand with up to 2 words and a flag, debug and release | files named behind no flag are decoded, nothing is lost, conversations in order, a limit on one file keeps the first; released in a safe order from every return, all but plists and a list of no devices; what aborts a tool is known; it ends or loops |

Related invariants of one module are conjunctions with named parts: `ParserInv`,
`SendingInv`, `LifecycleInv`, `MemoryInv`, `SessionsInv`, `DeviceInv` and
`BufferInv` contain the type invariant of their module, `WireInv`, `DecodeInv`
and `NobodyIsForgotten` join two or more statements about the same state. The
types of `DTXMessaging`, `BlockingQueue` and `BufferedDTXTransport` are not
checked by a run of their own: they are proved.

Why the bounds are enough. Two callers and two requests are the smallest
instance in which a caller overlaps another in every window of
`SendMessageAsync`, an entry of the map can be taken for another, and an old
handler is left behind a new one; one device message is enough to collide with
either. A second request is also what a callback sends while the answer to the
first is in hand. Four threads give the queue two producers, a blocking consumer
and a polling one; two elements make an order. The parser's packets of up to 5
cells hold a fragment of every kind, the end of one and the beginning of the
next, or a header cut in two; three messages allow two in progress and a reused
identifier. Fragments of 12 cells make the messages of `sending` one, two or
three fragments long. The transport's chunks fill the buffer exactly, run over
it, and pass it by. Two sessions show what one leaves to the next: with two
calls, one is lost in the first session and the other one made in the second.
Three blocks are a payload, an argument and the program's own buffer at once.
Lengths up to 65 pass one above the mantissa of 6 bits, with every fragment size
up to 64: all quotients and both roundings occur; the code's floats have 24 bits
and the same rule of rounding, and what is exact here is proved for them too. Five
words are the command, two files and a flag with its value. Deadlock is not
checked: every model stops when its bounded work is done, which is what the
liveness properties are for.

The switches of `DTXMessaging` name its assumptions. `MapsRace` lets two
overlapping accesses to a map lose an insert, an erase or a lookup: the code's
data race, reduced to outcomes a hash map produces short of a crash.
`PromptDevice` lets a reply arrive before `SendMessageAsync` has inserted the
handler. `LongWait` lets a wait of 2^32-1 ms (49.7 days) run out.
`messaging_race` has all three, and its properties hold with them;
`messaging_service` and `sessions` have none, because with any of them a caller
may wait for ever, which `messaging_cancel` shows for the second.

Fairness. `WF` of a worker thread: it is scheduled, and the waits of its loop have a
timeout (`WaitToTake`, `ReceiveWithTimeout`). What may not return inside a turn, a
callback, `service_send` (instrument.cpp:69) and the loop of the transmitter, may leave
the thread at `stuck`, where nothing is assumed of it. `WF` of a call that has begun. `WF`
of the device's answers where a property is about answered calls. `SF` of
acquiring the queue's mutex: mutexes are not fair, yet a thread that asks again and
again gets one some day. In `DTXSessions` a `Disconnect` that has begun goes on, and
threads and device are fair only in the stages in which they run. `WF` of a tool's
next step, as its device answers until it falls silent. No program is ever assumed
to call anything, to disconnect or to connect.

## What the runs exclude

* `OwnReplyOnly` and its neighbours hold while the device does not use the
  identifier of a pending request on the same channel for a message of its own:
  its messages travel on negative codes in `messaging_service`.
  `RepliesReachTheirCaller` is the part that holds anyway.
* Callbacks of `messaging_service` do not wait: one that does blocks the only
  thread that could route its answer (see Divergences).
* In `sessions` the second thread disconnects while the parsing thread has no
  message in hand, as `join` waits for it; no thread meets an error there.
* `MessagesInOrder` promises each message once until the parser has left a parsed
  buffer (`replayed`), and the order of first deliveries afterwards.
  `OwnPiecesOnly` holds while no two fragmented messages have one identifier:
  fragments that are parsed a second time are added to whatever message is open
  under their identifier.
* `CleanCutKeepsPlace` needs sessions that end between messages (`~torn`): no
  message has been received in part, not even its first header. A parser that has
  kept a buffer keeps its place only among single messages (`KeepsItsPlace`).
* `EverythingIsDelivered` does not speak of what stands behind the first fragment
  of a message that the device has begun and not finished (`KeptBack`).
* `HeadersMatchData` and `ArgumentsArrive` exclude chunks that run over their
  fragment (`RunsOver`) and refusals; `ArgumentsArrive` also excludes empty strings
  and buffers, and a payload object set over a payload buffer: the code loses the
  content in each of these cases (see Divergences). `NothingIsRepeated` excludes
  none of them.
* `message_memory` has a program that leaves a queued message alone and keeps a
  buffer it has lent until the message is gone. `ListIsSent` is promised until the
  program replaces a list while objects of it are pending (`stale`).
* `BufferInv` promises the bytes until an allocation fails.
* `DTXLifecycle` lets a connection attempt fail with no client:
  `service_client_factory_start_service` is taken to leave the pointer alone
  unless the constructor has set it.
* `NoFault` and `ThreadsSeeTheirTransport` hold while neither the send nor the
  parsing thread has failed, `ClosedMeansQuiet` and `BuffersHaveAnOwner` while not
  both have (`OneFailsAtMost`) and the program is not about to be terminated
  (`Doomed`). Two workers that disconnect do fault in the code: `FaultsHaveACause`
  says, with no condition, that only they, a worker that joins itself, or a user who
  connects or disconnects meanwhile do.
* `DisconnectReturns` may be met by the end of the program, and has three exceptions:
  two failing workers that join each other, a transmission that does not return, and
  a callback that does not.
* `TransmissionEnds` promises the end to a message of which no chunk runs over its
  fragment. One that does may be followed by headers without data for ever
  (`SendsEmptyFragments`), which `MaxFragments` cuts off: it ends or comes there.
* `RepliesGoOut` does not say that the device can tell which message a reply is for:
  its identifier is a fresh one (see Divergences).
* `FreeWordsAreDecoded` is about command lines with no word right behind a flag that
  takes no value (`IsPlain`), `LimitKeepsTheFirst` about one file: on the others the
  code does not do what the documentation says (see Divergences).
* `ReturnedMeansReleased` excepts the plists of an answer and a list of no devices,
  which leak.

## Proofs

TLAPS proves, for all constants that satisfy the named assumptions:

| Module | Theorem | Statement |
|---|---|---|
| `DTXMessaging_proofs` | `TypeCorrect` | `Spec => []TypeOK` |
| | `IdentifiersNeverReused` | `Spec => []IdentifiersIncrease` |
| | `NewIdentifiersAreFresh` | `Spec => NewIdentifiersFollowSeen` |
| | `RepliesAreRouted` | `Spec => []RepliesReachTheirCaller` |
| | `HandlersGetTheirReplies` | `NegativeCodesOnly => (Spec => []OwnReplyOnly)` |
| | `ConnectionImplementsCalls` | `NegativeCodesOnly => (Spec => ImplementsCalls)` |
| | `HandlersRunOnce` | `~MapsRace => (Spec => []HandlerRunsOnce)` |
| | `PromisesOutliveTheirHandlers` | `~MapsRace /\ ~LongWait => (Spec => []PromiseAlive)` |
| | `NobodyIsEverForgotten` | `~MapsRace /\ ~PromptDevice /\ NegativeCodesOnly => (Spec => []NobodyIsForgotten)` |
| | `CanceledStayQuiet` | `~MapsRace => (Spec => CanceledChannelsStayQuiet)` |
| | `OpenChannelsAreServed` | `~MapsRace => (Spec => ChannelMessagesAreHandled)` |
| | `SessionsStayConsistent` | `NegativeCodesOnly => (SessionsSpec => []SessionsInv)` |
| | `OnlyADisconnectStrands` | `~MapsRace /\ ~PromptDevice => (SessionsSpec /\ []OwnReplyOnly => []OnlyDisconnectStrands)` |
| `DTXLifecycle_proofs` | `LifecycleIsConsistent` | `Spec => []LifecycleInv` |
| | `NothingGoesWrong` | `Spec => []NoFault` |
| | `SessionsStayApart` | `Spec => []SessionsDoNotMix` |
| | `FaultsHaveTheirCause` | `Spec => FaultsHaveACause` |
| `Utils_proofs` | `TypeCorrect` | `Spec => []TypeOK` |
| | `WakeupsAreNotLost` | `Spec => []NoLostWakeup` |
| | `QueueIsFifo` | `Spec => ImplementsFifo` |
| | `ReadyMeansReady` | `Spec => []ReadyToTake` |
| | `BufferTypeCorrect` | `BufferSpec => []BufferTypeOK` |
| | `TailIsKept` | `BufferSpec => []TailOfTheStream` |
| | `NothingGoesWild` | `BufferSpec => []OnlyFailuresGoWild` |
| | `BufferIsSound` | `BufferSpec => []BufferInv` |
| `DTXSending_proofs` | `SendingTypes` | `Spec => []TypeOK` |
| | `HeadersCorrect` | `Spec => []SendingInv` |
| | `NothingRepeated` | `Spec => []NothingIsRepeated` |
| | `ArgumentsReachTheDevice` | `Spec => []ArgumentsArrive` |
| | `FloatsCountFragments` | `EvenMantissa`: up to the mantissa, the float count of fragments is the exact one |
| | `PiecesAreCounted` | `EvenMantissa /\ fragment_length < 2 * MaxUnit => (Spec => [](` up to the mantissa, `number_of_pieces` is the float count`))` |
| `DTXMessageParser_proofs` | `TypeCorrect` | `Spec => []TypeOK` |
| | `ParserIsConsistent` | `Spec => []ParserInv` |
| | `MessagesStayInOrder` | `Spec => []MessagesInOrder` |
| | `CleanCutsKeepThePlace` | `Spec => []CleanCutKeepsPlace` |
| `BufferedDTXTransport_proofs` | `TypeCorrect` | `Spec => []TypeOK` |
| | `NothingOvertaken` | `Spec => []NothingOvertakes` |
| | `StreamArrives` | `Spec => []WireInv` |
| `DTXMessageMemory_proofs` | `HeapIsConsistent` | `Spec => []MemoryInv` |
| | `MemoryIsSafe` | `Spec => []NoFault` |
| | `ListReachesTheWire` | `Spec => []ListIsSent` |
| `DeviceTools_proofs` | `ToolsReleaseInOrder` | `ToolSpec => []DeviceInv` |
| | `OnlyKnownAborts` | `ToolSpec => []AbortsAreKnown` |
| | `ConversationsStayInOrder` | `ToolSpec => []ConversationsInOrder` |
| | `NamedFilesAreDecoded` | `ToolSpec => []DecodeInv` |

* **Messaging.** `TypeInv` adds to the types that the parsing thread has a message
  in hand wherever it reads one. `IdentifiersIncrease` is not inductive: the next
  identifier must be known to be larger, which is `CounterAhead`, the counter is
  above everything issued and seen. Every step either hands out the counter and
  increments it or does not decrease it (lemma `CounterStep`), whichever of the
  races of the maps happens. The routing theorems rest on `RoutingInv`: whatever
  travels or waits, a queued request, an owed answer, a reply, an entry of the map,
  carries the identifier that `issued` has under its ticket (`KeysInv`). An entry
  that is found under a reply's identifier then has the same identifier, and equal
  identifiers mean equal tickets (`SameTicket`), since `issued` strictly increases.
  `NegativeCodesOnly` says that the device begins messages on negative codes only,
  which no handler of the program has for a key. The refinement has one step per
  action of the callers (`CallerRefines`) and of the others (`OthersRefine`); it
  covers the safety part, callbacks that wait, racing maps and expiring waits
  included.
* **Handlers and promises.** `OnceInv` adds to `RoutingInv` that a ticket has one
  call and one handler (`OneTicketEach`) and that of the handlers in the map only
  the one about to be erased has been invoked (`InvokedIsErased`). For promises,
  `PromiseKept`: a handler of a synchronous call that has not run belongs to a call
  that waits.
* **Nobody is forgotten.** `ServiceInv` follows each ticket from the call to the
  reply. It is on the way to the device at most once and then not answered yet
  (`SentOnce`), on the channel its handler has in its key (`SameChannel`); who waits
  or will be answered has a handler (`HandlersStay`) and a request or a reply on the
  way (`Served`), and what `RouteMessage` has just routed was not the reply of a
  call that still waits (`RoutedIsDone`), which is what lets it drop the message.
  Each of the three assumptions is needed: `messaging_cancel` shows what an early
  reply does, `messaging_race` allows the races, and a device that sends on code 0
  can take a handler that is not meant for its message. The invariant takes the set
  of tickets that are `gone`, which is empty here and `lost` for the sessions.
* **Channels.** `ChannelInv`: codes are not used again; a channel that is being made
  is in the map or was canceled; an open one is in the map until it is canceled, and
  not after.
* **Sessions.** `LostInv` = `RoutingInv` and `TravelsOnce`: a ticket has not been
  sent (`UnsentIsFresh`), or is in the queue or with the device once
  (`RequestOnce`), or its reply is with the transport once (`ReplyOnce`), so that
  what a `Disconnect` clears is nowhere else. The second theorem is
  `ServiceInv(lost)`; it asks for `OwnReplyOnly`, which the run checks with it and
  which a device that keeps to negative codes guarantees.
* **Lifecycle.** `LifeInv` ties the thread objects, the flags and the places of the
  threads to each other: who runs on after its flag was cleared is being joined
  (`JoinedOK`), an object without a flag is about to go (`HandlesOK`), what
  `Disconnect` has dealt with is not started again before it is done (`OrderOK`),
  without a client nothing works (`OpenOK`). `OwnersOK` counts the owners of the
  packet buffers. While the program is alive all this holds (`Core`), or the send
  and the parsing thread have both failed and join each other for ever
  (`Replacing`): a program that connects then replaces the send thread, which is
  the end of it. The invariants of the lifecycle stop there. For `FaultsHaveACause`,
  what a `Disconnect` has found, a flag or a thread object, is still there while no
  other one is under way (`AloneOK`).
* **Queue.** `Safe` = `TypeOK`, `MutexHeld` (a thread in a critical section holds
  the mutex, hence at most one is in) and `FrontHeld` (between `front()` and
  `pop()` the head is the element read): with these `TakePop` is the abstract
  `Get`, and each other step is `Put`, `Drop`, `DropAll` or a stutter.
  `NoLostWakeup` speaks of a free mutex and is not inductive; `NoSleeper` says the
  same at every moment and is, because `notify_all` runs in the section that
  pushes. `ReadyToTake` follows a thread from `WaitToTake` to `Take`
  (`ReadyPath`, `ReadyKept`): no other thread removes in between.
* **Parser.** The proof looks at `Stream`, the buffer and the wire behind it: a
  packet that is appended leaves it as it is, the loop only moves `consumed_size`
  in it, the device adds a fragment at its end. As long as the parser is `OnTrack`
  (no message was torn, what comes next is a header) the stream is `Sound`:
  fragments one behind the other (`Chained`), those of a message in order
  (`InOrder`) and without gaps (`Complete`), messages with the same identifier one
  after the other (`Apart`). `DeliveryOK` says that what the device has sent has
  been parsed or is ahead, and in the same order (`EarlierOK`); as long as nothing
  is repeated, no parsed message is ahead again (`NewOK`) and what waits between
  two calls is less than a message (`WaitingOK`), so that no call begins in front
  of what an earlier one has parsed. `BuffersOK` says
  that an open buffer has an `Owner`, whose pieces are the ones it holds and whose
  other pieces are ahead, so that the last fragment finds a whole message. The
  fragments of an owner are followed by nothing else under its identifier until
  its last one (`Alone`). A parser that repeats itself loses its place at most in
  front of fragments (`LostOK`), and each promise says what is left of it then.
* **Transport.** `PlaceOK` ties the place of the thread to the chunk at hand and
  to an empty buffer between messages and before a large chunk; with it each step
  appends the same bytes to what was handed over and to wire and buffer.
  `StreamInv` says what has been handed over: the stream of the messages taken, the
  last of them up to the place of the thread, while no call has failed
  (`HandedOK`); and, whatever fails, that the bytes that have left `Send` are in
  the order of the stream and the place of the thread is behind them (`OrderOK`).
  That a sequence of sequences can be joined piece by piece (`FlattenAppend`) is an
  induction on its length, made with the least number that violates it.
* **Buffer memory.** `TailInv` adds two facts to the types. `PtrOK`: the room that
  `Allocate` returned belongs to a packet that is still to be copied. `InPlace`:
  until an allocation fails, `capacity_` is the length of the block, and what is
  filled of it (up to `ptr` before the copy, up to `size_` after it) numbers the
  last bytes of the stream. `AlignRoundsUp` is the arithmetic of
  `IDEVICE_MEM_ALIGN`, `ResizedKeeps` what `realloc` leaves in place.
* **Message memory.** `HeapInv` names the owners of blocks: the program's buffer,
  its value, a payload that was copied, the arguments. They are apart (`Apart`) and
  live; a payload that is not owned is the program's buffer or an archive
  (`PayloadKnown`), an archive of a payload object is nobody's and stays
  (`ArchivesStay`), and what is live without an owner was lost by an assignment
  (`LeaksKnown`). `Changes` says what an operation does to the heap: which blocks
  have become live, which are freed, and that the others keep their state and their
  data. For the list, `ListKept`: every place holds what the program gave to it, or
  the object for it waits and the place is null; the archives go to new blocks, one
  each, whatever order `Orders` picks, so that `Measure` keeps it and `WriteMessage`
  finds nothing waiting (`SenderHolds`).
* **Tools.** A tool goes on at its own places only (`PlaceOK`). `DeferredOK` says
  that what has been deferred determines what the tool has: the list is one of
  those that `InReverse` builds and `Unwind` takes apart again, and each of its
  functions releases what uses another thing before that thing; `DepthOK` says at
  which place it is how long, so that every early return finds its own list.
  `DialogOK` ties the response at hand to the place in the script. Threads run only
  while instruments has a connection (`ThreadsHaveAConnection`), so that no other tool
  is terminated by one.
* **decode.** What is printed is a beginning of the messages, which are sorted from
  then on (`PrintedOK`); a sort is any function of the places that has each message
  as often as before and keeps to the order (`Orders`). `DecodingInv` adds what has
  been done so far as a joined beginning of what is to be done: the words found are
  those among the arguments read (`ParsingOK`, which needs that a flag has a name,
  as `parse_args` cuts one or two characters off at least three), the files opened
  those among the words dealt with (`NamedOK`), the messages of the open file those
  of its chunks read (`OpenedOK`), which are a beginning of all it holds and all of
  it behind a chunk that was rejected (`FoundInFile`); then the messages are those of
  the files closed (`GatheredOK`), or hold the first of each (`LimitedOK`).
* **Transmitter.** The sequence looked at is `Wire`, the bytes of the fragments
  sent, with the buffer behind them. `RisingOK`: whatever is refused and whatever
  runs over, its byte numbers rise and stay below the place of the loop, so that
  nothing is sent twice. `CleanOK`: while nobody has refused and no chunk runs over,
  it is all bytes up to that place, the headers count up from 0, and every fragment
  sent but the last one is full; with the arithmetic of the quotient (`DivMod`,
  `QuotientIs`, `CountIs`) and the sum of the chunks (`TotalNext`) the last fragment
  is the one the header has announced.
* **Sending.** `Given` says what the message holds while it is built, sent, changed
  and sent again: its values with the objects in their places are the arguments
  given (`ArgumentsOK`), its payload is the one given unless an object came late
  (`PayloadOK`), and while it is sent the chunks are those of `SerializeTo`
  (`SentOK`). From there `ArgumentsArrive` is a statement about `SerializeTo` and
  `Deserialize`: the chunks joined are a header, the list and the payload, with the
  lengths that the header says (`FlattenConcat`, `FlattenTwice`, `LenFlatten`), and
  reading is the inverse of writing. `Read` is one turn of the loop of
  `DTXPrimitiveArray::Deserialize`; that the function which applies it at every place
  exists is shown from the end of the bytes backwards (`ReadsExists`), `ReadItem`
  reads one value back and finds the next behind it, and `ReadItems` the whole list.
* **The count of fragments.** For every even mantissa, 2^24 in the code: a length up
  to the mantissa is a float (`FloatIsExact`); the quotient of a fragment's length,
  in units of the last place, is rounded to a number above the whole one below it
  and not above the one over it (`RoundedBetween`), so `ceil` gives what the integer
  quotient gives. Close to the lower one rounding could only reach it from half a
  unit away, which needs a length equal to the mantissa and odd. The exponents of the
  model end at 2^20, hence the bound on the size of a fragment, `2 * MaxUnit`, 2 MB.
  Above the mantissa the count may be short, as `LongCountMayBeShort` evaluates.

Induction over data is proved where it can be put as a set of numbers that holds 0
and with each number the next (`NatSetInduction`, from the well-founded order of the
naturals): joins of sequences (`FlattenAppend`, `FlattenConcat`, `JoinBegins`), sums,
rising sequences, the cells of a stream (`FirstNumbers`), the values of a message
(`ReadItems`). The library's induction theorems take an operator and cannot be used.
What is defined by recursion is a recursive function or `FlattenSeq` for that reason:
`SelectSeq` and the folds of the community modules are out of reach, as no prover
here unfolds them, which is why `DTXMessageMemory` says by sets and functions what
happens to several blocks, and `DecodeTool` joins words instead of selecting them.

Only model-checked: everything under fairness, which is liveness (`EverythingIsTaken`,
`EverythingIsDelivered`, `EverythingIsSent`, `TransmissionEnds`, `DisconnectReturns`,
`CallReturnsInSession`, `RepliesGoOut`, `ToolEnds`) and the fair half of
`ServesCalls`, whose safety half is `ConnectionImplementsCalls`.

Every invariant and every action property that a passing run checks is proved, and
so are the refinements of `FifoQueue` and of the safety part of `DTXCalls`.

## Divergences

One has a run of its own, `messaging_cancel`: `SendMessageAsync` pushes the
message before it inserts the handler (dtxconnection.cpp:132, :138). The models
contain the others too, as the code does them, and the properties name the states
from which they may follow; each was met while its module was written.

Messaging:

* The test of `timeout_ms` is the wrong way round (dtxconnection.cpp:146): a finite
  timeout waits for ever, -1 waits 49.7 days (:149) and then returns nullptr, which
  `MakeChannelWithIdentifier` dereferences or ignores ("wait forever", :50).
* `Cancel` in a callback waits for its own thread (:300).
* A lookup in the unlocked map misses an open channel (:308).
* A message of the device is taken for the response to a request with its number
  (:296), as nobody looks at the conversation index.
* `SendMessageAsync` overwrites the identifier that `NewReply` copies from the
  message it answers (dtxmessage.cpp:45, dtxconnection.cpp:126): replies travel under
  fresh ones, and the device has only the channel and the conversation index to go by.

Towards the device:

* `consume_size` reads a chunk behind its end (dtxmessagetransmitter.cpp:84). What it
  reads is announced in place of the rest of the message; when all the bytes announced
  have gone before the chunk at hand has ended, `consume_size` is 0 and the loop
  (:37, :82-90) sends headers without data for ever.
* The
  fragment with the header alone is not counted (:72, :100), while the parser takes
  index `fragment_count - 1` for the last piece (dtxmessageparser.cpp:139); the
  count is a quotient of floats (:100); the result is false for several fragments
  (:93) and true for a single one that was refused (:63).
* Empty values are counted with a length and written without
  (dtxprimitivearray.cpp:139, :170).
* A payload object set after a serialization is not sent (dtxmessage.cpp:152); an
  object of a replaced list is sent in the new one (dtxmessage.h:175).
* `SendThread` ignores the result of `Flush` (dtxconnection.cpp:184).

From the device:

* A buffer that was parsed completely is kept and parsed again
  (dtxmessageparser.cpp:106); a message cut off by `Disconnect` is completed with
  bytes of the next session.
* A first fragment waits until as many bytes as the whole message are in the buffer
  (dtxmessageparser.cpp:82), its own header and whatever stands behind it: a small
  complete message that comes next, a reply for instance, is kept back until the
  device has sent more.
* A failed `realloc` loses the block and keeps its size (bytebuffer.h:74).
  `ParseIncomingBytes` sees that and returns false (dtxmessageparser.cpp:15); a parser
  that is used again would go on behind bytes that are no longer there.

Elsewhere:

* A send or parsing thread that meets an error joins itself
  (dtxconnection.cpp:188, :272): `std::terminate`, also of a tool that waits for a
  response. When both fail, each joins the other one and a `Disconnect` of the program
  waits for them for ever.
* `Disconnect` joins the send thread without a limit (:27), and `service_send` has no
  timeout (instrument.cpp:69): a device that does not read keeps it from returning.
* An error of the receive thread leaves `IsConnected()` true (:225).
* `WaitToTake` takes its `timeout_ms` for microseconds (blockingqueue.h:68).
* The archive of a payload object is never freed (dtxmessage.cpp:154), nor the old
  block of a value that is assigned by move (dtxprimitivearray.h:81), nor the plists
  of lockdown and AMFI.
* `--hex` swallows the file behind it (argparser.cpp:21): of the two files of
  "idevice decode --hex received_outfile.bin transmit_outfile.bin" (README.md:359) only
  the second is decoded.
* `--limit` is by the usage a "limit number pre file" (main.cpp:14), over all files
  together by the code (decoder.cpp:77; :31 tests it before each chunk of a file); a
  negative one is none, as the count is unsigned.
* The list of devices is not freed when it is empty (instruments.cpp:260-262, and alike
  in lockdown.cpp and amfi.cpp).
* The service name with "ssl" gives the encryption up
  (instrument.cpp:27).
* The scripts of instruments use a response without a test, and look for their
  subcommand after the connection is made (instruments.cpp:308).
* `memset(addr, 0, sizeof(addr))` clears the size of a pointer
  (instruments.cpp:285).

## Not modelled

kperf configuration is a dictionary that is filled; `DebugProxyTransport` forwards
each call and copies the bytes to two files, with no decision of its own. Archives,
sockets and TLS belong to other libraries. In the modelled parts: `SetMessageType`
on a message in use, padding and NUL bytes of values, the capacity word, 32-bit
overflow of lengths and identifiers, a program that changes a message while the send
thread serializes it, two threads of the program that connect and disconnect at the
same time, a second `Connect` of a lockdown or AMFI service, `ByteBuffer::Read`,
what the tools write.

## Plan

Done, in this order: `DTXMessaging` (the heart of the library), `BlockingQueue`,
`DTXMessageParser`, `DTXMessageTransmitter` with `DTXMessage` and `DTXSending`,
`BufferedDTXTransport`, `DTXLifecycle`; then callbacks and `DTXCalls`, `DTXSessions`,
sessions of the parser, the tools, `DTXMessageMemory`, `FragmentCount`,
`BufferMemory`; the proofs of messaging (routing, refinement, service, channels),
queue, transport and buffer memory; then of the sessions, the lifecycle, the stream
of the transport, message memory, the tools and the parser; then of the transmitter,
of the way of a message from the program to the device, of `decode`, and of the
count of fragments.

Next, a model: a round trip from transmitter to parser, where the two count
fragments differently.
