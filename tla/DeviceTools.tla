---------------------------- MODULE DeviceTools ----------------------------
(***************************************************************************)
(* The tools that talk to a device, get_value, set_developer_mode and       *)
(* instruments: what each of them creates, opens and calls, where it gives   *)
(* up, and how the functions it has deferred release everything again, with  *)
(* the services LockdownService, AMFIService and InstrumentService.          *)
(***************************************************************************)
EXTENDS DecodeTool

CONSTANT Scripts   \* Scripts[w]: what the subcommand w of instruments does

Script == [pid : BOOLEAN, calls : Nat, needs : {"payload", "response", "nothing"},
           then : {"cancel", "listen", "again", "return"}]
ASSUME ScriptsAssumption ==
  DOMAIN Scripts \subseteq STRING /\ \A w \in DOMAIN Scripts : Scripts[w] \in Script

VARIABLES
  debug,           \* the tool is built without NDEBUG
  deferred,        \* the names of the deferred functions, the last one first
  live,            \* what has been created or opened and not yet released
  calls,           \* calls that the script still has to make
  response,        \* of the last call: none (no call yet), payload, empty, null
  silent,          \* the device has stopped to answer
  failed           \* the send or the parsing thread of the connection has met an error

chosen == <<arguments, decoder, debug>>
surroundings == <<silent, failed>>
dialog == <<calls, response, surroundings>>
device == <<debug, deferred, live, dialog>>
toolVars == <<vars, device>>

-----------------------------------------------------------------------------
(* The scripts: whether they read --pid, how many calls they make after the one *)
(* for the channel, what they do with a response, and what follows.            *)

Query(pid) == [pid |-> pid, calls |-> 1, needs |-> "payload", then |-> "cancel"]
Trace == [pid |-> FALSE, calls |-> 2, needs |-> "response", then |-> "listen"]
Stream(n) == [pid |-> FALSE, calls |-> n, needs |-> "nothing", then |-> "listen"]
Poll == [pid |-> TRUE, calls |-> 1, needs |-> "nothing", then |-> "again"]
Unknown == [pid |-> FALSE, calls |-> 0, needs |-> "nothing", then |-> "return"]

\* What main leaves to the command: the words behind it.
words == Len(first) - 1
word == first[2]
script == IF words > 0 /\ word \in DOMAIN Scripts THEN Scripts[word] ELSE Unknown

ToolInit ==
  /\ Init
  /\ debug = FALSE /\ deferred = <<>> /\ live = {}
  /\ calls = 0 /\ response = "none" /\ silent = FALSE /\ failed = FALSE

Goto(from, to) == pc = from /\ pc' = to

\* What `new` and the libraries return belongs to the tool, which defers its release.
InOrder(name) == deferred \o <<name>>  \* mutant: released in the order of creation
InReverse(name) == <<name>> \o deferred
Defer(name) == deferred' = InReverse(name)
Create(from, to, name) ==
  /\ Goto(from, to) /\ live' = live \cup {name} /\ Defer(name)
  /\ UNCHANGED <<chosen, dialog>>

Nothing == UNCHANGED <<chosen, deferred, live, dialog>>

\* `return`: the deferred functions run.  Aborted: they do not.
ReturnFrom(place) == Goto(place, "unwind") /\ Nothing
AbortFrom(place) == Goto(place, "aborted") /\ Nothing

-----------------------------------------------------------------------------
(* The device *)

\* A build is with or without NDEBUG; it matters from here on.
RunDevice ==
  /\ Parsed /\ tool \in DeviceCommands /\ pc' = "start"
  /\ debug' \in BOOLEAN
  /\ UNCHANGED <<arguments, decoder, deferred, live, dialog>>

\* "missing args"; a mode that is no number is an exception of std::stoi.
WordsNeeded == CASE tool = "get_value" -> 2 [] tool = "set_developer_mode" -> 1 [] OTHER -> 0
MissingArgs == words < WordsNeeded /\ ReturnFrom("start")
BadMode == tool = "set_developer_mode" /\ words > 0 /\ word \notin DOMAIN Numbers
InvalidMode == BadMode /\ AbortFrom("start")

\* The list belongs to the tool, also one of no devices.
ListDevices ==
  /\ words >= WordsNeeded /\ ~BadMode
  /\ \/ /\ Goto("start", "list") /\ live' = live \cup {"list"}
        /\ UNCHANGED <<chosen, deferred, dialog>>
     \/ ReturnFrom("start")

\* "no connected device!": the list is not freed.
NoDevice == ReturnFrom("list")

FreeList ==
  /\ Goto("list", "new") /\ live' = live \ {"list"}
  /\ UNCHANGED <<chosen, deferred, dialog>>

CanNotOpen == ReturnFrom("new")

OpenDevice ==
  Create("new", IF tool = "instruments" THEN "transport" ELSE "service", "device")

-----------------------------------------------------------------------------
(* get_value and set_developer_mode *)

NewService == Create("service", "connect", "service")

\* get_value goes on whatever Connect returns, and always defers Disconnect.
ConnectService ==
  /\ Goto("connect", "call") /\ Defer("session")
  /\ \/ live' = live \cup {"client"}
     \/ tool = "get_value" /\ UNCHANGED live
  /\ UNCHANGED <<chosen, dialog>>

CanNotConnect == tool = "set_developer_mode" /\ ReturnFrom("connect")

\* GetValue: the assertion, an error, or the value, which is not freed.
AssertionFails ==
  tool = "get_value" /\ "client" \notin live /\ debug /\ AbortFrom("call")

GetValue ==
  /\ tool = "get_value" /\ ("client" \in live \/ ~debug)
  /\ Goto("call", "unwind")
  /\ \/ UNCHANGED live
     \/ "client" \in live /\ live' = live \cup {"value"}
  /\ UNCHANGED <<chosen, deferred, dialog>>

\* SetDeveloperMode frees its request; the dictionary for the answer is replaced
\* by the answer, and neither is freed.
SetDeveloperMode ==
  /\ tool = "set_developer_mode" /\ Goto("call", "unwind")
  /\ live' \in {live, live \cup {"dict"}, live \cup {"dict", "answer"}}
  /\ UNCHANGED <<chosen, deferred, dialog>>

-----------------------------------------------------------------------------
(* instruments: the connection *)

\* The port of RSD is read when the device is open.
InvalidPort == NotANumber("port") /\ AbortFrom("transport")
NewTransport == ~NotANumber("port") /\ Create("transport", "connection", "transport")
NewConnection == Create("connection", "secure", "connection")

\* InstrumentService::Connect: one service after the other.  DTXConnection::Connect
\* starts the threads.
Opened(from) ==
  /\ Goto(from, "command")
  /\ live' = live \cup {"client", "threads"}
  /\ UNCHANGED <<chosen, deferred, dialog>>

ConnectSecure ==
  \/ Opened("secure")
  \/ Goto("secure", "fallback") /\ Nothing
ConnectPlain == Opened("fallback") \/ ReturnFrom("fallback")

-----------------------------------------------------------------------------
(* instruments: the script *)

\* args.first.at(0) throws when there is no subcommand.
OneMissing == words <= 1 /\ AbortFrom("command")  \* mutant: the second word is read
NoSubcommand == words = 0 /\ AbortFrom("command")

InvalidPid == script.pid /\ NotANumber("pid")
AbortScript == InvalidPid /\ AbortFrom("command")

RunScript ==
  /\ words > 0 /\ ~InvalidPid
  /\ Goto("command", IF script = Unknown THEN "unwind" ELSE "channel")
  /\ calls' = script.calls
  /\ UNCHANGED <<chosen, deferred, live, response, surroundings>>

\* A call returns with a response, or with nullptr after 2^32 - 1 ms.
Answer ==
  \/ ~silent /\ response' \in {"payload", "empty"}
  \/ response' = "null"

Returns(from, to) ==
  Goto(from, to) /\ Answer /\ UNCHANGED <<chosen, deferred, live, calls, surroundings>>

\* In a debug build MakeChannelWithIdentifier and CancelChannel dump the response.
Usable(needs) ==
  CASE needs = "payload" -> response = "payload"
    [] needs = "response" -> response # "null"
    [] OTHER -> TRUE
IfDebug == IF debug THEN "response" ELSE "nothing"

MakeChannel == Returns("channel", "made")
SendMessageSync == calls > 0 /\ Returns("script", "answered")
Cancel == Returns("cancel", "canceled")

Continue(from, to, needs) == Usable(needs) /\ Goto(from, to) /\ Nothing
NullPointer(from, needs) == ~Usable(needs) /\ AbortFrom(from)

AfterChannel == Continue("made", "script", IfDebug) \/ NullPointer("made", IfDebug)

AllCalls == calls   \* mutant: the first call again and again
Remaining == calls - 1
AfterCall ==
  \/ /\ Usable(script.needs) /\ Goto("answered", "script") /\ calls' = Remaining
     /\ UNCHANGED <<chosen, deferred, live, response, surroundings>>
  \/ NullPointer("answered", script.needs)

\* The loops never end.
AfterScript ==
  /\ pc = "script" /\ calls = 0
  /\ \/ script.then = "cancel" /\ pc' = "cancel" /\ UNCHANGED calls
     \/ script.then = "listen" /\ pc' = "listening" /\ UNCHANGED calls
     \/ script.then = "again" /\ calls' = script.calls /\ UNCHANGED pc
  /\ UNCHANGED <<chosen, deferred, live, response, surroundings>>

AfterCancel == Continue("canceled", "unwind", IfDebug) \/ NullPointer("canceled", IfDebug)

-----------------------------------------------------------------------------
(* The deferred functions *)

Released(name) ==
  CASE name = "session" -> {"client"}
    [] name = "connection" -> {"client", "threads", "connection"}
    [] OTHER -> {name}

Unwind ==
  /\ pc = "unwind" /\ deferred # <<>>
  /\ live' = live \ Released(Head(deferred)) /\ deferred' = Tail(deferred)
  /\ UNCHANGED <<chosen, pc, dialog>>

Return == deferred = <<>> /\ Goto("unwind", "returned") /\ Nothing

\* The device goes away; the calls that wait for it go on waiting.
FallSilent ==
  /\ ~silent /\ "client" \in live /\ silent' = TRUE
  /\ UNCHANGED <<chosen, pc, deferred, live, calls, response, failed>>

\* TransmitMessage or ParseIncomingBytes returns false, and the thread disconnects.
WorkerFails ==
  /\ ~failed /\ "threads" \in live /\ pc # "aborted" /\ failed' = TRUE
  /\ UNCHANGED <<chosen, pc, deferred, live, calls, response, silent>>

\* It joins itself: std::terminate, unless the tool has disconnected before.
Terminate ==
  /\ failed /\ "threads" \in live /\ pc # "aborted" /\ pc' = "aborted"
  /\ UNCHANGED <<chosen, deferred, live, dialog>>

-----------------------------------------------------------------------------
Prepare ==
  \/ RunDevice \/ MissingArgs \/ InvalidMode \/ ListDevices \/ NoDevice
  \/ FreeList \/ CanNotOpen \/ OpenDevice
Serve ==
  \/ NewService \/ ConnectService \/ CanNotConnect
  \/ AssertionFails \/ GetValue \/ SetDeveloperMode
Instruments ==
  \/ InvalidPort \/ NewTransport \/ NewConnection \/ ConnectSecure \/ ConnectPlain
  \/ NoSubcommand \/ AbortScript \/ RunScript \/ MakeChannel \/ AfterChannel
  \/ SendMessageSync \/ AfterCall \/ AfterScript \/ Cancel \/ AfterCancel
Finish == Unwind \/ Return

Decode == Next /\ UNCHANGED device
Step == Decode \/ Prepare \/ Serve \/ Instruments \/ Finish \/ Terminate
ToolNext == Step \/ FallSilent \/ WorkerFails

\* The tool runs, and its device answers unless it has fallen silent.
ToolSpec == ToolInit /\ [][ToolNext]_toolVars /\ WF_toolVars(Step)

-----------------------------------------------------------------------------
(* Properties *)

Plists == {"value", "dict", "answer"}
Resources ==
  {"list", "device", "service", "transport", "connection", "client", "threads"} \cup Plists

\* Every variable has its type, and what is deferred is there to be released.
TypeOK ==
  /\ i \in 1..(Len(argv) + 1) /\ limit \in Int
  /\ ToSet(decoded) \subseteq Files /\ Len(printed) <= Len(messages) /\ chunk \in Nat
  /\ live \subseteq Resources /\ calls \in Nat
  /\ response \in {"none", "payload", "empty", "null"} /\ failed \in BOOLEAN
  /\ \A k \in DOMAIN deferred : deferred[k] \in live \cup {"session"}

\* What a resource uses until it is released.
Bases ==
  [r \in Resources |->
     CASE r = "client" -> {"device", IF tool = "instruments" THEN "transport" ELSE "service"}
       [] r = "threads" -> {"client", "connection"}
       [] r = "connection" -> {"transport"}
       [] r = "transport" -> {"device"}
       [] OTHER -> {}]

\* The deferred functions release what they have in an order in which nothing is
\* used after it is gone: threads before the client they receive from, the client
\* before the device; from whichever early return they start.
NothingOutlivesItsBase == \A r \in live : Bases[r] \subseteq live

\* Whichever call fails, a tool that returns has released all but the plists of an
\* answer, or all but the list of devices, which leaks when there are none.
ReturnedMeansReleased == pc = "returned" => live \subseteq Plists \/ live = {"list"}

\* What a tool has is released in time and in order.
DeviceInv == TypeOK /\ NothingOutlivesItsBase /\ ReturnedMeansReleased

\* A tool that is aborted has made one of the mistakes that the code does not test
\* for: a flag or a mode that is no number, no subcommand, a value that is asked for
\* without a connection, a response that has not come or has no payload; or a thread of
\* the connection has met an error and joined itself.
AbortsAreKnown ==
  pc = "aborted" =>
    CASE tool = "decode" -> NotANumber("limit")
      [] tool = "set_developer_mode" -> word \notin DOMAIN Numbers /\ live = {}
      [] tool = "get_value" -> "client" \notin live
      [] tool = "instruments" ->
           \/ failed \/ words = 0 \/ response \in {"empty", "null"}
           \/ \E flag \in {"port", "pid"} : NotANumber(flag)

\* A tool comes to its end or to its loop, unless the device falls silent: whatever
\* its arguments are, and also when it can not connect.
ToolEnds ==
  <>(\/ pc \in {"done", "returned", "aborted", "listening"} \/ silent
     \/ script.then = "again" /\ pc = "script")

=============================================================================
