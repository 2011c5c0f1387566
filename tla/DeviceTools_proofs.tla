------------------------- MODULE DeviceTools_proofs -------------------------
(***************************************************************************)
(* Theorems about the command line tools: whatever the arguments and the   *)
(* dump files are, whichever call fails, a tool that returns has released  *)
(* what it had, but for the plists and a list of no devices, and nothing   *)
(* before what it is used by; what aborts a tool is known; and decode      *)
(* prints the files that are named, completely or up to the limit, and     *)
(* conversations in order.                                                 *)
(***************************************************************************)
EXTENDS DeviceTools, SequenceTheorems, FiniteSetTheorems, WellFoundedInduction, TLAPS

USE DEF chosen, surroundings, dialog, device, arguments, decoder

-----------------------------------------------------------------------------
(* The invariant *)

\* Where main is, where decode is, and where the tools for a device are.
MainPlaces == {"parse", "done"}
DecodePlaces == {"decode", "read", "print"}
ServicePlaces == {"service", "connect", "call"}
ScriptPlaces == {"command", "channel", "made", "script", "answered", "cancel", "canceled",
                 "listening"}
InstrumentPlaces == {"transport", "connection", "secure", "fallback"} \cup ScriptPlaces
Places ==
  MainPlaces \cup DecodePlaces \cup ServicePlaces \cup InstrumentPlaces
    \cup {"start", "list", "new", "unwind", "returned", "aborted"}

\* Each tool is at its own places.
PlaceOK ==
  /\ pc \in Places
  /\ pc \in DecodePlaces => tool = "decode"
  /\ pc \in {"start", "list", "new", "unwind", "returned"} => tool \in DeviceCommands
  /\ pc \in ServicePlaces => tool \in {"get_value", "set_developer_mode"}
  /\ pc \in InstrumentPlaces => tool = "instruments"

\* What decode works on.
DecoderOK ==
  /\ argv \in Seq(Argument) /\ i \in 1..(Len(argv) + 1) /\ first \in Seq(STRING)
  /\ limit \in Int /\ chunk \in Nat
  /\ dump_file \in Seq(STRING) /\ decoded \in Seq(Files)
  /\ parsed \in Seq(ParsedMessage) /\ messages \in Seq(ParsedMessage)

\* While it reads a file, that file is the next one in its list.
ReadingOK ==
  pc = "read" => dump_file # <<>> /\ Head(dump_file) \in Files /\ chunk <= Len(chunks)

\* What is printed are the first of the messages, which have been sorted.
PrintedOK ==
  /\ printed \in Seq(ParsedMessage) /\ Len(printed) <= Len(messages)
  /\ \A k \in DOMAIN printed : printed[k] = messages[k]
  /\ pc \in {"parse", "decode", "read"} => printed = <<>>
  /\ printed # <<>> \/ pc = "print" => Sorted(messages)

\* What a tool has besides plists.
Own == live \ Plists

\* What has been deferred says what the tool has, and the other way round.
DeferredOK ==
  /\ live \subseteq Resources
  /\ \/ deferred = <<>> /\ Own = {}
     \/ deferred = <<>> /\ live = {"list"}
     \/ deferred = <<"device">> /\ Own = {"device"}
     \/ /\ tool # "instruments" /\ deferred = <<"service", "device">>
        /\ Own = {"service", "device"}
     \/ /\ tool # "instruments" /\ deferred = <<"session", "service", "device">>
        /\ Own \in {{"service", "device"}, {"client", "service", "device"}}
     \/ /\ tool = "instruments" /\ deferred = <<"transport", "device">>
        /\ Own = {"transport", "device"}
     \/ /\ tool = "instruments" /\ deferred = <<"connection", "transport", "device">>
        /\ Own \in {{"connection", "transport", "device"},
                    {"client", "threads", "connection", "transport", "device"}}

\* How much a tool has deferred at its places.
DepthOK ==
  /\ pc \in MainPlaces \cup DecodePlaces \cup {"start", "new"} =>
       deferred = <<>> /\ live = {}
  /\ pc = "list" => deferred = <<>> /\ live = {"list"}
  /\ pc = "returned" => deferred = <<>>
  /\ pc \in {"service", "transport"} => deferred = <<"device">>
  /\ pc = "connect" => deferred = <<"service", "device">>
  /\ pc = "call" => deferred = <<"session", "service", "device">>
  /\ pc = "connection" => deferred = <<"transport", "device">>
  /\ pc \in {"secure", "fallback"} \cup ScriptPlaces =>
       deferred = <<"connection", "transport", "device">>
  /\ pc \in {"secure", "fallback"} => "client" \notin live
  /\ pc \in ScriptPlaces => "client" \in live

\* Who looks at a response has made a call, and who counts a call has one left.
DialogOK ==
  /\ calls \in Nat /\ response \in {"none", "payload", "empty", "null"} /\ failed \in BOOLEAN
  /\ pc \in {"made", "answered", "canceled"} => response # "none"
  /\ pc = "answered" => calls > 0

ToolInv ==
  /\ PlaceOK /\ DecoderOK /\ ReadingOK /\ PrintedOK /\ DeferredOK /\ DepthOK /\ DialogOK
  /\ AbortsAreKnown

-----------------------------------------------------------------------------
(* What the steps leave alone *)

\* Once main has read its arguments they stay; and so does the command.
Reading == ReadEmpty \/ ReadFlag \/ ReadValue \/ ReadWord
Decoding ==
  \/ RunDecode \/ AbortDecode \/ RunOther
  \/ SkipFile \/ OpenFile \/ ReadChunk \/ CloseFile
  \/ Sort \/ DumpMessage \/ ReturnDecoded
OnDevice == Prepare \/ Serve \/ Instruments \/ Finish \/ Terminate \/ FallSilent \/ WorkerFails

LEMMA Steps ==
  ToolNext <=> ((Reading \/ Decoding) /\ UNCHANGED device) \/ OnDevice
  BY DEF ToolNext, Step, Decode, Next, Reading, Decoding, OnDevice

LEMMA DecodingKeepsArguments ==
  ASSUME Decoding PROVE UNCHANGED <<argv, i, key, first, second>>
  BY DEF Decoding, RunDecode, AbortDecode, RunOther, SkipFile, OpenFile, ReadChunk, CloseFile,
     Sort, DumpMessage, ReturnDecoded

LEMMA DevicesKeepTheDecoder ==
  ASSUME OnDevice PROVE UNCHANGED <<argv, i, key, first, second, decoder>>
<1>1. Prepare => UNCHANGED <<argv, i, key, first, second, decoder>>
  BY DEF Prepare, RunDevice, MissingArgs, InvalidMode, ListDevices, NoDevice, FreeList,
     CanNotOpen, OpenDevice,
     ReturnFrom, AbortFrom, Nothing, Create
<1>2. Serve => UNCHANGED <<argv, i, key, first, second, decoder>>
  BY DEF Serve, NewService, ConnectService, CanNotConnect, AssertionFails, GetValue,
     SetDeveloperMode, ReturnFrom, AbortFrom, Nothing, Create
<1>3. Instruments => UNCHANGED <<argv, i, key, first, second, decoder>>
  BY DEF Instruments, InvalidPort, NewTransport, NewConnection, ConnectSecure, ConnectPlain, Opened,
     NoSubcommand, AbortScript, RunScript, MakeChannel, AfterChannel, SendMessageSync, AfterCall,
     AfterScript, Cancel, AfterCancel, Returns, Continue, NullPointer,
     ReturnFrom, AbortFrom, Nothing, Create
<1>4. Finish \/ Terminate \/ FallSilent \/ WorkerFails
        => UNCHANGED <<argv, i, key, first, second, decoder>>
  BY DEF Finish, Unwind, Return, Terminate, FallSilent, WorkerFails, Nothing
<1> QED BY <1>1, <1>2, <1>3, <1>4 DEF OnDevice

\* A tool for a device does not go back to main, and never to decode.
LEMMA DevicePlaces ==
  ASSUME OnDevice PROVE pc' = pc \/ pc' \notin MainPlaces \cup DecodePlaces
<1> USE DEF MainPlaces, DecodePlaces
<1>1. Prepare => pc' \notin MainPlaces \cup DecodePlaces
  BY DEF Prepare, RunDevice, MissingArgs, InvalidMode, ListDevices, NoDevice, FreeList,
     CanNotOpen, OpenDevice,
     ReturnFrom, AbortFrom, Create, Goto
<1>2. Serve => pc' \notin MainPlaces \cup DecodePlaces
  BY DEF Serve, NewService, ConnectService, CanNotConnect, AssertionFails, GetValue,
     SetDeveloperMode, ReturnFrom, AbortFrom, Create, Goto
<1>3. Instruments => pc' = pc \/ pc' \notin MainPlaces \cup DecodePlaces
  BY DEF Instruments, InvalidPort, NewTransport, NewConnection, ConnectSecure, ConnectPlain,
     Opened, NoSubcommand, AbortScript, RunScript, MakeChannel, AfterChannel, SendMessageSync,
     AfterCall, AfterScript, Cancel, AfterCancel, Returns, Continue, NullPointer,
     ReturnFrom, AbortFrom, Create, Goto
<1>4. Finish \/ Terminate \/ FallSilent \/ WorkerFails
        => pc' = pc \/ pc' \notin MainPlaces \cup DecodePlaces
  BY DEF Finish, Unwind, Return, Terminate, FallSilent, WorkerFails, Goto
<1> QED BY <1>1, <1>2, <1>3, <1>4 DEF OnDevice

LEMMA ToolKept ==
  ASSUME first' = first, second' = second
  PROVE  /\ tool' = tool /\ words' = words /\ word' = word /\ script' = script
         /\ \A flag : NotANumber(flag)' = NotANumber(flag)
  BY DEF tool, words, word, script, NotANumber, HasValue

-----------------------------------------------------------------------------
(* decode *)

\* The words of the command line.
LEMMA ArgIsAnArgument ==
  ASSUME DecoderOK, i <= Len(argv)
  PROVE  arg \in Argument /\ arg.text \in STRING /\ i + 1 \in 1..(Len(argv) + 1)
<1>1. i \in DOMAIN argv /\ i + 1 \in 1..(Len(argv) + 1)
  BY DEF DecoderOK
<1>2. arg \in Argument
  BY <1>1, ElementOfSeq DEF DecoderOK, arg
<1> QED BY <1>1, <1>2 DEF Argument

\* What sorting gives back is a list of the same messages.
LEMMA OrdersAreLists ==
  ASSUME NEW S, NEW s \in Seq(S), NEW t \in Orders(s)
  PROVE  t \in Seq(S) /\ Len(t) = Len(s) /\ Sorted(t)
<1>1. t \in [DOMAIN s -> ToSet(s)] /\ Sorted(t)
  BY DEF Orders
<1>2. DOMAIN s = 1..Len(s) /\ Len(s) \in Nat /\ ToSet(s) \subseteq S
  BY ElementOfSeq DEF ToSet
<1>3. t \in [1..Len(s) -> S]
  BY <1>1, <1>2
<1> QED BY <1>1, <1>2, <1>3

\* The chunks of a file.
LEMMA ChunksOfAFile ==
  ASSUME NEW f \in Files
  PROVE  /\ Len(Chunks[f]) \in Nat
         /\ \A k \in 1..Len(Chunks[f]) : Chunks[f][k].messages \in Seq(ParsedMessage)
<1>1. Chunks[f] \in Seq([messages : Seq(ParsedMessage), accepted : BOOLEAN])
  BY InputAssumption
<1>2. \A k \in 1..Len(Chunks[f]) :
        Chunks[f][k] \in [messages : Seq(ParsedMessage), accepted : BOOLEAN]
  BY <1>1, ElementOfSeq
<1> QED BY <1>1, <1>2

LEMMA DecoderStep ==
  ASSUME ToolInv, [ToolNext]_toolVars PROVE DecoderOK'
<1> USE DEF ToolInv
<1>1. ASSUME ReadArgument(TRUE)
      PROVE  argv' = argv /\ i' \in 1..(Len(argv) + 1) /\ arg.text \in STRING
    BY <1>1, ArgIsAnArgument DEF ReadArgument
<1>2. ASSUME Reading PROVE DecoderOK'
  <2>1. ReadArgument(TRUE) /\ UNCHANGED decoder
    BY <1>2 DEF Reading, ReadEmpty, ReadFlag, ReadValue, ReadWord, ReadArgument
  <2>2. argv' = argv /\ i' \in 1..(Len(argv) + 1) /\ arg.text \in STRING
    BY <1>1, <2>1
  <2>3. first' \in Seq(STRING)
    <3>1. first' = first \/ first' = Append(first, arg.text)
      BY <1>2 DEF Reading, ReadEmpty, ReadFlag, ReadValue, ReadWord
    <3>2. first \in Seq(STRING)
      BY DEF DecoderOK
    <3> QED BY <2>2, <3>1, <3>2, AppendProperties
  <2> QED BY <2>1, <2>2, <2>3 DEF DecoderOK
<1>3. ASSUME UNCHANGED <<argv, i, key, first, second, decoder>> PROVE DecoderOK'
  BY <1>3 DEF DecoderOK
<1>4. ASSUME RunDecode PROVE DecoderOK'
  <2>1. first # <<>>
    BY <1>4 DEF RunDecode, tool
  <2>2. Tail(first) \in Seq(STRING)
    BY <2>1, HeadTailProperties DEF DecoderOK
  <2>3. get_flag_as_int("limit", -1) \in Int
    <3>1. HasValue("limit") => second["limit"] \in DOMAIN Numbers
      BY <1>4 DEF RunDecode, NotANumber
    <3>2. \A w \in DOMAIN Numbers : Numbers[w] \in Int
      BY InputAssumption
    <3> QED BY <3>1, <3>2 DEF get_flag_as_int
  <2> QED BY <1>4, <2>2, <2>3 DEF RunDecode, DecoderOK
<1>5. ASSUME SkipFile PROVE DecoderOK'
  BY <1>5, HeadTailProperties DEF SkipFile, DecoderOK
<1>6. ASSUME OpenFile PROVE DecoderOK'
  <2>1. decoded' \in Seq(Files)
    BY <1>6, AppendProperties DEF OpenFile, DecoderOK
  <2>2. parsed' \in Seq(ParsedMessage)
    BY <1>6 DEF OpenFile
  <2> QED BY <1>6, <2>1, <2>2 DEF OpenFile, DecoderOK
<1>7. ASSUME ReadChunk PROVE DecoderOK'
  <2>1. dump_file # <<>> /\ Head(dump_file) \in Files
    BY <1>7 DEF ReadChunk, ReadingOK
  <2>2. chunks[chunk + 1].messages \in Seq(ParsedMessage)
    BY <1>7, <2>1, ChunksOfAFile DEF ReadChunk, chunks, DecoderOK
  <2>3. parsed' \in Seq(ParsedMessage)
    BY <1>7, <2>2, ConcatProperties DEF ReadChunk, DecoderOK
  <2> QED BY <1>7, <2>3 DEF ReadChunk, DecoderOK
<1>8. ASSUME CloseFile PROVE DecoderOK'
  <2>1. dump_file # <<>> /\ Head(dump_file) \in Files
    BY <1>8 DEF CloseFile, ReadingOK
  <2>2. Tail(dump_file) \in Seq(STRING)
    BY <2>1, HeadTailProperties DEF DecoderOK
  <2>3. messages' \in Seq(ParsedMessage)
    BY <1>8, ConcatProperties DEF CloseFile, DecoderOK
  <2> QED BY <1>8, <2>2, <2>3 DEF CloseFile, DecoderOK
<1>9. ASSUME Sort PROVE DecoderOK'
  <2>1. messages' \in Seq(ParsedMessage)
    BY <1>9, OrdersAreLists DEF Sort, DecoderOK
  <2> QED BY <1>9, <2>1 DEF Sort, DecoderOK
<1>10. ASSUME AbortDecode \/ RunOther \/ DumpMessage \/ ReturnDecoded PROVE DecoderOK'
  BY <1>10 DEF AbortDecode, RunOther, DumpMessage, ReturnDecoded, DecoderOK
<1>11. ASSUME Decoding PROVE DecoderOK'
  BY <1>4, <1>5, <1>6, <1>7, <1>8, <1>9, <1>10, <1>11 DEF Decoding
<1>12. CASE UNCHANGED toolVars
  BY <1>3, <1>12 DEF toolVars, vars
<1> QED BY <1>2, <1>3, <1>11, <1>12, Steps, DevicesKeepTheDecoder

\* A file that is read is the next one, and is read chunk by chunk.
LEMMA ReadingStep ==
  ASSUME ToolInv, [ToolNext]_toolVars PROVE ReadingOK'
<1> USE DEF ToolInv
<1>1. ASSUME OpenFile PROVE ReadingOK'
  <2>1. /\ dump_file' = dump_file /\ dump_file # <<>> /\ Head(dump_file) \in Files /\ chunk' = 0
    BY <1>1 DEF OpenFile
  <2>2. Len(chunks) \in Nat
    BY <2>1, ChunksOfAFile DEF chunks
  <2> QED BY <2>1, <2>2 DEF ReadingOK, chunks
<1>2. ASSUME ReadChunk PROVE ReadingOK'
  <2>1. /\ dump_file' = dump_file /\ dump_file # <<>> /\ Head(dump_file) \in Files
        /\ chunk' = chunk + 1 /\ chunk < Len(chunks) /\ chunk \in Nat
    BY <1>2 DEF ReadChunk, ReadingOK, DecoderOK
  <2>2. Len(chunks) \in Nat
    BY <2>1, ChunksOfAFile DEF chunks
  <2> QED BY <2>1, <2>2 DEF ReadingOK, chunks
<1>3. ASSUME Decoding PROVE ReadingOK'
  <2>1. OpenFile \/ ReadChunk \/ pc' # "read"
    BY <1>3 DEF Decoding, RunDecode, AbortDecode, RunOther, SkipFile, CloseFile, Sort, DumpMessage,
       ReturnDecoded
  <2> QED BY <1>1, <1>2, <2>1 DEF ReadingOK
<1>4. ASSUME Reading PROVE pc' # "read"
  BY <1>4 DEF Reading, ReadEmpty, ReadFlag, ReadValue, ReadWord, ReadArgument
<1>5. ASSUME OnDevice PROVE pc' # "read" \/ pc' = pc
  BY <1>5, DevicePlaces DEF MainPlaces, DecodePlaces
<1>6. CASE UNCHANGED <<pc, decoder>>
  BY <1>6 DEF ReadingOK, chunks
<1>7. CASE UNCHANGED toolVars
  BY <1>6, <1>7 DEF toolVars, vars
<1> QED BY <1>3, <1>4, <1>5, <1>6, <1>7, Steps, DevicesKeepTheDecoder DEF ReadingOK

\* Nothing is printed that has not been sorted, and the first messages first.
LEMMA PrintedStep ==
  ASSUME ToolInv, [ToolNext]_toolVars PROVE PrintedOK'
<1> USE DEF ToolInv
<1>t. /\ messages \in Seq(ParsedMessage) /\ parsed \in Seq(ParsedMessage)
      /\ printed \in Seq(ParsedMessage) /\ Len(messages) \in Nat
  BY DEF DecoderOK, PrintedOK
<1>e. <<>> \in Seq(ParsedMessage) /\ Len(<<>>) = 0 /\ DOMAIN (<<>>) = {}
  OBVIOUS
<1>1. ASSUME CloseFile PROVE PrintedOK'
  <2>1. printed = <<>> /\ printed' = <<>> /\ pc' = "decode" /\ messages' = messages \o parsed
    BY <1>1 DEF CloseFile, PrintedOK
  <2>2. Len(messages') \in Nat
    BY <1>t, <2>1, ConcatProperties
  <2> QED BY <1>e, <2>1, <2>2 DEF PrintedOK
<1>2. ASSUME Sort PROVE PrintedOK'
  <2>1. printed = <<>> /\ printed' = <<>> /\ pc' = "print" /\ messages' \in Orders(messages)
    BY <1>2 DEF Sort, PrintedOK
  <2>2. Len(messages') = Len(messages) /\ Sorted(messages')
    BY <1>t, <2>1, OrdersAreLists
  <2> QED BY <1>e, <1>t, <2>1, <2>2 DEF PrintedOK, Sorted
<1>3. ASSUME DumpMessage PROVE PrintedOK'
  <2>1. /\ pc = "print" /\ pc' = "print" /\ messages' = messages
        /\ Len(printed) < Len(messages)
        /\ printed' = Append(printed, messages[Len(printed) + 1])
    BY <1>3 DEF DumpMessage
  <2>2. messages[Len(printed) + 1] \in ParsedMessage
    BY <1>t, <2>1, ElementOfSeq
  <2>3. /\ printed' \in Seq(ParsedMessage) /\ Len(printed') = Len(printed) + 1
        /\ \A k \in DOMAIN printed' : printed'[k] = IF k = Len(printed) + 1
                                                    THEN messages[Len(printed) + 1]
                                                    ELSE printed[k]
        /\ DOMAIN printed' = 1..(Len(printed) + 1) /\ DOMAIN printed = 1..Len(printed)
    BY <1>t, <2>1, <2>2, AppendProperties
  <2>4. \A k \in DOMAIN printed' : printed'[k] = messages[k]
    BY <1>t, <2>3 DEF PrintedOK
  <2> QED BY <1>t, <2>1, <2>3, <2>4 DEF PrintedOK, Sorted
<1>4. ASSUME UNCHANGED <<messages, printed>>, pc' # "print" \/ pc = "print",
             pc' \in {"parse", "decode", "read"} => pc \in {"parse", "decode", "read"}
      PROVE  PrintedOK'
  BY <1>4 DEF PrintedOK, Sorted
<1>5. ASSUME Decoding PROVE PrintedOK'
  <2>1. CloseFile \/ Sort \/ DumpMessage \/
          /\ UNCHANGED <<messages, printed>> /\ (pc' # "print" \/ pc = "print")
          /\ pc' \in {"parse", "decode", "read"} => pc \in {"parse", "decode", "read"}
    BY <1>5 DEF Decoding, RunDecode, AbortDecode, RunOther, SkipFile, OpenFile, ReadChunk,
       ReturnDecoded, Parsed
  <2> QED BY <1>1, <1>2, <1>3, <1>4, <2>1
<1>6. ASSUME Reading PROVE UNCHANGED <<pc, decoder>>
  BY <1>6 DEF Reading, ReadEmpty, ReadFlag, ReadValue, ReadWord, ReadArgument
<1>7. ASSUME OnDevice PROVE pc' = pc \/ pc' \notin {"parse", "decode", "read", "print"}
  BY <1>7, DevicePlaces DEF MainPlaces, DecodePlaces
<1>8. CASE UNCHANGED toolVars
  BY <1>4, <1>8 DEF toolVars, vars
<1> QED BY <1>4, <1>5, <1>6, <1>7, <1>8, Steps, DevicesKeepTheDecoder

-----------------------------------------------------------------------------
(* The tools for a device *)

\* main and decode do not touch what a tool has, and leave it where it begins.
LEMMA DecoderKeepsTheTools ==
  ASSUME ToolInv, Reading \/ Decoding, UNCHANGED device
  PROVE  PlaceOK' /\ DeferredOK' /\ DepthOK' /\ DialogOK' /\ AbortsAreKnown'
<1> USE DEF ToolInv, MainPlaces, DecodePlaces
<1>1. CASE Reading
  <2>1. pc = "parse" /\ pc' = "parse"
    BY <1>1 DEF Reading, ReadEmpty, ReadFlag, ReadValue, ReadWord, ReadArgument
  <2>2. deferred = <<>> /\ live = {} /\ deferred' = <<>> /\ live' = {}
    BY <2>1 DEF DepthOK
  <2> QED
    BY <2>1, <2>2 DEF PlaceOK, DeferredOK, DepthOK, DialogOK, AbortsAreKnown, Places, Own,
       ServicePlaces, InstrumentPlaces, ScriptPlaces
<1>2. CASE Decoding
  <2>1. /\ pc \in MainPlaces \cup DecodePlaces /\ tool' = tool
        /\ pc' \in DecodePlaces => tool = "decode"
        /\ \/ pc' \in DecodePlaces \cup {"done"}
           \/ pc' = "aborted" /\ tool = "decode" /\ NotANumber("limit")'
    <3>1. /\ pc \in MainPlaces \cup DecodePlaces
          /\ \/ pc' \in DecodePlaces /\ (tool = "decode" \/ pc \in DecodePlaces)
             \/ pc' = "done"
             \/ pc' = "aborted" /\ tool = "decode" /\ NotANumber("limit")
      BY <1>2 DEF Decoding, RunDecode, AbortDecode, RunOther, SkipFile, OpenFile, ReadChunk,
         CloseFile, Sort, DumpMessage, ReturnDecoded, Parsed
    <3> QED BY <1>2, <3>1, DecodingKeepsArguments, ToolKept DEF PlaceOK
  <2>2. deferred = <<>> /\ live = {} /\ deferred' = <<>> /\ live' = {}
    BY <2>1 DEF DepthOK
  <2> QED
    BY <2>1, <2>2 DEF PlaceOK, DeferredOK, DepthOK, DialogOK, AbortsAreKnown, Places, Own,
       ServicePlaces, InstrumentPlaces, ScriptPlaces
<1> QED BY <1>1, <1>2

\* Each tool goes on at its own places.
\* Threads run only while instruments has a connection.
LEMMA ThreadsHaveAConnection ==
  ASSUME ToolInv, Terminate
  PROVE  /\ tool = "instruments" /\ failed /\ pc' = "aborted"
         /\ UNCHANGED <<deferred, live, calls, response, surroundings>>
         /\ pc \notin MainPlaces \cup DecodePlaces
<1>1. "threads" \in live
  BY DEF Terminate
<1>2. tool = "instruments"
  BY <1>1 DEF ToolInv, DeferredOK, Own, Plists
<1>3. pc \notin MainPlaces \cup DecodePlaces
  BY <1>1 DEF ToolInv, DepthOK
<1> QED BY <1>2, <1>3 DEF Terminate

LEMMA PlaceStep ==
  ASSUME ToolInv, OnDevice PROVE PlaceOK'
<1> USE DEF ToolInv, Places, MainPlaces, DecodePlaces, ServicePlaces, InstrumentPlaces,
            ScriptPlaces, DeviceCommands
<1>0. tool' = tool
  BY DevicesKeepTheDecoder, ToolKept
<1>1. CASE Prepare
  BY <1>0, <1>1 DEF PlaceOK, Prepare, RunDevice, MissingArgs, InvalidMode, ListDevices, NoDevice,
     FreeList, CanNotOpen, OpenDevice, ReturnFrom, AbortFrom, Create, Goto
<1>2. CASE Serve
  BY <1>0, <1>2 DEF PlaceOK, Serve, NewService, ConnectService, CanNotConnect, AssertionFails,
     GetValue, SetDeveloperMode, ReturnFrom, AbortFrom, Create, Goto
<1>3. CASE Instruments
  <2>1. /\ pc \in InstrumentPlaces
        /\ pc' \in InstrumentPlaces \cup {"unwind", "aborted"}
    BY <1>3 DEF Instruments, InvalidPort, NewTransport, NewConnection, ConnectSecure, ConnectPlain,
       Opened, NoSubcommand, AbortScript, RunScript, MakeChannel, AfterChannel, SendMessageSync,
       AfterCall, AfterScript, Cancel, AfterCancel, Returns, Continue, NullPointer,
       ReturnFrom, AbortFrom, Create, Goto
  <2> QED BY <1>0, <2>1 DEF PlaceOK
<1>4. CASE Finish \/ FallSilent \/ WorkerFails
  BY <1>0, <1>4 DEF PlaceOK, Finish, Unwind, Return, FallSilent, WorkerFails, Goto
<1>5. CASE Terminate
  BY <1>0, <1>5, ThreadsHaveAConnection DEF PlaceOK
<1> QED BY <1>1, <1>2, <1>3, <1>4, <1>5 DEF OnDevice

LEMMA DialogStep ==
  ASSUME ToolInv, OnDevice PROVE DialogOK'
<1> USE DEF ToolInv
<1>0. script.calls \in Nat
  BY ScriptsAssumption DEF script, Script, Unknown
<1>1. CASE Prepare
  BY <1>1 DEF DialogOK, Prepare, RunDevice, MissingArgs, InvalidMode, ListDevices, NoDevice,
     FreeList, CanNotOpen, OpenDevice, ReturnFrom, AbortFrom, Create, Goto, Nothing
<1>2. CASE Serve
  BY <1>2 DEF DialogOK, Serve, NewService, ConnectService, CanNotConnect, AssertionFails,
     GetValue, SetDeveloperMode, ReturnFrom, AbortFrom, Create, Goto, Nothing
<1>3. CASE Instruments
  BY <1>0, <1>3 DEF DialogOK, Instruments, InvalidPort, NewTransport, NewConnection, ConnectSecure,
     ConnectPlain,
     Opened, NoSubcommand, AbortScript, RunScript, MakeChannel, AfterChannel, SendMessageSync,
     AfterCall, AfterScript, Cancel, AfterCancel, Returns, Continue, NullPointer,
     ReturnFrom, AbortFrom, Create, Goto, Nothing, Answer, Remaining
<1>4. CASE Finish \/ FallSilent \/ WorkerFails
  BY <1>4 DEF DialogOK, Finish, Unwind, Return, FallSilent, WorkerFails, Goto, Nothing
<1>5. CASE Terminate
  BY <1>5 DEF DialogOK, Terminate
<1> QED BY <1>1, <1>2, <1>3, <1>4, <1>5 DEF OnDevice

LEMMA AbortStep ==
  ASSUME ToolInv, OnDevice PROVE AbortsAreKnown'
<1> USE DEF ToolInv
<1>0. /\ tool' = tool /\ words' = words /\ word' = word
      /\ \A flag : NotANumber(flag)' = NotANumber(flag)
  BY DevicesKeepTheDecoder, ToolKept
<1>1. CASE Prepare
  <2>1. pc' = "aborted" => tool = "set_developer_mode" /\ word \notin DOMAIN Numbers /\ live' = {}
    BY <1>1 DEF Prepare, RunDevice, MissingArgs, InvalidMode, ListDevices, NoDevice, BadMode,
       FreeList, CanNotOpen, OpenDevice, ReturnFrom, AbortFrom, Create, Goto, Nothing, DepthOK
  <2> QED BY <1>0, <2>1 DEF AbortsAreKnown
<1>2. CASE Serve
  <2>1. pc' = "aborted" => tool = "get_value" /\ "client" \notin live'
    BY <1>2 DEF Serve, NewService, ConnectService, CanNotConnect, AssertionFails,
       GetValue, SetDeveloperMode, ReturnFrom, AbortFrom, Create, Goto, Nothing
  <2> QED BY <1>0, <2>1 DEF AbortsAreKnown
<1>3. CASE Instruments
  <2>1. ASSUME pc' = "aborted"
        PROVE  \/ words = 0 \/ response' \in {"empty", "null"}
               \/ NotANumber("port") \/ NotANumber("pid")
    BY <1>3, <2>1 DEF Instruments, InvalidPort, NewTransport, NewConnection, ConnectSecure,
       ConnectPlain,
       Opened, NoSubcommand, AbortScript, RunScript, MakeChannel, AfterChannel, SendMessageSync,
       AfterCall, AfterScript, Cancel, AfterCancel, Returns, Continue, NullPointer,
       ReturnFrom, AbortFrom, Create, Goto, Nothing, Usable, IfDebug, InvalidPid, DialogOK
  <2>2. tool = "instruments"
    BY <1>3 DEF Instruments, InvalidPort, NewTransport, NewConnection, ConnectSecure,
       ConnectPlain,
       Opened, NoSubcommand, AbortScript, RunScript, MakeChannel, AfterChannel, SendMessageSync,
       AfterCall, AfterScript, Cancel, AfterCancel, Returns, Continue, NullPointer,
       ReturnFrom, AbortFrom, Create, Goto, PlaceOK, InstrumentPlaces, ScriptPlaces
  <2> QED BY <1>0, <2>1, <2>2 DEF AbortsAreKnown
<1>4. CASE Finish \/ FallSilent \/ WorkerFails
  <2>1. pc' = "aborted" => pc = "aborted" /\ UNCHANGED <<live, response, failed>>
    BY <1>4 DEF Finish, Unwind, Return, FallSilent, WorkerFails, Goto, Nothing
  <2>2. failed \in BOOLEAN
    BY DEF DialogOK
  <2>3. ASSUME pc = "aborted", UNCHANGED <<live, response, failed>> PROVE AbortsAreKnown'
    BY <1>0, <2>2, <2>3, Zenon DEF AbortsAreKnown
  <2> QED BY <2>1, <2>3 DEF AbortsAreKnown
<1>5. CASE Terminate
  <2>1. tool = "instruments" /\ failed' = failed /\ failed = TRUE
    BY <1>5, ThreadsHaveAConnection DEF DialogOK
  <2> QED BY <1>0, <2>1 DEF AbortsAreKnown
<1> QED BY <1>1, <1>2, <1>3, <1>4, <1>5 DEF OnDevice

\* The deferred functions, one more and one less.
LEMMA Stacks ==
  /\ \A a : deferred = <<>> => InReverse(a) = <<a>>
  /\ \A a, b : deferred = <<b>> => InReverse(a) = <<a, b>>
  /\ \A a, b, c : deferred = <<b, c>> => InReverse(a) = <<a, b, c>>
  /\ \A a : Head(<<a>>) = a /\ Tail(<<a>>) = <<>> /\ <<a>> # <<>>
  /\ \A a, b : Head(<<a, b>>) = a /\ Tail(<<a, b>>) = <<b>> /\ <<a, b>> # <<>>
  /\ \A a, b, c : Head(<<a, b, c>>) = a /\ Tail(<<a, b, c>>) = <<b, c>> /\ <<a, b, c>> # <<>>
<1>1. ASSUME NEW a, deferred = <<>> PROVE InReverse(a) = <<a>>
  BY <1>1 DEF InReverse
<1>2. ASSUME NEW a, NEW b, deferred = <<b>> PROVE InReverse(a) = <<a, b>>
  <2> DEFINE S == {a, b}
             s == <<a>> \o <<b>>
  <2>1. <<a>> \in Seq(S) /\ <<b>> \in Seq(S) /\ <<a, b>> \in Seq(S)
    OBVIOUS
  <2>2. /\ s \in Seq(S) /\ Len(s) = Len(<<a>>) + Len(<<b>>)
        /\ \A n \in 1..(Len(<<a>>) + Len(<<b>>)) :
             s[n] = IF n <= Len(<<a>>) THEN <<a>>[n] ELSE <<b>>[n - Len(<<a>>)]
    BY <2>1, ConcatProperties
  <2> HIDE DEF s
  <2>3. Len(s) = 2 /\ s[1] = a /\ s[2] = b
    BY <2>2
  <2>4. s = <<a, b>>
    BY <2>1, <2>2, <2>3, SeqEqual
  <2> QED BY <1>2, <2>4 DEF s, InReverse
<1>3. ASSUME NEW a, NEW b, NEW c, deferred = <<b, c>> PROVE InReverse(a) = <<a, b, c>>
  <2> DEFINE S == {a, b, c}
             s == <<a>> \o <<b, c>>
  <2>1. <<a>> \in Seq(S) /\ <<b, c>> \in Seq(S) /\ <<a, b, c>> \in Seq(S)
    OBVIOUS
  <2>2. /\ s \in Seq(S) /\ Len(s) = Len(<<a>>) + Len(<<b, c>>)
        /\ \A n \in 1..(Len(<<a>>) + Len(<<b, c>>)) :
             s[n] = IF n <= Len(<<a>>) THEN <<a>>[n] ELSE <<b, c>>[n - Len(<<a>>)]
    BY <2>1, ConcatProperties
  <2> HIDE DEF s
  <2>3. Len(s) = 3 /\ s[1] = a /\ s[2] = b /\ s[3] = c
    BY <2>2
  <2>4. s = <<a, b, c>>
    BY <2>1, <2>2, <2>3, SeqEqual
  <2> QED BY <1>3, <2>4 DEF s, InReverse
<1>4. \A a : Head(<<a>>) = a /\ Tail(<<a>>) = <<>> /\ <<a>> # <<>>
  OBVIOUS
<1>5. \A a, b : Head(<<a, b>>) = a /\ Tail(<<a, b>>) = <<b>> /\ <<a, b>> # <<>>
  OBVIOUS
<1>6. \A a, b, c : Head(<<a, b, c>>) = a /\ Tail(<<a, b, c>>) = <<b, c>> /\ <<a, b, c>> # <<>>
  OBVIOUS
<1> QED BY <1>1, <1>2, <1>3, <1>4, <1>5, <1>6

LEMMA StackStep ==
  ASSUME ToolInv, OnDevice PROVE DeferredOK' /\ DepthOK'
<1> USE DEF ToolInv, Places, MainPlaces, DecodePlaces, ServicePlaces, InstrumentPlaces, ScriptPlaces
<1>0. tool' = tool
  BY DevicesKeepTheDecoder, ToolKept
<1> USE DEF PlaceOK, DeferredOK, DepthOK, Own, Plists, Resources, Goto
<1>1. CASE Prepare
  <2>1. CASE OpenDevice
    <3>1. /\ deferred = <<>> /\ live = {} /\ tool \in DeviceCommands
          /\ pc' = IF tool = "instruments" THEN "transport" ELSE "service"
          /\ deferred' = InReverse("device") /\ live' = {"device"}
      BY <2>1 DEF OpenDevice, Create, Defer
    <3>2. deferred' = <<"device">>
      BY <3>1, Stacks
    <3> QED BY <1>0, <3>1, <3>2 DEF DeviceCommands
  <2>2. CASE ListDevices
    <3>1. /\ deferred = <<>> /\ live = {} /\ tool \in DeviceCommands /\ deferred' = <<>>
          /\ \/ pc' = "list" /\ live' = {"list"}
             \/ pc' = "unwind" /\ live' = {}
      BY <2>2 DEF ListDevices, ReturnFrom, Nothing
    <3> QED BY <1>0, <3>1 DEF DeviceCommands
  <2>3. CASE NoDevice \/ FreeList
    <3>1. /\ deferred = <<>> /\ live = {"list"} /\ tool \in DeviceCommands /\ deferred' = <<>>
          /\ \/ pc' = "unwind" /\ live' = {"list"}
             \/ pc' = "new" /\ live' = {}
      BY <2>3 DEF NoDevice, FreeList, ReturnFrom, Nothing
    <3> QED BY <1>0, <3>1 DEF DeviceCommands
  <2> QED
    BY <1>0, <1>1, <2>1, <2>2, <2>3 DEF Prepare, RunDevice, MissingArgs, InvalidMode, CanNotOpen,
       ReturnFrom, AbortFrom, Nothing, Parsed
<1>2. CASE Serve
  <2>1. CASE NewService
    <3>1. /\ deferred = <<"device">> /\ Own = {"device"} /\ live' = live \cup {"service"}
          /\ pc' = "connect" /\ tool \in {"get_value", "set_developer_mode"}
          /\ deferred' = InReverse("service")
      BY <2>1 DEF NewService, Create, Defer
    <3>2. deferred' = <<"service", "device">> /\ Own' = {"service", "device"}
      BY <3>1, Stacks
    <3> QED BY <1>0, <3>1, <3>2
  <2>2. CASE ConnectService
    <3>1. /\ deferred = <<"service", "device">> /\ Own = {"service", "device"}
          /\ live' \in {live, live \cup {"client"}}
          /\ pc' = "call" /\ tool \in {"get_value", "set_developer_mode"}
          /\ deferred' = InReverse("session")
      BY <2>2 DEF ConnectService, Defer
    <3>2. /\ deferred' = <<"session", "service", "device">>
          /\ Own' \in {{"service", "device"}, {"client", "service", "device"}}
      <4>1. deferred' = <<"session", "service", "device">>
        <5>1. deferred = <<"service", "device">> /\ deferred' = InReverse("session")
          BY <3>1
        <5>2. deferred = <<"service", "device">>
                => InReverse("session") = <<"session", "service", "device">>
          BY Stacks
        <5> QED BY <5>1, <5>2
      <4>2. Own' \in {Own, Own \cup {"client"}}
        BY <3>1
      <4> QED BY <3>1, <4>1, <4>2
    <3>3. live' \subseteq Resources
      BY <3>1
    <3> QED BY <1>0, <3>1, <3>2, <3>3
  <2>3. CASE GetValue \/ SetDeveloperMode
    BY <1>0, <2>3 DEF GetValue, SetDeveloperMode
  <2> QED
    BY <1>0, <1>2, <2>1, <2>2, <2>3 DEF Serve, CanNotConnect, AssertionFails,
       ReturnFrom, AbortFrom, Nothing
<1>3. CASE Instruments
  <2>1. CASE NewTransport
    <3>1. /\ deferred = <<"device">> /\ Own = {"device"} /\ live' = live \cup {"transport"}
          /\ pc' = "connection" /\ tool = "instruments"
          /\ deferred' = InReverse("transport")
      BY <2>1 DEF NewTransport, Create, Defer
    <3>2. deferred' = <<"transport", "device">> /\ Own' = {"transport", "device"}
      BY <3>1, Stacks
    <3> QED BY <1>0, <3>1, <3>2
  <2>2. CASE NewConnection
    <3>1. /\ deferred = <<"transport", "device">> /\ Own = {"transport", "device"}
          /\ live' = live \cup {"connection"}
          /\ pc' = "secure" /\ tool = "instruments"
          /\ deferred' = InReverse("connection")
      BY <2>2 DEF NewConnection, Create, Defer
    <3>2. /\ deferred' = <<"connection", "transport", "device">>
          /\ Own' = {"connection", "transport", "device"}
      <4>1. deferred' = <<"connection", "transport", "device">>
        <5>1. deferred = <<"transport", "device">> /\ deferred' = InReverse("connection")
          BY <3>1
        <5>2. deferred = <<"transport", "device">>
                => InReverse("connection") = <<"connection", "transport", "device">>
          BY Stacks
        <5> QED BY <5>1, <5>2
      <4>2. Own' = Own \cup {"connection"}
        BY <3>1
      <4> QED BY <3>1, <4>1, <4>2
    <3>3. live' \subseteq Resources /\ "client" \notin live'
      BY <3>1, <3>2
    <3> QED BY <1>0, <3>1, <3>2, <3>3
  <2>3. CASE ConnectSecure
    BY <1>0, <2>3 DEF ConnectSecure, Opened, Nothing
  <2>4. CASE ConnectPlain
    BY <1>0, <2>4 DEF ConnectPlain, Opened, Nothing, ReturnFrom
  <2>5. CASE InvalidPort
    BY <1>0, <2>5 DEF InvalidPort, Nothing, AbortFrom
  <2>6. ASSUME Instruments,
               ~ (InvalidPort \/ NewTransport \/ NewConnection \/ ConnectSecure \/ ConnectPlain)
        PROVE  /\ pc \in ScriptPlaces /\ pc' \in ScriptPlaces \cup {"unwind", "aborted"}
               /\ UNCHANGED <<deferred, live>>
    BY <2>6 DEF Instruments, NoSubcommand, AbortScript, RunScript, MakeChannel, AfterChannel,
       SendMessageSync,
       AfterCall, AfterScript, Cancel, AfterCancel, Returns, Continue, NullPointer,
       ReturnFrom, AbortFrom, Nothing
  <2> QED BY <1>0, <1>3, <2>1, <2>2, <2>3, <2>4, <2>5, <2>6
<1>4. CASE Unwind
  <2>1. /\ live' = live \ Released(Head(deferred)) /\ deferred' = Tail(deferred)
        /\ deferred # <<>> /\ pc = "unwind" /\ pc' = "unwind"
    BY <1>4 DEF Unwind
  <2>2. live' \subseteq Resources /\ Own' = Own \ Released(Head(deferred))
    BY <2>1
  <2>3. /\ Released("device") = {"device"} /\ Released("service") = {"service"}
        /\ Released("transport") = {"transport"} /\ Released("session") = {"client"}
        /\ Released("connection") = {"client", "threads", "connection"}
    BY DEF Released
  <2>4. DeferredOK'
    <3>1. CASE deferred = <<"device">> /\ Own = {"device"}
      BY <2>1, <2>2, <2>3, <3>1, Stacks
    <3>2. CASE /\ tool # "instruments" /\ deferred = <<"service", "device">>
               /\ Own = {"service", "device"}
      <4>1. Own' = {"device"} /\ deferred' = <<"device">>
        BY <2>1, <2>2, <2>3, <3>2, Stacks
      <4> QED BY <2>2, <4>1
    <3>3. CASE /\ tool # "instruments" /\ deferred = <<"session", "service", "device">>
               /\ Own \in {{"service", "device"}, {"client", "service", "device"}}
      <4>1. Own' = {"service", "device"} /\ deferred' = <<"service", "device">>
        BY <2>1, <2>2, <2>3, <3>3, Stacks
      <4> QED BY <1>0, <2>2, <3>3, <4>1
    <3>4. CASE /\ tool = "instruments" /\ deferred = <<"transport", "device">>
               /\ Own = {"transport", "device"}
      <4>1. Own' = {"device"} /\ deferred' = <<"device">>
        BY <2>1, <2>2, <2>3, <3>4, Stacks
      <4> QED BY <2>2, <4>1
    <3>5. CASE /\ tool = "instruments" /\ deferred = <<"connection", "transport", "device">>
               /\ Own \in {{"connection", "transport", "device"},
                           {"client", "threads", "connection", "transport", "device"}}
      <4>1. Own' = {"transport", "device"} /\ deferred' = <<"transport", "device">>
        BY <2>1, <2>2, <2>3, <3>5, Stacks
      <4> QED BY <1>0, <2>2, <3>5, <4>1
    <3> QED BY <2>1, <3>1, <3>2, <3>3, <3>4, <3>5
  <2> QED BY <2>1, <2>4
<1>5. CASE Return
  BY <1>0, <1>5 DEF Return, Nothing
<1>6. CASE FallSilent \/ WorkerFails
  BY <1>0, <1>6 DEF FallSilent, WorkerFails
<1>7. CASE Terminate
  BY <1>0, <1>7, ThreadsHaveAConnection
<1> QED BY <1>1, <1>2, <1>3, <1>4, <1>5, <1>6, <1>7 DEF OnDevice, Finish

------------------------------------------------------------------

-----------------------------------------------------------------------------
(* Least counterexamples, and with them what FlattenSeq computes *)

\* A set of naturals that is not empty has a least element.
LEMMA LeastNumber ==
  ASSUME NEW S \in SUBSET Nat, S # {}
  PROVE  \E least \in S : \A n \in S : least <= n
<1> DEFINE lt == {pair \in Nat \X Nat : pair[1] < pair[2]}
<1>1. IsWellFoundedOn(lt, Nat)
  BY NatLessThanWellFounded DEF OpToRel
<1>2. PICK least \in S : \A n \in S : ~ (<<n, least>> \in lt)
  BY <1>1, WFMin
<1>3. ASSUME NEW n \in S, n < least PROVE FALSE
  BY <1>2, <1>3
<1> HIDE DEF lt
<1> QED BY <1>3

\* Induction over a set of naturals.
LEMMA NatSetInduction ==
  ASSUME NEW S, 0 \in S, \A n \in Nat : n \in S => n + 1 \in S
  PROVE  Nat \subseteq S
<1>1. SUFFICES ASSUME Nat \ S # {} PROVE FALSE
  OBVIOUS
<1>2. PICK m \in Nat \ S : \A k \in Nat \ S : m <= k
  BY <1>1, LeastNumber
<1>3. m # 0 /\ m - 1 \in Nat /\ m - 1 \in S
  BY <1>2
<1> QED BY <1>3

\* g[p] is the concatenation of the first p sequences of seqs.
Flattens(g, seqs) ==
  g = [p \in 1..Len(seqs) |-> IF p = 1 THEN seqs[p] ELSE g[p - 1] \o seqs[p]]

Joined(g, p, seqs) == IF p = 1 THEN seqs[p] ELSE g[p - 1] \o seqs[p]

LEMMA FlattensAt ==
  ASSUME NEW g, NEW seqs, Flattens(g, seqs), NEW p \in 1..Len(seqs)
  PROVE  g[p] = Joined(g, p, seqs)
<1> DEFINE f == [j \in 1..Len(seqs) |-> Joined(g, j, seqs)]
<1>1. g = f
  BY Zenon DEF Flattens, Joined
<1>2. f[p] = Joined(g, p, seqs)
  OBVIOUS
<1> HIDE DEF f
<1>3. g[p] = f[p]
  BY <1>1
<1> QED BY <1>2, <1>3

LEMMA FlattensIf ==
  ASSUME NEW S, NEW seqs \in Seq(Seq(S)), NEW g \in [1..Len(seqs) -> Seq(S)],
         \A p \in 1..Len(seqs) : g[p] = Joined(g, p, seqs)
  PROVE  Flattens(g, seqs)
<1> DEFINE f == [j \in 1..Len(seqs) |-> Joined(g, j, seqs)]
<1>1. g = [j \in 1..Len(seqs) |-> g[j]]
  OBVIOUS
<1>2. \A j \in 1..Len(seqs) : f[j] = g[j]
  OBVIOUS
<1>3. f = g
  BY <1>1, <1>2
<1> QED BY <1>3, Zenon DEF Flattens, Joined

LEMMA FlattenExists ==
  ASSUME NEW S, NEW seqs \in Seq(Seq(S))
  PROVE  \E g \in [1..Len(seqs) -> Seq(S)] : Flattens(g, seqs)
<1> DEFINE Some(n) == \E g \in [1..n -> Seq(S)] : \A p \in 1..n : g[p] = Joined(g, p, seqs)
           Done == {n \in Nat : n <= Len(seqs) => Some(n)}
<1>1. 0 \in Done
  <2>1. [p \in 1..0 |-> <<>>] \in [1..0 -> Seq(S)]
    OBVIOUS
  <2>2. \A p \in 1..0 : FALSE
    OBVIOUS
  <2>3. Some(0)
    BY <2>1, <2>2, Zenon
  <2> QED BY <2>3
<1>2. ASSUME NEW n \in Nat, n \in Done PROVE n + 1 \in Done
  <2>1. SUFFICES ASSUME n + 1 <= Len(seqs) PROVE Some(n + 1)
    <3> HIDE DEF Some
    <3> QED OBVIOUS
  <2>2. PICK h \in [1..n -> Seq(S)] : \A p \in 1..n : h[p] = Joined(h, p, seqs)
    <3>1. Some(n)
      <4> HIDE DEF Some
      <4> QED BY <1>2, <2>1
    <3> QED BY <3>1
  <2>3. seqs[n + 1] \in Seq(S)
    BY <2>1, ElementOfSeq
  <2> DEFINE next == IF n = 0 THEN seqs[n + 1] ELSE h[n] \o seqs[n + 1]
  <2>4. next \in Seq(S)
    <3>1. CASE n = 0
      BY <2>3, <3>1
    <3>2. CASE n # 0
      <4>1. h[n] \in Seq(S)
        BY <2>2, <3>2
      <4> QED BY <2>3, <3>2, <4>1, ConcatProperties
    <3> QED BY <3>1, <3>2
  <2> DEFINE g == [p \in 1..(n + 1) |-> IF p = n + 1 THEN next ELSE h[p]]
  <2>5. g \in [1..(n + 1) -> Seq(S)]
    <3> HIDE DEF next
    <3> QED BY <2>2, <2>4
  <2>6. ASSUME NEW p \in 1..(n + 1)
        PROVE  g[p] = Joined(g, p, seqs)
    <3>1. CASE p = n + 1
      <4>1. p # 1 => g[p - 1] = h[n] /\ n # 0
        BY <3>1
      <4>2. g[p] = next
        BY <3>1
      <4> HIDE DEF g
      <4> QED BY <3>1, <4>1, <4>2 DEF Joined
    <3>2. CASE p # n + 1
      <4>1. p \in 1..n /\ g[p] = h[p]
        BY <3>2
      <4>2. p # 1 => g[p - 1] = h[p - 1]
        BY <3>2
      <4> HIDE DEF g
      <4> QED BY <2>2, <4>1, <4>2 DEF Joined
    <3> QED BY <3>1, <3>2
  <2> HIDE DEF g
  <2> QED BY <2>5, <2>6
<1>3. Some(Len(seqs))
  <2> HIDE DEF Some
  <2>1. Len(seqs) \in Nat
    BY LenProperties
  <2>2. Nat \subseteq Done
    <3> HIDE DEF Done
    <3> QED BY <1>1, <1>2, NatSetInduction
  <2> QED BY <2>1, <2>2
<1>4. PICK g \in [1..Len(seqs) -> Seq(S)] :
        \A p \in 1..Len(seqs) : g[p] = Joined(g, p, seqs)
  BY <1>3
<1> QED BY <1>4, FlattensIf

LEMMA FlattenUnique ==
  ASSUME NEW ss, NEW tt, NEW g, NEW h, NEW n \in Nat,
         Len(ss) \in Nat, Len(tt) \in Nat, n <= Len(ss), n <= Len(tt),
         \A p \in 1..n : ss[p] = tt[p],
         Flattens(g, ss), Flattens(h, tt)
  PROVE  \A p \in 1..n : g[p] = h[p]
<1> DEFINE differ == {p \in 1..n : g[p] # h[p]}
<1> SUFFICES ASSUME differ # {} PROVE FALSE
  OBVIOUS
<1>1. PICK p \in differ : \A k \in differ : p <= k
  <2>1. differ \in SUBSET Nat
    OBVIOUS
  <2> HIDE DEF differ
  <2> QED BY <2>1, LeastNumber
<1>2. g[p] = Joined(g, p, ss) /\ h[p] = Joined(h, p, tt)
  BY <1>1, FlattensAt
<1>3. p # 1 => g[p - 1] = h[p - 1]
  BY <1>1
<1>4. ss[p] = tt[p] /\ g[p] # h[p]
  BY <1>1
<1> QED BY <1>2, <1>3, <1>4 DEF Joined

\* FlattenSeq is the last of the functions that Flattens describes.
LEMMA FlattenSeqIs ==
  ASSUME NEW S, NEW seqs \in Seq(Seq(S)), seqs # <<>>
  PROVE  \E g \in [1..Len(seqs) -> Seq(S)] :
           Flattens(g, seqs) /\ FlattenSeq(seqs) = g[Len(seqs)]
<1> DEFINE picked == CHOOSE g : Flattens(g, seqs)
<1>0. Len(seqs) \in Nat \ {0}
  BY EmptySeq
<1>1. PICK g \in [1..Len(seqs) -> Seq(S)] : Flattens(g, seqs)
  BY FlattenExists
<1>2. Flattens(picked, seqs)
  BY <1>1
<1>3. FlattenSeq(seqs) = picked[Len(seqs)]
  BY <1>0 DEF FlattenSeq, Flattens
<1>4. \A p \in 1..Len(seqs) : picked[p] = g[p]
  <2> HIDE DEF picked
  <2> QED BY <1>0, <1>1, <1>2, FlattenUnique
<1>5. FlattenSeq(seqs) = g[Len(seqs)]
  <2> HIDE DEF picked
  <2> QED BY <1>0, <1>3, <1>4
<1> QED BY <1>1, <1>5

LEMMA FlattenEmpty == FlattenSeq(<<>>) = <<>>
  BY EmptySeq DEF FlattenSeq

LEMMA FlattenIsSeq ==
  ASSUME NEW S, NEW seqs \in Seq(Seq(S))
  PROVE  FlattenSeq(seqs) \in Seq(S)
<1>1. CASE seqs = <<>>
  BY <1>1, FlattenEmpty, EmptySeq
<1>2. CASE seqs # <<>>
  <2>1. Len(seqs) \in 1..Len(seqs)
    BY <1>2, EmptySeq
  <2>2. PICK g \in [1..Len(seqs) -> Seq(S)] : FlattenSeq(seqs) = g[Len(seqs)]
    BY <1>2, FlattenSeqIs
  <2> QED BY <2>1, <2>2
<1> QED BY <1>1, <1>2

LEMMA FlattenAppend ==
  ASSUME NEW S, NEW seqs \in Seq(Seq(S)), NEW s \in Seq(S)
  PROVE  FlattenSeq(Append(seqs, s)) = FlattenSeq(seqs) \o s
<1> DEFINE more == Append(seqs, s)
<1>1. /\ more \in Seq(Seq(S)) /\ Len(more) = Len(seqs) + 1 /\ more # <<>>
      /\ \A p \in 1..Len(seqs) : more[p] = seqs[p]
      /\ more[Len(seqs) + 1] = s
  BY AppendProperties
<1> HIDE DEF more
<1>2. PICK h \in [1..Len(more) -> Seq(S)] :
        Flattens(h, more) /\ FlattenSeq(more) = h[Len(more)]
  BY <1>1, FlattenSeqIs
<1>3. CASE seqs = <<>>
  <2>1. Len(more) = 1 /\ h[1] = s
    BY <1>1, <1>2, <1>3 DEF Flattens
  <2> QED BY <1>2, <1>3, <2>1, FlattenEmpty, ConcatEmptySeq DEF more
<1>4. CASE seqs # <<>>
  <2>1. PICK g \in [1..Len(seqs) -> Seq(S)] :
          Flattens(g, seqs) /\ FlattenSeq(seqs) = g[Len(seqs)]
    BY <1>4, FlattenSeqIs
  <2>2. Len(seqs) \in Nat \ {0} /\ Len(more) \in Nat /\ Len(seqs) <= Len(more)
    BY <1>1, <1>4, EmptySeq
  <2>3. \A p \in 1..Len(seqs) : h[p] = g[p]
    <3>1. Flattens(h, more) /\ Flattens(g, seqs)
      BY <1>2, <2>1
    <3>2. PICK n \in Nat : n = Len(seqs)
      BY <2>2
    <3>3. n <= Len(seqs) /\ n <= Len(more)
      BY <2>2, <3>2
    <3>4. \A p \in 1..n : more[p] = seqs[p]
      BY <1>1, <3>2
    <3>5. Len(more) \in Nat /\ Len(seqs) \in Nat
      BY <2>2
    <3>6. \A p \in 1..n : h[p] = g[p]
      <4>1. /\ Len(more) \in Nat /\ Len(seqs) \in Nat /\ n <= Len(more) /\ n <= Len(seqs)
            /\ \A p \in 1..n : more[p] = seqs[p]
            /\ Flattens(h, more) /\ Flattens(g, seqs)
            => \A p \in 1..n : h[p] = g[p]
        BY FlattenUnique, SMTT(20)
      <4> QED BY <3>1, <3>3, <3>4, <3>5, <4>1
    <3> QED BY <3>2, <3>6
  <2>4. h[Len(seqs) + 1] = h[Len(seqs)] \o s
    <3>1. h[Len(seqs) + 1] = Joined(h, Len(seqs) + 1, more)
      BY <1>1, <1>2, FlattensAt
    <3> QED BY <1>1, <2>2, <3>1, SMTT(20) DEF Joined
  <2>5. h[Len(seqs)] = g[Len(seqs)]
    BY <2>2, <2>3
  <2> QED BY <1>1, <1>2, <2>1, <2>4, <2>5 DEF more
<1> QED BY <1>3, <1>4

-----------------------------------------------------------------------------
(* Joining the first sequences of a list *)

JoinFirst(f, n) == FlattenSeq([p \in 1..n |-> f[p]])

LEMMA JoinNone == ASSUME NEW f PROVE JoinFirst(f, 0) = <<>>
<1>1. [p \in 1..0 |-> f[p]] = <<>>
  OBVIOUS
<1> QED BY <1>1, FlattenEmpty DEF JoinFirst

LEMMA JoinNext ==
  ASSUME NEW S, NEW f, NEW n \in Nat, \A p \in 1..(n + 1) : f[p] \in Seq(S)
  PROVE  /\ JoinFirst(f, n) \in Seq(S)
         /\ JoinFirst(f, n + 1) = JoinFirst(f, n) \o f[n + 1]
<1> DEFINE some == [p \in 1..n |-> f[p]]
           more == [p \in 1..(n + 1) |-> f[p]]
<1>1. some \in Seq(Seq(S)) /\ Len(some) = n /\ f[n + 1] \in Seq(S)
  OBVIOUS
<1>2. more = Append(some, f[n + 1])
  <2>1. DOMAIN Append(some, f[n + 1]) = 1..(n + 1)
    BY <1>1, AppendProperties
  <2>2. \A p \in 1..(n + 1) : Append(some, f[n + 1])[p] = f[p]
    OBVIOUS
  <2> QED OBVIOUS
<1> HIDE DEF some, more
<1>3. FlattenSeq(some) \in Seq(S) /\ FlattenSeq(more) = FlattenSeq(some) \o f[n + 1]
  BY <1>1, <1>2, FlattenIsSeq, FlattenAppend
<1> QED BY <1>3 DEF JoinFirst, some, more

LEMMA JoinIsSeq ==
  ASSUME NEW S, NEW f, NEW n \in Nat, \A p \in 1..n : f[p] \in Seq(S)
  PROVE  JoinFirst(f, n) \in Seq(S)
<1>1. [p \in 1..n |-> f[p]] \in Seq(Seq(S))
  OBVIOUS
<1> QED BY <1>1, FlattenIsSeq DEF JoinFirst

\* What the first n join to are the first elements of what the first m join to.
Begins(s, t) == Len(s) <= Len(t) /\ \A p \in 1..Len(s) : t[p] = s[p]

LEMMA JoinBegins ==
  ASSUME NEW S, NEW f, NEW m \in Nat, \A p \in 1..m : f[p] \in Seq(S), NEW n \in 0..m
  PROVE  Begins(JoinFirst(f, n), JoinFirst(f, m))
<1> DEFINE done == {d \in Nat : n + d <= m => Begins(JoinFirst(f, n), JoinFirst(f, n + d))}
<1>1. 0 \in done
  <2>1. JoinFirst(f, n) \in Seq(S)
    BY JoinIsSeq
  <2>2. Begins(JoinFirst(f, n), JoinFirst(f, n))
    BY <2>1, LenProperties DEF Begins
  <2> QED BY <2>2
<1>2. ASSUME NEW d \in Nat, d \in done PROVE d + 1 \in done
  <2> SUFFICES ASSUME n + (d + 1) <= m
               PROVE  Begins(JoinFirst(f, n), JoinFirst(f, n + (d + 1)))
    OBVIOUS
  <2>1. Begins(JoinFirst(f, n), JoinFirst(f, n + d))
    BY <1>2
  <2>2. PICK q \in Nat : q = n + d /\ q + 1 = n + (d + 1) /\ q + 1 <= m
    OBVIOUS
  <2>3. \A p \in 1..(q + 1) : f[p] \in Seq(S)
    BY <2>2
  <2>4. JoinFirst(f, q) \in Seq(S) /\ JoinFirst(f, q + 1) = JoinFirst(f, q) \o f[q + 1]
    BY <2>3, JoinNext
  <2>5. f[q + 1] \in Seq(S)
    BY <2>2, <2>3
  <2>6. PICK a, b, c : a = JoinFirst(f, n) /\ b = JoinFirst(f, q) /\ c = f[q + 1]
    OBVIOUS
  <2>7. a \in Seq(S) /\ b \in Seq(S) /\ c \in Seq(S) /\ Begins(a, b)
    <3>1. \A p \in 1..n : f[p] \in Seq(S)
      OBVIOUS
    <3>2. a \in Seq(S)
      BY <2>6, <3>1, JoinIsSeq
    <3> QED BY <2>1, <2>2, <2>4, <2>5, <2>6, <3>2
  <2>8. Begins(a, b \o c)
    <3>1. /\ Len(b \o c) = Len(b) + Len(c) /\ Len(a) \in Nat /\ Len(b) \in Nat /\ Len(c) \in Nat
          /\ \A p \in 1..Len(b) : (b \o c)[p] = b[p]
      BY <2>7, ConcatProperties
    <3> QED BY <2>7, <3>1 DEF Begins
  <2> QED BY <2>2, <2>4, <2>6, <2>8
<1>3. Nat \subseteq done
  <2> HIDE DEF done
  <2> QED BY <1>1, <1>2, NatSetInduction
<1> DEFINE rest == m - n
<1>4. rest \in Nat /\ n + rest = m
  OBVIOUS
<1> HIDE DEF rest
<1>5. rest \in done
  BY <1>3, <1>4
<1>6. n + rest <= m
  BY <1>4
<1> QED BY <1>4, <1>5, <1>6

\* Empty sequences add nothing.
LEMMA JoinEmpties ==
  ASSUME NEW S, NEW f, NEW m \in Nat, \A p \in 1..m : f[p] \in Seq(S), NEW n \in 0..m,
         \A p \in (n + 1)..m : f[p] = <<>>
  PROVE  JoinFirst(f, m) = JoinFirst(f, n)
<1> DEFINE done == {d \in Nat : n + d <= m => JoinFirst(f, n + d) = JoinFirst(f, n)}
<1>1. 0 \in done
  OBVIOUS
<1>2. ASSUME NEW d \in Nat, d \in done PROVE d + 1 \in done
  <2> SUFFICES ASSUME n + (d + 1) <= m PROVE JoinFirst(f, n + (d + 1)) = JoinFirst(f, n)
    OBVIOUS
  <2>1. JoinFirst(f, n + d) = JoinFirst(f, n)
    BY <1>2
  <2>2. PICK q \in Nat : q = n + d /\ q + 1 = n + (d + 1) /\ q + 1 <= m
    OBVIOUS
  <2>3. \A p \in 1..(q + 1) : f[p] \in Seq(S)
    BY <2>2
  <2>4. JoinFirst(f, q) \in Seq(S) /\ JoinFirst(f, q + 1) = JoinFirst(f, q) \o f[q + 1]
    BY <2>3, JoinNext
  <2>5. f[q + 1] = <<>>
    BY <2>2
  <2>6. JoinFirst(f, q) \o <<>> = JoinFirst(f, q)
    BY <2>4, ConcatEmptySeq
  <2> QED BY <2>1, <2>2, <2>4, <2>5, <2>6
<1>3. Nat \subseteq done
  <2> HIDE DEF done
  <2> QED BY <1>1, <1>2, NatSetInduction
<1> DEFINE rest == m - n
<1>4. rest \in Nat /\ n + rest = m
  OBVIOUS
<1> HIDE DEF rest
<1>5. rest \in done
  BY <1>3, <1>4
<1>6. n + rest <= m
  BY <1>4
<1> QED BY <1>4, <1>5, <1>6

-----------------------------------------------------------------------------
(* What decode has done when it returns *)

\* The command line is what main was given; the words that parse_args has found are
\* those behind no flag, and a flag that waits for its value is the argument before.
FreeOnes == [p \in DOMAIN argv |-> FreeWord(p)]
ParsingOK ==
  /\ argv \in CommandLines
  /\ first = JoinFirst(FreeOnes, i - 1)
  /\ key # NoKey <=> i > 1 /\ argv[i - 1].flag
  /\ pc # "parse" => i = Len(argv) + 1

\* The files named behind the command: what is still to be decoded are the last of
\* them, and those before have been opened if they can be.
named == Tail(first)
Taken == Len(named) - Len(dump_file)
NamedFiles == [p \in DOMAIN named |-> DumpFile(named[p])]
Working == pc \in DecodePlaces \/ Decoded
NamedOK ==
  Working =>
    /\ Taken \in Nat
    /\ \A p \in 1..Len(dump_file) : dump_file[p] = named[Taken + p]
    /\ decoded = JoinFirst(NamedFiles, IF pc = "read" THEN Taken + 1 ELSE Taken)
    /\ pc \in {"print", "done"} => dump_file = <<>>

\* The file that is read is the one opened last, and what was found in it is what the
\* chunks read so far hold, all but the last of which were accepted.
Parts(file) == [p \in DOMAIN Chunks[file] |-> Part(file, p)]
OpenedOK ==
  pc = "read" =>
    /\ parsed = JoinFirst(Parts(Head(dump_file)), chunk)
    /\ Accepted(Head(dump_file), chunk)
    /\ decoded # <<>> /\ decoded[Len(decoded)] = Head(dump_file)

\* Without a limit the messages are all of those in the files that have been read.
SameMessages(s, t) ==
  Len(s) = Len(t) /\ \A m \in ToSet(t) : Count(s, m) = Count(t, m)
GatheredOK ==
  limit < 0 =>
    /\ pc = "decode" => messages = AllDecoded
    /\ pc = "read" => messages \o AllOf(Head(dump_file)) = AllDecoded
    /\ Working /\ pc \in {"print", "done"} => SameMessages(messages, AllDecoded)

\* With a limit the first of every file are among them, and no more are printed.
HoldsFirst(file) ==
  \A n \in 1..limit : n \in DOMAIN AllOf(file) => AllOf(file)[n] \in ToSet(messages)
Closed(n) == pc = "read" => n < Len(decoded)
LimitedOK ==
  limit >= 0 /\ Working =>
    /\ \A n \in DOMAIN decoded : Closed(n) => HoldsFirst(decoded[n])
    /\ Len(printed) <= limit

LimitReached == limit >= 0 /\ Len(printed) = limit
EndedOK ==
  /\ Decoded => Len(printed) = Len(messages) \/ LimitReached
  /\ pc = "parse" => decoded = <<>> /\ messages = <<>> /\ printed = <<>>

DecodingInv == ParsingOK /\ NamedOK /\ OpenedOK /\ GatheredOK /\ LimitedOK /\ EndedOK

-----------------------------------------------------------------------------
(* The steps of decode, and the others *)

\* main has read its arguments when it goes to a tool for a device.
LEMMA DevicesStartWhenParsed ==
  ASSUME ToolInv, OnDevice, pc = "parse" PROVE Parsed \/ pc' = pc
<1>1. Prepare => Parsed \/ pc' = pc
  BY DEF Prepare, RunDevice, MissingArgs, InvalidMode, ListDevices, NoDevice,
     FreeList, CanNotOpen, OpenDevice, ReturnFrom, AbortFrom, Create, Goto
<1>2. Serve => Parsed \/ pc' = pc
  BY DEF Serve, NewService, ConnectService, CanNotConnect, AssertionFails, GetValue,
     SetDeveloperMode, ReturnFrom, AbortFrom, Create, Goto
<1>3. Instruments => Parsed \/ pc' = pc
  BY DEF Instruments, InvalidPort, NewTransport, NewConnection, ConnectSecure, ConnectPlain,
     Opened, NoSubcommand, AbortScript, RunScript, MakeChannel, AfterChannel, SendMessageSync,
     AfterCall, AfterScript, Cancel, AfterCancel, Returns, Continue, NullPointer,
     ReturnFrom, AbortFrom, Create, Goto
<1>4. Finish \/ FallSilent \/ WorkerFails => Parsed \/ pc' = pc
  BY DEF Finish, Unwind, Return, FallSilent, WorkerFails, Goto
<1>5. ~Terminate
  BY ThreadsHaveAConnection DEF MainPlaces
<1> QED BY <1>1, <1>2, <1>3, <1>4, <1>5 DEF OnDevice

\* A step that is none of decode leaves what decode works on as it is, and decode
\* where it is.
Elsewhere ==
  /\ UNCHANGED <<argv, i, key, first, second, decoder>> /\ tool' = tool
  /\ pc' = pc \/ (pc' \notin DecodePlaces \cup {"parse"} /\ ~Decoded')
  /\ pc = "parse" => Parsed \/ pc' = pc

LEMMA DecodeSteps ==
  ASSUME ToolInv, [ToolNext]_toolVars
  PROVE  \/ Reading \/ RunDecode \/ SkipFile \/ OpenFile \/ ReadChunk \/ CloseFile \/ Sort
         \/ DumpMessage \/ ReturnDecoded \/ Elsewhere
<1>1. ASSUME UNCHANGED <<argv, i, key, first, second, decoder>>, pc' = pc PROVE Elsewhere
  <2>1. tool' = tool
    BY <1>1, ToolKept
  <2> QED BY <1>1, <2>1 DEF Elsewhere
<1>2. ASSUME OnDevice PROVE Elsewhere
  <2>1. UNCHANGED <<argv, i, key, first, second, decoder>>
    BY <1>2, DevicesKeepTheDecoder
  <2>2. pc' = pc \/ pc' \notin MainPlaces \cup DecodePlaces
    BY <1>2, DevicePlaces
  <2>3. pc = "parse" => Parsed \/ pc' = pc
    BY <1>2, DevicesStartWhenParsed
  <2>4. tool' = tool
    BY <2>1, ToolKept
  <2> QED BY <2>1, <2>2, <2>3, <2>4 DEF Elsewhere, MainPlaces, Decoded
<1>3. ASSUME AbortDecode PROVE Elsewhere
  <2>1. UNCHANGED <<argv, i, key, first, second, decoder>> /\ Parsed /\ pc' = "aborted"
    BY <1>3 DEF AbortDecode
  <2>2. tool' = tool
    BY <2>1, ToolKept
  <2> QED BY <2>1, <2>2 DEF Elsewhere, DecodePlaces, Decoded
<1>4. ASSUME RunOther PROVE Elsewhere
  <2>1. UNCHANGED <<argv, i, key, first, second, decoder>> /\ Parsed /\ pc' = "done"
        /\ tool # "decode"
    BY <1>4 DEF RunOther
  <2>2. tool' = tool
    BY <2>1, ToolKept
  <2> QED BY <2>1, <2>2 DEF Elsewhere, DecodePlaces, Decoded
<1>5. CASE UNCHANGED toolVars
  BY <1>1, <1>5 DEF toolVars, vars
<1>6. CASE (Reading \/ Decoding) /\ UNCHANGED device
  BY <1>3, <1>4, <1>6, Zenon DEF Decoding
<1> QED BY <1>2, <1>5, <1>6, Steps

LEMMA ReadingArguments ==
  ASSUME Reading
  PROVE  /\ pc = "parse" /\ pc' = "parse" /\ i <= Len(argv) /\ i' = i + 1
         /\ argv' = argv /\ UNCHANGED decoder
  BY DEF Reading, ReadEmpty, ReadFlag, ReadValue, ReadWord, ReadArgument

-----------------------------------------------------------------------------
(* parse_args finds the words behind no flag *)

LEMMA FreeWordIs ==
  ASSUME DecoderOK, NEW p \in 1..Len(argv)
  PROVE  /\ FreeOnes[p] = FreeWord(p) /\ FreeWord(p) \in Seq(STRING)
         /\ argv[p].flag \in BOOLEAN /\ argv[p].text \in STRING
<1>1. argv[p] \in Argument /\ p \in DOMAIN argv
  BY ElementOfSeq DEF DecoderOK
<1>2. argv[p].flag \in BOOLEAN /\ argv[p].text \in STRING
  BY <1>1 DEF Argument
<1>3. FreeOnes[p] = FreeWord(p)
  BY <1>1 DEF FreeOnes
<1>4. FreeWord(p) \in Seq(STRING)
  <2>1. <<argv[p].text>> \in Seq(STRING) /\ <<>> \in Seq(STRING)
    BY <1>2
  <2> QED BY <2>1, Zenon DEF FreeWord
<1> QED BY <1>2, <1>3, <1>4

\* The next argument: a word that is free is kept, the others are not.
LEMMA WordsStep ==
  ASSUME ToolInv, ParsingOK, Reading
  PROVE  /\ first' = first \o FreeWord(i)
         /\ key' # NoKey <=> argv[i].flag
<1>1. /\ i \in 1..Len(argv) /\ first \in Seq(STRING) /\ argv \in CommandLines
      /\ key # NoKey <=> i > 1 /\ argv[i - 1].flag
  BY ReadingArguments DEF ToolInv, DecoderOK, ParsingOK
<1>2. /\ argv[i].flag \in BOOLEAN /\ argv[i].text \in STRING
      /\ argv[i].flag => argv[i].text # ""
  <2>1. i \in DOMAIN argv
    BY <1>1 DEF ToolInv, DecoderOK
  <2>2. \A k \in DOMAIN argv : argv[k].flag => argv[k].text # ""
    BY <1>1, InputAssumption
  <2> QED BY <1>1, <2>1, <2>2, FreeWordIs DEF ToolInv
<1>3. FreeWord(i) = IF ~argv[i].flag /\ argv[i].text # "" /\ key = NoKey
                    THEN <<argv[i].text>> ELSE <<>>
  BY <1>1 DEF FreeWord, IsFree
<1>4. first \o <<>> = first /\ Append(first, argv[i].text) = first \o <<argv[i].text>>
  <2>1. first \o <<>> = first
    BY <1>1, ConcatEmptySeq
  <2>2. Append(first, argv[i].text) = first \o <<argv[i].text>>
    BY <1>1, <1>2, AppendIsConcat
  <2> QED BY <2>1, <2>2
<1>5. CASE ReadEmpty
  <2>1. argv[i] = Word("") /\ key' = NoKey /\ first' = first
    BY <1>5 DEF ReadEmpty, ReadArgument, arg
  <2>2. ~argv[i].flag /\ argv[i].text = ""
    <3>1. Word("").text = "" /\ Word("").flag = FALSE
      BY DEF Word
    <3>2. argv[i].text = "" /\ argv[i].flag = FALSE
      BY <2>1, <3>1, Zenon
    <3> QED BY <3>2
  <2> QED BY <1>3, <1>4, <2>1, <2>2
<1>6. CASE ReadFlag
  <2>1. argv[i].flag /\ key' = argv[i].text /\ first' = first
    BY <1>6 DEF ReadFlag, ReadArgument, arg
  <2> QED BY <1>2, <1>3, <1>4, <2>1 DEF NoKey
<1>7. CASE ReadValue
  <2>1. ~argv[i].flag /\ key # NoKey /\ key' = NoKey /\ first' = first
    BY <1>7 DEF ReadValue, ReadArgument, arg
  <2> QED BY <1>3, <1>4, <2>1
<1>8. CASE ReadWord
  <2>1. /\ ~argv[i].flag /\ argv[i].text # "" /\ key = NoKey /\ key' = key
        /\ first' = Append(first, argv[i].text)
    BY <1>8 DEF ReadWord, ReadArgument, arg
  <2> QED BY <1>3, <1>4, <2>1
<1> QED BY <1>5, <1>6, <1>7, <1>8 DEF Reading

LEMMA ParsingStep ==
  ASSUME ToolInv, ParsingOK, [ToolNext]_toolVars PROVE ParsingOK'
<1>1. CASE Reading
  <2>1. /\ pc' = "parse" /\ i \in 1..Len(argv) /\ i' = i + 1 /\ argv' = argv
    BY <1>1, ReadingArguments DEF ToolInv, DecoderOK
  <2>2. first' = first \o FreeWord(i) /\ (key' # NoKey <=> argv[i].flag)
    BY <1>1, WordsStep
  <2>3. FreeOnes' = FreeOnes
    BY <2>1 DEF FreeOnes, FreeWord, IsFree
  <2> DEFINE n == i - 1
  <2>4. n \in Nat /\ n + 1 = i /\ i' - 1 = i
    BY <2>1
  <2> HIDE DEF n
  <2>5. \A p \in 1..(n + 1) : FreeOnes[p] \in Seq(STRING)
    BY <2>1, <2>4, FreeWordIs DEF ToolInv
  <2>6. JoinFirst(FreeOnes, n + 1) = JoinFirst(FreeOnes, n) \o FreeOnes[n + 1]
    BY <2>4, <2>5, JoinNext
  <2>7. FreeOnes[i] = FreeWord(i) /\ first = JoinFirst(FreeOnes, n)
    BY <2>1, FreeWordIs DEF ToolInv, ParsingOK, n
  <2>8. first' = JoinFirst(FreeOnes', i' - 1)
    BY <2>2, <2>3, <2>4, <2>6, <2>7
  <2>9. key' # NoKey <=> i' > 1 /\ argv'[i' - 1].flag
    BY <2>1, <2>2, <2>4
  <2> QED BY <2>1, <2>8, <2>9 DEF ParsingOK
<1>2. ASSUME UNCHANGED <<argv, i, key, first>>, pc = "parse" => Parsed \/ pc' = pc
      PROVE  ParsingOK'
  <2>1. FreeOnes' = FreeOnes
    BY <1>2 DEF FreeOnes, FreeWord, IsFree
  <2>2. pc' # "parse" => i = Len(argv) + 1
    BY <1>2 DEF ParsingOK, Parsed, ToolInv, DecoderOK
  <2> QED BY <1>2, <2>1, <2>2 DEF ParsingOK
<1>3. CASE Elsewhere
  BY <1>2, <1>3 DEF Elsewhere
<1>4. CASE \/ RunDecode \/ SkipFile \/ OpenFile \/ ReadChunk \/ CloseFile \/ Sort
           \/ DumpMessage \/ ReturnDecoded
  <2>1. UNCHANGED <<argv, i, key, first>> /\ (pc # "parse" \/ Parsed)
    BY <1>4 DEF RunDecode, SkipFile, OpenFile, ReadChunk, CloseFile, Sort, DumpMessage,
       ReturnDecoded
  <2> QED BY <1>2, <2>1
<1> QED BY <1>1, <1>3, <1>4, DecodeSteps

-----------------------------------------------------------------------------
(* The files behind the command are opened one by one *)

LEMMA WhileWorking ==
  ASSUME ToolInv, Working
  PROVE  /\ tool = "decode" /\ named \in Seq(STRING) /\ Len(named) \in Nat
         /\ \A p \in 1..Len(named) :
              NamedFiles[p] = DumpFile(named[p]) /\ NamedFiles[p] \in Seq(STRING)
<1>1. tool = "decode"
  BY DEF Working, Decoded, ToolInv, PlaceOK
<1>2. first \in Seq(STRING) /\ first # <<>>
  BY <1>1 DEF ToolInv, DecoderOK, tool
<1>3. named \in Seq(STRING)
  BY <1>2, HeadTailProperties DEF named
<1>4. ASSUME NEW p \in 1..Len(named)
      PROVE  NamedFiles[p] = DumpFile(named[p]) /\ NamedFiles[p] \in Seq(STRING)
  <2>1. p \in DOMAIN named /\ named[p] \in STRING
    BY <1>3, ElementOfSeq, LenProperties
  <2>2. NamedFiles[p] = DumpFile(named[p])
    BY <2>1 DEF NamedFiles
  <2>3. <<named[p]>> \in Seq(STRING) /\ <<>> \in Seq(STRING)
    BY <2>1
  <2>4. DumpFile(named[p]) \in Seq(STRING)
    BY <2>3, Zenon DEF DumpFile
  <2> QED BY <2>2, <2>4
<1> QED BY <1>1, <1>3, <1>4, LenProperties

\* The next file, and what is behind it.
LEMMA NextFile ==
  ASSUME ToolInv, NamedOK, Working, dump_file # <<>>
  PROVE  /\ Taken \in Nat /\ Taken + 1 \in 1..Len(named) /\ Head(dump_file) = named[Taken + 1]
         /\ Len(Tail(dump_file)) = Len(dump_file) - 1
         /\ Len(named) - Len(Tail(dump_file)) = Taken + 1
         /\ \A p \in 1..Len(Tail(dump_file)) : Tail(dump_file)[p] = named[(Taken + 1) + p]
<1>1. dump_file \in Seq(STRING) /\ Len(dump_file) \in Nat \ {0}
  BY EmptySeq DEF ToolInv, DecoderOK
<1>2. /\ Head(dump_file) = dump_file[1] /\ Len(Tail(dump_file)) = Len(dump_file) - 1
      /\ \A p \in 1..Len(Tail(dump_file)) : Tail(dump_file)[p] = dump_file[p + 1]
  BY <1>1, HeadTailProperties
<1>3. Taken \in Nat /\ \A p \in 1..Len(dump_file) : dump_file[p] = named[Taken + p]
  BY DEF NamedOK
<1>4. Len(named) \in Nat
  BY WhileWorking
<1>5. Taken = Len(named) - Len(dump_file)
  BY DEF Taken
<1>6. Len(named) - Len(Tail(dump_file)) = Taken + 1 /\ Taken + 1 \in 1..Len(named)
  BY <1>1, <1>2, <1>3, <1>4, <1>5
<1>7. Head(dump_file) = named[Taken + 1]
  BY <1>1, <1>2, <1>3
<1>8. ASSUME NEW p \in 1..Len(Tail(dump_file))
      PROVE  Tail(dump_file)[p] = named[(Taken + 1) + p]
  <2>1. p + 1 \in 1..Len(dump_file) /\ Taken + (p + 1) = (Taken + 1) + p
    BY <1>1, <1>2, <1>3
  <2> QED BY <1>2, <1>3, <2>1
<1> QED BY <1>2, <1>3, <1>6, <1>7, <1>8

\* What has been opened when one more file has been dealt with.
LEMMA OneMoreNamed ==
  ASSUME ToolInv, Working, NEW n \in Nat, n + 1 \in 1..Len(named)
  PROVE  JoinFirst(NamedFiles, n + 1) = JoinFirst(NamedFiles, n) \o DumpFile(named[n + 1])
         /\ JoinFirst(NamedFiles, n) \in Seq(STRING)
<1>1. \A p \in 1..(n + 1) : NamedFiles[p] \in Seq(STRING)
  BY WhileWorking
<1>2. NamedFiles[n + 1] = DumpFile(named[n + 1])
  BY WhileWorking
<1> QED BY <1>1, <1>2, JoinNext

LEMMA NamedStep ==
  ASSUME ToolInv, ToolInv', NamedOK, EndedOK, [ToolNext]_toolVars PROVE NamedOK'
<1>k. ASSUME first' = first PROVE named' = named /\ NamedFiles' = NamedFiles
  BY <1>k DEF named, NamedFiles, DumpFile, Files
<1>1. CASE Reading
  <2>1. ~Working'
    BY <1>1, ReadingArguments DEF Working, DecodePlaces, Decoded
  <2> QED BY <2>1 DEF NamedOK
<1>2. CASE RunDecode
  <2>1. /\ first' = first /\ dump_file' = named /\ decoded' = <<>> /\ pc' = "decode"
    BY <1>2 DEF RunDecode, Parsed, EndedOK, named
  <2>2. named' = named /\ named \in Seq(STRING)
    <3>1. named' = named /\ Working'
      BY <1>k, <2>1 DEF Working, DecodePlaces
    <3>2. named' = dump_file' /\ dump_file' \in Seq(STRING)
      BY <2>1, <3>1 DEF ToolInv, DecoderOK
    <3> QED BY <3>1, <3>2
  <2>3. Taken' = 0
    BY <2>1, <2>2 DEF Taken
  <2>4. \A p \in 1..Len(dump_file') : dump_file'[p] = named'[0 + p]
    BY <2>1, <2>2
  <2> QED BY <2>1, <2>3, <2>4, JoinNone DEF NamedOK
<1>3. CASE SkipFile
  <2>1. /\ Working /\ dump_file # <<>> /\ Head(dump_file) \notin Files /\ pc = "decode"
        /\ dump_file' = Tail(dump_file) /\ decoded' = decoded /\ pc' = "decode" /\ first' = first
    BY <1>3 DEF SkipFile, Working, DecodePlaces
  <2>2. PICK n \in Nat : n = Taken
    BY <2>1, NextFile
  <2>3. /\ n + 1 \in 1..Len(named) /\ Head(dump_file) = named[n + 1]
        /\ Len(named) - Len(dump_file') = n + 1
        /\ \A p \in 1..Len(dump_file') : dump_file'[p] = named[(n + 1) + p]
    BY <2>1, <2>2, NextFile
  <2>4. /\ JoinFirst(NamedFiles, n + 1) = JoinFirst(NamedFiles, n) \o DumpFile(named[n + 1])
        /\ JoinFirst(NamedFiles, n) \in Seq(STRING)
    BY <2>1, <2>3, OneMoreNamed
  <2>5. DumpFile(named[n + 1]) = <<>>
    BY <2>1, <2>3 DEF DumpFile
  <2>6. decoded = JoinFirst(NamedFiles, n)
    BY <2>1, <2>2 DEF NamedOK
  <2>7. decoded' = JoinFirst(NamedFiles, n + 1)
    BY <2>1, <2>4, <2>5, <2>6, ConcatEmptySeq
  <2>8. named' = named /\ NamedFiles' = NamedFiles /\ Taken' = n + 1
    BY <1>k, <2>1, <2>3 DEF Taken
  <2> QED BY <2>1, <2>3, <2>7, <2>8 DEF NamedOK
<1>4. CASE OpenFile
  <2>1. /\ Working /\ dump_file # <<>> /\ Head(dump_file) \in Files /\ pc = "decode"
        /\ dump_file' = dump_file /\ decoded' = Append(decoded, Head(dump_file))
        /\ pc' = "read" /\ first' = first
    BY <1>4 DEF OpenFile, Working, DecodePlaces
  <2>2. PICK n \in Nat : n = Taken
    BY <2>1, NextFile
  <2>3. n + 1 \in 1..Len(named) /\ Head(dump_file) = named[n + 1]
    BY <2>1, <2>2, NextFile
  <2>4. /\ JoinFirst(NamedFiles, n + 1) = JoinFirst(NamedFiles, n) \o DumpFile(named[n + 1])
        /\ JoinFirst(NamedFiles, n) \in Seq(STRING)
    BY <2>1, <2>3, OneMoreNamed
  <2>5. DumpFile(named[n + 1]) = <<Head(dump_file)>> /\ Head(dump_file) \in STRING
    BY <2>1, <2>3, InputAssumption DEF DumpFile
  <2>6. decoded = JoinFirst(NamedFiles, n)
    BY <2>1, <2>2 DEF NamedOK
  <2>7. decoded' = JoinFirst(NamedFiles, n + 1)
    BY <2>1, <2>4, <2>5, <2>6, AppendIsConcat
  <2>8. named' = named /\ NamedFiles' = NamedFiles /\ Taken' = n
    BY <1>k, <2>1, <2>2 DEF Taken
  <2>9. \A p \in 1..Len(dump_file) : dump_file[p] = named[n + p]
    BY <2>1, <2>2 DEF NamedOK
  <2> QED BY <2>1, <2>7, <2>8, <2>9 DEF NamedOK
<1>5. CASE CloseFile
  <2>1. /\ Working /\ dump_file # <<>> /\ pc = "read"
        /\ dump_file' = Tail(dump_file) /\ decoded' = decoded /\ pc' = "decode" /\ first' = first
    BY <1>5 DEF CloseFile, Working, DecodePlaces, ToolInv, ReadingOK
  <2>2. PICK n \in Nat : n = Taken
    BY <2>1, NextFile
  <2>3. /\ Len(named) - Len(dump_file') = n + 1
        /\ \A p \in 1..Len(dump_file') : dump_file'[p] = named[(n + 1) + p]
    BY <2>1, <2>2, NextFile
  <2>4. decoded' = JoinFirst(NamedFiles, n + 1)
    BY <2>1, <2>2 DEF NamedOK
  <2>5. named' = named /\ NamedFiles' = NamedFiles /\ Taken' = n + 1
    BY <1>k, <2>1, <2>3 DEF Taken
  <2> QED BY <2>1, <2>3, <2>4, <2>5 DEF NamedOK
<1>6. ASSUME UNCHANGED <<first, dump_file, decoded>>, Working, pc' = "read" <=> pc = "read",
             pc' \in {"print", "done"} => pc \in {"print", "done"} \/ dump_file = <<>>
      PROVE  NamedOK'
  <2>1. named' = named /\ NamedFiles' = NamedFiles /\ Taken' = Taken
    BY <1>k, <1>6 DEF Taken
  <2>2. /\ Taken \in Nat
        /\ \A p \in 1..Len(dump_file) : dump_file[p] = named[Taken + p]
        /\ decoded = JoinFirst(NamedFiles, IF pc = "read" THEN Taken + 1 ELSE Taken)
        /\ pc \in {"print", "done"} => dump_file = <<>>
    BY <1>6 DEF NamedOK
  <2> QED BY <1>6, <2>1, <2>2 DEF NamedOK
<1>7. CASE ReadChunk \/ Sort \/ DumpMessage \/ ReturnDecoded
  <2>1. /\ UNCHANGED <<first, dump_file, decoded>> /\ Working /\ (pc' = "read" <=> pc = "read")
        /\ pc' \in {"print", "done"} => pc \in {"print", "done"} \/ dump_file = <<>>
    BY <1>7 DEF ReadChunk, Sort, DumpMessage, ReturnDecoded, Working, DecodePlaces
  <2> QED BY <1>6, <2>1
<1>8. CASE Elsewhere
  <2>1. CASE pc' = pc /\ Working
    BY <1>6, <1>8, <2>1 DEF Elsewhere
  <2>2. CASE pc' = pc /\ ~Working
    <3>1. ~Working'
      BY <1>8, <2>2 DEF Elsewhere, Working, Decoded
    <3> QED BY <3>1 DEF NamedOK
  <2>3. CASE pc' # pc
    <3>1. ~Working'
      BY <1>8, <2>3 DEF Elsewhere, Working
    <3> QED BY <3>1 DEF NamedOK
  <2> QED BY <2>1, <2>2, <2>3
<1> QED BY <1>1, <1>2, <1>3, <1>4, <1>5, <1>7, <1>8, DecodeSteps

-----------------------------------------------------------------------------
(* The file that is read *)

LEMMA PartsOfAFile ==
  ASSUME NEW f \in Files
  PROVE  /\ Len(Chunks[f]) \in Nat
         /\ \A p \in 1..Len(Chunks[f]) :
              Parts(f)[p] = Part(f, p) /\ Parts(f)[p] \in Seq(ParsedMessage)
         /\ AllOf(f) = JoinFirst(Parts(f), Len(Chunks[f])) /\ AllOf(f) \in Seq(ParsedMessage)
<1>1. DOMAIN Chunks[f] = 1..Len(Chunks[f]) /\ Len(Chunks[f]) \in Nat
  <2>1. Chunks[f] \in Seq([messages : Seq(ParsedMessage), accepted : BOOLEAN])
    BY InputAssumption
  <2> QED BY <2>1, LenProperties
<1>2. ASSUME NEW p \in 1..Len(Chunks[f])
      PROVE  Parts(f)[p] = Part(f, p) /\ Parts(f)[p] \in Seq(ParsedMessage)
  <2>1. Parts(f)[p] = Part(f, p)
    BY <1>1 DEF Parts
  <2>2. Chunks[f][p].messages \in Seq(ParsedMessage) /\ <<>> \in Seq(ParsedMessage)
    BY ChunksOfAFile
  <2>3. Part(f, p) \in Seq(ParsedMessage)
    BY <2>2, Zenon DEF Part
  <2> QED BY <2>1, <2>3
<1>3. AllOf(f) = JoinFirst(Parts(f), Len(Chunks[f]))
  <2>1. [p \in DOMAIN Chunks[f] |-> Part(f, p)] = [p \in 1..Len(Chunks[f]) |-> Parts(f)[p]]
    BY <1>1, <1>2
  <2> QED BY <2>1 DEF AllOf, JoinFirst
<1>4. AllOf(f) \in Seq(ParsedMessage)
  BY <1>1, <1>2, <1>3, JoinIsSeq
<1> QED BY <1>1, <1>2, <1>3, <1>4

LEMMA OpenedStep ==
  ASSUME ToolInv, ToolInv', OpenedOK, [ToolNext]_toolVars PROVE OpenedOK'
<1>1. CASE OpenFile
  <2>1. /\ dump_file' = dump_file /\ Head(dump_file) \in Files /\ chunk' = 0 /\ parsed' = <<>>
        /\ decoded' = Append(decoded, Head(dump_file)) /\ decoded \in Seq(Files)
    BY <1>1 DEF OpenFile, ToolInv, DecoderOK
  <2>2. decoded' # <<>> /\ decoded'[Len(decoded')] = Head(dump_file)
    BY <2>1, AppendProperties
  <2>3. parsed' = JoinFirst(Parts(Head(dump_file)), 0)
    BY <2>1, JoinNone
  <2>4. Accepted(Head(dump_file), 0)
    BY DEF Accepted
  <2> QED BY <2>1, <2>2, <2>3, <2>4 DEF OpenedOK, Parts, Part, Accepted
<1>2. CASE ReadChunk
  <2>1. /\ pc = "read" /\ chunk < Len(chunks) /\ ~Rejected /\ chunk' = chunk + 1
        /\ parsed' = parsed \o chunks[chunk + 1].messages
        /\ dump_file' = dump_file /\ decoded' = decoded
    BY <1>2 DEF ReadChunk
  <2>2. PICK f \in Files : f = Head(dump_file)
    BY <2>1 DEF ToolInv, ReadingOK
  <2>3. chunks = Chunks[f] /\ chunk \in Nat
    BY <2>2 DEF chunks, ToolInv, DecoderOK
  <2>4. /\ parsed = JoinFirst(Parts(f), chunk) /\ Accepted(f, chunk)
        /\ decoded # <<>> /\ decoded[Len(decoded)] = f
    BY <2>1, <2>2 DEF OpenedOK
  <2>5. Accepted(f, chunk + 1)
    <3> SUFFICES ASSUME NEW p \in 1..chunk PROVE Chunks[f][p].accepted
      BY <2>3 DEF Accepted
    <3>1. CASE p = chunk
      BY <2>1, <2>3, <3>1 DEF Rejected
    <3>2. CASE p # chunk
      BY <2>3, <2>4, <3>2 DEF Accepted
    <3> QED BY <3>1, <3>2
  <2>6. Len(Chunks[f]) \in Nat /\ chunk + 1 \in 1..Len(Chunks[f])
    BY <2>1, <2>3, PartsOfAFile
  <2>7. Parts(f)[chunk + 1] = Chunks[f][chunk + 1].messages
    BY <2>5, <2>6, PartsOfAFile DEF Part
  <2>8. JoinFirst(Parts(f), chunk + 1) = JoinFirst(Parts(f), chunk) \o Parts(f)[chunk + 1]
    <3>1. \A p \in 1..(chunk + 1) : Parts(f)[p] \in Seq(ParsedMessage)
      BY <2>3, <2>6, PartsOfAFile
    <3> QED BY <2>3, <3>1, JoinNext
  <2>9. parsed' = JoinFirst(Parts(f), chunk + 1)
    BY <2>1, <2>3, <2>4, <2>7, <2>8
  <2> QED BY <2>1, <2>2, <2>4, <2>5, <2>9 DEF OpenedOK, Parts, Part, Accepted
<1>3. CASE \/ Reading \/ RunDecode \/ SkipFile \/ CloseFile \/ Sort \/ DumpMessage \/ ReturnDecoded
  <2>1. pc' # "read"
    BY <1>3, ReadingArguments DEF RunDecode, SkipFile, CloseFile, Sort, DumpMessage, ReturnDecoded
  <2> QED BY <2>1 DEF OpenedOK
<1>4. CASE Elsewhere
  <2>1. pc' # "read" \/ pc' = pc
    BY <1>4 DEF Elsewhere, DecodePlaces
  <2>2. UNCHANGED <<dump_file, chunk, parsed, decoded>>
    BY <1>4 DEF Elsewhere
  <2> QED BY <2>1, <2>2 DEF OpenedOK, Parts, Part, Accepted
<1> QED BY <1>1, <1>2, <1>3, <1>4, DecodeSteps

\* Behind a chunk that the parser rejects a file has no messages, and what has been
\* found in a file are the first of its messages.
LEMMA FoundInFile ==
  ASSUME ToolInv, OpenedOK, pc = "read"
  PROVE  /\ Head(dump_file) \in Files
         /\ Begins(parsed, AllOf(Head(dump_file)))
         /\ Rejected \/ chunk = Len(chunks) => parsed = AllOf(Head(dump_file))
<1>1. PICK f \in Files : f = Head(dump_file)
  BY DEF ToolInv, ReadingOK
<1>2. chunks = Chunks[f] /\ chunk \in 0..Len(Chunks[f])
  BY <1>1, PartsOfAFile DEF chunks, ToolInv, DecoderOK, ReadingOK
<1>3. parsed = JoinFirst(Parts(f), chunk)
  BY <1>1 DEF OpenedOK
<1>4. PICK n \in Nat : n = Len(Chunks[f])
  BY PartsOfAFile
<1>5. /\ \A p \in 1..n : Parts(f)[p] = Part(f, p) /\ Parts(f)[p] \in Seq(ParsedMessage)
      /\ AllOf(f) = JoinFirst(Parts(f), n)
  BY <1>4, PartsOfAFile
<1>6. Begins(parsed, AllOf(f))
  BY <1>2, <1>3, <1>4, <1>5, JoinBegins
<1>7. ASSUME Rejected PROVE parsed = AllOf(f)
  <2>1. chunk > 0 /\ ~Chunks[f][chunk].accepted
    BY <1>2, <1>7 DEF Rejected
  <2>2. ASSUME NEW p \in (chunk + 1)..n PROVE Parts(f)[p] = <<>>
    <3>1. chunk \in 1..(p - 1) /\ p \in 1..n
      BY <1>2, <1>4, <2>1
    <3>2. ~Accepted(f, p)
      BY <2>1, <3>1 DEF Accepted
    <3> QED BY <1>5, <3>1, <3>2 DEF Part
  <2>3. chunk \in 0..n
    BY <1>2, <1>4
  <2> QED BY <1>3, <1>5, <2>2, <2>3, JoinEmpties
<1>8. ASSUME chunk = Len(chunks) PROVE parsed = AllOf(f)
  BY <1>2, <1>3, <1>4, <1>5, <1>8
<1> QED BY <1>1, <1>6, <1>7, <1>8

-----------------------------------------------------------------------------
(* What the files hold and what is printed *)

\* Sorting keeps the messages, each as often as it was there.
LEMMA OrdersKeep ==
  ASSUME NEW S, NEW s \in Seq(S), NEW t \in Orders(s)
  PROVE  SameMessages(t, s) /\ ToSet(s) \subseteq ToSet(t)
<1>1. t \in Seq(S) /\ Len(t) = Len(s)
  BY OrdersAreLists
<1>2. \A m \in ToSet(s) : Count(t, m) = Count(s, m)
  BY DEF Orders
<1>3. ASSUME NEW m \in ToSet(s), m \notin ToSet(t) PROVE FALSE
  <2> DEFINE here == {k \in DOMAIN s : s[k] = m}
             there == {k \in DOMAIN t : t[k] = m}
  <2>1. DOMAIN s = 1..Len(s) /\ Len(s) \in Nat
    BY LenProperties
  <2>2. here # {} /\ here \subseteq 1..Len(s)
    BY <1>3, <2>1 DEF ToSet
  <2>3. there = {}
    BY <1>3 DEF ToSet
  <2>4. Cardinality(there) = Cardinality(here)
    <3>1. Count(t, m) = Count(s, m)
      BY <1>2, <1>3
    <3> QED BY <3>1 DEF Count
  <2> HIDE DEF here, there
  <2>5. IsFiniteSet(here)
    <3>1. IsFiniteSet(1..Len(s))
      BY <2>1, FS_Interval
    <3> QED BY <2>2, <3>1, FS_Subset
  <2> QED BY <2>2, <2>3, <2>4, <2>5, FS_EmptySet
<1> QED BY <1>1, <1>2, <1>3 DEF SameMessages

LEMMA ElementsOfBoth ==
  ASSUME NEW S, NEW s \in Seq(S), NEW t \in Seq(S)
  PROVE  ToSet(s) \subseteq ToSet(s \o t) /\ ToSet(t) \subseteq ToSet(s \o t)
<1>1. /\ Len(s) \in Nat /\ Len(t) \in Nat
      /\ DOMAIN s = 1..Len(s) /\ DOMAIN t = 1..Len(t)
      /\ DOMAIN (s \o t) = 1..(Len(s) + Len(t))
  BY ConcatProperties, LenProperties
<1>2. /\ \A k \in 1..Len(s) : (s \o t)[k] = s[k]
      /\ \A k \in 1..Len(t) : (s \o t)[Len(s) + k] = t[k]
  BY <1>1, ConcatProperties
<1>3. ASSUME NEW k \in 1..Len(s) PROVE s[k] \in ToSet(s \o t)
  <2>1. k \in DOMAIN (s \o t)
    BY <1>1
  <2>2. (s \o t)[k] \in ToSet(s \o t)
    BY <2>1, Zenon DEF ToSet
  <2> QED BY <1>2, <2>2
<1>4. ASSUME NEW k \in 1..Len(t) PROVE t[k] \in ToSet(s \o t)
  <2>1. Len(s) + k \in DOMAIN (s \o t)
    BY <1>1
  <2>2. (s \o t)[Len(s) + k] \in ToSet(s \o t)
    BY <2>1, Zenon DEF ToSet
  <2> QED BY <1>2, <2>2
<1>5. ToSet(s) = {s[k] : k \in 1..Len(s)} /\ ToSet(t) = {t[k] : k \in 1..Len(t)}
  BY <1>1, Zenon DEF ToSet
<1> QED BY <1>3, <1>4, <1>5

\* What all files hold when one more has been opened.
LEMMA AllDecodedMore ==
  ASSUME DecoderOK, NEW f \in Files, decoded' = Append(decoded, f)
  PROVE  AllDecoded' = AllDecoded \o AllOf(f)
<1> DEFINE each == [k \in DOMAIN decoded |-> AllOf(decoded[k])]
           more == [k \in DOMAIN decoded' |-> AllOf(decoded'[k])]
<1>1. /\ decoded \in Seq(Files) /\ DOMAIN decoded = 1..Len(decoded) /\ Len(decoded) \in Nat
      /\ \A k \in 1..Len(decoded) : decoded[k] \in Files
  BY ElementOfSeq DEF DecoderOK
<1>2. /\ DOMAIN decoded' = 1..(Len(decoded) + 1) /\ decoded'[Len(decoded) + 1] = f
      /\ \A k \in 1..Len(decoded) : decoded'[k] = decoded[k]
  BY <1>1, AppendProperties
<1>3. \A k \in 1..Len(decoded) : AllOf(decoded[k]) \in Seq(ParsedMessage)
  BY <1>1, PartsOfAFile
<1>4. each \in Seq(Seq(ParsedMessage)) /\ Len(each) = Len(decoded)
  BY <1>1, <1>3
<1>5. AllOf(f) \in Seq(ParsedMessage)
  BY PartsOfAFile
<1>6. more = Append(each, AllOf(f))
  <2>1. DOMAIN Append(each, AllOf(f)) = 1..(Len(decoded) + 1)
    BY <1>4, <1>5, AppendProperties
  <2>2. ASSUME NEW k \in 1..(Len(decoded) + 1) PROVE more[k] = Append(each, AllOf(f))[k]
    <3>1. CASE k = Len(decoded) + 1
      <4>1. more[k] = AllOf(f)
        BY <1>2, <3>1
      <4> HIDE DEF more, each
      <4> QED BY <1>4, <1>5, <3>1, <4>1, AppendProperties
    <3>2. CASE k # Len(decoded) + 1
      <4>1. k \in 1..Len(decoded)
        BY <1>1, <3>2
      <4>2. more[k] = AllOf(decoded[k]) /\ each[k] = AllOf(decoded[k])
        BY <1>1, <1>2, <4>1
      <4> HIDE DEF more, each
      <4> QED BY <1>4, <1>5, <4>1, <4>2, AppendProperties
    <3> QED BY <3>1, <3>2
  <2>3. more = [k \in 1..(Len(decoded) + 1) |-> more[k]]
    BY <1>2
  <2>4. Append(each, AllOf(f)) = [k \in 1..(Len(decoded) + 1) |-> Append(each, AllOf(f))[k]]
    <3> HIDE DEF each
    <3>1. Append(each, AllOf(f)) \in Seq(Seq(ParsedMessage))
      BY <1>4, <1>5, AppendProperties
    <3> QED BY <2>1, <3>1, LenProperties
  <2> HIDE DEF more, each
  <2> QED BY <2>2, <2>3, <2>4
<1> HIDE DEF each
<1>7. FlattenSeq(Append(each, AllOf(f))) = FlattenSeq(each) \o AllOf(f)
  BY <1>4, <1>5, FlattenAppend
<1>8. AllDecoded' = FlattenSeq(more)
  BY Zenon DEF AllDecoded, AllOf, Part, Accepted
<1>9. AllDecoded = FlattenSeq(each)
  BY DEF AllDecoded, each
<1> HIDE DEF more
<1> QED BY <1>6, <1>7, <1>8, <1>9

LEMMA AllDecodedKept == ASSUME decoded' = decoded PROVE AllDecoded' = AllDecoded
  BY DEF AllDecoded, AllOf, Part, Accepted

LEMMA GatheredStep ==
  ASSUME ToolInv, ToolInv', OpenedOK, GatheredOK, EndedOK, [ToolNext]_toolVars
  PROVE  GatheredOK'
<1>t. /\ messages \in Seq(ParsedMessage) /\ parsed \in Seq(ParsedMessage)
      /\ decoded \in Seq(Files) /\ limit \in Int
  BY DEF ToolInv, DecoderOK
<1>1. CASE Reading
  <2>1. pc' = "parse" /\ ~Working'
    BY <1>1, ReadingArguments DEF Working, DecodePlaces, Decoded
  <2> QED BY <2>1 DEF GatheredOK
<1>2. CASE RunDecode
  <2>1. messages' = <<>> /\ decoded' = <<>> /\ pc' = "decode"
    BY <1>2 DEF RunDecode, Parsed, EndedOK
  <2>2. [k \in DOMAIN decoded' |-> AllOf(decoded'[k])] = <<>>
    BY <2>1
  <2>3. AllDecoded' = <<>>
    <3>1. AllDecoded' = FlattenSeq([k \in DOMAIN decoded' |-> AllOf(decoded'[k])])
      BY Zenon DEF AllDecoded, AllOf, Part, Accepted
    <3> QED BY <2>2, <3>1, FlattenEmpty
  <2> QED BY <2>1, <2>3 DEF GatheredOK
<1>3. CASE OpenFile
  <2>1. /\ limit' = limit /\ dump_file' = dump_file /\ messages' = messages
        /\ pc = "decode" /\ pc' = "read" /\ Head(dump_file) \in Files
        /\ decoded' = Append(decoded, Head(dump_file))
    BY <1>3 DEF OpenFile
  <2>2. AllDecoded' = AllDecoded \o AllOf(Head(dump_file))
    BY <2>1, AllDecodedMore DEF ToolInv
  <2>3. limit < 0 => messages = AllDecoded
    BY <2>1 DEF GatheredOK
  <2>4. AllOf(Head(dump_file))' = AllOf(Head(dump_file))
    BY <2>1 DEF AllOf, Part, Accepted
  <2> QED BY <2>1, <2>2, <2>3, <2>4 DEF GatheredOK
<1>4. CASE CloseFile
  <2>1. /\ limit' = limit /\ decoded' = decoded /\ messages' = messages \o parsed
        /\ pc = "read" /\ pc' = "decode"
        /\ limit < 0 => Rejected \/ chunk = Len(chunks)
    BY <1>4, <1>t DEF CloseFile, IsEnough
  <2>2. limit < 0 => parsed = AllOf(Head(dump_file))
    BY <2>1, FoundInFile
  <2>3. limit < 0 => messages \o AllOf(Head(dump_file)) = AllDecoded
    BY <2>1 DEF GatheredOK
  <2>4. AllDecoded' = AllDecoded
    BY <2>1, AllDecodedKept
  <2>5. limit < 0 => messages' = AllDecoded'
    BY <2>1, <2>2, <2>3, <2>4
  <2> QED BY <2>1, <2>5 DEF GatheredOK
<1>5. CASE Sort
  <2>1. /\ limit' = limit /\ decoded' = decoded /\ messages' \in Orders(messages)
        /\ pc = "decode" /\ pc' = "print"
    BY <1>5 DEF Sort
  <2>2. SameMessages(messages', messages)
    BY <1>t, <2>1, OrdersKeep
  <2>3. limit < 0 => messages = AllDecoded
    BY <2>1 DEF GatheredOK
  <2>4. AllDecoded' = AllDecoded
    BY <2>1, AllDecodedKept
  <2>5. limit' < 0 => SameMessages(messages', AllDecoded')
    BY <2>1, <2>2, <2>3, <2>4
  <2> QED BY <2>1, <2>5 DEF GatheredOK
<1>6. ASSUME UNCHANGED <<limit, decoded, messages, dump_file>>,
             pc' \in DecodePlaces \cup {"done"} /\ Working' => Working,
             pc' = "decode" => pc = "decode", pc' = "read" => pc = "read",
             Working' /\ pc' \in {"print", "done"} => pc \in {"print", "done"}
      PROVE  GatheredOK'
  <2>1. AllDecoded' = AllDecoded /\ AllOf(Head(dump_file))' = AllOf(Head(dump_file))
    BY <1>6, AllDecodedKept DEF AllOf, Part, Accepted
  <2>2. SameMessages(messages, AllDecoded)' = SameMessages(messages, AllDecoded)
    BY <1>6, <2>1 DEF SameMessages
  <2>3. Working' => pc' \in DecodePlaces \cup {"done"}
    BY DEF Working, Decoded
  <2> QED BY <1>6, <2>1, <2>2, <2>3 DEF GatheredOK
<1>7. CASE SkipFile
  <2>1. /\ UNCHANGED <<limit, decoded, messages>> /\ pc = "decode" /\ pc' = "decode"
    BY <1>7 DEF SkipFile
  <2>2. AllDecoded' = AllDecoded
    BY <2>1, AllDecodedKept
  <2> QED BY <2>1, <2>2 DEF GatheredOK
<1>8. CASE ReadChunk \/ DumpMessage \/ ReturnDecoded
  <2>1. /\ UNCHANGED <<limit, decoded, messages, dump_file>> /\ Working
        /\ pc' = pc \/ (pc = "print" /\ pc' = "done")
    BY <1>8 DEF ReadChunk, DumpMessage, ReturnDecoded, Working, DecodePlaces
  <2> QED BY <1>6, <2>1
<1>9. CASE Elsewhere
  <2>1. UNCHANGED <<limit, decoded, messages, dump_file>> /\ (pc' = pc \/ ~Working')
    BY <1>9 DEF Elsewhere, Working
  <2>2. pc' = pc => (Working' <=> Working)
    BY <1>9 DEF Elsewhere, Working, Decoded
  <2>3. pc' # pc => pc' \notin {"decode", "read"}
    BY <1>9 DEF Elsewhere, DecodePlaces
  <2> QED BY <1>6, <2>1, <2>2, <2>3
<1> QED BY <1>1, <1>2, <1>3, <1>4, <1>5, <1>7, <1>8, <1>9, DecodeSteps

\* The messages that a file begins with are not lost when it is closed: either
\* enough of them have been read, or all.
LEMMA ClosedHoldsFirst ==
  ASSUME ToolInv, OpenedOK, CloseFile, limit >= 0,
         NEW n \in 1..limit, n \in DOMAIN AllOf(Head(dump_file))
  PROVE  AllOf(Head(dump_file))[n] \in ToSet(messages')
<1>1. /\ messages' = messages \o parsed /\ pc = "read" /\ limit \in Int
      /\ messages \in Seq(ParsedMessage) /\ parsed \in Seq(ParsedMessage)
      /\ limit <= Len(parsed) \/ Rejected \/ chunk = Len(chunks)
  BY DEF CloseFile, IsEnough, ToolInv, DecoderOK
<1>2. PICK f \in Files : f = Head(dump_file)
  BY <1>1, FoundInFile
<1>3. /\ Begins(parsed, AllOf(f)) /\ AllOf(f) \in Seq(ParsedMessage)
      /\ Rejected \/ chunk = Len(chunks) => parsed = AllOf(f)
  BY <1>1, <1>2, FoundInFile, PartsOfAFile
<1>4. n \in 1..Len(AllOf(f)) /\ Len(parsed) \in Nat /\ DOMAIN parsed = 1..Len(parsed)
  BY <1>1, <1>2, <1>3, LenProperties
<1>5. n \in DOMAIN parsed /\ parsed[n] = AllOf(f)[n]
  BY <1>1, <1>3, <1>4 DEF Begins
<1>6. parsed[n] \in ToSet(parsed)
  BY <1>5, Zenon DEF ToSet
<1>7. parsed[n] \in ToSet(messages')
  BY <1>1, <1>6, ElementsOfBoth
<1> QED BY <1>2, <1>5, <1>7

LEMMA MoreHoldFirst ==
  ASSUME NEW f, HoldsFirst(f), limit' = limit, ToSet(messages) \subseteq ToSet(messages')
  PROVE  HoldsFirst(f)'
<1>1. AllOf(f)' = AllOf(f)
  BY DEF AllOf, Part, Accepted
<1> QED BY <1>1 DEF HoldsFirst

LEMMA LimitedStep ==
  ASSUME ToolInv, ToolInv', OpenedOK, LimitedOK, EndedOK, [ToolNext]_toolVars
  PROVE  LimitedOK'
<1>t. /\ messages \in Seq(ParsedMessage) /\ parsed \in Seq(ParsedMessage)
      /\ printed \in Seq(ParsedMessage) /\ Len(printed) \in Nat
      /\ decoded \in Seq(Files) /\ limit \in Int
      /\ Len(decoded) \in Nat /\ DOMAIN decoded = 1..Len(decoded)
  <2>1. /\ messages \in Seq(ParsedMessage) /\ parsed \in Seq(ParsedMessage)
        /\ printed \in Seq(ParsedMessage) /\ decoded \in Seq(Files) /\ limit \in Int
    BY DEF ToolInv, DecoderOK, PrintedOK
  <2> QED BY <2>1, LenProperties
<1>1. CASE Reading
  <2>1. ~Working'
    BY <1>1, ReadingArguments DEF Working, DecodePlaces, Decoded
  <2> QED BY <2>1 DEF LimitedOK
<1>2. CASE RunDecode
  <2>1. decoded' = <<>> /\ printed' = <<>>
    BY <1>2 DEF RunDecode, Parsed, EndedOK
  <2> QED BY <2>1 DEF LimitedOK
<1>3. CASE OpenFile
  <2>1. /\ limit' = limit /\ messages' = messages /\ printed' = printed /\ pc = "decode"
        /\ pc' = "read" /\ Working
        /\ decoded' = Append(decoded, Head(dump_file)) /\ Head(dump_file) \in Files
    BY <1>3 DEF OpenFile, Working, DecodePlaces
  <2>2. /\ Len(decoded') = Len(decoded) + 1
        /\ \A n \in 1..Len(decoded) : decoded'[n] = decoded[n]
        /\ DOMAIN decoded' = 1..(Len(decoded) + 1)
    BY <1>t, <2>1, AppendProperties
  <2>3. ASSUME limit' >= 0, NEW n \in DOMAIN decoded', n < Len(decoded')
        PROVE  HoldsFirst(decoded[n])' /\ decoded'[n] = decoded[n]
    <3>1. n \in DOMAIN decoded /\ Closed(n)
      BY <1>t, <2>1, <2>2, <2>3 DEF Closed
    <3>2. HoldsFirst(decoded[n])
      BY <2>1, <2>3, <3>1 DEF LimitedOK
    <3>3. decoded'[n] = decoded[n]
      BY <1>t, <2>2, <3>1
    <3>4. PICK f : f = decoded[n]
      OBVIOUS
    <3>5. \A m \in 1..limit' : m \in DOMAIN AllOf(f) => AllOf(f)[m] \in ToSet(messages')
      BY <2>1, <3>2, <3>4 DEF HoldsFirst
    <3> QED BY <3>3, <3>4, <3>5 DEF HoldsFirst, AllOf, Part, Accepted
  <2> QED BY <2>1, <2>3 DEF LimitedOK, Closed
<1>4. CASE CloseFile
  <2>1. /\ limit' = limit /\ messages' = messages \o parsed /\ printed' = printed /\ pc = "read"
        /\ pc' = "decode" /\ Working /\ decoded' = decoded
    BY <1>4 DEF CloseFile, Working, DecodePlaces
  <2>2. decoded # <<>> /\ decoded[Len(decoded)] = Head(dump_file)
    BY <2>1 DEF OpenedOK
  <2>3. ToSet(messages) \subseteq ToSet(messages')
    BY <1>t, <2>1, ElementsOfBoth
  <2>4. ASSUME limit >= 0, NEW n \in DOMAIN decoded, NEW m \in 1..limit,
               m \in DOMAIN AllOf(decoded[n])
        PROVE  AllOf(decoded[n])[m] \in ToSet(messages')
    <3>1. CASE n = Len(decoded)
      BY <1>4, <2>2, <2>4, <3>1, ClosedHoldsFirst
    <3>2. CASE n # Len(decoded)
      <4>1. Closed(n)
        BY <1>t, <3>2 DEF Closed
      <4>2. HoldsFirst(decoded[n])
        BY <2>1, <2>4, <4>1 DEF LimitedOK
      <4> QED BY <2>3, <2>4, <4>2 DEF HoldsFirst
    <3> QED BY <3>1, <3>2
  <2>5. ASSUME limit >= 0, NEW n \in DOMAIN decoded' PROVE HoldsFirst(decoded[n])'
    BY <2>1, <2>4, <2>5 DEF HoldsFirst, AllOf, Part, Accepted
  <2> QED BY <2>1, <2>5 DEF LimitedOK
<1>5. ASSUME UNCHANGED <<limit, decoded>>, ToSet(messages) \subseteq ToSet(messages'),
             Working' => Working, pc = "read" => pc' = "read" \/ ~Working',
             limit >= 0 /\ Working' => Len(printed') <= limit
      PROVE  LimitedOK'
  <2>1. ASSUME limit' >= 0, Working', NEW n \in DOMAIN decoded', Closed(n)'
        PROVE  HoldsFirst(decoded[n])'
    <3>1. n \in DOMAIN decoded /\ Closed(n)
      BY <1>5, <2>1 DEF Closed
    <3>2. HoldsFirst(decoded[n])
      BY <1>5, <2>1, <3>1 DEF LimitedOK
    <3> QED BY <1>5, <3>2 DEF HoldsFirst, AllOf, Part, Accepted
  <2> QED BY <1>5, <2>1 DEF LimitedOK
<1>6. CASE Sort
  <2>1. /\ UNCHANGED <<limit, decoded, printed>> /\ messages' \in Orders(messages)
        /\ Working /\ pc = "decode"
    BY <1>6 DEF Sort, Working, DecodePlaces
  <2>2. ToSet(messages) \subseteq ToSet(messages')
    BY <1>t, <2>1, OrdersKeep
  <2>3. limit >= 0 => Len(printed') <= limit
    BY <2>1 DEF LimitedOK
  <2> QED BY <1>5, <2>1, <2>2, <2>3
<1>7. CASE DumpMessage
  <2>1. /\ UNCHANGED <<limit, decoded, messages>> /\ Working /\ pc = "print"
        /\ Len(printed) < Len(messages) /\ ~IsEnough(Len(printed))
        /\ printed' = Append(printed, messages[Len(printed) + 1])
    BY <1>7 DEF DumpMessage, Working, DecodePlaces
  <2>2. Len(printed') = Len(printed) + 1
    BY <2>1, <1>t
  <2>3. limit >= 0 => Len(printed') <= limit
    BY <1>t, <2>1, <2>2 DEF IsEnough
  <2> QED BY <1>5, <2>1, <2>3
<1>8. CASE SkipFile \/ ReadChunk \/ ReturnDecoded
  <2>1. /\ UNCHANGED <<limit, decoded, messages, printed>> /\ Working
        /\ pc = "read" => pc' = "read"
    BY <1>8 DEF SkipFile, ReadChunk, ReturnDecoded, Working, DecodePlaces
  <2>2. limit >= 0 => Len(printed') <= limit
    BY <2>1 DEF LimitedOK
  <2> QED BY <1>5, <2>1, <2>2
<1>9. CASE Elsewhere
  <2>1. UNCHANGED <<limit, decoded, messages, printed>> /\ (pc' = pc \/ ~Working')
    BY <1>9 DEF Elsewhere, Working
  <2>2. pc' = pc => (Working' <=> Working)
    BY <1>9 DEF Elsewhere, Working, Decoded
  <2>3. limit >= 0 /\ Working => Len(printed') <= limit
    BY <2>1 DEF LimitedOK
  <2> QED BY <1>5, <2>1, <2>2, <2>3
<1> QED BY <1>1, <1>2, <1>3, <1>4, <1>6, <1>7, <1>8, <1>9, DecodeSteps

LEMMA EndedStep ==
  ASSUME ToolInv, LimitedOK, EndedOK, [ToolNext]_toolVars PROVE EndedOK'
<1>1. CASE Reading
  <2>1. pc = "parse" /\ pc' = "parse" /\ UNCHANGED decoder
    BY <1>1, ReadingArguments
  <2> QED BY <2>1 DEF EndedOK, Decoded
<1>2. CASE \/ RunDecode \/ SkipFile \/ OpenFile \/ ReadChunk \/ CloseFile \/ Sort \/ DumpMessage
  <2>1. pc' \notin {"parse", "done"}
    BY <1>2 DEF RunDecode, SkipFile, OpenFile, ReadChunk, CloseFile, Sort, DumpMessage
  <2> QED BY <2>1 DEF EndedOK, Decoded
<1>3. CASE ReturnDecoded
  <2>1. /\ UNCHANGED <<messages, printed, limit>> /\ pc' = "done" /\ Working
        /\ Len(printed) = Len(messages) \/ IsEnough(Len(printed))
    BY <1>3 DEF ReturnDecoded, Working, DecodePlaces
  <2>2. limit \in Int /\ Len(printed) \in Nat
    BY DEF ToolInv, DecoderOK, PrintedOK
  <2>3. limit >= 0 => Len(printed) <= limit
    BY <2>1 DEF LimitedOK
  <2>4. IsEnough(Len(printed)) => LimitReached
    BY <2>2, <2>3 DEF IsEnough, LimitReached
  <2> QED BY <2>1, <2>4 DEF EndedOK, LimitReached
<1>4. CASE Elsewhere
  <2>1. /\ UNCHANGED <<messages, printed, limit, decoded>> /\ (Decoded' => Decoded)
        /\ pc' = "parse" => pc = "parse"
    BY <1>4 DEF Elsewhere, Decoded
  <2> QED BY <2>1 DEF EndedOK, LimitReached
<1> QED BY <1>1, <1>2, <1>3, <1>4, DecodeSteps

LEMMA ToolInit_DecodingInv == ToolInit => DecodingInv
<1> SUFFICES ASSUME ToolInit PROVE DecodingInv
  OBVIOUS
<1> USE DEF ToolInit, Init
<1>1. pc = "parse" /\ ~Working
  BY DEF Working, DecodePlaces, Decoded
<1>2. ParsingOK
  BY <1>1, JoinNone DEF ParsingOK
<1> QED BY <1>1, <1>2 DEF DecodingInv, NamedOK, OpenedOK, GatheredOK, LimitedOK, EndedOK, Decoded

LEMMA DecodingStep ==
  ToolInv /\ ToolInv' /\ DecodingInv /\ [ToolNext]_toolVars => DecodingInv'
  BY ParsingStep, NamedStep, OpenedStep, GatheredStep, LimitedStep, EndedStep DEF DecodingInv

-----------------------------------------------------------------------------
(* The theorems *)

LEMMA ToolInit_ToolInv == ToolInit => ToolInv
<1> SUFFICES ASSUME ToolInit PROVE ToolInv
  OBVIOUS
<1> USE DEF ToolInit, Init
<1>1. argv \in Seq(Argument)
  BY InputAssumption
<1>2. DecoderOK
  BY <1>1 DEF DecoderOK
<1>3. PlaceOK /\ ReadingOK /\ DeferredOK /\ DepthOK /\ DialogOK /\ AbortsAreKnown
  BY DEF PlaceOK, ReadingOK, DeferredOK, DepthOK, DialogOK, AbortsAreKnown, Places, MainPlaces,
     DecodePlaces, ServicePlaces, InstrumentPlaces, ScriptPlaces, Own
<1>4. PrintedOK
  BY DEF PrintedOK
<1> QED BY <1>2, <1>3, <1>4 DEF ToolInv

LEMMA ToolStep == ToolInv /\ [ToolNext]_toolVars => ToolInv'
<1> SUFFICES ASSUME ToolInv, [ToolNext]_toolVars PROVE ToolInv'
  OBVIOUS
<1>1. DecoderOK' /\ ReadingOK' /\ PrintedOK'
  BY DecoderStep, ReadingStep, PrintedStep
<1>2. CASE (Reading \/ Decoding) /\ UNCHANGED device
  BY <1>1, <1>2, DecoderKeepsTheTools DEF ToolInv
<1>3. CASE OnDevice
  BY <1>1, <1>3, PlaceStep, DialogStep, AbortStep, StackStep DEF ToolInv
<1>4. CASE UNCHANGED toolVars
  <2>1. UNCHANGED <<argv, i, key, first, second, pc, decoder, device>>
    BY <1>4 DEF toolVars, vars
  <2>2. /\ tool' = tool /\ word' = word /\ words' = words
        /\ \A flag : NotANumber(flag)' = NotANumber(flag)
    BY <2>1, ToolKept
  <2>3. PlaceOK' /\ DeferredOK' /\ DepthOK' /\ DialogOK'
    BY <2>1, <2>2 DEF ToolInv, PlaceOK, DeferredOK, DepthOK, DialogOK, Own
  <2>4. AbortsAreKnown'
    BY <2>1, <2>2 DEF ToolInv, AbortsAreKnown
  <2> QED BY <1>1, <2>3, <2>4 DEF ToolInv
<1> QED BY <1>2, <1>3, <1>4, Steps

LEMMA ToolAlways == ToolSpec => []ToolInv
<1> QED BY ToolInit_ToolInv, ToolStep, PTL DEF ToolSpec

\* From whichever early return a tool unwinds, whatever failed before: what it has
\* deferred is there, nothing is released before what uses it, and a tool that
\* returns has released all but the plists of an answer or, when there are no devices,
\* the list of them (the defer functions of get_value, set_developer_mode and
\* instruments).
THEOREM ToolsReleaseInOrder == ToolSpec => []DeviceInv
<1>1. ToolInv => DeviceInv
  <2> SUFFICES ASSUME ToolInv PROVE DeviceInv
    OBVIOUS
  <2>1. TypeOK
    <3>1. ToSet(decoded) \subseteq Files
      BY ElementOfSeq DEF ToolInv, DecoderOK, ToSet
    <3>2. \A k \in DOMAIN deferred : deferred[k] \in live \cup {"session"}
      <4>1. \/ deferred = <<>>
            \/ deferred = <<"device">> /\ "device" \in live
            \/ deferred = <<"service", "device">> /\ {"device", "service"} \subseteq live
            \/ deferred = <<"session", "service", "device">> /\ {"device", "service"} \subseteq live
            \/ deferred = <<"transport", "device">> /\ {"device", "transport"} \subseteq live
            \/ /\ deferred = <<"connection", "transport", "device">>
               /\ {"connection", "transport", "device"} \subseteq live
        BY DEF ToolInv, DeferredOK, Own
      <4> QED BY <4>1
    <3> QED
      BY <3>1, <3>2 DEF ToolInv, DecoderOK, PrintedOK, DeferredOK, DialogOK, TypeOK
  <2>2. NothingOutlivesItsBase
    <3>1. ASSUME NEW r \in live PROVE Bases[r] \subseteq live
      <4>1. r \in Resources /\ (r \in Plists \/ r \in Own)
        BY <3>1 DEF ToolInv, DeferredOK, Own
      <4>2. CASE r \in Plists
        BY <4>1, <4>2 DEF Bases, Plists
      <4>3. CASE r \in Own
        BY <4>1, <4>3 DEF Bases, Plists, Own, ToolInv, DeferredOK
      <4> QED BY <4>1, <4>2, <4>3
    <3> QED BY <3>1 DEF NothingOutlivesItsBase
  <2>3. ReturnedMeansReleased
    BY DEF ToolInv, DepthOK, DeferredOK, Own, ReturnedMeansReleased
  <2> QED BY <2>1, <2>2, <2>3 DEF DeviceInv
<1> QED BY <1>1, ToolAlways, PTL

\* What aborts a tool is one of the mistakes that the code does not test for: a
\* flag or a mode that is no number, no subcommand, a value without a connection
\* in a debug build, a response that has not come or has no payload; or an error of
\* the send or the parsing thread, which joins itself.
THEOREM OnlyKnownAborts == ToolSpec => []AbortsAreKnown
<1> QED BY ToolAlways, PTL DEF ToolInv

\* decode prints a message behind those with a smaller identifier or conversation
\* index, however many files they are from (std::sort in decoder_main).
THEOREM ConversationsStayInOrder == ToolSpec => []ConversationsInOrder
<1>1. ToolInv => ConversationsInOrder
  <2> SUFFICES ASSUME ToolInv, NEW j \in DOMAIN printed, NEW k \in DOMAIN printed, j < k
               PROVE  \/ printed[j].id < printed[k].id
                      \/ printed[j].id = printed[k].id /\ printed[j].cidx <= printed[k].cidx
    <3> DOMAIN printed \subseteq Nat
      BY DEF ToolInv, PrintedOK
    <3> QED BY DEF ConversationsInOrder
  <2>1. /\ printed[j] = messages[j] /\ printed[k] = messages[k]
        /\ j \in DOMAIN messages /\ k \in DOMAIN messages /\ j \in Nat /\ k \in Nat
    BY DEF ToolInv, PrintedOK, DecoderOK
  <2>2. printed[j] \in ParsedMessage /\ printed[k] \in ParsedMessage
    BY ElementOfSeq DEF ToolInv, PrintedOK
  <2>3. printed # <<>>
    OBVIOUS
  <2>4. ~Before(messages[k], messages[j])
    BY <2>1, <2>3 DEF ToolInv, PrintedOK, Sorted
  <2> QED BY <2>1, <2>2, <2>4 DEF Before, ParsedMessage
<1> QED BY <1>1, ToolAlways, PTL


LEMMA DecodingAlways == ToolSpec => []DecodingInv
<1>1. ToolSpec => []ToolInv
  BY ToolAlways
<1> QED BY <1>1, ToolInit_DecodingInv, DecodingStep, PTL DEF ToolSpec

\* The words that parse_args has found are the ones behind no flag.
LEMMA WordsAreFound ==
  ASSUME ToolInv, ParsingOK, pc # "parse" PROVE first = Words
<1>1. argv \in Seq(Argument) /\ DOMAIN argv = 1..Len(argv) /\ i - 1 = Len(argv)
  <2>1. argv \in Seq(Argument) /\ i = Len(argv) + 1
    BY DEF ToolInv, DecoderOK, ParsingOK
  <2> QED BY <2>1, LenProperties
<1>2. first = JoinFirst(FreeOnes, Len(argv))
  BY <1>1 DEF ParsingOK
<1>3. [p \in 1..Len(argv) |-> FreeOnes[p]] = [p \in DOMAIN argv |-> FreeWord(p)]
  BY <1>1 DEF FreeOnes
<1> QED BY <1>2, <1>3 DEF JoinFirst, Words

LEMMA NamedAreDecoded ==
  ASSUME ToolInv, ParsingOK, NamedOK, Decoded
  PROVE  decoded = FlattenSeq([k \in DOMAIN Tail(Words) |-> DumpFile(Tail(Words)[k])])
<1>1. Working /\ pc = "done" /\ named = Tail(Words)
  BY WordsAreFound DEF Working, Decoded, named
<1>2. dump_file = <<>> /\ decoded = JoinFirst(NamedFiles, Taken)
  BY <1>1 DEF NamedOK
<1>3. named \in Seq(STRING) /\ Len(named) \in Nat
  BY <1>1, WhileWorking
<1>4. Taken = Len(named)
  BY <1>2, <1>3 DEF Taken
<1>5. DOMAIN named = 1..Len(named)
  BY <1>3, LenProperties
<1>6. [p \in 1..Len(named) |-> NamedFiles[p]] = [k \in DOMAIN named |-> DumpFile(named[k])]
  BY <1>5 DEF NamedFiles
<1>7. decoded = FlattenSeq([k \in DOMAIN named |-> DumpFile(named[k])])
  BY <1>2, <1>4, <1>6 DEF JoinFirst
<1> QED BY <1>1, <1>7

\* When decode returns without a limit, or has printed all, what is printed is all.
LEMMA PrintedAll ==
  ASSUME ToolInv, Len(printed) = Len(messages) PROVE printed = messages
<1>1. /\ printed \in Seq(ParsedMessage) /\ messages \in Seq(ParsedMessage)
      /\ \A k \in DOMAIN printed : printed[k] = messages[k]
  BY DEF ToolInv, PrintedOK, DecoderOK
<1>2. DOMAIN printed = 1..Len(printed) /\ DOMAIN messages = 1..Len(messages)
  BY <1>1, LenProperties
<1>3. /\ printed = [k \in DOMAIN printed |-> printed[k]]
      /\ messages = [k \in DOMAIN messages |-> messages[k]]
  BY <1>1, LenProperties
<1> QED BY <1>1, <1>2, <1>3

LEMMA NothingGetsLost ==
  ASSUME ToolInv, GatheredOK, EndedOK, Decoded, limit < 0
  PROVE  /\ Len(printed) = Len(AllDecoded)
         /\ \A m \in ToSet(AllDecoded) : Count(printed, m) = Count(AllDecoded, m)
<1>1. pc = "done" /\ Working
  BY DEF Decoded, Working
<1>2. SameMessages(messages, AllDecoded)
  BY <1>1 DEF GatheredOK
<1>3. limit \in Int
  BY DEF ToolInv, DecoderOK
<1>4. Len(printed) = Len(messages)
  BY <1>3 DEF EndedOK, LimitReached
<1>5. printed = messages
  BY <1>4, PrintedAll
<1> QED BY <1>2, <1>5 DEF SameMessages

LEMMA FirstAreKept ==
  ASSUME ToolInv, LimitedOK, EndedOK, Decoded, limit >= 0
  PROVE  /\ Len(printed) = IF Len(messages) < limit THEN Len(messages) ELSE limit
         /\ printed = SubSeq(messages, 1, Len(printed))
         /\ \A k \in DOMAIN decoded :
              \A j \in 1..limit : j \in DOMAIN AllOf(decoded[k]) =>
                AllOf(decoded[k])[j] \in ToSet(messages)
<1>1. pc = "done" /\ Working /\ limit \in Int
  BY DEF Decoded, Working, ToolInv, DecoderOK
<1>2. /\ printed \in Seq(ParsedMessage) /\ messages \in Seq(ParsedMessage)
      /\ Len(printed) <= Len(messages) /\ Len(printed) \in Nat /\ Len(messages) \in Nat
      /\ DOMAIN printed = 1..Len(printed)
      /\ \A k \in DOMAIN printed : printed[k] = messages[k]
  <2>1. /\ printed \in Seq(ParsedMessage) /\ messages \in Seq(ParsedMessage)
        /\ Len(printed) <= Len(messages)
        /\ \A k \in DOMAIN printed : printed[k] = messages[k]
    BY DEF ToolInv, PrintedOK, DecoderOK
  <2> QED BY <2>1, LenProperties
<1>3. Len(printed) = IF Len(messages) < limit THEN Len(messages) ELSE limit
  <2>1. Len(printed) <= limit
    BY <1>1 DEF LimitedOK
  <2>2. Len(printed) = Len(messages) \/ Len(printed) = limit
    BY DEF EndedOK, LimitReached
  <2> QED BY <1>1, <1>2, <2>1, <2>2
<1>4. printed = SubSeq(messages, 1, Len(printed))
  <2> DEFINE some == SubSeq(messages, 1, Len(printed))
  <2>1. \A k \in 1..Len(printed) : messages[k] \in ParsedMessage
    BY <1>2, ElementOfSeq
  <2>2. some \in Seq(ParsedMessage) /\ Len(some) = Len(printed)
        /\ \A k \in 1..Len(printed) : some[k] = messages[k]
    BY <1>2, <2>1, SubSeqProperties
  <2> HIDE DEF some
  <2>3. DOMAIN some = 1..Len(printed) /\ some = [k \in DOMAIN some |-> some[k]]
    BY <2>2, LenProperties
  <2>4. printed = [k \in DOMAIN printed |-> printed[k]]
    BY <1>2, LenProperties
  <2>5. printed = some
    BY <1>2, <2>2, <2>3, <2>4
  <2> QED BY <2>5 DEF some
<1>5. ASSUME NEW k \in DOMAIN decoded PROVE HoldsFirst(decoded[k])
  BY <1>1 DEF LimitedOK, Closed
<1> QED BY <1>3, <1>4, <1>5 DEF HoldsFirst

\* On a command line with no word right behind a flag that takes no value, decode
\* decodes the files that are named behind no flag; without a limit it prints all of
\* their messages, and always in the order of their conversations; and with a limit on
\* one file it has read the first ones before it sorts and cuts (parse_args,
\* decoder_main and decode_dtxmsg_dump_file).
THEOREM NamedFilesAreDecoded == ToolSpec => []DecodeInv
<1>1. ToolInv /\ DecodingInv => FreeWordsAreDecoded
  BY NamedAreDecoded DEF FreeWordsAreDecoded, DecodingInv
<1>2. ToolInv /\ DecodingInv => NothingIsLost
  BY NothingGetsLost DEF NothingIsLost, DecodingInv
<1>3. ToolInv /\ DecodingInv => LimitKeepsTheFirst
  BY FirstAreKept DEF LimitKeepsTheFirst, DecodingInv
<1>4. ToolInv /\ DecodingInv /\ ConversationsInOrder => DecodeInv
  BY <1>1, <1>2, <1>3 DEF DecodeInv
<1> QED BY <1>4, ToolAlways, DecodingAlways, ConversationsStayInOrder, PTL
=============================================================================
