----------------------------- MODULE DecodeTool -----------------------------
(***************************************************************************)
(* idevice: how main finds the words and the flags among its arguments, and *)
(* its command decode, which reads the dump files, sorts what it has found   *)
(* and prints it.  The parser is the one of DTXMessageParser; here a chunk   *)
(* of a file is what the parser makes of it.  The commands that talk to a    *)
(* device are in DeviceTools.                                                *)
(***************************************************************************)
EXTENDS Integers, Sequences, FiniteSets, SequencesExt, TLC

CONSTANTS
  CommandLines, \* what may stand behind the name of the program
  Chunks,       \* Chunks[f]: the chunks of dump file f, what fread returns one by one
  Numbers       \* Numbers[w]: the value of std::stoi for the words that have one

Files == DOMAIN Chunks
ParsedMessage == [file : Files, place : Nat, id : Int, cidx : Int]
Argument == [flag : BOOLEAN, text : STRING]

ASSUME InputAssumption ==
  /\ CommandLines \subseteq Seq(Argument)
  /\ \A line \in CommandLines : \A k \in DOMAIN line : line[k].flag => line[k].text # ""
  /\ Files \subseteq STRING
  /\ \A f \in Files : Chunks[f] \in Seq([messages : Seq(ParsedMessage), accepted : BOOLEAN])
  /\ DOMAIN Numbers \subseteq STRING /\ \A w \in DOMAIN Numbers : Numbers[w] \in Int

\* A message knows its place in its file (for the properties); a chunk tells
\* whether ParseIncomingBytes has returned true.
Message(file, place, identifier, conversation_index) ==
  [file |-> file, place |-> place, id |-> identifier, cidx |-> conversation_index]
Chunk(messages, accepted) == [messages |-> messages, accepted |-> accepted]

\* An argument: a flag is longer than 2 and begins with '-'; the text of a flag
\* is its key, without the '-' or '--'.
Flag(key) == [flag |-> TRUE, text |-> key]
Word(text) == [flag |-> FALSE, text |-> text]
NoKey == ""

VARIABLES
  argv,            \* the arguments behind the name of the program
  i, key,          \* parse_args: the next argument, the flag that waits for its value
  first, second,   \* Args: the words, and the values of the flags
  pc,              \* parse, decode, read, print, done; "aborted" by an exception nobody
                   \* catches; the places of DeviceTools
  limit,
  dump_file,       \* the files still to be decoded
  chunk, parsed,   \* the parser of this file: chunks read, messages found
  messages, printed,
  (* history *)
  decoded          \* the files that have been opened

arguments == <<argv, i, key, first, second>>
decoder == <<limit, dump_file, chunk, parsed, messages, printed, decoded>>
vars == <<arguments, pc, decoder>>

Init ==
  /\ argv \in CommandLines
  /\ i = 1 /\ key = NoKey /\ first = <<>> /\ second = <<>>
  /\ pc = "parse" /\ limit = -1 /\ dump_file = <<>> /\ chunk = 0 /\ parsed = <<>>
  /\ messages = <<>> /\ printed = <<>> /\ decoded = <<>>

-----------------------------------------------------------------------------
(* parse_args *)

arg == argv[i]
With(flag, value) == [k \in DOMAIN second \cup {flag} |-> IF k = flag THEN value ELSE second[k]]

ReadArgument(guard) ==
  /\ pc = "parse" /\ i <= Len(argv) /\ guard
  /\ i' = i + 1
  /\ UNCHANGED <<argv, pc, decoder>>

ReadEmpty ==
  /\ ReadArgument(arg = Word(""))
  /\ key' = NoKey /\ UNCHANGED <<first, second>>

\* insert: a flag that has a value keeps it.
ReadFlag ==
  /\ ReadArgument(arg.flag)
  /\ key' = arg.text
  /\ second' = IF arg.text \in DOMAIN second THEN second ELSE With(arg.text, "")
  /\ UNCHANGED first

\* The word behind a flag is its value, whether the flag takes one or not.
ReadValue ==
  /\ ReadArgument(~arg.flag /\ arg.text # "" /\ key # NoKey)
  /\ second' = With(key, arg.text) /\ key' = NoKey
  /\ UNCHANGED first

ReadWord ==
  /\ ReadArgument(~arg.flag /\ arg.text # "" /\ key = NoKey)
  /\ first' = Append(first, arg.text)
  /\ UNCHANGED <<key, second>>

-----------------------------------------------------------------------------
(* main, decoder_main *)

\* get_flag_as_int throws when the value is not a number.
HasValue(flag) == flag \in DOMAIN second /\ second[flag] # ""
NotANumber(flag) == HasValue(flag) /\ second[flag] \notin DOMAIN Numbers
get_flag_as_int(flag, def_val) == IF HasValue(flag) THEN Numbers[second[flag]] ELSE def_val

tool == IF first = <<>> THEN "" ELSE Head(first)
DeviceCommands == {"instruments", "get_value", "set_developer_mode"}
Parsed == pc = "parse" /\ i > Len(argv)

RunDecode ==
  /\ Parsed /\ tool = "decode" /\ ~NotANumber("limit")
  /\ dump_file' = Tail(first) /\ limit' = get_flag_as_int("limit", -1)
  /\ pc' = "decode"
  /\ UNCHANGED <<arguments, chunk, parsed, messages, printed, decoded>>

AbortDecode ==
  /\ Parsed /\ tool = "decode" /\ NotANumber("limit")
  /\ pc' = "aborted" /\ UNCHANGED <<arguments, decoder>>

\* The usage, or "unknown command".
RunOther ==
  /\ Parsed /\ tool \notin DeviceCommands \cup {"decode"}
  /\ pc' = "done" /\ UNCHANGED <<arguments, decoder>>

-----------------------------------------------------------------------------
(* decode_dtxmsg_dump_file *)

\* A file that can not be opened has no messages.
SkipFile ==
  /\ pc = "decode" /\ dump_file # <<>> /\ Head(dump_file) \notin Files
  /\ dump_file' = Tail(dump_file)
  /\ UNCHANGED <<arguments, pc, limit, chunk, parsed, messages, printed, decoded>>

OpenFile ==
  /\ pc = "decode" /\ dump_file # <<>> /\ Head(dump_file) \in Files
  /\ decoded' = Append(decoded, Head(dump_file))
  /\ chunk' = 0 /\ parsed' = <<>> /\ pc' = "read"
  /\ UNCHANGED <<arguments, limit, dump_file, messages, printed>>

chunks == Chunks[Head(dump_file)]
Rejected == chunk > 0 /\ ~chunks[chunk].accepted
\* The count is unsigned: a negative limit is none, and not only the default of -1.
IsEnough(count) == limit >= 0 /\ count >= limit

ReadChunk ==
  /\ pc = "read" /\ ~IsEnough(Len(parsed)) /\ chunk < Len(chunks)
  /\ ~Rejected
  /\ chunk' = chunk + 1 /\ parsed' = parsed \o chunks[chunk + 1].messages
  /\ UNCHANGED <<arguments, pc, limit, dump_file, messages, printed, decoded>>

\* The limit, a chunk that the parser has rejected, or the end of the file.
CloseFile ==
  /\ pc = "read"
  /\ IsEnough(Len(parsed)) \/ Rejected \/ chunk = Len(chunks)
  /\ messages' = messages \o parsed
  /\ dump_file' = Tail(dump_file) /\ pc' = "decode"
  /\ UNCHANGED <<arguments, limit, chunk, parsed, printed, decoded>>

-----------------------------------------------------------------------------
(* Sorting and printing *)

ByIdentifier(a, b) == a.id < b.id  \* mutant: the conversation index is not compared
Before(a, b) == IF a.id # b.id THEN a.id < b.id ELSE a.cidx < b.cidx

\* std::sort puts equal messages in any order.
Sorted(s) == \A j, k \in DOMAIN s : Before(s[j], s[k]) => j < k
Count(s, m) == Cardinality({k \in DOMAIN s : s[k] = m})
Orders(s) ==
  {t \in [DOMAIN s -> ToSet(s)] : Sorted(t) /\ \A m \in ToSet(s) : Count(t, m) = Count(s, m)}

Sort ==
  /\ pc = "decode" /\ dump_file = <<>>
  /\ messages' \in Orders(messages)
  /\ pc' = "print"
  /\ UNCHANGED <<arguments, limit, dump_file, chunk, parsed, printed, decoded>>

DumpMessage ==
  /\ pc = "print" /\ Len(printed) < Len(messages) /\ ~IsEnough(Len(printed))
  /\ printed' = Append(printed, messages[Len(printed) + 1])
  /\ UNCHANGED <<arguments, pc, limit, dump_file, chunk, parsed, messages, decoded>>

ReturnDecoded ==
  /\ pc = "print" /\ (Len(printed) = Len(messages) \/ IsEnough(Len(printed)))
  /\ pc' = "done" /\ UNCHANGED <<arguments, decoder>>

-----------------------------------------------------------------------------
Next ==
  \/ ReadEmpty \/ ReadFlag \/ ReadValue \/ ReadWord
  \/ RunDecode \/ AbortDecode \/ RunOther
  \/ SkipFile \/ OpenFile \/ ReadChunk \/ CloseFile
  \/ Sort \/ DumpMessage \/ ReturnDecoded

-----------------------------------------------------------------------------
(* Properties *)

Decoded == pc = "done" /\ tool = "decode"

\* The words of the command line that stand behind no flag; the first of them
\* is the command.
IsFree(k) == ~argv[k].flag /\ argv[k].text # "" /\ (k > 1 => ~argv[k - 1].flag)
FreeWord(k) == IF IsFree(k) THEN <<argv[k].text>> ELSE <<>>
Words == FlattenSeq([k \in DOMAIN argv |-> FreeWord(k)])
DumpFile(w) == IF w \in Files THEN <<w>> ELSE <<>>

\* No word stands right behind a flag that takes no value, as the first file does in
\* the "decode --hex received_outfile.bin transmit_outfile.bin" of the documentation:
\* ReadValue takes it away from the files.
WithValue == {"limit"}
IsPlain ==
  \A k \in DOMAIN argv \ {1} :
    argv[k - 1].flag /\ ~argv[k].flag /\ argv[k].text # "" => argv[k - 1].text \in WithValue

\* On such a command line a file that is named behind no flag is decoded, in the order
\* and as often as it is named, wherever the flags stand.
FreeWordsAreDecoded ==
  Decoded /\ IsPlain =>
    decoded = FlattenSeq([k \in DOMAIN Tail(Words) |-> DumpFile(Tail(Words)[k])])

\* The messages of a file up to the chunk that the parser rejects.
Accepted(file, k) == \A j \in 1..(k - 1) : Chunks[file][j].accepted
Part(file, k) == IF Accepted(file, k) THEN Chunks[file][k].messages ELSE <<>>
AllOf(file) == FlattenSeq([k \in DOMAIN Chunks[file] |-> Part(file, k)])
AllDecoded == FlattenSeq([k \in DOMAIN decoded |-> AllOf(decoded[k])])

\* Without a limit every message of the decoded files is printed, as often as it
\* is in the files that are named, and a file that is named twice is two of them.
NothingIsLost ==
  Decoded /\ limit < 0 =>
    /\ Len(printed) = Len(AllDecoded)
    /\ \A m \in ToSet(AllDecoded) : Count(printed, m) = Count(AllDecoded, m)

\* A message and its reply are often in different files: in what is printed, a
\* message stands behind those with a smaller identifier or conversation index.
ConversationsInOrder ==
  \A j, k \in DOMAIN printed :
    \/ j >= k
    \/ printed[j].id < printed[k].id
    \/ printed[j].id = printed[k].id /\ printed[j].cidx <= printed[k].cidx

\* A limit on one file never leaves out a message that would be printed before one that
\* is, if the decoder has read it; and it prints as many as there are.  Of several files
\* nothing is said: the usage has the limit for each of them, the code for all together.
LimitKeepsTheFirst ==
  Decoded /\ limit >= 0 /\ Len(decoded) <= 1 =>
    /\ Len(printed) = IF Len(messages) < limit THEN Len(messages) ELSE limit
    /\ printed = SubSeq(messages, 1, Len(printed))
    /\ \A k \in DOMAIN decoded :
         \A j \in 1..limit : j \in DOMAIN AllOf(decoded[k]) =>
           AllOf(decoded[k])[j] \in ToSet(messages)

\* What decode prints: the files that are named, completely, in order, and one file up to
\* the limit.
DecodeInv ==
  FreeWordsAreDecoded /\ NothingIsLost /\ ConversationsInOrder /\ LimitKeepsTheFirst

=============================================================================
