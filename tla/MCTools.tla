------------------------------ MODULE MCTools ------------------------------
(* The command line tools on small instances: dump files and command lines. *)
EXTENDS DeviceTools

CONSTANTS
  MaxArguments, \* bound: the length of a command line of decode
  MaxWords      \* bound: the words behind a command for a device

\* Requests, and a file with their replies that ends in bytes that are no message.
DumpFiles ==
  "sent.bin" :> <<Chunk(<<Message("sent.bin", 1, 1, 0)>>, TRUE),
                  Chunk(<<Message("sent.bin", 2, 2, 0)>>, TRUE)>>
  @@ "received.bin" :> <<Chunk(<<Message("received.bin", 1, 2, 1)>>, TRUE),
                         Chunk(<<Message("received.bin", 2, 1, 1)>>, FALSE),
                         Chunk(<<Message("received.bin", 3, 3, 1)>>, TRUE)>>

StoI == "1" :> 1 @@ "0" :> 0 @@ "-5" :> -5

Arguments ==
  {Word(""), Word("decode"), Word("-v"), Flag("hex"), Flag("limit")}
  \cup {Word(w) : w \in Files \cup DOMAIN Numbers}
DecodeLines == SeqOf(Arguments, MaxArguments)

\* The other queries are like running_processes.
Subcommands ==
  "running_processes" :> Query(FALSE) @@ "execname_for_pid" :> Query(TRUE)
  @@ "core_profile_session_tap" :> Trace @@ "graphics_opengl" :> Stream(2)
  @@ "networking" :> Stream(1) @@ "energy" :> Poll

\* A command, words, and perhaps a flag with a value.
Options == {<<>>} \cup {<<Flag(k), Word(v)>> : k \in {"pid", "port"}, v \in {"0", "-v"}}
DeviceLines ==
  {<<Word(c)>> \o ws \o option :
     c \in DeviceCommands, option \in Options,
     ws \in SeqOf({Word(w) : w \in DOMAIN Scripts \cup {"1", "-v"}}, MaxWords)}

Lines == DecodeLines \cup DeviceLines
=============================================================================
