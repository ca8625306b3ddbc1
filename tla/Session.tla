------------------------------- MODULE Session -------------------------------
(***************************************************************************)
(* The process: main and interactive_mode, the commands they dispatch to,  *)
(* and the descriptors those open, use and close: io_open, io_free and the *)
(* base64 pipes of srcs/file.c, des()/des3() with derive_key, base64() and *)
(* base64_fds, and the digests.  One action per system call that matters.  *)
(*                                                                         *)
(* Data are counted in units.  A unit is one block of a cipher, and base64 *)
(* makes one unit of text of one unit of bytes; its last newline is left   *)
(* out.  What the bytes become is the business of CipherModes and ReadFile.*)
(* open() and pipe() return the lowest free numbers, as POSIX requires:    *)
(* the commands close descriptors 0 and 1 and the session goes on.         *)
(***************************************************************************)
EXTENDS Integers, FiniteSetsExt

CONSTANTS
    MaxFd,          \* the highest descriptor
    PipeCapacity,   \* units a pipe holds (65536 bytes on Linux)
    MaxCommands,    \* bound: commands typed in one session
    Typed,          \* the units a user may type when a command reads stdin
    FileSize,       \* FileSize[f]: the units of file f at the start
    Commands        \* the command lines that are tried

Fd == 0 .. MaxFd
Files == DOMAIN FileSize
NoFile == "none"

\* The parts of a parsed command line that decide what it does to descriptors.
\* secret: -k is given; a password is, and --md is a digest it takes, or is not.
CommandLine ==
    [kind : {"cipher", "base64", "digest"}, mode : {"encode", "decode"}, base64 : BOOLEAN,
     input : Files \cup {NoFile}, output : Files \cup {NoFile},
     secret : {"key", "password", "bad_digest"}]

ASSUME BoundsAssumption == /\ MaxFd \in Nat /\ MaxFd >= 2
                           /\ PipeCapacity \in Nat /\ PipeCapacity >= 2
                           /\ MaxCommands \in Nat
                           /\ Typed \subseteq Nat
                           /\ FileSize \in [Files -> Nat]
\* A digest has no -o.
ASSUME CommandsAssumption == /\ Commands \subseteq CommandLine
                             /\ \A c \in Commands : c.kind = "digest" => c.output = NoFile

VARIABLES
    interactive,    \* whether main was called without arguments
    count,          \* commands started so far
    cmd,            \* the command that runs, or ran last
    pc,             \* where the process is
    ret,            \* what the last command returned, 2 when error() ended it
    fds,            \* the descriptor table of the process
    contents,       \* what each file holds
    pipe,           \* what the pipe made last holds: no other is ever read again
    io,             \* struct s_io_context, its descriptors
    b64,            \* the context of base64_fds and base64, and who called it
    payload,        \* what read_file returned to the command
    todo,           \* units that the loop which writes still has to write
    shown,          \* history: units the command wrote on the terminal
    missed,         \* history: units of which a write took a part or nothing, unnoticed
    before          \* history: fds and contents when the command started

vars == <<interactive, count, cmd, pc, ret, fds, contents, pipe, io, b64, payload, todo,
          shown, missed, before>>

-----------------------------------------------------------------------------
(* Descriptors.                                                            *)
Object(k, f) == [kind |-> k, file |-> f]
Closed == Object("closed", NoFile)
Terminal == Object("terminal", NoFile)

Data(d, n) == [data |-> d, n |-> n]

Free(table) == {d \in Fd : table[d] = Closed}
Close(table, ds) == [d \in Fd |-> IF d \in ds THEN Closed ELSE table[d]]
Positive(ds) == {d \in ds : d > 0}

\* The lowest free descriptor, and the two of a pipe.
NewFd == Min(Free(fds))
PipeR == Min(Free(fds))
PipeW == Min(Free(fds) \ {PipeR})
PipeFits == Cardinality(Free(fds)) >= 2

Readable(fd) == /\ fd \in Fd
                /\ fds[fd].kind \in {"terminal", "unread", "drained", "writer", "pipe_r"}
\* What read_file may return.  It waits for the end of a pipe.
Source(fd) ==
    CASE fds[fd].kind = "terminal" -> {Data("typed", n) : n \in Typed}
      [] fds[fd].kind = "unread" -> {contents[fds[fd].file]}
      [] fds[fd].kind \in {"drained", "writer"} -> {Data("nothing", 0)}
      [] fds[fd].kind = "pipe_r" ->
            IF \E d \in Fd : fds[d].kind = "pipe_w" THEN {} ELSE {pipe}
Drained(fd) == IF fds[fd].kind = "unread" THEN [fds EXCEPT ![fd].kind = "drained"] ELSE fds

Writable(fd) == fd \in Fd /\ fds[fd].kind \in {"terminal", "writer", "pipe_w"}
\* A write to a pipe that is full waits.
Room(fd, k) == fds[fd].kind = "pipe_w" => pipe.n + k <= PipeCapacity
Put(fd, k, d) ==
    LET to == fds[fd]
    IN  /\ contents' = IF to.kind = "writer"
                       THEN [contents EXCEPT ![to.file] = Data(d, @.n + k)] ELSE contents
        /\ pipe' = IF to.kind = "pipe_w" THEN Data(d, pipe.n + k) ELSE pipe
        /\ shown' = IF to.kind = "terminal" THEN shown + k ELSE shown

\* write() of k units.  A pipe takes them all, as they are few.  A file or a terminal
\* may take a part of them, and the callers that test for < 0 go on as if it were whole.
Write(fd, k, d) ==
    /\ Writable(fd) /\ Room(fd, k)
    /\ \E w \in 0 .. k : /\ w = k \/ fds[fd].kind # "pipe_w"
                         /\ Put(fd, w, d)
                         /\ missed' = missed + (k - w)
\* write() until all of k units is taken.
WriteWhole(fd, k, d) == Writable(fd) /\ Room(fd, k) /\ Put(fd, k, d) /\ UNCHANGED missed
\* write() may fail: the descriptor cannot be written to, or a disk is full.
MayRefuse(fd) == fd \in Fd => fds[fd].kind # "pipe_w"

-----------------------------------------------------------------------------
NoIo == [fd_in |-> 0, fd_out |-> 1, fd_in_base64 |-> 0, fd_out_base64 |-> 0]
NoB64 == [fd_in |-> 0, fd_out |-> 1, mode |-> "encode", caller |-> "command",
          pipe_r |-> 0, payload |-> Data("nothing", 0)]

NoCommand == [kind |-> "digest", mode |-> "encode", base64 |-> FALSE,
              input |-> NoFile, output |-> NoFile, secret |-> "key"]

Init == /\ interactive \in BOOLEAN
        /\ count = 0
        /\ cmd = NoCommand
        /\ pc = "prompt"
        /\ ret = 0
        /\ fds = [d \in Fd |-> IF d <= 2 THEN Terminal ELSE Closed]
        /\ contents = [f \in Files |-> Data(f, FileSize[f])]
        /\ pipe = Data("nothing", 0)
        /\ io = NoIo
        /\ b64 = NoB64
        /\ payload = Data("nothing", 0)
        /\ todo = 0
        /\ shown = 0
        /\ missed = 0
        /\ before = [fds |-> fds, contents |-> contents]

\* A command returns: to the next prompt, or from main.
Return(r) == pc' = (IF interactive THEN "prompt" ELSE "exited") /\ ret' = r

command_state == <<cmd, io, b64, payload, todo, shown, missed, before>>

\* A line names a command, found by name in the table of algorithms.  Without
\* arguments the line is read from descriptor 0, otherwise there is one command.
HandleCommand ==
    /\ pc = "prompt"
    /\ IF interactive THEN fds[0] = Terminal /\ count < MaxCommands ELSE count = 0
    /\ count' = count + 1
    /\ cmd' \in Commands
    /\ pc' = IF cmd'.kind = "cipher" THEN "open_input"
             ELSE IF cmd'.kind = "base64" THEN "base64_open" ELSE "digest"
    /\ io' = NoIo
    /\ b64' = NoB64
    /\ payload' = Data("nothing", 0)
    /\ todo' = 0
    /\ shown' = 0
    /\ missed' = 0
    /\ before' = [fds |-> fds, contents |-> contents]
    /\ UNCHANGED <<interactive, ret, fds, contents, pipe>>

\* The line names none: the commands are listed, and main exits.
UnknownCommand ==
    /\ pc = "prompt"
    /\ IF interactive THEN fds[0] = Terminal /\ Return(1)
                      ELSE count = 0 /\ pc' = "exited" /\ ret' = 2
    /\ UNCHANGED <<interactive, count, fds, contents, pipe, command_state>>

\* The options are wrong: error() ends the process, an interactive one too.
BadUsage ==
    /\ pc \in {"open_input", "base64_open", "digest"}
    /\ pc' = "exited" /\ ret' = 2
    /\ UNCHANGED <<interactive, count, fds, contents, pipe, command_state>>

\* read() at the prompt returns 0, which ends the session: the user did, or
\* descriptor 0 is no longer the terminal and there is nothing behind it.
PromptEnds ==
    /\ pc = "prompt" /\ interactive
    /\ Readable(0)
    /\ fds[0] = Terminal \/ \E d \in Source(0) : d.n = 0
    /\ pc' = "exited"
    /\ UNCHANGED <<interactive, count, ret, fds, contents, pipe, command_state>>

\* Fault: a failed read is tried again.
PromptFailsAgain ==
    /\ pc = "prompt" /\ interactive
    /\ ~Readable(0)
    /\ UNCHANGED vars

\* read() fails, and error() ends the session.
PromptFails ==
    /\ pc = "prompt" /\ interactive
    /\ ~Readable(0)
    /\ pc' = "exited"
    /\ UNCHANGED <<interactive, count, ret, fds, contents, pipe, command_state>>

\* Descriptor 0 is a pipe that a failed command has left, and some of what it
\* wrote there is read as a line that names no command.
PromptReadsPipe ==
    /\ pc = "prompt" /\ interactive
    /\ fds[0].kind = "pipe_r" /\ Source(0) # {}
    /\ \E n \in 1 .. pipe.n : pipe' = Data(pipe.data, pipe.n - n)
    /\ Return(1)
    /\ UNCHANGED <<interactive, count, fds, contents, command_state>>

-----------------------------------------------------------------------------
(* io_open.                                                                *)
process == <<interactive, count, cmd, before>>

\* Fault: the input is opened with the flags of the output.
OpenInputTruncates ==
    /\ pc = "open_input"
    /\ IF cmd.input = NoFile THEN UNCHANGED <<fds, io, contents>>
       ELSE /\ Free(fds) # {}
            /\ fds' = [fds EXCEPT ![NewFd] = Object("unread", cmd.input)]
            /\ contents' = [contents EXCEPT ![cmd.input] = Data("result", 0)]
            /\ io' = [io EXCEPT !.fd_in = NewFd]
    /\ pc' = IF cmd.base64 /\ cmd.mode = "decode" THEN "input_pipe" ELSE "read"
    /\ UNCHANGED <<process, ret, pipe, b64, payload, todo, shown, missed>>

\* Fault: the output is opened, and truncated, before the input is read.
OpenOutputFirst ==
    /\ pc = "open_input"
    /\ contents' = IF cmd.output = NoFile THEN contents
                   ELSE [contents EXCEPT ![cmd.output] = Data("result", 0)]
    /\ IF cmd.input = NoFile THEN UNCHANGED <<fds, io>>
       ELSE /\ Free(fds) # {}
            /\ fds' = [fds EXCEPT ![NewFd] = Object("unread", cmd.input)]
            /\ io' = [io EXCEPT !.fd_in = NewFd]
    /\ pc' = IF cmd.base64 /\ cmd.mode = "decode" THEN "input_pipe" ELSE "read"
    /\ UNCHANGED <<process, ret, pipe, b64, payload, todo, shown, missed>>

OpenInput ==
    /\ pc = "open_input"
    /\ IF cmd.input = NoFile THEN UNCHANGED <<fds, io>>
       ELSE /\ Free(fds) # {}
            /\ fds' = [fds EXCEPT ![NewFd] = Object("unread", cmd.input)]
            /\ io' = [io EXCEPT !.fd_in = NewFd]
    /\ pc' = IF cmd.base64 /\ cmd.mode = "decode" THEN "input_pipe" ELSE "read"
    /\ UNCHANGED <<process, ret, contents, pipe, b64, payload, todo, shown, missed>>

OpenInputFails ==
    /\ pc = "open_input" /\ cmd.input # NoFile
    /\ io' = [io EXCEPT !.fd_in = -1]
    /\ Return(1)
    /\ UNCHANGED <<process, fds, contents, pipe, b64, payload, todo, shown, missed>>

\* input_base64_decode: base64_fds runs to its end before anybody reads the pipe.
InputPipe ==
    /\ pc = "input_pipe" /\ PipeFits
    /\ fds' = [fds EXCEPT ![PipeR] = Object("pipe_r", NoFile), ![PipeW] = Object("pipe_w", NoFile)]
    /\ pipe' = Data("nothing", 0)
    /\ b64' = [NoB64 EXCEPT !.fd_in = io.fd_in, !.fd_out = PipeW, !.mode = "decode",
                            !.caller = "input", !.pipe_r = PipeR]
    /\ pc' = "base64_read"
    /\ UNCHANGED <<process, ret, contents, io, payload, todo, shown, missed>>

\* read_file, and the descriptor is closed.
ReadPayload ==
    /\ pc = "read" /\ Readable(io.fd_in)
    /\ payload' \in Source(io.fd_in)
    /\ fds' = Close(fds, {io.fd_in})
    /\ pc' = "open_output"
    /\ UNCHANGED <<process, ret, contents, pipe, io, b64, todo, shown, missed>>

\* The output is opened, and truncated, when the input has been read.
OpenOutput ==
    /\ pc = "open_output"
    /\ IF cmd.output = NoFile THEN UNCHANGED <<fds, io, contents>>
       ELSE /\ Free(fds) # {}
            /\ fds' = [fds EXCEPT ![NewFd] = Object("writer", cmd.output)]
            /\ contents' = [contents EXCEPT ![cmd.output] = Data("result", 0)]
            /\ io' = [io EXCEPT !.fd_out = NewFd]
    /\ pc' = IF cmd.base64 /\ cmd.mode = "encode" THEN "output_pipe" ELSE "salt"
    /\ UNCHANGED <<process, ret, pipe, b64, payload, todo, shown, missed>>

OpenOutputFails ==
    /\ pc = "open_output" /\ cmd.output # NoFile
    /\ io' = [io EXCEPT !.fd_out = -1]
    /\ pc' = "io_free" /\ ret' = 1
    /\ UNCHANGED <<process, fds, contents, pipe, b64, payload, todo, shown, missed>>

\* output_base64_init: the cipher will write to the pipe.
OutputPipe ==
    /\ pc = "output_pipe" /\ PipeFits
    /\ fds' = [fds EXCEPT ![PipeR] = Object("pipe_r", NoFile), ![PipeW] = Object("pipe_w", NoFile)]
    /\ pipe' = Data("nothing", 0)
    /\ io' = [io EXCEPT !.fd_out_base64 = io.fd_out, !.fd_in_base64 = PipeR, !.fd_out = PipeW]
    /\ pc' = "salt"
    /\ UNCHANGED <<process, ret, contents, b64, payload, todo, shown, missed>>

\* pipe() or read_file fails.
IoOpenFails ==
    /\ pc \in {"input_pipe", "read", "output_pipe"}
    /\ pc' = "io_free" /\ ret' = 1
    /\ UNCHANGED <<process, fds, contents, pipe, io, b64, payload, todo, shown, missed>>

-----------------------------------------------------------------------------
(* derive_key and the two directions of cipher.c.                          *)
SaltUnits == 2      \* "Salted__" and the salt, eight bytes each
Salted == cmd.secret # "key"

\* With a key there is nothing to derive.  An encryption writes the salt before
\* it looks at the name of the digest; a decryption takes it from the payload.
DeriveKey ==
    /\ pc = "salt"
    /\ IF Salted /\ cmd.mode = "encode"
       THEN Write(io.fd_out, SaltUnits, "result")
       ELSE UNCHANGED <<contents, pipe, shown, missed>>
    /\ Salted /\ cmd.mode = "decode" => payload.n >= SaltUnits
    /\ IF cmd.secret = "bad_digest"
       THEN pc' = "io_free" /\ ret' = 1 /\ UNCHANGED todo
       ELSE /\ pc' = "cipher"
            /\ todo' = IF cmd.mode = "encode" THEN payload.n + 1
                       ELSE IF Salted THEN payload.n - SaltUnits ELSE payload.n
            /\ UNCHANGED ret
    /\ UNCHANGED <<process, fds, io, b64, payload>>

\* The salt cannot be written at all, or the payload does not begin with one.
DeriveKeyFails ==
    /\ pc = "salt" /\ Salted
    /\ cmd.mode = "encode" => MayRefuse(io.fd_out)
    /\ pc' = "io_free" /\ ret' = 1
    /\ UNCHANGED <<process, fds, contents, pipe, io, b64, payload, todo, shown, missed>>

CipherWrite ==
    /\ pc = "cipher" /\ todo > 0
    /\ Write(io.fd_out, 1, "result")
    /\ todo' = todo - 1
    /\ UNCHANGED <<process, pc, ret, fds, io, b64, payload>>

\* Fault: a write that fails is tried again.
CipherRetries ==
    /\ pc = "cipher"
    /\ todo <= 1 /\ cmd.mode = "decode"
    /\ pc' = "io_free" /\ ret' = 1
    /\ UNCHANGED <<process, fds, contents, pipe, io, b64, payload, todo, shown, missed>>

\* A write fails, or a decryption ends in a padding length above eight.
CipherFails ==
    /\ pc = "cipher"
    /\ \/ todo > 0 /\ MayRefuse(io.fd_out)
       \/ todo <= 1 /\ cmd.mode = "decode"
    /\ pc' = "io_free" /\ ret' = 1
    /\ UNCHANGED <<process, fds, contents, pipe, io, b64, payload, todo, shown, missed>>

\* Fault: what write returns is not looked at.
CipherDoneUnchecked ==
    /\ pc = "cipher" /\ (todo = 0 \/ ~Writable(io.fd_out))
    /\ pc' = "io_free" /\ ret' = 0
    /\ UNCHANGED <<process, contents, pipe, fds, b64, io, payload, todo, shown, missed>>

\* An encryption in base64 goes on with io_base64_encode, which closes the end of
\* the pipe it wrote to and reads the other one.
CipherDone ==
    /\ pc = "cipher" /\ todo = 0
    /\ IF cmd.base64 /\ cmd.mode = "encode"
       THEN /\ fds' = Close(fds, {io.fd_out})
            /\ b64' = [NoB64 EXCEPT !.fd_in = io.fd_in_base64, !.fd_out = io.fd_out_base64,
                                    !.caller = "output"]
            /\ pc' = "base64_read" /\ UNCHANGED ret
       ELSE pc' = "io_free" /\ ret' = 0 /\ UNCHANGED <<fds, b64>>
    /\ UNCHANGED <<process, contents, pipe, io, payload, todo, shown, missed>>

\* Fault: the read end of the pipe stays open.
IoFreeLeaks ==
    /\ pc = "io_free"
    /\ fds' = Close(fds, Positive({io.fd_out, io.fd_out_base64}))
    /\ Return(ret)
    /\ UNCHANGED <<process, contents, pipe, io, b64, payload, todo, shown, missed>>

\* io_free tests its descriptors for > 0: the number 0 is never closed here.
IoFree ==
    /\ pc = "io_free"
    /\ fds' = Close(fds, Positive({io.fd_out, io.fd_in_base64, io.fd_out_base64}))
    /\ Return(ret)
    /\ UNCHANGED <<process, contents, pipe, io, b64, payload, todo, shown, missed>>

-----------------------------------------------------------------------------
(* base64() and base64_fds.                                                *)
Base64Open ==
    /\ pc = "base64_open"
    /\ IF cmd.input = NoFile
       THEN UNCHANGED fds /\ b64' = [NoB64 EXCEPT !.mode = cmd.mode]
       ELSE /\ Free(fds) # {}
            /\ fds' = [fds EXCEPT ![NewFd] = Object("unread", cmd.input)]
            /\ b64' = [NoB64 EXCEPT !.mode = cmd.mode, !.fd_in = NewFd]
    /\ pc' = "base64_read"
    /\ UNCHANGED <<process, ret, contents, pipe, io, payload, todo, shown, missed>>

Base64OpenFails ==
    /\ pc = "base64_open" /\ cmd.input # NoFile
    /\ Return(1)
    /\ UNCHANGED <<process, fds, contents, pipe, io, b64, payload, todo, shown, missed>>

\* base64 never closes the descriptor it read.
Base64Read ==
    /\ pc = "base64_read" /\ Readable(b64.fd_in)
    /\ \E d \in Source(b64.fd_in) :
          /\ b64' = [b64 EXCEPT !.payload = d]
          /\ todo' = d.n
          /\ payload' = IF b64.caller = "command" THEN d ELSE payload
    /\ fds' = Drained(b64.fd_in)
    /\ pc' = IF b64.caller = "command" /\ cmd.output # NoFile THEN "base64_output" ELSE "base64_write"
    /\ UNCHANGED <<process, ret, contents, pipe, io, shown, missed>>

Base64Output ==
    /\ pc = "base64_output" /\ Free(fds) # {}
    /\ fds' = [fds EXCEPT ![NewFd] = Object("writer", cmd.output)]
    /\ contents' = [contents EXCEPT ![cmd.output] = Data("result", 0)]
    /\ b64' = [b64 EXCEPT !.fd_out = NewFd]
    /\ pc' = "base64_write"
    /\ UNCHANGED <<process, ret, pipe, io, payload, todo, shown, missed>>

\* What a caller does when base64_fds has returned r and the table is table.
\* input_base64_decode closes both ends of its pipe, or the written one and the
\* descriptor that was read.
Base64Returns(r, table) ==
    CASE b64.caller = "command" -> fds' = table /\ Return(r) /\ UNCHANGED io
      [] b64.caller = "output" -> fds' = table /\ pc' = "io_free" /\ ret' = r /\ UNCHANGED io
      [] b64.caller = "input" /\ r = 0 ->
            /\ fds' = Close(table, {b64.fd_out, io.fd_in})
            /\ io' = [io EXCEPT !.fd_in = b64.pipe_r]
            /\ pc' = "read" /\ UNCHANGED ret
      [] b64.caller = "input" /\ r = 1 ->
            /\ fds' = Close(table, {b64.pipe_r, b64.fd_out})
            /\ pc' = "io_free" /\ ret' = 1 /\ UNCHANGED io

\* read_file fails, or the output cannot be opened: nothing is closed.
Base64OpenIoFails ==
    /\ pc \in {"base64_read", "base64_output"}
    /\ Base64Returns(1, fds)
    /\ UNCHANGED <<process, contents, pipe, b64, payload, todo, shown, missed>>

Base64Write ==
    /\ pc = "base64_write" /\ todo > 0
    /\ LET d == IF b64.caller = "input" THEN b64.payload.data ELSE "result"
       IN  IF b64.mode = "encode" THEN WriteWhole(b64.fd_out, 1, d) ELSE Write(b64.fd_out, 1, d)
    /\ todo' = todo - 1
    /\ UNCHANGED <<process, pc, ret, fds, io, b64, payload>>

\* free_ctx closes the output, unless its number is 0.  A write may have failed,
\* or the input not be base64.
Base64Done ==
    /\ pc = "base64_write"
    /\ \/ todo = 0 /\ Base64Returns(0, Close(fds, Positive({b64.fd_out})))
       \/ /\ todo > 0
          /\ MayRefuse(b64.fd_out) \/ b64.mode = "decode"
          /\ Base64Returns(1, Close(fds, Positive({b64.fd_out})))
    /\ UNCHANGED <<process, contents, pipe, b64, payload, todo, shown, missed>>

-----------------------------------------------------------------------------
\* A digest reads a file, which it opens and closes, or stdin, and prints on
\* descriptor 1 without looking at what the write returns.
Digest ==
    /\ pc = "digest"
    /\ IF cmd.input = NoFile THEN Readable(0) /\ payload' \in Source(0)
                             ELSE Free(fds) # {} /\ payload' = contents[cmd.input]
    /\ IF Writable(1) THEN Write(1, 1, "result")
                      ELSE missed' = missed + 1 /\ UNCHANGED <<contents, pipe, shown>>
    /\ Return(0)
    /\ UNCHANGED <<process, fds, io, b64, todo>>

DigestFails ==
    /\ pc = "digest"
    /\ Return(1)
    /\ UNCHANGED <<process, fds, contents, pipe, io, b64, payload, todo, shown, missed>>

Ended == pc = "exited" /\ UNCHANGED vars

-----------------------------------------------------------------------------
IoOpen == \/ OpenInput \/ OpenInputFails \/ InputPipe \/ ReadPayload
          \/ OpenOutput \/ OpenOutputFails \/ OutputPipe \/ IoOpenFails
Cipher == \/ DeriveKey \/ DeriveKeyFails \/ CipherWrite \/ CipherFails \/ CipherDone \/ IoFree
Base64 == \/ Base64Open \/ Base64OpenFails \/ Base64Read \/ Base64Output
          \/ Base64OpenIoFails \/ Base64Write \/ Base64Done
Prompt == HandleCommand \/ UnknownCommand \/ PromptEnds \/ PromptFails \/ PromptReadsPipe

Next == Prompt \/ BadUsage \/ IoOpen \/ Cipher \/ Base64 \/ Digest \/ DigestFails \/ Ended

Runs == IoOpen \/ Cipher \/ Base64 \/ Digest \/ DigestFails
ReadsNoTerminal == fds[0] # Terminal /\ (PromptEnds \/ PromptFails \/ PromptReadsPipe)

\* The one thread of the process runs as long as it can, and a read() returns from what
\* is not a terminal.  Who started a command that reads the terminal ends what is typed
\* there; nothing makes a user type a command at the prompt.
Spec == Init /\ [][Next]_vars /\ WF_vars(Runs) /\ WF_vars(ReadsNoTerminal)

-----------------------------------------------------------------------------
Datum == [data : Files \cup {"typed", "nothing", "result"}, n : Nat]
\* What a descriptor may stand for: only three kinds of objects belong to a file.
Objects == [kind : {"closed", "terminal", "pipe_r", "pipe_w"}, file : {NoFile}]
           \cup [kind : {"unread", "drained", "writer"}, file : Files]
IsTable(table) == table \in [Fd -> Objects]

\* Type correctness.
ControlOK ==
    /\ interactive \in BOOLEAN
    /\ count \in Nat
    /\ cmd \in CommandLine
    /\ pc \in {"prompt", "open_input", "input_pipe", "read", "open_output", "output_pipe",
               "salt", "cipher", "io_free", "base64_open", "base64_read", "base64_output",
               "base64_write", "digest", "exited"}
    /\ ret \in 0 .. 2
TablesOK == IsTable(fds) /\ before \in [fds : [Fd -> Objects], contents : [Files -> Datum]]
ContextsOK ==
    /\ io \in [fd_in : Fd \cup {-1}, fd_out : Fd \cup {-1}, fd_in_base64 : Fd, fd_out_base64 : Fd]
    /\ b64 \in [fd_in : Fd, fd_out : Fd, mode : {"encode", "decode"},
                caller : {"command", "input", "output"}, pipe_r : Fd, payload : Datum]
DataOK ==
    /\ contents \in [Files -> Datum]
    /\ pipe \in Datum /\ payload \in Datum
    /\ todo \in Nat /\ shown \in Nat /\ missed \in Nat
TypeOK == ControlOK /\ TablesOK /\ ContextsOK /\ DataOK

AtRest == pc \in {"prompt", "exited"}
Started == count > 0

\* The payload of a command is what its input held when the command began, even
\* when the output is the same file: the output is truncated after the reading.
PayloadIsInput ==
    payload.data # "nothing" /\ cmd.input # NoFile => payload = before.contents[cmd.input]

\* A command that returns 0 has handed all of its result to where its options say,
\* whatever the commands before it did to descriptors 0 and 1.  What is not there is
\* only what a write took a part of, which no command looks at, and the digests print
\* without looking at all: nothing is claimed of how much that is.
Expected == IF cmd.kind = "digest" THEN 1 ELSE IF cmd.kind = "base64" THEN payload.n
            ELSE IF cmd.mode = "encode" THEN payload.n + 1 + (IF Salted THEN SaltUnits ELSE 0)
            ELSE payload.n - (IF Salted THEN SaltUnits ELSE 0)
SuccessIsComplete ==
    AtRest /\ Started /\ ret = 0 =>
        IF cmd.output = NoFile THEN shown + missed = Expected
        ELSE contents[cmd.output].data = "result" /\ contents[cmd.output].n + missed = Expected

\* A command changes no file but the one its -o names, although it may find the
\* number 1 it takes for the standard output in use for something else.
OnlyTheOutput == [][\A f \in Files : contents'[f] # contents[f] => cmd.output = f]_vars

\* A command leaves the descriptors above 1 that it did not open as they were: the double
\* closes of input_base64_decode and of io_free after base64_fds never hit a descriptor that
\* an earlier command has leaked, nor stderr.  Of its own it leaves open, beside what it
\* gives the number 0, at most one, and none that can be written to, so that the prompt,
\* which goes to descriptor 1, is never written to a file or a pipe; and a cipher command
\* that succeeds leaves none.
DescriptorsKept ==
    /\ \A d \in 2 .. MaxFd : before.fds[d] # Closed => fds[d] = before.fds[d]
    /\ AtRest /\ Started =>
           /\ \A d \in 1 .. MaxFd : fds[d].kind \notin {"writer", "pipe_w"}
           /\ Cardinality(Fd \ Free(fds)) <= Cardinality(Fd \ Free(before.fds)) + 1
           /\ cmd.kind = "cipher" /\ ret = 0 => \A d \in 2 .. MaxFd : fds[d] = before.fds[d]

\* A session that has lost its terminal is over: whatever took the number 0 in the
\* meantime, the prompt finds its end, or an error, before long.
SessionEnds == pc = "prompt" /\ interactive /\ fds[0] # Terminal ~> pc = "exited"

FullPipe == /\ pipe.n = PipeCapacity
            /\ \/ pc = "cipher" /\ todo > 0 /\ fds[io.fd_out].kind = "pipe_w"
               \/ pc = "base64_write" /\ todo > 0 /\ fds[b64.fd_out].kind = "pipe_w"
TooMuch == IF b64.caller = "input" THEN b64.payload.n > PipeCapacity
           ELSE payload.n + 1 + (IF Salted THEN SaltUnits ELSE 0) > PipeCapacity

\* A command ends, unless it has filled the pipe that only itself will empty, which it
\* does only with more than the pipe holds.
EndsUnlessFull == ~AtRest ~> AtRest \/ (FullPipe /\ TooMuch)

\* What README.md says of a base64-wrapped encryption: it works like the others.
CommandEnds == ~AtRest ~> AtRest
\* What README.md says of the interactive mode: commands can be typed in it, and
\* each emits its result, whatever the ones before it did.
SessionGoesOn == pc = "prompt" /\ interactive => fds[0] = Terminal /\ fds[1] = Terminal
=============================================================================
