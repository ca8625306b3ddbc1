---------------------------- MODULE SessionProofs ----------------------------
(***************************************************************************)
(* Whatever the files hold, whatever commands are typed and however many,  *)
(* and whichever calls fail: a command touches no descriptor it does not   *)
(* own and no file but its output, reads its input before it can harm it,  *)
(* and has handed over all of its result when it says so.                  *)
(***************************************************************************)
EXTENDS Session, FiniteSetTheorems, WellFoundedInduction, TLAPS

-----------------------------------------------------------------------------
(* The inductive invariant.                                                *)

\* A ciphertext goes through base64_fds, or what is to be deciphered does.
Wrapped == cmd.kind = "cipher" /\ cmd.base64 /\ cmd.mode = "encode"
Unwrapped == cmd.kind = "cipher" /\ cmd.base64 /\ cmd.mode = "decode"

InBase64 == pc \in {"base64_read", "base64_output", "base64_write"}
Decoding == InBase64 /\ b64.caller = "input"
Encoding == InBase64 /\ b64.caller = "output"
OfBase64 == InBase64 /\ b64.caller = "command"

\* Which command is where, and what it set on its way.
Places ==
    /\ pc \in {"open_input", "input_pipe", "read", "open_output", "output_pipe", "salt",
               "cipher", "io_free"} => cmd.kind = "cipher"
    /\ pc = "base64_open" => cmd.kind = "base64"
    /\ pc = "digest" => cmd.kind = "digest"
    /\ cmd.kind = "digest" => cmd.output = NoFile
    /\ pc = "input_pipe" => Unwrapped
    /\ pc = "output_pipe" => Wrapped
    /\ pc \in {"input_pipe", "read"} => io.fd_in # -1
    /\ pc = "open_input" => io.fd_in = 0
    /\ pc \in {"open_input", "input_pipe", "read", "open_output"} \/ Decoding => io.fd_out = 1
    /\ pc \in {"open_input", "input_pipe", "read", "open_output", "output_pipe"} \/ Decoding =>
          io.fd_in_base64 = 0 /\ io.fd_out_base64 = 0
    /\ pc \in {"output_pipe", "salt", "cipher"} => io.fd_out # -1
    /\ Decoding => Unwrapped /\ pc # "base64_output" /\ b64.fd_in = io.fd_in
    /\ Encoding => /\ Wrapped /\ pc # "base64_output"
                   /\ b64.fd_in = io.fd_in_base64 /\ b64.fd_out = io.fd_out_base64
    /\ OfBase64 => /\ cmd.kind = "base64"
                   /\ pc = "base64_output" => cmd.output # NoFile
                   /\ pc # "base64_write" \/ cmd.output = NoFile => b64.fd_out = 1
                   /\ cmd.input = NoFile => b64.fd_in = 0

\* The numbers above 1 that a command may close or change were free when it began.
Own(d) == d >= 2 => before.fds[d] = Closed
OwnNumbers == /\ Own(io.fd_in) /\ Own(io.fd_out) /\ Own(io.fd_in_base64) /\ Own(io.fd_out_base64)
              /\ Own(b64.fd_in) /\ Own(b64.fd_out) /\ Own(b64.pipe_r)
OthersKept == \A d \in 2 .. MaxFd : before.fds[d] # Closed => fds[d] = before.fds[d]

\* The descriptors beside 0 that a write could reach anything but the terminal by.
Writing == {d \in 1 .. MaxFd : fds[d].kind \in {"writer", "pipe_w"}}
MayWrite ==
    {d \in Fd : \/ pc = "io_free" /\ d \in {io.fd_out, io.fd_out_base64}
                \/ pc \in {"salt", "cipher"} /\ Wrapped /\ d = io.fd_out
                \/ /\ pc \in {"output_pipe", "salt", "cipher"} /\ cmd.output # NoFile
                   /\ d \in {io.fd_out, io.fd_out_base64}
                \/ Decoding /\ d = b64.fd_out
                \/ /\ Encoding \/ (OfBase64 /\ pc = "base64_write")
                   /\ cmd.output # NoFile /\ d = b64.fd_out}
Writers == Writing \subseteq MayWrite

\* The descriptors that are open and were not when the command began.
New == {d \in Fd : fds[d] # Closed /\ before.fds[d] = Closed}
OutNumbers == {io.fd_out, io.fd_in_base64, io.fd_out_base64}
Opened ==
    /\ pc \in {"open_input", "open_output", "base64_open", "digest"} => New = {}
    /\ pc \in {"input_pipe", "read"} => New \subseteq {io.fd_in}
    /\ pc = "output_pipe" => New \subseteq {io.fd_out}
    /\ pc \in {"salt", "cipher"} => New \subseteq OutNumbers
    /\ pc = "io_free" => New \subseteq OutNumbers \/ (ret # 0 /\ New \subseteq {io.fd_in})
    /\ Decoding => New \subseteq {io.fd_in, b64.pipe_r, b64.fd_out}
    /\ Encoding => New \subseteq OutNumbers
    /\ OfBase64 =>
          /\ New \subseteq {b64.fd_in} \cup IF pc = "base64_write" THEN {b64.fd_out} ELSE {}
          /\ cmd.input # NoFile \/ pc = "base64_output" => fds[0] # Closed
          /\ pc = "base64_write" => b64.fd_out # 0
    /\ AtRest /\ Started =>
          /\ \E d \in Fd : New \subseteq {d}
          /\ cmd.kind = "cipher" /\ ret = 0 => New \subseteq {0}

\* Where the payload is, until the command has it.
Untouched == pc \in {"open_input", "input_pipe", "read", "base64_open", "digest"} \/ Decoding
             \/ (OfBase64 /\ pc = "base64_read")
Input ==
    /\ Untouched => contents = before.contents /\ payload = Data("nothing", 0)
    /\ cmd.input # NoFile =>
          /\ pc = "input_pipe" \/ (pc = "read" /\ ~Unwrapped) => fds[io.fd_in] = Object("unread", cmd.input)
          /\ InBase64 /\ pc = "base64_read" /\ b64.caller # "output" =>
                fds[b64.fd_in] = Object("unread", cmd.input)
          /\ Decoding /\ pc = "base64_write" =>
                b64.payload = before.contents[cmd.input] /\ fds[b64.fd_in] = Object("drained", cmd.input)
          /\ pc = "read" /\ Unwrapped =>
                /\ fds[io.fd_in].kind = "pipe_r"
                /\ pipe.data # "nothing" => pipe = before.contents[cmd.input]
    /\ Decoding =>
          /\ fds[b64.pipe_r].kind = "pipe_r" /\ fds[b64.fd_out].kind = "pipe_w"
          /\ pc = "base64_read" => pipe = Data("nothing", 0)
          /\ pc = "base64_write" => /\ pipe.n + todo = b64.payload.n
                                    /\ pipe.data \in {"nothing", b64.payload.data}
    /\ PayloadIsInput

\* How much of the result is where it belongs or missed, and what is still to come.
Sent(n) == IF cmd.output = NoFile THEN shown + missed = n
           ELSE contents[cmd.output].data = "result" /\ contents[cmd.output].n + missed = n
GoesTo(fd) == IF cmd.output = NoFile THEN fd = 1 ELSE fds[fd] = Object("writer", cmd.output)
Output ==
    /\ Untouched \/ pc = "open_output" => shown = 0 /\ missed = 0
    /\ pc = "output_pipe" => GoesTo(io.fd_out) /\ Sent(0)
    /\ pc \in {"salt", "cipher"} =>
          IF Wrapped THEN /\ GoesTo(io.fd_out_base64) /\ Sent(0)
                          /\ fds[io.fd_out].kind = "pipe_w" /\ fds[io.fd_in_base64].kind = "pipe_r"
                     ELSE GoesTo(io.fd_out)
    /\ pc = "salt" => IF Wrapped THEN pipe.n = 0 ELSE Sent(0)
    /\ pc = "cipher" => /\ todo <= Expected
                        /\ IF Wrapped THEN pipe.n + todo = Expected ELSE Sent(Expected - todo)
    /\ Encoding => /\ GoesTo(b64.fd_out)
                   /\ pc = "base64_read" => fds[b64.fd_in].kind = "pipe_r" /\ pipe.n = Expected /\ Sent(0)
    /\ OfBase64 => /\ pc = "base64_write" => GoesTo(b64.fd_out)
                   /\ pc = "base64_output" => todo = Expected /\ shown = 0 /\ missed = 0
    /\ (Encoding \/ OfBase64) /\ pc = "base64_write" => todo <= Expected /\ Sent(Expected - todo)
    /\ pc = "io_free" /\ ret = 0 => Sent(Expected)
    /\ SuccessIsComplete

IInv == TypeOK /\ Places /\ OwnNumbers /\ OthersKept /\ Writers /\ Opened /\ Input /\ Output

-----------------------------------------------------------------------------
(* Descriptors.                                                            *)

\* The least of some numbers is one of them.
LEMMA LeastNumber ==
    ASSUME NEW T \in SUBSET Nat, T # {}
    PROVE  /\ Min(T) \in T
           /\ \A y \in T : Min(T) <= y
<1> DEFINE less == {pair \in Nat \X Nat : pair[1] < pair[2]}
<1>1. IsWellFoundedOn(less, Nat)
  BY NatLessThanWellFounded DEF OpToRel
<1>2. PICK x \in T : \A y \in T : <<y, x>> \notin less
  <2> HIDE DEF less
  <2> QED BY <1>1, WFMin
<1>3. ASSUME NEW y \in T PROVE x <= y
  <2>1. x \in Nat /\ y \in Nat /\ <<y, x>> \notin less
    BY <1>2
  <2>2. ~ (y < x)
    BY <2>1
  <2> QED BY <2>1, <2>2
<1> QED BY <1>3 DEF Min

\* open() takes a free number, and takes 0 when it can.
LEMMA NewFdIsFree ==
    ASSUME Free(fds) # {}
    PROVE  /\ NewFd \in Fd /\ fds[NewFd] = Closed
           /\ fds[0] = Closed => NewFd = 0
<1>1. Free(fds) \in SUBSET Nat /\ 0 \in Fd
  BY BoundsAssumption DEF Free, Fd
<1> QED BY <1>1, LeastNumber DEF Free, NewFd, Fd

\* pipe() takes two free numbers, never 0 for the one that is written.
LEMMA PipeIsFree ==
    ASSUME PipeFits
    PROVE  /\ PipeR \in Fd /\ fds[PipeR] = Closed
           /\ PipeW \in Fd /\ fds[PipeW] = Closed
           /\ PipeR # PipeW /\ PipeW # 0
<1>1. Free(fds) \in SUBSET Nat
  BY DEF Free, Fd
<1>2. IsFiniteSet(Free(fds))
  <2>1. IsFiniteSet(Fd)
    BY BoundsAssumption, FS_Interval DEF Fd
  <2>2. Free(fds) \in SUBSET Fd
    BY DEF Free
  <2> QED BY <2>1, <2>2, FS_Subset
<1>3. Free(fds) # {} /\ \A x : Free(fds) # {x}
  <2>1. Cardinality(Free(fds)) # 0 /\ Cardinality(Free(fds)) # 1
    BY <1>2, FS_CardinalityType DEF PipeFits
  <2> QED BY <1>2, <2>1, FS_EmptySet, FS_Singleton
<1>4. PipeR \in Free(fds) /\ \A y \in Free(fds) : PipeR <= y
  BY <1>1, <1>3, LeastNumber DEF PipeR
<1>5. Free(fds) \ {PipeR} # {} /\ Free(fds) \ {PipeR} \in SUBSET Nat
  BY <1>1, <1>3, <1>4
<1>6. PipeW \in Free(fds) \ {PipeR}
  BY <1>5, LeastNumber DEF PipeW
<1>7. PipeR \in Nat /\ PipeW \in Nat /\ PipeR <= PipeW
  BY <1>1, <1>4, <1>6
<1> QED BY <1>4, <1>6, <1>7 DEF Free

\* What descriptors stand for, and amounts of data.
LEMMA ObjectsAre ==
    /\ {Closed, Terminal, Object("pipe_r", NoFile), Object("pipe_w", NoFile)} \subseteq Objects
    /\ \A f \in Files : {Object("unread", f), Object("drained", f), Object("writer", f)} \subseteq Objects
    /\ \A k, f : Object(k, f).kind = k /\ Object(k, f).file = f
    /\ Closed.kind = "closed" /\ Terminal.kind = "terminal"
    /\ \A o \in Objects : /\ o = Object(o.kind, o.file)
                          /\ o.kind = "closed" => o = Closed
                          /\ o.kind = "terminal" => o = Terminal
                          /\ o.kind \in {"unread", "drained", "writer"} => o.file \in Files
BY DEF Objects, Object, Closed, Terminal

LEMMA DataAre ==
    /\ \A d, n : Data(d, n).data = d /\ Data(d, n).n = n
    /\ \A d \in Files \cup {"typed", "nothing", "result"}, n \in Nat : Data(d, n) \in Datum
    /\ \A x \in Datum : /\ x = Data(x.data, x.n) /\ x.n \in Nat
                        /\ x.data \in Files \cup {"typed", "nothing", "result"}
BY DEF Data, Datum

\* The contexts commands begin with.
LEMMA NoneYet ==
    /\ NoIo.fd_in = 0 /\ NoIo.fd_out = 1 /\ NoIo.fd_in_base64 = 0 /\ NoIo.fd_out_base64 = 0
    /\ NoB64.fd_in = 0 /\ NoB64.fd_out = 1 /\ NoB64.pipe_r = 0
    /\ NoB64.mode = "encode" /\ NoB64.caller = "command" /\ NoB64.payload = Data("nothing", 0)
BY DEF NoIo, NoB64

\* What TypeOK says of the parts of the state.
LEMMA Types ==
    ASSUME TypeOK
    PROVE  /\ cmd.kind \in {"cipher", "base64", "digest"} /\ cmd.mode \in {"encode", "decode"}
           /\ cmd.input \in Files \cup {NoFile} /\ cmd.output \in Files \cup {NoFile}
           /\ io.fd_in \in Fd \cup {-1} /\ io.fd_out \in Fd \cup {-1}
           /\ io.fd_in_base64 \in Fd /\ io.fd_out_base64 \in Fd
           /\ b64.fd_in \in Fd /\ b64.fd_out \in Fd /\ b64.pipe_r \in Fd
           /\ b64.caller \in {"command", "input", "output"} /\ b64.payload \in Datum
           /\ Fd \subseteq Nat /\ {0, 1, 2} \subseteq Fd /\ -1 \notin Fd
           /\ Fd = {0} \cup 1 .. MaxFd /\ 2 .. MaxFd \subseteq Fd
           /\ \A d \in Fd : fds[d] \in Objects /\ before.fds[d] \in Objects
           /\ \A f \in Files : contents[f] \in Datum /\ before.contents[f] \in Datum
<1>1. /\ cmd.kind \in {"cipher", "base64", "digest"} /\ cmd.mode \in {"encode", "decode"}
      /\ cmd.input \in Files \cup {NoFile} /\ cmd.output \in Files \cup {NoFile}
  BY DEF TypeOK, ControlOK, TablesOK, ContextsOK, DataOK, CommandLine
<1>2. /\ io.fd_in \in Fd \cup {-1} /\ io.fd_out \in Fd \cup {-1}
      /\ io.fd_in_base64 \in Fd /\ io.fd_out_base64 \in Fd
      /\ b64.fd_in \in Fd /\ b64.fd_out \in Fd /\ b64.pipe_r \in Fd
      /\ b64.caller \in {"command", "input", "output"} /\ b64.payload \in Datum
  BY DEF TypeOK, ControlOK, TablesOK, ContextsOK, DataOK
<1>3. /\ Fd \subseteq Nat /\ {0, 1, 2} \subseteq Fd /\ -1 \notin Fd
      /\ Fd = {0} \cup 1 .. MaxFd /\ 2 .. MaxFd \subseteq Fd
  BY BoundsAssumption DEF Fd
<1>4. /\ \A d \in Fd : fds[d] \in Objects /\ before.fds[d] \in Objects
      /\ \A f \in Files : contents[f] \in Datum /\ before.contents[f] \in Datum
  BY DEF TypeOK, ControlOK, TablesOK, ContextsOK, DataOK, IsTable
<1> QED BY <1>1, <1>2, <1>3, <1>4

-----------------------------------------------------------------------------
(* The prompt.                                                             *)

LEMMA HandleCommandStep ==
    ASSUME IInv, HandleCommand
    PROVE  IInv'
<1>1. /\ pc = "prompt" /\ pc' \in {"open_input", "base64_open", "digest"} /\ cmd' \in CommandLine
      /\ pc' = "open_input" => cmd'.kind = "cipher"
      /\ pc' = "base64_open" => cmd'.kind = "base64"
      /\ pc' = "digest" => cmd'.kind = "digest"
      /\ cmd'.kind = "digest" => cmd'.output = NoFile
      /\ payload' = Data("nothing", 0) /\ todo' = 0 /\ shown' = 0 /\ missed' = 0 /\ count' = count + 1
      /\ UNCHANGED <<interactive, ret, fds, contents, pipe>>
  BY CommandsAssumption DEF HandleCommand, CommandLine
<1>2. /\ io' = NoIo /\ b64' = NoB64
      /\ before'.fds = fds /\ before'.contents = contents
      /\ io'.fd_in = 0 /\ io'.fd_out = 1 /\ io'.fd_in_base64 = 0 /\ io'.fd_out_base64 = 0
      /\ b64'.fd_in = 0 /\ b64'.fd_out = 1 /\ b64'.pipe_r = 0
  BY NoneYet DEF HandleCommand
<1>3. TypeOK'
  <2>1. io' \in [fd_in : Fd \cup {-1}, fd_out : Fd \cup {-1}, fd_in_base64 : Fd, fd_out_base64 : Fd]
    BY <1>2, Types DEF IInv, NoIo
  <2>2. Data("nothing", 0) \in Datum
    BY DataAre
  <2>3. b64' \in [fd_in : Fd, fd_out : Fd, mode : {"encode", "decode"},
                  caller : {"command", "input", "output"}, pipe_r : Fd, payload : Datum]
    BY <1>2, <2>2, Types DEF IInv, NoB64
  <2>4. before' \in [fds : [Fd -> Objects], contents : [Files -> Datum]]
    BY DEF HandleCommand, IInv, TypeOK, ControlOK, TablesOK, ContextsOK, DataOK, IsTable
  <2>5. interactive' \in BOOLEAN /\ ret' \in 0 .. 2 /\ IsTable(fds)' /\ contents' \in [Files -> Datum] /\ pipe' \in Datum
    BY <1>1 DEF IInv, TypeOK, ControlOK, TablesOK, ContextsOK, DataOK, IsTable
  <2>6. count' \in Nat /\ todo' \in Nat /\ shown' \in Nat /\ missed' \in Nat
    <3>1. count \in Nat
      BY DEF IInv, TypeOK, ControlOK, TablesOK, ContextsOK, DataOK
    <3> QED BY <1>1, <3>1
  <2> QED BY <1>1, <2>1, <2>2, <2>3, <2>4, <2>5, <2>6 DEF TypeOK, ControlOK, TablesOK, ContextsOK, DataOK
<1>4. ~InBase64' /\ ~Decoding' /\ ~Encoding' /\ ~OfBase64' /\ ~AtRest'
  BY <1>1 DEF InBase64, Decoding, Encoding, OfBase64, AtRest
<1>5. Places'
  BY <1>1, <1>2, <1>4 DEF Places
<1>6. OwnNumbers' /\ OthersKept'
  <2>1. OwnNumbers'
    BY <1>2 DEF OwnNumbers, Own
  <2>2. OthersKept'
    BY <1>1, <1>2 DEF OthersKept
  <2> QED BY <2>1, <2>2
<1>7. Writers'
  BY <1>1 DEF IInv, Writers, Writing, MayWrite, InBase64, Decoding, Encoding, OfBase64
<1>8. Opened'
  BY <1>1, <1>2, <1>4 DEF Opened, New
<1>9. Input'
  BY <1>1, <1>2, <1>4, DataAre DEF Input, Untouched, PayloadIsInput
<1>10. Output'
  BY <1>1, <1>4 DEF Output, Untouched, SuccessIsComplete
<1> QED BY <1>3, <1>5, <1>6, <1>7, <1>8, <1>9, <1>10 DEF IInv

-----------------------------------------------------------------------------
(* Steps that only end something.                                          *)

\* A step by which the process is at rest leaves the invariant as it is when it changes no
\* descriptor and no file, and does not claim a success.
LEMMA EndsAtRest ==
    ASSUME IInv, TypeOK',
           pc \in {"prompt", "open_input", "base64_open", "digest"},
           pc' \in {"prompt", "exited"},
           ret' # 0 \/ (pc = "prompt" /\ ret' = ret),
           UNCHANGED <<count, cmd, fds, contents, b64, payload, todo, shown, missed, before>>,
           Own(io.fd_in)', io'.fd_out = io.fd_out, io'.fd_in_base64 = io.fd_in_base64,
           io'.fd_out_base64 = io.fd_out_base64
    PROVE  IInv'
<1>1. ~InBase64 /\ ~InBase64' /\ ~Decoding' /\ ~Encoding' /\ ~OfBase64' /\ AtRest'
  BY DEF InBase64, Decoding, Encoding, OfBase64, AtRest
<1>2. Places'
  BY <1>1 DEF IInv, Places
<1>3. OwnNumbers'
  BY DEF IInv, OwnNumbers, Own
<1>4. OthersKept'
  BY DEF IInv, OthersKept
<1>5. Writers'
  BY DEF IInv, Writers, Writing, MayWrite, Decoding, Encoding, OfBase64, InBase64
<1>6. Opened'
  <2>1. New' = New /\ 0 \in Fd
    BY Types DEF IInv, New
  <2>2. pc = "prompt" /\ Started => /\ \E d \in Fd : New \subseteq {d}
                                    /\ cmd.kind = "cipher" /\ ret = 0 => New \subseteq {0}
    BY DEF IInv, Opened, AtRest
  <2>3. pc # "prompt" => New = {}
    BY DEF IInv, Opened
  <2>4. Started' = Started
    BY DEF Started
  <2> QED BY <1>1, <2>1, <2>2, <2>3, <2>4 DEF Opened
<1>7. Input'
  BY <1>1 DEF IInv, Input, Untouched, PayloadIsInput
<1>8. Output'
  BY <1>1 DEF IInv, Output, Untouched, SuccessIsComplete, AtRest, Started, Expected, Salted
<1> QED BY <1>2, <1>3, <1>4, <1>5, <1>6, <1>7, <1>8 DEF IInv

\* So does a step that goes on to io_free with an error.
LEMMA GivesUp ==
    ASSUME IInv, TypeOK',
           pc \in {"input_pipe", "read", "open_output", "output_pipe", "salt", "cipher"},
           pc' = "io_free", ret' # 0,
           UNCHANGED <<cmd, fds, contents, pipe, b64, payload, todo, shown, missed, before>>,
           io' = io \/ (pc = "open_output" /\ io' = [io EXCEPT !.fd_out = -1])
    PROVE  IInv'
<1>1. ~Decoding /\ ~Encoding /\ ~OfBase64 /\ ~InBase64' /\ ~Decoding' /\ ~Encoding' /\ ~OfBase64' /\ ~AtRest'
  BY DEF InBase64, Decoding, Encoding, OfBase64, AtRest
<1>2. /\ io'.fd_in = io.fd_in /\ io'.fd_in_base64 = io.fd_in_base64
      /\ io'.fd_out_base64 = io.fd_out_base64
      /\ io'.fd_out = io.fd_out \/ (io'.fd_out = -1 /\ pc = "open_output")
  BY DEF IInv, TypeOK, ControlOK, TablesOK, ContextsOK, DataOK
<1>3. Places'
  BY <1>1 DEF IInv, Places
<1>4. OwnNumbers'
  BY <1>2 DEF IInv, OwnNumbers, Own
<1>5. OthersKept'
  BY DEF IInv, OthersKept
<1>6. Writers'
  <2>1. Writing' = Writing
    BY DEF Writing
  <2>2. MayWrite \subseteq MayWrite'
    BY <1>1, <1>2 DEF MayWrite
  <2> QED BY <2>1, <2>2 DEF IInv, Writers
<1>7. Opened'
  <2>1. New' = New
    BY DEF New
  <2> QED BY <1>1, <1>2, <2>1 DEF IInv, Opened, OutNumbers
<1>8. Input'
  BY <1>1 DEF IInv, Input, Untouched, PayloadIsInput
<1>9. Output'
  BY <1>1 DEF IInv, Output, Untouched, SuccessIsComplete
<1> QED BY <1>3, <1>4, <1>5, <1>6, <1>7, <1>8, <1>9 DEF IInv

LEMMA UnsuccessfulStep ==
    ASSUME IInv,
           \/ UnknownCommand \/ PromptEnds \/ PromptFails \/ BadUsage
           \/ OpenInputFails \/ Base64OpenFails \/ DigestFails
           \/ OpenOutputFails \/ IoOpenFails \/ DeriveKeyFails \/ CipherFails
    PROVE  IInv'
<1>1. Own(-1)
  BY DEF Own
<1>2. CASE UnknownCommand
  <2>1. TypeOK'
    BY <1>2 DEF UnknownCommand, Return, command_state, IInv, TypeOK, ControlOK, TablesOK, ContextsOK, DataOK, IsTable
  <2> QED BY <1>2, <2>1, EndsAtRest DEF UnknownCommand, Return, command_state, IInv, OwnNumbers, Own
<1>3. CASE PromptEnds \/ PromptFails
  <2>1. TypeOK'
    BY <1>3 DEF PromptEnds, PromptFails, command_state, IInv, TypeOK, ControlOK, TablesOK, ContextsOK, DataOK, IsTable
  <2> QED BY <1>3, <2>1, EndsAtRest DEF PromptEnds, PromptFails, command_state, IInv, OwnNumbers, Own
<1>4. CASE BadUsage
  <2>1. TypeOK'
    BY <1>4 DEF BadUsage, command_state, IInv, TypeOK, ControlOK, TablesOK, ContextsOK, DataOK, IsTable
  <2> QED BY <1>4, <2>1, EndsAtRest DEF BadUsage, command_state, IInv, OwnNumbers, Own
<1>5. CASE OpenInputFails
  <2>1. io' = [io EXCEPT !.fd_in = -1] /\ io'.fd_in = -1
        /\ io'.fd_out = io.fd_out /\ io'.fd_in_base64 = io.fd_in_base64 /\ io'.fd_out_base64 = io.fd_out_base64
    BY <1>5 DEF OpenInputFails, IInv, TypeOK, ControlOK, TablesOK, ContextsOK, DataOK
  <2>2. TypeOK'
    BY <1>5, <2>1 DEF OpenInputFails, Return, process, IInv, TypeOK, ControlOK, TablesOK, ContextsOK, DataOK, IsTable
  <2> QED BY <1>1, <1>5, <2>1, <2>2, EndsAtRest DEF OpenInputFails, Return, process, Own
<1>6. CASE Base64OpenFails \/ DigestFails
  <2>1. TypeOK'
    BY <1>6 DEF Base64OpenFails, DigestFails, Return, process, IInv, TypeOK, ControlOK, TablesOK, ContextsOK, DataOK, IsTable
  <2> QED BY <1>6, <2>1, EndsAtRest DEF Base64OpenFails, DigestFails, Return, process, IInv, OwnNumbers, Own
<1>7. CASE OpenOutputFails
  <2>1. TypeOK'
    BY <1>7 DEF OpenOutputFails, process, IInv, TypeOK, ControlOK, TablesOK, ContextsOK, DataOK, IsTable
  <2> QED BY <1>7, <2>1, GivesUp DEF OpenOutputFails, process
<1>8. CASE IoOpenFails \/ DeriveKeyFails \/ CipherFails
  <2>1. TypeOK'
    BY <1>8 DEF IoOpenFails, DeriveKeyFails, CipherFails, process, IInv, TypeOK, ControlOK, TablesOK, ContextsOK, DataOK, IsTable
  <2> QED BY <1>8, <2>1, GivesUp DEF IoOpenFails, DeriveKeyFails, CipherFails, process
<1> QED BY <1>2, <1>3, <1>4, <1>5, <1>6, <1>7, <1>8

LEMMA PromptReadsPipeStep ==
    ASSUME IInv, PromptReadsPipe
    PROVE  IInv'
<1>1. pipe' \in Datum
  <2>1. PICK n \in 1 .. pipe.n : pipe' = Data(pipe.data, pipe.n - n)
    BY DEF PromptReadsPipe
  <2>2. pipe \in Datum
    BY DEF IInv, TypeOK, DataOK
  <2>3. pipe.n \in Nat /\ pipe.data \in Files \cup {"typed", "nothing", "result"}
    BY <2>2, DataAre
  <2>4. pipe.n - n \in Nat
    BY <2>3
  <2> QED BY <2>1, <2>3, <2>4, DataAre
<1>2. TypeOK'
  BY <1>1 DEF PromptReadsPipe, Return, command_state, IInv, TypeOK, ControlOK, TablesOK, ContextsOK, DataOK, IsTable
<1> QED BY <1>2, EndsAtRest DEF PromptReadsPipe, Return, command_state, IInv, OwnNumbers, Own

-----------------------------------------------------------------------------
(* io_open.                                                                *)

LEMMA OpenInputStep ==
    ASSUME IInv, OpenInput
    PROVE  IInv'
<1>1. /\ pc = "open_input" /\ pc' \in {"input_pipe", "read"}
      /\ pc' = "input_pipe" => cmd.base64 /\ cmd.mode = "decode"
      /\ cmd.base64 /\ cmd.mode = "decode" => pc' = "input_pipe"
      /\ UNCHANGED <<interactive, count, cmd, before, ret, contents, pipe, b64, payload, todo, shown, missed>>
  BY DEF OpenInput, process
<1>2. /\ cmd.kind = "cipher" /\ io.fd_in = 0 /\ io.fd_out = 1
      /\ io.fd_in_base64 = 0 /\ io.fd_out_base64 = 0
      /\ New = {} /\ Writing = {}
  BY <1>1 DEF IInv, Places, Opened, Writers, MayWrite, Wrapped, Unwrapped, InBase64, Decoding, Encoding, OfBase64
<1>3. /\ io'.fd_in \in Fd /\ Own(io.fd_in)'
      /\ io'.fd_out = 1 /\ io'.fd_in_base64 = 0 /\ io'.fd_out_base64 = 0
      /\ ContextsOK' /\ TablesOK'
      /\ \A d \in Fd : d # io'.fd_in => fds'[d] = fds[d]
      /\ fds'[io'.fd_in] = fds[io'.fd_in] \/ fds[io'.fd_in] = Closed
      /\ fds'[io'.fd_in].kind \in {"writer", "pipe_w"} => fds'[io'.fd_in] = fds[io'.fd_in]
      /\ cmd.input # NoFile => fds'[io'.fd_in] = Object("unread", cmd.input)
  <2>1. CASE cmd.input = NoFile
    <3>1. fds' = fds /\ io' = io
      BY <2>1 DEF OpenInput
    <3>2. Own(io.fd_in)'
      BY <1>2, <3>1 DEF Own
    <3>3. TablesOK' /\ ContextsOK'
      BY <1>1, <3>1 DEF IInv, TypeOK, TablesOK, ContextsOK, IsTable
    <3> QED BY <1>2, <2>1, <3>1, <3>2, <3>3, Types DEF IInv
  <2>2. CASE cmd.input # NoFile
    <3>1. /\ NewFd \in Fd /\ fds[NewFd] = Closed
          /\ fds' = [fds EXCEPT ![NewFd] = Object("unread", cmd.input)]
          /\ io' = [io EXCEPT !.fd_in = NewFd]
      BY <2>2, NewFdIsFree DEF OpenInput
    <3>2. Object("unread", cmd.input) \in Objects
      BY <2>2, Types, ObjectsAre DEF IInv
    <3>3. TablesOK'
      BY <1>1, <3>1, <3>2 DEF IInv, TypeOK, TablesOK, IsTable
    <3>4. ContextsOK' /\ io'.fd_in = NewFd /\ io'.fd_out = 1 /\ io'.fd_in_base64 = 0 /\ io'.fd_out_base64 = 0
      BY <1>1, <1>2, <3>1 DEF IInv, TypeOK, ContextsOK
    <3>5. Own(io.fd_in)'
      BY <1>1, <3>1, <3>4 DEF IInv, Own, OthersKept, Fd
    <3>6. \A d \in Fd : fds'[d] = IF d = NewFd THEN Object("unread", cmd.input) ELSE fds[d]
      BY <3>1 DEF IInv, TypeOK, TablesOK, IsTable
    <3> QED BY <3>1, <3>3, <3>4, <3>5, <3>6, ObjectsAre
  <2> QED BY <2>1, <2>2
<1>4. ~Decoding' /\ ~Encoding' /\ ~OfBase64' /\ ~InBase64' /\ ~AtRest'
  BY <1>1 DEF Wrapped, Unwrapped, InBase64, Decoding, Encoding, OfBase64, AtRest
<1>5. TypeOK'
  BY <1>1, <1>3 DEF IInv, TypeOK, ControlOK, DataOK
<1>6. Places'
  BY <1>1, <1>2, <1>3, <1>4, Types DEF IInv, Places, Unwrapped, Wrapped
<1>7. OwnNumbers'
  BY <1>1, <1>2, <1>3 DEF IInv, OwnNumbers, Own
<1>8. OthersKept'
  BY <1>1, <1>3, Types DEF IInv, OthersKept
<1>9. Writers'
  BY <1>2, <1>3, Types DEF IInv, Writers, Writing
<1>10. Opened'
  BY <1>1, <1>2, <1>3, <1>4 DEF Opened, New
<1>11. Input'
  BY <1>1, <1>2, <1>3, <1>4 DEF IInv, Input, Untouched, PayloadIsInput, Unwrapped
<1>12. Output'
  BY <1>1, <1>4 DEF IInv, Output, Untouched, SuccessIsComplete
<1> QED BY <1>5, <1>6, <1>7, <1>8, <1>9, <1>10, <1>11, <1>12 DEF IInv

LEMMA InputPipeStep ==
    ASSUME IInv, InputPipe
    PROVE  IInv'
<1>1. /\ pc = "input_pipe" /\ pc' = "base64_read"
      /\ UNCHANGED <<interactive, count, cmd, before, ret, contents, io, payload, todo, shown, missed>>
      /\ pipe' = Data("nothing", 0)
  BY DEF InputPipe, process
<1>2. /\ PipeR \in Fd /\ fds[PipeR] = Closed /\ PipeW \in Fd /\ fds[PipeW] = Closed
      /\ PipeR # PipeW /\ PipeW # 0
      /\ fds' = [fds EXCEPT ![PipeR] = Object("pipe_r", NoFile), ![PipeW] = Object("pipe_w", NoFile)]
  BY PipeIsFree DEF InputPipe
<1>3. \A d \in Fd : fds'[d] = IF d = PipeW THEN Object("pipe_w", NoFile)
                              ELSE IF d = PipeR THEN Object("pipe_r", NoFile) ELSE fds[d]
  BY <1>2 DEF IInv, TypeOK, TablesOK, IsTable
<1>4. Unwrapped /\ io.fd_in \in Fd /\ io.fd_out = 1 /\ io.fd_in_base64 = 0 /\ io.fd_out_base64 = 0
  BY <1>1, Types DEF IInv, Places
<1>5. /\ b64' = [NoB64 EXCEPT !.fd_in = io.fd_in, !.fd_out = PipeW, !.mode = "decode",
                              !.caller = "input", !.pipe_r = PipeR]
      /\ b64'.fd_in = io.fd_in /\ b64'.fd_out = PipeW /\ b64'.pipe_r = PipeR /\ b64'.caller = "input"
  BY DEF InputPipe, NoB64
<1>6. Decoding' /\ ~Encoding' /\ ~OfBase64' /\ ~AtRest' /\ InBase64'
  BY <1>1, <1>5 DEF Wrapped, Unwrapped, InBase64, Decoding, Encoding, OfBase64, AtRest
<1>7. TypeOK'
  <2>1. Data("nothing", 0) \in Datum
    BY DataAre
  <2>2. ContextsOK'
    BY <1>1, <1>2, <1>4, <1>5, <2>1 DEF IInv, TypeOK, ContextsOK, NoB64
  <2>3. TablesOK'
    BY <1>1, <1>2, ObjectsAre DEF IInv, TypeOK, TablesOK, IsTable
  <2> QED BY <1>1, <2>1, <2>2, <2>3 DEF IInv, TypeOK, ControlOK, DataOK
<1>8. Places'
  BY <1>1, <1>4, <1>5, <1>6 DEF IInv, Places, Unwrapped
<1>9. OwnNumbers'
  <2>1. Own(PipeR) /\ Own(PipeW)
    BY <1>2 DEF IInv, Own, OthersKept, Fd
  <2> QED BY <1>1, <1>5, <2>1 DEF IInv, OwnNumbers, Own
<1>10. OthersKept'
  BY <1>1, <1>2, <1>3, Types DEF IInv, OthersKept
<1>11. Writers'
  <2>1. Writing = {}
    BY <1>1 DEF IInv, Writers, MayWrite, Wrapped, Unwrapped, InBase64, Decoding, Encoding, OfBase64
  <2>2. Writing' \subseteq {PipeW}
    BY <1>3, <2>1, Types, ObjectsAre DEF IInv, Writing
  <2> QED BY <1>2, <1>5, <1>6, <2>2 DEF Writers, MayWrite
<1>12. Opened'
  <2>1. New \subseteq {io.fd_in}
    BY <1>1 DEF IInv, Opened
  <2>2. New' \subseteq {io.fd_in, PipeR, PipeW}
    BY <1>1, <1>3, <2>1 DEF New
  <2> QED BY <1>1, <1>5, <1>6, <2>2 DEF Opened
<1>13. Input'
  <2>1. contents = before.contents /\ payload = Data("nothing", 0)
    BY <1>1 DEF IInv, Input, Untouched
  <2>2. cmd.input # NoFile => fds'[io.fd_in] = Object("unread", cmd.input)
    <3>1. cmd.input # NoFile => fds[io.fd_in] = Object("unread", cmd.input)
      BY <1>1 DEF IInv, Input
    <3>2. Object("unread", cmd.input) # Closed
      BY ObjectsAre
    <3> QED BY <1>2, <1>3, <1>4, <3>1, <3>2
  <2>3. fds'[PipeR].kind = "pipe_r" /\ fds'[PipeW].kind = "pipe_w"
    <3>1. fds'[PipeR] = Object("pipe_r", NoFile) /\ fds'[PipeW] = Object("pipe_w", NoFile)
      BY <1>2, <1>3
    <3> QED BY <3>1, ObjectsAre
  <2> QED BY <1>1, <1>5, <1>6, <2>1, <2>2, <2>3, DataAre DEF Input, PayloadIsInput
<1>14. Output'
  BY <1>1, <1>6 DEF IInv, Output, Untouched, SuccessIsComplete
<1> QED BY <1>7, <1>8, <1>9, <1>10, <1>11, <1>12, <1>13, <1>14 DEF IInv

\* What a read returns.
LEMMA WhatIsRead ==
    ASSUME TypeOK, NEW fd, Readable(fd), NEW x \in Source(fd)
    PROVE  /\ x \in Datum /\ fd \in Fd
           /\ \A f \in Files : fds[fd] = Object("unread", f) => x = contents[f]
           /\ fds[fd].kind = "pipe_r" => x = pipe /\ \A d \in Fd : fds[d].kind # "pipe_w"
<1>1. fd \in Fd /\ fds[fd] \in Objects
  BY Types DEF Readable
<1>2. CASE fds[fd].kind = "terminal"
  <2>1. PICK n \in Typed : x = Data("typed", n)
    BY <1>2 DEF Source
  <2>2. x \in Datum
    BY <2>1, DataAre, BoundsAssumption
  <2>3. fds[fd].kind # "pipe_r" /\ \A f \in Files : fds[fd] # Object("unread", f)
    BY <1>2, ObjectsAre
  <2> QED BY <1>1, <2>2, <2>3
<1>3. CASE fds[fd].kind = "unread"
  <2>1. x = contents[fds[fd].file] /\ fds[fd].file \in Files
    BY <1>1, <1>3, ObjectsAre DEF Source
  <2> QED BY <1>1, <1>3, <2>1, Types, ObjectsAre
<1>4. CASE fds[fd].kind \in {"drained", "writer"}
  BY <1>1, <1>4, DataAre, ObjectsAre DEF Source
<1>5. CASE fds[fd].kind = "pipe_r"
  BY <1>1, <1>5, ObjectsAre DEF Source, TypeOK, DataOK
<1> QED BY <1>2, <1>3, <1>4, <1>5 DEF Readable

\* What a close does.
LEMMA WhatIsClosed ==
    ASSUME NEW table \in [Fd -> Objects], NEW ds
    PROVE  /\ Close(table, ds) \in [Fd -> Objects]
           /\ \A d \in Fd : Close(table, ds)[d] = IF d \in ds THEN Closed ELSE table[d]
BY ObjectsAre DEF Close

LEMMA ReadPayloadStep ==
    ASSUME IInv, ReadPayload
    PROVE  IInv'
<1>1. /\ pc = "read" /\ pc' = "open_output" /\ fds' = Close(fds, {io.fd_in})
      /\ Readable(io.fd_in) /\ payload' \in Source(io.fd_in)
      /\ UNCHANGED <<interactive, count, cmd, before, ret, contents, pipe, io, b64, todo, shown, missed>>
  BY DEF ReadPayload, process
<1>2. \A d \in Fd : fds'[d] = IF d = io.fd_in THEN Closed ELSE fds[d]
  BY <1>1, WhatIsClosed DEF IInv, TypeOK, TablesOK, IsTable
<1>3. ~Decoding' /\ ~Encoding' /\ ~OfBase64' /\ ~InBase64' /\ ~AtRest'
  BY <1>1 DEF Wrapped, Unwrapped, InBase64, Decoding, Encoding, OfBase64, AtRest
<1>4. payload' \in Datum
  BY <1>1, WhatIsRead DEF IInv
<1>5. TypeOK'
  BY <1>1, <1>4, WhatIsClosed DEF IInv, TypeOK, ControlOK, TablesOK, ContextsOK, DataOK, IsTable
<1>6. Places'
  BY <1>1, <1>3 DEF IInv, Places
<1>7. OwnNumbers'
  BY <1>1 DEF IInv, OwnNumbers, Own
<1>8. OthersKept'
  <2>1. ASSUME NEW d \in 2 .. MaxFd, before.fds[d] # Closed PROVE fds'[d] = before.fds[d]
    <3>1. d # io.fd_in /\ fds[d] = before.fds[d]
      BY <2>1 DEF IInv, OthersKept, OwnNumbers, Own
    <3> QED BY <1>2, <3>1, Types DEF IInv
  <2> QED BY <1>1, <2>1 DEF OthersKept
<1>9. Writers'
  <2>1. Writing = {}
    BY <1>1 DEF IInv, Writers, MayWrite, Wrapped, Unwrapped, InBase64, Decoding, Encoding, OfBase64
  <2> QED BY <1>2, <2>1, Types, ObjectsAre DEF IInv, Writers, Writing
<1>10. Opened'
  BY <1>1, <1>2, <1>3 DEF IInv, Opened, New
<1>11. Input'
  <2>1. contents = before.contents
    BY <1>1 DEF IInv, Input, Untouched
  <2>2. ASSUME cmd.input # NoFile, ~Unwrapped
        PROVE  payload' = before.contents[cmd.input]
    <3>1. fds[io.fd_in] = Object("unread", cmd.input) /\ cmd.input \in Files
      BY <1>1, <2>2, Types DEF IInv, Input
    <3> QED BY <1>1, <2>1, <3>1, WhatIsRead DEF IInv
  <2>3. ASSUME cmd.input # NoFile, Unwrapped, payload'.data # "nothing"
        PROVE  payload' = before.contents[cmd.input]
    <3>1. fds[io.fd_in].kind = "pipe_r" /\ (pipe.data # "nothing" => pipe = before.contents[cmd.input])
      BY <1>1, <2>3 DEF IInv, Input
    <3>2. payload' = pipe
      BY <1>1, <3>1, WhatIsRead DEF IInv
    <3> QED BY <2>3, <3>1, <3>2
  <2>4. PayloadIsInput'
    BY <1>1, <2>2, <2>3 DEF PayloadIsInput
  <2> QED BY <1>1, <1>3, <2>4 DEF Input, Untouched
<1>12. Output'
  BY <1>1, <1>3 DEF IInv, Output, Untouched, SuccessIsComplete
<1> QED BY <1>5, <1>6, <1>7, <1>8, <1>9, <1>10, <1>11, <1>12 DEF IInv

LEMMA OpenOutputStep ==
    ASSUME IInv, OpenOutput
    PROVE  IInv'
<1>1. /\ pc = "open_output" /\ pc' \in {"output_pipe", "salt"}
      /\ pc' = "output_pipe" => cmd.base64 /\ cmd.mode = "encode"
      /\ cmd.base64 /\ cmd.mode = "encode" => pc' = "output_pipe"
      /\ UNCHANGED <<interactive, count, cmd, before, ret, pipe, b64, payload, todo, shown, missed>>
  BY DEF OpenOutput, process
<1>2. /\ cmd.kind = "cipher" /\ io.fd_out = 1 /\ io.fd_in_base64 = 0 /\ io.fd_out_base64 = 0
      /\ New = {} /\ Writing = {} /\ shown = 0 /\ missed = 0
  BY <1>1 DEF IInv, Places, Opened, Output, Writers, MayWrite, Wrapped, Unwrapped, InBase64, Decoding, Encoding, OfBase64
<1>3. /\ io'.fd_out \in Fd /\ Own(io.fd_out)'
      /\ io'.fd_in = io.fd_in /\ io'.fd_in_base64 = 0 /\ io'.fd_out_base64 = 0
      /\ ContextsOK' /\ TablesOK' /\ contents' \in [Files -> Datum]
      /\ \A d \in Fd : d # io'.fd_out => fds'[d] = fds[d]
      /\ fds'[io'.fd_out] = fds[io'.fd_out] \/ fds[io'.fd_out] = Closed
      /\ cmd.output = NoFile => fds' = fds
      /\ GoesTo(io.fd_out)' /\ Sent(0)'
  <2>1. CASE cmd.output = NoFile
    <3>1. fds' = fds /\ io' = io /\ contents' = contents
      BY <2>1 DEF OpenOutput
    <3>2. Own(io.fd_out)'
      BY <1>2, <3>1 DEF Own
    <3>3. TablesOK' /\ ContextsOK' /\ contents' \in [Files -> Datum]
      BY <1>1, <3>1 DEF IInv, TypeOK, ControlOK, TablesOK, ContextsOK, DataOK, IsTable
    <3>4. GoesTo(io.fd_out)' /\ Sent(0)'
      BY <1>1, <1>2, <2>1, <3>1 DEF GoesTo, Sent
    <3> QED BY <1>2, <2>1, <3>1, <3>2, <3>3, <3>4, Types DEF IInv
  <2>2. CASE cmd.output # NoFile
    <3>1. /\ NewFd \in Fd /\ fds[NewFd] = Closed
          /\ fds' = [fds EXCEPT ![NewFd] = Object("writer", cmd.output)]
          /\ io' = [io EXCEPT !.fd_out = NewFd]
          /\ contents' = [contents EXCEPT ![cmd.output] = Data("result", 0)]
      BY <2>2, NewFdIsFree DEF OpenOutput
    <3>2. cmd.output \in Files /\ Object("writer", cmd.output) \in Objects /\ Data("result", 0) \in Datum
      BY <2>2, Types, ObjectsAre, DataAre DEF IInv
    <3>3. TablesOK' /\ contents' \in [Files -> Datum]
      BY <1>1, <3>1, <3>2 DEF IInv, TypeOK, ControlOK, TablesOK, ContextsOK, DataOK, IsTable
    <3>4. ContextsOK' /\ io'.fd_out = NewFd /\ io'.fd_in = io.fd_in /\ io'.fd_in_base64 = 0 /\ io'.fd_out_base64 = 0
      BY <1>1, <1>2, <3>1 DEF IInv, TypeOK, ContextsOK
    <3>5. Own(io.fd_out)'
      BY <1>1, <3>1, <3>4 DEF IInv, Own, OthersKept, Fd
    <3>6. \A d \in Fd : fds'[d] = IF d = NewFd THEN Object("writer", cmd.output) ELSE fds[d]
      BY <3>1 DEF IInv, TypeOK, TablesOK, IsTable
    <3>7. GoesTo(io.fd_out)'
      BY <1>1, <2>2, <3>1, <3>4, <3>6 DEF GoesTo
    <3>8. Sent(0)'
      <4>1. contents'[cmd.output] = Data("result", 0)
        BY <1>1, <2>2, <3>1, <3>2 DEF IInv, TypeOK, DataOK
      <4>2. missed' = 0 /\ cmd' = cmd
        BY <1>1, <1>2
      <4>3. Data("result", 0).data = "result" /\ Data("result", 0).n + 0 = 0
        BY DataAre
      <4> QED BY <2>2, <4>1, <4>2, <4>3 DEF Sent
    <3> QED BY <2>2, <3>1, <3>3, <3>4, <3>5, <3>6, <3>7, <3>8
  <2> QED BY <2>1, <2>2
<1>4. ~Decoding' /\ ~Encoding' /\ ~OfBase64' /\ ~InBase64' /\ ~AtRest'
  BY <1>1 DEF Wrapped, Unwrapped, InBase64, Decoding, Encoding, OfBase64, AtRest
<1>5. pc' = "salt" => ~Wrapped'
  BY <1>1 DEF Wrapped
<1>6. TypeOK'
  BY <1>1, <1>3 DEF IInv, TypeOK, ControlOK, DataOK
<1>7. Places'
  BY <1>1, <1>2, <1>3, <1>4, Types DEF IInv, Places, Unwrapped, Wrapped
<1>8. OwnNumbers'
  BY <1>1, <1>2, <1>3 DEF IInv, OwnNumbers, Own
<1>9. OthersKept'
  BY <1>1, <1>3, Types DEF IInv, OthersKept
<1>10. Writers'
  BY <1>1, <1>2, <1>3, <1>4, <1>5, Types DEF IInv, Writers, Writing, MayWrite
<1>11. Opened'
  BY <1>1, <1>2, <1>3, <1>4 DEF Opened, New, OutNumbers
<1>12. Input'
  BY <1>1, <1>4 DEF IInv, Input, Untouched, PayloadIsInput
<1>13. Output'
  BY <1>1, <1>3, <1>4, <1>5 DEF Output, Untouched, SuccessIsComplete
<1> QED BY <1>6, <1>7, <1>8, <1>9, <1>10, <1>11, <1>12, <1>13 DEF IInv

LEMMA OutputPipeStep ==
    ASSUME IInv, OutputPipe
    PROVE  IInv'
<1>1. /\ pc = "output_pipe" /\ pc' = "salt"
      /\ UNCHANGED <<interactive, count, cmd, before, ret, contents, b64, payload, todo, shown, missed>>
      /\ pipe' = Data("nothing", 0)
  BY DEF OutputPipe, process
<1>2. /\ PipeR \in Fd /\ fds[PipeR] = Closed /\ PipeW \in Fd /\ fds[PipeW] = Closed
      /\ PipeR # PipeW /\ PipeW # 0
      /\ fds' = [fds EXCEPT ![PipeR] = Object("pipe_r", NoFile), ![PipeW] = Object("pipe_w", NoFile)]
  BY PipeIsFree DEF OutputPipe
<1>3. \A d \in Fd : fds'[d] = IF d = PipeW THEN Object("pipe_w", NoFile)
                              ELSE IF d = PipeR THEN Object("pipe_r", NoFile) ELSE fds[d]
  BY <1>2 DEF IInv, TypeOK, TablesOK, IsTable
<1>4. Wrapped /\ Wrapped' /\ io.fd_out \in Fd
  BY <1>1, Types DEF IInv, Places, Wrapped
<1>5. /\ io' = [io EXCEPT !.fd_out_base64 = io.fd_out, !.fd_in_base64 = PipeR, !.fd_out = PipeW]
      /\ io'.fd_in = io.fd_in /\ io'.fd_out = PipeW /\ io'.fd_in_base64 = PipeR /\ io'.fd_out_base64 = io.fd_out
  BY DEF OutputPipe, IInv, TypeOK, ContextsOK
<1>6. ~Decoding' /\ ~Encoding' /\ ~OfBase64' /\ ~InBase64' /\ ~AtRest'
  BY <1>1 DEF Wrapped, Unwrapped, InBase64, Decoding, Encoding, OfBase64, AtRest
<1>7. TypeOK'
  <2>1. Data("nothing", 0) \in Datum
    BY DataAre
  <2>2. ContextsOK'
    BY <1>1, <1>2, <1>4, <1>5 DEF IInv, TypeOK, ContextsOK
  <2>3. TablesOK'
    BY <1>1, <1>2, ObjectsAre DEF IInv, TypeOK, TablesOK, IsTable
  <2> QED BY <1>1, <2>1, <2>2, <2>3 DEF IInv, TypeOK, ControlOK, DataOK
<1>8. Places'
  BY <1>1, <1>2, <1>5, <1>6, Types DEF IInv, Places
<1>9. OwnNumbers'
  <2>1. Own(PipeR) /\ Own(PipeW)
    BY <1>2 DEF IInv, Own, OthersKept, Fd
  <2> QED BY <1>1, <1>5, <2>1 DEF IInv, OwnNumbers, Own
<1>10. OthersKept'
  BY <1>1, <1>2, <1>3, Types DEF IInv, OthersKept
<1>11. Writers'
  <2>1. Writing \subseteq IF cmd.output # NoFile THEN {io.fd_out, io.fd_out_base64} ELSE {}
    BY <1>1 DEF IInv, Writers, MayWrite, Wrapped, Unwrapped, InBase64, Decoding, Encoding, OfBase64
  <2>2. io.fd_out_base64 = 0
    BY <1>1 DEF IInv, Places
  <2>3. ASSUME NEW d \in Writing' PROVE d \in MayWrite'
    <3>1. d \in 1 .. MaxFd /\ d \in Fd /\ fds'[d].kind \in {"writer", "pipe_w"}
      BY <2>3, Types DEF IInv, Writing
    <3>2. CASE d = PipeW
      BY <1>1, <1>4, <1>5, <3>1, <3>2 DEF MayWrite
    <3>3. CASE d # PipeW
      <4>1. d # PipeR
        BY <1>3, <3>1, <3>3, ObjectsAre
      <4>2. d \in Writing
        BY <1>3, <3>1, <3>3, <4>1 DEF Writing
      <4>3. cmd'.output # NoFile /\ d = io'.fd_out_base64
        BY <1>1, <1>5, <2>1, <2>2, <3>1, <4>2
      <4> QED BY <1>1, <3>1, <4>3 DEF MayWrite
    <3> QED BY <3>2, <3>3
  <2> QED BY <2>3 DEF Writers
<1>12. Opened'
  <2>1. New \subseteq {io.fd_out}
    BY <1>1 DEF IInv, Opened
  <2>2. New' \subseteq {io.fd_out, PipeR, PipeW}
    BY <1>1, <1>3, <2>1 DEF New
  <2> QED BY <1>1, <1>5, <1>6, <2>2 DEF Opened, OutNumbers
<1>13. Input'
  BY <1>1, <1>6 DEF IInv, Input, Untouched, PayloadIsInput
<1>14. Output'
  <2>1. GoesTo(io.fd_out) /\ Sent(0)
    BY <1>1 DEF IInv, Output
  <2>2. Sent(0)'
    BY <1>1, <2>1 DEF Sent
  <2>3. GoesTo(io.fd_out_base64)'
    <3>1. Object("writer", cmd.output) # Closed
      BY ObjectsAre
    <3> QED BY <1>1, <1>2, <1>3, <1>4, <1>5, <2>1, <3>1 DEF GoesTo
  <2>4. fds'[PipeR].kind = "pipe_r" /\ fds'[PipeW].kind = "pipe_w"
    <3>1. fds'[PipeR] = Object("pipe_r", NoFile) /\ fds'[PipeW] = Object("pipe_w", NoFile)
      BY <1>2, <1>3
    <3> QED BY <3>1, ObjectsAre
  <2> QED BY <1>1, <1>4, <1>5, <1>6, <2>2, <2>3, <2>4, DataAre DEF Output, Untouched, SuccessIsComplete
<1> QED BY <1>7, <1>8, <1>9, <1>10, <1>11, <1>12, <1>13, <1>14 DEF IInv

-----------------------------------------------------------------------------
(* derive_key and the cipher.                                              *)

\* What a write does.
LEMMA WhatIsWritten ==
    ASSUME TypeOK, NEW fd \in Fd, NEW k \in Nat, NEW s \in Files \cup {"typed", "nothing", "result"},
           Writable(fd), Put(fd, k, s)
    PROVE  /\ contents' \in [Files -> Datum] /\ pipe' \in Datum /\ shown' \in Nat
           /\ fds[fd].kind \in {"terminal", "writer", "pipe_w"}
           /\ fds[fd].kind = "terminal" => shown' = shown + k /\ UNCHANGED <<contents, pipe>>
           /\ fds[fd].kind = "pipe_w" => pipe' = Data(s, pipe.n + k) /\ UNCHANGED <<contents, shown>>
           /\ \A f \in Files : fds[fd] = Object("writer", f) =>
                  /\ contents' = [contents EXCEPT ![f] = Data(s, contents[f].n + k)]
                  /\ UNCHANGED <<pipe, shown>>
<1>1. fds[fd] \in Objects /\ fds[fd].kind \in {"terminal", "writer", "pipe_w"}
  BY Types DEF Writable
<1>2. contents \in [Files -> Datum] /\ pipe \in Datum /\ shown \in Nat
  BY DEF TypeOK, DataOK
<1>3. CASE fds[fd].kind = "terminal"
  BY <1>1, <1>2, <1>3, ObjectsAre DEF Put
<1>4. CASE fds[fd].kind = "pipe_w"
  <2>1. pipe' = Data(s, pipe.n + k) /\ contents' = contents /\ shown' = shown
    BY <1>4 DEF Put
  <2>2. pipe.n + k \in Nat
    BY <1>2, DataAre
  <2>3. \A f \in Files : fds[fd] # Object("writer", f)
    BY <1>4, ObjectsAre
  <2> QED BY <1>2, <1>4, <2>1, <2>2, <2>3, DataAre
<1>5. CASE fds[fd].kind = "writer"
  <2>1. PICK f \in Files : fds[fd] = Object("writer", f)
    BY <1>1, <1>5, ObjectsAre
  <2>2. contents' = [contents EXCEPT ![f] = Data(s, contents[f].n + k)] /\ pipe' = pipe /\ shown' = shown
    <3>1. fds[fd].file = f
      BY <2>1, ObjectsAre
    <3>2. /\ contents' = [contents EXCEPT ![fds[fd].file] = Data(s, contents[fds[fd].file].n + k)]
          /\ pipe' = pipe /\ shown' = shown
      BY <1>2, <1>5, <2>1, <3>1 DEF Put
    <3> QED BY <3>1, <3>2
  <2>3. contents[f].n + k \in Nat /\ Data(s, contents[f].n + k) \in Datum
    <3>1. contents[f].n \in Nat
      BY <1>2, DataAre
    <3>2. contents[f].n + k \in Nat
      BY <3>1
    <3> QED BY <3>2, DataAre
  <2>4. \A g \in Files : fds[fd] = Object("writer", g) => g = f
    BY <2>1, ObjectsAre
  <2> QED BY <1>2, <1>5, <2>2, <2>3, <2>4
<1> QED BY <1>1, <1>3, <1>4, <1>5

\* What a write leaves behind.
LEMMA WriteTypes ==
    ASSUME TypeOK, NEW fd \in Fd, NEW k \in Nat, NEW s \in Files \cup {"typed", "nothing", "result"},
           Write(fd, k, s) \/ WriteWhole(fd, k, s)
    PROVE  /\ contents' \in [Files -> Datum] /\ pipe' \in Datum /\ shown' \in Nat /\ missed' \in Nat
           /\ fds[fd].kind = "pipe_w" =>
                  pipe' = Data(s, pipe.n + k) /\ UNCHANGED <<contents, shown, missed>>
<1>1. Writable(fd) /\ missed \in Nat
  BY DEF Write, WriteWhole, TypeOK, DataOK
<1>2. PICK w \in Nat : /\ w <= k /\ Put(fd, w, s) /\ missed' = missed + (k - w)
                       /\ fds[fd].kind = "pipe_w" => w = k
  BY <1>1 DEF Write, WriteWhole
<1>3. /\ contents' \in [Files -> Datum] /\ pipe' \in Datum /\ shown' \in Nat
      /\ fds[fd].kind = "pipe_w" => pipe' = Data(s, pipe.n + w) /\ UNCHANGED <<contents, shown>>
  BY <1>1, <1>2, WhatIsWritten
<1>4. missed' \in Nat /\ (w = k => missed' = missed)
  BY <1>1, <1>2
<1> QED BY <1>2, <1>3, <1>4

\* A write to where the result belongs.
LEMMA Delivers ==
    ASSUME TypeOK, NEW fd \in Fd, NEW k \in Nat, NEW n \in Nat,
           Write(fd, k, "result") \/ WriteWhole(fd, k, "result"), GoesTo(fd), Sent(n), cmd' = cmd,
           cmd.output = NoFile => fds[fd].kind \notin {"writer", "pipe_w"}
    PROVE  /\ Sent(n + k)' /\ pipe' = pipe
           /\ contents' = contents \/ (cmd.output # NoFile /\ \A f \in Files : f # cmd.output => contents'[f] = contents[f])
<1>0. Writable(fd) /\ missed \in Nat /\ shown \in Nat
  BY DEF Write, WriteWhole, TypeOK, DataOK
<1> PICK w \in Nat : w <= k /\ Put(fd, w, "result") /\ missed' = missed + (k - w)
  BY <1>0 DEF Write, WriteWhole
<1>1. CASE cmd.output = NoFile
  <2>1. fds[fd].kind = "terminal"
    BY <1>0, <1>1, WhatIsWritten
  <2>2. shown' = shown + w /\ UNCHANGED <<contents, pipe>>
    BY <1>0, <2>1, WhatIsWritten
  <2>3. shown' + missed' = n + k
    BY <1>0, <1>1, <2>2 DEF Sent
  <2> QED BY <1>1, <2>2, <2>3 DEF Sent
<1>2. CASE cmd.output # NoFile
  <2>1. /\ cmd.output \in Files /\ fds[fd] = Object("writer", cmd.output)
        /\ contents[cmd.output].n + missed = n /\ contents[cmd.output].n \in Nat
    BY <1>2, Types, DataAre DEF GoesTo, Sent, TypeOK, DataOK
  <2>2. contents' = [contents EXCEPT ![cmd.output] = Data("result", contents[cmd.output].n + w)] /\ pipe' = pipe
    BY <1>0, <2>1, WhatIsWritten
  <2>3. /\ contents'[cmd.output] = Data("result", contents[cmd.output].n + w)
        /\ \A f \in Files : f # cmd.output => contents'[f] = contents[f]
    BY <2>1, <2>2 DEF TypeOK, DataOK
  <2>4. contents'[cmd.output].data = "result" /\ contents'[cmd.output].n = contents[cmd.output].n + w
    BY <2>3 DEF Data
  <2>5. contents'[cmd.output].n + missed' = n + k
    BY <1>0, <2>1, <2>4
  <2> QED BY <1>2, <2>2, <2>3, <2>4, <2>5 DEF Sent
<1> QED BY <1>1, <1>2

\* Where the cipher writes to: the pipe, or where the result belongs.
LEMMA CipherOutput ==
    ASSUME IInv, pc \in {"salt", "cipher"}
    PROVE  /\ io.fd_out \in Fd /\ ~Decoding /\ ~Encoding /\ ~OfBase64
           /\ Wrapped => fds[io.fd_out].kind = "pipe_w"
           /\ ~Wrapped => GoesTo(io.fd_out)
           /\ ~Wrapped /\ cmd.output = NoFile => fds[io.fd_out].kind \notin {"writer", "pipe_w"}
<1>1. io.fd_out \in Fd /\ ~Decoding /\ ~Encoding /\ ~OfBase64
  BY Types DEF IInv, Places, Decoding, Encoding, OfBase64, InBase64
<1>2. (Wrapped => fds[io.fd_out].kind = "pipe_w") /\ (~Wrapped => GoesTo(io.fd_out))
  BY DEF IInv, Output
<1>3. ASSUME ~Wrapped, cmd.output = NoFile PROVE fds[io.fd_out].kind \notin {"writer", "pipe_w"}
  <2>1. io.fd_out = 1
    BY <1>2, <1>3 DEF GoesTo
  <2>2. MayWrite = {}
    BY <1>1, <1>3 DEF MayWrite
  <2>3. 1 \in 1 .. MaxFd
    BY BoundsAssumption
  <2> QED BY <2>1, <2>2, <2>3 DEF IInv, Writers, Writing
<1> QED BY <1>1, <1>2, <1>3

LEMMA DeriveKeyStep ==
    ASSUME IInv, DeriveKey
    PROVE  IInv'
<1>0. PICK salt \in Nat : salt = IF Salted /\ cmd.mode = "encode" THEN SaltUnits ELSE 0
  BY DEF SaltUnits
<1>1. /\ pc = "salt" /\ pc' \in {"cipher", "io_free"} /\ ret' \in {ret, 1}
      /\ pc' = "io_free" => ret' = 1
      /\ UNCHANGED <<interactive, count, cmd, before, fds, io, b64, payload>>
  BY DEF DeriveKey, process
<1>2. /\ payload.n \in Nat /\ payload \in Datum /\ salt \in Nat /\ todo \in Nat
      /\ cmd.kind = "cipher" /\ cmd.mode \in {"encode", "decode"}
  BY <1>1, DataAre, Types DEF IInv, TypeOK, DataOK, Places
<1>3. todo' \in Nat /\ (pc' = "cipher" => Expected = salt + todo')
  BY <1>0, <1>1, <1>2 DEF DeriveKey, Expected, SaltUnits
<1>4. Expected' = Expected /\ Wrapped' = Wrapped /\ PayloadIsInput' = PayloadIsInput
  BY <1>1 DEF Expected, Wrapped, PayloadIsInput, Salted
<1>5. /\ contents' \in [Files -> Datum] /\ pipe' \in Datum /\ shown' \in Nat /\ missed' \in Nat
      /\ Wrapped => pipe'.n = salt /\ Sent(0)'
      /\ ~Wrapped => Sent(salt)'
  <2>1. (Wrapped => pipe.n = 0 /\ Sent(0)) /\ (~Wrapped => Sent(0))
    BY <1>1 DEF IInv, Output
  <2>2. contents \in [Files -> Datum] /\ pipe \in Datum /\ shown \in Nat /\ missed \in Nat
    BY DEF IInv, TypeOK, DataOK
  <2>3. CASE ~(Salted /\ cmd.mode = "encode")
    <3>1. UNCHANGED <<contents, pipe, shown, missed>>
      BY <2>3 DEF DeriveKey
    <3>2. salt = 0
      BY <1>0, <2>3
    <3>3. (Sent(0) => Sent(0)')
      BY <1>1, <3>1 DEF Sent
    <3>4. Sent(0)' => Sent(salt)'
      BY <3>2 DEF Sent
    <3> QED BY <2>1, <2>2, <3>1, <3>2, <3>3, <3>4
  <2>4. CASE Salted /\ cmd.mode = "encode" /\ Wrapped
    <3>1. fds[io.fd_out].kind = "pipe_w" /\ Write(io.fd_out, salt, "result")
      BY <1>0, <1>1, <2>4, CipherOutput DEF DeriveKey
    <3>2. pipe' = Data("result", salt) /\ UNCHANGED <<contents, shown, missed>> /\ pipe' \in Datum
      <4>1. TypeOK /\ io.fd_out \in Fd
        BY <1>1, CipherOutput DEF IInv
      <4>2. pipe' = Data("result", pipe.n + salt) /\ UNCHANGED <<contents, shown, missed>> /\ pipe' \in Datum
        BY <1>2, <3>1, <4>1, WriteTypes
      <4>3. pipe.n + salt = salt
        BY <1>2, <2>1, <2>4
      <4> QED BY <4>2, <4>3
    <3> QED BY <1>1, <2>1, <2>2, <2>4, <3>2, DataAre DEF Sent
  <2>5. CASE Salted /\ cmd.mode = "encode" /\ ~Wrapped
    <3>1. Write(io.fd_out, salt, "result")
      BY <1>0, <2>5 DEF DeriveKey
    <3>2. Sent(0 + salt)'
      <4>1. /\ io.fd_out \in Fd /\ GoesTo(io.fd_out) /\ Sent(0) /\ cmd' = cmd /\ TypeOK /\ salt \in Nat /\ 0 \in Nat
            /\ cmd.output = NoFile => fds[io.fd_out].kind \notin {"writer", "pipe_w"}
        BY <1>1, <1>2, <2>1, <2>5, CipherOutput DEF IInv
      <4> QED BY <3>1, <4>1, Delivers
    <3>3. contents' \in [Files -> Datum] /\ pipe' \in Datum /\ shown' \in Nat /\ missed' \in Nat
      BY <1>1, <1>2, <3>1, WriteTypes, CipherOutput DEF IInv
    <3> QED BY <1>2, <2>5, <3>2, <3>3
  <2> QED BY <2>3, <2>4, <2>5
<1>6. ~Decoding' /\ ~Encoding' /\ ~OfBase64' /\ ~InBase64' /\ ~AtRest'
  BY <1>1 DEF Decoding, Encoding, OfBase64, InBase64, AtRest
<1>7. TypeOK'
  BY <1>1, <1>3, <1>5 DEF IInv, TypeOK, ControlOK, TablesOK, ContextsOK, DataOK, IsTable
<1>8. Places'
  BY <1>1, <1>6 DEF IInv, Places
<1>9. OwnNumbers'
  BY <1>1 DEF IInv, OwnNumbers, Own
<1>10. OthersKept'
  BY <1>1 DEF IInv, OthersKept
<1>11. Writers'
  <2>1. Writing' = Writing
    BY <1>1 DEF Writing
  <2>2. MayWrite \subseteq MayWrite'
    BY <1>1, <1>4, CipherOutput DEF MayWrite
  <2> QED BY <2>1, <2>2 DEF IInv, Writers
<1>12. Opened'
  <2>1. New' = New
    BY <1>1 DEF New
  <2> QED BY <1>1, <1>6, <2>1 DEF IInv, Opened, OutNumbers
<1>13. Input'
  BY <1>1, <1>4, <1>6 DEF IInv, Input, Untouched
<1>14. Output'
  <2>1. /\ Wrapped => GoesTo(io.fd_out_base64) /\ fds[io.fd_in_base64].kind = "pipe_r"
        /\ Wrapped => fds[io.fd_out].kind = "pipe_w"
        /\ ~Wrapped => GoesTo(io.fd_out)
    BY <1>1 DEF IInv, Output
  <2>2. /\ Wrapped => GoesTo(io.fd_out_base64)'
        /\ ~Wrapped => GoesTo(io.fd_out)'
    BY <1>1, <2>1 DEF GoesTo
  <2>3. pc' = "cipher" => todo' <= Expected /\ Expected - todo' = salt /\ salt + todo' = Expected
    <3>1. ASSUME NEW a, NEW b \in Nat, NEW c \in Nat, a = b + c PROVE c <= a /\ a - c = b /\ b + c = a
      BY <3>1
    <3> QED BY <1>2, <1>3, <3>1
  <2>4. pc' = "cipher" => IF Wrapped' THEN pipe'.n + todo' = Expected' ELSE Sent(Expected - todo)'
    <3>1. CASE Wrapped
      BY <1>4, <1>5, <2>3, <3>1
    <3>2. CASE ~Wrapped
      <4>1. ASSUME pc' = "cipher" PROVE (Expected - todo)' = salt
        BY <1>4, <2>3, <4>1
      <4> QED BY <1>4, <1>5, <3>2, <4>1 DEF Sent
    <3> QED BY <3>1, <3>2
  <2> QED BY <1>1, <1>4, <1>5, <1>6, <2>1, <2>2, <2>3, <2>4 DEF Output, Untouched, SuccessIsComplete
<1> QED BY <1>7, <1>8, <1>9, <1>10, <1>11, <1>12, <1>13, <1>14 DEF IInv

LEMMA CipherWriteStep ==
    ASSUME IInv, CipherWrite
    PROVE  IInv'
<1>1. /\ pc = "cipher" /\ pc' = "cipher" /\ todo > 0 /\ todo' = todo - 1
      /\ Write(io.fd_out, 1, "result")
      /\ UNCHANGED <<interactive, count, cmd, before, ret, fds, io, b64, payload>>
  BY DEF CipherWrite, process
<1>2. TypeOK /\ todo \in Nat /\ todo' \in Nat /\ todo <= Expected /\ io.fd_out \in Fd
  <2>1. TypeOK /\ todo \in Nat /\ todo <= Expected /\ io.fd_out \in Fd
    BY <1>1, CipherOutput DEF IInv, TypeOK, DataOK, Output
  <2> QED BY <1>1, <2>1
<1>3. Expected' = Expected /\ Wrapped' = Wrapped /\ PayloadIsInput' = PayloadIsInput
  BY <1>1 DEF Expected, Wrapped, PayloadIsInput, Salted
<1>4. contents' \in [Files -> Datum] /\ pipe' \in Datum /\ shown' \in Nat /\ missed' \in Nat
  BY <1>1, <1>2, WriteTypes
<1>5. Expected \in Nat
  BY <1>2, DataAre DEF Expected, TypeOK, DataOK, SaltUnits
<1>6. ~Decoding' /\ ~Encoding' /\ ~OfBase64' /\ ~InBase64' /\ ~AtRest'
  BY <1>1 DEF Wrapped, Unwrapped, InBase64, Decoding, Encoding, OfBase64, AtRest
<1>7. TypeOK'
  BY <1>1, <1>2, <1>4 DEF IInv, TypeOK, ControlOK, TablesOK, ContextsOK, DataOK, IsTable
<1>8. Places'
  BY <1>1, <1>6 DEF IInv, Places
<1>9. OwnNumbers'
  BY <1>1 DEF IInv, OwnNumbers, Own
<1>10. OthersKept'
  BY <1>1 DEF IInv, OthersKept
<1>11. Writers'
  <2>1. Writing' = Writing
    BY <1>1 DEF Writing
  <2>2. MayWrite \subseteq MayWrite'
    BY <1>1, <1>3, CipherOutput DEF MayWrite
  <2> QED BY <2>1, <2>2 DEF IInv, Writers
<1>12. Opened'
  <2>1. New' = New
    BY <1>1 DEF New
  <2> QED BY <1>1, <1>6, <2>1 DEF IInv, Opened, OutNumbers
<1>13. Input'
  BY <1>1, <1>3, <1>6 DEF IInv, Input, Untouched
<1>14. Output'
  <2>1. /\ Wrapped => GoesTo(io.fd_out_base64) /\ fds[io.fd_in_base64].kind = "pipe_r" /\ Sent(0)
        /\ Wrapped => fds[io.fd_out].kind = "pipe_w"
        /\ Wrapped => pipe.n + todo = Expected
        /\ ~Wrapped => GoesTo(io.fd_out) /\ Sent(Expected - todo)
    BY <1>1 DEF IInv, Output
  <2>2. /\ Wrapped => GoesTo(io.fd_out_base64)'
        /\ ~Wrapped => GoesTo(io.fd_out)'
    BY <1>1, <2>1 DEF GoesTo
  <2>3. todo' <= Expected
    BY <1>1, <1>2, <1>5
  <2>4. ASSUME Wrapped PROVE pipe'.n + todo' = Expected /\ Sent(0)'
    <3>1. pipe' = Data("result", pipe.n + 1) /\ UNCHANGED <<contents, shown, missed>>
      BY <1>1, <1>2, <2>1, <2>4, WriteTypes
    <3>2. Sent(0)'
      BY <1>1, <2>1, <2>4, <3>1 DEF Sent
    <3>3. pipe'.n = pipe.n + 1 /\ pipe.n \in Nat
      BY <1>2, <3>1, DataAre DEF TypeOK, DataOK
    <3> QED BY <1>1, <1>2, <2>1, <2>4, <3>2, <3>3
  <2>5. ASSUME ~Wrapped PROVE Sent(Expected - todo)'
    <3>1. PICK n \in Nat : n = Expected - todo
      BY <1>2, <1>5
    <3>2. Sent(n)
      BY <2>1, <2>5, <3>1
    <3>3. Sent(n + 1)'
      <4>1. cmd' = cmd /\ GoesTo(io.fd_out) /\ (cmd.output = NoFile => fds[io.fd_out].kind \notin {"writer", "pipe_w"})
        BY <1>1, <2>5, CipherOutput
      <4> QED BY <1>1, <1>2, <3>2, <4>1, Delivers
    <3>4. Expected' - todo' = n + 1
      BY <1>1, <1>2, <1>3, <1>5, <3>1
    <3>5. (Expected - todo)' = n + 1
      BY <3>4
    <3> QED BY <3>3, <3>5 DEF Sent
  <2> QED BY <1>1, <1>3, <1>6, <2>1, <2>2, <2>3, <2>4, <2>5 DEF Output, Untouched, SuccessIsComplete
<1> QED BY <1>7, <1>8, <1>9, <1>10, <1>11, <1>12, <1>13, <1>14 DEF IInv

LEMMA CipherDoneStep ==
    ASSUME IInv, CipherDone
    PROVE  IInv'
<1>1. /\ pc = "cipher" /\ todo = 0 /\ cmd.kind = "cipher"
      /\ UNCHANGED <<interactive, count, cmd, before, contents, pipe, io, payload, todo, shown, missed>>
  BY DEF CipherDone, process, IInv, Places
<1>2. Expected' = Expected /\ Wrapped' = Wrapped /\ PayloadIsInput' = PayloadIsInput
  BY <1>1 DEF Expected, Wrapped, PayloadIsInput, Salted
<1>3. \A n : Sent(n) => Sent(n)'
  BY <1>1 DEF Sent
<1>4. Expected \in Nat /\ TypeOK /\ io.fd_out \in Fd
  BY <1>1, DataAre, CipherOutput DEF IInv, Expected, TypeOK, DataOK, SaltUnits, Output
<1>5. CASE Wrapped
  <2>1. /\ fds' = Close(fds, {io.fd_out}) /\ pc' = "base64_read" /\ ret' = ret
        /\ b64' = [NoB64 EXCEPT !.fd_in = io.fd_in_base64, !.fd_out = io.fd_out_base64,
                                !.caller = "output"]
    BY <1>5 DEF CipherDone, Wrapped
  <2>2. b64'.fd_in = io.fd_in_base64 /\ b64'.fd_out = io.fd_out_base64 /\ b64'.caller = "output"
        /\ b64'.pipe_r = 0
    BY <2>1 DEF NoB64
  <2>3. \A d \in Fd : fds'[d] = IF d = io.fd_out THEN Closed ELSE fds[d]
    BY <2>1, WhatIsClosed DEF IInv, TypeOK, TablesOK, IsTable
  <2>4. ~Decoding' /\ Encoding' /\ ~OfBase64' /\ InBase64' /\ ~AtRest' /\ Wrapped'
    BY <1>2, <1>5, <2>1, <2>2 DEF Decoding, Encoding, OfBase64, InBase64, AtRest
  <2>5. TypeOK'
    <3>1. ContextsOK'
      <4>1. 0 \in Fd /\ Data("nothing", 0) \in Datum /\ io.fd_in_base64 \in Fd /\ io.fd_out_base64 \in Fd
        BY <1>4, Types, DataAre
      <4> QED BY <1>1, <1>4, <2>1, <4>1 DEF TypeOK, ContextsOK, NoB64
    <3>2. TablesOK'
      BY <1>1, <2>1, WhatIsClosed DEF IInv, TypeOK, TablesOK, IsTable
    <3> QED BY <1>1, <2>1, <3>1, <3>2 DEF IInv, TypeOK, ControlOK, DataOK
  <2>6. Places'
    BY <1>1, <2>1, <2>2, <2>4 DEF IInv, Places
  <2>7. OwnNumbers'
    BY <1>1, <2>2 DEF IInv, OwnNumbers, Own
  <2>8. OthersKept'
    <3>1. ASSUME NEW d \in 2 .. MaxFd, before.fds[d] # Closed PROVE fds'[d] = before.fds[d]
      <4>1. d # io.fd_out /\ fds[d] = before.fds[d]
        BY <3>1 DEF IInv, OthersKept, OwnNumbers, Own
      <4> QED BY <1>4, <2>3, <4>1, Types
    <3> QED BY <1>1, <3>1 DEF OthersKept
  <2>9. Writers'
    <3>1. ASSUME NEW d \in Writing' PROVE d \in MayWrite'
      <4>1. d \in Fd /\ d \in 1 .. MaxFd /\ d # io.fd_out /\ fds'[d] = fds[d]
        BY <1>4, <2>3, Types, ObjectsAre DEF Writing
      <4>2. d \in MayWrite
        BY <4>1 DEF IInv, Writers, Writing
      <4>3. cmd'.output # NoFile /\ d = b64'.fd_out
        BY <1>1, <2>2, <4>1, <4>2, CipherOutput DEF MayWrite
      <4> QED BY <2>4, <4>1, <4>3 DEF MayWrite
    <3> QED BY <3>1 DEF Writers
  <2>10. Opened'
    <3>1. New \subseteq OutNumbers /\ OutNumbers' = OutNumbers
      BY <1>1 DEF IInv, Opened, OutNumbers
    <3>2. New' \subseteq New
      BY <1>1, <2>3 DEF New
    <3> QED BY <2>1, <2>4, <3>1, <3>2 DEF Opened
  <2>11. Input'
    BY <1>1, <1>2, <2>1, <2>2, <2>4 DEF IInv, Input, Untouched
  <2>12. Output'
    <3>1. /\ GoesTo(io.fd_out_base64) /\ Sent(0)'
          /\ fds[io.fd_out].kind = "pipe_w" /\ fds[io.fd_in_base64].kind = "pipe_r"
          /\ pipe.n + todo = Expected
      BY <1>1, <1>3, <1>5 DEF IInv, Output
    <3>2. GoesTo(b64.fd_out)'
      BY <1>1, <1>4, <2>2, <2>3, <3>1, ObjectsAre, Types DEF GoesTo
    <3>3. fds'[b64'.fd_in].kind = "pipe_r"
      BY <1>4, <2>2, <2>3, <3>1, Types
    <3>4. pipe'.n = Expected'
      BY <1>1, <1>2, <1>4, <3>1, DataAre DEF TypeOK, DataOK
    <3> QED BY <1>1, <2>1, <2>2, <2>4, <3>1, <3>2, <3>3, <3>4 DEF Output, Untouched, SuccessIsComplete
  <2> QED BY <2>5, <2>6, <2>7, <2>8, <2>9, <2>10, <2>11, <2>12 DEF IInv
<1>6. CASE ~Wrapped
  <2>1. fds' = fds /\ b64' = b64 /\ pc' = "io_free" /\ ret' = 0
    BY <1>1, <1>6 DEF CipherDone, Wrapped
  <2>2. ~Decoding' /\ ~Encoding' /\ ~OfBase64' /\ ~InBase64' /\ ~AtRest'
    BY <2>1 DEF Wrapped, Unwrapped, InBase64, Decoding, Encoding, OfBase64, AtRest
  <2>3. TypeOK'
    BY <1>1, <2>1 DEF IInv, TypeOK, ControlOK, TablesOK, ContextsOK, DataOK, IsTable
  <2>4. Places'
    BY <1>1, <2>1, <2>2 DEF IInv, Places
  <2>5. OwnNumbers'
    BY <1>1, <2>1 DEF IInv, OwnNumbers, Own
  <2>6. OthersKept'
    BY <1>1, <2>1 DEF IInv, OthersKept
  <2>7. Writers'
    <3>1. Writing' = Writing
      BY <2>1 DEF Writing
    <3>2. MayWrite \subseteq MayWrite'
      BY <1>1, <1>6, <2>1, CipherOutput DEF MayWrite
    <3> QED BY <3>1, <3>2 DEF IInv, Writers
  <2>8. Opened'
    <3>1. New' = New /\ New \subseteq OutNumbers /\ OutNumbers' = OutNumbers
      BY <1>1, <2>1 DEF New, IInv, Opened, OutNumbers
    <3> QED BY <2>1, <2>2, <3>1 DEF Opened
  <2>9. Input'
    BY <1>1, <1>2, <2>1, <2>2 DEF IInv, Input, Untouched
  <2>10. Output'
    <3>1. Sent(Expected - todo)
      BY <1>1, <1>6 DEF IInv, Output
    <3>2. Expected - todo = Expected
      BY <1>1, <1>4
    <3>3. Sent(Expected)'
      BY <1>2, <1>3, <3>1, <3>2 DEF Sent
    <3> QED BY <2>1, <2>2, <3>3 DEF Output, Untouched, SuccessIsComplete
  <2> QED BY <2>3, <2>4, <2>5, <2>6, <2>7, <2>8, <2>9, <2>10 DEF IInv
<1> QED BY <1>5, <1>6

LEMMA IoFreeStep ==
    ASSUME IInv, IoFree
    PROVE  IInv'
<1>1. /\ pc = "io_free" /\ pc' \in {"prompt", "exited"} /\ ret' = ret
      /\ fds' = Close(fds, Positive({io.fd_out, io.fd_in_base64, io.fd_out_base64}))
      /\ UNCHANGED <<interactive, count, cmd, before, contents, pipe, io, b64, payload, todo, shown, missed>>
  BY DEF IoFree, Return, process
<1>2. \A d \in Fd : fds'[d] = IF d > 0 /\ d \in {io.fd_out, io.fd_in_base64, io.fd_out_base64}
                              THEN Closed ELSE fds[d]
  BY <1>1, WhatIsClosed DEF IInv, TypeOK, TablesOK, IsTable, Positive
<1>3. ~Decoding' /\ ~Encoding' /\ ~OfBase64' /\ ~InBase64' /\ AtRest' /\ ~InBase64
  BY <1>1 DEF Wrapped, Unwrapped, InBase64, Decoding, Encoding, OfBase64, AtRest
<1>4. TypeOK'
  BY <1>1, WhatIsClosed DEF IInv, TypeOK, ControlOK, TablesOK, ContextsOK, DataOK, IsTable
<1>5. Places'
  BY <1>1, <1>3 DEF IInv, Places
<1>6. OwnNumbers'
  BY <1>1 DEF IInv, OwnNumbers, Own
<1>7. OthersKept'
  <2>1. ASSUME NEW d \in 2 .. MaxFd, before.fds[d] # Closed PROVE fds'[d] = before.fds[d]
    <3>1. d \notin {io.fd_out, io.fd_in_base64, io.fd_out_base64} /\ fds[d] = before.fds[d]
      BY <2>1 DEF IInv, OthersKept, OwnNumbers, Own
    <3> QED BY <1>2, <3>1, Types DEF IInv
  <2> QED BY <1>1, <2>1 DEF OthersKept
<1>8. Writers'
  <2>1. ASSUME NEW d \in Writing' PROVE FALSE
    <3>1. d \in Fd /\ d > 0 /\ fds'[d].kind \in {"writer", "pipe_w"} /\ d \in 1 .. MaxFd
      BY <2>1, Types DEF IInv, Writing
    <3>2. fds'[d] = fds[d] /\ d \notin {io.fd_out, io.fd_out_base64}
      BY <1>2, <3>1, ObjectsAre
    <3>3. d \in MayWrite
      BY <3>1, <3>2 DEF IInv, Writers, Writing
    <3> QED BY <1>1, <1>3, <3>2, <3>3 DEF MayWrite, Decoding, Encoding, OfBase64
  <2> QED BY <2>1 DEF Writers
<1>9. Opened'
  <2>1. New \subseteq OutNumbers \/ (ret # 0 /\ New \subseteq {io.fd_in})
    BY <1>1 DEF IInv, Opened
  <2>2. \A d \in New' : d \in New /\ (d > 0 => d \notin OutNumbers)
    BY <1>1, <1>2 DEF New, OutNumbers
  <2>3. Fd \subseteq Nat /\ 0 \in Fd /\ New' \subseteq Fd
    BY Types DEF IInv, New
  <2>4. CASE New \subseteq OutNumbers
    <3>1. New' \subseteq {0}
      BY <2>2, <2>3, <2>4
    <3> QED BY <1>1, <1>3, <2>3, <3>1 DEF Opened
  <2>5. CASE ret # 0 /\ New \subseteq {io.fd_in}
    <3>1. \E d \in Fd : New' \subseteq {d}
      BY <2>2, <2>3, <2>5
    <3> QED BY <1>1, <1>3, <2>5, <3>1 DEF Opened
  <2> QED BY <2>1, <2>4, <2>5
<1>10. Input'
  BY <1>1, <1>3 DEF IInv, Input, Untouched, PayloadIsInput
<1>11. Output'
  <2>1. ret = 0 => Sent(Expected)
    BY <1>1 DEF IInv, Output
  <2>2. ret = 0 => IF cmd.output = NoFile THEN shown + missed = Expected
                   ELSE contents[cmd.output].data = "result" /\ contents[cmd.output].n + missed = Expected
    BY <2>1 DEF Sent
  <2>3. Expected' = Expected
    BY <1>1 DEF Expected, Salted
  <2>4. SuccessIsComplete'
    BY <1>1, <2>2, <2>3 DEF SuccessIsComplete
  <2> QED BY <1>1, <1>3, <2>4 DEF Output, Untouched
<1> QED BY <1>4, <1>5, <1>6, <1>7, <1>8, <1>9, <1>10, <1>11 DEF IInv

-----------------------------------------------------------------------------
(* base64() and base64_fds.                                                *)

LEMMA Base64OpenStep ==
    ASSUME IInv, Base64Open
    PROVE  IInv'
<1>1. /\ pc = "base64_open" /\ pc' = "base64_read" /\ cmd.kind = "base64"
      /\ UNCHANGED <<interactive, count, cmd, before, ret, contents, pipe, io, payload, todo, shown, missed>>
      /\ b64'.fd_out = 1 /\ b64'.caller = "command" /\ b64'.pipe_r = 0
      /\ cmd.input = NoFile => b64'.fd_in = 0
  BY DEF Base64Open, process, NoB64, IInv, Places
<1>2. New = {} /\ Writing = {} /\ TypeOK
  BY <1>1 DEF IInv, Opened, Writers, MayWrite, Wrapped, Unwrapped, InBase64, Decoding, Encoding, OfBase64
<1>3. /\ b64'.fd_in \in Fd /\ ContextsOK' /\ TablesOK' /\ Own(b64.fd_in)'
      /\ \A d \in Fd : d # b64'.fd_in => fds'[d] = fds[d]
      /\ fds' = fds \/ (fds[b64'.fd_in] = Closed /\ fds'[b64'.fd_in].kind = "unread")
      /\ cmd.input # NoFile => fds'[b64'.fd_in] = Object("unread", cmd.input) /\ fds'[0] # Closed
  <2>0. 0 \in Fd /\ 1 \in Fd /\ Data("nothing", 0) \in Datum /\ cmd.mode \in {"encode", "decode"}
    BY <1>2, Types, DataAre
  <2>1. CASE cmd.input = NoFile
    <3>1. fds' = fds /\ b64' = [NoB64 EXCEPT !.mode = cmd.mode]
      BY <2>1 DEF Base64Open
    <3>2. ContextsOK' /\ TablesOK'
      BY <1>1, <1>2, <2>0, <3>1 DEF NoB64, TypeOK, ContextsOK, TablesOK, IsTable
    <3> QED BY <1>1, <2>0, <2>1, <3>1, <3>2 DEF Own
  <2>2. CASE cmd.input # NoFile
    <3>1. /\ NewFd \in Fd /\ fds[NewFd] = Closed /\ (fds[0] = Closed => NewFd = 0)
          /\ fds' = [fds EXCEPT ![NewFd] = Object("unread", cmd.input)]
          /\ b64' = [NoB64 EXCEPT !.mode = cmd.mode, !.fd_in = NewFd]
      BY <2>2, NewFdIsFree DEF Base64Open
    <3>2. Object("unread", cmd.input) \in Objects /\ Object("unread", cmd.input) # Closed
      BY <1>2, <2>2, Types, ObjectsAre
    <3>3. ContextsOK' /\ TablesOK' /\ b64'.fd_in = NewFd
      BY <1>1, <1>2, <2>0, <3>1, <3>2 DEF NoB64, TypeOK, ContextsOK, TablesOK, IsTable
    <3>4. \A d \in Fd : fds'[d] = IF d = NewFd THEN Object("unread", cmd.input) ELSE fds[d]
      BY <1>2, <3>1 DEF TypeOK, TablesOK, IsTable
    <3>5. Own(b64.fd_in)'
      BY <1>1, <3>1, <3>3 DEF IInv, Own, OthersKept, Fd
    <3>6. fds'[0] # Closed
      BY <2>0, <3>1, <3>2, <3>4
    <3> QED BY <3>1, <3>3, <3>4, <3>5, <3>6, ObjectsAre
  <2> QED BY <2>1, <2>2
<1>4. ~Decoding' /\ ~Encoding' /\ OfBase64' /\ InBase64' /\ ~AtRest'
  BY <1>1 DEF Wrapped, Unwrapped, InBase64, Decoding, Encoding, OfBase64, AtRest
<1>5. TypeOK'
  BY <1>1, <1>3 DEF IInv, TypeOK, ControlOK, DataOK
<1>6. Places'
  BY <1>1, <1>4 DEF IInv, Places
<1>7. OwnNumbers'
  BY <1>1, <1>3 DEF IInv, OwnNumbers, Own
<1>8. OthersKept'
  BY <1>1, <1>3, Types, ObjectsAre DEF IInv, OthersKept, Own
<1>9. Writers'
  <2>1. Writing' = {}
    BY <1>2, <1>3, Types, ObjectsAre DEF Writing
  <2> QED BY <2>1 DEF Writers
<1>10. Opened'
  <2>1. New' \subseteq {b64'.fd_in}
    BY <1>1, <1>2, <1>3 DEF New
  <2> QED BY <1>1, <1>3, <1>4, <2>1 DEF Opened
<1>11. Input'
  <2>1. contents = before.contents /\ payload = Data("nothing", 0) /\ PayloadIsInput'
    BY <1>1 DEF IInv, Input, Untouched, PayloadIsInput
  <2> QED BY <1>1, <1>3, <1>4, <2>1 DEF Input, Untouched
<1>12. Output'
  <2>1. shown = 0 /\ missed = 0
    BY <1>1 DEF IInv, Output, Untouched
  <2> QED BY <1>1, <1>4, <2>1 DEF Output, SuccessIsComplete
<1> QED BY <1>5, <1>6, <1>7, <1>8, <1>9, <1>10, <1>11, <1>12 DEF IInv

\* What a read leaves of what it read.
LEMMA WhatIsDrained ==
    ASSUME fds \in [Fd -> Objects], NEW fd \in Fd
    PROVE  /\ Drained(fd) \in [Fd -> Objects]
           /\ \A d \in Fd : Drained(fd)[d] = IF d = fd /\ fds[d].kind = "unread"
                                             THEN Object("drained", fds[d].file) ELSE fds[d]
<1>1. CASE fds[fd].kind = "unread"
  <2>1. PICK f \in Files : fds[fd] = Object("unread", f) /\ fds[fd].file = f
    BY <1>1, ObjectsAre
  <2>2. Drained(fd) = [fds EXCEPT ![fd] = Object("drained", f)]
    <3>1. [fds[fd] EXCEPT !.kind = "drained"] = Object("drained", f)
      BY <2>1 DEF Object
    <3>2. Drained(fd) = [fds EXCEPT ![fd] = [fds[fd] EXCEPT !.kind = "drained"]]
      BY <1>1 DEF Drained
    <3> QED BY <3>1, <3>2
  <2>3. Object("drained", f) \in Objects
    BY ObjectsAre
  <2> QED BY <1>1, <2>1, <2>2, <2>3
<1>2. CASE fds[fd].kind # "unread"
  BY <1>2 DEF Drained
<1> QED BY <1>1, <1>2

LEMMA Base64ReadStep ==
    ASSUME IInv, Base64Read
    PROVE  IInv'
<1>1. /\ pc = "base64_read" /\ Readable(b64.fd_in) /\ fds' = Drained(b64.fd_in)
      /\ pc' = IF b64.caller = "command" /\ cmd.output # NoFile THEN "base64_output" ELSE "base64_write"
      /\ UNCHANGED <<interactive, count, cmd, before, ret, contents, pipe, io, shown, missed>>
  BY DEF Base64Read, process
<1>2. PICK x \in Source(b64.fd_in) : /\ b64' = [b64 EXCEPT !.payload = x] /\ todo' = x.n
                                     /\ payload' = IF b64.caller = "command" THEN x ELSE payload
  BY DEF Base64Read
<1>3. /\ x \in Datum /\ x.n \in Nat /\ b64.fd_in \in Fd /\ TypeOK
      /\ \A f \in Files : fds[b64.fd_in] = Object("unread", f) => x = contents[f]
      /\ fds[b64.fd_in].kind = "pipe_r" => x = pipe
  BY <1>1, WhatIsRead, DataAre DEF IInv
<1>4. /\ b64'.fd_in = b64.fd_in /\ b64'.fd_out = b64.fd_out /\ b64'.caller = b64.caller
      /\ b64'.pipe_r = b64.pipe_r /\ b64'.payload = x
  BY <1>2, <1>3 DEF TypeOK, ContextsOK
<1>5. /\ fds' \in [Fd -> Objects]
      /\ \A d \in Fd : fds'[d] = IF d = b64.fd_in /\ fds[d].kind = "unread"
                                 THEN Object("drained", fds[d].file) ELSE fds[d]
  BY <1>1, <1>3, WhatIsDrained DEF TypeOK, TablesOK, IsTable
<1>6. /\ Decoding' = Decoding /\ Encoding' = Encoding /\ OfBase64' = OfBase64 /\ InBase64' /\ ~AtRest' /\ InBase64
      /\ Wrapped' = Wrapped /\ Unwrapped' = Unwrapped
      /\ Encoding => ~Decoding /\ ~OfBase64
      /\ OfBase64 => ~Decoding /\ ~Encoding
      /\ Decoding \/ Encoding => pc' = "base64_write"
      /\ Decoding \/ Encoding \/ OfBase64
  <2>1. InBase64 /\ InBase64' /\ ~AtRest' /\ Wrapped' = Wrapped /\ Unwrapped' = Unwrapped
    BY <1>1 DEF Wrapped, Unwrapped, InBase64, AtRest
  <2>2. b64.caller \in {"command", "input", "output"}
    BY <1>3, Types
  <2> QED BY <1>1, <1>4, <2>1, <2>2 DEF Decoding, Encoding, OfBase64
<1>7. TypeOK'
  <2>1. TablesOK'
    BY <1>1, <1>3, <1>5 DEF TypeOK, TablesOK, IsTable
  <2>2. ContextsOK'
    BY <1>1, <1>2, <1>3 DEF TypeOK, ContextsOK
  <2>3. payload' \in Datum /\ todo' \in Nat
    BY <1>2, <1>3 DEF TypeOK, DataOK
  <2> QED BY <1>1, <1>3, <2>1, <2>2, <2>3 DEF TypeOK, ControlOK, DataOK
<1>8. Places'
  <2>1. OfBase64 => cmd.kind = "base64" /\ b64.fd_out = 1 /\ (cmd.input = NoFile => b64.fd_in = 0)
    BY <1>1 DEF IInv, Places
  <2>2. Decoding => /\ Unwrapped /\ b64.fd_in = io.fd_in /\ io.fd_out = 1
                    /\ io.fd_in_base64 = 0 /\ io.fd_out_base64 = 0
    BY DEF IInv, Places
  <2>3. Encoding => Wrapped /\ b64.fd_in = io.fd_in_base64 /\ b64.fd_out = io.fd_out_base64
    BY DEF IInv, Places
  <2>4. OfBase64' /\ pc' = "base64_output" => cmd'.output # NoFile
    BY <1>1
  <2>5. cmd'.kind = "digest" => cmd'.output = NoFile
    BY <1>1 DEF IInv, Places
  <2> QED BY <1>1, <1>4, <1>6, <2>1, <2>2, <2>3, <2>4, <2>5 DEF Places
<1>9. OwnNumbers'
  BY <1>1, <1>4 DEF IInv, OwnNumbers, Own
<1>10. OthersKept'
  <2>1. ASSUME NEW d \in 2 .. MaxFd, before.fds[d] # Closed PROVE fds'[d] = before.fds[d]
    <3>1. d # b64.fd_in /\ fds[d] = before.fds[d]
      BY <2>1 DEF IInv, OthersKept, OwnNumbers, Own
    <3> QED BY <1>3, <1>5, <3>1, Types
  <2> QED BY <1>1, <2>1 DEF OthersKept
<1>11. Writers'
  <2>1. Writing' \subseteq Writing
    BY <1>3, <1>5, Types, ObjectsAre DEF Writing
  <2>2. MayWrite \subseteq MayWrite'
    BY <1>1, <1>4, <1>6 DEF MayWrite
  <2> QED BY <2>1, <2>2 DEF IInv, Writers
<1>12. Opened'
  <2>1. New' = New /\ OutNumbers' = OutNumbers
    BY <1>1, <1>5, ObjectsAre DEF New, OutNumbers
  <2>2. OfBase64 => fds[0] # Closed /\ b64.fd_out # 0 /\ New \subseteq {b64.fd_in}
    <3>1. ASSUME OfBase64, cmd.input = NoFile PROVE fds[0] # Closed
      BY <1>1, <3>1, ObjectsAre DEF IInv, Places, Readable
    <3> QED BY <1>1, <3>1 DEF IInv, Places, Opened
  <2>3. OfBase64 => fds'[0] # Closed
    BY <1>3, <1>5, <2>2, Types, ObjectsAre
  <2>4. /\ Decoding => New \subseteq {io.fd_in, b64.pipe_r, b64.fd_out}
        /\ Encoding => New \subseteq OutNumbers
    BY DEF IInv, Opened
  <2> QED BY <1>1, <1>4, <1>6, <2>1, <2>2, <2>3, <2>4 DEF Opened
<1>13. Input'
  <2>1. Decoding \/ OfBase64 => contents = before.contents /\ payload = Data("nothing", 0)
    BY <1>1 DEF IInv, Input, Untouched
  <2>2. ASSUME cmd.input # NoFile, Decoding \/ OfBase64
        PROVE  x = before.contents[cmd.input] /\ fds'[b64.fd_in] = Object("drained", cmd.input)
    <3>1. fds[b64.fd_in] = Object("unread", cmd.input) /\ cmd.input \in Files
      BY <1>1, <1>3, <1>6, <2>2, Types DEF IInv, Input, Decoding, OfBase64
    <3> QED BY <1>3, <1>5, <2>1, <2>2, <3>1, ObjectsAre
  <2>3. Decoding => /\ pipe = Data("nothing", 0) /\ payload' = payload
                    /\ fds'[b64.pipe_r].kind = "pipe_r" /\ fds'[b64.fd_out].kind = "pipe_w"
    <3>1. ASSUME Decoding PROVE /\ pipe = Data("nothing", 0) /\ b64.caller # "command"
                                /\ fds[b64.pipe_r].kind = "pipe_r" /\ fds[b64.fd_out].kind = "pipe_w"
      BY <1>1, <3>1 DEF IInv, Input, Decoding
    <3> QED BY <1>2, <1>3, <1>5, <3>1, Types
  <2>4. Decoding => pipe.n + todo' = x.n /\ pipe.data = "nothing"
    BY <1>2, <1>3, <2>3, DataAre
  <2>5. PayloadIsInput'
    <3>1. CASE OfBase64
      BY <1>1, <1>2, <2>2, <3>1 DEF OfBase64, PayloadIsInput
    <3>2. CASE ~OfBase64
      <4>1. payload' = payload
        BY <1>2, <1>6, <3>2 DEF Decoding, Encoding
      <4> QED BY <1>1, <4>1 DEF IInv, Input, PayloadIsInput
    <3> QED BY <3>1, <3>2
  <2>6. Untouched' => Decoding
    BY <1>1, <1>6 DEF Untouched
  <2>7. Untouched' => contents' = before'.contents /\ payload' = Data("nothing", 0)
    BY <1>1, <2>1, <2>3, <2>6
  <2> QED BY <1>1, <1>2, <1>4, <1>6, <2>2, <2>3, <2>4, <2>5, <2>7 DEF Input
<1>14. Output'
  <2>1. Decoding \/ OfBase64 => shown = 0 /\ missed = 0
    BY <1>1 DEF IInv, Output, Untouched
  <2>2. Encoding => GoesTo(b64.fd_out) /\ fds[b64.fd_in].kind = "pipe_r" /\ pipe.n = Expected /\ Sent(0)
    BY <1>1 DEF IInv, Output
  <2>3. Encoding => /\ GoesTo(b64.fd_out)' /\ Sent(0)' /\ todo' = Expected'
    <3>1. ASSUME Encoding PROVE payload' = payload /\ fds' = fds /\ todo' = pipe.n
      <4>1. fds[b64.fd_in].kind = "pipe_r" /\ b64.caller # "command"
        BY <2>2, <3>1 DEF Encoding
      <4> QED BY <1>1, <1>2, <1>3, <4>1 DEF Drained
    <3>2. Encoding => Expected' = Expected
      BY <1>1, <3>1 DEF Expected, Salted
    <3>3. Encoding => GoesTo(b64.fd_out)'
      BY <1>1, <1>4, <2>2, <3>1 DEF GoesTo
    <3>4. Encoding => Sent(0)'
      BY <1>1, <2>2 DEF Sent
    <3> QED BY <2>2, <3>1, <3>2, <3>3, <3>4
  <2>4. OfBase64 => todo' = Expected'
    BY <1>1, <1>2 DEF OfBase64, Expected, IInv, Places
  <2>5. OfBase64 /\ pc' = "base64_write" => GoesTo(b64.fd_out)' /\ Sent(0)'
    <3>1. OfBase64 /\ pc' = "base64_write" => cmd.output = NoFile /\ b64.fd_out = 1 /\ shown = 0 /\ missed = 0
      BY <1>1, <2>1 DEF OfBase64, IInv, Places
    <3> QED BY <1>1, <1>4, <3>1 DEF GoesTo, Sent
  <2>6. (Encoding \/ OfBase64) => todo' <= Expected' /\ Expected' - todo' = 0
    BY <1>2, <1>3, <2>3, <2>4
  <2>7. (Encoding \/ OfBase64) /\ pc' = "base64_write" => Sent(Expected - todo)'
    BY <2>3, <2>5, <2>6 DEF Sent
  <2>8. Untouched' => shown' = 0 /\ missed' = 0
    BY <1>1, <1>6, <2>1 DEF Untouched
  <2> QED BY <1>1, <1>6, <2>1, <2>3, <2>4, <2>5, <2>6, <2>7, <2>8 DEF Output, SuccessIsComplete
<1> QED BY <1>7, <1>8, <1>9, <1>10, <1>11, <1>12, <1>13, <1>14 DEF IInv

LEMMA Base64OutputStep ==
    ASSUME IInv, Base64Output
    PROVE  IInv'
<1>1. /\ pc = "base64_output" /\ pc' = "base64_write" /\ Free(fds) # {}
      /\ fds' = [fds EXCEPT ![NewFd] = Object("writer", cmd.output)]
      /\ contents' = [contents EXCEPT ![cmd.output] = Data("result", 0)]
      /\ b64' = [b64 EXCEPT !.fd_out = NewFd]
      /\ UNCHANGED <<interactive, count, cmd, before, ret, pipe, io, payload, todo, shown, missed>>
  BY DEF Base64Output, process
<1>2. InBase64 /\ InBase64' /\ ~AtRest' /\ OfBase64 /\ ~Encoding /\ ~Decoding /\ TypeOK
  <2>1. InBase64 /\ InBase64' /\ ~AtRest' /\ TypeOK /\ b64.caller \in {"command", "input", "output"}
    BY <1>1, Types DEF IInv, InBase64, AtRest
  <2> QED BY <1>1, <2>1 DEF OfBase64, Encoding, Decoding, IInv, Places
<1>3. /\ cmd.kind = "base64" /\ cmd.output \in Files /\ cmd.output # NoFile
      /\ Writing = {} /\ New \subseteq {b64.fd_in} /\ missed = 0
      /\ fds[0] # Closed /\ todo = Expected /\ (cmd.input = NoFile => b64.fd_in = 0)
  <2>1. Writing = {}
    BY <1>1, <1>2 DEF IInv, Writers, MayWrite
  <2> QED BY <1>1, <1>2, <2>1, Types DEF IInv, Places, Opened, Output
<1>4. NewFd \in Fd /\ fds[NewFd] = Closed /\ NewFd # 0
  BY <1>1, <1>3, NewFdIsFree
<1>5. /\ b64'.fd_in = b64.fd_in /\ b64'.fd_out = NewFd /\ b64'.caller = b64.caller
      /\ b64'.pipe_r = b64.pipe_r
  BY <1>1, <1>2 DEF TypeOK, ContextsOK
<1>6. \A d \in Fd : fds'[d] = IF d = NewFd THEN Object("writer", cmd.output) ELSE fds[d]
  BY <1>1, <1>2 DEF TypeOK, TablesOK, IsTable
<1>7. OfBase64' /\ ~Encoding' /\ ~Decoding'
  BY <1>2, <1>5 DEF OfBase64, Encoding, Decoding
<1>8. TypeOK'
  <2>1. Object("writer", cmd.output) \in Objects /\ Data("result", 0) \in Datum
    BY <1>3, ObjectsAre, DataAre
  <2>2. TablesOK'
    BY <1>1, <1>2, <1>4, <2>1 DEF TypeOK, TablesOK, IsTable
  <2>3. ContextsOK'
    BY <1>1, <1>2, <1>4 DEF TypeOK, ContextsOK
  <2>4. DataOK'
    BY <1>1, <1>2, <1>3, <2>1 DEF TypeOK, DataOK
  <2> QED BY <1>1, <1>2, <2>2, <2>3, <2>4 DEF TypeOK, ControlOK
<1>9. Places'
  BY <1>1, <1>2, <1>3, <1>5, <1>7 DEF Places
<1>10. OwnNumbers'
  <2>1. Own(NewFd)
    BY <1>4 DEF IInv, Own, OthersKept, Fd
  <2> QED BY <1>1, <1>5, <2>1 DEF IInv, OwnNumbers, Own
<1>11. OthersKept'
  BY <1>1, <1>2, <1>4, <1>6, Types DEF IInv, OthersKept
<1>12. Writers'
  <2>1. Writing' \subseteq {NewFd}
    BY <1>2, <1>3, <1>6, Types DEF Writing
  <2>2. NewFd \in MayWrite'
    BY <1>1, <1>3, <1>4, <1>5, <1>7 DEF MayWrite
  <2> QED BY <2>1, <2>2 DEF Writers
<1>13. Opened'
  <2>1. New' \subseteq {b64.fd_in, NewFd}
    BY <1>1, <1>3, <1>6 DEF New
  <2>2. fds'[0] # Closed
    BY <1>2, <1>3, <1>4, <1>6, Types
  <2> QED BY <1>1, <1>2, <1>4, <1>5, <1>7, <2>1, <2>2 DEF Opened
<1>14. Input'
  BY <1>1, <1>2, <1>7 DEF IInv, Input, Untouched, PayloadIsInput
<1>15. Output'
  <2>1. GoesTo(b64.fd_out)' /\ Sent(0)'
    <3>1. GoesTo(b64.fd_out)'
      BY <1>1, <1>2, <1>3, <1>4, <1>5, <1>6 DEF GoesTo
    <3>2. contents'[cmd'.output] = Data("result", 0)
      BY <1>1, <1>2, <1>3 DEF TypeOK, DataOK
    <3>3. missed' = 0 /\ cmd'.output # NoFile
      BY <1>1, <1>3
    <3>4. Data("result", 0).data = "result" /\ Data("result", 0).n + 0 = 0
      BY DataAre
    <3> QED BY <3>1, <3>2, <3>3, <3>4 DEF Sent
  <2>2. Expected' = Expected /\ todo' = todo /\ todo \in Nat
    BY <1>1, <1>2 DEF Expected, Salted, TypeOK, DataOK
  <2>3. todo' <= Expected' /\ Expected' - todo' = 0
    BY <1>3, <2>2
  <2>4. Sent(Expected - todo)'
    BY <2>1, <2>3 DEF Sent
  <2> QED BY <1>1, <1>2, <1>7, <2>1, <2>3, <2>4 DEF Output, Untouched, SuccessIsComplete
<1> QED BY <1>8, <1>9, <1>10, <1>11, <1>12, <1>13, <1>14, <1>15 DEF IInv

\* What base64_fds does with a unit that is s.
Base64Takes(s) == Write(b64.fd_out, 1, s) \/ WriteWhole(b64.fd_out, 1, s)

LEMMA Base64WriteStep ==
    ASSUME IInv, Base64Write
    PROVE  IInv'
<1>1. /\ pc = "base64_write" /\ pc' = "base64_write" /\ todo > 0 /\ todo' = todo - 1
      /\ Base64Takes(IF b64.caller = "input" THEN b64.payload.data ELSE "result")
      /\ UNCHANGED <<interactive, count, cmd, before, ret, fds, io, b64, payload>>
  BY DEF Base64Write, Base64Takes, process
<1>2. /\ TypeOK /\ InBase64 /\ b64.fd_out \in Fd /\ todo \in Nat /\ todo' \in Nat
      /\ b64.payload.data \in Files \cup {"typed", "nothing", "result"}
  <2>1. TypeOK /\ InBase64 /\ b64.fd_out \in Fd /\ todo \in Nat /\ b64.payload \in Datum
    BY <1>1, Types DEF IInv, TypeOK, DataOK, InBase64
  <2> QED BY <1>1, <2>1, DataAre
<1>3. contents' \in [Files -> Datum] /\ pipe' \in Datum /\ shown' \in Nat /\ missed' \in Nat
  BY <1>1, <1>2, WriteTypes DEF Base64Takes
<1>4. /\ Decoding' = Decoding /\ Encoding' = Encoding /\ OfBase64' = OfBase64 /\ InBase64' /\ ~AtRest'
      /\ Wrapped' = Wrapped /\ Unwrapped' = Unwrapped
      /\ Expected' = Expected /\ PayloadIsInput' = PayloadIsInput
  BY <1>1 DEF Wrapped, Unwrapped, InBase64, Decoding, Encoding, OfBase64, AtRest, Expected, Salted, PayloadIsInput
<1>5. /\ Decoding => b64.caller = "input" /\ ~Encoding /\ ~OfBase64
      /\ ~Decoding => b64.caller # "input" /\ (Encoding \/ OfBase64)
  BY <1>2, Types DEF Decoding, Encoding, OfBase64
<1>6. Decoding => /\ pipe' = Data(b64.payload.data, pipe.n + 1) /\ UNCHANGED <<contents, shown, missed>>
                  /\ pipe.n + todo = b64.payload.n
                  /\ fds[b64.fd_out].kind = "pipe_w"
  <2>1. ASSUME Decoding PROVE fds[b64.fd_out].kind = "pipe_w" /\ pipe.n + todo = b64.payload.n
    BY <1>1, <2>1 DEF IInv, Input
  <2>2. ASSUME Decoding PROVE Base64Takes(b64.payload.data)
    BY <1>1, <1>5, <2>2
  <2> QED BY <1>1, <1>2, <2>1, <2>2, WriteTypes DEF Base64Takes
<1>7. ~Decoding => todo <= Expected /\ Sent(Expected - todo)' /\ todo' <= Expected /\ GoesTo(b64.fd_out)
  <2>1. ASSUME ~Decoding
        PROVE  /\ todo <= Expected /\ Sent(Expected - todo) /\ GoesTo(b64.fd_out)
               /\ Base64Takes("result")
    BY <1>1, <1>5, <2>1 DEF IInv, Output
  <2>2. ASSUME ~Decoding, cmd.output = NoFile PROVE fds[b64.fd_out].kind \notin {"writer", "pipe_w"}
    <3>1. b64.fd_out = 1 /\ MayWrite = {}
      BY <1>1, <2>1, <2>2 DEF GoesTo, MayWrite
    <3>2. 1 \in 1 .. MaxFd
      BY BoundsAssumption
    <3> QED BY <3>1, <3>2 DEF IInv, Writers, Writing
  <2>3. ~Decoding => Expected \in Nat
    BY <1>2, <2>1, DataAre DEF Expected, TypeOK, DataOK, SaltUnits
  <2>4. ASSUME ~Decoding PROVE Sent(Expected - todo)'
    <3>1. PICK n \in Nat : n = Expected - todo
      BY <1>2, <2>1, <2>3, <2>4
    <3>2. Sent(n)
      BY <2>1, <2>4, <3>1
    <3>3. Sent(n + 1)'
      BY <1>1, <1>2, <2>1, <2>2, <2>4, <3>2, Delivers DEF Base64Takes
    <3>4. (Expected - todo)' = n + 1
      BY <1>1, <1>2, <1>4, <2>3, <2>4, <3>1
    <3> QED BY <3>3, <3>4 DEF Sent
  <2>5. ~Decoding => todo' <= Expected
    BY <1>1, <1>2, <2>1, <2>3
  <2> QED BY <2>1, <2>4, <2>5
<1>8. TypeOK'
  BY <1>1, <1>2, <1>3 DEF IInv, TypeOK, ControlOK, TablesOK, ContextsOK, DataOK, IsTable
<1>9. Places'
  BY <1>1, <1>4 DEF IInv, Places
<1>10. OwnNumbers'
  BY <1>1 DEF IInv, OwnNumbers, Own
<1>11. OthersKept'
  BY <1>1 DEF IInv, OthersKept
<1>12. Writers'
  <2>1. Writing' = Writing /\ MayWrite' = MayWrite
    BY <1>1, <1>4 DEF Writing, MayWrite
  <2> QED BY <2>1 DEF IInv, Writers
<1>13. Opened'
  <2>1. New' = New
    BY <1>1 DEF New
  <2> QED BY <1>1, <1>4, <2>1 DEF IInv, Opened, OutNumbers
<1>14. Input'
  <2>1. Decoding => /\ pipe'.data = b64.payload.data /\ pipe'.n = pipe.n + 1 /\ pipe.n \in Nat
    BY <1>2, <1>6, DataAre DEF TypeOK, DataOK
  <2>2. Decoding => pipe'.n + todo' = b64.payload.n
    BY <1>1, <1>2, <1>6, <2>1
  <2>3. Decoding => contents = before.contents /\ payload = Data("nothing", 0)
    BY DEF IInv, Input, Untouched
  <2>4. Untouched' => contents' = before'.contents /\ payload' = Data("nothing", 0)
    BY <1>1, <1>4, <1>6, <2>3 DEF Untouched
  <2> QED BY <1>1, <1>4, <2>1, <2>2, <2>4 DEF IInv, Input
<1>15. Output'
  <2>1. Untouched' => shown' = 0 /\ missed' = 0
    BY <1>1, <1>4, <1>6 DEF IInv, Output, Untouched
  <2>2. GoesTo(b64.fd_out) => GoesTo(b64.fd_out)'
    BY <1>1 DEF GoesTo
  <2> QED BY <1>1, <1>4, <1>5, <1>7, <2>1, <2>2 DEF Output, SuccessIsComplete
<1> QED BY <1>8, <1>9, <1>10, <1>11, <1>12, <1>13, <1>14, <1>15 DEF IInv

\* A caller goes on after base64_fds, which may have closed its output.
LEMMA Base64ReturnsStep ==
    ASSUME IInv, InBase64, NEW r \in {0, 1}, NEW table \in [Fd -> Objects], Base64Returns(r, table),
           UNCHANGED <<process, contents, pipe, b64, payload, todo, shown, missed>>,
           \A d \in Fd : table[d] = IF pc = "base64_write" /\ d = b64.fd_out /\ d > 0
                                    THEN Closed ELSE fds[d],
           r = 0 => pc = "base64_write" /\ todo = 0
    PROVE  IInv'
<1>1. /\ UNCHANGED <<interactive, count, cmd, before, contents, pipe, b64, payload, todo, shown, missed>>
      /\ TypeOK /\ Fd \subseteq Nat /\ 0 \in Fd
      /\ b64.fd_out \in Fd /\ b64.fd_in \in Fd /\ b64.pipe_r \in Fd
  BY Types DEF process, IInv
<1>2. Expected' = Expected /\ Wrapped' = Wrapped /\ Unwrapped' = Unwrapped /\ PayloadIsInput' = PayloadIsInput
  BY <1>1 DEF Expected, Wrapped, Unwrapped, PayloadIsInput, Salted
<1>3. \A n : Sent(n) => Sent(n)'
  BY <1>1 DEF Sent
<1>4. ASSUME r = 0, b64.caller # "input" PROVE Sent(Expected)'
  <2>1. Encoding \/ OfBase64
    BY <1>1, <1>4, Types DEF Encoding, OfBase64
  <2>2. todo <= Expected /\ Sent(Expected - todo) /\ todo = 0
    BY <1>4, <2>1 DEF IInv, Output
  <2>3. Expected \in Nat
    BY <1>1, <2>2, DataAre DEF Expected, TypeOK, DataOK, SaltUnits
  <2>4. Expected - todo = Expected
    BY <2>2, <2>3
  <2> QED BY <1>2, <1>3, <2>2, <2>4 DEF Sent
<1>5. \A d \in Fd : /\ table[d] \in {fds[d], Closed}
                    /\ d >= 2 /\ before.fds[d] # Closed => table[d] = before.fds[d]
  <2>1. ASSUME NEW d \in Fd, d >= 2, before.fds[d] # Closed PROVE table[d] = before.fds[d]
    <3>1. d # b64.fd_out /\ fds[d] = before.fds[d]
      BY <1>1, <2>1 DEF IInv, OthersKept, OwnNumbers, Own, Fd
    <3> QED BY <3>1
  <2> QED BY <2>1
<1>6. CASE b64.caller = "command"
  <2>1. fds' = table /\ io' = io /\ ret' = r /\ pc' \in {"prompt", "exited"}
    BY <1>6 DEF Base64Returns, Return
  <2>2. ~Decoding' /\ ~Encoding' /\ ~OfBase64' /\ ~InBase64' /\ AtRest'
    BY <2>1 DEF Wrapped, Unwrapped, InBase64, Decoding, Encoding, OfBase64, AtRest
  <2>3. OfBase64 /\ ~Decoding /\ ~Encoding /\ cmd.kind = "base64"
    BY <1>6 DEF Decoding, Encoding, OfBase64, IInv, Places
  <2>4. TypeOK'
    BY <1>1, <2>1 DEF IInv, TypeOK, ControlOK, TablesOK, ContextsOK, DataOK, IsTable
  <2>5. Places'
    BY <1>1, <2>1, <2>2 DEF IInv, Places
  <2>6. OwnNumbers'
    BY <1>1, <2>1 DEF IInv, OwnNumbers, Own
  <2>7. OthersKept'
    BY <1>1, <1>5, <2>1, Types DEF OthersKept
  <2>8. Writers'
    <3>1. ASSUME NEW d \in Writing' PROVE FALSE
      <4>1. d \in 1 .. MaxFd /\ d \in Fd /\ d > 0 /\ table[d].kind \in {"writer", "pipe_w"}
        BY <1>1, <2>1, <3>1, Types DEF Writing
      <4>2. table[d] = fds[d] /\ ~(pc = "base64_write" /\ d = b64.fd_out)
        BY <4>1, ObjectsAre
      <4>3. d \in MayWrite
        BY <4>1, <4>2 DEF IInv, Writers, Writing
      <4> QED BY <2>3, <4>2, <4>3 DEF MayWrite, OfBase64, InBase64
    <3> QED BY <3>1 DEF Writers
  <2>9. Opened'
    <3>1. /\ New \subseteq {b64.fd_in} \cup IF pc = "base64_write" THEN {b64.fd_out} ELSE {}
          /\ pc = "base64_write" => b64.fd_out # 0
      BY <2>3 DEF IInv, Opened
    <3>2. ASSUME NEW d \in New' PROVE d = b64.fd_in
      <4>1. d \in Fd /\ table[d] # Closed /\ before.fds[d] = Closed
        BY <1>1, <2>1, <3>2 DEF New
      <4>2. d \in New /\ ~(pc = "base64_write" /\ d = b64.fd_out /\ d > 0)
        BY <1>5, <4>1 DEF New
      <4>3. CASE pc = "base64_write"
        <5>1. d # b64.fd_out
          BY <3>1, <4>1, <4>2, <4>3, Types DEF IInv
        <5> QED BY <3>1, <4>2, <4>3, <5>1
      <4>4. CASE pc # "base64_write"
        BY <3>1, <4>2, <4>4
      <4> QED BY <4>3, <4>4
    <3>3. New' \subseteq {b64.fd_in}
      BY <3>2
    <3> QED BY <1>1, <2>1, <2>2, <2>3, <3>3 DEF Opened
  <2>10. Input'
    BY <1>1, <1>2, <2>1, <2>2 DEF IInv, Input, Untouched
  <2>11. Output'
    <3>1. ret' = 0 => Sent(Expected)'
      BY <1>4, <1>6, <2>1
    <3>2. SuccessIsComplete'
      BY <3>1 DEF SuccessIsComplete, Sent
    <3> QED BY <2>1, <2>2, <3>2 DEF Output, Untouched
  <2> QED BY <2>4, <2>5, <2>6, <2>7, <2>8, <2>9, <2>10, <2>11 DEF IInv
<1>7. CASE b64.caller = "output"
  <2>1. fds' = table /\ io' = io /\ ret' = r /\ pc' = "io_free"
    BY <1>7 DEF Base64Returns
  <2>2. ~Decoding' /\ ~Encoding' /\ ~OfBase64' /\ ~InBase64' /\ ~AtRest'
    BY <2>1 DEF Wrapped, Unwrapped, InBase64, Decoding, Encoding, OfBase64, AtRest
  <2>3. Encoding /\ ~Decoding /\ ~OfBase64 /\ Wrapped /\ b64.fd_out = io.fd_out_base64
    BY <1>7 DEF Decoding, Encoding, OfBase64, IInv, Places
  <2>4. TypeOK'
    BY <1>1, <2>1 DEF IInv, TypeOK, ControlOK, TablesOK, ContextsOK, DataOK, IsTable
  <2>5. Places'
    BY <1>1, <2>1, <2>2, <2>3 DEF IInv, Places, Wrapped
  <2>6. OwnNumbers'
    BY <1>1, <2>1 DEF IInv, OwnNumbers, Own
  <2>7. OthersKept'
    BY <1>1, <1>5, <2>1, Types DEF OthersKept
  <2>8. Writers'
    <3>1. ASSUME NEW d \in Writing' PROVE d \in MayWrite'
      <4>1. d \in 1 .. MaxFd /\ d \in Fd /\ d > 0 /\ table[d].kind \in {"writer", "pipe_w"}
        BY <1>1, <2>1, <3>1, Types DEF Writing
      <4>2. table[d] = fds[d]
        BY <1>5, <4>1, ObjectsAre
      <4>3. d \in MayWrite
        BY <4>1, <4>2 DEF IInv, Writers, Writing
      <4> QED BY <1>1, <2>1, <2>3, <4>1, <4>3 DEF MayWrite, Encoding, InBase64
    <3> QED BY <3>1 DEF Writers
  <2>9. Opened'
    <3>1. New \subseteq OutNumbers
      BY <2>3 DEF IInv, Opened
    <3>2. New' \subseteq New /\ OutNumbers' = OutNumbers
      BY <1>1, <1>5, <2>1 DEF New, OutNumbers
    <3> QED BY <2>1, <2>2, <3>1, <3>2 DEF Opened
  <2>10. Input'
    BY <1>1, <1>2, <2>1, <2>2 DEF IInv, Input, Untouched
  <2>11. Output'
    <3>1. ret' = 0 => Sent(Expected)'
      BY <1>4, <1>7, <2>1
    <3> QED BY <2>1, <2>2, <3>1 DEF Output, Untouched, SuccessIsComplete
  <2> QED BY <2>4, <2>5, <2>6, <2>7, <2>8, <2>9, <2>10, <2>11 DEF IInv
<1>8. CASE b64.caller = "input"
  <2>1. /\ Decoding /\ ~Encoding /\ ~OfBase64 /\ Unwrapped /\ b64.fd_in = io.fd_in
        /\ io.fd_out = 1 /\ io.fd_in_base64 = 0 /\ io.fd_out_base64 = 0 /\ cmd.kind = "cipher"
        /\ New \subseteq {io.fd_in, b64.pipe_r, b64.fd_out} /\ io.fd_in \in Fd
        /\ fds[b64.pipe_r].kind = "pipe_r" /\ fds[b64.fd_out].kind = "pipe_w"
        /\ shown = 0 /\ missed = 0 /\ contents = before.contents /\ payload = Data("nothing", 0)
    <3>1. Decoding /\ ~Encoding /\ ~OfBase64
      BY <1>8 DEF Decoding, Encoding, OfBase64
    <3> QED BY <1>1, <3>1 DEF IInv, Places, Opened, Input, Output, Untouched, Unwrapped
  <2>2. CASE r = 1
    <3>1. fds' = Close(table, {b64.pipe_r, b64.fd_out}) /\ io' = io /\ ret' = 1 /\ pc' = "io_free"
      BY <1>8, <2>2 DEF Base64Returns
    <3>2. /\ fds' \in [Fd -> Objects]
          /\ \A d \in Fd : fds'[d] = IF d \in {b64.pipe_r, b64.fd_out} THEN Closed ELSE table[d]
      BY <3>1, WhatIsClosed
    <3>3. ~Decoding' /\ ~Encoding' /\ ~OfBase64' /\ ~InBase64' /\ ~AtRest'
      BY <3>1 DEF Wrapped, Unwrapped, InBase64, Decoding, Encoding, OfBase64, AtRest
    <3>4. TypeOK'
      <4>1. TablesOK' /\ ContextsOK'
        BY <1>1, <3>1, <3>2 DEF TypeOK, TablesOK, ContextsOK, IsTable
      <4>2. ControlOK' /\ DataOK'
        BY <1>1, <3>1 DEF TypeOK, ControlOK, DataOK
      <4> QED BY <4>1, <4>2 DEF TypeOK
    <3>5. Places'
      BY <1>1, <2>1, <3>1, <3>3 DEF Places
    <3>6. OwnNumbers'
      BY <1>1, <3>1 DEF IInv, OwnNumbers, Own
    <3>7. OthersKept'
      <4>1. ASSUME NEW d \in 2 .. MaxFd, before.fds[d] # Closed PROVE fds'[d] = before.fds[d]
        <5>1. d \notin {b64.pipe_r, b64.fd_out} /\ d \in Fd /\ d >= 2
          BY <1>1, <4>1, Types DEF IInv, OwnNumbers, Own
        <5> QED BY <1>5, <3>2, <4>1, <5>1
      <4> QED BY <1>1, <4>1 DEF OthersKept
    <3>8. Writers'
      <4>1. ASSUME NEW d \in Writing' PROVE FALSE
        <5>1. d \in 1 .. MaxFd /\ d \in Fd /\ fds'[d].kind \in {"writer", "pipe_w"}
          BY <1>1, <4>1, Types DEF Writing
        <5>2. d # b64.fd_out /\ fds'[d] = fds[d]
          BY <1>5, <3>2, <5>1, ObjectsAre
        <5>3. d \in MayWrite
          BY <5>1, <5>2 DEF IInv, Writers, Writing
        <5> QED BY <2>1, <5>2, <5>3 DEF MayWrite, Decoding, InBase64
      <4> QED BY <4>1 DEF Writers
    <3>9. Opened'
      <4>1. New' \subseteq {io.fd_in}
        BY <1>1, <1>5, <2>1, <3>2 DEF New
      <4> QED BY <3>1, <3>3, <4>1 DEF Opened
    <3>10. Input'
      BY <1>1, <1>2, <3>1, <3>3 DEF IInv, Input, Untouched
    <3>11. Output'
      BY <3>1, <3>3 DEF Output, Untouched, SuccessIsComplete
    <3> QED BY <3>4, <3>5, <3>6, <3>7, <3>8, <3>9, <3>10, <3>11 DEF IInv
  <2>3. CASE r = 0
    <3>1. /\ fds' = Close(table, {b64.fd_out, io.fd_in}) /\ ret' = ret /\ pc' = "read"
          /\ io' = [io EXCEPT !.fd_in = b64.pipe_r] /\ pc = "base64_write" /\ todo = 0
      BY <1>8, <2>3 DEF Base64Returns
    <3>2. /\ fds' \in [Fd -> Objects]
          /\ \A d \in Fd : fds'[d] = IF d \in {b64.fd_out, io.fd_in} THEN Closed ELSE table[d]
      BY <3>1, WhatIsClosed
    <3>3. /\ io'.fd_in = b64.pipe_r /\ io'.fd_out = io.fd_out
          /\ io'.fd_in_base64 = io.fd_in_base64 /\ io'.fd_out_base64 = io.fd_out_base64
          /\ ContextsOK'
      BY <1>1, <3>1 DEF TypeOK, ContextsOK
    <3>4. ~Decoding' /\ ~Encoding' /\ ~OfBase64' /\ ~InBase64' /\ ~AtRest' /\ Unwrapped'
      BY <1>2, <2>1, <3>1 DEF Decoding, Encoding, OfBase64, InBase64, AtRest
    <3>5. TypeOK'
      BY <1>1, <3>1, <3>2, <3>3 DEF TypeOK, ControlOK, TablesOK, DataOK, IsTable
    <3>6. Places'
      <4>1. b64.pipe_r # -1
        BY <1>1
      <4> QED BY <1>1, <2>1, <3>1, <3>3, <3>4, <4>1 DEF Places
    <3>7. OwnNumbers'
      BY <1>1, <3>3 DEF IInv, OwnNumbers, Own
    <3>8. OthersKept'
      <4>1. ASSUME NEW d \in 2 .. MaxFd, before.fds[d] # Closed PROVE fds'[d] = before.fds[d]
        <5>1. d \notin {b64.fd_out, io.fd_in} /\ d \in Fd /\ d >= 2
          BY <1>1, <4>1, Types DEF IInv, OwnNumbers, Own
        <5> QED BY <1>5, <3>2, <4>1, <5>1
      <4> QED BY <1>1, <4>1 DEF OthersKept
    <3>9. Writers'
      <4>1. ASSUME NEW d \in Writing' PROVE FALSE
        <5>1. d \in 1 .. MaxFd /\ d \in Fd /\ fds'[d].kind \in {"writer", "pipe_w"}
          BY <1>1, <4>1, Types DEF Writing
        <5>2. d # b64.fd_out /\ fds'[d] = fds[d]
          BY <1>5, <3>2, <5>1, ObjectsAre
        <5>3. d \in MayWrite
          BY <5>1, <5>2 DEF IInv, Writers, Writing
        <5> QED BY <2>1, <5>2, <5>3 DEF MayWrite, Decoding, InBase64
      <4> QED BY <4>1 DEF Writers
    <3>10. Opened'
      <4>1. New' \subseteq {b64.pipe_r}
        BY <1>1, <1>5, <2>1, <3>2 DEF New
      <4> QED BY <3>1, <3>3, <3>4, <4>1 DEF Opened
    <3>11. Input'
      <4>1. ASSUME cmd.input # NoFile
            PROVE  /\ fds'[b64.pipe_r].kind = "pipe_r"
                   /\ pipe.data # "nothing" => pipe = before.contents[cmd.input]
        <5>1. /\ b64.payload = before.contents[cmd.input] /\ fds[b64.fd_in] = Object("drained", cmd.input)
              /\ pipe.n + todo = b64.payload.n /\ pipe.data \in {"nothing", b64.payload.data}
          BY <2>1, <3>1, <4>1 DEF IInv, Input
        <5>2. b64.pipe_r # io.fd_in /\ b64.pipe_r # b64.fd_out
          BY <2>1, <5>1, ObjectsAre
        <5>3. fds'[b64.pipe_r] = fds[b64.pipe_r]
          BY <1>1, <3>2, <5>2
        <5>4. pipe \in Datum /\ b64.payload \in Datum /\ pipe.n = b64.payload.n
          BY <1>1, <3>1, <5>1, Types, DataAre DEF TypeOK, DataOK
        <5>5. pipe.data # "nothing" => pipe = b64.payload
          BY <5>1, <5>4, DataAre
        <5> QED BY <2>1, <5>1, <5>3, <5>5
      <4>2. PayloadIsInput
        BY DEF IInv, Input
      <4> QED BY <1>1, <1>2, <2>1, <3>1, <3>3, <3>4, <4>1, <4>2 DEF Input, Untouched
    <3>12. Output'
      BY <1>1, <2>1, <3>1, <3>4 DEF Output, Untouched, SuccessIsComplete
    <3> QED BY <3>5, <3>6, <3>7, <3>8, <3>9, <3>10, <3>11, <3>12 DEF IInv
  <2> QED BY <2>2, <2>3
<1> QED BY <1>1, <1>6, <1>7, <1>8, Types

LEMMA Base64OpenIoFailsStep ==
    ASSUME IInv, Base64OpenIoFails
    PROVE  IInv'
<1>1. /\ pc \in {"base64_read", "base64_output"} /\ Base64Returns(1, fds)
      /\ UNCHANGED <<process, contents, pipe, b64, payload, todo, shown, missed>>
  BY DEF Base64OpenIoFails
<1>2. fds \in [Fd -> Objects] /\ InBase64
  BY <1>1 DEF IInv, TypeOK, TablesOK, IsTable, InBase64
<1>3. \A d \in Fd : fds[d] = IF pc = "base64_write" /\ d = b64.fd_out /\ d > 0 THEN Closed ELSE fds[d]
  BY <1>1
<1> QED BY <1>1, <1>2, <1>3, Base64ReturnsStep

LEMMA Base64DoneStep ==
    ASSUME IInv, Base64Done
    PROVE  IInv'
<1> DEFINE table == Close(fds, Positive({b64.fd_out}))
<1>1. /\ pc = "base64_write"
      /\ \E r \in {0, 1} : Base64Returns(r, table) /\ (r = 0 => todo = 0)
      /\ UNCHANGED <<process, contents, pipe, b64, payload, todo, shown, missed>>
  BY DEF Base64Done
<1>2. PICK r \in {0, 1} : Base64Returns(r, table) /\ (r = 0 => todo = 0)
  BY <1>1
<1>3. /\ table \in [Fd -> Objects] /\ InBase64
      /\ \A d \in Fd : table[d] = IF pc = "base64_write" /\ d = b64.fd_out /\ d > 0 THEN Closed ELSE fds[d]
  BY <1>1, WhatIsClosed DEF IInv, TypeOK, TablesOK, IsTable, InBase64, Positive
<1> HIDE DEF table
<1> QED BY <1>1, <1>2, <1>3, Base64ReturnsStep

-----------------------------------------------------------------------------
(* The digests.                                                            *)

LEMMA DigestStep ==
    ASSUME IInv, Digest
    PROVE  IInv'
<1>1. /\ pc = "digest" /\ cmd.kind = "digest" /\ pc' \in {"prompt", "exited"} /\ ret' = 0
      /\ UNCHANGED <<interactive, count, cmd, before, fds, io, b64, todo>>
  BY DEF Digest, Return, process, IInv, Places
<1>2. payload' \in Datum /\ (cmd.input # NoFile => payload' = before.contents[cmd.input])
  <2>1. CASE cmd.input = NoFile
    BY <2>1, WhatIsRead DEF Digest, IInv
  <2>2. CASE cmd.input # NoFile
    <3>1. payload' = contents[cmd.input] /\ contents = before.contents
      BY <1>1, <2>2 DEF Digest, IInv, Input, Untouched
    <3> QED BY <2>2, <3>1, Types DEF IInv
  <2> QED BY <2>1, <2>2
<1>3. contents' \in [Files -> Datum] /\ pipe' \in Datum /\ shown' \in Nat /\ missed' \in Nat
  <2>1. CASE Writable(1)
    <3>1. Write(1, 1, "result") /\ TypeOK /\ 1 \in Fd /\ 1 \in Nat
      BY <2>1 DEF Digest, IInv, Writable
    <3> QED BY <3>1, WriteTypes
  <2>2. CASE ~Writable(1)
    BY <2>2 DEF Digest, IInv, TypeOK, DataOK
  <2> QED BY <2>1, <2>2
<1>4. ~Decoding' /\ ~Encoding' /\ ~OfBase64' /\ ~InBase64' /\ AtRest' /\ ~InBase64
  BY <1>1 DEF Wrapped, Unwrapped, InBase64, Decoding, Encoding, OfBase64, AtRest
<1>5. TypeOK'
  BY <1>1, <1>2, <1>3 DEF IInv, TypeOK, ControlOK, TablesOK, ContextsOK, DataOK, IsTable
<1>6. Places'
  BY <1>1, <1>4 DEF IInv, Places
<1>7. OwnNumbers'
  BY <1>1 DEF IInv, OwnNumbers, Own
<1>8. OthersKept'
  BY <1>1 DEF IInv, OthersKept
<1>9. Writers'
  <2>1. Writing' = Writing /\ MayWrite = {}
    BY <1>1, <1>4 DEF Writing, MayWrite, Decoding, Encoding, OfBase64
  <2> QED BY <2>1 DEF IInv, Writers
<1>10. Opened'
  <2>1. New' = New /\ New = {}
    BY <1>1 DEF New, IInv, Opened
  <2>2. 0 \in Fd
    BY Types DEF IInv
  <2> QED BY <1>1, <1>4, <2>1, <2>2 DEF Opened
<1>11. Input'
  BY <1>1, <1>2, <1>4 DEF Input, Untouched, PayloadIsInput
<1>12. Output'
  <2>1. /\ cmd.output = NoFile /\ Expected' = 1 /\ Sent(0) /\ GoesTo(1) /\ 1 \in Fd /\ TypeOK
        /\ shown = 0 /\ missed = 0
    BY <1>1, BoundsAssumption DEF IInv, Places, Output, Untouched, Sent, GoesTo, Expected, Fd
  <2>2. shown' + missed' = 1
    <3>1. CASE Writable(1)
      <4>1. Write(1, 1, "result") /\ 0 \in Nat /\ 1 \in Nat /\ cmd' = cmd /\ 0 + 1 = 1
        BY <1>1, <3>1 DEF Digest
      <4>2. fds[1].kind \notin {"writer", "pipe_w"}
        BY <1>1, <1>4, BoundsAssumption DEF MayWrite, Decoding, Encoding, OfBase64, IInv, Writers, Writing
      <4>3. Sent(0 + 1)'
        BY <2>1, <4>1, <4>2, Delivers
      <4>4. Sent(1)'
        BY <4>1, <4>3 DEF Sent
      <4> QED BY <1>1, <2>1, <4>4 DEF Sent
    <3>2. CASE ~Writable(1)
      BY <2>1, <3>2 DEF Digest
    <3> QED BY <3>1, <3>2
  <2>3. SuccessIsComplete'
    BY <1>1, <2>1, <2>2 DEF SuccessIsComplete
  <2> QED BY <1>1, <1>4, <2>3 DEF Output, Untouched
<1> QED BY <1>5, <1>6, <1>7, <1>8, <1>9, <1>10, <1>11, <1>12 DEF IInv

-----------------------------------------------------------------------------
(* The invariant holds, and what it gives.                                 *)

LEMMA InitHolds == Init => IInv
<1> SUFFICES ASSUME Init PROVE IInv
  OBVIOUS
<1>1. /\ pc = "prompt" /\ count = 0 /\ ret = 0 /\ todo = 0 /\ shown = 0 /\ missed = 0 /\ cmd = NoCommand
      /\ pipe = Data("nothing", 0) /\ payload = Data("nothing", 0) /\ io = NoIo /\ b64 = NoB64
      /\ before.fds = fds /\ before.contents = contents
      /\ \A d \in Fd : fds[d] = IF d <= 2 THEN Terminal ELSE Closed
  BY DEF Init
<1>2. /\ Fd \subseteq Nat /\ {0, 1, 2} \subseteq Fd /\ 2 .. MaxFd \subseteq Fd /\ 1 .. MaxFd \subseteq Fd
  BY BoundsAssumption DEF Fd
<1>3. ~Decoding /\ ~Encoding /\ ~OfBase64 /\ ~InBase64 /\ AtRest /\ ~Started
  BY <1>1 DEF Wrapped, Unwrapped, InBase64, Decoding, Encoding, OfBase64, AtRest, Started
<1>4. TypeOK
  <2>1. Data("nothing", 0) \in Datum /\ \A f \in Files : Data(f, FileSize[f]) \in Datum
    <3>1. \A f \in Files : FileSize[f] \in Nat
      BY BoundsAssumption
    <3> QED BY <3>1, DataAre
  <2>2. contents \in [Files -> Datum]
    BY <2>1 DEF Init
  <2>3. fds \in [Fd -> Objects]
    BY ObjectsAre DEF Init
  <2>4. TablesOK
    BY <2>2, <2>3 DEF Init, TablesOK, IsTable
  <2>5. ContextsOK
    BY <1>1, <1>2, <2>1 DEF ContextsOK, NoIo, NoB64
  <2>6. cmd \in CommandLine
    BY <1>1 DEF NoCommand, CommandLine
  <2>7. ControlOK
    BY <1>1, <2>6 DEF Init, ControlOK
  <2> QED BY <1>1, <2>1, <2>2, <2>4, <2>5, <2>7 DEF TypeOK, DataOK
<1>5. Places
  BY <1>1, <1>3 DEF Places, NoCommand
<1>6. OwnNumbers
  BY <1>1, NoneYet DEF OwnNumbers, Own
<1>7. OthersKept
  BY <1>1 DEF OthersKept
<1>8. Writers
  BY <1>1, <1>2, ObjectsAre DEF Writers, Writing
<1>9. Opened
  BY <1>1, <1>3 DEF Opened
<1>10. Input
  BY <1>1, <1>3, DataAre DEF Input, Untouched, PayloadIsInput
<1>11. Output
  BY <1>1, <1>3 DEF Output, Untouched, SuccessIsComplete
<1> QED BY <1>4, <1>5, <1>6, <1>7, <1>8, <1>9, <1>10, <1>11 DEF IInv

LEMMA Stutters ==
    ASSUME IInv, UNCHANGED vars
    PROVE  IInv'
<1>1. UNCHANGED <<interactive, count, cmd, pc, ret, fds, contents, pipe, io, b64, payload, todo, shown, missed, before>>
  BY DEF vars
<1>2. /\ Wrapped' = Wrapped /\ Unwrapped' = Unwrapped /\ InBase64' = InBase64
      /\ Decoding' = Decoding /\ Encoding' = Encoding /\ OfBase64' = OfBase64
      /\ AtRest' = AtRest /\ Started' = Started /\ Untouched' = Untouched
  BY <1>1 DEF Wrapped, Unwrapped, InBase64, Decoding, Encoding, OfBase64, AtRest, Started, Untouched
<1>3. /\ Expected' = Expected /\ (\A n : Sent(n) => Sent(n)') /\ (\A d : GoesTo(d) => GoesTo(d)')
      /\ (PayloadIsInput => PayloadIsInput')
  BY <1>1 DEF Expected, Salted, Sent, GoesTo, PayloadIsInput
<1>4. TypeOK'
  BY <1>1 DEF IInv, TypeOK, ControlOK, TablesOK, ContextsOK, DataOK, IsTable
<1>5. Places'
  BY <1>1, <1>2 DEF IInv, Places
<1>6. OwnNumbers' /\ OthersKept'
  BY <1>1 DEF IInv, OwnNumbers, Own, OthersKept
<1>7. Writers'
  BY <1>1, <1>2 DEF IInv, Writers, Writing, MayWrite
<1>8. Opened'
  <2>1. New' = New /\ OutNumbers' = OutNumbers
    BY <1>1 DEF New, OutNumbers
  <2> QED BY <1>1, <1>2, <2>1 DEF IInv, Opened
<1>9. Input'
  BY <1>1, <1>2, <1>3 DEF IInv, Input
<1>10. Output'
  <2>1. /\ GoesTo(io.fd_out) => GoesTo(io.fd_out)'
        /\ GoesTo(io.fd_out_base64) => GoesTo(io.fd_out_base64)'
        /\ GoesTo(b64.fd_out) => GoesTo(b64.fd_out)'
        /\ Sent(Expected - todo) => Sent(Expected - todo)'
        /\ Sent(Expected) => Sent(Expected)'
        /\ Sent(0) => Sent(0)'
    BY <1>1, <1>3 DEF GoesTo, Sent
  <2>2. SuccessIsComplete => SuccessIsComplete'
    BY <1>1, <1>2, <1>3 DEF SuccessIsComplete
  <2> QED BY <1>1, <1>2, <1>3, <2>1, <2>2 DEF IInv, Output
<1> QED BY <1>4, <1>5, <1>6, <1>7, <1>8, <1>9, <1>10 DEF IInv

LEMMA StepHolds == IInv /\ [Next]_vars => IInv'
<1> SUFFICES ASSUME IInv, [Next]_vars PROVE IInv'
  OBVIOUS
<1>1. CASE Prompt
  BY <1>1, HandleCommandStep, UnsuccessfulStep, PromptReadsPipeStep DEF Prompt
<1>2. CASE BadUsage
  BY <1>2, UnsuccessfulStep
<1>3. CASE IoOpen
  BY <1>3, OpenInputStep, InputPipeStep, ReadPayloadStep, OpenOutputStep, OutputPipeStep,
     UnsuccessfulStep DEF IoOpen
<1>4. CASE Cipher
  BY <1>4, DeriveKeyStep, CipherWriteStep, CipherDoneStep, IoFreeStep, UnsuccessfulStep DEF Cipher
<1>5. CASE Base64
  BY <1>5, Base64OpenStep, Base64ReadStep, Base64OutputStep, Base64OpenIoFailsStep,
     Base64WriteStep, Base64DoneStep, UnsuccessfulStep DEF Base64
<1>6. CASE Digest
  BY <1>6, DigestStep
<1>7. CASE DigestFails
  BY <1>7, UnsuccessfulStep
<1>8. CASE Ended \/ UNCHANGED vars
  BY <1>8, Stutters DEF Ended
<1> QED BY <1>1, <1>2, <1>3, <1>4, <1>5, <1>6, <1>7, <1>8 DEF Next

\* In every state of every session, whatever fails, the invariant holds.
THEOREM Invariance == Spec => []IInv
BY InitHolds, StepHolds, PTL DEF Spec

\* The state is of the declared types: descriptors that are used are in the table,
\* but for the two of an io context that open() may have set to -1.
THEOREM TypeCorrect == Spec => []TypeOK
<1>1. IInv => TypeOK
  BY DEF IInv
<1> QED BY <1>1, Invariance, PTL

\* What a command works on is what its input held when it began, even when its
\* -o names the same file: des() and des3() read all of it in io_open.
THEOREM InputIsRead == Spec => []PayloadIsInput
<1>1. IInv => PayloadIsInput
  BY DEF IInv, Input
<1> QED BY <1>1, Invariance, PTL

\* A command that returns 0, a digest too, has handed all of its result to where its options
\* say, through base64_fds or not, with descriptors 0 and 1 open or closed: what is there and
\* what writes have taken a part of, unnoticed, add up to the result.
THEOREM ResultIsDelivered == Spec => []SuccessIsComplete
<1>1. IInv => SuccessIsComplete
  BY DEF IInv, Output
<1> QED BY <1>1, Invariance, PTL

\* Of two tables that differ by one new descriptor, one has at most one more open.
LEMMA OneMore ==
    ASSUME TypeOK, NEW d \in Fd, New \subseteq {d}
    PROVE  Cardinality(Fd \ Free(fds)) <= Cardinality(Fd \ Free(before.fds)) + 1
<1> DEFINE was == Fd \ Free(before.fds)
           is == Fd \ Free(fds)
<1>1. IsFiniteSet(Fd)
  BY BoundsAssumption, FS_Interval DEF Fd
<1>2. is \subseteq was \cup {d}
  BY DEF Free, New
<1>3. IsFiniteSet(was)
  BY <1>1, FS_Subset
<1> HIDE DEF was, is
<1>4. IsFiniteSet(was \cup {d}) /\ Cardinality(was \cup {d}) <= Cardinality(was) + 1
  <2>1. IsFiniteSet(was \cup {d})
    BY <1>3, FS_AddElement
  <2>2. Cardinality(was \cup {d}) = IF d \in was THEN Cardinality(was) ELSE Cardinality(was) + 1
    BY <1>3, FS_AddElement
  <2>3. Cardinality(was) \in Nat
    BY <1>3, FS_CardinalityType
  <2> QED BY <2>1, <2>2, <2>3
<1>5. Cardinality(is) <= Cardinality(was \cup {d}) /\ IsFiniteSet(is)
  BY <1>2, <1>4, FS_Subset
<1>6. Cardinality(is) \in Nat /\ Cardinality(was) \in Nat /\ Cardinality(was \cup {d}) \in Nat
  BY <1>3, <1>4, <1>5, FS_CardinalityType
<1>7. Cardinality(is) <= Cardinality(was) + 1
  BY <1>4, <1>5, <1>6
<1> QED BY <1>7 DEF is, was

\* What a command closes twice is never another's: a number above 1 that was open when it
\* began stays as it was.  At its end at most one more is open than before, nothing but the
\* terminal can be written to, and a cipher command that succeeded has changed none above 1.
THEOREM TableIsKept == Spec => []DescriptorsKept
<1>1. ASSUME IInv PROVE DescriptorsKept
  <2>1. \A d \in 2 .. MaxFd : before.fds[d] # Closed => fds[d] = before.fds[d]
    BY <1>1 DEF IInv, OthersKept
  <2>2. ASSUME AtRest, Started
        PROVE  /\ \A d \in 1 .. MaxFd : fds[d].kind \notin {"writer", "pipe_w"}
               /\ Cardinality(Fd \ Free(fds)) <= Cardinality(Fd \ Free(before.fds)) + 1
               /\ cmd.kind = "cipher" /\ ret = 0 => \A d \in 2 .. MaxFd : fds[d] = before.fds[d]
    <3>1. MayWrite = {}
      BY <2>2 DEF MayWrite, AtRest, Decoding, Encoding, InBase64
    <3>2. \A d \in 1 .. MaxFd : fds[d].kind \notin {"writer", "pipe_w"}
      BY <1>1, <3>1 DEF IInv, Writers, Writing
    <3>3. PICK d \in Fd : New \subseteq {d}
      BY <1>1, <2>2 DEF IInv, Opened
    <3>4. Cardinality(Fd \ Free(fds)) <= Cardinality(Fd \ Free(before.fds)) + 1
      BY <1>1, <3>3, OneMore DEF IInv
    <3>5. ASSUME cmd.kind = "cipher", ret = 0, NEW c \in 2 .. MaxFd PROVE fds[c] = before.fds[c]
      <4>1. New \subseteq {0} /\ c \in Fd /\ c # 0
        BY <1>1, <2>2, <3>5, Types DEF IInv, Opened
      <4> QED BY <2>1, <4>1 DEF New
    <3> QED BY <3>2, <3>4, <3>5
  <2> QED BY <2>1, <2>2 DEF DescriptorsKept
<1> QED BY <1>1, Invariance, PTL

\* A write to a descriptor that, if it is a file, is the output.
LEMMA WritesTheOutput ==
    ASSUME TypeOK, NEW fd \in Fd, NEW k \in Nat, NEW s \in Files \cup {"typed", "nothing", "result"},
           Write(fd, k, s) \/ WriteWhole(fd, k, s), NEW f \in Files, contents'[f] # contents[f],
           fds[fd].kind = "writer" => fds[fd] = Object("writer", cmd.output)
    PROVE  cmd.output = f
<1> PICK w \in Nat : Writable(fd) /\ Put(fd, w, s)
  BY DEF Write, WriteWhole
<1>1. fds[fd].kind = "writer" /\ cmd.output \in Files
  BY WhatIsWritten, Types, ObjectsAre
<1>2. contents' = [contents EXCEPT ![cmd.output] = Data(s, contents[cmd.output].n + w)]
  BY <1>1, WhatIsWritten
<1> QED BY <1>2 DEF TypeOK, DataOK

LEMMA StepWritesTheOutput ==
    ASSUME IInv, Next, NEW f \in Files, contents'[f] # contents[f]
    PROVE  cmd.output = f
<1>0. TypeOK /\ contents \in [Files -> Datum] /\ 1 \in Fd /\ 1 \in Nat /\ SaltUnits \in Nat
  BY Types DEF IInv, TypeOK, DataOK, SaltUnits
<1>1. CASE OpenOutput
  BY <1>0, <1>1 DEF OpenOutput
<1>2. CASE Base64Output
  BY <1>0, <1>2 DEF Base64Output
<1>3. CASE DeriveKey \/ CipherWrite
  <2>1. /\ pc \in {"salt", "cipher"}
        /\ \E k \in Nat : Write(io.fd_out, k, "result")
    BY <1>0, <1>3 DEF DeriveKey, CipherWrite
  <2>2. fds[io.fd_out].kind = "writer" => fds[io.fd_out] = Object("writer", cmd.output)
    BY <2>1, CipherOutput DEF GoesTo
  <2> QED BY <1>0, <2>1, <2>2, CipherOutput, WritesTheOutput
<1>4. CASE Base64Write
  <2>1. /\ pc = "base64_write" /\ InBase64 /\ b64.fd_out \in Fd
        /\ b64.caller \in {"command", "input", "output"} /\ b64.payload \in Datum
        /\ Base64Takes(IF b64.caller = "input" THEN b64.payload.data ELSE "result")
    BY <1>0, <1>4, Types DEF Base64Write, Base64Takes, InBase64
  <2>2. PICK s \in Files \cup {"typed", "nothing", "result"} :
            Write(b64.fd_out, 1, s) \/ WriteWhole(b64.fd_out, 1, s)
    BY <2>1, DataAre DEF Base64Takes
  <2>3. CASE Decoding
    <3>1. fds[b64.fd_out].kind = "pipe_w"
      BY <2>3 DEF IInv, Input
    <3> QED BY <1>0, <2>1, <2>2, <3>1, WritesTheOutput
  <2>4. CASE ~Decoding
    <3>1. GoesTo(b64.fd_out) /\ (Encoding \/ OfBase64) /\ ~Decoding
      BY <2>1, <2>4 DEF IInv, Output, Encoding, OfBase64, Decoding
    <3>2. fds[b64.fd_out].kind = "writer" => fds[b64.fd_out] = Object("writer", cmd.output)
      <4>1. CASE cmd.output # NoFile
        BY <3>1, <4>1 DEF GoesTo
      <4>2. CASE cmd.output = NoFile
        <5>1. b64.fd_out = 1 /\ MayWrite = {} /\ 1 \in 1 .. MaxFd
          BY <2>1, <3>1, <4>2, BoundsAssumption DEF GoesTo, MayWrite
        <5> QED BY <5>1 DEF IInv, Writers, Writing
      <4> QED BY <4>1, <4>2
    <3> QED BY <1>0, <2>1, <2>2, <3>2, WritesTheOutput
  <2> QED BY <2>3, <2>4
<1>5. CASE Digest
  <2>1. pc = "digest" /\ Write(1, 1, "result")
    BY <1>5 DEF Digest
  <2>2. MayWrite = {} /\ 1 \in 1 .. MaxFd
    BY <2>1, BoundsAssumption DEF MayWrite, Decoding, Encoding, OfBase64, InBase64
  <2>3. fds[1].kind # "writer"
    BY <2>2 DEF IInv, Writers, Writing
  <2> QED BY <1>0, <2>1, <2>3, WritesTheOutput
<1>6. CASE contents' = contents
  BY <1>6
<1>7. CASE Prompt
  BY <1>6, <1>7 DEF Prompt, HandleCommand, UnknownCommand, PromptEnds, PromptFails, PromptReadsPipe
<1>8. CASE BadUsage \/ DigestFails \/ Ended
  BY <1>6, <1>8 DEF BadUsage, DigestFails, Ended, vars
<1>9. CASE IoOpen
  BY <1>1, <1>6, <1>9 DEF IoOpen, OpenInput, OpenInputFails, InputPipe, ReadPayload,
     OpenOutputFails, OutputPipe, IoOpenFails
<1>10. CASE Cipher
  BY <1>3, <1>6, <1>10 DEF Cipher, DeriveKeyFails, CipherFails, CipherDone, IoFree
<1>11. CASE Base64
  BY <1>2, <1>4, <1>6, <1>11 DEF Base64, Base64Open, Base64OpenFails, Base64Read,
     Base64OpenIoFails, Base64Done
<1> QED BY <1>5, <1>7, <1>8, <1>9, <1>10, <1>11 DEF Next

\* No step of any command changes a file that the -o of the command does not name,
\* although what it writes to may be any of the numbers a session has reused.
THEOREM OtherFilesKept == Spec => OnlyTheOutput
<1>1. IInv /\ [Next]_vars => [\A f \in Files : contents'[f] # contents[f] => cmd.output = f]_vars
  BY StepWritesTheOutput
<1> QED BY <1>1, Invariance, PTL DEF Spec, OnlyTheOutput

=============================================================================
