------------------------------- MODULE Options -------------------------------
(***************************************************************************)
(* The scan of the command line (libft/ft_options.c) on behalf of one of   *)
(* the commands (srcs/parse_args_*.c), and what the command does with the  *)
(* arguments that are left: the digests (md5.c, sha*.c) read a file for    *)
(* each of them and print what they hash, the others refuse them.          *)
(*                                                                         *)
(* An argument is the sequence of its characters.  Consumed arguments are  *)
(* overwritten with NULL in place, and a counter says how many are left.   *)
(***************************************************************************)
EXTENDS Integers, Sequences, SequencesExt, FiniteSets

CONSTANTS Map,              \* the options of each kind of command: records of id, short, long and arg
          Argvs,            \* the command lines that are tried with each
          Refuses(_, _)     \* whether the handler of an option refuses a value

Kinds == {"digest", "base64", "cipher"}
Text == Seq(STRING)     \* of characters
NULL == <<"NULL">>
Dash == "-"

ASSUME KindAssumption == DOMAIN Map = Kinds /\ DOMAIN Argvs = Kinds
\* No two options of a command have the same letter.
ASSUME MapAssumption ==
    \A k \in Kinds :
        /\ Map[k] \in Seq([id : STRING, short : STRING, long : Text, arg : BOOLEAN])
        /\ \A m, n \in DOMAIN Map[k] : Map[k][m].short = Map[k][n].short => m = n
\* NULL is not what somebody can type.
ASSUME ArgvAssumption ==
    \A k \in Kinds : \A a \in Argvs[k] : a \in Seq(Text) /\ \A n \in 1 .. Len(a) : a[n] # NULL

VARIABLES
    kind,       \* of the command
    argv,       \* history: the command line
    args,       \* what is left of it
    nbr,        \* parser_args->nbr_argument, then nbr_arg of the command
    i,          \* the argument that is looked at
    j,          \* the character that is looked at in a cluster of short options
    calls,      \* history: the handlers that were called, and with what
    pc,         \* "scan", "cluster", "parsed", "files", "strings", "done", "refused"; others
                \* are those of Prompt
    shift,      \* by how much the digest's loop has advanced args
    printed,    \* history: what the lines of a digest are about
    ret         \* what the command returns, or exits with

vars == <<kind, argv, args, nbr, i, j, calls, pc, shift, printed, ret>>

\* A command is called with argv, and is at its beginning.
Started == /\ args = argv
           /\ nbr = Len(argv)
           /\ i = 1 /\ j = 0
           /\ calls = <<>>
           /\ shift = 0 /\ printed = <<>>
           /\ ret = 0

Init == /\ kind \in Kinds
        /\ argv \in Argvs[kind]
        /\ Started /\ pc = "scan"

-----------------------------------------------------------------------------
Arg == args[i]
Entries == {Map[kind][m] : m \in DOMAIN Map[kind]}

\* A handler is called: `from` is the argument its value is a part of, 0 for none.
Call(entry, value, from) ==
    calls' = Append(calls, [id |-> entry.id, value |-> value, from |-> from])

\* The scan ends with an error, and the program with its usage.
Error == pc' = "refused" /\ ret' = 2

\* Fault: the value that was taken with it is not struck out.
StrikeOptionOnly(withValue) == args' = [args EXCEPT ![i] = NULL]

\* The argument was an option, or its value: it is struck out.
Strike(withValue) ==
    args' = [k \in DOMAIN args |-> IF k = i \/ (withValue /\ k = i + 1) THEN NULL ELSE args[k]]
\* The option is no longer counted; its value will be when the scan meets it.
NextArgument == nbr' = nbr - 1 /\ i' = i + 1 /\ pc' = "scan" /\ UNCHANGED ret

\* The value of the option before.
SkipValue ==
    /\ pc = "scan" /\ i <= Len(args) /\ Arg = NULL
    /\ nbr' = nbr - 1 /\ i' = i + 1
    /\ UNCHANGED <<kind, argv, args, j, calls, pc, shift, printed, ret>>

IsOption == Len(Arg) > 0 /\ Arg[1] = Dash
Plain ==
    /\ pc = "scan" /\ i <= Len(args) /\ Arg # NULL /\ ~IsOption
    /\ i' = i + 1
    /\ UNCHANGED <<kind, argv, args, nbr, j, calls, pc, shift, printed, ret>>

\* "--", alone or before a space.
IsLong == IsOption /\ Len(Arg) > 1 /\ Arg[2] = Dash
Singleton == IsLong /\ (Len(Arg) > 2 => Arg[3] = " ")
\* Fault: the scan goes on behind it.
StopNot ==
    /\ pc = "scan" /\ i <= Len(args) /\ Singleton
    /\ Strike(FALSE) /\ NextArgument
    /\ UNCHANGED <<kind, argv, j, calls, shift, printed>>

Stop ==
    /\ pc = "scan" /\ i <= Len(args) /\ Singleton
    /\ Strike(FALSE)
    /\ nbr' = nbr - 1 /\ pc' = "parsed"
    /\ UNCHANGED <<kind, argv, i, j, calls, shift, printed, ret>>

\* A long option: any part of its name that only it begins with.
Body == SubSeq(Arg, 3, Len(Arg))
NameEnd == 1 + Cardinality({n \in 1 .. Len(Body) : ~Contains(SubSeq(Body, 1, n), "=")})
Name == SubSeq(Body, 1, NameEnd - 1)
Matches == {entry \in Entries : IsPrefix(Name, entry.long)}

LongOption ==
    /\ pc = "scan" /\ i <= Len(args) /\ IsLong /\ ~Singleton
    /\ IF Cardinality(Matches) # 1
       THEN Error /\ UNCHANGED <<args, nbr, i, calls>>
       ELSE \E entry \in Matches :
          \/ \* its value is the next argument
             /\ NameEnd > Len(Body) /\ entry.arg
             /\ IF i = Len(args)
                THEN Error /\ UNCHANGED <<args, nbr, i, calls>>
                ELSE /\ Call(entry, args[i + 1], i + 1)
                     /\ IF Refuses(entry.id, args[i + 1])
                        THEN Error /\ args' = [args EXCEPT ![i + 1] = NULL] /\ UNCHANGED <<nbr, i>>
                        ELSE Strike(TRUE) /\ NextArgument
          \/ \* it has none
             /\ NameEnd > Len(Body) /\ ~entry.arg
             /\ Call(entry, NULL, 0)
             /\ Strike(FALSE) /\ NextArgument
          \/ \* it is given one and takes none
             /\ NameEnd <= Len(Body) /\ ~entry.arg
             /\ Error /\ UNCHANGED <<args, nbr, i, calls>>
          \/ \* its value is behind '='
             /\ NameEnd <= Len(Body) /\ entry.arg
             /\ LET value == SubSeq(Body, NameEnd + 1, Len(Body))
                IN  /\ Call(entry, value, i)
                    /\ IF Refuses(entry.id, value)
                       THEN Error /\ UNCHANGED <<args, nbr, i>>
                       ELSE Strike(FALSE) /\ NextArgument
    /\ UNCHANGED <<kind, argv, j, shift, printed>>

\* Short options, several in one argument.
Cluster ==
    /\ pc = "scan" /\ i <= Len(args) /\ Arg # NULL /\ IsOption /\ ~IsLong
    /\ pc' = "cluster" /\ j' = 2
    /\ UNCHANGED <<kind, argv, args, nbr, i, calls, shift, printed, ret>>

Letter == Arg[j]
Known == {entry \in Entries : entry.short = Letter}
UnknownFlag ==
    /\ pc = "cluster" /\ j <= Len(Arg) /\ Known = {}
    /\ Error
    /\ UNCHANGED <<kind, argv, args, nbr, i, j, calls, shift, printed>>
Flag ==
    /\ pc = "cluster" /\ j <= Len(Arg)
    /\ \E entry \in Known : ~entry.arg /\ Call(entry, NULL, 0)
    /\ j' = j + 1
    /\ UNCHANGED <<kind, argv, args, nbr, i, pc, shift, printed, ret>>
\* The value is the rest of the cluster.
FlagWithRest ==
    /\ pc = "cluster" /\ j < Len(Arg)
    /\ \E entry \in Known :
          /\ entry.arg
          /\ LET value == SubSeq(Arg, j + 1, Len(Arg))
             IN  /\ Call(entry, value, i)
                 /\ IF Refuses(entry.id, value)
                    THEN Error /\ UNCHANGED j
                    ELSE j' = Len(Arg) + 1 /\ UNCHANGED <<pc, ret>>
    /\ UNCHANGED <<kind, argv, args, nbr, i, shift, printed>>
\* The value is the next argument, which is struck out at once.
FlagWithNext ==
    /\ pc = "cluster" /\ j = Len(Arg)
    /\ \E entry \in Known :
          /\ entry.arg
          /\ IF i = Len(args)
             THEN Error /\ UNCHANGED <<args, calls, j>>
             ELSE /\ Call(entry, args[i + 1], i + 1)
                  /\ args' = [args EXCEPT ![i + 1] = NULL]
                  /\ IF Refuses(entry.id, args[i + 1])
                     THEN Error /\ UNCHANGED j
                     ELSE j' = j + 1 /\ UNCHANGED <<pc, ret>>
    /\ UNCHANGED <<kind, argv, nbr, i, shift, printed>>
ClusterEnds ==
    /\ pc = "cluster" /\ j > Len(Arg)
    /\ Strike(FALSE) /\ NextArgument
    /\ UNCHANGED <<kind, argv, j, calls, shift, printed>>

ScanEnds ==
    /\ pc = "scan" /\ i > Len(args)
    /\ pc' = "parsed"
    /\ UNCHANGED <<kind, argv, args, nbr, i, j, calls, shift, printed, ret>>

-----------------------------------------------------------------------------
Given(id) == \E n \in 1 .. Len(calls) : calls[n].id = id

\* parse_base64_args and parse_des_args refuse what is left.
Refuse ==
    /\ pc = "parsed" /\ kind # "digest" /\ nbr > 0
    /\ Error
    /\ UNCHANGED <<kind, argv, args, nbr, i, j, calls, shift, printed>>
\* Without a key and a password the user is asked for one, and may give none.
AskPassword ==
    /\ pc = "parsed" /\ kind = "cipher" /\ nbr = 0 /\ ~Given("key") /\ ~Given("pass")
    /\ Error \/ (pc' = "done" /\ UNCHANGED ret)
    /\ UNCHANGED <<kind, argv, args, nbr, i, j, calls, shift, printed>>
Accept ==
    /\ pc = "parsed" /\ nbr = 0 /\ kind # "digest"
    /\ kind = "cipher" => Given("key") \/ Given("pass")
    /\ pc' = "done"
    /\ UNCHANGED <<kind, argv, args, nbr, i, j, calls, shift, printed, ret>>

\* Where one of some numbers is among them, in ascending order, and which one is n-th.
Rank(S, k) == Cardinality({m \in S : m <= k})
Nth(S, n) == CHOOSE k \in S : Rank(S, k) = n

\* register_sum pushes the value of every -s on a vector, in their order.
SumCalls == {n \in 1 .. Len(calls) : calls[n].id = "sum"}
sums == [n \in 1 .. Cardinality(SumCalls) |-> calls[Nth(SumCalls, n)].value]

\* One line: the digest, alone or with the name of what was hashed before or behind it,
\* as -q and -r want it, which is left out here.
print_hash(name) == printed' = Append(printed, name)

\* The standard input when nothing else is given, or when it is asked for.
Stdin == <<"stdin">>
ReadsStdin == (nbr = 0 /\ sums = <<>>) \/ Given("echo")
DigestStdin ==
    /\ pc = "parsed" /\ kind = "digest" /\ ReadsStdin
    /\ \/ print_hash(Stdin) /\ UNCHANGED ret
       \/ ret' = 1 /\ UNCHANGED printed
    /\ pc' = "files" /\ i' = 1
    /\ UNCHANGED <<kind, argv, args, nbr, j, calls, shift>>
DigestNoStdin ==
    /\ pc = "parsed" /\ kind = "digest" /\ ~ReadsStdin
    /\ pc' = "files" /\ i' = 1
    /\ UNCHANGED <<kind, argv, args, nbr, j, calls, shift, printed, ret>>

\* The loop counts files with i and steps over NULL by advancing args itself.
DigestSkip ==
    /\ pc = "files" /\ i <= nbr /\ i + shift <= Len(args) /\ args[i + shift] = NULL
    /\ shift' = shift + 1
    /\ UNCHANGED <<kind, argv, args, nbr, i, j, calls, pc, printed, ret>>
\* Fault: the command returns what the last file made it return.
DigestFileLast ==
    /\ pc = "files" /\ i <= nbr /\ i + shift <= Len(args) /\ args[i + shift] # NULL
    /\ \/ print_hash(args[i + shift]) /\ ret' = 0
       \/ ret' = 1 /\ UNCHANGED printed
    /\ i' = i + 1
    /\ UNCHANGED <<kind, argv, args, nbr, j, calls, pc, shift>>

\* The file is read, or cannot be: then the loop goes on, and counts it.
DigestFile ==
    /\ pc = "files" /\ i <= nbr /\ i + shift <= Len(args) /\ args[i + shift] # NULL
    /\ \/ print_hash(args[i + shift]) /\ UNCHANGED ret
       \/ ret' = ret + 1 /\ UNCHANGED printed
    /\ i' = i + 1
    /\ UNCHANGED <<kind, argv, args, nbr, j, calls, pc, shift>>
DigestFilesEnd ==
    /\ pc = "files" /\ i > nbr
    /\ pc' = "strings" /\ i' = 1
    /\ UNCHANGED <<kind, argv, args, nbr, j, calls, shift, printed, ret>>
DigestString ==
    /\ pc = "strings" /\ i <= Len(sums)
    /\ print_hash(sums[i])
    /\ i' = i + 1
    /\ UNCHANGED <<kind, argv, args, nbr, j, calls, pc, shift, ret>>
DigestEnds ==
    /\ pc = "strings" /\ i > Len(sums)
    /\ pc' = "done"
    /\ UNCHANGED <<kind, argv, args, nbr, i, j, calls, shift, printed, ret>>

Ended == pc \in {"done", "refused"} /\ UNCHANGED vars

Scan == \/ SkipValue \/ Plain \/ Stop \/ LongOption \/ Cluster \/ UnknownFlag
        \/ Flag \/ FlagWithRest \/ FlagWithNext \/ ClusterEnds \/ ScanEnds
Digest == \/ DigestStdin \/ DigestNoStdin \/ DigestSkip \/ DigestFile \/ DigestFilesEnd
          \/ DigestString \/ DigestEnds
Command == Refuse \/ AskPassword \/ Accept \/ Digest
Next == Scan \/ Command \/ Ended
Spec == Init /\ [][Next]_vars

-----------------------------------------------------------------------------
TypeOK == /\ Len(args) = Len(argv)
          /\ \A k \in 1 .. Len(args) : args[k] \in {argv[k], NULL}
          /\ nbr \in 0 .. Len(args)
          /\ i \in 1 .. Len(args) + 1 /\ shift \in 0 .. Len(args)
          /\ pc \in {"prompt", "split", "words", "undefined", "over", "scan", "cluster", "parsed", "files", "strings",
                    "done", "refused"}
          /\ ret \in Nat

Left == {k \in 1 .. Len(args) : args[k] # NULL}

\* A digest hashes the standard input, each argument that is left and each string of an
\* option, once and in this order, whatever the options around them: it prints a line for
\* each, strings included when files before them could not be read, and returns the number
\* of those that are missing.  The counter that its loop trusts is the number of arguments
\* that are not struck out, so that it does not run behind the end of the command line.
Files == [n \in 1 .. Cardinality(Left) |-> args[Nth(Left, n)]]
Readable == (IF Given("echo") \/ (Left = {} /\ ~Given("sum")) THEN <<Stdin>> ELSE <<>>) \o Files
EachOnce ==
    /\ pc \in {"parsed", "files"} => nbr = Cardinality(Left)
    /\ pc = "files" /\ i <= nbr => i + shift <= Len(args)
    /\ pc = "done" /\ kind = "digest" =>
          /\ ret = Len(Readable) + Len(sums) - Len(printed)
          /\ \E read \in SUBSET DOMAIN Readable :
                printed = [n \in 1 .. Cardinality(read) |-> Readable[Nth(read, n)]] \o sums

\* No argument is the value of two options, and none that is a value is also read
\* as an option or left for the command.
ValueOnce ==
    \A m, n \in 1 .. Len(calls) :
        LET k == calls[m].from
        IN  k # 0 => /\ calls[n].from = k => m = n
                     /\ pc \in {"parsed", "files", "strings", "done"} => args[k] = NULL

\* What is left is what the conventions of getopt_long leave: everything behind a
\* "--" that is not a value itself, and before it what is neither option nor value;
\* but a lone "-", which they leave, is dropped like a cluster without letters, and a
\* space may follow the "--".
TakesNext(a) ==
    \/ /\ Len(a) > 2 /\ a[1] = Dash /\ a[2] = Dash /\ ~Contains(a, "=")
       /\ \E e \in Entries : e.arg /\ IsPrefix(SubSeq(a, 3, Len(a)), e.long)
    \/ /\ Len(a) > 1 /\ a[1] = Dash /\ a[2] # Dash
       /\ \E e \in Entries : e.arg /\ e.short = a[Len(a)]
       /\ \A n \in 2 .. Len(a) - 1 : \E e \in Entries : ~e.arg /\ e.short = a[n]
\* Of the arguments that would take the one behind them, and follow each other directly,
\* the first has a value, the third, and so on: n of them in front of k.
Takers(k, n) == /\ \A m \in k - n .. k - 1 : TakesNext(argv[m])
                /\ n < k - 1 => ~TakesNext(argv[k - n - 1])
IsValue(k) == \E n \in 0 .. k - 1 : Takers(k, n) /\ n % 2 = 1
Ends(a) == Len(a) > 1 /\ a[1] = Dash /\ a[2] = Dash /\ (Len(a) > 2 => a[3] = " ")
Closes(k) == Ends(argv[k]) /\ ~IsValue(k)
Open(k) == \A n \in 1 .. k - 1 : ~Closes(n)
LeftAsGetopt ==
    pc = "done" =>
        Left = {k \in 1 .. Len(argv) :
                   \/ ~Open(k)
                   \/ /\ ~IsValue(k) /\ ~(Len(argv[k]) > 0 /\ argv[k][1] = Dash)}
=============================================================================
