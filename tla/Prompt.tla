------------------------------- MODULE Prompt -------------------------------
(***************************************************************************)
(* Where the command line of Options comes from: the arguments of the      *)
(* program (main.c), or a line that was typed at the prompt of the         *)
(* interactive mode (interactive_mode.c) and split into words where it is  *)
(* (libft/ft_split_static.c).  The buffer of the line keeps what earlier   *)
(* lines left in it.  What commands do to the descriptors 0 and 1 is the   *)
(* concern of Session.                                                     *)
(***************************************************************************)
EXTENDS Options

CONSTANTS algorithms,   \* the name of a command of each kind
          Inputs,       \* what read may return, as sequences of characters
          LineSize,     \* sizeof(line)
          Garbage,      \* what the stack may have in its place at first
          LinesMax      \* bound: how many lines are typed

White == {" ", "NL"}    \* ft_isspace
Nul == "NUL"
Byte == (STRING \cup {Nul}) \ {"NULL"}
\* What is typed has no zero byte in it.
ASSUME LineAssumption ==
    /\ LineSize \in Nat \ {0}
    /\ \A input \in Inputs : /\ input \in Seq(Byte \ {Nul})
                             /\ 0 < Len(input) /\ Len(input) < LineSize
    /\ Garbage \subseteq [1 .. LineSize -> Byte]

VARIABLES
    source,     \* "main" or "prompt"
    line,       \* the buffer
    text,       \* history: what was typed
    counted,    \* what count_words returned
    at,         \* where parse_words is
    words,      \* the strings that it has found
    typed       \* history: how many lines were read

pvars == <<vars, source, line, text, counted, at, words, typed>>
lvars == <<source, line, text, counted, at, words, typed>>
ovars == <<kind, argv, args, nbr, i, j, calls, shift, printed, ret>>

PromptInit == /\ text = <<>> /\ counted = 0 /\ at = 1 /\ words = <<>> /\ typed = 0
              /\ \/ source = "main" /\ Init /\ line = <<>>
                 \/ source = "prompt" /\ line \in Garbage /\ kind = "digest" /\ argv = <<>> /\ Started /\ pc = "prompt"

-----------------------------------------------------------------------------
\* The first place from which the bytes are not, or are, one of some.
Past(s, bytes, from) == CHOOSE k \in from .. LineSize :
                            s[k] \notin bytes /\ \A n \in from .. k - 1 : s[n] \in bytes
Before(s, bytes, from) == CHOOSE k \in from .. LineSize :
                              s[k] \in bytes /\ \A n \in from .. k - 1 : s[n] \notin bytes

\* Where a word begins in one of the first bytes.
Begins(s, last) == {k \in 1 .. last : s[k] \notin White /\ (k > 1 => s[k - 1] \in White)}
\* How many words a string has: the beginnings of words in front of its end.
count_words(s) == Cardinality(Begins(s, Before(s, {Nul}, 1) - 1))

\* read returns less than the buffer holds, and a zero byte is put behind it.
ReadLine ==
    /\ pc = "prompt" /\ typed < LinesMax
    /\ text' \in Inputs
    /\ line' = [k \in 1 .. LineSize |-> IF k <= Len(text') THEN text'[k]
                                        ELSE IF k = Len(text') + 1 THEN Nul ELSE line[k]]
    /\ counted' = count_words(line')
    /\ at' = 1 /\ words' = <<>> /\ typed' = typed + 1
    /\ pc' = "split"
    /\ UNCHANGED <<ovars, source>>

EndOfInput == pc = "prompt" /\ pc' = "over" /\ UNCHANGED <<ovars, lvars>>

-----------------------------------------------------------------------------
\* Fault: what ends a word is not stepped over.
behind(end) == end

\* parse_words looks for the next word behind the byte that ended the last, which it
\* has overwritten, even where that byte was the end of the string.
behind_word(end) == end + 1

\* There is no end of a string from there on.
Endless == \A k \in at .. LineSize : line[k] # Nul

WordFrom == Past(line, White, at)
ParseWord ==
    /\ pc = "split" /\ ~Endless /\ Len(words) <= counted /\ line[at] # Nul
    /\ IF line[WordFrom] = Nul
       THEN at' = WordFrom /\ UNCHANGED <<line, words>>
       ELSE LET end == Before(line, White \cup {Nul}, WordFrom)
            IN  /\ words' = Append(words, SubSeq(line, WordFrom, end - 1))
                /\ line' = [line EXCEPT ![end] = Nul]
                /\ at' = behind_word(end)
    /\ UNCHANGED <<ovars, pc, source, text, counted, typed>>

\* A word where only NULL has room, or bytes behind the buffer: nothing can be said
\* of what follows.
Undefined ==
    /\ pc = "split" /\ (Len(words) > counted \/ Endless)
    /\ pc' = "undefined"
    /\ UNCHANGED <<ovars, lvars>>

Split ==
    /\ pc = "split" /\ ~Endless /\ Len(words) <= counted /\ line[at] = Nul
    /\ pc' = "words"
    /\ UNCHANGED <<ovars, lvars>>

-----------------------------------------------------------------------------
\* handle_command: nothing was typed, or no command has that name.
NoCommand ==
    /\ pc = "words"
    /\ words # <<>> => \A k \in Kinds : algorithms[k] # words[1]
    /\ pc' = "prompt"
    /\ UNCHANGED <<ovars, lvars>>

CommandTyped ==
    /\ pc = "words" /\ words # <<>>
    /\ \E k \in Kinds : algorithms[k] = words[1] /\ kind' = k
    /\ argv' = Tail(words) /\ args' = argv' /\ nbr' = Len(argv')
    /\ i' = 1 /\ j' = 0 /\ calls' = <<>>
    /\ shift' = 0 /\ printed' = <<>> /\ ret' = 0
    /\ pc' = "scan"
    /\ UNCHANGED lvars

\* A command that does not like its options ends the program, with its usage.
Again ==
    /\ pc \in {"done", "refused"} /\ source = "prompt"
    /\ pc' = IF pc = "done" THEN "prompt" ELSE "over"
    /\ UNCHANGED <<ovars, lvars>>

Over == (pc \in {"over", "undefined"} \/ (pc \in {"done", "refused"} /\ source = "main")) /\ UNCHANGED pvars

PromptNext == \/ ReadLine \/ EndOfInput \/ ParseWord \/ Undefined \/ Split
              \/ NoCommand \/ CommandTyped \/ Again \/ Over
              \/ (Scan \/ Command) /\ UNCHANGED lvars
PromptSpec == PromptInit /\ [][PromptNext]_pvars

-----------------------------------------------------------------------------
\* The words of a text, one for each place where one begins.
Beginnings == Begins(text, Len(text))
Letters(s, n) == {k \in n .. Len(s) : \A m \in n .. k : s[m] \notin White}
Word(s, n) == SubSeq(s, n, n + Cardinality(Letters(s, n)) - 1)
WordsOf == [k \in 1 .. Cardinality(Beginnings) |-> Word(text, Nth(Beginnings, k))]
Terminated == text # <<>> /\ text[Len(text)] \in White

\* A line that ends in white space is split into its words, whatever earlier lines left
\* behind it.  One that does not, the last of a file for instance, is split into them as
\* well unless a word is still behind it in the buffer, or the end of the buffer is:
\* then words are written where there is no room for them.
SplitRight ==
    /\ pc = "words" => words = WordsOf
    /\ pc = "undefined" => ~Terminated
=============================================================================
