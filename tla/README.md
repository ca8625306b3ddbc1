# A TLA+ model of ft_ssl

ft_ssl (`src/`) is a command-line program in C that computes digests, encodes
base64 and encrypts with DES and triple DES, one command per process or several
in an interactive session.  It is one process with one thread.  What is hard in it
is not concurrency but sequence: loops that walk a payload block by block and must
be right for every length, a cipher whose two directions must mirror each other, a
chain of pipes that the process fills and drains itself, and a session in which a
command leaves the descriptors of the next one changed.

## Inventory

| part | source | state it keeps | operations | hard behaviour | what makes it correct |
|---|---|---|---|---|---|
| reading a payload | `srcs/file.c` read_file | the vector, its size and capacity | read, grow, end | short and failing reads, a full buffer, failing allocations | the stream comes out whole, in bounds, and the vector is freed exactly on failure |
| vector | `libft/ft_vector.c` | header (length, capacity, element size) and block | create, reserve, resize, push, insert, erase, pop | moving blocks, shrinking, failing allocations | contents survive moves, index inside the block |
| modes of operation | `srcs/cipher.c` | chaining value, cursor, bytes that remain | encrypt, decrypt | the last block, padding, damaged input | decryption undoes encryption, damage stays confined |
| DES | `srcs/des.c`, `srcs/bitwise.c` | round keys, halves of the block | key schedule, rounds | order of keys, tables | the two directions are inverse; published vectors |
| triple DES | `srcs/des3.c` | three key schedules | encrypt, decrypt | order of the three keys | as DES |
| input and output of a cipher command | `srcs/file.c`, `srcs/des.c`, `srcs/des3.c` | four descriptors, two pipes | io_open, derive_key, the cipher, io_base64_encode, io_free | a pipe that is filled before it is drained, input and output in one file, failures half-way | success means the whole result is where it belongs; nothing else is touched |
| base64 | `srcs/base64.c`, print_character_64 | payload, column of the output | encode, decode, base64_fds | padding, newlines, line width | decode undoes encode |
| dispatch and session | `srcs/main.c`, `srcs/interactive_mode.c` | descriptor table of the process | prompt, command, exit | descriptors 0 and 1 closed by commands and reused | each command behaves as if it were alone |
| digests | `srcs/md5.c`, `srcs/sha*.c` | running state, last blocks | string, file, stdin | padding at the block boundary | FIPS 180-4, RFC 1321 |
| keys | `srcs/parse_args_des.c`, `libft/ft_hex_decode.c`, `libft/ft_strtoul_hex.c`, `srcs/pbkdf.c`, derive_key | key, salt and IV of a command, the salt in the file | -k, -s, -v, -p, --md, derive_key, -P | odd digits, leading zeros, overflow, a salt on the command line and one in the file, a second -k | what is written is what is used; a password opens what it closed; what -P shows can be given back |
| prompt | `srcs/interactive_mode.c`, `libft/ft_split_static.c` | the buffer of a line, the list of words in it | read, split, dispatch | a buffer that keeps earlier lines, a line that is not terminated | the words are those that were typed |
| options | `libft/ft_options.c`, `srcs/parse_args_*.c` | argv, the options record | scan, a digest's loop over what is left | clusters, prefixes, `--`, files that cannot be read | every argument is consumed once |
| search tree | `libft/ft_sbtree.c` | nodes with two pointers | insert, remove, find, bounds, smallest, greatest | a node with two branches is removed, a comparison that overflows | the tree is the set of what was inserted and not removed |
| formatted output | `libft/ft_printf*.c`, `libft/ft_sprintf.c` | fields of a format, requests for arguments, a static memory of how they are numbered; a buffer of fixed size | ft_printf, ft_dprintf; ft_sprintf, ft_sdprintf | arguments sorted by number, an error in the middle of a format, memory that runs out, a number at the end of the buffer | what the format says, or a part of it and an error; cut only at the end of the buffer |
| lists | `libft/ft_lst*.c` | nodes with a pointer | add, insert, merge, pop, clear, remove by content, map | the head, a node freed while its successor is needed, a map that fails half-way | a list is a sequence, no node is lost or shared |
| sorts | `libft/ft_sort.c` | an array, copies of its halves | insertion sort, merge sort | the remainder of a half, a copy that cannot be allocated | the same elements in order |
| line reader | `libft/ft_gnl.c` | a static buffer for each descriptor | ft_gnl | short reads, other descriptors in between, failing allocations | the stream comes out once, line by line |
| rest of libft | `libft/` | | strings, conversions, splits | no state | |

The parts call each other in one direction: main or the session calls a command;
a cipher command calls io_open (read_file, and base64_fds through a pipe when `-a
-d` is given), derive_key, cipher_encrypt or cipher_decrypt with des or des3 as the
block cipher, io_base64_encode (base64_fds again) and io_free.  They share the
descriptor table of the process, the static column counter of
print_character_64, and nothing else.

## Modules

| module | models | checked by | proved in |
|---|---|---|---|
| `Vector` | the vector functions read_file uses | MCReadFile | ReaderProofs |
| `ReadFile` | read_file | MCReadFile | ReaderProofs |
| `ReadAll` | what read_file promises | MCReadFile | ReaderProofs |
| `CipherModes` | cipher.c, one command that encrypts and one that decrypts | MCCipherModes | CipherModesProofs |
| `Des`, `DesFunctions`, `DesTables` | des.c: key schedule and rounds, what they compute on bits, tables | MCCiphers | DesProofs |
| `Des3` | des3.c on the first block of a message | MCCiphers, MCDes3 | DesProofs |
| `Session` | main, interactive_mode, io_open ... io_free, the pipes, the commands as system calls | MCSession | SessionProofs |
| `Base64` | base64.c and print_character_64, over several commands | MCBase64 | Base64Proofs |
| `Options` | ft_options.c, the parse_args_*.c of the commands, a digest's loops over its inputs | MCArguments | OptionsProofs |
| `Prompt` | interactive_mode.c, ft_split_static.c and the dispatch of main.c, in front of Options | MCArguments | OptionsProofs |
| `Keys` | where the key and IV of des and des3 come from: hexadecimal options, or derive_key and pbkdf1 | MCArguments | DesProofs |
| `Digest` | how the four hash_buff_* cut and pad a message | MCHashes | DigestProofs |
| `Words`, `DigestTables`, `Sha2`, `Md5` | the rounds of the digests on top of Digest, with the code's tables | MCHashes | |
| `Hashes` | the four digests, each an instance of Md5 or Sha2, and Digest alone with small blocks | MCHashes | |
| `Printf` | ft_printf and ft_dprintf, from the format to the bytes that are written | MCHashes, MCPrintf | |
| `PrintHash` | print_hash of the four digests, on top of Printf; what ft_printf's comment promises | MCHashes, MCPrintf | |
| `Sprintf` | ft_sprintf and ft_sdprintf | MCLibft | LibftProofs |
| `VectorOps` | ft_vector.c for elements of any size | MCLibft | LibftProofs |
| `SbTree` | ft_sbtree.c | MCLibft | |
| `Lists` | the linked lists, ft_lst*.c | MCLibft | |
| `Sort` | ft_sort.c | MCLibft | LibftProofs |
| `Gnl` | ft_gnl.c | MCLibft | ReaderProofs |

`MCOptions` holds the words of MCArguments' command lines, `MCPrintf` the calls of ft_printf
that MCHashes runs.  Parts of libft that do not interact share a run: a behaviour of MCLibft
is about one of them, the rest stays as it is, and so with MCArguments and MCHashes.

**ReadFile.** One action per step of the function: `Create` the vector, `ReadBytes`
/ `ReadNothing` / `ReadFails` for what read() does, `Loop` and `Grow` for the test
and the doubling, `GiveUp` and `Terminate` for the two returns.  A read delivers
any number of bytes up to what was asked for; asking for nothing returns 0.  Every
allocation may fail.  The local `capacity` and the one in the vector's header are
two variables, because ft_vector_reserve trusts the header.

**CipherModes.** `phase` follows one message through two commands.  A payload is
its full blocks and a tail shorter than a block; `EncryptFull`, `EncryptLast`,
`DecryptFull`, `DecryptLast` and `DecryptEmpty` are the loops of cipher_encrypt and
cipher_decrypt and what follows them.  In between the ciphertext arrives intact,
with one block altered, or cut (a short write goes unnoticed by the code).  The
bytes behind a tail, and an uninitialised block, are any bytes.  The block cipher
is a pair of parameters.

**Des.** Two calls on one block, in either order, one action per round.  The
tables are parameters, so that the proof is about any tables that fit and the run
about those of the code.  A block is the sequence of its bits, which is what
htobe64 makes of the bytes in memory.

**Des3.** Three stages per call over any family of permutations, on the first
block of a message in each mode; later blocks differ from it in the chaining value
only.

**Session.** The descriptor table maps numbers to what is open there (terminal,
input not read yet, input read to its end, output, the ends of a pipe).  open and
pipe take the lowest free numbers.  Each action is one system call of the commands
with the code around it; `before` remembers the table and the files when the
command started.  A unit of data is a block; base64 does not change the number of
units.  Any open, pipe, read, write or decoding may fail.  A write to a file or a terminal may
also take a part of what it is given (`Write`): cipher_encrypt, cipher_decrypt, write_salt and
base64_decode test for `< 0` only and go on, and the history `missed` counts the units of which a
part is not there.  print_character_64 writes until all is taken (`WriteWhole`).

**Base64.** A session of commands.  `Encode` starts an encoding, `Chunk` is one turn
of base64_encode, `Print` one call of print_character_64 (which calls itself for
what a write left), and the text it wrote is then decoded by `Skip` and `Group`;
`Decode` starts from a text no encoding wrote.  The static counter `nprint` is never
reset between commands.  A character is its index in `alphabets`.  Writes are short or
fail at any point; the newline's write is not looked at by the code, so it may be
missing.  What lies behind the NUL of a payload is any character.

**Options.** A command line is a sequence of words, a word the sequence of its
characters.  One action per branch of the scan; `Strike` and `NextArgument` are the
assignment of NULL and the counting, which the code does in three places.  `calls`
records which handler got which value.  After the scan `Refuse`, `Accept` and
`AskPassword` are what parse_base64_args and parse_des_args do, and `Digest` is md5()
behind its options: standard input, files, strings.  sha256(), sha224() and sha512() are
the same line for line, and PROJECT.json maps each action to another of the four.
`printed` records what the lines are about, `ret` what the command returns.

**Prompt.** Extends Options with where the command line comes from: main's argv, or a
typed line.  `ReadLine` puts what read returned in front of what the buffer held
before; `ParseWord` is one turn of the loop of parse_words, which cuts the buffer in
place; `CommandTyped` starts the scan of Options, `Again` returns to the prompt.
`Undefined` is reached when parse_words writes behind its list or reads behind the buffer,
which it does when no NUL is left there from where it is (`Endless`); nothing is said of what
follows.  The buffer is not initialised, so it begins with any bytes.

**Keys.** Two commands, one that encodes and one that decodes.  A text is a sequence of
digits, white space and other characters; the base and the number of digits in a word
are parameters (16 and 16 in the code).  Actions are the handlers of the options, one
turn of ft_hex_decode (`HexPair`, `HexLast`) and of ft_strtoul_hex (`SkipSpaces`,
`TakeDigit`), then `read_pass`, `write_salt` or `read_salt`, and `derive_key`, of des.c
and des3.c at once: they differ in the length of the key, the digests they take and
where an option's bytes are put.  A digest is any function.  `Decode` begins the second
command with options of its own, or with the key and the IV that -P showed of the first.
When pbkdf1 returns early the bytes it was to write are any bytes.

**Digest, Sha2, Md5.** `FullBlock`, `Pad` and `Second` fill a block, and `Absorb` is
the return of add_*_block; the four functions differ in the constants only.  `Sha2`
and `Md5` extend Digest and put the rounds between the two; `Hashes` is one call of one
of the four, or Digest alone with small blocks.  A word is a sequence of
bits; sums are made of half-words with a carry, since TLC's integers have 32 bits.

**VectorOps.** The block is a function from offsets to bytes and an element the sequence
of its bytes, so that a move by the wrong number of bytes shows.  `contents` is the
sequence that the vector stands for, with `NoClaim` in place of an element of which nothing is
claimed.  An operation that allocates has a second branch, in
which realloc fails and the vector stays as it was, or as long as it was.  push,
push_range, insert and insert_range are one action, the first three being calls of the
last with arguments of their own; so are erase and erase_range, pop and pop_range.

**SbTree.** The functions take the address of a pointer and call themselves with
another; `at` is that address, `Descend` a recursive call.  A bound falls back on the
frames below it when the call it makes returns NULL, of which only the last one matters
(`best`).  `PopAdjacent` and `PopDistant` are the two exchanges of pop_node, written as
one assignment of all the pointers they change, and are followed by the call that pops
the node where it went.  `members` is the set that the tree stands for.

**Printf.** `get_next_field` is one turn of build_fields: text up to a `%`, or a field that
parse_field takes apart with the functions of the code, one operator each; `check_fields`
reads the arguments into the fields and looks at the flags of all of them, `print_field`
writes one, and `ft_printf` begins the next call, which finds `pos_format` as the last one
left it.  Every allocation of a call whose memory is `short` may fail; where the code then
reads a NULL pointer the call ends in `Crash`, and so it may where a field that lost its type to
a precision is freed with the caller's string (`FreesForeign`).  A word of eight bytes is two halves, since
va_arg writes one half or both of a variable that lives through the whole list of requests.
`PrintHash` builds calls from pieces, says for each what the comment over ft_printf promises
(`Documented`), and has the lines of the digests.

**Sprintf.** A message is given as pieces, whose characters `parse_format` goes through, one
action per case of its switch.  The functions that write into the buffer differ in whether
they keep a byte for the NUL.

**Lists.** Two lists over one pool of nodes; `head`, `next` and `content` are the pointers,
`used` and `held` what is allocated, and `seq` the sequences that the lists should be.
ft_lstdelif and ft_lstmap go node by node, the others are one assignment of the pointers
they change.

**Sort.** One comparison per step.  The recursion of _ft_merge_sort is unrolled into the
list of its merges (`Merges`), in their order.  An element carries the place it came from, so
that a lost, doubled or overtaken one shows.

**Gnl.** One action per call of parse_buffer and update_buffer; a read gives any number of
bytes that fit.  `returned` and `Held` together are what was read.

Definitions introduced by a comment that begins with "Fault:" are not part of the
model.  Each is a plausible bug in the definition below it, and the property named
with it in `PROJECT.json` fails when it takes that definition's place.

## Runs

| run | shows | bounds |
|---|---|---|
| read_file | the payload is the stream, freed on failure; implements ReadAll; the inductive invariant of its proof | capacity 2, files of 0..9 bytes: three doublings, every file length at, before and after each boundary (1, 3, 7), every way to cut the reads |
| cipher_modes | round trip, padding, the chain of blocks and chaining values, damage confined, cut streams | blocks of 2 bytes of 2 bits, messages of 0..3 blocks with and without a tail: first, middle and last block, and both sides of a block boundary |
| ciphers | DES: the two functions undo each other and give the published answers; triple DES: round trip in the stream modes, and in all with keys[0] = keys[2] | the code's tables, 20 vectors, both orders of the two calls; 4 permutations that do not commute, all key triples, blocks and IVs |
| des3_three_keys | **finding**: with three different keys the block modes do not decode | triple DES as in ciphers |
| session | a command that succeeds has handed over its whole result, of which only what a write took a part of is missing; the payload is the input; no command closes another's descriptor, leaves one open that it should not, or touches another file; sessions end, and block only on a pipe that got more than it holds | 7 descriptors (5 are ever in use), pipe of 3 units, 0, 2 or 4 typed units, files of 1 and 3, 2 commands out of all option combinations |
| session_full_pipe | **finding**: a base64-wrapped command larger than the pipe never ends | as session, 1 command |
| session_goes_on | **finding**: commands close the stdin or stdout of the session they run in | as session, 1 command |
| base64 | decoding undoes encoding, lines are full and newlines nowhere else, nothing outside the alphabet is accepted, every command ends | lines of 8 characters, payloads of 0..7 bytes (all three lengths of the last chunk, lines that fill once and twice), 14 foreign texts, 2 commands, all short and failing writes |
| arguments | a typed line is split into its words; each argument is taken once and what is left is counted right and read in order, for a digest, base64 and a cipher, with values that are refused, ambiguous names and files that cannot be read; keys, salts and IVs are what was written, and refused when they are not a number that fits; a password opens what it closed, and so does what -P shows; no command uses a key that was not written | 14, 6 and 13 words, lines of up to 3 of them; 12 typed lines, 3 after one another, in a buffer of 7 bytes, which the longest of them fills; keys in base 3, 4 digits in a word, every text of up to 5 characters (one more than a word; 3 digits are the fewest that have a first, a middle and a last), texts at the length of a triple DES key, 13 combinations of password, salt, IV and digest in both commands |
| digests | messages are padded as FIPS 180-4 and RFC 1321 say, and the published digests come out of the code's tables and rounds, for all four; ft_printf prints what it is asked for, or a part of it, and the lines of the digests | blocks of 4 bytes with 2 for the length and all messages of up to 9 bytes of 0 and 128: every remainder, with none, one and two full blocks; with the real blocks, 21 messages of none, one and two blocks, as long as a block and as a block without marker and length; halves of a word of 8 bits, every conversion with all 32 sets of flags, 3 widths and 5 precisions around the lengths of the numbers; 15 calls that number their arguments one way, the other or wrongly, or run out of memory, each with a second call behind it; the lines of md5 and sha512 with two words |
| libft | the vector holds what it was given; the tree answers for a set; lists are sequences and share nothing; lines come out whole and once; messages are cut only where their NUL needs the room, and fit with it; both sorts sort | elements of one and two bytes, vectors of up to 3, capacities 0 and 8 and what growth makes of them (the block shrinks below a quarter); trees of up to 5 nodes, the fewest with a successor that is not adjacent and has a branch, of 5 numbers and one that is too far from two of them for an int; two lists over 4 nodes and two contents; two descriptors, a buffer of 2 bytes and streams of up to 5, with every cut; messages of up to 3 pieces in buffers of 1 to 7 bytes; all sequences of up to 5 elements of three keys, which has halves of different lengths twice over |
| option_message | **finding**: the message for an option that takes no argument is cut off | the one call, `'--%.*s'` with what ft_options.c gives it |

`TypeOK` of every module, `InBounds`, `IvSync`, `SingleKeyIsDes`, `Mirror` and `Unambiguous`
hold on the same instances and are not listed in the .cfg files: the first follow from other properties
or say little, the others are proved.

Two commands are enough for the session: what a command leaves behind is the set of
descriptors it closed (0, 1) or leaked, and the second command meets every such
set.  A pipe of three units lets the salt (two) and a block through and is filled
by four typed units.

In the libft run the nodes of lists are symmetric.  Those of the tree are numbers, of which
calloc gives the one named like the datum, or else the first that is free: which it is makes
no difference to the tree.  One more bound is in `Claimed` of its module: it does not go
on with more than three nodes among which an int cannot compare all.

**Left out of the properties.** Where the code does not do what its own comment says, and where
two comments contradict each other, a property claims nothing instead of either, in a condition
of its own.  These cases are reached by the runs, and nothing that passes says anything of them:

| property | claims nothing of | comment, code |
|---|---|---|
| TreeIsSet | the upper bound of a datum of the tree with two greater ones (`Disputed` of SbTree) | `libft/ft_sbtree.c:188` "the smallest node", `:204` the greatest of the right branch |
| ListsAreSequences | what ft_lstdelif leaves when the first two elements are both to go (`Disputed` of Lists) | `libft/ft_lstdelif.c:15` "any element", `:32` does not look at the second when it removes the first |
| CutOfWhole | a message that ends in a number or pointer which begins in the buffer and does not fit with a NUL (`Disputed` of Sprintf) | `libft/ft_sprintf.c:157` "null terminate the buffer", `:174` behind it |
| PrintedAsAsked | `-` with `0`, `+` with a blank, zeros with a blank or `0x`, a `*` as precision, a zero behind a long (`Disputed` of PrintHash) | `libft/ft_printf.c:47`, `:51` and `libft/libft.h:338`, `:344` "override", `libft/ft_printf_check.c:91` refuses |
| SequenceKept | an element of more than a byte once it has been behind an erased range | `libft/ft_vector.c:166` |
| LinesWhole | the newline of a line that a short read ended | `libft/ft_gnl.c:119` |
| ReadAsWritten | a second `-k` of des3; of a salt or IV with zeros in front it takes the number that the code makes of it | no comment; `srcs/parse_args_des.c:91`, `:101` |

**Fairness.** ReadFile and Base64 assume weak fairness of their one thread: it runs until it
returns, and a regular file or pipe answers.  Session assumes it
of the running command and of a prompt that reads from anything but the terminal.  That includes
a command that reads its input from the terminal: who started it is assumed to end what is typed
there.  Nothing makes a user type a command at the prompt.  A write to a full pipe is not enabled, so weak fairness does not
push the process out of it: `EndsUnlessFull` says that this is the only way a
command may fail to end, and that it takes more than the pipe holds, and CHECK_DEADLOCK is off because the system does stop
there.

## Proofs

**read_file** (`ReaderProofs`), for every set of files, initial capacity of at
least 2 and byte alphabet.  `IInv` says that between calls the block is as long as
the local capacity says and begins with what was delivered.  That alone is not
inductive: `ReadInv` also keeps size below capacity - 1, so that a read never asks
for nothing, and `LoopInv` states that a read of 0 bytes means the end of the
stream.  InBounds, WholeStream and FreedOnFailure follow; `Refinement` shows every
step to be a step of ReadAll or a stutter.

**cipher.c** (`CipherModesProofs`), for every block length, byte alphabet with an
exclusive or, and block cipher whose second function undoes the first.  The
history `ivs` of chaining values turns the argument into one about single blocks:
`BlockRoundTrip` shows that decrypt_block with the same chaining value gives back
the block and the same next value, and `Chain`, `IsCiphertext`, `Decrypting` carry
it along the message.  `Padding` is the arithmetic of the last block.

For a message that was harmed on its way `Harmed` says what is left of this: the full
blocks of the input, but for the one that was altered, are those the encryption made
(`Cipher`), and where the decryption is `Synced`, which is up to the harm and again from
`RecoversAt` on, it holds the encryption's chaining value.  That this is so again behind
the harm is where the modes differ, and `StaysSynced` goes through them: CBC and CFB
take the next value from the ciphertext, OFB from the one before, ECB has none, and
PCBC is never claimed to recover.  A block of the message that is `Spared` is therefore
decrypted with the right value from the right block (`SparedBlock`), which gives
`PropagationHolds`.  For `CutIsPrefixHolds` the last block of a cut stream is copied together
with whatever lies behind it: `StreamTail` shows that an exclusive or keeps those bytes
apart, so that the bytes which are written depend only on those that came through.

**des.c** (`DesProofs`), for every key schedule's permutations, expansion and s-boxes that
fit, any number of rounds and any block.  `DesIInv` says where the two halves are: after k
rounds of the first call they are entries k and k + 1 of a sequence of halves in which
each follows from the two before it and a round key, and after k rounds of the second
call they are the same entries from the other end.  It is inductive because an
exclusive or undoes itself, whatever is computed on the right half; what the mangler
computes is never looked at.  RoundTrip and Mirror follow.  The only assumptions are
that the first and the last permutation undo each other and that tables have the right length.

**des3.c** (`DesProofs`), over any family of permutations and any exclusive or.  `IInv`
says how far through its three stages a call is.  `StreamRoundTripHolds` holds for any
three keys, since the stream modes encrypt in both directions; `TwoKeyRoundTripHolds`
needs the first key to be the third, which is what the finding is about.

**The keys** (`DesProofs`), for every base above 2, even number of digits in a word, command lines and
digest function.  `KInv` has two parts:

- `Derived`: what the password, the digest and the salt in the header have made of the options when
  a command begins its work.  The key that it works with is as long as it should be because
  `ValidMd` lets only digests through that are long enough.
- `KeyText`: how far the first command line is read.  The option that is being read follows those
  that were accepted, the bytes in `out` are the digits of its text so far (`Hexed`), and the
  key of the options is the text of the last `-k` that was accepted, with zeros behind it (`Kept`).

NothingUnset is in the first part.  `KeyAsWrittenHolds` is what ReadAsWritten says of `-k`, and
`OpensWithPasswordHolds` what Reopens says of a password, both conjuncts of these properties: a
decryption takes the salt that the encryption wrote, so the digest is of the same bytes.

**The session** (`SessionProofs`), for every set of files and their contents, every set of
command lines, any number of commands, pipe and table of at least the size that ASSUME says.
None of the four properties is inductive; `IInv` is the conjunction of what they need:

- `Places`: which command is at which point of the program, and which of the numbers in its
  structures it has set on its way there.
- `OwnNumbers`, `OthersKept`: a number above 1 that a command may close or write to was free
  when it began, so what was open then is as it was.  This is what makes the double closes of
  io_free and of input_base64_decode harmless.
- `Writers`: a descriptor above 0 by which anything but the terminal can be written to is one
  that the command holds at that point, and none is left between commands.  Without it the
  prompt, or output that goes to descriptor 1, could reach a file of an earlier command.
- `Opened`: what is open and was not when the command began, at each point; at the end at most
  one descriptor, and behind a cipher command that succeeded none but 0.
- `Input`: until the payload is read no file has changed, and the payload, on its way through the
  descriptor, base64's vector and the pipe, is what the input held.
- `Output`: how much of what is `Expected` has been written to where it belongs, how much
  of it writes have missed, and how much is in the pipe or still to do; the sum is the same at
  each step, since a write adds what it took to the first and the rest to the second.

The lemma of each action shows the parts that the action can disturb.  `ResultIsDelivered`,
`InputIsRead` and `TableIsKept` follow from `IInv`; `OtherFilesKept` is about steps and goes
through the actions again.  The bounds of the run (commands, units, descriptors, files) are
parameters here, so that no longer session or larger pipe can break what it shows.  `IInv` was also checked by TLC on the instance of the run `session`.

**base64** (`Base64Proofs`), for every length of line that is a multiple of four, every set of
payloads and of foreign texts, any number of commands, and whatever part each write takes.
RoundTrip says nothing while the encoding is on its way, when characters are in `text`, in `buff`
and still in the payload, and newlines lie between them; so `IInv` ties these together by a
function `count`, of which `count[k]` is how many of the first k characters of the text are not
newlines.

- `Spelled`: the character that is the m-th in this count is the m-th of the payload's encoding,
  and a newline is only where the count is at the end of a group.
- `Writing`: the count, the characters in `buff` and the bytes of the payload that are taken add
  up to whole groups; `Reading`: where the index of the decoding is the count is a number of whole
  groups, and what is decoded is what they hold.  It gives up when a write of the decoding took
  only a part (`cut`), as the code does.
- `Columns`: the column is a multiple of four whenever a group is complete, and start plus the
  length of the text is a number of full lines, with their newlines, plus the column.
- `Passed`: what the decoding has passed is in the alphabet or ends a line.

The count exists, and is not a variable: `MoreCharacters` and `MoreLines` say how one for a longer
text is made.  That a newline never falls into a group is where the length of a line being a
multiple of four is needed, and the encoding having begun between two groups.  The codec itself is
`ChunkRoundTrip`, of which the `Joined` lemmas are the arithmetic: decode_chunk undoes encode_chunk
for one, two and three bytes.  `WholeGroup` then shows that where the decoding finds a character
all four of the group are there, `GroupStep` that they are not refused.  `IInv` was
also checked by TLC on the instance of the run `base64`, with `count` computed from the text.

**The digests** (`DigestProofs`), for every block length, length field and set of
messages whose lengths the field tells apart.  `IInv` says that in the loop the blocks so
far are the beginning of the message, and that behind it the buffer is the padded end; the
arithmetic of the last one or two blocks is in lemmas of its own.  `PaddedHolds` and
`UnambiguousHolds` follow.

**ft_sprintf** (`LibftProofs`), for every format, arguments and buffer.  `SprintfIInv` says that
the buffer is a sequence of bytes no longer than its size and that the loop is entered only
with two bytes free; each case of the switch adds what `RoomLeft` says there is room for.
`FitsAlways` is a conjunct of CutOfWhole, the one that holds in the case left out too; that the NUL
fits behind the text in all others, and that nothing is cut too early, are matters of what was
written before, and left to TLC.

**The line reader** (`ReaderProofs`), for any number of descriptors, texts of any length and
every size of the buffer.  It is assumed that the streams are texts without a NUL
(StreamsAssumption), since ft_gnl marks with NULs what it has returned.  LinesWhole is not
inductive: that only the last line of a stream may be without a newline depends on what is left
in the buffer behind it.  `GnlIInv` adds, for each descriptor:

- `Packed`: what a buffer holds is in one piece; `Filled`: when all reads were full, it ends in
  front of the buffer's end only at the end of the stream.
- `LineBegun`: a line that is not returned yet has neither a newline nor a NUL, or is NULL with
  no length, unless an allocation has failed.
- `LinesReturned`: a line that was returned has neither of these but as its last byte, and behind
  one that ends without a newline nothing is held.
- `AllRead`: LinesWhole's first part, that the bytes of the lines and those held are what was read.

The descriptor of the call is the only one an action disturbs (`OtherGood`, `SameCall`).  What
FlattenSeq and `Bare` compute is needed for every sequence, and both are recursive functions;
`Climbing`, from the well-foundedness of the numbers, takes the place of an induction theorem, and
`Recursion` gives the functions their values.  `BareConcat` and `FlattenAppend` follow: what is
kept of two texts is kept of each, and a line that is returned is put behind the others.
`GnlIInv` was also checked by TLC, with buffers of 2 and 3 bytes.

**The insertion sort** (`LibftProofs`), for sequences of any length and integers.  `SortIInv`
says that the sorted part, without the element that is being inserted, is in order, with
equal keys in the order they came in, and that this element belongs in front of all that it
has passed; the array is always a permutation, being given by the places the elements came
from.  `SwapStep` is the one long case: what was in order around the two elements stays so.
`InsertionSorts` follows at the end.  The merge sort's invariant is about a recursion, and is
left to TLC.

**The vector** (`LibftProofs`), for elements of any size, any capacities and vectors of any
length.  `VectorIInv` says that the block is as large as the header says, with room for the
elements, and that each element, read where the header puts it, is the one the history has.
The moves come first, each in a lemma about one block: what memmove opens up or closes
(`MovedUp`, `MovedDown`), what memcpy puts in (`CopiedIn`), what survives realloc
(`SizedKeeps`, `ShrinkKeeps`); `Offsets` places an element in front of a position or not, so
that no lemma multiplies twice.  What the same operations do to the sequence is in `Spliced`
and `TakenOut`, and each operation puts the two together.  `ClosedDown` claims the elements
behind a range only for single bytes: erase_range moves too few bytes of larger ones.  These
are therefore `Disclaimed` in the history, one by one: the invariant goes on claiming all in front
of the range, and all that come in later, in front of them, between them or behind.  That the elements of a size have that size
(ElementsAssumption) and that no size is zero (SizesAssumption) is all that is assumed.

**The command line** (`OptionsProofs`), for every table of options, command line, sequence of
typed lines, size of the buffer and content it has at first.  It is assumed that the options of a
command have different letters (MapAssumption), that NULL cannot be given as a word
(ArgvAssumption), and that a typed line fits into the buffer and has no zero byte
(LineAssumption).  What EachOnce and LeftAsGetopt say of a command line that has been read depends on
every branch of the scan on the way, so `IInv` says how far it has got:

- `Counted`: `nbr_args` is the number of arguments that are left behind the scan, and of all in
  front of it.  Inside a cluster of letters the argument the scan is at still counts, and the next
  one no longer does when it was the cluster's value; `InCluster` says which.
- `Ruled`: behind the scan an argument is struck out exactly when getopt_long would have taken it,
  as an option or as the value of one; the scan has not met a `--`, and the argument it is at
  is struck out already exactly when it is such a value.  Whether it is one depends on a chain of
  arguments in front of it, each the taker of the next or not, whose length is the `n` of `Takers`.
- `Once`: an argument that a handler got its value from is struck out or behind the scan, so no
  later handler gets it.
- `Printed`: what a digest has printed are the files it could read and the strings it was given,
  each in its place: the `Rank` of an argument among those that are left is the number of its
  line.  `RankTells`, `RankExists` and `RankLast` say that these numbers are one to one with the
  arguments.

`Splitting` is the same for the prompt: as long as parse_words is `InText`, the buffer from there
on is what was typed and the words so far are the first words of it; it gets `Beyond` only with a
line that is not Terminated.  `SplitRightHolds` follows from it, the others from `IInv`.

ValueOnce had to be stated anew: that the values are struck out was also claimed of the end of
a session whose last command was refused, but an argument with a value of its own (`--key=x`)
is not struck out when that value is refused; no typed line of the run has one.  This part is
now about command lines that have been read to their end.  All parts of the invariant were also checked by TLC on the
instance of the run `arguments`.

## Only model-checked

- Liveness (that read_file returns, SessionEnds, EndsUnlessFull, CommandsEnd), which is out of the
  prover's reach.
- KnownAnswer of DES and of the digests: the tables are data, and TLC checks them against published
  answers.  BlocksPadded is Padded again with the code's four sets of constants.
- The merge sort, the tree (TreeIsSet) and the lists (ListsAreSequences).  The first two are
  about a recursion, whose invariant is an induction over the data; the lists are left, and TLC
  goes through all short ones.
- Of ft_sprintf, that the NUL fits and nothing is cut too early, and ft_printf (PrintedAsAsked, HashLine): what is
  printed for a number is computed digit by digit.
- Of Keys, what ReadAsWritten says of a salt and an IV, and Reopens of what `-P` shows: both are
  about the digits of a number, so about powers of the base, for which the prover has no facts.

## Not modelled, and why

- The loop of pbkdf1 over iterations: both callers ask for one.
- A message so long that `len * 8` overflows.
- Of libft's tree, clear, size, height, the consistency check and printing; of its lists,
  what only reads or prints them.
- The string functions of libft, loops over one or two strings without state: the modules
  take them for what they return.  Its conversions to floating point, splits into new strings
  and the dump of memory, which nothing calls.
- The wording of error messages.
- What is printed on stderr, but for the key and the IV of `-P`.
- Signals, and a terminal that goes away.

## Noticed and not checked

- erase_range moves `len - (pos + 1)` bytes whatever the size of an element
  (`libft/ft_vector.c:166`), which is why SequenceKept claims nothing of larger elements behind an
  erased range; with single bytes it moves up to n - 1 too many, from behind the
  vector.  A range that ends behind the vector makes its length wrap, and a resize beyond the
  capacity leaves a length that the block has no room for.  The commands do none of this.
- ft_sbtree_upper_bound of a datum that is in the tree gives the greatest of the branch on its
  right; `libft/ft_sbtree.c:188` says the smallest that is greater.  default_cmp cuts a
  difference of pointers to an int.  The smallest of an empty tree is read through NULL, and a
  datum of 0 that was found is what find returns when there is none.
- A write that takes a part of a block, of the salt or of a decoded group is taken for a whole
  one (`srcs/cipher.c:92`, `:107`, `:141`, `srcs/des.c:307`, `srcs/base64.c:208`): the command
  returns 0, and what it wrote is shorter by what was not taken.  SuccessIsComplete counts this,
  and claims that nothing else is missing.  The digests do not look at what their printing returns.
- Files' names are printed between two NUL characters by the digests (`srcs/md5.c:169`).
- `-p` together with `-q` does not echo the standard input, though `srcs/md5.c:13` says that it
  does, and without it the echo ends at a NUL.
- The example `./ft_ssl sha256 "hello world"` of the README names a file, not a string.
- A digest's exit status is the number of files it could not read, of which a shell sees the
  last eight bits.

- After a base64 write that failed inside a group of four characters, the next
  encoding of the session puts its first newline inside a group, and its text is
  refused by the decoder (`srcs/file.c:38`, `srcs/base64.c:199`).  This is why
  RoundTrip assumes `start % 4 = 0`; Layout says that nothing else breaks it.
- `--string` of the digests' usage (`srcs/md5.c:15`) is `--sum` in
  `srcs/parse_args_md5.c:23`, and refused.
- base64, des and des3 encode unless told otherwise; their usages call decode the default.
- A typed line that does not end in white space (the last of a file, or one that fills
  the buffer): parse_words steps over the byte behind its last word although that is the
  end of the string (`libft/ft_split_static.c:52`), so it goes on with what an earlier
  line left there.  SplitRight says that this happens to no other line.
- `-k` with a file that was encrypted with a password: the salt in front of it is
  decrypted as if it were a block, since only derive_key steps over it.
- The IV of the example in `README.md:80`, `0102030405060708`, is used as
  `1020304050607080`: padd_left_u64_hex moves the digits up.  For the same reason `-P` shows an IV or
  a DES key whose first digit is zero in a form that is not read back (Reopens).
- A second `-k` of des3 that is shorter than the first keeps its end (ReadAsWritten).
- random_u64 never gives a digit F, shifts its first digit out, and always ends in 0: a
  salt has fifteen digits of fifteen values.
- `des3` is `des3-ecb` in `srcs/main.c`; its usage (`srcs/des3.c:22`) says `des3-cbc`.

- ft_printf refuses `-` with `0` and `+` with a blank, of which its comment says that the one
  overrides the other (`libft/ft_printf.c:47`, `libft/ft_printf_check.c:91`).  `% 05d` and
  `%#06x` put the zeros in front of the blank and the `0x`; `%d5$` takes its number from
  behind the conversion of a field without one; a format that ends in `%` is refused.  The
  smallest long overflows when it is negated.
- `%li` is in the list of ft_sprintf's comment (`libft/ft_sprintf.c:159`) and printed as `%l`
  and an `i`.  When a number or a pointer at the end of a message fills the buffer, the NUL is
  written behind it (`libft/ft_sprintf.c:153`, `:174`).
- ft_gnl accepts descriptor 1024, for which it has no buffer.  A short read ends a line; when
  no memory is left for a line its beginning is lost, and the next part is given behind bytes
  that were not written (`libft/ft_gnl.c:90`).
- ft_lstdelif does not look at the second node when it removes the first
  (`libft/ft_lstdelif.c:32`).  ft_lstmap accepts a NULL that its function returns for the last
  content, and loses a content when there is no memory for its node.
- The merge sort reverses equal elements.

## Plan

1. (done) ReadFile, CipherModes, Des, Des3, Session, Base64, Options, Prompt, Keys,
   Digest, Sha2, Md5, with proofs of ReadFile, CipherModes, Des, Des3 and Digest.
2. (done) VectorOps, SbTree, Printf, PrintHash, Sprintf, Lists, Sort, Gnl, with proofs of
   Sprintf and of the insertion sort.
3. (done) Proofs of the four properties of Session, of Propagation and CutIsPrefix, of
   Base64 and of VectorOps.
4. (done) Proofs of the options and the prompt: EachOnce, ValueOnce, LeftAsGetopt, SplitRight; of
   the keys: NothingUnset, and the parts of ReadAsWritten and Reopens without numbers; of the lines
   of Gnl: LinesWhole.
5. Left: proofs of these two for numbers, of Vector's functions as those of VectorOps for single bytes, of
   the lists and of SbTree's pointers as a tree;
   ft_sbtree_clear and size, and the divergences of upper_bound and ft_sprintf from their
   comments, which are only noticed above.
