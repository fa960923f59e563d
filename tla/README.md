# A verification of Projects-in-C

The repository is a collection of separate C and Java programs. This directory
models nine of them in TLA+, checks the models with TLC and proves results about
five of them with TLAPS: the bank simulation, the cache, Huffman coding, the Java
set and the Rio package. The source, read together with its comments and tests,
is the reference. `PROJECT.json` maps every definition to the lines it models.

## The system

| Program | State | Operations | What is hard |
|---|---|---|---|
| **Bank simulation** (`Bank-Atm Simulation/bank-proj`) | balances and the count of active ATMs in the bank process, the position of each ATM in the trace, one pipe to the bank and one to each ATM, the children of the parent | fork, open the trace, read a record, send, serve one of six commands, reply, receive, wait | processes that interleave, pipes that block, failing `fork` and `open`, damaged traces, overflow |
| **Cache simulator** (`CacheSimulation/cache-sim/src`) | lines with valid, tag and accessed bytes, an LRU queue per set, counters | access (hit, cold miss, conflict miss) | relinking the queue, stopping a walk at a free line, uninitialised bytes, junk in the trace |
| **Huffman coding** (`Huffman Coding/huffman-proj`) | frequency table, tree nodes, priority queue, bit file with its byte buffer, the decoder's list | count, build, write the tree and bits, close, read the tree, decode | ties in `qsort`, markers inside bytes, failing `fputc`, `fflush` and `fclose` |
| **Word frequency** (`WordFrequency`) | chain of nodes with frequencies | add, fast add, remove, look up, free, read words | pointers to cells, move to front, the end of the input |
| **JavaSet** (`JavaSet/src`) | chain of nodes allocated once | contains, remove, add, size, capacity | values that shift, nodes that move to the head, a full set |
| **count-strings** (`count-strings-proj`) | buffer, pointer, counts | read a piece, search, count | overlapping matches, long lines |
| **Classification window** (`HandDigitRecognition/src`: `PadDraw`, `GUIClassification`, `ChartPanelImg`, `util`) | image, old pointer position, chart | mouse events, first paint, timer | events in any order, coordinates beside the pad, a pad lower than twelve cells |
| **Digit classifier** (`Computations`, `Model`), part of the window | a table of probabilities | the posterior of a digit, `classify`, `fastClassify` | rounding and underflow of long products |
| **Rio package** (`Client-ServerSimulation/csapp/csapp.c`) | what `rio_writen` has left, what a read has so far, the internal buffer of a `rio_t` | `rio_readn`, `rio_writen`, `rio_readnb`, `rio_readlineb` and the `Rio_` forms | short counts, interrupted calls, errors in the middle, calls that share the buffer |

The programs do not interact with each other. Inside a program the parts interact
as follows. In the bank simulation the parent forks all other processes; each ATM
reads the trace file and talks to the bank over pipes; the parent only waits. The
cache's CPU calls the cache, which calls the LRU queue. `huffc` writes a file with
a tree and bits, and `huffd` reads it. The word programs call the set. The
window's timer classifies the picture the mouse handlers draw, on the same thread.
The Rio functions of one process meet those of another through a descriptor of the
kernel.

Not modelled, because there is no state whose changes could go wrong: printing
(`errors.c`, `treeg.c`, `tableg.c`, the dump of `treader.c`, the painting of the
chart and the images of digits), test drivers and their data, and the wrappers of
`csapp.c` other than the Rio package, each of which makes one system call and
reports its error. The client (`client.c`) follows a fixed order against a server
that is not in the repository, so nothing could be checked but an invention of that
server; the library it uses is modelled with a reader and a writer that make any
calls.

## Modules

**Bank simulation**

- `Command`: messages (`command.h`) and pipes with a capacity. A write is enabled
  while there is room, a read while there is a message. The parent keeps every end
  of every pipe open, so end-of-file and `EPIPE` do not occur.
- `Packing`: the byte layout of messages and headers, as pure operators.
  `MCBankSim` assumes, and TLC therefore evaluates, that every int of four two-bit
  bytes survives it. The counters of `trace.c` are ORed into; they are zero
  whenever a process opens a trace, so the model has no state for them.
- `Bank`: `bank_open`, the loop of `run_bank`, and `bank()` with one action per
  command. The blocking write of the reply is part of the action, as nothing else of
  the bank happens between the update of the balances and the write.
- `Atm`: one action per step of `atm_run` and `atm()`. A record cut short leaves the
  other fields of the buffer as they were, as in the code.
- `BankSim`: the parent (fork in order, fork failures, `wait`) and all processes
  together. `Next` has one disjunct for each kind of process.
- `Ledger`: the abstract specification: a client asks, the ledger executes the
  order in one step, the client collects the verdict. `BankSimLedger` gives the
  refinement mapping and the properties of whole executions.
- `BankAlone`: the bank against any client, which writes any of a set of messages
  into its pipe. `MCBank` (the messages) and `MCBankSim` (trace files).
- `Sums`: the sum of a sequence, as a recursive function that can be proved about.
- `BankSim_proofs`: theorems. `Sums_proofs`: lemmas about
  sums, and the induction that other proofs use as well.

**Cache**

- `Cache`: the walk of `lru_fetch`, the move to the front, hit, cold and conflict
  miss, the loop of `run_cpu`. The accessed bytes of a line are the set of its ones.
  How an address is cut is a parameter.
- `Bits`: the code's cut with W-bit shifts; a count of W is taken modulo W, as the
  machine takes it. `MCCache` instantiates `Cache` with it and has TLC evaluate, in
  every geometry whose shifts stay below the width, that the cut loses nothing.
- `LruCache`: the abstract specification: each set remembers its last blocks in
  order of use, and each access is tallied. `Cache` ends with the refinement mapping,
  under which an access to an address is the one to its set, tag and byte.
- `CacheInclusion`: two caches on the same trace, one line per set apart; the
  assumption `SmallerAssumption` leaves the smaller one a line.
- `Cache_proofs`, `CacheInclusion_proofs`: theorems.

**Huffman**

- `Huffman`: counting, leaves, the queue with every order of ties, merging. An array
  place of the sequence `nodes` is a pointer, 0 is `NULL`.
- `BitsIO`: the bit file. `stdio` holds bytes accepted by `fputc`, `disk` those that
  got there. `fopen` and `fputc` may fail; `fprintf` may leave the tree cut anywhere
  while the bits that follow it are written; the last bytes may be lost at `fflush`
  or `fclose` (`lost` records it). The code looks at the results of the first two
  only. Where the cut is, is chosen when the file is closed, as nobody reads the
  file before. `Pow2` is a recursive function as the provers do not know `2^n`.
- `Hzip`: `huffc`, then `huffd`. The text of the tree is its two `#` and its
  records, without the characters that spell a record. Crashes through a null
  pointer are the end "crashed", a decoder that never leaves its loop the end
  "endless". `huffd` behind a cut text reads bytes of bits: one that is a `#`
  (`HashByte`) ends the tree, any others are taken not to spell a record, which
  would take a digit, a blank and more.
- `MCHzip`: the files. `Hzip_proofs`: theorems.

**The others**: `WordSet` (the chain; an address of a cell is the node it belongs
to, or `HEAD`), refining `WordBag`; `WordFreq` (both programs) and `MCWordFreq`, with theorems in
`WordFreq_proofs`;
`ListBoundedIntSet`, refining `RecentInts`, with theorems in
`ListBoundedIntSet_proofs`; `CountStrings` and `MCCountStrings`.

**Classification window**: `Pad` has the mouse handlers, the first paint and the
timer, an action each. The window's 240 pixels include the title bar, so the pad has
any of the heights in `Heights`; the image is as high, `getImage` scales it to one
pixel for each cell, and the last row of cells may be there in part. `Classify` has
the functions of `Computations` that the window calls, as operators over a table, in
the order of their loops. `Doubles` has the doubles: every product, sum, difference
and quotient is rounded to `Precision` bits, half to even, and loses bits and then
becomes 0 below the least ones, as IEEE 754 says. `Window` puts them together: the
bars of the chart are the posteriors for the picture shown. `classify` and
`fastClassify` are not modelled, as only `Tests.java` calls them.

**Rio**: `Rio` has a writer and a reader with one action for each `read(2)` and
`write(2)` and each copy out of the internal buffer. A byte is its place among the
bytes written, so a byte lost, doubled or moved is seen. Each of `read` and `write`
may move fewer bytes than asked for, be interrupted while it blocks, or fail. A
connection is read either with `rio_readn` or through a `rio_t`. After a failure the
`rio_` functions return and the `Rio_` functions end the process. `ByteStream` is
the abstract specification: a write is accepted in pieces, a read is answered in one
step. `Rio` ends with the refinement mapping: the stream's queue is what the call
has read, what the `rio_t` holds back and what is in the kernel. `Rio_proofs`:
theorems.

Definitions named in comments as mutants are never part of a specification. Each is
a plausible bug, and the property it stands for is violated when it replaces the
definition it is next to.

## Runs

| Run | Module, configuration | Question | Bounds |
|---|---|---|---|
| `bank_alone` | MCBank | Does the bank do right by any client, also with foreign ATMs, unknown commands, negative amounts and overflow? | 2 ATMs, 1 account, ints of 3 bits, 15 different messages, 4 sent |
| `twriter_traces` | MCBankSim, MCTwriter.cfg | Is every execution on a normal trace a ledger, in trace order, and does it end? | 2 ATMs, 2 accounts, pipes of one message, 48 traces with two transactions competing for a balance of 5 |
| `odd_traces` | MCBankSim, MCOdd.cfg | What remains true on traces `twriter` never writes, with failing `fork` and `open`? | 2 ATMs, 11 traces, pipes of 2 |
| `balance` | MCBankSim, MCBalance.cfg | Is BALANCE answered for the account asked? (it is not) | one trace |
| `no_active_atms` | MCBankSim, MCNoAtms.cfg | Does the bank stop when no ATM is active? (it does not) | one damaged trace |
| `cache` | CacheInclusion, MCCache.cfg | LRU with exact counts, and inclusion | 2 sets of 3 and of 2 lines, 4 tags, blocks of 2 bytes, 6 accesses |
| `words` | MCWordFreq | Does the chain behave as a frequency table for both programs and any client? | input of 6 characters, 3 nodes, frequency 3 (2 for the client) |
| `int_set` | ListBoundedIntSet, MCIntSet.cfg | Is the chain the last three values? | 5 values, 3 nodes, every initial array |
| `hzip` | MCHzip | Is the tree optimal, does the file come back, and what if writing it fails anywhere? | files of up to 4 characters of 5, and runs of up to 2 of each; 3-bit bytes, 1 being `#`; all four faults |
| `count_strings` | MCCountStrings | Are all occurrences counted that do not cross a cut? | inputs of 7 characters, buffer of 4, 5 tables |
| `window` | Window | Where can ink come from, does the chart catch up, and do its bars tell the digits apart in spite of rounding and underflow? | 2x2 cells of 2x2 pixels, 2 pixels beside the pad, heights of 2 to 4; 2 digits, table entries 5, 44 and 46 of 128, doubles of 6 bits down to 2^-13 |
| `rio` | Rio | Is a descriptor with the Rio functions at its ends a stream of bytes, and does every call return? | 5 bytes with 2 newlines, an internal buffer of 2, a kernel buffer of 3, requests up to 4, 2 signals, 2 errors |

Why the bounds are enough to meet the interesting cases:

- Two ATMs contend for one balance, with pipes of one message so that writers
  block on each other. A 3 fits into a starter deposit of 5 once and not twice, so
  the funds check decides. Ints of three or four bits overflow within two deposits.
- A set of three lines is the least in which a node can be first, in the middle and
  last; four tags make a conflict; six accesses fill a set, evict, and hit in every
  position.
- Bytes of three bits hold two bits of data, so that codes end at every position of
  a byte. Five characters are four ordinary ones and byte 255; frequencies up to
  two give trees of depth three and ties at every merge. A queue of five, the number
  of characters, stands for 256 entries for 256 characters.
- Three nodes are a first, a middle and a last one for the lists.
- The buffer of `count-strings` holds three characters, fewer than lines have and
  equal to the longest string searched for.
- In `window` heights of 2, 3 and 4 are a pad that lacks a whole row, one that ends
  in the middle of a row, and one without a title bar. With 6 bits the difference of
  1 and 5/128 is rounded, as are products; 44 and 46 are so close that rounding does
  hide in some tables which digit is likelier; four pixels of 5/128 underflow. The
  tables are all those in which the white image of some digit is twice the least
  double that has all bits or more, as in `Model`: every entry there is at most
  0.112, so a white pixel lowers every product, and for the white image the best
  digit has 4e-266, while digit 1 has 1e-369.
- In `rio` a request is larger than the internal buffer and than the kernel's, and
  smaller; lines are one, two and three bytes, the last without newline, and longer
  than the room for them; two errors can hit the same call before and after a
  signal. A size of 0 is left out (each function returns at once), and a `maxlen` of
  1 too: the code then stores no byte and returns 1.
- In `hzip` the `HashByte` 1 is a byte that can follow the text, as a full byte of
  bits.

Deadlock is left unchecked where the program may stop or where a bound ends the
run: the bank without ATMs that exit (`bank_alone`, `odd_traces`), the end of an
address trace (`cache`), a connection whose reader has left and whose writer has
closed (`rio`).

## What the runs show

**Bank.** The protocol is strictly request and reply (`OneOutstanding`,
`ReplyAnswersCurrent`): replies carry no request id and none is needed. Each ATM's
commands are executed once and in trace order (`ExecutedInTraceOrder`). Money is
conserved up to the wrap of an int (`Conservation`) and only a negative amount or an
overflow overdraws (`NoOverdraft`). The simulation implements `Ledger`. The bank
closes exactly at as many EXITs as there are ATMs, whoever sent them
(`ClosesAtLastExit`); on a trace as `twriter` writes them, this is when no ATM sends
any more (`ActiveCountExact`), and every process ends
(`Completion`).

**Cache.** The walk over the queue may stop at a free line because used lines are
always before free ones (`UsedBeforeFree`). The cache implements LRU with the right
counts (`LruImplemented`), never shows accessed bytes left over by `malloc` or by an evicted
block, and a larger cache never misses where a smaller one hits (`Inclusion`).

**Huffman.** In every order of ties the tree is optimal, has all nodes once, and the
queue always has a free entry. The last follows from a defect: byte 255 is taken for
the end of the file, so at most 255 characters are counted. What the file, `stdio`
and the byte buffer hold are the bits of the characters read (`FormatHolds`). The
list of nodes that `tree_deserialize` keeps may hold nodes it should have removed,
yet every record finds its children: `huffd` returns the file, or a beginning of it
when the end did not reach the disk (`RoundTrip`). A tree that is not all in the
file is reported by `huffd`, unless the byte behind it looks like the missing `#`
(`Misread`): then `huffd` may write other characters, crash, or, when the record at
the head of its list is a leaf, decode for ever (`BothEnd`).

**Window.** The pad inks only cells under the pointer or where it was one event
before (`InkFromPointer`). Under every title bar the chart at last shows what is drawn in each
cell that is whole on the pad, although the image is scaled unevenly
(`ChartCatchesUp`). The bars of the chart are then posteriors for the
drawing (`ChartTellsDigits`): none is 0/0, they add up to 1 but for rounding, and of
two digits the likelier has the higher bar, unless they are so close that the
roundings of their two bars can hide it. `Roundings` counts these, `4n + 4` for `n`
pixels, each by at most half a unit in the last place; for the 144 pixels and 53
bits of the code that is a relative difference of 6.5e-14. Digits closer than this
may change places or tie on the chart, and which of them then wins is left open.

**Rio.** Short counts, signals and any mixture of `rio_readnb` and `rio_readlineb`
lose no byte, double none and keep the order; a call has less than was asked for
only at the end; one that fails loses what it had read itself and nothing that
another call is still to get, neither in the internal buffer nor in the kernel
(`StreamImplemented`). Every call returns (`CallsReturn`).

**The others.** The move to the front keeps the chain whole although the cell found
may be the head field itself (`ListIsTheSet`), no operation moves another word
(`OthersKeepOrder`), the counts of `wordfreq` and `wordfreq-fast` are the same and
those of the whole words of the input (`CountsOccurrences`), and only the order
differs (`ListedInOrderOfUse`). The Java set's nodes only move around.

### Findings

- `balance`: `bank()` answers BALANCE with `accounts[i]`, the index being the ATM's
  (`bank.c:223`), after validating the account asked for. With more ATMs than
  accounts this is a word past the array.
- `no_active_atms`: an ATM that gives up at an unknown command sends no EXIT. The
  bank waits for ever and the parent with it (`bank.c:248`).

The models also contain these deviations as the code has them, and the properties
above exclude them by name: a file with byte 255, or with one distinct character,
crashes `huffc` or `huffd` (`CrashesOnlyOn`; `huffman.c:76`, `tree.c:299`); `fgets`
reads 999 characters where a comment promises a line of 1000 (`CountsOccurrences`,
`count-strings.c:49`); a drag inks the cell of the event before (`InkFromPointer`,
`PadDraw.java:49`); `wset_free` frees one node (`wset.c:90`); `encoder_encode` and
`bits_io_close` do not notice a tree or last bytes that could not be written
(`Misread`, `lost`; `bits-io.c:340`). Outside the models are: an empty search
string, for which `strstr` never fails (`count-strings.c:58`), geometries without
set bits, whose shifts reach the width (`bits.c:11`), and the number
`rio_readlineb` returns, which is one more than the bytes stored when they do not
end in a newline (`csapp.c:645`).

## Fairness

- `BankSim!FairSpec`: weak fairness of the parent, the bank and each ATM. They are
  processes of an operating system that schedules each one that can run. A blocked
  read or write is a disabled action, and weak fairness is enough because once an
  ATM's or the bank's action is enabled nobody but itself, or another writer of the
  same pipe, disables it; each ATM writes only its own few records, so others cannot
  keep it from the pipe for ever.
- `Hzip!Spec` and `CountStrings!Spec`: one thread that never waits, `WF(Next)`.
- `Window`'s `Spec` (of `Pad`): the first paint and the timer of 500 ms are delivered
  again and again by the event thread. The mouse is under no fairness: nobody has to
  use it.
- `Rio!Spec`: weak fairness of the writer and of the reader, two processes. It also
  says what the callers do, as the functions are a library: the writer goes on until
  it closes, or ends and so closes, and the reader reads on, or ends, on which the
  writer's `write` fails. That a signal comes only so often is the bound
  `MaxSignals`; signals for ever would keep the loops busy for ever.

No other specification needs fairness; their properties are safety.

## Proofs

The theorems hold for every value of the constants that satisfies the named
assumptions: any number of ATMs and accounts, any pipe capacity, any width of int,
any set of traces and faults; any geometry, trace, and content of fresh memory; any
number of characters, room in the queue and set of files; any capacity of the Java
set; any words, calls and input of the word frequency programs, and any nodes that
`malloc` may return; any bytes, buffer sizes and requests of the Rio package. All are
theorems about the specification that the runs check. The run `words` checks two
clients of the word set at once; the theorems about the set are about any client
(`WordSet!Spec`), those about the programs about `WordFreq!MainSpec`. The lemmas about the bank are
about `BankMoves`, its steps with whatever writes into its pipe, so that they hold
of it in the simulation (`Spec`) and with any client (`AloneSpec`).

| Theorem | States | Rests on |
|---|---|---|
| `TypeCorrect`, `OneOutstandingHolds`, `BankNeverFailsHolds` | `TypeOK`, `OneOutstanding`, `BankNeverFails` | `ProtocolInv` |
| `NoOverdraftHolds` | `NoOverdraft` | the types |
| `ParentExitsLastHolds` | `ParentExitsLast` | `ReapInv` |
| `LedgerIsImplemented` | `LedgerImplemented` | `ProtocolInv`, `BankUnopened`, `RepliesTolerated` |
| `ReplyAnswersCurrentHolds` | `ReplyAnswersCurrent` | itself with `ProtocolInv` |
| `ExecutedInTraceOrderHolds` | `ExecutedInTraceOrder` | itself with `ProtocolInv` |
| `FirstComeFirstServedHolds` | `FirstComeFirstServed` of `BankAlone` | itself with `QueueInv`: the messages written are those read, then those in the pipe |
| `AloneConserves`, `AloneClosesAtLastExit`, `AloneNoOverdraft` | `Conservation`, `ClosesAtLastExit`, `NoOverdraft`, of `BankAlone` | `AloneInv`: `Balanced`, `CountInv` and the types |
| `ClosesAtLastExitHolds`, `ActiveCountExactHolds` | `ClosesAtLastExit`, `ActiveCountExact` | `CountInv`, `ExecutedInTraceOrder` |
| `ConservationHolds` | `Conservation` | `Balanced` |
| `CacheTypeCorrect`, `QueueHoldsEveryLine`, `UsedLinesComeFirst`, `TagsAreUnique` | `TypeOK`, `QueueIsPermutation`, `UsedBeforeFree`, `NoDuplicateTag` | `LruInv` |
| `LruIsImplemented` | `LruImplemented` | `LruInv` |
| `InclusionHolds` | `Inclusion` | `StackInv` |
| `QueueHasRoomHolds`, `ForestOfAllNodesHolds` | `QueueHasRoom`, `ForestOfAllNodes` | `HuffInv` |
| `FormatHoldsAlways` | `FormatHolds` | `FileInv`, `HuffInv` |
| `CrashesOnlyOnThese` | `CrashesOnlyOn` | `CharsInv`, `ListInv`, `FileInv`, `HuffInv` |
| `RoundTripHolds` | `RoundTrip` | `DecodeInv`, `ListInv`, `FileInv`, `HuffInv` |
| `OptimalTreeHolds` | `OptimalTree` | `CostInv`, `HuffInv` |
| `NodesMoveAroundHolds`, `RecentIsImplemented` | `NodesMoveAround`, `RecentImplemented` | `ChainInv` |
| `StreamIsImplemented` | `StreamImplemented` | `RioInv` |
| `WordSetKept`, `WordsKeepOrder`, `WordSetIsBag` | `ListIsTheSet`, `OthersKeepOrder`, `BagImplemented` | `SetInv` |
| `WordsAreCounted`, `WordsAreInOrder` | `CountsOccurrences`, `ListedInOrderOfUse` | `MainInv` |

**`BankSim_proofs`** proves `Spec => []ProtocolInv`. `OneOutstanding` is not
inductive by itself. That an ATM gets its own reply needs that messages in the
bank's pipe carry the id of their sender (`RequestsUnderWay`), that a process not
yet forked has nothing under way (`NotYetForked`), and the types. `BankNeverFails`
is part of the invariant as the bank's failing branch would end the discipline.
There is a lemma for the steps of an ATM, of the bank and of the parent, under each
a step per action. The lemmas `InPipeAfterSend` and `InPipeAfterRead` say how the
messages of one ATM in the pipe change. From the invariant follow `TypeCorrect`,
`OneOutstandingHolds` and `BankNeverFailsHolds`.

`NoOverdraftHolds` is an action property, proved from the types alone: the lemmas
`WrapIdentity`, `DebitCovered` and `CreditFits` say when the wrap of an int does
nothing, and each command is a case. `ParentExitsLastHolds` uses `ReapInv`: the
parent has not reaped more children than have exited, unless all have. It argues
over the cardinality of the set of children.

**`Cache_proofs`** proves `Spec => []LruInv`, with `LruInv` the conjunction of the
types, `QueueIsPermutation`, `UsedBeforeFree` and `NoDuplicateTag`. None of the last
three is inductive alone: that a conflict miss does not load a tag held elsewhere
needs that the walk has seen the whole queue, which needs the permutation; that a
cold miss does not needs that free lines are last. One lemma describes the move to
the front, another any access that ends at node k, and hit, cold and conflict miss
are three cases of it.

In the refinement to LRU a set's list of blocks is the beginning of its queue, up to
the first free line. Each access is a lemma: a hit and a miss move or bring one block to the
front (`HitImplements`, `MissImplements`), and `Without` on the list is the move on
the queue.

For the refinement of the ledger `BankSim_proofs` shows that `Init` maps to `LedgerInit` and that every step
of `BankSim` is a step of `Ledger` or changes nothing there: a send is an ask, the
bank's answer is the execution, the ATM's receive the collection, all else a
stutter. `ProtocolInv` tells that the request the bank holds is the pending order of
its ATM; `BankUnopened` that the ledger's books are empty until `bank_open`;
`RepliesTolerated` that an ATM understands each reply as the verdict it is.

`ExecutedInTraceOrder` equates two sets of positions, those of an ATM in the list of
what was served and those of its own records in the part of the trace it has
settled; serving adds one to each. `CountInv` adds to `ClosesAtLastExit`, which is
not inductive, that the count is looked at before every request. `ActiveCountExact`
follows from both without an induction of its own: on a trace as `twriter` writes
them, an EXIT served is the ATM's last record, so that the EXITs and the ATMs
that left are as many (`ExitsCountAtms`). `Conservation` says that money agrees modulo the
range of an int; `Balanced` says by how many turns, which is what one wrapping
addition changes by at most one.

**`CacheInclusion_proofs`** needs more than `Inclusion`, which would be lost at the
first eviction: the tags of the smaller queue are the beginning of the larger one,
node for node (`SameOrder`). It uses the lemmas of `Cache_proofs` for both caches, for
the smaller one through `INSTANCE`.

**`Hzip_proofs`** proves `Spec => []HuffInv` by way of the fact that the rest of
`huffc` and `huffd` leaves the tree and the queue alone (`HzipBuildsStep`).
`QueueHasRoom` rests on the defect named above: `table[CharEOF]` stays 0, so there are
at most as many nodes in the queue as characters before the last.
`ForestOfAllNodes` needs that no node is dropped (`QueueHasRoom`), that whatever `qsort` does the queue holds the same nodes, each
once (`Enqueued`: a surjection between sets of one size is an injection), and that
children come before their parent (`Grown`), so that the recursion of `Below` ends and
a new node changes no tree there is (`TreesExist`, `BelowAgree`).

`FileInv` says what the file holds at each stage: the text of the tree, whole or cut;
bytes that have a marker and at least a bit (`Marked`); and, as long as `huffc`
writes, that the bits of those bytes, of the byte buffer and those still to be
written are the code of what was read (`Writing`). The lemmas on a byte say
that the number of its bits can be read off its leading ones (`LeadingOnesIs`), that a
shift adds one bit and moves none, and that a byte is full exactly when its top bit
is 0. That every character read has a code is `CharsInv`: the leaves are those of the
characters counted, so a character without one is behind byte 255.

`CrashesOnlyOn` needs the list of `tree_deserialize`. `ListInv` says that every record
read whose parent has not been read is in the list, and the list has two nodes at least
from the third record on. It is kept because children come before
their parent in the text (`PostOrder`) and have one parent each (`OneParent`), and
although `Unlinked` may leave nodes in the list: of two neighbours it removes only
the first. So the list has a single node only behind the first record, where only the
tree of a single leaf ends, or a tree that was cut.

`RoundTrip` is true of states far from each other, so `DecodeInv` has to say what
`huffd` knows half-way. While it reads the tree, every record is the node `huffc` had
(`RecordRead`; its children are found by `ChildrenListed`), so that behind the last one,
the root's, the trees are the same (`TreeRead`). While it decodes, the output is the
first q characters, and the bits read lead from the end of their code to the node where
`decode_one` stands (`Toward`): the bits still missing are a path from there to character
q + 1. That no bit is left out or read twice is `AtBit`: the bits read and those left in
the byte are the bits of the bytes read (`NextBit`), where the one behind the last bit
tells how many are left (`Left`, `BitTaken`), and aligning a byte of the file puts it
there (`Loaded`). The codes need not be compared with each other: each bit read is the
next one of the code in the file (`FileInv`), and an inner node has a child for it on the
path (`OneDown`).

`OptimalTree` compares the tree built with every other one. The least cost of a set
of nodes is not computed in the proof but characterised: no division of the set among
two trees costs less, and some division costs that much (`Leasts`); such a function is
unique (`LeastsAgree`), and `LeastCost` is one (`CheapIsLeast`). By induction on
subsets, a lighter leaf in the place of another makes no tree dearer (`LighterLeaf`);
so the two lightest can be brought together at no cost, by an exchange of a leaf
(`LeafMoved`) or of two trees (`TreesMoved`), and a single leaf in their place saves
their weight (`LightestJoined`), never more (`LeafDivided`). With the queue sorted, the
frequencies of the internal nodes and the least cost of what is in the queue are
together always the least cost of the leaves (`CostInv`, `StaysBalanced`).

**`ListBoundedIntSet_proofs`** numbers the nodes in the order of the list: `ChainInv`
says that there is a numbering that the links follow, in which distinct values come
before the empty nodes. A pull to the head renumbers the nodes (`Pulled`). That the
list ends and loses no node is the first theorem; that what it holds are the recent
ints, the last first, is the second.

**`WordFreq_proofs`** numbers the cells of the word set from the head field on.
`SetInv` says that the links follow a numbering, each cell once, that the nodes in
it hold different words and are all that is allocated, and that the size field is
their number. It is needed as a whole: that an addition finds a word that is there
needs that the chain is not cut, and that a removal leaves no node behind needs
that no word is there twice. `ChainIs` and `SearchStops` say what the recursive
`chain` and `search` are in terms of the numbering. The four ways to relink the
cells are a lemma each (`RunsWithLast`, `RunsWithFirst`, `RunsWithout`,
`RunsInFront`); `Moved` says where a step puts the nodes of the other words, and
`OthersStay` draws both conclusions from it, on the order and on the frequencies.
`MainInv` adds what has been read: the program stands at the start of the input, at
its end or behind a character of no word, each word has been counted as often as it
occurs before that place, and the list has the order of use. `WordFound` and
`OnlyThere` are the two halves of the argument that a call of `words_next_word` takes
exactly one whole word: the one at the place found, and no other.

**`Rio_proofs`**: `RioInv` says what the buffer still has, and that a call in progress
has not enough yet. Moving bytes between the call, the `rio_t` and the kernel then leaves
the stream's queue as it is, and the step that ends a call is the stream's read.

Induction. The library's induction theorems take a predicate, which the provers
cannot instantiate; `NatInductionOnSets` states the principle for a set of
numbers and follows from well-foundedness (`WFMin`). With it the recursive functions
`SumTo`, `Below` and the chains of the two sets are proved about, and what `Min` and
`Max` choose, the powers `Pow2`, what `FlattenSeq` puts together (`Together`), and
the paths and records of a tree (`Routes`, `Orders`).

**Only model-checked**: all liveness (`Completion`, `BothEnd`, `Returns`,
`ChartCatchesUp`, `ChartTellsDigits`, `CallsReturn`), as fairness and ENABLED are
beyond the prover; count-strings, the window and the classifier, where nothing is
proved yet.

## Plan

Order of the work: the bank simulation first, as the only concurrent program, then
the cache, Huffman and the lists, then the small programs, then the Rio package and
the failures of writing. These are modelled. What is left:

1. Models: `classify` and `fastClassify`, which only the tests call; the `-1` of a
   read error in `atm_run`, which repeats the record before and needs a bound on what
   the bank serves; compressed files that `huffc` did not write; what happens to the
   nodes `wset_free` leaves (`wset.c:90`); geometries whose shifts reach the width
   (`bits.c:11`).
2. Proofs: `InkFromPointer` of `Pad`.
3. Abstractions worth stating: what a compressed file is, apart from how it is
   written; a bank without the trace.
