# Verification of VUT-projects in TLA+

The repository holds the course projects of one student at VUT FIT, about 9,500
lines of C in programs that share nothing with each other. This directory models
those whose correctness is hard to see by reading or testing, checks the models
with TLC on small instances, and proves the most important results with TLAPS
for every value of the constants. Paths below are relative to the repository.

## Inventory

| Component | State | Operations | What is hard | What makes it correct |
|---|---|---|---|---|
| Ski-bus simulation, `1/IOS/2-project/proj2.c` | shared memory: seven kinds of POSIX semaphores, a line counter, skiers per stop, transported skiers; private: the bus's stop and seats, each skier's stop; the output file | processes `lyzars` (one per skier), `skibus`, `main` (fork, wait, kill on failure) | every interleaving of L + 2 processes; counters without locks; the gate held across a loop that waits for others; fork failing half way | counters exact, no race, nobody left behind who fits, lines in a legal order and numbered 1, 2, ..., everyone skis, semaphores destroyed after their last use |
| Chat client over UDP, `2/IPK/1-project/src` | FSM state, message id, display name, the socket | `/auth`, `/join`, message, `/rename`, SIGINT; CONFIRM, REPLY, MSG, ERR, BYE from the server; confirm timeout and retransmission | loss, duplication, reordering; a message arriving while a confirm is awaited; SIGINT inside a send | a message is acted on once; ids are unique; no message is dropped silently; Open only after the server accepted |
| Chat client over TCP, same files | FSM state, stream | the same commands as lines of text | several messages in one read, a message in two, a call that fails, close by the peer | what is acted on was sent, in order and once; a BYE ends the program |
| Port scanner, `2/IPK/2-project/src` | the retry flag, the port loop, the captured packets | one probe, one retry, classification of the answer, for TCP then UDP | an answer after the timeout; the flag's value carried from port to port; a port without any report | every port gets one verdict, the verdict is that of its own answers, a silent port is probed twice |
| Character queue, `2/IAL/1/c203.c` | ring array, first and free index | init, add, remove, front, get | wrap-around, full and empty | the ring is a bounded FIFO of QUEUE_SIZE - 1 places |
| Linked lists, `2/IAL/1/c201.c`, `c206.c` | links and the active element | insert, delete, move, read, at either end and around the active element | the order of pointer assignments | forward and backward walks agree, the active element is in the list or undefined |
| Hash table, `2/IAL/2/hashtable.c` | chains | insert, search, get, delete, delete all | synonyms in one chain | a map from keys to values |
| Binary search tree, `2/IAL/2/btree-*.c` | nodes | insert, search, delete, dispose, traversals, recursive and with an explicit stack | deletion of a node with two children; the two variants agreeing | a sorted tree that is a map; the iterative variant does what the recursive one does |
| Compiler symbol table, `2/IFJ/symtable.c`, scopes in `parser.c` | table of chains that doubles, stack of the ids of open scopes | insert, search, remove, grow, enter and exit a scope | rehashing while chains are relinked, duplicate keys, ids of closed scopes | a map; a name resolves to the innermost open scope that declares it |
| Compiler memory, `2/IFJ/utils.c` | list of live allocations | allocate, reallocate, free, clean up | list growth; a pointer left in the list | cleanup frees each live block once |
| Compiler scanner, parser, generator, `2/IFJ/*` | the token stream, AST | one pass over the input | the language | the text generated |
| Clustering, `1/IZP/2-project/cluster.c` | array of clusters of objects | load, find nearest pair, merge, remove | the pair of indexes used after it went stale | objects are never lost; the pair merged is a nearest one |
| T9 search, `1/IZP/1-project/t9search.c` | one contact at a time | scan, match | - | the matching contacts are listed |

Interactions: the programs do not interact with one another. Inside the ski-bus
program everything goes through semaphores and shared memory; inside the chat
client through the socket, `epoll` and a signal handler; the rest is sequential.

## Modules

### The ski-bus simulation

`Skibus.tla` is the whole of `proj2.c`: `pc[p]` is the point of the program a
process has reached, the semaphores are numbers tested and decremented in one
step (`SemWait`, `SemPost`), and the other variables carry the names they have in
the code. A step is one semaphore operation, or one access to a shared counter
together with the `sem_post` that follows it. Making `++` on a counter one step is
justified inside the model: `NoDataRace` says that no other process is at an
access to the same counter at that time. Printing a line is two steps, taking the
output semaphore (`LockOutput`) and releasing it with the line written
(`Printed`, a part of each `Print...` action), so any process can move while
another prints. `main` forks the processes one by one, while those it has forked
already run; a fork may fail, and its error path kills whoever its loop reaches.
`TL = 0` is accepted by the argument check, so the models include the division
by zero it leads to (`proj2.c:118`, `:187`): bus and skiers die of it, although the program's
README allows the value.

`SkiLog.tla` is the abstract specification: what a reader of `proj2.out` may rely
on, with neither processes nor semaphores. Its actions are the lines of the file.
`Skibus` implements it under the mapping `LoggedSkier`, `LoggedBus`, `LoggedNext`
(`ImplementsLog`), where a process is where its last printed line puts it.

`OutputFile.tla` looks at one printed line at a finer grain: reading the shared
counter, storing it, and writing the line are separate steps, and a process may
be killed between any two. `Numbered` is that line i carries number i. This is
also what lets `Skibus` treat a printed line as one step. It is one of the parts that
the run `components` checks (below): three processes, four lines.

| Run | Instance | Shows |
|---|---|---|
| `skibus` | 3 skiers, 2 stops, 2 seats | the inductive invariant, the gate, exact counts, no race, right decisions, safe destruction, refinement of `SkiLog`, with a failure possible at every fork; and when every fork succeeds, every skier skis and main exits |
| `skibus_zero_sleep` | TL = 0 | no process dies inside the gate |
| `skibus_fork_failure` | 2 skiers, 1 stop | counterexample: a failed fork makes main signal process -1, i.e. everybody |

Bounds. Three skiers and two seats are the least that make a full bus leave
somebody behind at a stop, so that a second round takes place with a skier
standing at one stop while others arrive at another. The program asks for
10 <= K <= 100; the model takes any positive capacity (`ArgumentCheck`) because a
bus for ten would need eleven skiers before it is ever full, and nothing in the
code depends on the value. `TL` matters only as zero or not zero. `MaxLines`
bounds the lines of `OutputFile`; the theorem about it holds for any bound.

Fairness. `FairSpec` lets main, the bus and each skier keep running (weak
fairness, what the scheduler gives a runnable process). Strong fairness is
assumed for a skier's wait on the output semaphore and on the gate: the bus
returns to both again and again, but it sleeps at least a microsecond
(`usleep(rand() % TL + 1)`) between two visits to the gate, and for glibc's
semaphores a waiter that is woken there finds it free. Nothing strong is assumed
of the bus, nor of a skier's wait for its stop, for boarding or for the terminus;
in these cases one process at a time is called.

What is proved. `SkibusProofs.tla` proves, for any numbers of skiers, stops and
seats, that `IInv` is inductive, and from it every safety property of the run
above and the refinement of `SkiLog`. None of the properties is inductive alone.
The exactness of the counts needs to know that the skier called is one of the
bus's stop, which holds because the token that calls it is in exactly one place,
the stop's semaphore, the skier's hands, or `boarding` (`BoardingInv`; `TerminusInv`
is the same hand-over at the end of the line). That the bus never exceeds K needs
its private seat count to be the number of skiers aboard up to the one who is
moving (`SeatsInv`), which needs both hand-overs; and that main may destroy the
semaphores when the bus ends needs the shared count of transported skiers to be
the number of skiers who have made their last step (`TransportedInv`).
`OutputFileProofs.tla` proves its `IInv` and `Numbered` in the same way. The only assumptions are
`ArgumentCheck` and `MaxLinesAssumption`; TLC evaluates both.

Only model-checked: `EverySkierSkis` (liveness is out of the prover's reach).

Not modelled: `sem_destroy` on main's error path while children wait on the
semaphores (undefined in POSIX, without effect in glibc); `mmap` failing (its
result is compared with NULL, not MAP_FAILED); the time slept; the parameter `TB`,
which the program reads and checks but never uses; the bound L < 20000 of the
README, which the program does not check.

### The chat client over UDP

`ChatUdp.tla` models the client of `2/IPK/1-project/src` when started with `-t udp`:
the state machine of `main` (`Fsm`), `ReadEvent` (`Command`, `SocketMessage`,
`SocketConfirm`), `udp_send` with its wait for a CONFIRM and its loop of
retransmissions (`InSend` and its parts, `Retry`, `Return`), what `decode_msg`
confirms and displays, and the SIGINT handler. A step is one return of `recv`,
`recvfrom` or `epoll_wait`, with everything the program does until it waits again;
these are the points at which packets and signals can be told apart. `call` is the
frame of the `udp_send` that is running: what it sends, its `cnt`, its
`msg_out_ctrl` (`out`) and its `event`. It has one place only, because the handler's
`udp_send` never returns to the one it interrupted: it exits. The texts of messages,
display names and malformed input are abstracted; a message id on the wire is
computed as the code does it, with the two places where it goes wrong (`WireId`: the
id of AUTH is stored one byte too far, `input_parse.c:93-96`; the first bytes of the
client's own ERR are overwritten by text, `main.c:206-214`).

The server and the network are outside the repository. A packet that was sent stays
in `toServer` or `toClient`: it may be received never, late, many times and in any
order. The server follows the protocol that the client's README names: it confirms
what reaches it, acts once on each id, speaks unasked only after it accepted an AUTH,
and moves to a port of its own after the first AUTH.

| Run | Instance | Shows |
|---|---|---|
| `chat_udp` | 3 commands, 2 server messages, 1 retransmission, byte of base 2 | open and sending JOIN or messages only after acceptance; ids advance only over ids the server received; `udp_send` ends; error and SIGINT lead to the exit |
| `chat_udp_event_lost` | as above | counterexample: an accepted AUTH is forgotten |
| `chat_udp_duplicate` | as above | counterexample: a message is displayed twice |
| `chat_udp_late_confirm` | as above | counterexample: a late CONFIRM ends the session |

Bounds. `Base`, the values of a byte of the id, is 256 in the program; with 2 there
are four ids, so three commands reach the high byte, and an AUTH's misplaced id
differs from the one its CONFIRM is compared with. One retransmission separates the
first wait from the loop; `MaxOut = 3` is the program's limit of 20, small enough to
be reached when messages keep arriving in the loop. Two messages of the server are
the REPLY and one that overtakes or overwrites it. `SendMayFail` lets a `sendto`
of the loop fail.

Fairness. `FairSpec` asks only that a running `udp_send` goes on (`InSend`: `recv`
has a timeout) and that the error state acts. Neither network, server nor user has to
do anything. `TimeoutSet` is TRUE in the runs: with `-d 1000` or more `setsockopt`
refuses the value (`main.c:332` puts all of it into `tv_usec`), the program prints an
error and goes on without a timeout, and then nothing bounds the wait.

What is proved. `ChatUdpProofs.tla` proves, for all values of the constants, that
`AcceptedInv` is inductive and `OpenOnlyAfterAccepted`, `NothingBeforeAccepted` and
`ConfirmedIdsWereSeen` with it. That the client is open only after acceptance is not
inductive: the acceptance travels in a packet, then in the `event` of a call, and
what may be sent is decided at the beginning of a call that keeps sending later, so
all four places are in the invariant. `ConfirmedIdsWereSeen` needs that every CONFIRM
under way is for an id that the server has seen. `ChatTyped` is type correctness. It
too needs a strengthening: an id the server has seen is one the client can have, so a
command or a BYE under way must carry such an id, although a packet in general may not
(`PacketsTyped`).
Only model-checked: `SendEnds` and `LeavesOnError` (liveness).

Departures the model contains and no property is stated for: a REPLY or message that
arrives instead of the first CONFIRM ends the call (`udp_send.c:63-99`, where the
comment says it goes on waiting); the id of an unconfirmed message is used again;
`server_addr` follows the server's port only in `ReadEvent` (`main.c:178`).

Not modelled: options, `/rename` and `/help` (they touch the display name only),
the texts, `epoll` and resource errors, which exit.

### The port scanner

`PortScan.tla` models the two loops of `2/IPK/2-project/src/main.c`, one after the
other over `Targets`: a probe (`Send`), the wait in `select`, and what comes of it
(`Timeout`, `Read`, `ReadFails`), with the retry flag shared by all ports (`Repeat`)
and `handle_response`. `i--` in the source's `for` loops is that `Repeat` leaves `i`
alone and `Report` advances it. The two loops are one here because they differ only
in what silence means (`Silent`) and in the packet filter. The filter is what
`send_packet` installs: it names the source port, not the port that was probed, so a
late answer is taken for the current port's, and packets that wait in the capture are
kept when the same filter is set again, dropped when the UDP filter replaces the TCP
one. `clean` is a history variable: so far no answer was late, no stranger spoke to
the source port and no capture failed. `skipped` holds the positions at which the capture
failed; `lost` and `probes` record the rest of what the properties speak of.

`ReportedInOrder` holds with late answers and foreign packets too: a port the loop has
passed has exactly one verdict, unless it is in `skipped`, and then it has none.

| Run | Instance | Shows |
|---|---|---|
| `port_scan` | TCP, TCP, UDP; one foreign packet; every host | the invariant, a verdict for every port passed except where the capture failed, at most two probes, right verdicts when clean, the end of the scan |
| `port_scan_flag` | as above, no foreign packet | counterexample: an open port called filtered after one lost probe |

Bounds. Three ports in two loops carry the flag and a late answer from a port to the
next one and from one loop into the other; the answers to two probes of each port can
all be under way. One foreign packet makes every branch of `handle_response` run.

Fairness. `select` returns, and answers that are not lost are captured sooner or
later (`WF` on the loop and on `Capture`); `ScanEnds` needs no answer to come.

What is proved. `PortScanProofs.tla` proves `ScanInv`, and from it
`ReportedInOrder`, `AtMostTwoProbes` and `VerdictsRight`, for every list of ports.
`AtMostTwoProbes` needs the number of probes of the current port to be bounded by the
flag, whoever set it. `VerdictsRight` needs `CleanInv`: while all is clean there is
at most one answer anywhere, it is the current port's, and a port that answers has
one unless it lost a packet. Only model-checked: `ScanEnds`.

Not modelled: option parsing and `ports_convert`; the packets' headers and
checksums; the sleep of a second after a closed UDP port.

### The parts checked side by side

The remaining programs and modules are sequential, small and independent of each
other. `Components.tla` runs them together: the initial state chooses which of them
steps (`component`), the others stay in their first state. One run,
`components`, therefore shows each of their properties on its own instance, and a
counterexample is a behaviour of one part only. The sections below say what each part
is; the run's bounds are in `Components.cfg`. Deadlock is not checked, because most of
these programs end.

Fairness does not occur here: each part is one thread that is called or that reads
its input, and its properties are invariants, action properties and refinements.

### The compiler

`Parser.tla` models the semantic analysis of `2/IFJ/parser.c` as a machine that makes
a program up while it parses it: every step is one more header, parameter, statement
or brace, and the recursion of `parse_block` is the stack `blocks`. Programs are right
lexically and syntactically. The first reading declares functions from their headers
(`DeclareFunction`), the second parses bodies, and at the end of the text
`is_main_correct`, `is_symtable_all_used` and the walk `scope_check_identifiers_in_tree`
decide (`Finish`). Every `error_exit` and every crash is a value of `verdict`. The type
rules are in `IfjTypes.tla`, the scope stack and the keys `name.scope.function` in
`Scopes.tla`, instantiated by `Parser`.

Facts of the code that the model keeps: `is_used` of a variable is not initialised
(any value, `Variable`); constants are assigned to like variables, although
`error.h:27` has an error for it; the name between the pipes of `if` and `while` is
entered in the scope around the statement while its declaration node is put into the
block, so that a second statement with the same name in that scope gets the first
one's symbol; every block enters two scopes; the built-in functions have no
declaration, so a name bound from one between pipes is refused by the last walk. A
program without functions, a void function with an empty body, a call with an argument
of a user's function without parameters, a `return` without a value after another one
and a name between the pipes of a comparison make the compiler read through NULL or
an invalid node: the verdict `Crash`.

`LexicalScopes.tla` is what a block-structured language means by scope, a stack of
frames. `ScopesAreLexical` says the flat table implements it, `ImplementsScopes` that
the parser enters, fills and leaves scopes only as `Scopes` describes.
`OrdinaryNamesInScope` says of the names found by their keys, those between pipes apart,
that the walk of the tree at the end of the text will find them inside the block of
their declaration. That walk is modelled by what it accepts (`ScopeError`).
`PipeNamesAreNew`, which the run `parser_pipe` refutes, is the check that `if` and `while`
make of a name between pipes: they look it up under its bare name (`parser.c:711`,
`:790`), under which no variable is ever entered. `FunctionsReturn`
takes every path through a function's statements (`Ends`) and says what the checks of
`return` guarantee about it.

`ParserMC.tla` holds the programs: six menus of headers, statements and conditions, up
to two functions and two to four statements, one menu for each difficulty (nested scopes, pipes,
conditions, calls, types, returns). A depth of 5 lets two nested blocks succeed and
the third overflow the stack.

`SymTable.tla` is the hash table of `symtable.c` with its chains and its growth,
`SymbolDictionary.tla` the partial function it implements. Five names, three of which
share a chain in the small table, and sizes 2, 4 and 8 make the table grow twice with
synonyms that part. `symtable_remove` and `symtable_free` are never called by the
compiler; they are modelled as the interface they are.
`PointerStorage.tla` is the record of allocations of `utils.c` with an allocator that
fails at any call, moves blocks and returns addresses it got back. Four blocks and a
record that starts with one entry grow it twice.

`ReturnChecks.tla` holds `check_return_types` and what it calls. They are recursive over
blocks inside blocks, and a module that declares a RECURSIVE operator cannot be proved
about, so `Parser` takes their result as its parameter `ReturnError` and `Components.cfg`
gives it `check_return_types`. The theorems about the parser therefore hold whatever
these checks answer. Of the menus the proofs assume their shape only (`MenusAssumption`).

What is proved. `ScopesProofs.tla` proves `ScopesSpec => ScopesAreLexical` for any names, functions and
depth. The invariant is that open scopes have different, increasing numbers
(`StackInv`) and that no key carries a number still to be given out (`FreshInv`):
without the second a new block could find names of a closed one, without the first an
entry would change two frames.

`CompilerProofs.tla` proves the rest, for every program that the menus can give, every
hash and every allocator.

- The record of allocations (`RecordIsRight`): until the clean-up the record lists each
  live block once and nothing else, within its capacity, and nothing was lost;
  afterwards it is empty and at most one block was lost, the one that `safe_malloc` had
  just got when the record could not grow (`OnRecord`, `AfterCleanup`). `EveryBlockOnRecord` alone is not inductive
  because it does not say that no block is listed twice.
- The parser (`ParserImplementsScopes`, `FoundNamesInScope`). Two of
  the facts it needs are about other parts of the state than the properties:
  `ScopeInv` counts the open scopes by the open blocks (a body has one scope, every
  block inside it two, and a block between its branches none), without which closing a
  block could leave another one's scope; and `NamesInv` says of every identifier in
  the tree that its key carries the number of a scope around it. Every
  expression is shown to have resolved the names in it before a statement is made of it
  (`Known`, `Named`).
- Composed with `ScopesProofs`, instantiated for the table of the parser:
  the scopes of every parsed program are nested blocks (`ParserIsLexical`).
- The symbol table (`SymbolTableRight`, `SymbolTableIsDictionary`). The invariant
  `SymInv` is that every symbol stands in the chain of its hash under the present size,
  that no name stands twice and that the count is the number of names. The growth is a fold over all cells;
  the proof describes the chains it makes by the rank of each cell in the order in which
  they are pushed (`AllPushed`), so that a chain of the new table is a
  bijection from its places to the cells that hash to it.

Only model-checked: `FunctionsReturn`, which speaks of `check_return_types` itself.

### The data structures of IAL

`CharQueue.tla` is the ring of `c203.c`, `Fifo.tla` the bounded queue. `ContainerProofs.tla`
proves `QueueIsFifo` and the refinement of `Fifo` for every `MAX_QUEUE` and every
`QUEUE_SIZE` up to it; the invariant is that both indices stay inside the part of the array
in use, and the argument is arithmetic modulo `QUEUE_SIZE` (`Ring`), which turns
"next of free is first" into "QUEUE_SIZE - 1 characters wait". The run uses a ring of
three in an array of four, so that it turns many times.

`DLList.tla` and `SList.tla` are the lists of `c206.c` and `c201.c`, cell by cell, on a
heap from which `malloc` takes any free cell or none; `CursorList.tla` is a sequence
with a cursor, and each operation of the lists is shown to be the operation of that
name. `DLL_InsertBefore` breaks the list when the active element is not the first one
(`dllBroken`): the run `dll_insert_before` exhibits it, and `DLLIsCursorList` holds up to
that point. A failed `malloc` is reported and then written through; that too ends what
is followed. Three cells make an element with neighbours on both sides.

`HashTable.tla` is `hashtable.c` on chains of items; `SearchTree.tla` holds the iterative
search tree of `btree-iter.c`, whose steps are taken, and the functions of
`btree-rec.c` as recursive operators on the same tree. Both implement `Dictionary.tla`.
`IterativeAgreesWithRecursive` compares the two variants: every traversal of every
subtree, and the tree every call leaves. `bst_delete` of the iterative variant reads
the keys of both children of the parent (`btree-iter.c:214`) and crashes when one is
missing (`BstCrash`), so that an only child cannot be deleted; the properties speak of the
calls before such a one.
Three items, three of four keys in one chain, and five nodes with four keys (an
insertion allocates before it searches) reach every branch. `btree-exa.c` has no code.

`Links.tla` is how a chain is followed: `Walk(x, next, null)` is the sequence of cells met
from `x` on, `Place` the position of a cell in it. It is a recursive function, bounded by the
number of allocated cells, so that a ring or a pointer to a freed cell has a value too.

What is proved about them. `ContainerProofs.tla` proves `SListIsCursorList`,
`DLLIsCursorList` and `HashTableIsDictionary` for any set of addresses and data, any table
size and any hash. The one assumption about addresses is that NULL is none of them
(`ListAssumption`, `DLLAssumption`, `HashTableAssumption`). That the items read by a walk
are the items of the abstract sequence is not inductive, since a walk through a
damaged chain can still look right. The invariants are about the chain itself:

- `Chain(s, x, next, null)`: `s` has no repetition, starts at `x`, and the link of each
  cell leads to the next one, that of the last to NULL. `WalkOfChain` proves that then
  `Walk` returns `s`, from which everything else can be read off `s`. A cell linked in at place p
  makes the chain `Plus(s, p, c)`, one unlinked `Minus(s, p)`, provided the links before and
  behind it were set right and no other changed (`ChainPlus`, `ChainMinus`).
- singly linked (`ListInv`): the order is a chain that covers all allocated cells, so
  nothing leaks; `currentLength` is its length; the active element is allocated.
- doubly linked (`DLLSound`): the same, and the reversed order is a chain from the
  last element by the links `prev`. `DLLInv` asks for it until `dllBroken`: as long as `DLL_InsertBefore` is called only
  before the first element and `malloc` does not fail, every operation is right. Each
  operation sets its two links in the order the code has; `DLLBothLinked` shows that the order
  does not matter once the cells are different.
- hash table (`HtSound`): every index has a chain of items that hash to it, every item is
  in the chain of its hash, no key stands twice. The chains are a witness in
  the invariant (`HtInv`), because an insertion changes one of them and the others must be
  seen not to change although they live in the same heap.

Only model-checked: `TreeIsDictionary` and `IterativeAgreesWithRecursive`; the functions of
`btree-rec.c` and the explicit stacks are recursive operators.

### Clustering

`Clusters.tla` is `main` of `cluster.c` with the functions it calls, `SingleLinkage.tla`
the clustering by nearest neighbours. For objects in the square of 1000 by 1000 every
iteration that ends unites two nearest clusters; two objects at opposite corners are
exactly as far apart as the start value of `find_neighbours`, which then leaves `c1` and
`c2` as they were: the loop appends a cluster to itself for ever (`Hangs`). A
negative second argument, which is not refused, ends there too. Outside the square the
property claims only that no object is lost. The files have up to four objects, on
neighbouring points, on opposite corners and outside of the square, with ids out of
order or double.

`ContainerProofs.tla` proves `ClusteringIsSingleLinkage` for every file of objects with
integer coordinates and every argument (`ClusteringIsRight`). The inductive invariant
`CluInv` says that the first `narr` clusters hold every object of the file, each in one
of them and in the order of the ids, and that `c1 < c2` unless both are still 0. The last
part is what makes a stale pair safe: `find_neighbours` leaves the pair only when no two
clusters are nearer than its start value, in the square none are farther, and so any two
different clusters are nearest (`ChosenPair`). Otherwise the pair the loops meet first
has the smaller index first, because the distance is symmetric (`NeighboursAreNearest`),
so that removing `c2` does not move the cluster at `c1`. `Moved` is where each cluster
goes, `ClassesUnited` what this does to the classes of `SingleLinkage`.

### The chat client over TCP

`ChatTcp.tla` models `ReadEventTcp`, `input_parse_tcp`, `decode_msg_tcp`, the state machine
and the SIGINT handler. The server sends messages of five
kinds; the stream loses nothing and keeps no boundaries. A message lies in the stream in
pieces, cut where the cut makes a difference to `decode_msg_tcp`: a message with a text
is its first word, a space, the fields up to its text, the beginning of the text, spaces
in it, and the rest with the end of the line; a BYE is `BY`, `E` and the end of the line.
A read (`ReadSocket`) returns any number of pieces and is decoded as one message:

- what follows the first message of a read is lost, and a message is displayed without
  the end of its text if the read ends there;
- a read that starts or ends too early is answered with an error message and leads to
  `Error_State`, unless that message cannot be sent: then the client stays in its state
  (`main.c:309-314`) and goes on in the middle of the stream;
- a BYE ends the program without a word, but only if the read ends between `BYE` and its
  end of line, which is part of strtok's first word otherwise (`decode_msg.c:85`, `:172`);
- a read of nothing but spaces, or of nothing at all at the end of the stream, leaves
  `strcmp` with NULL (`crashed`).

`sendto` may fail, quietly or, once the peer is gone, with a SIGPIPE that kills the program
(`SendTo`); `recv` may fail, which exits (`ReadNothing`). `tcpLog` is what was sent and
displayed, in its order.

`TcpFollowsServer` is what remains true whatever the cuts and the failures: what is
displayed was sent, in order and once; nobody joins or talks before an accepting reply was
displayed; after an error there is only the goodbye; and the client leaves without a word
only at a BYE behind all that it displayed.

`ChatTcpProofs.tla` proves it for any number of messages and reads
(`ClientFollowsServer`). The invariant needs two things the property does not mention: the
pieces in the stream are in the order they were sent (`StreamInv`), and no beginning of a
displayed message or of an earlier one is still in the stream (`ShownInv`), which a read that cuts
a message keeps because it takes the pieces from the front. `StateInv` ties the state of
`main` to the log: open only after a displayed accepting reply, no error in the log while
the client waits for events, no goodbye while it runs. That a BYE which ends the program
stands behind all that was displayed (`Dismissed`) follows from `ShownInv` at the step
that reads it, and nothing is displayed afterwards.

In the run two messages of five kinds and two typed lines are a reply, a message read with
it or cut by a read, and the AUTH and JOIN of the user. Texts that look like messages, and
lines longer than a read buffer, are left out.

### The runs of the parts

| Run | Instance | Shows |
|---|---|---|
| `components` | see the sections above | 17 properties: `IInv` and `Numbered` of the output file; scopes, names and returns of the parser; the symbol table and the record of allocations; queue, lists, hash table and tree against their abstract specifications; clustering; the TCP client |
| `parser_pipe` | the menus of `ParserMC` | counterexample: a variable declared a second time between pipes is not refused |
| `dll_insert_before` | three cells, two values | counterexample: an element inserted before the second one is not in the list |

## Not modelled

The scanner, the grammar's syntax errors and the code generator of the compiler:
their correctness is about the text read and the text printed. Expressions in the model
are at most one operator or one call deep. The port scanner's option parsing and its
packet headers. `t9search.c`, a single pass over standard input that keeps nothing from
one contact to the next.

Hazards without a property, with the reason in `PROJECT.json`: the reuse of message ids
after an unconfirmed AUTH, a late CONFIRM that such a reuse makes look right, and the
server port learned in one place only, which the UDP model has but which contradict
nothing the program states; a confirmation timeout of a second or more, for which
`SendEnds` assumes the timeout in force; and answers still under way when the scanner
changes its filter, of which no verdict is promised; and the deletion of an only child
from the search tree, which crashes.

## Plan

What is modelled came first because it is where tests reach least; the proofs followed in
the order of what a run of bounded size says least about; every property of the passing
runs that the prover can reach now has a theorem. What a recursive definition computes (`Returns`,
the traversals and the tree) stays with the model checker, as does all liveness
(`EverySkierSkis`, `SendEnds`, `LeavesOnError`, `ScanEnds`).
