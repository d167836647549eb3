# SD1617: a replicated key-value table, modelled in TLA+

The program (`src/`) is a client and a server written in C. The server keeps a hash table
in memory and answers `put`, `get`, `update`, `del` and `size`; two servers, a primary and a
secondary, keep copies of it; the client goes over to the other server when one does not
answer. There are no tests in the repository and its README is ten lines long: the code and
its comments are the only description of what it does.

## 1. Inventory

| Component | Code | State | Operations |
|---|---|---|---|
| Main thread of the primary | `table-server.c` `network_receive_send` 319-524, `update_state` 1094-1163, `lancaThread` 854-873 | the table, the mutex (its owner nearly all the time), `params`, `dadosProntos` | serve a request, hand a write over and wait, answer a HELLO, send the whole table |
| Replication threads | `table-server.c` `threaded_send_receive` 875-961, `linkToSecServer`, `secundary_send_receive` 963-1084 | the globals `server`, `isSecondaryOn`, `dadosProntos`, `params` | connect, wait for a write, send it twice at most, report |
| Roles, start-up, log files | `table-server.c` `main` 705-843, `hello`, `sendSpecialHello` 1167-1219, log functions 92-154 | `isPrimary`, `secIP`, `secPort`, `priServerFile.txt`, `secServerFile.txt` | decide on the role at the start, say HELLO, be promoted by a client |
| Poll loop | `table-server.c` `subRoutine` 526-701 | `socketsPoll`, `numFds` | accept, serve each ready socket, compress the array, nested loop after a promotion |
| Hash table, dispatch | `table.c`, `list.c`, `entry.c`, `data.c`, `table_skel.c` | lists of entries in descending order, `list->size`, `table->nElems` | the six requests `invoke` dispatches |
| Client stub | `client_stub.c`, `network_client.c` | `table->primario`, `table->server` | bind, a request with its retries, unbind |
| Message codec | `message.c` | none | message to bytes and back |
| Byte transfer | `read_all`, `write_all` | none | loops around `read` and `write` |
| Client command line | `table-client.c` 49-95, 197-418 | the array `input`, kept from line to line | read a line, cut its words, call the stub, print |
| Unused | `functions_server.c` | none | not in the makefile |

How they interact. A client's request reaches the main thread through the poll loop, is
decoded, executed by `invoke` on the table, and, when it changed the table and there is a
secondary, handed to a replication thread through shared variables; the answer goes out
afterwards. The secondary runs the same main thread with another role: it executes the
opcodes `_S` of the primary, and makes itself primary on anything else. A server that
starts reads a log file to see whether another is primary, and says HELLO to it; the
primary then launches a replication thread and sends its table.

Hard behaviours, and what makes each part correct:

* *Hand-over between threads*: half of it is under the mutex, half of it is not
  (`isSecondaryOn`, `server`, `dadosProntos` are written and read without it). `params` must
  have one owner, each write must be executed, once by a run of the secondary, or reported lost, and
  the busy wait must end.
* *A secondary that comes and goes*: connections of an earlier run, several HELLOs, several
  threads alive at once.
* *Retries*: of the thread (twice), of the client (same server, other server, and back), after failures that leave
  open whether the request was executed: a server may die between the execution and its answer. No
  request twice on one run of a server; no needless promotion.
* *Table*: order, placement, two counters that are kept apart; allocation failures.
* *Crashes and roles*: two primaries, stale log files, incomplete tables after a failover. Through
  one failure the clients must see one table.
* *Sockets*: an array that changes under the loop that walks over it, whose events stay behind when its
  descriptors move; a peer that dies and leaves its socket reset, which ends every pass; bytes that come in
  pieces, and sizes of 0.

The hazards, each at its line, are listed in `PROJECT.json` with the properties aimed at them.

## 2. Plan

| # | Module | Composes | State of work |
|---|---|---|---|
| 1 | `Replication`, `MCReplication`, `ReplicationProofs` | main thread, threads, secondary as environment | modelled, checked, every safety property that holds proved |
| 2 | `KVStore` (abstract map), `HashTable`, `KeyHash`, `MCHashTable`, `SequenceLemmas`, `HashTableProofs` | dispatch, table and lists | modelled, checked, safety and the refinement proved |
| 3 | `ClientStub`, `MCClientStub`, `ClientStubProofs` | client over two servers | modelled, checked, safety proved |
| 4 | `Requests`, `FailoverMap` (abstract), `PrimaryBackup`, `MCPrimaryBackup`, `PrimaryBackupProofs` | two servers with roles and log files, their threads and clients | modelled, checked, safety and the refinement proved |
| 5 | `PollLoop`, `MCPollLoop`, `PollLoopProofs` | the array of sockets | modelled, checked, safety proved |
| 6 | `MessageCodec`, `Transfer`, `MCTransfer`, `TransferProofs` | the codec, over two sides of a connection | modelled, checked, the codec's round trip and safety proved |
| 7 | `CommandLine`, `MCCommandLine`, `CommandLineProofs` | the client's lines | modelled, checked, safety proved; one claim of the text refuted |

Left to do: the finer claims that would tie the parts together as theorems, of which the most useful are that a write that
`Replication` concludes is one step of `PrimaryBackup`, and that the exchange of `Transfer` is the single step `ClientStub` takes it for.

How the modules rest on each other. `PrimaryBackup` takes what `Replication` has in detail in coarser steps (a
message's second attempt is no step of its own), a client's retries as `ClientStub` justifies them, the table as `HashTable` shows it, and
its fairness (each request is reached, as long as no socket is reset) from `RequestServed` of `PollLoop`. `ClientStub`, `Replication` and `PrimaryBackup` take a message as sent
whole or not at all, which `Transfer` shows of the byte loops and the codec. `KeyHash` gives `HashTable` the lists of its keys.

## 3. Modules and code

### Replication

The state of one primary process plus its peer. Variables have the names of the globals
(`mutex`, `dadosProntos`, `isSecondaryOn`, `server`); `msg` and `threadResult` are the fields of
`params`; `mpc` and `pc[t]` say where the main thread and each replication thread are; `link[t]` is
a thread's local copy of a connection (what `linkToSecServer` returned, or what
`secundary_send_receive` was called with).

| Actions | Code |
|---|---|
| `ClientWriteReplicated`, `ClientWriteAlone` (with `HandOver`) | a write that succeeds on the primary's table, 413-488 |
| `SpinExit`, `Relock` | `while(dadosProntos != OK){}` and what follows it, 473-486 and 1139-1152 |
| `SendEntry` | one round of the loop of `update_state`, 1115-1157 |
| `HelloReply`, `HelloLost`, `Launch`, `Wake` | a HELLO: its answer, 681-683 with `lancaThread`, the sleep and 687-692 |
| `Start` ... `Reset` | a thread until its loop, one action per read or write of a global, 875-904 |
| `Loop`, `Lock`, `SpuriousWake` | 906-911 |
| `Send`, `Execute`, `ReadAnswer`, `SendFails`, `ResendFails`, `Doubt`, `Finish` | 914-958 with `secundary_send_receive`, and the secondary's 374-418 |
| `SecCrash`, `SecStart`, `SecListen`, `SecPromoted` | the peer: end of the process, `main`, `serverInit`, `CHANGE_ROUTINE` |

A write that is sent on is executed by one step (`Execute`), its answer read by another (`ReadAnswer`); if the run of the secondary ends in between, the
answer is lost with it (`Gone`, `Unanswered`) and the thread sends once more, on the link that is in `server` by then, which another thread may
have made to the next run. `execs[r]` counts the executions by run `r`, for the properties only.

Grain. A step reads or writes one of the variables that are used outside the mutex, with two
exceptions that other threads cannot tell apart from finer steps: `HandOver` writes
`dadosProntos`, signals and unlocks in one step (until the unlock no thread can take the mutex, and a
`Reset` in between has the effect of one right after), and `Launch` lowers `isSecondaryOn` and clears
`server` in one step (a thread that looks in between ends where one that looked just before or just after does).

Abstractions. A table is a set of keys: values never decide anything here. A connection is the
number of the run of the peer that accepted it, so a stale one cannot be confused with a new one.
What the peer answers on an opcode it does not understand, once promoted, is an uninitialised
message; it is taken as no answer (`buffer_to_message` refuses it unless the uninitialised opcode and type happen
to be valid ones). HELLO is sent on its own connection and answered when the main thread polls.
Reads and failed writes of clients leave this state alone and have no action. `destroy_log` and
`write_to_log` on the way to `Online` belong to the start-up component.

### KVStore and HashTable

`HashTable` has the lists as sequences of entries and both counters; one action per request of
`invoke`. `SortedInto` is `sortList`, `Position` is `list_get`, `Insert` is `insert` with `list_add`,
`ListKeys` is `list_get_keys`. A key is a number in the order `strcmp` gives it, which is all the lists look at.
With `MemoryFails`, the copy in `table_get` and the node of an insertion may fail to be allocated.
`TypeOK` has the kind of each answer: OK or ERROR for a write, a number for `size`, data for a `get`, all the keys for a `get` of `!`.
`KVStore` is what `table.h` promises: a map and the answers. `HashTable` implements it under the mapping
`Stored` (each present key to the value of its node) when memory does not run out; the last request and its answer are
variables of both, so that each kind of request has to answer, and to change the map, as promised.

### KeyHash

`key_hash` on the bytes of a key, with signed chars and the `%` of C. `HashTable` has the list of each key as a
parameter; `MCHashTable` gives it the value of `key_hash` for four keys (`HashAssumption`).

### ClientStub

`pc` names the calls of `network_send_receive` in the order the code can make them: `first` in
`network_with_retry`, `retry1`/`retry2` after `network_reconnect` to the same server, `last1`/`last2` inside
`retry_alive_server`; a `?` marks the wait for the answer. `server` is the connection (server and run), and `freed`
says that `network_close` freed it while the pointer stayed. `turn` counts the three servers
`retry_alive_server` tries. A request is executed when it is sent to a server that runs; if that
server crashes before the answer arrives the client cannot know.

### PollLoop

`subRoutine`: `fds` and `revents` are the two fields of `socketsPoll`, of which only the first is moved when the
array is compressed; `i` is the index, which the compression leaves at the end of the array.

| Actions | Code |
|---|---|
| `Poll` | 547-554: `revents` of the first `numFds` elements is rewritten, later ones keep what they had |
| `Skip`, `PassOver` | 554-563: no event; the end of the pass, or the `break` on an event other than `POLLIN` |
| `Accept`, `AcceptFails`, `Terminal` | 565-637 |
| `Serve`, `Promote`, `Disconnect` | 640-693 by what `network_receive_send` returned; `Disconnect` with the compression |
| `Open`, `Request`, `ReadAnswer`, `HangUp`, `Die`, `Type` | clients and the terminal |

A client that sent nothing and is taken for ready is waited for: `Serve` and `Disconnect` are not enabled until it sends or hangs
up. With the array full the model stops, as nothing is known of what the program does from there on.

### Requests, FailoverMap and PrimaryBackup

`Requests` is what executing a request does to a table. `PrimaryBackup` has the two processes: "A" is the one started with four
arguments, "B" the one started with two. `pc` says where the main thread is (`deaf` is a loop without a listening
socket, `hello` and `special` wait for an answer, `spin` and `transfer` for the replication thread); `sent[s]` is the key of the message the secondary has
executed and the thread has not read the answer of; `jammed[s]` says that a reset socket stands in the array of `s`; `priFile` and `secFile` are the
log files of each directory, by the name of the server in them.

| Actions | Code |
|---|---|
| `StartA`, `StartB`, `Boot` | `main` 705-843, `serverInit`, the head of `subRoutine` |
| `HelloAnswered`, `HelloPromotes`, `HelloRefused`, `SpecialAnswered`, `SpecialRefused` | 351-410, `hello`, `sendSpecialHello` |
| `Wake`, `Reset` | 686-692 with `update_state`; 904 |
| `Execute`, `ReadAnswer`, `SendFails`, `SendRefused` | 914-958 with `secundary_send_receive`, and the secondary's 374-418 |
| `Connect`, `ConnectFails` | 875-901 with `linkToSecServer` and `write_to_log` |
| `Serve`, `Reply`, `Promote` | `network_receive_send` before and after its answer, 668-679 |
| `Bind`, `Ask`, `Retry`, `GiveUp` | `main_bind_rtable`, the `rtable_` functions, `network_with_retry` |
| `Crash` | the end of a process at any point; with an answer it has not read (`Unread`), the peer's socket is reset |

A socket whose other end was killed with bytes unread is reset: `poll` reports `POLLERR` beside `POLLIN`, the pass ends there (559-562) and
nothing ever closes it. Who stands before it in the array is still served, who is accepted after it is not. `jammed` leaves open which of the two a client is: `Serve` stays
possible, and nothing is assumed of it.

Abstractions: a server has one replication thread, the last it launched (several at once are in `Replication`);
a second attempt to send a message is no step of its own, since with one thread there is no other link it could go by;
a message that was written before its sender died counts as executed before or not sent; a HELLO whose sender has died is not read; an unusable answer
counts as none; a client that lost its server turns to any server that listens (in what order is in `ClientStub`).

`FailoverMap` is what two linked servers promise: one map, requests executed one at a time, an answered one for good; one
failure may undo the request that is executed and not answered, which the client then makes again. `PrimaryBackup` implements it
with the table of the server that acts: the first one as long as it runs, then the other.

### MessageCodec and Transfer

`Content` and `ContentSize` are the two switches of `message_to_buffer`, which agree only if the code keeps them so: `Frame`
announces the one and lays out the other. `FromBuffer` is `buffer_to_message`, which believes the sizes inside the bytes.
A key of size 0 becomes a NULL pointer (257-260: `NoKey`), and an entry whose data has size 0 no message at all (310-313 with `data.c:43`): what the
other side has after a message is `Received`, which is the message in all other cases.
`Message` is every message whose sizes fit into what announces them: a short for a text, an int for data, for the number of
keys and for the whole message. `Transfer` has the two sides of a connection, `write_all` and `read_all` in pieces of any size, the size before each message, any number of questions, and a side
that ends with some of its bytes still arriving.

### CommandLine

The array `input` with what earlier lines, or nobody, left in it; `Fgets`, `Scan` (the search for the end of the line), `Cut` (the `\0` that
`strtok` writes) and `Called`, the call of the stub for the words found. A character of the model may stand for several that stay together.
`RunsTheLine` is about lines `fgets` reads whole, `RunsPermittedLine` about those the head of the program permits (80 characters).

## 4. Runs

| Run | Bounds | What it shows |
|---|---|---|
| `replication_threads` | 2 threads, 1 key, 3 starts of the peer, fairness (475 000 states) | `ParamsOwned`, `ClientSpinServed`, `OncePerRun`, `HandOverOutcome` over every interleaving; `SpinEnds`, for clients' writes |
| `replication_reported` | 1 thread, 1 key, 1 start | violated: `ReportedSent`, see Findings |
| `replication_abandoned` | 3 threads, 2 keys, 4 starts, all but the last of them over before anything else happens (the constraint `StaleHellos`), symmetry | violated: `SpinNotAbandoned`, see Findings |
| `hashtable_refines` | 4 keys, 2 values, 2 lists, memory never fails | `ListsSorted`, `EntriesPlaced`, `SizesAgree`, `KeysFit`, `ImplementsKVStore` |
| `hashtable_size` | 3 keys, 2 values, 2 lists, at most 5 counted elements, memory may fail | violated: `SizeIsExact`, see Findings |
| `client_retries` | 3 runs of each of 2 servers, fairness | `NeverOnFreed`, `ConnectedToPrimario`, `OncePerRun`, `NoNeedlessSwitch`, `RequestEnds` |
| `poll_loop` | 2 connections that are opened again and again, fairness | `ArrayMatches`, `EventsAreOwn`, `RequestServed` |
| `backup_safety` | 2 clients, 1 key, each server started twice, from no server and no file, symmetry (2.07 million states) | `SyncedAgree` |
| `backup_failover` | 2 clients, 1 key, all kinds of requests, two linked servers, fairness (66 000 states) | `ImplementsFailoverMap`, `RequestAnswered` |
| `transfer_breaks` | 14 kinds of questions with their answers, an empty key and an entry without data among them, any number of them, any piece, any break, fairness (310 000 states) | `TakesWhatWasSent`, `InStep`, `CallReturns` |
| `command_lines` | 20 lines, three of which do not fit, an array of 9 characters (53 000 states) | `RunsTheLine` |
| `command_permitted` | the same | violated: `RunsPermittedLine`, see Findings |

Why the bounds are enough. `Replication`: two threads are a stale one and a fresh one; three starts give a first
run, one whose connections are stale, and a current one, and that is what it takes for two runs to execute the same write. With one key `update_state` has one round;
with two the invariants pass as well (612 000 states with symmetry, too many for the liveness property). What is proved (section 5)
holds for any number of threads, keys and starts. `replication_abandoned` needs three threads and the runs of the peer that launch them, and its constraint
only leaves behaviours out, which a counterexample may. Three keys in one list reach every branch of
`sortList`. A client's request contacts a server at most five times, so three runs of each server let the
servers change between all attempts that matter; later requests start from the states earlier ones
leave. `MaxElems` bounds the counter, which drifts up without limit once memory fails. In `PollLoop` two connections are a first and a later
one: one is closed, the other moves, and a new one takes an element with an old event; with three the invariants pass as well (331 000 states with
symmetry). Two starts of each server give `PrimaryBackup` a failover, the return of the server that failed, and a second failover; two clients may serve
themselves of two primaries. One key is enough there since requests on different keys do not touch each other. The lengths in `transfer_breaks` are short, but every loop over bytes is entered in every state of
progress. The invariant of `backup_safety` holds with separate directories too (`SharedDir = FALSE`).
`hashtable_refines` has memory that never fails, as `KVStore` needs; that `SizesAgree` and `KeysFit` hold whatever allocations fail is a matter
of the theorems. In `backup_failover` a server is always left, so that `GiveUp` never happens; it does in `backup_safety`.
The array of `command_lines` has nine bytes instead of 81: six characters are what `fgets` reads whole, eight what the text permits.
Deadlock is not checked where the system really stops: the primary dies on the NULL pointer, a
server is out of starts, the client has quit, a connection is closed, the server waits for a client.

Fairness. `Replication` asks that the main thread and each replication thread run when they can:
each is a thread of its own under a preemptive scheduler, and `sleep` ends. It asks of the
peer only that one which is a secondary and runs answers, and that the connection to one that died breaks. It does not ask anything of a
peer that is a primary itself (`AtThePeersMercy`): that one may be waiting for this server. Nor does it
ask that the peer is started, that clients write or that HELLOs are read. `ClientStub` asks that the client runs and that a
server that is up answers (the code has no timeout, so against a server that hangs
the client hangs too). `PollLoop` asks that the server runs, that `accept` does not fail for ever, and that a client that is connected reads its
answers and goes on asking or hangs up: without this the blocking read on a client taken for ready may last for ever.
`RequestServed` holds also when the server closes the connection, and promises nothing once a connection is reset.
`PrimaryBackup` asks strong fairness of what waits for a main thread's loop, since the loop serves others in between; that it reaches
everybody is `RequestServed`, so it asks this only of a server that is not `jammed`, and `RequestAnswered` leaves out the requests that wait at one that is. `Transfer` asks that the sockets give and take bytes and that the server answers; it asks no side to ask, or to end.

Refinements. `HashTable` implements `KVStore` (`INSTANCE KVStore WITH store <- Stored`), `PrimaryBackup` implements `FailoverMap`
(`INSTANCE FailoverMap WITH` the table and the unanswered result of the acting server).

## 5. Proofs

Every safety property of the passing runs, and both refinements, are proved for all values of the constants. A run shows the
property on its small instance, the theorem that the bounds hid nothing.

| Module | Theorems | For |
|---|---|---|
| `ReplicationProofs` | `TypeCorrect`, `ParamsAreOwned`, `ClientSpinIsServed`, `ExecutedOncePerRun`, `OnlyTheResetLosesWrites` | any threads, keys and starts |
| `HashTableProofs` | `Refinement`, `SizeIsExactWithMemory` | any keys, values, lists and hash, with memory |
| | `ListsStaySorted`, `EntriesStayPlaced`, `SizesStayInAgreement`, `KeysAlwaysFit`, `TypeCorrect` | the same, whatever allocations fail |
| `ClientStubProofs` | `FreedIsNeverUsed`, `RequestsGoToPrimario`, `ExecutedOncePerRun`, `SwitchIsNeeded`, `TypeCorrect` | any number of runs of the servers |
| `PrimaryBackupProofs` | `SecondaryKeepsTable`, `TypeCorrect` | any clients, keys, values and starts, one directory or two |
| | `Refinement` | any clients, keys and values; two linked servers, each started once |
| `PollLoopProofs` | `ArrayAlwaysMatches`, `EventsAreTheirOwn`, `TypeCorrect` | any clients, any size of the array |
| `TransferProofs` | `RoundTrip`, `TakesOnlyWhatWasSent`, `StaysInStep`, `TypeCorrect` | every message, any conversations, with sides that end or not |
| `CommandLineProofs` | `RunsEachLine`, `RunsEachPart`, `TypeCorrect` | any lines, any size of the array |

Assumptions. The theorems use the assumptions the modules make of their constants, which TLC evaluates in the runs: marks such
as `NULL`, `NoMsg`, `NoData` and `Unusable` are none of the things they stand beside, bounds are numbers, `hash` gives a list of the
table (`key_hash` does not for every key: section 6), the array of sockets has room for its first two, `fgets` has room for a
character, and the messages of a conversation are in `Message`. The two theorems that need more say so: `Refinement` of `HashTable` and
`SizeIsExactWithMemory` assume that memory does not run out (the run `hashtable_size` shows that they must), and `Refinement` of
`PrimaryBackup` that each server is started once (after a second start the servers are not one map: section 6). The numbers of runs have
no bound in the types; `MaxStarts` and `MaxRuns` bound them in the guards.

**Replication.** None of the properties is inductive alone. The invariant `Inv` adds:

* `FlagBacked`: `isSecondaryOn` is raised only while some thread is past its connection. That is what makes a read of the
  flag outside the mutex safe: who lowers the flag does so before it leaves, and the thread that raised it serves until then.
* `SpinBacked`: while a client's write waits, the flag is up or someone is sending; with `FlagBacked` this gives `ClientSpinServed`.
  The HELLO handler lowers the flag only when the main thread does not wait. For the entries of `update_state` it does not
  hold, which is the finding `replication_abandoned`.
* `NotTaken` and `Concluded`: a write nobody has taken has not been executed, and a thread with an outcome had it executed
  or gave it up. With ownership of the mutex no second thread takes it: that one finds `dadosProntos` 0.
* `ExecutedByEnded`: while a thread is still to send, or to get an answer, all executions but the one it awaits the answer of
  were by runs of the secondary that are over, since it sends again only then. This gives `OncePerRun`: a write is executed by more than one run
  only when an answer was lost with a run.
* `StillToSend`: a write not executed, not given up and not wiped out by a starting thread is still to be sent, which gives `HandOverOutcome`.

The proof goes by action: the main thread's steps, the steps of a thread outside the mutex (`QuietInv`), taking it
(`LockInv`), the steps under it (`SendingInv`) and the peer's.

**Sequences.** `SequenceLemmas` has what the operators on sequences return, for sequences of any length: an element taken out or put
in, the concatenation of several. What would be an induction over the length is stated of a set of numbers instead: a set
that has 0, and with each number the next one, has them all (`CountingUp`), which follows from the least number that is
not in it (`MinIsLeast`). The other proofs take their inductions from there.

**HashTable.** First what each operation does to one sorted list: `sortList` stops where the new key belongs, an
insertion keeps the order and adds one node, a deletion takes one out. `Inv` is the conjunction of `TableOK`, the part of `TypeOK` that is about the table, and the four invariants,
with `SizeIsExact` as far as memory does not fail, and each request keeps it. The types of the answers (`NextType`) then follow: `size` answers a number since the counter is
one, a `get` answers data since what the lists hold are entries. `KeysFit` is inductive with failing copies since they only make the table's counter too large. The
refinement then shows of each request that `Stored` changes as the map's action says, and that the answer is the map's; for
`get` on the key of all the keys, that the array has each key once.

**ClientStub.** `NeverOnFreed` needs `FreedIsLeft` (a freed structure is about to be replaced, or the client is done).
`OncePerRun` needs `ExecutedByEnded`: all executions but the one whose answer is awaited were by runs that are over. `NoNeedlessSwitch`
needs `WasDownIsDown`: where the client may go to the other server, the first has been down.

**PrimaryBackup.** `Inv` has for each server `Control` (how its role, its place and its thread go together, where its link can lead,
that it starts empty, that a client waits for what is served) and `Agreement`: what the other table lags behind by, for each place of
the primary's main thread, which is the request the thread has to send, or nothing once the secondary has executed it and only the answer is missing (`sent`), and the keys still to send in a
transfer. `SyncedAgree` is the case of a main thread that does neither. The refinement needs `LinkedInv` as well: until one of
the two servers fails, the other is an idle secondary nobody else talks to, and what a failure can undo is the one request
that is executed by the primary and not by the secondary. A secondary that executed it before the primary died had it from the promotion on, unanswered, and the client makes it
again, as `FailoverMap` allows. Each step of the servers is then a step of `FailoverMap` or changes nothing it sees.

**PollLoop.** `ArrayMatches` is inductive once the connections that wait to be accepted are open and wait once (`BacklogOpen`). `EventsAreOwn`
rests on `EventsInPlace`: during a pass no descriptor the poll looked at has moved, since the pass that compresses the array ends with that.

**MessageCodec and Transfer.** `RoundTrip` says of every message in `Message` that `vetorSize` is the number of bytes laid out, at least six, and
that `FromBuffer` gives `Received` of it, which is the message itself but for an empty key and an entry without data; for the array of keys, whose places depend on the sizes read before, by `CountingUp`. It is stated with
`Piece(x, B, k)`, "`x` is what `B` has after its first `k` elements", of which each part of a message is one. `Inv` of
the transfer says with the same operator where the bytes of a message are: what a side has read, then what is under way, then what the other has still to
write are the message, one after the other (`Outgoing`, `Arriving`), up to what was lost with a side that ended; and whose turn it is
(`Turns`). `TakesWhatWasSent` follows from it and `RoundTrip`; `InStep` is part of it.

**CommandLine.** `Inv` says what is left of the line and that it begins where a part of it does (`Unread`), and that after `fgets` the
array begins with the part, closed by a `\0` or by the line's end (`Held`). The first newline found is then never within the part, however much the
array has left from before. `RunsEachPart` says of every line, however long, that what is run are the parts `fgets` makes of it, each once and by itself; `RunsEachLine` is the
case of a line with one part.

Only model-checked: `SpinEnds`, `RequestEnds`, `RequestServed`, `RequestAnswered` and `CallReturns`, since liveness under fairness is out of the
prover's reach; and that the keys of the instance of `HashTable` have the lists `key_hash` gives them (`HashAssumption`).

## 6. Findings

* `replication_reported`: a thread raises `isSecondaryOn` (`table-server.c:892`, `:899`) before `dadosProntos = 0` (`:904`), both
  without the mutex. A write handed over in between is wiped out and reported as `ENVIADO CORRETAMENTE` (`:484`).
  `HandOverOutcome` shows, and `OnlyTheResetLosesWrites` proves, that this is the only way a write gets lost without `params->msg` being NULL.
* `hashtable_size`: `table_put` cannot tell a failed copy in `table_get` from an absent key (`table.c:115`), replaces the value, answers OK
  and counts an element too many.
* `replication_abandoned`: `update_state` hands over the next entry without a look at `isSecondaryOn` and waits (`table-server.c:1139`), though its
  comment promises a result (`:1088`). When a second attempt is answered ERROR, the thread that sent it lowers the flag (`:938`) and ends,
  the others end when they wake, and the main thread spins for ever. It takes three threads: late connections of earlier
  HELLOs, which send their table to a secondary that has the keys already. A client's write cannot be left like this (`ClientSpinIsServed`).

* `command_permitted`: the head of `table-client.c` (11-12) permits commands of 80 characters and `input` has 81 bytes, but `fgets(input,80,stdin)` (`:241`) reads 79 characters, the newline
  among them. Of a command of 79 or 80 characters the end stays behind; the search for a newline (`:244`) goes on past the string, into the last byte of the array and the memory after it; and
  what stayed behind is run as a line of its own, an empty one or the last character as a command. `RunsTheLine` holds for lines of at most 78 characters.

Met while modelling, part of the models and not stated as a property, for the code makes no promise that would save it:

* The NULL dereference at `table-server.c:890` and `:897` when a HELLO clears `server` at that moment (`Replication`: `Address`, `alive`).
* A write executed before the thread is connected never reaches the secondary (`ClientWriteAlone`; in `PrimaryBackup` the history `synced` is false from there on), although 440-443 say
  that the primary sends on what changes its table.
* The first server, started as primary while the other does not run, enters its loop without a listening socket (`Deaf`: `serverInit` at 732 is
  called only after a successful connection).
* A server that starts again may not find the primary: a promoted server writes no log file (678 is a comment), and in one directory both servers share the files, so that one may find
  its own address. It starts with an empty table (`StartA`, `StartB`).
* `main_bind_rtable` takes the first server that listens, not the primary (`Bind`): a new client may promote the secondary beside a primary (`Promote`).
  Two primaries that are connected to each other wait for each other's answer for ever (neither is `idle`, so neither `Execute` nor `SendRefused` is enabled).
* Two runs of the secondary may both execute a write that was handed over once: the first dies before its answer is read, another thread, launched by the HELLO of the
  second, stores its link in `server` (883), and the second attempt (925) goes there. Each run executes it once (`OncePerRun`).
* A primary that is killed with the secondary's answer unread leaves a reset socket in the array of the secondary, which from then on ends every pass of its loop: the clients that turn to
  it then are accepted, may never be served, and wait for ever, as the client has no timeout. `RequestAnswered` without its exception for `jammed` is violated so.
* A put that was executed before its server ended is executed again by the other one, and answered ERROR (`Retry`); `FailoverMap` allows it (`Fail`).
* `socketsPoll[numFds]` is written without a look at its size (576; `Accept`). A reset connection ends every pass and is never closed (562; `PassOver`).
  A connection accepted in a pass may be read from by an event another one left in its element (`EventsAreOwn` leaves it out).
* A value stored under the key `!` cannot be got, and `update_state` (1127) takes the keys it gets for it as data.
* A request with an empty key is decoded with a NULL key (`message.c:257`), and `table_skel.c:93` gives it to `strcmp`, which is undefined. A put of an entry with empty data is
  not decoded at all, and its connection is closed.
* The answer to the second attempt of `hello` is not looked at (1178): any usable one counts as OK.
* `key_hash` of two accented bytes is negative, and so is the index of its list (`KeyHash`).
* The rest of a line that does not fit is run as a line of its own; at the end of its input the client goes on with what the array holds, and leaves the array in search of a
  newline (`FgetsNothing`, `Scan`). A third word after `get` or `del` is passed over (`Called`).

## 7. Not modelled

`functions_server.c` is not built. In `HashTable`, a failing allocation while all the keys are copied (the dispatch then
dereferences a NULL array), the freed entry `entry_create` returns when the copy of the value fails, and the destruction of the table at exit are left out.
The format of the log files is left out: they hold the name of a server (`read_log` at 123 reads into a buffer it does not end). Printing, on the
client and on the server's terminal, is left out, with the text of an absent key that has no end. In `MessageCodec` there is no key of 32768 characters or more, whose size
is read as negative, no data or array of keys whose message is longer than an int can say, and memory never runs out. The contents of a HELLO's answer are not modelled.
