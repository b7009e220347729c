# treenity in TLA+

A verification development for `treenity`, a message broker whose clients talk
to it over POSIX FIFOs. It consists of TLA+ models of the broker and its clients,
TLC runs on small instances and TLAPS proofs. `PROJECT.json` lists, for every
definition, the source lines it models, and for every property the run that
checks it, a mutation of the model that breaks it and the hazard it is about.

    tlc -workers 2 -config MCTopic.cfg MCTopic            # a run
    tlapm TopicProofs.tla                                 # the proofs of a module

## 1. The system

| Part | State | Operations | Source |
|---|---|---|---|
| Topic | log, subscriber table (descriptor, prefix, cursor per name), prefix tree, stop flag, worker thread | `append_message`, `add_subscriber`, `remove_subscriber`, `shutdown`; the worker's `run` | `server/src/Topic.cpp` |
| Server | `topics`, `client_index`, `producer_topics`, request FIFO, `recv_buf`, `running` | eight request handlers, `send_response`, `run`, `stop` | `server/src/Server.cpp`, `main.cpp` |
| Prefix tree | trie of subscriber lists, counter | `insert`, `remove` with pruning, `match`, `clear`, moves | `data_structures/PrefixTree.*` |
| Hash map | buckets, size | insert, assign, erase, rehash, iteration | `data_structures/HashMap.hpp` |
| Protocol | none | serialise and parse requests, responses, deliveries | `protocol/*` |
| IPC | a FIFO per process | create, open, exact read with timeout, exact write, close then unlink | `ipc/*` |
| Clients | a process each | `create`, `list`, `info`, `produce`, `subscribe`; command line, standard input and output | `client/src/*` |

**Who talks to whom.** Every client creates `/tmp/treenity.client.<pid>`, opens
the server FIFO, writes a request and waits two seconds for a response. The
main thread of the server takes one frame at a time from `recv_buf`, updates the
tables under `server_mutex` and writes the response with a *blocking* open of the
client's FIFO. A topic's worker thread owns the topic under `topic_mutex` during a
delivery pass and writes to the subscribers' FIFOs *without* blocking. A
subscriber prints each delivery and sends an ACK with the next offset; the server
stores it as the offset the name resumes from. SIGINT and SIGTERM call
`Server::stop` from the signal handler, on the stack of the main thread.

**What is hard.** Two threads share a topic and a condition variable. Two threads
write to one client FIFO. Names outlive processes, and late requests of one
process hit the session of another. Clients die or give up at any point, and the
server learns of it only through its opens and writes. Pipes fill up. The signal
handler takes locks. 2^32 - 1 is at once an offset, "no offset" and the shutdown
sentinel. Many processes write into one FIFO whose reader knows frames only by
their lengths. A client must tell its user what became of a request although it
may never hear of it.

**What makes the parts correct.**

- Topic: tree and table agree; each process gets exactly the offsets it subscribed
  to, in order and without gaps; no lost wakeup; shutdown returns.
- Server: at most one live process per name, the one in the index; a consumer
  loses its subscription only for a reason; the response comes first; the resume
  offset skips nothing unseen unless an output failed; requests are answered.
- Prefix tree: `match` equals the reference; no dead nodes; exact counter.
- Hash map: every map behaves like a function, whatever the hash function; sizes
  are exact, the load bounded, and a loop sees every key once.
- Requests: what a client serialises is what the server parses, however the bytes
  are cut; every request is handled, and only requests somebody sent.
- Clients: input becomes records and records become output without a change; exit
  codes are true; commands return and leave nothing in `/tmp`.
- Termination: the process ends, workers are joined, subscribers are told.

## 2. The modules

| Module | Models | Uses |
|---|---|---|
| `PrefixIndex` | what the trie promises: a bag of (prefix, client) registrations, as operators | |
| `PrefixTree` | the trie: paths as nodes, pruning, counter, moves | `PrefixIndex` as reference |
| `PrefixTreeProofs` | proofs about `PrefixTree` | `PrefixTree`, `DataInduction` |
| `PubSub` | what a topic promises, without threads, locks, tables and pipes | |
| `Topic` | one topic, its worker, the pipes and the reading processes | `PrefixIndex`; implements `PubSub` |
| `TopicProofs` | proofs about `Topic`, and that it implements `PubSub` | `Topic`, TLAPS |
| `Server` | main thread, tables, request FIFO, client processes; the topics reduced to length, descriptor and cursor | |
| `ServerProofs` | proofs of the safety properties of `Server`, and of its bounds | `Server`, TLAPS |
| `Shutdown` | signals, `stop`, the locks of all handlers, destructors | |
| `ShutdownProofs` | proofs about `Shutdown` | `Shutdown`, TLAPS |
| `HashMap` | buckets, growth, moves, copies and a loop, beside the function each map stands for | |
| `HashMapProofs` | proofs about `HashMap` | `HashMap`, `DataInduction` |
| `DataInduction` | lemmas: induction over numbers and lists, recursion, concatenation | TLAPS |
| `Protocol` | the bytes of requests and deliveries, as operators | |
| `RequestQueue` | what the request FIFO promises: whole requests, first in, first out | |
| `RequestStream` | the request FIFO and `recv_buf` as bytes | `Protocol`; implements `RequestQueue` |
| `RequestStreamProofs` | proofs about `Protocol` and `RequestStream` | `RequestStream`, `DataInduction` |
| `Pipeline` | a message from a producer's standard input to a subscriber's standard output | `Protocol` |
| `Exchange` | a request and its answer against a server that comes and goes | |
| `ExchangeProofs` | proofs about `Exchange` | `Exchange`, TLAPS |
| `CommandLine` | `parse_command` and the loop over the options of `subscribe` | |
| `MCTopic`, `MCServer`, `MCPrefixTree`, `MCShutdown`, `MCHashMap`, `MCRequestStream`, `MCPipeline`, `MCExchange`, `MCCommandLine` | symmetry and the constants a `.cfg` cannot write | |

Operators keep the source's names where there is one to keep; a definition whose
name ends in a deviation (`NotifiedNobody`, `start_OpensLater`) and whose comment
begins with "Mutant" is a plausible bug kept beside the code it replaces. It is
not used by any specification.

### Topic

Each call of the main thread is one critical section and one action. `shutdown`
continues after its critical section with `shutdown_notify` and `shutdown_join`.
The worker is `ready` (about to lock), `waiting` (in `cv.wait`), `deliver` (holding
the mutex in a pass) or `done`. A pass is one action per message, because readers
take no lock and drain or leave their pipes in the middle of it. `cur` keeps the
pass on one subscriber until its backlog is drained, in any order of subscribers
(the order of the hash map). `sent[p]` is the whole history of a process's FIFO
and `nread[p]` how much of it was read; their difference is what the pipe holds.

Frames differ in size, so a pipe that holds `PipeMin` frames may already be full
and one with `PipeCap` frames certainly is: in between a write may succeed or
fail. A frame is at most 12 + 1024 bytes (the producer enforces it), less than
PIPE_BUF, so writes are all or nothing. Pipes and opens are external, modelled
from `open(2)`, `write(2)` and `pipe(7)` as the code uses them.

### Server

The main thread handles one frame at a time but meets the other processes
wherever it opens a FIFO. A request is therefore up to three actions: the tables
(`handle_*`), `send_response`, and for SUBSCRIBE `add_subscriber`. A FIFO is
`none` (not in `/tmp`), `open` (its process reads it) or `orphan` (in `/tmp`
with no reader): an open fails, succeeds or blocks accordingly. A client may
time out, be interrupted, fail to write its output or be killed, each switched by
the constant `Mishaps`; `FifoReader::close` is two steps, since the response can
come between the close and the unlink.

`RawPids` are the subscribers with `--raw`. Only their writes are checked: one that
fails ends the process without an ACK (`output_error`). Nobody looks at `std::cout`
after a text message or after a flush, so there a message is lost and acknowledged
all the same (`Swallows`); a stream that has failed stays failed, which a text
subscriber never notices and a raw one does at its next message. `printed`,
`swallowed`, `asked` and `lost` are history variables for the properties.

The topics are the abstraction `Topic` justifies: one message at a time, in
order, a descriptor and a cursor per name, a failed write drops the descriptor.
Every message matches, since prefixes are `Topic`'s business. Names are valid: the
client validates them with the rule the server applies again. Hash maps are
functions.

### Shutdown

The main thread is a stack of steps, `todo`. `signal_handler` puts `stop` in front
of whatever is there, so the handler runs first and the interrupted request goes
on afterwards, with the mutexes it held in between. The loop of `stop` over the
topics is itself a step on the stack, `shutdown_rest`, which carries the topics it
has yet to come to and takes them in any order (that of the hash map); a signal
finds it between any two of them. `std::mutex` is not
recursive: a lock step is enabled only if the mutex is free, and a handler that
needs a mutex of the interrupted request waits forever. The kernel delivers a
process-directed signal to the main thread, which never blocks it. `std::signal`
restarts `read()` after the handler; on the closed descriptor it fails, so the
loop sees `running` false. It restarts the open in `send_response` as well: if the
client has departed before it unlinked its FIFO, that open never returns
(`open_blocks`, `Hanging`), whether or not a handler runs on top of it. The byte that
should wake `read()` (`Server.cpp:53-59`) is never written: the FIFO has been unlinked
two lines above and the open fails (`Exchange!stop_wake`). The loop ends regardless, for
the reason just given.

A process is `told` when the sentinel has been written to its pipe. A write of the
sentinel, or of a message in a pass before it, may fail, and its topic then has no
descriptor for it: it is `cut`. `Writable` are those that still have one. The
test of `running` and the assignment after it, at the head of `stop`, are one step: of
two handlers between them the one on top finishes first, and the one below finds every
topic stopped.

### HashMap

The hash function is any function from keys to small numbers, chosen in `Init`, so
a run covers every pattern of collisions. The methods are operators on a map, and
the actions call them on objects that are moved and copied into each other. `table`
holds the function the object should be. `it` is the iterator of a range-for loop;
while it is under way its map's values may change but not its keys, which is how
`Topic::run`, `Server::stop` and `handle_list` use their loops. `max_load_factor_`
is one fraction for all maps, at least one half: `operator=(HashMap&&)` does not
take over the factor of its source, which makes no difference as long as all maps
have the default. Load factors are compared as fractions; the floats of the code
give the same answers for tables of less than 2^22 elements.

### Protocol, RequestStream, Pipeline

`Protocol` describes each request once, by its fields (`Layout`), and derives the
serialiser and the parser of that request from it as the C++ functions are written
out: `FixedSize` is the constant each serialiser adds up, independently of
`Layout`. `parse` returns a set with the request, or the empty set for `false`. A
byte has `Byte` values, which keeps 2^32 within TLC's integers; sizes and offsets
count modulo `U32`.

In `RequestStream` a write of up to PIPE_BUF bytes is one step and a longer one any
number of steps; `run_read` takes up to `ReadSize` bytes and `run_frame` is one
turn of the inner loop, with the handler's parser. (The code adds 5 to the announced
length modulo 2^32; no client announces a length where that makes a difference.) It
implements `RequestQueue` as
long as no frame exceeds PIPE_BUF, and this is what `Server` assumes of its `inbox`.

`Pipeline` follows a message through the five places that measure it. `TextRecord`
and `RawRecord` cut the producer's standard input; `read_header`, `read_key` and
`read_value` are the three reads of the subscriber. Raw output carries an offset in
front of each record that raw input does not have, so the output of one client is
not raw input for another: `RawForm` is what they share. A write to the subscriber's
pipe succeeds if there is room for the frame; otherwise the topic closes the
descriptor and its cursor moves on (`deliver`, `shutdown`). Standard output may fail
at any byte, and what follows depends on the form, as in `Server`: `Prints`,
`OutputFails`. The ACK may fail once the server is shut down (`Unacked`).

### Exchange

The server goes through `mkfifo`, `open`, the three parts of `stop` and its end, or
dies; `ipc_path` says whether its FIFO is in the file system. Time does not pass in
the model: a timeout may fire whenever what is waited for is not there. An answer
is written in one piece, or in two for a LIST that has a payload, which may exceed a
pipe. A producer that has been accepted reads records and sends each, until its input
ends, a record is bad (code 1) or the server is gone (code 3): `records` counts what it
has sent, `published` what has reached the topic.
`close` comes before `unlink`, as in `FifoReader::close`, and the blocking open in
`send_response` waits on a FIFO between the two.

### CommandLine

An argument is a sequence of characters, in which the words of the language count
as one. The reference is the set of ways to spell a list of options (`Lines`): the
parser goes from left to right, the reference does not, and they agree.

## 3. The runs

| Run | Question | Result |
|---|---|---|
| `topic` | tree = table, exact streams, no sleep on a backlog, inductive invariant, `Topic` implements `PubSub`; everything subscribed to is delivered, `shutdown` returns | holds |
| `server_safety` | one live process per name, consumers stay attached, what the main thread may block on, response before deliveries, committed means printed unless the output failed unnoticed | holds |
| `server_live` | requests answered, messages printed unless the output fails, without crashes and timeouts | holds |
| `trie` | `match` = reference, pruning, counter | holds |
| `shutdown` | workers joined, earlier subscribers told unless a write to them failed; a signal outside the critical sections ends the process unless an open hangs; no signal waits for a worker | holds |
| `shutdown_deadlock` | any signal ends the process (`README.md:111`) | **violated** |
| `requests` | all eight requests survive serialisation, fragmentation and parsing; no byte lost or doubled among concurrent writers; implements `RequestQueue`; all handled | holds |
| `requests_mixed` | only requests that were sent are handled, also beyond PIPE_BUF | **violated** |
| `hashmap` | lookups as in a function, loops see every key once, size and load factor through moves and copies | holds |
| `pipeline` | input, log and output agree, so do the limits, with pipes that overflow and output that fails; everything is printed if neither happens | holds |
| `exchange` | exit codes are true, no FIFO is left behind; where commands may not return, when a record that was sent is not published | holds |
| `command_line` | the options against their grammar, the numerals against their value | holds |

The two violations disagree with a line of the repository:

- A signal during a request that holds `server_mutex` or a `topic_mutex` makes the
  main thread wait for itself. LIST, INFO and SUBSCRIBE hold `server_mutex` while
  they open the client's FIFO, so the window is not short. `README.md:108` calls
  the mutex recursive; it is a `std::mutex` (and a recursive one would let the
  handler see tables in the middle of a change).
- A SUBSCRIBE with a prefix of some 4000 bytes is longer than PIPE_BUF. Another
  client's frame may end up inside it; the server then handles a request nobody
  sent and loses the frame boundaries for good.

The models follow the code in these smaller disagreements too. No run is spent on
them, since each can be read off a few lines:

- A subscriber that is alive gets no sentinel if its pipe is full at `shutdown()`,
  or was full at an earlier message: the result of the write is ignored, and
  entries without a descriptor are skipped (`Topic.cpp:28-37` speaks of all active
  subscribers). That client polls forever. In `Topic`, `shutdown` may leave out
  such a process; in `Shutdown` it is `cut`, which `SubscribersAreTold` excepts.
- A message whose text output or flush fails is acknowledged, and the name resumes
  after it (`subscriber_command.cpp:129-134`). `CommittedWasPrinted` excepts just
  these, and `OutputIsLog` says what such an output looks like.
- A producer returns 1 for a bad record although the records before it are published
  (`producer_command.cpp:67-131`), the code it also has for a server it cannot reach.
  `ExitCodeTells` says what 1 means for each.
- Frames already in `recv_buf` are handled after `stop()`. A SUBSCRIBE among them is
  answered SUCCESS and attached to a stopped topic; nobody ever tells it. So
  `SubscribersAreTold` is about the subscribers that were there when `stop()` began.
- `--offset 4294967295` passes the command line and is taken for `OFFSET_UNSET`.
- The offset of a message is a `uint32_t`: message 2^32 - 1 looks like the sentinel
  and the one after it has offset 0 again, where `README.md:16` has them strictly
  increasing.
- `stop()` unlinks the FIFO before it opens it to write the byte that should wake
  the main thread (`Server.cpp:51-59`), so that byte is never written.
- `client create <topic>`, `client list` and `client info <topic>`, as
  `README.md:57-65` has them, lack the IPC identifier and are refused.

`TypeOK` is a property of the run of `Shutdown`, where it says when a worker holds its
mutex. In the other modules it documents the variables and no run lists it.

**Bounds.** `topic`: two names and two processes let a process take over a name,
keys `a` and `b` with the prefix `a` make messages that match and messages that do
not, and three messages with a pipe of one frame let a pass fill a pipe in the
middle of a backlog and come to it again; `U32` is one more than the messages, so
that offset `U32 - 1` is only ever the sentinel. (Several prefixes at once are in
`trie`, and in the proofs, which leave all of these sets open.) `server_safety`: an
old session and its successor under one name, two topics to change between, two
messages; `asked` and `printed` tell an offset that was asked for from one that was
reached. `trie`: prefixes that nest, fork and diverge, three registrations.
`shutdown`: two requests and two signals, so a handler interrupts a request, another
handler and the destructors. `requests`: numbers 0, one beyond a byte and 2^32 - 1,
strings of length 0 to 2, two writers, and reads of seven bytes, which hold neither
one frame nor two. `hashmap`: three keys whose hashes are below three collide in
every pattern; a map that was moved from starts with one bucket and grows twice.
`pipeline`: all texts of up to four characters over `:`, newline and one more, and
all cuts of one or two raw records with keys and values of up to three bytes, where
two is the limit for both together; its pipe holds 24 bytes, one long message or two
short ones, so it overflows on some inputs and not on others. `exchange`: three commands
are the fewest in which one crashed client makes the server hang, a second fills its
FIFO and a third waits; they are a CREATE, a LIST, and a second CREATE or a producer
with up to two records, so that a bad one may come first, second or not at all.
`command_line`: five arguments are one for each option and each value; numerals have up
to four characters for numbers up to 31. Topics are symmetric in `server_safety` (the
processes are not: one has raw output), clients and tries in `trie`, keys and maps in
`hashmap`; no run with a liveness property uses symmetry.

**Fairness.** Weak fairness of each worker's and the main thread's steps is what
a preemptive scheduler gives. In `Topic` and `Server` clients that can read do
so; nobody is assumed to start, publish, be interrupted or crash, and no call of
the main thread to be made. A worker competes for `topic_mutex` only with single
actions of the main thread, and those are finitely many, so weak fairness is
enough. `server_live` excludes crashes and timeouts because with them the main
thread does block for good; `BlockedOnlyByDeparted` says exactly on whom. In
`RequestStream` a write goes on when there is room and a read when there are bytes; in
`Pipeline` a record that can be read is read, a frame handled and a message
delivered, and nobody shuts the topic down. In `Exchange` threads run, a timeout that
is waited for fires and a producer's input ends; nobody starts, stops or kills the
server or a client. `Shutdown` is fair to threads, but not to the open of a FIFO
whose reader has departed: it may hang, and its properties name that case.

## 4. The proofs

The theorems hold for all values of the constants that satisfy the named
assumptions; TLC evaluates those on every run of the module.

| Theorem | States |
|---|---|
| `TopicProofs!TypeCorrect` | `Spec => []TypeOK` |
| `TopicProofs!TreeCorrect` | `Spec => []TreeMirrorsSubscribers` |
| `TopicProofs!TopicInvariance` | `Spec => []TopicInv`, if `MaxMessages < U32` |
| `TopicProofs!StreamsExact` | `Spec => []StreamExact`, under the same condition |
| `TopicProofs!SleepSafe` | `Spec => []SleepMeansDelivered`, under the same condition |
| `TopicProofs!TopicImplementsPubSub` | `Spec => ImplementsPubSub`, under the same condition |
| `ServerProofs!ServerInvariance` | `Spec => []ServerInv` |
| `ServerProofs!OneLiveSession` | `Spec => []LiveSessionIndexed` |
| `ServerProofs!SubscriptionsStay` | `Spec => []ConsumersStayAttached` |
| `ServerProofs!ResponseComesFirst` | `Spec => []ResponseThenDeliveries` |
| `ServerProofs!BlockedByDeparted` | `Spec => []BlockedOnlyByDeparted` |
| `ServerProofs!CommitsArePrinted` | `Spec => []CommittedWasPrinted` |
| `ServerProofs!ServerTypes` | `Spec => []TypeOK` |
| `ExchangeProofs!ExchangeInvariance` | `Spec => []ExchangeInv` |
| `ExchangeProofs!ExitCodesTell` | `Spec => []ExitCodeTells` |
| `ExchangeProofs!FilesRemoved` | `Spec => []NothingLeftBehind` |
| `ShutdownProofs!ShutdownInvariance` | `Spec => []ShutdownInv` |
| `ShutdownProofs!ShutdownTypes` | `Spec => []TypeOK` |
| `ShutdownProofs!WorkersAreJoined` | `Spec => []AllJoined` |
| `ShutdownProofs!EarlySubscribersAreTold` | `Spec => []SubscribersAreTold` |
| `HashMapProofs!HashMapInvariant` | `Spec => []MapInv` |
| `HashMapProofs!HashMapTypes` | `Spec => []TypeOK` |
| `HashMapProofs!HashMapFinds` | `Spec => []FindExact` |
| `HashMapProofs!HashMapCounts` | `Spec => []SizeExact` |
| `HashMapProofs!HashMapLoad` | `Spec => []LoadBounded` |
| `HashMapProofs!HashMapLoops` | `Spec => []LoopCoversMap` |
| `PrefixTreeProofs!TrieInvariance` | `Spec => []TrieInv` |
| `PrefixTreeProofs!TrieTypes` | `Spec => []TypeOK` |
| `PrefixTreeProofs!TrieHasNoDeadNodes` | `Spec => []NoDeadNodes` |
| `PrefixTreeProofs!TrieCounts` | `Spec => []CountExact` |
| `PrefixTreeProofs!TrieMatches` | `Spec => []MatchesReference` |
| `RequestStreamProofs!StreamInvariance` | `Spec => []StreamInv`, if `FramesFit` |
| `RequestStreamProofs!FramesStayWhole` | `Spec => []StreamFramed`, under the same condition |
| `RequestStreamProofs!OnlySentAreHandled` | `Spec => []HandledWereSent`, under the same condition |
| `RequestStreamProofs!StreamImplementsQueue` | `Spec => ImplementsQueue`, under the same condition |

### Topic

The assumptions are `NilAssumption` and `BoundsAssumption`. The condition
`MaxMessages < U32` is a fact about the code: the offset of a message is
`messages.size()` modulo 2^32, so after 2^32 messages offsets repeat.

`TypeOK` and, with it, `TreeMirrorsSubscribers` are inductive. The streams are
not: `StreamExact` speaks about frames already written and says nothing about the
cursor from which the next one is chosen. `TopicInv` adds what ties them together.
`LogPositions`: the message at position i has offset i - 1. `CursorInv`: an open
descriptor belongs to the process that subscribed under its entry's name and
prefix (`Owns`), and that process's stream is complete below the entry's cursor,
with nothing at or above it (`CompleteTo`). `NothingSentBefore`: a process that
has not subscribed has no frames. `WakeupPending`: a sleeping worker has no
pending backlog, or `shutdown` is about to notify it. A frame written at the
cursor then extends an exact stream (`FrameExtended`), frames of other processes
are untouched because a descriptor has one owner (`OneOwner`), and the match of
the tree is the match of the entry's own prefix because of
`TreeMirrorsSubscribers` (`MatchIsOwnPrefix`). There is one lemma per action that
changes a stream. TLC checks `TopicInv` in `topic`.

The refinement maps the keys of `messages` to `PubSub`'s log, the processes with an
open descriptor to those it serves and the frames written to its streams. Every
action is then one action of `PubSub` or leaves its variables alone; the step that
writes a frame needs `CursorInv`, since `PubSub` demands that the offset written is
the next one the process asked for.

### Server

`ServerAssumption` and `NilAssumption` say that the three kinds of processes are
disjoint, that `Nil` is none of the values, and that all producers together may publish
fewer than 2^32 messages; only the last theorem, `ServerTypes`, uses this. Every mishap
may happen at any time.

`ServerInv` follows each request, process and offset. `PhaseInv`: a process has at
most one request, which is in the queue, or being answered, or answered, and the
process is attached only after that. `FifoInv` and `ShapeInv`: which FIFO states
and commands go with which step of a client. These with `ResponseThenDeliveries`
are inductive (`BaseInv`), and `BlockedOnlyByDeparted` on top of them.
`LiveSessionIndexed` needs `AttachInv`: while a subscriber is answered,
`client_index` names it. `handle_subscriber_connect` replaces an index entry only
if the name is inactive or its process is gone, so by `LiveSessionIndexed` itself
no live process is attached under the name at that moment; and a late
`add_subscriber` overwrites no entry of another live process. For
`ConsumersStayAttached`, `AcceptedInv` begins where the process is accepted and does
not know it yet, and `CommandInv` says that what is queued, answered and attached for
a process is what it was started with. For `CommittedWasPrinted`, `OffsetInv` claims
the same of every place an offset passes through, backwards: the index, ACKs in the
queue, the start of a subscription being answered, the message a process holds, the
frames in its pipe, the cursor of its entry. None of these is inductive alone, since
each is the source of the next. A message is below such an offset only if it was
printed, declined with `--offset`, or swallowed by an output that had failed.

The last part of `ServerProofs` counts: the PRODUCE requests in the queue together with
the messages of any one log are no more than what the producers have sent (`CountInv`),
so a log never reaches 2^32 and no offset in a delivery wraps.

### Exchange

`ExchangeInv` says where a request can be while its client is at each `pc`. A
request in the FIFO or in `recv_buf` is one its client has sent, and a CREATE there
has not been carried out (`RequestInv`) and is there once (`CreateOnce`); every
answer under way is true (`AnswerInv`), and remains true, because the topic keeps its
creator; what a client has brought about, the topic or messages in it, it has sent
before (`EffectInv`), so a client that has sent nothing has had no effect; and the code a
client is about to return is true from the moment it is set (`CodeTrue`).
`ExitCodeTells` is not inductive, since it only looks at clients that have returned. The
byte of `stop` is never among the requests (`NoWakeByte`).

### Shutdown

`ShutdownAssumption` only says that the initial topics are topics and `Nil` is none
of them: any number of topics, requests and stacked handlers.

That a mutex is held exactly if the stack has one more unlock of it to do than locks is
not inductive: an unlock on top says nothing about what is below it. `LockInv` adds that
*no suffix* of the stack locks more than it unlocks (`Closed`). Every program that is
put on the stack is balanced and closed by itself (one lemma per handler), so pushing it
keeps both, and an unlock on top, with a suffix below that unlocks no less than it
locks, is done by the holder (`HolderReleases`). This holds of a handler that interrupts
anything, a critical section or another handler included.

`LeavingInv` and `JoinInv`: once `run` has returned no topic is made, each is stopped
or going to be, and a stopped one has its worker joined or is going to; when the
stack is empty only the first halves are left, which is `AllJoined`.

`SubscribersAreTold` takes the most. A process subscribes once and its subscription
is in one place (`SubscribeInv`); what is left of it on the stack is at a fixed
distance from the bottom (`BottomInv`), whatever is stacked above. So until `stop`
begins an accepted process has its entry, or it is `Between` acceptance and
attachment (`AcceptedInv`). A signal that comes in between finds `server_mutex` held
by the request below it, by `LockInv` (`BetweenHolds`): `stop` waits for ever
(`Stuck`) and the process does not end, which is the deadlock of `shutdown_deadlock`.
In all other cases the entry is there until `shutdown` of its topic writes the sentinel,
or a write to it fails before or then.
The invariant was checked by TLC, with the bounds of `shutdown` and with three
requests on one topic, before it was proved.

### Induction over data

The library's induction theorems have an operator for the induction hypothesis, and
the installed provers cannot instantiate it. `DataInduction` has a set instead: a set
with 0 and the successor of each of its numbers has them all (`NatSetInduction`, from
`WFMin` and `NatLessThanWellFounded`). A loop of `n` turns is proved with
`LoopInduction`; a recursive function over its turns exists (`RecursionExists`) and
is what its `CHOOSE` picks. On this rest the facts about `FlattenSeq`, by which the
entries of all chains and the bytes of all frames are put together: its type, what an
element at either end adds, and at which position each element of each list comes.

### HashMap

`HashMapAssumption` bounds the load factor from below by one half, as one doubling would
not make room for one more entry otherwise; the code's is three quarters. The hash
function is any.

`MapInv` says of every map that it stands for its `table` (`StandsFor`): there is a
bucket; each entry is in the chain its hash selects and no key is twice in a chain, so
that a key is once in the map; the entries are those of the table; `num_elements_` is
their number; and the load is within its limit. `FindExact` alone is not inductive: it
looks at the answers only and would let an entry lie in a chain no lookup searches. A
rehash is a loop over chains and entries into new buckets, and the invariant of the
loop is that what has been moved stands for the part of the table that has been gone
through. A list insertion is a loop of assignments with rehashes in between. For the
loop over a map, what it has visited is what lies before the iterator in the
concatenation of the chains, which an assignment to an existing key does not move.

### PrefixTree

There is no assumption but `PrefixTreeAssumption`: prefixes and keys are sequences of
characters, of any number and length, finite or not; so are clients and tries.

`TrieInv` says of every trie that it stands for its `registered` (`StandsFor`): with a
node there is all of its branch (`IsTrie`); a list holds every client as often as it is
registered under that path, and a node at no prefix has an empty one (`Holds`); every node
but the root is over one with subscribers (`Alive`); and the counter is the number of
registrations. `MatchesReference` alone is not inductive, as a trie with a hole in a branch
answers all the same to keys that do not pass it, and `CountExact` needs to know that
`remove` finds a client just when the index has it. TLC checked the invariant on the
instance of the run `trie` before it was proved.

`remove` takes one client out of a list, after which nodes of that branch may be dead. The
loop that climbs is a recursive function of its turns (`PruneDef`, `ClimbStep`), and its
invariant is `Climbed`: the nodes that are left are closed towards the root, only nodes with
empty lists are gone, and every node is alive that is not on the part of the branch yet to
be climbed. At the root that part is empty (`PruneFacts`). The code leaves the loop at the
first node that stays; in the model the turns after it change nothing.

`match` concatenates the lists along the key. By induction over the length of the walk, a
client occurs in what has been collected as often as it is registered under a prefix of
that length at most (`Shorter`, `MatchCounts`): the prefixes of a key that have equal length
are equal, so every node adds the registrations under one prefix (`ListCounts`). Where the
walk ends for want of a branch nothing longer is registered, because a registration has
its node and a node its branch.

### Protocol and RequestStream

`FramesFit` says what the clients send: arguments fit into their fields, a message is
within the producer's limit, and a frame is at most PIPE_BUF bytes, which is less than
2^32. TLC evaluates it for the requests of `requests`; `requests_mixed` breaks the last
part, and with it `HandledWereSent`.

That parsing undoes serialising (`PayloadParsed`) is proved for all requests at once,
by induction over the fields of `Layout`: what has been read is the request up to that
field, and the offset is where the next field was written (`FieldRead`). The number that
`write_uint32_le` writes in four bytes is read back (`WriteRead`), and the numbers
written are below 2^32 because the frame is. The header then says how long the frame is
(`HeaderRead`), and a frame in front of any bytes is handled as the request it was made
of (`FrameHandled`).

`StreamInv` adds to `StreamFramed` that a process whose frame is not in the pipe has all
of it left, that is, frames enter the pipe whole, and that the handled requests are the
first ones written. A `run_read` moves bytes from one end of the same stream to another;
a `write_exact` appends one frame (`StreamAppend`); and if `FrameReady` holds, the
bytes up to `FrameLen` are the first frame of the stream (`StreamHead`, `FrontTaken`).
Those steps are the two actions of `RequestQueue` and a stutter.

### Only model-checked

- Liveness, in all modules, and `ENABLED`: out of the prover's reach.
- `Pipeline` (`InputPublished`, `OutputIsLog`, `LimitsAgree`) and `CommandLine`
  (`SubscribeReadsLine`): safety properties of parsers, checked over all short inputs.

## 5. Not modelled

- The bytes of a response, and the text that `list` and `info` print.
  `parse_request_header`, `parse_response`, `parse_delivery` (called by the tests
  only) and `exit_code_for` (called by nobody).
- Prefixes together with message values: `Topic` has the routing, `Pipeline` the
  contents. `Topic::get_messages_from`, which has no caller.
- A FIFO that cannot be created, a server that fails to start, a write of the
  server that a signal cuts short, the reuse of a pid by a later process; in `Shutdown`,
  a subscriber that dies (there is nobody left to tell).
- A signal while a producer reads its standard input: the read ends and the
  producer takes it for the end of the input.
- Maps with different load factors, and the move operations of the FIFO classes.
- What a name that changes topic should resume from: the code reuses the offset
  committed on the previous topic, and nothing in the repository says what is
  meant.

## 6. Plan

Done: all components; proofs of every safety property of `Topic`, `Server`, `Exchange`,
`Shutdown`, `HashMap`, `PrefixTree` and `RequestStream`, and of the refinements of
`PubSub` and `RequestQueue`.

Left, in this order:

1. `OutputIsLog` and `LimitsAgree` of `Pipeline`, then `InputPublished`; the numbers are
   `WriteRead` again and the fields of a PRODUCE frame `FieldRead`.
2. `SubscribeReadsLine` of `CommandLine`.
