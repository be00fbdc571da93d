# TLA+ models of com.richard.test

The repository is a collection of independent programs: C and C++ servers,
clients and algorithms under `cpp/`, Java programs under `src/main/java`, Python
scripts under `py/`. They do not form one system. Each part below is a program,
or a few that share a data format, and has a module of its own. Paths are
relative to the root of the repository.

Contents: [parts](#parts), [modules](#modules-and-how-they-follow-the-code),
[runs](#runs), [proofs](#proofs), [observations](#observations),
[limits](#what-is-not-shown), [not modelled](#not-modelled).

## Parts

| Part | State | What is hard about it | What should hold |
|---|---|---|---|
| Snowflake ids (`SnowflakeIdGenerator.java`) | `sequence`, `lastTimestamp`, a monitor | sequence wrap, clock set back, restart | ids increase; collisions only across a restart |
| MySQL pool (`cpp/mysql/dbpool.c`) | slots, busy flags, counter | long call sequences, exhaustion, NULL given back, re-creation | counter = flags = lent connections; no sharing |
| HTTP server (`cpp/http/server.c`, `dispatcher.c`) | descriptor table, shared `cfd`, static parser buffers | a thread per connection, two races, resets, requests in pieces, threads that cannot be created, descriptor limit | what mixes answers, leaks a descriptor or leaves a client waiting is known |
| Stream wrappers (`cpp/tcp_concurrent.cc`) | one static buffer for all descriptors | short transfers, ends, resets, reads of several descriptors | all bytes in order, and their number |
| HTTP clients (`httpClient.c`, `http.c`, `http/peer.c`) | what was kept of the answer | pieces of any size, an end at any byte | exactly the body, or a known part of the answer |
| Echo and chat servers (`tcp_concurrent.cc`, `uni_sock_srv.c`, `tcp_server.c`) | descriptors of parent and children, accept queue | fork, lost clients, clients in a queue | all messages answered, connections released |
| Kafka consumer (`cpp/kfk/consumer.c`) | `run`, handle, offsets | signals at any point, restarts, failed initialisation | loss and repetition bounded; SIGINT ends it |
| Kafka producer (`cpp/kfk/producer.c`) | bounded queue, reports | full queue and retry, signals, a flush that gives up | order kept, at most one report each, retries end |
| Fruit basket (`design/pattern/producer/consumer`) | list, wait set | `wait()` under `if`, lost and spurious wake-ups | a bounded buffer until a wait of the farmer ends by itself; both threads go on |
| Wait and notify (`WaitNotifyTest.java`) | list, monitor | which thread comes first, spurious wake-ups | how the program ends up |
| Volatile counter (`volatileCon/AtomicTest.java`) | `inc`, a latch | `inc++` is not atomic | bounds of what is printed; it is final |
| Service discovery (`zk/pubsub/ServiceDiscoverer.java`) | map, list, two locks | double check, `close()` under another lock, so with stale values | one provider each; closed unless raced |
| HTTP text functions (`cpp/http/util.c`) | none | texts that break off, line ends, where the terminator goes | agree with reference definitions |
| Meter report parsers (`cpp/http/dtparser.c`, `cpp/dtprs`, `py/dt_parser.py`) | none | truncated reports, full buffers, two implementations | contiguous cuts, defined up to known lengths, same result where there is an application id |
| Big numbers (`cpp/algorithm/big_num.c`) | digit arrays | growth of arrays, undefined digits | exact, or known to be undefined |
| Big integers and Paillier (`cpp/BigNum.cpp`) | limbs | carries, borrows and signs, probabilistic primes | exact but for a lost borrow and the signs in `==` and `!=`; decryption undoes encryption |
| DES (`cpp/algorithm/3des.c`) | sub-keys | order of keys, swap of halves | decrypt undoes encrypt |
| Sorts, CRC, RSA (`cpp/algorithm`) | none | equal elements, bit order, small moduli | sorted permutation, CRC laws, round trip |

The HTTP server uses the text functions and the C report parser; producer and
consumer meet in a Kafka topic. The other parts do not interact: the stream
wrappers are in the file of the forking server, but its `main` calls `read` and
`write` itself.

## Modules and how they follow the code

**`Snowflake`** (instance in `MCSnowflake`). Several generator instances read one
wall clock. `New` is the
constructor (refused unless `ValidIds`), `Enter` takes the monitor and reads the
clock, `ClockMovedBackwards`, `SameMillisecond`, `NewMillisecond` are the
branches of `nextId`, `BlockTillNextMillis` its polling loop. `Crash` ends a
process. `Tick` and `SetBack` are the clock. The history variable `issued` holds
every id returned. Field widths are constants, so the packing is exact.

**`ConPool`.** `createConPool`, `init_con` (one step per connection, each of
which may fail and end the program), `get_con`, `release_con`, `destroy_pool`.
Borrowers are parts of one single-threaded program, as in `main`: they give back
what they hold, or the NULL that `get_con` returned. `destroy_pool` closes lent
connections too, and the borrowers keep their pointers, as `main` keeps `con1`
and `con2`; they are taken to drop them (`Forget`) before a pool is made again.

**`HttpServer`** (instance in `MCHttpServer`). The accept loop (`Accept`,
`AcceptAborted`, `AcceptFails`, `CreateThread`, `CreateThreadFails`) and the
thread function (`ReadArg`, `Read`, the steps of the parser, `WriteResp`,
`Close`). The threads read `cfd` through its address, so the next `accept` may
overwrite it first, and they share the static buffers of `dtparser.c`. `late` and
`overlap` record that one of these races happened. Descriptors are numbers the
kernel reuses, lowest first. The only `read` may get the request up to any place
(`Cuts`: all, without the end of what follows the URI, without the report, or
with part of the request line), and a second thread on the connection the rest.
Where the code is undefined the model has a choice: the answers to GET and
`/up/dt`, copied from a block that has ended, and that to `/dn/dt`, from an
uninitialised pointer, may be anything or end the process (`DirectAnswers`,
`Dispatch`); the `memset` of `dtparser.c:52`, twice as long as its buffer, may
clear the other static buffers or not (`Branch`); the detach of a thread that was
not created does nothing or ends the process. Requests are shorter than the
buffer of `rcvdata`.

**`Streams`** (instance in `MCStreams`). `Read`, `Readn`, `Readline` with
`my_read`, `Write`, `Writen`, one step per system call. A byte is identified by
its descriptor and its position there, so mixing and loss show. The buffer of
`my_read` is static: `buf` is shared by all descriptors. A call that a signal
interrupts is repeated by every wrapper, which is a stuttering step.

**`HttpClients`** (instance in `MCStreams`). The exchange of three clients with a
server that answers a byte at a time, closes or resets: `main` of `httpClient.c`
(reads single bytes up to the end of the head, saves the rest), `get_data` of
`http.c` (polls once), `writemsg` of `peer.c` (reads pieces until one is short).

**`EchoServers`.** Three servers with one set of actions: `Accept`, `Fork` and
`ParentGoesOn` of `tcp_concurrent.cc`, `Echo`, `EchoBrokenPipe`, `StopServing` of it
and of `uni_sock_srv.c`, `ChatAnswer` and `ChatGoesOn` of `tcp_server.c`.
`fds` says which process has which connection; a child starts with a copy of
what its parent has. Clients send, close or are lost at any point.

**`KafkaConsumer`, `KafkaProducer`.** One action per section of `main` between
two library calls, the signal handlers, and what librdkafka does (external). The
consumer may be started again and resumes at the committed offset. Undefined
behaviour (a second `fclose(stdin)` in the handler) is a choice between going on
and crashing.

**`Basket`, `BoundedBuffer`.** A turn of a thread is one synchronized block; the
block is left only in `wait()`, so the part before it and the part after it are
one step each. `WakeFarmer` and `WakeChild` end a wait without a notification, as
`Object.wait` may; `woken` records that it happened to the farmer. `BoundedBuffer`
is what `Kuang.java` promises. `Basket` implements it as long as no wait of the
farmer has ended by itself; from then on it does not.

**`AtomicTest`, `WaitNotify`, `Discoverer`** (with `Basket` in
`MCJavaThreads`). `AtomicTest` has read and write of `inc++` as two steps, a
count-down after each increment, and `main`, which prints when the latch is
open. `WaitNotify` has one synchronized block per thread, left in `wait()` or at
its end, and a wait that ends by itself. `Discoverer` has the look at the map
without the lock, the look under it, the start of a provider, which may throw,
and the iterator of `close()`. Since `close()` and the additions to the list
share no lock, `seen` counts the additions each thread is synchronized with, and
every read of `close()` may find the list as it was at any time since then, or
its size, its modification count and its array from different times.

**`Call` and the pure functions.** `HttpText`, `ReportParser`, `BigNum`, `Des`,
`BigNumCpp`, `Paillier` and `CAlgorithms` share the variables `call` and
`result`: a behaviour is one call and its return, so one run (`MCAlgorithms`)
covers all functions on all their inputs. `HttpText` gives each C loop by
what its body does to the locals at a character (`UriTurn` and the like); the
terminator is right behind what was copied, except in `getjsonv`, whose result
says at which index it is written. `ReportParser` describes a report by its
length and the characters the parsers branch on, and a parsed field by the
interval it was cut from. A layout has two numbers for a field, the width of the
cut and the move of the cursor. A result is `Undefined` when a text outgrows its
static buffer, and for the report that `dtprs` takes as an argument also when a
cut starts behind its terminator. `BigNum` keeps array sizes and marks a result *bad*
when an undefined digit is read, the array is left or an int overflows. `Des` has
the tables of the C file; for the example of its `main` it gives the cypher text
the compiled program prints, `84358F6B19B6C87B`. `BigNumCpp` computes limb by
limb in a small base and marks a result *lost* when a subtraction dropped a
borrow. `Paillier` has the number theory of the same file on numbers (`ModArith`
keeps products within TLC's integers): `PowerMod`, the extended Euclid, the
Rabin-Miller test with the bases it is given, key generation, encryption and
decryption. Its table of primes is computed (`FirstPrimes`); the 2800 numbers
written in `BigNum.cpp` were compared with the first 2800 odd primes outside TLC.
`CAlgorithms` has both sorts, the CRC and the three RSA programs, the cypher text
of `rsa_deploy.c` from its hex digits on.

**`MCResources`** puts `ConPool`, `EchoServers` and `KafkaProducer` into one state
graph, **`MCHttpLines`** has the short texts for `getln_lines`.

## Runs

| Run | Properties | Instance | Shows |
|---|---|---|---|
| `snowflake_ids` | `CollisionOnlyAfterRestart` | 3 instances (one misconfigured), 1 thread, 3 ms, 2 ids per ms, one set-back, 2 incarnations | equal ids only from one instance restarted within a millisecond |
| `snowflake_threads` | `IncreasingIds`, `CallsEnd` | 1 instance, 2 threads, 4 ms | ids increase, every call ends |
| `resources` | `BusyCounts`, `NoSharing`, `PoolOwnsConnections`, `RefusedOnlyWhenExhausted`; `HeldByItsServer`, `AnsweredBeforeEnd`, `Released`; `ProducedInOrder`, `ReportedOnce`, `RetryEnds` | pool of 3 slots, 4 addresses, 2 borrowers; three servers, 2 clients with 2 messages; producer with 4 lines and a queue of 2 | flags, counter and loans agree through any call sequence; no connection is kept too long, no message of an orderly client dropped, no client that has gone left unreleased; the retry neither repeats, reorders, skips nor spins for ever |
| `http` | `OwnAnswer`, `DescriptorsOwned`, `Answered` | 3 clients at once in 3 mixes of requests, 2 descriptors, one connection that is reset, cut or gets no thread | answers of other clients come only from the two races; descriptors are lost and clients left waiting only by the race on `cfd`, a thread that was not created, or the end of the process |
| `kafka_consumer` | `ExactlyOnceIfClosed`, `LossBounded`, `StopEnds` | 3 messages, 3 starts, 3 signals | what signals and restarts may lose or repeat |
| `java_threads` | `PrintedIsFinal`; `WaitsForAReason`, `IsBoundedBuffer`, `BasketKeepsTrading`; `ProducerLeft`; `OneProviderPerService`, `ClosedUnlessRaced` | 3 threads of 2 increments; basket of 10, followed up to 60 pieces; list of 10, up to 12; 2 callers, 3 services, an array of 2 | what is left of a racing counter; no lost wake-up, a bounded buffer until a wait of the farmer ends by itself, both threads go on; a producer nobody notifies; a provider cache closed while it grows |
| `streams` | `TransfersExact`, `LineIsRestThenStream`, `AnswersKept`, `SocketCallsEnd` | 2 descriptors, 3 bytes each, buffer of 2; 7 answers, pieces of 3 | which bytes wrappers and clients return, what they report, and that they end, but for two calls that never do |
| `algorithms` | `TextCutRight`, `ReportsCutRight`, `DigitsExact`, `CipherLaws`, `BigNumLaws`, `KeyArithmetic`, `Decrypts`, `Sorts`, `ChecksumLaws`, `RsaRoundTrip` | see below | the functions agree with their reference definitions |
| `http_peer` (violation) | `ReadsItsPeer` | 2 clients at once | a thread reads another connection than its own |
| `producer_flush` (violation) | `EveryMessageReported` | 4 lines, queue of 2 | a message in the queue when the flush gives up gets no report |
| `basket_full` (violation) | `BasketBounded` | basket of 10 | a wait that ends by itself overfills the basket |
| `getln_lines` (violation) | `LinesOfHttp` | texts of up to 4 characters | `getln` does not count the lines of an HTTP text |

The last four are the cases where the code does not do what a comment of it says,
see [observations](#observations). `java_threads`, `streams` and `resources`
explore several independent programs in one state graph: the variable `demo` says
which one a behaviour is about.

**Why the bounds are enough.** Snowflake: two ids per millisecond make the
sequence wrap after the second id, and four milliseconds leave room for a wait,
a set-back and a second wait. Pool: three slots and two borrowers reach
exhaustion with loans on both sides, and the fourth address lets a re-created
pool reuse some addresses and not others. HTTP: with two descriptors a third
client finds the table full or gets a reused number; one faulty connection
(`MaxFaulty`) meets two others in every order, and the theorems have no such
bound. Streams: three bytes are
more than the buffer and less than two fillings, so a line ends within, at and
behind a filling, and two descriptors suffice to meet the other's rest. HTTP
clients: answers end at, before and behind a multiple of the piece, with each
form of head end. Echo servers: two clients overlap in all orders, and the second
message of a client can be sent before or after the first is answered. Consumer:
three messages separate printed, in hand and unread; the second and third start
see what an abnormal end left. Producer: four lines through a queue of two retry
twice. Counter: three threads are needed for an old value to undo the increments
of two others. Discoverer: two callers ask for the same service or for two, and
with an array of two the third provider moves the list. Basket: once overfull it
only grows when the child is slow, and 60 is far beyond what the properties tell
apart; the list needs one product beyond its limit. Where a theorem covers a
property the bound does not matter.

Texts of up to six characters hold one head end with something before and after
it, and objects of two pairs (`MaxPairs`) a key found in another key or in a
value. Reports have every length next to a boundary of the layouts, of the static
buffers and of the whole event report. Big numbers
in C lie on both sides of arrays of 2, 4 and 8 digits; products have at most nine
digits and factorials stop at 12, because their values must be integers of TLC.
Limbs in base 4 make every carry and borrow happen in numbers of up to five
limbs. Paillier keys come from primes of one digit in base 8, the primality test
from a table of one prime, so that composites with small factors reach the
Rabin-Miller part. Arrays of up to four values contain all orders with repetitions.
DES is run on 30 pairs of key and message; the theorem covers all of them.

**Fairness.** `Tick` (time passes) and the thread inside a monitor are weakly
fair for Snowflake. The accept loop and the threads of the HTTP server, a wrapper
that was called, a client that was started, the main loops of the Kafka
programs, and the threads of the basket and of `WaitNotifyTest`, but not what
ends a wait by itself, are weakly fair:
the scheduler runs what can run, and blocking calls are only enabled when they
return. Each server process and each child of the echo servers is weakly fair on
its own; the user of a `uni_sock_cli` is assumed to come to an end of the input,
because the next client is served only then. The producer also assumes that the
library settles each message, which `message.timeout.ms` guarantees. Other
clients, servers seen from a client, signals, crashes, resets and clock
adjustments are never fair.

**Deadlock** is not checked: the programs end, wait for clients that need not
come, or reach a bound. That nobody waits for ever where the code means to go on
is what the liveness properties say.

**Mutants.** Each property of each passing run has a mutated definition beside
the original (`Mutant: ...`), a plausible slip that makes TLC refute it.

## Proofs

8845 obligations, all checked by TLAPS, for every value of the constants that the
named assumptions allow. The proofs about processes have the same shape: an
inductive invariant (`IInv`, or named after the part where a module has several),
a lemma that `Init` implies it, lemmas by action that a step keeps it, and the
property as a consequence. Those about functions prove what the function returns,
and the invariant only says that it is what was returned.

* `SnowflakeProofs`: `TypeCorrect`, `Increasing`, `NoCollision`, from
  `SnowflakeAssumption` (positive field sizes, distinct pairs of worker and
  data-center ids). The order of ids is not inductive: a call that blocks has
  already reset `sequence`. `IInv` adds who owns which monitor (`MonitorInv`),
  that live instances passed the constructor (`ValidInv`), that the fields bound
  what was issued unless a call blocks (`FieldsInv`), and that earlier ids are
  before later ones in time and sequence (`OrderInv`). The lemmas `PackOrder`
  and `PackInjective` carry that over to the packed number.
* `ConPoolProofs`: `TypeCorrect`, `CounterIsRight`, `LentMarked`, `Exclusive`,
  `OwnsConnections`, `RefusesRightly`, from `ConPoolAssumption`. `IInv` adds what
  each phase fixes, that filled slots hold distinct open connections, and that
  flags and loans correspond while there is a pool; `MarkSlot` and `ClearSlot` count flags when one
  changes. For `RefusesRightly` the slots and the lent connections are counted
  against each other, and the first idle slot is the least element of a
  well-founded order.
* `HttpServerProofs`: `NoLeak`, `RightAnswer`, from `HttpServerAssumption`, for
  any number of clients, descriptors and faulty connections. The history variables `late` and
  `overlap` split the argument. Without a late read, a thread works on the
  descriptor of its own connection and that one stays open (`OwnerInv`), which
  needs that a connection is queued, described and served once, or has no thread
  (`ListenerInv`). Without overlapping parses, at most one thread is in the
  parser (`ParserInv`), and what it finds in the static buffers is its own, as far
  as the cut of its request left it (`AnswerInv`): the overlong `memset` comes
  before the thread's own data are written.
* `TransferProofs`, the echo servers: `RightHolder`, `ServedInFull`, from
  `EchoServersAssumption`. `DescriptorInv` says which descriptors each process
  may have at each point of the server; `ServedInv` that a connection is queued,
  held, or served in full, and, right after `fork`, held by the child as well, so
  that the parent may close it.
* `TransferProofs`, the stream wrappers: `StreamsTransfersExact`,
  `StreamsLineIsRestThenStream`, from `StreamsAssumption`, for any number of
  descriptors, sizes and bytes. A property of returned calls says nothing during
  the call; `ReadInv` and `WriteInv` say what has been transferred at each system
  call. `LineInv` follows the bytes of `Readline` through the static buffer: what
  it has, followed by the buffer, is the rest it found followed by what came
  since (`LineByte`).
* `TransferProofs`, the Kafka producer: `InOrder`, `OneReportEach`, from
  `KafkaProducerAssumption`. `IInv` adds that a line in hand was not accepted yet
  and is larger than all that were (`ProducerLineInv`), and that a message waits
  either for the broker or for its report until the producer is destroyed
  (`SettledInv`). Lines that the library refuses for another reason than a full
  queue are skipped, and `InOrder` names them.
* `ClientsProofs`, the Kafka consumer: `ExactlyOnce`, `AtMostOneLostPerBadEnd`,
  `AtMostOneRepeatPerBadEnd`, from `KafkaConsumerAssumption`, for any number of
  messages, starts and signals. A loss shows only after the next start, when the
  handle with the message in hand is gone; `MissingInv` counts it from the end
  that caused it. `RepeatInv` says who may still be handed a message that was
  printed as often as allowed, `CleanInv` that without a bad end the offset store
  tells what was printed.
* `ClientsProofs`, the HTTP clients: `ClientsKeepAnswers`, from
  `HttpClientsAssumption`, for answers of any length and pieces of any size.
  `DownloadInv` says what the counter of line ends knows of the last bytes read,
  so that it reaches four at the first end of a head and at no other place.
* `JavaThreadsProofs`, the basket: `NoLostWakeup`, `NeverOverfull` and
  `Refinement` for every capacity, with waits that end by themselves. The last
  two hold until one of the farmer's does (`woken`); waits of the child may end as
  they like. The bound is inductive only together with `ResumesRightly`, what a
  notified farmer may rely on without looking again.
* `JavaThreadsProofs`, the counter: `FinalValue`, from `AtomicTestAssumption`
  (the total is a multiple of the number of threads). The latch is the number of
  turns still to be counted down (`LatchInv`); the field, and every value read
  from it, stays below the total by the number of writes to come (`UpperInv`);
  the last write of all follows a read of a positive value (`LowerInv`).
* `JavaThreadsProofs`, the service discovery: `OneProvider`,
  `ClosesWhatItFound`, from `DiscovererAssumption`. A caller between the second
  look and the put owns the lock (`LockInv`), so a listed provider is in the map
  or about to be put there by that caller (`ListInv`); `CloseInv` says what the
  iterator has closed of the providers its thread is bound to see, and that no
  thread is bound to see more than the list holds.
* `HttpTextProofs`, loops: a loop of the C code is a recursive function of the
  number of turns in the model. `LoopInduction` is induction up to a bound, as a
  statement about a set; `LoopRuns`, `LoopUnfolds` and `LoopIs` say that such a
  definition has a solution and that it is the run of the loop. `AlgorithmsProofs`
  uses them too.
* `HttpTextProofs`, the functions: `TextIsCut`, from `HttpTextAssumption`, for
  texts of every length, objects of every size and any `n`. A loop waits, then
  copies, then has stopped; `Copies` says what the target holds from the place
  where copying began, and `CopiesUpTo` that it ends as `UpTo` does. What differs
  is where copying begins: `BodyIs` (the least end of a head), `LineIs` (the line
  feed that begins line `l`, in a text without carriage returns). For
  `getjsonv`, `PairWithin` finds each pair in the text of its object, `FindsKey`
  runs the loop up to the colon, `StringValueIs` and `NumberValueIs` over the
  value, and `StopStays` says that the index of the terminator is where the loop
  was left first.
* `AlgorithmsProofs`, the report parsers: `ReportsCut`, from `ReportAssumption`,
  for reports of every length that have a defined result. `SideBySide` is a row of
  fields without gap or overlap; a layout cuts such a row if each cut is as wide
  as the move behind it (`CutIs`), two rows that meet are one (`Joined`), and so
  every path through either parser ends with one (`ParsersCut`). `CDefined` bounds
  what is written into the static buffers, and where an argument is read.
  `ParsersGiveTheSame` follows the two programs side by side on a report with an
  application id; `PythonIsLater` follows them 46 characters apart on one without.
* `AlgorithmsProofs`, DES: `CypherIsRight`, from `DesAssumption`, for all keys
  and messages, 2^64 of each. The conversions to and from bits, bytes and digits
  are inverse (`BytesBack`, `HexBack`), so are the two permutations
  (`Permutations`) and the rounds under one sub-key, whatever the S boxes hold
  (`RoundUndone`); by induction `decrypt` goes back through the rounds of
  `encrypt` (`RoundsUndone`). Inverting all bits goes through the key schedule
  (`SubKeysAre`) and each round (`RoundInverted`). That `s_change` never leaves a
  box is part of it (`SChangeIs`).

Only model-checked:

* all liveness properties: fairness is beyond the prover;
* `DigitsExact`, `BigNumLaws`, `KeyArithmetic`, `Decrypts`, `RsaRoundTrip`: they
  rest on powers, and the last three on number theory (Fermat's theorem), about
  which the prover knows nothing;
* `Sorts`, `ChecksumLaws`: `q_sort` and Euclid's algorithm are recursive operators,
  which keep the prover from their module.

## Observations

Found while modelling. Four have a run of their own, named in brackets, which
shows that the code does not do what a comment says; for the others the
properties named state exactly when they happen.

Servers and clients:

* `cpp/http/server.c:66` passes the address of `cfd` to every thread; a thread
  that reads it after the next `accept` serves another connection (`http_peer`).
* `cpp/http/server.c:66` ignores the result of `pthread_create`: when it fails the
  descriptor stays open, the client waits for ever, and an uninitialised `t` is
  detached (`DescriptorsOwned`, `Answered`). `server.c:106`, in a function nobody
  calls, uses `_MSG_`, which is defined nowhere, so the file does not compile as
  it is.
* `cpp/http/dispatcher.c:49` answers `/dn/dt` from an uninitialised pointer, and
  lines 31-36 and 45-47 answer from a buffer whose block has ended
  (`OwnAnswer`).
* `cpp/http/dtparser.c:52` clears 1024 bytes of a buffer of 512 (`OwnAnswer`).
* `cpp/tcp_concurrent.cc:123` assigns `errno=EINTR` instead of comparing: `Readn`
  reports a reset connection as its end and reads a bad descriptor for ever
  (`TransfersExact`, `CallsReturn` in `SocketCallsEnd`).
* `cpp/tcp_concurrent.cc:191` compares a character with the string `"\n"`, so
  `Readline` does not stop at a line end; it returns `maxlen` for `maxlen - 1`
  bytes. `my_read` keeps one static buffer (lines 162-164), so the rest of one
  descriptor is given to the next (`LineIsRestThenStream`).
* `cpp/tcp_concurrent.cc` uses `catch_child` and `request` without a declaration
  and does not compile as it is.
* `cpp/tcp_server.c` never comes back from its first client, and a client that
  has gone ends it with SIGPIPE (`Released`).
* `cpp/http.c:83` does not set the descriptor set again before the next `select`:
  a poll that comes too early is never followed by one that sees the answer.
  `cpp/http/peer.c:46` takes a short `recv` for the end, and its error return of
  -1 is added to the length (`AnswersKept`, `ClientsEnd` in `SocketCallsEnd`).
* `cpp/httpClient.c` takes any four consecutive CR or LF for the end of the head,
  and appends to the file of an earlier download.
* `cpp/kfk/consumer.c:249` dumps the destroyed handle when the fifth wait
  succeeds.
* `cpp/kfk/producer.c:183` destroys the producer after a flush that timed out,
  with messages that never get their report, against lines 94 and 180-182
  (`producer_flush`).
* `cpp/mysql/dbpool.c:20` says `busy in range [0, size-1]`; `busy` equals `size`
  when all connections are lent. `destroy_pool` closes connections that `main`
  still holds (`PoolOwnsConnections`).

Java:

* `Farmer.java:9` waits under `if`: a wait that ends by itself overfills the
  basket, against `Kuang.java:5`, and the test for exactly ten then stops the
  farmer no more (`basket_full`).
* `WaitNotifyTest` never ends: the producer is left waiting before a full list
  (`ProducerLeft`).
* `ServiceDiscoverer.close()` is synchronized on another object than the one
  under which providers are added: it may miss providers other threads added
  before it began, or fail with an exception (`ClosedUnlessRaced`).

Functions:

* `cpp/algorithm/big_num.c:305` writes the last carry without a test for room:
  `191 * 55` writes beyond the array. `big_num_add` reads undefined digits when
  the operands differ in length and share an array size (`999999 + 10000`). Both
  were confirmed with the compiled program. `DigitsExact` states exactly when it
  can happen; ten-digit ints overflow in `my_pow`.
* `cpp/BigNum.cpp:444-449` loses a borrow that meets a zero limb, because the
  comparison is made after the borrow was taken off (`LimbsExact`). The class
  assumes that `unsigned long` is as wide as a limb; where it is wider the
  carries are not cut off. `operator==` tells zero from minus zero, and `operator!=`
  (lines 652-658) is false for different numbers of different sign.
* The Rabin-Miller test of `BigNum.cpp` requires of its random bases only that
  each differs from the one before: base 0 rejects a prime, and a composite such
  as 25 passes with its strong liars (`PrimalityTest`).
* `rsa_demo.c` with the factors 7 and 11 returns characters modulo 77, so no
  letter of its own text comes back (`RsaRoundTrip`).
* `rsa_deploy.c:56` copies eight digits into `char int_str[8]`, which leaves no
  terminator: the numbers are right only if no hex digit happens to lie behind it
  (`RsaRoundTrip`).
* The tables of `3des.c` are not those of DES: PC-2 has 34 for 45, and two rows of
  the S boxes have 0 for 9. `CipherLaws` cannot tell: decryption undoes encryption
  with any tables of this form.
* `cpp/http/util.c:58` counts CR and LF each as a line end, so that line 1 of an
  HTTP text is empty and line 2 is what `util.h:23` calls line 1 (`getln_lines`).
  `getjsonv` reads on behind a number, and `util.c:130` writes its terminator at
  the index of the source, outside a target of `n` characters when the value ends
  later (`ValueOfKey`). The other functions write it behind `n` characters when
  they copied as many, and their callers pass the size of the target as `n`.
* `py/dt_parser.py:27` tests `seq >= 0`, which always holds: on a report without
  an application id every field is 46 characters behind that of C
  (`ParsersAgree`). The C text of a report of more than 510 characters may outgrow
  its buffer, and `dtprs`, which takes the report as an argument, may read behind
  one of less than 380 (`Defined`). `dtparser.c:150` leaves `"ext":`
  without a value for ids that end in neither 2 nor 3.

## What is not shown

The Java memory model is taken as sequentially consistent where `volatile` and
monitors justify it. Two reads share no lock with the writes, that of the map
before the lock and those of the list in `close()`; they may find old values.
What else an unsynchronized `HashMap` or `ArrayList` could do while it is changed
(a look that finds a wrong entry, say) is left out. So are the target buffers of
`util.c` and of `peer.c` (the texts are what was written, not where it ends up),
log output, option parsing, negative ints in `big_num.c` and the release of
memory. Libraries (librdkafka, MySQL, Curator, the kernel's sockets and descriptor
table, the virtual machine's wait sets) are modelled from how the code uses them
and marked external. Signals of `tcp_concurrent.cc` other than interrupted calls,
and the URL parsing of `httpClient.c`, are left out. `BigNumCpp` is checked in a
small base and `Paillier` on numbers, so that a 32-bit limb and a key of full
length are covered only as far as the algorithms do not depend on the base.

## Not modelled

About two thirds of the C code and most of the Java and Python code stay out:

* GTK demos (about a third of the C code): widget layout, callbacks that run one
  at a time and mirror the state of widgets.
* Floating point (`get_root.c`, `draw_sin.c`, `elips.c`): no such numbers in TLC
  or TLAPS.
* Programs that make a few library calls in a straight line: `crud.c` (which
  returns without `mysql_close` on errors), MQTT, ODBC, Redis, pipe, fork and
  thread demos, mail, proxy, Spring, JNI, most of Netty.
* `cpp/algorithm/rsa_test.c`: calls of OpenSSL on keys read from PEM files.
* `cpp/test/eipd.c`: a fragment whose row operations are stubs and whose `main`
  does nothing.
* Java demos in which threads share nothing that changes (`RpcFramework`, the TCP
  chat) or whose behaviour is that of a library (`javax.crypto`, the database's
  row locks, the selector of `NioSelectorServer`, which dereferences a null
  accept). `LockUnlock.doWork` waits on a condition nobody else can reach, but
  `main` does not call it.
* Generated protocol buffers, and Python scripts that read spreadsheets, draw
  plots or call services.
