# csptp: specification, model checking and proofs

TLA+ modules for csptp, a client and a service of the Client-Server Precision
Time Protocol over UDP (`src/`), with the TLC configurations that check them on
small instances and TLAPS proofs of what holds on all of them. Paths below are
relative to the repository; `file.c` without a path is `src/file.c` in it.

## The system

A client process runs `client_main_flow` for ever, a service process
`main_flow`. In one flow the client sends a Sync request (and a Follow_Up when
it is a two-step client), then polls until it has a Sync answer with a RESPONSE
TLV and, if that Sync announces one, a Follow_Up. Four times result: T1 and R1
(departure and arrival of the request), T2 and R2 (departure and arrival of the
answer). The processes share nothing but datagrams. Each is single-threaded,
except that a SIGINT handler may run at any point. The library behind them also
has a thread object and a store of transmit times for use by two threads; the
service has the code that uses the store disabled (`#if 0`, main_service.c:251-255).

| component | state | operations | hard behaviour | what makes it correct | modelled in |
|---|---|---|---|---|---|
| client (`main_client.c`) | `client_state_t`: params, t1 r1 t2 r2, one buffer; the flow's wait, loops, timeouted; `*sID` | `client_main_flow` and the functions it calls, `allocObjs`, `clean`, the SIGINT handler | late, reordered, duplicated and unusable datagrams; ids that wrap; a flow that returns early; polls against the cycle; allocations that fail half-way | the four times belong to one answer to one request; every flow ends; a cycle passes between flows; all is freed once | `Csptp`, `Msg`, `Process` |
| service (`main_service.c`) | `service_state_t`: params, rxTs, t2, address, one buffer | `main_flow`, `rcvReqSync`, `sendRespSync`, `sendFollowUp`, `allocObjs`, `clean`, the SIGINT handler | one state for requests of many clients; answers built in the request's buffer; a send that fails half-way | an answer combines the data of one request; it has what was asked for, in the request's size; all is freed once | `Csptp`, `Msg`, `Process` |
| sockets (`sock.c`) | descriptor and type; an address' type and sockaddr | init, initSrv, close, free, send, poll, recv; the address' getters and setters, `addressStringToBinary` | failures, timeouts; descriptor numbers that the kernel hands out again; a name service that answers with either family | an open descriptor has one owner; families of socket, addresses and datagrams agree | `Csptp` (send, poll, recv), `Sock`, `Devices`, `Process` |
| messages (`msg.c`), buffer (`buf.c`) | `_end _len _left _tlvs` against the buffer's size, length and contents | init, nextTlv, addTlv, addCSPTPReqTlv, buildDone, parse | sizes at their limit; byte order converted in place in a buffer that is used both ways | the fields agree; a message is parsed as it was built | `Msg` |
| time stamps (`time.c`) | seconds and nanoseconds | conversions, arithmetic, sleep | range and sign at the borders | conversions are inverse; operations compute with nanoseconds exactly; sleep sleeps | `Csptp` (sleep), `TimeStamp`, `Devices` |
| thread object (`thread.c`) | `_run`, `_ret`, the thread | create, join, isRun, retVal, free, `_start` | relaxed atomics; join and free in any order; calls that fail, in two builds; a null function | one `thrd_join`; the result is seen after join; an object has a thread | `ThreadObj` |
| store (`store.c`), list manager (`slist.c`), mutex | sorted lists of a hash table, a free list, counters | update, fetch, cleanup, free | a cleaner in another thread, with its place kept between critical sections; a read after the unlock | an atomic map; lists sorted, disjoint and counted | `Store`, `StoreMap` |
| options (`opt.c`, `opt_check.c`, `cmdl*.c`, `cfg.c`) | a list of records, of each whether it is set, to what, and whether the string is its own | getopt's string, parseSkey, parseKey, getValSkey; `cmd_base`, `cmd_client`, `cmd_service`; lines of a file | several mentions of an option in two sources; strings owned by an object that is freed; failures half-way | the command line wins, then the first mention; all is freed once | `Options`, `Process` |
| log (`log.c`) | level, echo, syslog and whether it is open | `setLog`, `doneLog` | set twice, the second time the other way | the log is what the options say; syslog is open when it is used | `Process` |
| network interface (`if.c`) | name, index, MAC, addresses, PTP clock; `_init` | alloc, intIfName, intIfIndex, getIPv6, bind, free | eight calls of which any may fail; a second attempt on another interface; hardware settings that another program made | all data is of one interface; it stamps what the step mode needs | `Devices` |
| PTP clock (`phc.c`) | descriptor, clock id, index, name | alloc, initDev, initIndex, getTime, setTime, offsetClock, setPhase, free | a clock id made of a descriptor that may be closed and reused; names that are links, or no clocks; a phase correction that the clock makes later | the object sets and steps the clock it was opened for, exactly, and no other | `Devices`, `TimeLine` |
| byte order (`swap.h`, `common.h`) | - | macros | converted twice or never | each field once | `Msg`, `TimeStamp` |

`PROJECT.json` lists the components with their status, the hazards at their
lines with the properties that cover them, and for each definition the lines of
code it stands for.

## Modules

**Csptp** - clients, service and network. A client's `pc` is where
`client_main_flow` is ("send", "followUp", "poll"); one action per send, per
outcome of a poll (expired, unusable datagram, stale datagram, Sync, Follow_Up)
and for the end of a flow. The service's `spc` separates reception, Sync answer
and Follow_Up, so that clients run in between. `net` is a set of datagrams,
hence unordered and lossy (nothing has to be received); `MsgLife` says after how
many later requests a datagram is gone. `Faults` names what else may happen:
expired polls although an answer is under way, duplicates, unusable datagrams,
a Sync without RESPONSE TLV, failing sends. A time is represented by the request
and the answer it was read for: that is all the control and the properties
depend on.
Mutants, defined next to the operator they alter, are never part of `Next`.

**CsptpExchange** - what the exchange promises: an exchange is opened by asking,
completes only with four times of one answer to that request, and is closed.
The refinement mapping is the last part of `Csptp`; **MCCsptp** names the clients.

**CsptpProofs** - types and the request of a result. **CsptpReplies** - the
answer of a result, the steps of `CsptpExchange`, and the length of a flow.

**Msg** - buffers, message objects and the sizes both sides choose. An operator
per function of `msg.c`, from and to `[ok, msg, buf]`; `ok` is the value of the
`&&` chains. A buffer's contents are header and TLVs with place, length and byte
order. Actions: the client's sends, the service's `main_flow`, the client's
receive, a lost datagram. The client's flags go into the REQUEST TLV (`AddCSPTPReqTlv`), and the
service reads them from the parsed datagram (`RcvReqSync`). **MCMsg** adds the symmetry of clients. **MsgProofs** -
all its properties.

**ThreadObj** - the owner's and the watchers' calls and the thread's steps in
`_start`. A relaxed load returns the current value or the reader's last view;
a `thrd_join` that succeeds brings the owner's views up to date. What the caller
and the library may do is input: `Functions` with which threads are created (a
null one skips both stores, thread.c:76), `Failures` of creation and join, and
`Builds`, since a failing `thrd_create` is noticed and a failing `pthread_create`
is not (thread.c:105-116). `misjoined` is a ghost: `thrd_join` was called without
a thread to join, which is undefined and may report either result. **ThreadProofs** - its safety,
for any watchers.

**Store** - `store.c` on `slist.c`. A critical section of the manager's mutex is
one action; `fetch` is two, since it reads the record after the unlock
(store.c:116); a cleanup is one action per section of `cleanUpNodes`, with `prv`
kept between them. **StoreMap** is the abstract map; the refinement mapping is
the last part of `Store`: a fetch takes effect at its lookup. **StoreLists** - what
linked lists are, as sequences, and how insertion and removal change them.
**StoreProofs** - the store's safety and its refinement.

**TimeStamp** - `time.c` as operators on `[sec, nsec]`, with the sizes of a
millisecond, a second, the 48 and 64 bit ranges as parameters. What they compute,
for all values, is the first part of **DeviceProofs**.

**Sock** - addresses, sockets and `addressStringToBinary` as operators. The
methods that `sock.c` has twice (`a4_`, `a6_`) are one operator with the family
as a parameter. `getaddrinfo` gives any list a name service could. The kernel's
table of descriptors gives the smallest free number. `calls` is how many of a
method's system calls succeed before one fails.

**Devices** - a program that uses an interface object, a PTP clock object, a
socket, an address and a time stamp, in any order, on the same table of
descriptors. Each field of the interface object holds the interface it was read
from. Another program may reconfigure an interface at any time. `setPhase` only
leaves a correction with its clock (`phase`); the clock's servo makes parts of it
whenever it likes (`ServoCorrects`), also after the object is gone. That a new
correction replaces what is left of an earlier one is an assumption on the driver.
`Programs` is which objects are used together. **TimeLine** is the abstract view:
a time in hand, clocks as numbers with what they still owe, and one clock that is
the program's own between opening and closing it, which alone it may set, step
or have corrected. The mapping is the last part of `Devices`: own is the clock
whose index an initialised object tells.
**DeviceProofs** - its safety and its refinement.

**Options** - records and values of `opt.c`, the check of `opt_check.c`, and a
line of a configuration file. A text is a number, a word or nothing; `NoKey`
stands for an empty key and for no letter.
**Process** - a program from `main` to exit: `cmd_base` with a step per option
and per line of the file, the log, the structure that `cmd_client` or
`cmd_service` fills, `allocObjs` with a step per object, `signal`, the receiving
of the flows, `clean`. `heap` counts for each block how often it is allocated;
`given` is a history of what was mentioned first. Every allocation and call may
fail. `Texts` are the values tried: both ends of a range, one beyond, words,
numbers where words are meant. The assumption `OptionsDistinct` evaluates
`opt_duplicates` (a developer's check, disabled at cmdl.c:88) on both tables.
**ProcessProofs** - all its properties.

Integers: `seq` wraps at the constant `SeqMax` (0xffff in the code). `getTs` wraps at `HalfWord`
(2^63). The other quantities stay far from their width: sizes under 300, polls
at most 51.

## Runs

| run | question |
|---|---|
| `exchange` | With late, reordered and unusable datagrams and ids that wrap: are the times of a result those of one answer to the flow's own request (`Matched`, `SameReply`), is a flow's length bounded (`PollsBounded`), does the system implement `CsptpExchange`? Also the inductive invariant (`ExchangeInv`). |
| `faulty` | A two-step client and a two-step service, with late and duplicated datagrams, failing sends and Syncs without a RESPONSE TLV: do results come from answers only (`OnlyAnswers`), and does every flow end (`FlowEnds`), although accepted messages take no poll from its budget and half an answer may be all that comes? |
| `timely` | Two clients and a network that delivers in time: is every request answered (`Answered`) and does a cycle pass between flows (`CycleKept`)? |
| `message_sizes` | Two clients with every combination of options, one service with every combination of its own, and losses: does the answer always fit and have a legal padding (`AlwaysAnswered`), the request's size (`SameSize`), the TLVs that the flags in its REQUEST TLV ask for (`AnswersRequest`); is each message parsed as built (`ArrivesAsBuilt`); do `_end`, `_len`, `_left` and the buffer agree (`Accounting`)? |
| `thread_object` | Calls in every order with every outcome of the loads, both builds, with and without a function, with failures: one `thrd_join` of a thread that has a function (`JoinedOnce`), no false success (`RetValSound`), the final state seen after a join that waited (`JoinSynchronises`). |
| `store_lists` | A worker against the cleaner: `ListsWellFormed`, `CleanerOnList`, `Swept`, `CleanupSpares`, `CleanupEnds`. |
| `store_map` | The same as an atomic map (`ImplementsMap`), and the record read after the unlock is the right one (`FetchRight`). |
| `devices` | Every order of calls on two kinds of objects, with a failure at each system call: does each open descriptor belong to one object, of its kind (`DescriptorsOwned`), is an interface object of one interface after earlier failures (`WholeInterface`), does it get the stamps its step mode needs (`HwStampsAsked`), do time stamps compute exactly (`Arithmetic`), and is what the program does to a PTP clock done to the one whose index its object tells, by exactly the time in hand, and to no other (`ImplementsTimeLine`)? |
| `process` | Both programs, from `main` to exit: precedence of options (`CommandLineWins`; of strings that only the file gives it says nothing, see below), the log (`LogFollowsOptions`), memory and descriptors on every way out (`NothingLeaks`), address families (`FamiliesAgree`). |

Three runs end in a counterexample, each a disagreement of the code with what it
or its documentation says:

- `id_reuse`: `client_main_flow` returns at main_client.c:181 when the Follow_Up
  cannot be sent, with the Sync already sent and `*sID` not advanced. The next
  flow uses the same id and accepts the answer to the earlier request:
  T1 is of one request and R1 of another (main.h:41-60).
- `cycle`: `t_sleep` (time.c:138) does nothing for less than a second. After one
  expired poll 950 of 1000 ms are left and the next flow starts at once,
  although main_client.c:240 says "Sleep to next cycle".
- `thread_join`: `_start` clears `_run` before it stores `_ret`
  (thread.c:78-79), and `_join` returns true on `_run` being false: the object
  may be freed, or its result read, before the thread is done with it
  (thread.h:44, "return true once thread exit").

Met while modelling, without a run of their own:

- Sync and Follow_Up are paired by `sequenceId` alone (main_client.c:188-211).
  If UDP duplicates a request, the service answers twice, and the client may
  take R1 and R2 of one answer and T2 of the other: with `"duplicates"` among
  `Faults`, `SameReply` is violated. `exchange` leaves duplicates out.
- In the pthread build a failing creation is looked for by `e < 0`
  (thread.c:113), but `pthread_create` returns positive errors: the object is
  handed out without a thread, where thread.h:64-67 promises "a new thread with a
  new thread object" or null. `join` and `free` then join nothing. `ThreadObj`
  does the same; `TypeOK` has a thread for every object in the C11 build only.
- `thread_create` takes a null function, and `_start` then skips both
  stores (thread.c:76): `_run` stays true, so that after a join that waited `isRun`
  still says the thread runs (thread.h:49-51), and the next `join` or `free` calls
  `thrd_join` again. `JoinedOnce` and `JoinSynchronises` are of objects with a
  function.
- `_buildDone` adds the PAD to `_len` (msg.c:480), which msg.h:165
  calls the "message data length without padding" and `getMsgLen` returns, "The
  message size exclude padding!" (msg.h:270). `utest/msg.cpp` follows the code, and
  so does `Accounting`: client and service rely on `_len` including the PAD.
- `cmd_client` takes a pointer to the address string and frees the
  options object (cmdl_client.c:54-56). A string of the command line is in `argv`; one
  of the file belongs to the object, and `client_main_create_address` reads it after
  the free (main_client.c:37). `Process` marks it `freed` and lets it have any
  contents: the client may then ask another service than the one named.
  `CommandLineWins` excepts these strings.
- `setHWTS` keeps filters that stamp Delay_Reqs only, under the comment "Any of
  the follow, support PTPv2 layer 4 Sync" (if.c:83-90): `HwStampsAsked` excepts
  them.
- "false" is not a Boolean, "flase" is (opt.c:133).
- `opt_duplicates` returns true if there is no duplication, opt.h:109 says "true
  if found any duplication".
- The check at main_service.c:238 can never fire: it tests one flag against
  itself.
- `cfg_alloc` may fail and its result is used (cmdl.c:144-145): phase "crashed".
- After a wrong configuration file the program exits without `doneLog`
  (cmdl.c:157); the kernel closes the log's socket.

### Bounds

- `SeqMax = 2` with `MaxReq = 4` lets ids wrap twice, with answers to earlier
  requests under way (`MsgLife = 2`, the largest life for which an id is not
  reused too early). The proofs remove these bounds.
- `WaitLoop = 2` allows a flow to give up, to succeed at its last poll and to
  succeed after a failed one. `PollMs` and `CycleMs` have the code's values.
- `faulty` trades `MsgLife = 1` and `MaxReq = 2` for four faults at once with two
  steps on both sides. `WaitLoop = 1` is fewer than the messages that a flow may
  accept: Sync, Follow_Up and a copy of it. Unusable datagrams ("noise"), which carry
  no time and cost a poll, are in `exchange`. `timely` has one one-step and one
  two-step client.
- One duplicate at a time (`MaxCopies`): more only repeat it.
- Store: the bounds are for TLC, the proofs remove them. Three nodes give a list with head, middle and tail, and an insertion
  that finds no memory; four addresses over two lists collide; a clock of two
  values separates old from new. `store_map` uses one list and two nodes so that
  records differ in id and time as well.
- Thread: one watcher, one object. Calls are not counted; the proofs allow any watchers.
- Msg: `ServiceBuf` 256 as in the code; both address families on both sides
  independently; no name, and an odd one of nine characters, padded to the ten
  the client reserves; two datagrams queued for each peer (`MaxWire`). The code
  fills the service's clock data by `dummyClockInfo` (IPv4, "CEST") and says it
  "comes from configuration" (main_service.c:27): the values range over what the
  functions that add the TLVs allow.

- Time stamps: a second of four nanoseconds (`MsecPerSec = NsecPerMsec = 2`),
  milliseconds up to five of either sign, that is more than two seconds, 48 bits
  that hold times 0 and 1, 64 bits that just hold all times within `SecBound`.
  The proofs remove these bounds.
- Devices: two interfaces, two clocks and two descriptors, one of which may be
  taken by another object; failures leave one interface's data for the other.
  A servo has one nanosecond to correct (`PhaseBound`), of either sign. A
  clock shows seconds 0 and 1 (`ClockSecs`), which the proofs remove.
- Process: four options on the command line and three lines of a file, of up to
  three options that have to do with each other (`Topics`) and the file's name:
  each option can come twice in either source. Two hosts tell a right address
  from a wrong one. Two descriptors: the socket, and the file before it.

### Fairness

Liveness assumes that each process is scheduled: in `Csptp`, weak fairness of a
client's steps together (a poll expires if nothing comes) and of the service's;
nothing is assumed of the network, which may always fail to deliver. In `timely`
the absence of faults means that a poll expires only if nothing is on its way.
In `Store` the cleaner, once begun, is scheduled, and gets the mutex because no
one holds it longer than one critical section; workers need no fairness.
`CHECK_DEADLOCK` is left on elsewhere; `Finished` is the end of a bounded run (all
`MaxReq` requests made) or of a thread. Run `process` switches it off: a program
ends.

## Proofs

`CsptpProofs` proves, for any set of clients, any `SeqMax`, `WaitLoop`,
`MsgLife`, bounds and set of faults:

- `TypeCorrect`: `Spec => []TypeOK`. `timeouted` stays in its range only because
  a poll that expires also takes one from `loops`: `TypeInv` adds
  `PollsAccounted` (timeouted + loops <= WaitLoop).
- `ExchangeInvariance`: `Spec => []ExchangeInv`, under `NoIdReuse`.
- `ResultsMatch`: `Spec => []Matched`, under `NoIdReuse`.
- `IdsIdentifyRequests`: `Spec => []LiveIdsAreCurrent`, under `NoIdReuse`.

`Matched` is not inductive: that the id check suffices depends on what is under
way. `IdsFollowRequests` says that a datagram `d` requests old carries the id
the client used `d` requests ago, around the wrap; `NetIsLive` bounds `d` by
`MsgLife`; from both, a datagram with the current id is of the current request
(lemma `OwnId`, `AcceptedIsCurrent`). `AnswersHaveTlv` says that a Sync is
accepted with its RESPONSE TLV, `FollowUpClients` that only two-step clients are
between the two sends, and `TimesOfFlow` what the wait bits say of the times
collected. Lemma `IdAdvances` carries `IdsFollowRequests` over the end of a flow;
`IdsKept` carries it over all steps that move no id. `ExchangeInv` is an
invariant of run `exchange`, too.

`NoIdReuse` is what the code needs and does not ensure: no early return of
`client_main_flow` after a send (no failing sends with two-step clients; no Sync
without RESPONSE TLV, main_client.c:205), and no datagram that outlives
`SeqMax` requests (65535 cycles in the code). Run `id_reuse` shows that the first
cannot be dropped. Duplicates, delays, losses and noise are allowed.

`CsptpReplies` goes on to the answers, `rep`:

- `TimesFromAnswers`: `Spec => []OnlyAnswers`, for every set of faults.
- `OneAnswer`: `Spec => []SameReply`, under `NoIdReuse` without duplicates.
- `StepsOfExchange`: `Spec => ImplementsExchangeSteps`, the safety part of the
  refinement, under the same conditions.

A `Reading` is a time of a request and an answer wherever it is: in a datagram
under way, in the service at work on it, or collected by the flow. Almost every
step only moves or drops readings (lemma `NothingNew`); only `TakeRequest` makes
one, of a request that has none. So `Given` (readings are of answers given) and
`AnsweredOnce` (one answer to a request, none while it is under way) are
inductive without a word on ids; `Matched` adds that the readings of a result are
of one request. In the refinement the datagram that completes a flow obtains the
result; `WaitsForBoth` says that nothing was received between the two sends.

Last, `FlowsPollLittle`: `Spec => []PollsBounded`, under the same conditions. An accepted datagram takes no poll from the budget, so the bound needs
that it is accepted once: `SentOnce` says that an answer is under way once and not
to be sent again, `Awaited` that what was received does not come again, and
`PollsCounted` counts polls against budget and messages received. Duplicates must
be excluded: copies of a Follow_Up are all accepted.

`CyclesKept`: `Spec => []CycleKept`, for a network that delivers in time (`Faults =
{}`, `MsgLife <= SeqMax`) and a cycle of a second or more. `TimelyInv` says that
what is under way belongs to a flow that waits for it, and that everything a flow
waits for is under way or will be sent: no poll expires then, so a flow that has
its result sleeps for the whole rest of its cycle (`WholePause`). The second is
needed: `t_sleep` does nothing for less than one (time.c:138).

`ThreadProofs` proves of `ThreadObj`, for any watchers, builds, functions and
failures: `ThreadTypeCorrect` (`TypeOK`), `JoinsOnce` (`JoinedOnce`),
`NoFalseSuccess` (`RetValSound`), `JoinIsLast` (`JoinSynchronises`). `RunFalls`:
`_run` of a thread with a function falls once, so who saw it false saw its last
value, however relaxed the loads. `RetRises`: `_ret` rises with the thread's second
store at the earliest, and nobody is told of success before. `JoinState`:
`thrd_join` of a thread with a function is entered only before its first success,
since after that the owner has seen `_run` false. Without a function, or without a
thread, none of this holds, and `JoinedOnce` says so: those cases are its premises.

`MsgProofs` proves all six properties of `Msg`, for any clients, names of any
length the code allows, either address family on either side, any bound of the
datagrams on the way, and a service's buffer of 160 octets or more (the code has
256, "should cover", main_service.c:247): `MsgTypeCorrect` (`TypeOK`),
`BufferAccounted` (`Accounting`), `EveryRequestAnswered` (`AlwaysAnswered`),
`SizesAgree` (`SameSize`), `ParsedAsBuilt` (`ArrivesAsBuilt`), `AnswerAsAsked`
(`AnswersRequest`: that the flags of the request's TLV are those of its client is
part of what a datagram under way is, and lemma `FlagsMade` says that the service
reads them back).

A `Layout` is a sequence of at most four TLVs of even length, more than a TLV
header each. `Made` is the message object, and its buffer, of a layout, `Posted`
the datagram. One lemma per operation says that it takes the object of a layout
to that of another, from which a request (`ReqSyncMade`), an answer
(`RespSyncMade`) and a Follow_Up are built with the TLVs and size they should
have. `SizeSuffices` has the arithmetic: the client's size is even and leaves, after
all that the service adds, more than a TLV header for the PAD: with less than
four octets `_buildDone` would fail, with four `_parse` would not see the PAD.
`ParseMade` is the way back. The invariant `Inv` is then that
every object and datagram is one of a layout; `TypeOK` or `Accounting`
alone say nothing of what is in the buffer and are not inductive.

`StoreProofs` proves of `Store`, for any addresses, lists, nodes and workers:

- `TypeCorrect` (`TypeOK`), `ListsStayWellFormed` (`ListsWellFormed`),
  `CleanerKeepsItsPlace` (`CleanerOnList`), `PassedIsSwept` (`Swept`),
  `CleanupSparesFresh` (`CleanupSpares`);
- with one worker, `FetchIsRight` (`FetchRight`) and `StoreImplementsMap`
  (`ImplementsMap`, the whole refinement: `StoreMap` has no fairness).

A list is given by `_nxt` alone, so the first task is what a chain of nodes is.
`StoreLists` shows that the walk from a head gives a sequence of distinct nodes
if there is one (`ListIsChain`), and that `_updateNode` and `_cleanUpNodes`, which
write two links each, put one node into one list or take one out and leave the
others. The walk is a recursive function; what it gives is shown by
the least-number principle on the set of lengths it is right for (`Induction`,
from `WFMin`), which needs no induction theorem with an operator as parameter.
The inductive invariant `IInv` is then about sequences. `ListsInv`: every list is
sorted and of its hash value, the lists and the free list share no node, the
counters are their lengths. `CleanerInv`: `prv` is on the list being cleaned, and
neither it nor what is before it, or in the lists that are done, is old. That
holds although other threads insert nodes before `prv` in between, since
they insert young ones, and free none. The worker's place in the list is
lost at the unlock: `Types` says no more of `node` than that it was allocated,
and any number of workers keeps the invariant. `FetchRight` needs one worker
(`OneWorker`, store.h:72: one other thread, which cleans up): the cleaner frees
the node but leaves the record in it, a second worker would write a new one
there. `OneHolder` and `RecordsHeld` turn the lists into a map: at most
one node holds an address.

`DeviceProofs` begins with `time.c`, for any size of second, millisecond and range:
`SetTsExact`, `AddMillisecondsExact`, `ComparisonsExact`, `GetTsExact`,
`WireRoundTrip`: each operation gives a normal time stamp (nanoseconds in range)
and the number of nanoseconds that it should. They rest on two lemmas about the
division of C (`Division`: quotient towards zero and remainder of the dividend's
sign), from which one carry or borrow is seen to be enough.

Then it proves of `Devices`, for any interfaces, clocks, hosts, ports,
number of descriptors and combination of objects: `DevTypeCorrect` (`TypeOK`),
`EachDescriptorOwned` (`DescriptorsOwned`), `OneInterface` (`WholeInterface`),
`StampsAsked` (`HwStampsAsked`), and, for times that fit, `ArithmeticExact`
(`Arithmetic`) and `DevicesImplementTimeLine` (`ImplementsTimeLine`).
`DescriptorsOwned` and `WholeInterface` are inductive once the types say what
an open descriptor may be open on and that an initialised interface object is
named (`Types`). A failed initialisation opens and closes the smallest free
descriptor (`NextFdFree`), hence leaves the table as it was; one that succeeds
takes a number that neither owner has. The refinement rests on the first part:
each clock operation gives a normal time of exactly the sum, so the number a
clock stands for moves by the number in hand. That it is the right clock needs
`OwnClock`: the clock id of an initialised object is its descriptor, which nothing
else closes, and that is open on the clock whose index the object tells. A
servo moves a clock by what it then owes less (`ServoOnLine`). `TimesFit` says that all times of
the model fit into 64 bits of nanoseconds (in the code: up to the year 2262);
`setPhase` and `getTs` are not exact beyond. `MCDevices.cfg` satisfies it.

`ProcessProofs` proves all five properties of `Process`, for any hosts, number of
descriptors, combination of options (`Topics`) and length of command line
and file: `ProgramTypes` (`TypeOK`), `FirstMentionWins` (`CommandLineWins`, with the strings of the command line and the
defaults alone),
`LogAsGiven` (`LogFollowsOptions`), `AllIsFreed` (`NothingLeaks`), `OneFamily`
(`FamiliesAgree`). No property is inductive, since each speaks of what main made of
the options object after that is gone. `ProcessInv` has one part per thing that
main keeps:

- `OptInv`: the value of every record follows the history `given`, is in the range
  of its option, and is the object's own string only if it is a string of the file
  that the command line does not mention. The tables are fixed, so what the proof
  needs of them is shown of each record once (`WellMade`: names are distinct, strings
  are `ifName` and the address); a look-up by key or letter then finds the one record
  (`KeyFound`, `SkeyFound`).
- `StructInv`, `LogInv`: what `cmd_client`, `cmd_service` and `setLog` took from it
  (`ValueIs`). `LogInv` says nothing of the level while options are still read: a
  file may change it after the first setting.
- `StageInv`: the objects that exist are the first few of `allocObjs`, so the next one
  is new (`NextIsNew`).
- `HeapInv`: every block is allocated once if it is `Alive` (the options object
  with the strings it owns, the file, the objects), else not at all. `OwnedIn` and
  `NoneOwned` say which strings that may be.
- `FdInv`: descriptor 0 is the file, then the socket; nothing else is open.
- `AddrInv`: the addresses and the socket are of the client's `type`. It holds through
  `Receive` because the kernel fills in a sender of the descriptor's family, which
  `FdInv` says is the socket's.

`OneFamily` shows that the comparison of sizes in `s_recv` (sock.c:585) never fails in
these programs, even when the address text was read after its free.

Only model-checked: all liveness (`FlowEnds`, `Answered`, `CleanupEnds`) and with it the fairness of `CsptpExchange`, which TLAPS does not
reach.

## Not modelled

- The values in messages: correction fields, flags, clock data. No control
  depends on them.
- Parsing of messages that neither client nor service builds: `Msg` covers what
  the peers exchange; in `Csptp` any other datagram is "unusable".
- `copy`, `spawn`, `resize` of buffers, `copy` and `detach` of messages,
  `freeList` with `useFreeList`: nothing in client, service or store calls them.
- The thread object's `log_err`, and a null object. What a thread does to the
  memory of an object that was freed under it: it goes on as if the contents stayed.
- Mutex operations that fail; a clock that steps back; two workers on one store
  (`FetchRight` does not hold then: store.h provides for one other thread,
  which cleans up).
- A SIGINT in the middle of a flow, of `malloc` or of an earlier handler: the
  handler frees and calls `exit`, which C allows in none of these. `Process` has
  it between two flows. One before `signal` just ends the process.
- Of the options: float values, `OPT_STR_PASS`, long options, sections of a
  file, `parseBuf`, help texts: the programs do not use them, or only print.
- `getFreq` and `setFreq` of a PTP clock: its rate is a floating point number
  that nothing reads. `getLocalTZ`. Log output. The swap of octets itself.
- `libsys/` and `utest/`: a replacement of the C library and the unit tests that
  use it.

## Plan

Done: 1. `Csptp` with `CsptpExchange`, the core of the program; 2. its proofs;
3. `ThreadObj`; 4. `Store` with `StoreMap`; 5. `Msg`; 6. `TimeStamp` with its
proofs, `Sock`, `Devices` with `TimeLine`; 7. `Options` and `Process`;
8. `CsptpReplies`; 9. `ThreadProofs`; 10. `StoreLists` and
`StoreProofs`, with the refinement to `StoreMap`; 11. `DeviceProofs`, with the
refinement to `TimeLine`; 12. `MsgProofs`;
13. `CyclesKept`; 14. `ProcessProofs`.

Every safety property of the passing runs is now a theorem, `ImplementsExchange` up to
its fairness.
