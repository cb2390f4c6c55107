# A verification project for ib_tws_if

`ib_tws_if` is a web server (Mongoose) that talks to Interactive Brokers' Trader Workstation
(TWS). HTTP requests are served by front-end threads; one back-end thread owns the TWS
connection. They share no data except *tier-2 messages*, request objects whose pointers travel
through socketpairs. This directory holds TLA+ models of the parts of that program that are
hard to test, TLC configurations that check them, and TLAPS proofs.

## 1. Inventory

| Component | State | Operations | Interacts with |
|---|---|---|---|
| **Tier-2 message** (`tier2_message.*`) | `m_now_state`, `requester`, `m_receiver`, `m_owner` | `state()`/`exec_state()`, `pulse()`, `current_owner()`, `wait_for_response()` | its owner's lists; the communicators |
| **Message processor** (`tier2_message_processor.*`) | `m_msgs_i_own`, `m_msgs_pending_for_pulsing`, `m_senders` | `own`, `release`, `queue_msg_for_pulsing`, `pulse_marked_messages`, `process_one_queued_tier2_request` | one per thread or client connection |
| **Inter-thread communicator** (`interthread_comm.*`) | two socket ends | `post_message`, `pop_one_message`, `is_message_pending` | carries pointers between two processors |
| **Front-end handler** (`mongoose_event_handler.cpp`) | the request it blocks on | `MG_NEW_REQUEST`, thread registration | creates requests, waits, replies |
| **Back-end receive loop** (`tws_backend_io.cpp`) | select sets, TWS connection, observers | `io_receive`, `io_tx`, open/close | pops requests, fetches communicators, pulses, tickles, reads TWS |
| **Worker thread** (`tws_input_output.cpp`) | connected or not | connect, pulse, one event, retry | drives the loop; ends on the stop flag |
| **TWS manager** (`tws_instance.*`) | subscription limit, tickle position, providers, contracts | dispatch of responses, cancellation, `pulse_pending_issues`, limit handler | requests it owns; the request kinds |
| **Request kinds** (`tws_request.*`) | parameters, collected responses | exec, transmit, match, process, save | the manager |
| **TWS callbacks, responses** (`tws_api_callbacks.cpp`, `tws_response.*`) | none | one response object per callback | dispatch by the manager |
| **Application manager** (`app_manager.*`) | thread store, `m_communicators`, `m_new_communicators_count`, ids | register, create path, fetch new | every thread, under one mutex |
| **Unique ids** (`unique_type_id.*`) | next id, started or not | obtain, update | order and ticker ids; made for several threads, called by the back-end's |
| **Fake TWS server**, **I/O logger** | parser position, log file | answer requests; observe I/O | observers of the receive loop |
| **Message queue** (`tier2_message_queue.*`) | scheduled items | add, run, abort | nobody: never instantiated |
| Data structures, JSON, stock lists, data tracker, database, main | values, files | conversion, parsing, start-up | - |

What is hard here:

* **Ownership without locks.** A message may be touched only by the thread that owns it. The
  owner gives it up *before* it writes the pointer, and takes it back when the write fails.
* **Marks.** Nothing moves by itself: a message that has to change threads, or to be deleted,
  must be *marked for pulsing*, and the list of marks must never hold a pointer whose object
  left or was deleted.
* **Order in the loop.** Popping, fetching, pulsing, tickling and reading alternate in an order
  that depends on whether TWS is readable; requests, answers and the loss of the connection
  fall in between.
* **One answer, many requests.** A current-time response completes every request that waits.
* **Partial failures.** A failed TWS call, a write that fails or writes nothing, a lost
  connection, the stop of the server.

The full list, line by line, with the properties that address it, is `hazards` in
`PROJECT.json`.

## 2. What is modelled

### `Tier2.tla`: the message layer

One module holds message, processor, communicator, front-end handler, receive loop and worker,
because the properties are about their interplay. Every variable is a field of the code (`map`
in `PROJECT.json` gives the lines):

| TLA+ | Code |
|---|---|
| `requester`, `state`, `owner` | the fields of every message object; an *address* of `Msgs` is reused after `delete` (`state = "free"`) |
| `owned`, `pulsing` | `m_msgs_i_own`, `m_msgs_pending_for_pulsing` of every processor |
| `toBE`, `toFE` | the two sockets of a front-end's communicator |
| `lost` | pointers whose `mg_write()` returned 0, which `post_message()` takes for success |
| `paths`, `senders` | `app_manager::m_communicators`, the back-end's `m_senders` |
| `waiting` | the request a front-end blocks on |
| `phase` | the position of the back-end thread: `select`, `fetch`, `idle_pulse`/`busy_pulse` (the pulse inside `pulse_pending_issues()`), `idle_tickle`/`busy_tickle`, `event` (a TWS callback), `top_pulse` (the worker's own pulse), `top_failed` (that pulse met an error), `down`, `exited` |
| `owed` | current-time answers TWS still owes |
| `drops`, `stopped` | lost connections (bounded by `MaxDrops`); the stop flag |

*Atomicity.* Threads meet only at sockets, the path list (under a mutex) and the stop flag, so
what a thread does between two such operations is one step. The back-end's loop is cut finer,
one step per message pulsed and per callback, because front-ends run in between.

*States.* Only states in which a message rests between two steps occur. `exec_state()` runs a
request through `EXEC_COMMAND`, `WAIT_FOR_TRANSMIT` and `COMMENCE_TRANSMIT` to
`READY_TO_RECEIVE_RESPONSE` in one go; an error ends in `FAILED`. For the back-end's own requests
`TASK_COMPLETED`, `ABORTED` and `FAILED` turn into `DESTRUCTION` at once.

*Actions.* `FeRequest`, `FeRequestFailed`, `FeRequestVanished` are the handler up to the wait,
by the outcome of the write; `FePop` and `FeGiveUp` end the wait. `BePopSent`/`BePopRefused` pop
one request and execute it. `BeFetch` discovers new communicators. `BePostSent`,
`BePostFailed`, `BePostVanished`, `BeDelete`, `BePulseNothing` are the cases of `pulse()`.
`BeTickle`, `BeStart`, `BeStartCancel`, `BeFinish` are what the back-end does to requests of its
own; *which* of them it starts or parks is left nondeterministic here. `BeAnswerTime` and
`BeOtherEvent` are a TWS callback with the dispatch of its response; `BeReadMore` is a message
not yet complete. `BeDrop` is a connection TWS closes; `BeBreakOff` one the worker closes itself
because its pulse reported an error. `BeConnect`, `Stop`, `BeExit` are the worker's life cycle.

*The stop.* Both threads look at the flag and then wait in `select()`, so that a message may still
be popped after the stop: neither `FePop` nor `BePop` asks for the flag. The back-end ends at the
head of its loop (`NextTurn`, `BeExit`). The handler does not look at the flag before it posts a
request: one that comes after the stop is created and sent, and its wait ends before it begins.

### `TwsService.tla`: what the layer promises

No lists, sockets or loop: a request is asked, worked on, finished and returned, once and in this
order; a front-end is released by the return of the request it waits for, or by the stop, after
which it may still ask but not wait; a request may also stay unsent or vanish. `Tier2` implements it
by reading the stage off a message's place and state (`StageOf`); the property is
`ImplementsService`.

### `ScannerLimit.tla`: subscriptions and their limit

Everything here happens in the back-end thread. A request is `WAIT_FOR_TRANSMIT` (postponed),
`READY_TO_RECEIVE_RESPONSE` (transmitted) or `DESTRUCTION` between two steps; `Tier2` shows what
its ownership and deletion look like, this module which request is in which state, and why.

| TLA+ | Code |
|---|---|
| `state`, `ticker`, `owned` | state, `m_ticker_id` and place in `m_msgs_i_own` of each `ib_msg_req_scanner_subscription` |
| `active` | `m_active_scanner_subscriptions`, pointers to the requests that hold a slot |
| `prevId` | `m_prev_id` of the id manager, unsigned: its value before the first id is `MaxId` |
| `wire` | tickers TWS was asked to subscribe, and not to cancel, on this connection |
| `orphans` | cancel messages that remain for ever |
| `phase`, `todo` | the loop, and the requests still to be tried in a tickle or after an `EXEC_COMMAND` |
| `link`, `drops` | whether TWS calls succeed; lost connections |

`Subscribe` creates a request, which is tried at once; `StartTickle` begins the scan of
`pulse_pending_issues()`. `TryNext` is `COMMENCE_TRANSMIT` with its outcomes `HoldBack`,
`Transmit` and `Refuse`. `ReportEnd` is the end of a scan or an error report: `GiveUpSlot` is the
limiter's handler, with the cancel message it creates, executes and deletes on the way
(`SendCancel`). The nested state changes of request and cancel message end in one state, which
is what the step shows. `Announce` is `NEXT_VALID_ID`. `Lose` may happen between any two steps;
the worker notices in `Disconnect`, which clears nothing but the connection.

### `SubscriptionService.tla`: what the limiter promises

Each subscription is its ticker, which waits, runs or is stranded: no objects, lists, scans or
cancel messages. One that is made is tried at once and may so pass the older ones (`fresh`); after
that the oldest starts first, never without a free slot; a subscription ends alone and leaves its
slot, and what ran on a connection that is closed keeps its slot. `ScannerLimit` implements it
(`ImplementsService`) by `Waiting`, `Fresh`, `Running` and `Leftover`, read off states, tickers and
the wire: a request that is `READY_TO_RECEIVE_RESPONSE` runs just if its ticker is on the wire of
this connection.

### `RequestKinds.tla`, `RequestDispatch.tla`: every kind of request

`RequestKinds` is the program's tables: which id a kind of request or response carries, which
callbacks make which responses and which of those the manager lets its requests look at, which
commands cancel other requests first, which kinds are really transmitted, which response ends
which request, and which requests a cancel message is about. The tables follow the code's order
and are cut where its parts end. `RequestDispatch` runs them: `msgs` is `m_msgs_i_own` with kind,
id and state. `IssueRequest` and `IssueCancel` are `EXEC_COMMAND` (with the limiter's decision and
with `cancel_all_matching_requests()`), `Retry` is `pulse_pending_issues()` on one postponed
request, `Receive` is one response in `scan_queue_and_process()`; `Without` is the deletion of what a
step completed or cancelled, `Running` the requests that hold a slot. The loop of
`cancel_all_matching_requests()` aborts and deletes one request after the other; here all go at once,
because nothing the loop does to one decides about another. `Issued` are all kinds; `Made`
those the program makes itself.

### `MarketScans.tla`: priming the pump

`up` is what TWS has reported on this connection; `listed` are `m_rt_providers` and
`m_hist_providers`, with duplicates as the code keeps them; `prime` is
`m_still_need_to_prime_the_pump`; `waiting`, `owed` and `subs` count parameter requests, answers
that are due, and subscriptions per scan. `FarmUp`, `FarmDown` and `OtherError` are the branches of
the error handler, each ending in `PrimeThePump`; `Answer` and `AnswerBad` process the scanner
parameters, for *every* request that waits. Nothing of the lists or requests is cleared by
`Disconnect` and `Connect`.

### `Communicators.tla`: paths between threads

`list` and `count` are `m_communicators` and `m_new_communicators_count`, changed under the mutex;
`cache[t]` is `m_senders`, touched by `t` alone; `pc[t]` is how far `t` is in
`get_interthread_communicator()`. `Ask` looks in cache and list and makes the sockets outside the
mutex, `Add` looks again and lists the pair, `Register` caches both directions; `Fetch` is the
back-end's `fetch_new_interthread_communicators()`.

### `PathService.tla`: what asking for a path promises

Asking takes effect at once: the path between a front-end and the back-end is given, and made if there
is none; a fetch of the back-end learns all there are. `Communicators` implements it: a thread is
*given* its path when it has found one, in either search, or listed its own; the first search that
finds nothing, and the sockets made outside the mutex, are nobody else's business.

### `ServerThreads.tla`: threads and their registry

`slots` and `index` are the vector and the map of `sender_receiver_store`; `at[b]` is where a
back-end thread is, `client[c]` what goes on on a connection. `Begin`, `Open`, `GivesUp`, `EndRun`,
`Again`, `Leave` are worker and tracker from start to end, `Accept`, `BeginRequest`, `EndRequest`,
`Close` the Mongoose events of a connection, `Stop` the stop flag.

### `UniqueIds.tla`, `IdService.tla`: ids under the spin lock

`UniqueIds` runs `obtain_unique_id()` and `update_unique_id()` step by step (`Call`, `Lock`, `Read`,
`Write`, `Unlock`) in every thread, with ids of `Width` values. `IdService` makes each call one
step; `UniqueIds` implements it. This is the contract of the class: in the program as it is only
the back-end thread calls it, so that no race of threads is listed among the hazards.

### `RecordFields.tla`, `TwsRecords.tla`: what TWS is passed

`RecordFields` lists, for contract, order, execution filter and scanner subscription, the fields
that are read from TWS's record, filled into it, and released. Fields do not touch each other, so
`TwsRecords` follows one at a time, whichever it is: `held` is the `optional_value`, `given` the
value it was given last, `lent` the field in the copy lent to the library, `blocks` the memory in
use. `Construct`, `Peek`, `Set`, `Clear` fill the record in; `Begin` starts the `tx()` of a message
of any kind, which goes through its steps by `Prep`, `Pass`, `Cleanup` and `Other`.

### `TwsChannel.tla`: the connection, the logger, the fake TWS

`conn`, `faking`, `far` and `sockets` are the fields of `ib_backend_io_channel` and the sockets they
stand for, numbered by attempt; `greeting` is the fake TWS's static flag `in_server_negotiation`,
and `Greets` what a message makes of it; `listening` and `logger` are the I/O logger as an observer.
`OpenAny` is `io_open()`, `GreetFirst`/`GreetSecond` the handshake, `RequestAny` a request that is
written (and, with a fake TWS, answered), `Hear` and `HearEnd` what is received. `Close` is
`io_close()`, at any moment: the library calls it when `io_receive()` reports an error, which a
failing `select()` or `mg_read()` makes it do on a real or a fake connection, in the middle of its
greeting too. Neither it nor `OpenAny` resets the flag. `misread` is a history variable: how many
fake connections in a row had their version taken for the client id.

## 3. Properties and runs

| Run | Property | What would break it |
|---|---|---|
| `tier2_safety` | `OneOwner` | two lists hold a message, `m_owner` disagrees with the lists, freed memory is reachable |
| | `LimboIsTransfer` | a message nobody owns that is on its way nowhere |
| | `MarkedIsOwned` | a mark for a message that has left or was deleted (the code's own assertions) |
| | `HandOverPending` | a message that must move, or die, but is not marked: it would stay for ever |
| | `PipesCarryTheirOwn` | a message in the socket of another front-end, or sent at the wrong time |
| | `PopsTheAwaited` | a front-end could receive anything but the request it blocks on |
| | `AnswerOwed` | a request waits for the time while TWS owes no answer for it, on an unbroken connection |
| | `DeletedByRequester` | memory freed by a thread that is not requester and owner |
| | `RepliesWithAnswer` | a front-end released without its finished request, while the server runs |
| | `ImplementsService` | any of the above that a front-end can notice |
| `tier2_live` | `RequestsAnswered` | a path never discovered, a hand-over forgotten, an answer gone astray |
| `scanner_safety` | `SlotsAreTransmitted` | a slot given up twice, never, or for the wrong request: the limiter follows a pointer to a deleted one |
| | `WithinTwsLimitButZero` | limiter and TWS disagree on what runs, through a failed call, a nested cancel or a lost connection |
| | `TickersUnique` | an id used twice after an announcement: a report or a cancel means two requests |
| | `NoIdleSlot`, `OldestFirst` | the tickle misses a request, or lets a later one pass |
| | `ImplementsService` | a subscription is refused, ended, stranded or started that should not be, with all its effects on slots, ids and the others |
| `scanner_live` | `PostponedServed` | a slot never freed, or freed and never noticed |
| `scanner_limit` | `WithinTwsLimit` | *violated*: ticker 0, see section 6 |
| `scans` | `UpIsListed` | one report too many takes a connected farm off the list |
| | `PumpIsPrimed` | the flag falls without a request, or the request is made too early |
| | `SubscriptionBound` | requests left from lost connections multiply the subscriptions without bound |
| | `ScansGetGoing` | after some order of reports and connections a scan is never subscribed to |
| `dispatch` | `CancelLeavesNone` | a request in some state, postponed or left over, survives its cancel message |
| | `OthersKeepRunning` | a subscription goes, whatever else ends on that step, that no cancel message, report or try of its own was meant for |
| | `NoneStuck` | a kind the program makes is left half-way to TWS |
| `paths` | `OnePath` | two threads race and list two pairs |
| | `CachedIsListed` | the loser caches its deleted pair |
| | `CountCovers` | the count ends the back-end's scan before a path it does not know |
| | `PathsArePolled` | a path is listed and never polled: its requests are never heard |
| | `ImplementsService` | a race shows: two threads are given different paths, or a fetch leaves one out |
| `threads` | `FindsItself` | a key that was erased and used again leads nowhere, or to another thread |
| | `AllEndTogether` | a back-end thread goes on without the other, or misses the stop |
| `ids` | `NoIdTwice`, `ImplementsService` | a read that is out of date by the time of the write |
| `records` | `SentAsGiven` | a field forgotten, sent though unset, taken from a suggested default or an earlier copy |
| | `NothingLeaks` | a part released twice or never, a copy that outlives the call |
| `channel` | `OneConnection` | a socket left open, or a flag that outlives its connection |
| | `WrittenInTime` | log entries of one connection written with the next one's |
| | `MisreadOnce` | a greeting that is broken off spoils the greeting of every later fake connection |
| | `FakeAnswers` | a request the fake TWS has no answer for; a client id taken for one on a connection that was not misread |

The type invariants are proved (section 4) and not in a run. The bounds, and why they are enough:

* **`tier2_safety`**: two front-ends, three request addresses, one response address, one lost
  connection. Two front-ends are needed for two senders and for one answer serving two requests;
  three request addresses leave one for the back-end's own requests and allow an address to be
  reused; a response is deleted before the next one is created (`ResponsesDeletedInTime`, proved),
  so one address is enough. Symmetric in front-ends and requests.
* **`tier2_live`**: two front-ends, two request addresses, no lost connection, no symmetry.
* **`scanner_safety`**: four requests for two slots, so that two can be postponed while two run;
  ids up to 9, so that addresses are reused and ids announced below and above the current one; one
  lost connection, in every phase. **`scanner_live`**: three requests for two slots. `MaxId` stands
  for 2^32 - 1; `Subscribe` stops before the ids come round (`IdsLeft`).
* **`scans`**: two farms that may serve either sort, two scans, lists of up to three entries (so
  that a farm can be listed twice beside another), two lost connections (leftovers of one meet
  those of the next), one answer that is no document.
* **`dispatch`**: every kind, with three ids, which messages may share; three messages
  at a time, one slot, so that a scan can run while another is postponed and a cancel arrives; one
  lost connection.
* **`paths`**: two front-ends and the back-end, so that front-ends race with each other for the
  count and with the back-end for a path.
* **`threads`**: two connections, each used without a bound; the state space is finite.
* **`ids`**: three threads, ids of four values and seven calls, so that the ids wrap round.
* **`records`**: every field and every kind; four blocks, twice what a copy takes.
* **`channel`**: four connections, so that a real and a fake one can follow each other either way, and
  two more fake ones a greeting that was broken off.

What the properties do not show:

* `AnswerOwed` and `RequestsAnswered` make an exception for connections that broke. The models have
  the loss (`BeDrop`) and the connection that a failed hand-over ends (`BeBreakOff`), and safety
  holds through both; but that nothing repeats or fails the requests left behind, and that one failed
  write costs everybody the connection, is what the code does, and no property says it should not.
* `RequestsAnswered` assumes that TWS falls silent again and again, and so says nothing of a front-end
  that stays unknown under constant traffic. Nor can a sender early in `m_senders` starve a later one
  in the model, because no request of a front-end is ever destroyed and there are finitely many.
* `NoneStuck` and the part of `FakeAnswers` about requests come down to comparing the code's tables of
  kinds: made and transmitted, transmitted and answered.

`CHECK_DEADLOCK FALSE` stands where the system really stops: all threads ended, all calls made,
every pair listed, every attempt used.

*Fairness.* `Tier2`: weak fairness of both threads: they are scheduled and block only in
`select()`. Strong fairness of both outcomes of `select()`: TWS is neither silent nor readable
for ever. This is an assumption about traffic, and needed: with constant traffic the quiet
branch, the only one that fetches new communicators, is never taken. Strong fairness of leaving
the read buffer (it is finite), of TWS's answer, and of a post that succeeds. `RequestsAnswered`
starts from a request *in the socket*, on a connection that holds: the code does not answer a
request whose first write fails (the front-end waits until the stop), nor one that was pending
when the connection broke (nothing repeats or fails it).

`ScannerLimit`: weak fairness of the loop, strong fairness of its two choices (the same assumption
about traffic), and of the report that ends each running scan: TWS sends a `SCANNER_DATA_END` for
every scan it runs. `PostponedServed` makes an exception for the state in which *every* slot is
held by a request of a lost connection.

`MarketScans`: weak fairness of the answer only: TWS answers the one request it was sent, in one
way or the other. `ScansGetGoing` makes an exception for a connection that breaks and for an answer
that cannot be parsed, because the code makes no second attempt.

`Communicators`: weak fairness of `Fetch` (the back-end's loop comes round) and of the two steps
that end a call that was begun. `ServerThreads`: weak fairness of the back-end threads' own steps,
of the end of a run only once the stop flag is up. No fairness of clients or of the stop.

## 4. Proofs

The proofs hold for **any** values of the constants that meet the module's assumption. One module of
proofs goes with each module of the model; `TwsProofs` covers `TwsChannel` and `TwsRecords`, whose
next-state relation is called `RecordsNext` so that one module can extend both. It opens with the
facts about the model's operators that its proofs keep using: `Append`, `Tail` and `\o` on queues
without repetition in `Tier2Proofs`, `RemoveAt` in `ScannerProofs`, `Without` in
`RequestDispatchProofs`.

| module | theorem | what it establishes |
|---|---|---|
| `Tier2Proofs` | `TypeCorrect` | `TypeOK` |
| | `OwnershipSafe` | `OneOwner`, `OnePointer`, `MarkedIsOwned`, `PipesCarryTheirOwn` |
| | `NothingForgotten` | `LimboIsTransfer`, `HandOverPending` |
| | `AwaitedAlways` | `PopsTheAwaited` |
| | `RepliesAnswered` | the action property `RepliesWithAnswer` |
| | `ResponsesGone` | `ResponsesDeletedInTime` |
| | `AnswersOwed` | `AnswerOwed` |
| | `FreedByRequester` | the action property `DeletedByRequester` |
| | `MessageLayerImplementsService` | `ImplementsService`: the refinement of `TwsService` |
| `ScannerProofs` | `ScannerTypes` | `TypeOK` |
| | `SlotsSafe` | `SlotsAreTransmitted` |
| | `LimitKept` | `WithinTwsLimitButZero`, `RunningHoldsSlot` |
| | `IdsUnique` | `TickersUnique`, `OneOrphan` |
| | `SlotsUsed` | `NoIdleSlot` |
| | `ServedInOrder` | the action property `OldestFirst` |
| | `LimiterImplementsService` | `ImplementsService`: the refinement of `SubscriptionService` |
| | `OverStaysOver` | the action property `OverIsOver`: the id of a subscription that is over never comes back |
| `MarketScansProofs` | `ScansTypes` | `TypeOK` |
| | `FarmsListed`, `PumpPrimed` | `UpIsListed`, `PumpIsPrimed` |
| | `AskedOnceOnly` | `AskedOnce`: one request for the parameters per connection |
| | `LeftoversBounded` | `WaitingBound`, `SubscriptionBound` |
| `UniqueIdsProofs` | `IdsTypes` | `TypeOK` |
| | `OneInside` | the spin lock excludes |
| | `IdsDistinct`, `IdsRefine` | `NoIdTwice`; the refinement of `IdService` |
| `CommunicatorsProofs` | `CommunicatorsTypes` | `TypeOK` |
| | `PathsDistinct`, `CachesListed` | `OnePath`, `CachedIsListed` |
| | `CachesBothWays` | `BothWays`: who sends on a path polls its other direction |
| | `CountCoversUnknown` | `CountCovers` |
| | `PathsImplementService` | `ImplementsService`: the refinement of `PathService` |
| `ServerThreadsProofs` | `RegistryInvariant` | how vector and index hang together |
| | `ThreadsFindThemselves` | `FindsItself` |
| | `PlacesNeverReused` | the action property `PlacesStay`: a place serves one thread and is at most emptied |
| `TwsProofs` | `ChannelInvariant` | phase, connection, greeting and logger agree |
| | `ConnectionSafe`, `GreetingHeals`, `FakeSafe` | `OneConnection`, `MisreadOnce`, `FakeAnswers` |
| | `LogWritten` | `WrittenInTime`, if traffic is logged |
| | `RecordsInvariant` | the value of a field, the steps of `tx()` and the copy agree |
| | `ValuesSent`, `CopiesReleased` | `SentAsGiven`, `NothingLeaks`, for any bound on the blocks |
| `RequestDispatchProofs` | `DispatchTypes` | `TypeOK`: among others, only a kind that is not transmitted stays half-way |
| | `NothingStuck` | `NoneStuck`, if the kinds that are made are transmitted |
| | `CancelsAllItIsAbout` | the action property `CancelLeavesNone` |
| | `NoneGoesByMistake` | the action property `OthersKeepRunning` |
| | `SlotsKept` | `SlotBound`: never more running subscriptions than slots |

`OnePointer`, `ResponsesDeletedInTime`, `RunningHoldsSlot`, `OneOrphan`, `OverIsOver`, `AskedOnce`,
`WaitingBound`, `BothWays`, `PlacesStay`, `SlotBound` and every `TypeOK` are proved and not in a run
of their own; the proofs of the others rest on them or on the same invariant.

*Assumptions.* Each module's own assumption about its constants, and nothing else but for two
theorems. `Tier2Assumption` says that the back-end is not a front-end, that `NULL` is neither a
thread nor an address, and that the sets are finite; the others are of the same sort. `LogWritten`
assumes `LogTraffic`, the default of `tws_if_main.cpp`: a logger that is not to log traffic does not
write its buffers either, nor empty them. `NothingStuck` assumes that every kind in `Made` is in
`Transmits`, which the kinds of `RequestKinds` that the program makes itself meet.

*The inductive invariant.* None of the invariants is inductive alone: that a released message
is in no other list needs to know who marks, that a pointer goes to the right socket needs to
know which states a front-end's request can be in. `Placed` says of each message, point by
point, what its place, owner, requester, state and marks have to do with each other
(`Ownership`, `Sockets`, `Marks`, `Limbo`, `Due`, with `NoRepetition` of the queues). It is
preserved by every action, one lemma per action, and implies the named invariants
(`PlacedImplies`): two sockets are disjoint, for instance, because a message knows its requester
and its state.

*On top of it.* `PopsTheAwaited` is inductive relative to `Placed`: no step of the back-end
creates a front-end's request or touches one that has returned (`BeLeavesFrontEnds`), and a
front-end issues only while it waits for nothing. `ResponseHeld` pins the response object to
the pulsing that follows its callback; because it is `Due`, an empty list of marks means that it
is gone. `AnswerOwed` follows by counting: one transmission adds one awaiting request and one
owed answer, one answer serves all (`AwaitingSteps`). The refinement needs `Placed` (which
stage a place means) and `PopsTheAwaited` (a return releases the right front-end).

*The limiter.* `ScannerProofs` holds for any set of requests, any positive limit, any largest
id above 2 and any announced ids (`ScannerAssumption`). Its `Invariant` has five parts besides
the types: slots and transmitted requests correspond (`SlotsOK`); the ownership list holds every
request in ascending order of tickers, none above the counter (`OwnedOK`), which is what makes
tickers unique and the slot that `GiveUpSlot` finds the right one (`FirstSlot`); id 0 is spent
once (`IdsOK`); what runs at TWS holds a slot (`WireOK`); and what the scan has passed waits only
for a slot (`ScanOK`). Facts about `RemoveAt` are lemmas. The order in which requests are served
follows because the scan starts at the oldest and stops transmitting once the slots are taken.

*The limiter's refinement.* Each action maps to one of `SubscriptionService`, or to none
(`ServiceStep`). It rests on `Invariant` and on `ExecOK`: a request that was just made is tried before
anything else happens to it, so that the service's `fresh` is what an `EXEC_COMMAND` has left to do.
`SlotsCounted` turns the length of `m_active_scanner_subscriptions` into the number of tickers that run
or are stranded, by a bijection; `TurnOf` shows that what the scan tries is the oldest;
`CancelsItsOwn`, that no cancel message takes another request off the wire, the one for ticker 0
included, because the id it obtains is new. `OverIsOver` follows: every action of the service
leaves what is over alone, and hands out ids above those in use.

*Scans.* `Invariant` of `MarketScansProofs` adds to the types: on one connection TWS is asked when
the flag falls and answers once (`AskedOK`), nothing is known or owed without a connection
(`DownOK`), the flag is up only while a list is empty or nothing was reported yet (`PrimeOK`), and
the counts of what waits and of what was subscribed to (`CountsOK`). The first entry of a farm that
breaks is taken out; that no other farm goes with it is the lemma `WithoutFirstKeeps`.

*Ids.* Everything rests on exclusion (`LockOK`): what a thread has read is still the value when it
writes (`Fresh`), and the ids above the last one were not reached in this lap (`LapOK`).

*Paths.* The invariant needs that the list holds both directions of every path (`Closed`): the
second look under the mutex checks one direction only. `CountCovers` is about cardinalities: a
fetch lowers the count by what it cached, and every listed pair the back-end has not seen was
counted when it was added.

*The refinement of paths.* It needs `Calls` beside the invariant: a thread in the middle of a call does
not know the path yet, although it searched its cache long ago (only the thread itself, when idle,
changes it), and the sockets it made are in no list and no other thread's hands. Giving a path is
the search that finds it or the addition to the list (`GiveRefines`). That a fetch learns every path
is `AllReached`: with `CountCovers`, the count cannot be used up while one is unknown.

*Threads.* `FindsItself` speaks of threads that are there. It is inductive only with what is true of
those that are not yet or no longer there (`PlaceOK`): a key has place 0 in the index until its
first thread registers, and from then on a place of the vector that holds the thread while it is
there and nothing afterwards. With `OnePlace` (a processor is in no place but its key's) an end or a
new registration disturbs nobody else. `PlacesStay` follows: what a thread found once stays right.

*The channel.* Four variables are kept by four parts of the code: the library's phase, the
connection, the fake TWS's static flag, the logger's place among the observers. The invariant ties
them together: there is a connection just in the phases that need one (`PhaseOK`), the far end is
the one of this attempt (`FarOK`), the logger listens to real connections only, or to none after an
attempt that failed (`ListenerOK`), and a version that is misread takes the flag down, which can only
have been up (`GreetingOK`). A client id is taken for a request only if the flag is down between the
halves of a fake greeting, and that only on a connection whose version was misread (`AskedOK`).
`WrittenInTime` needs beside it that what waits to be
written was heard on this connection.

*Records.* `RecordInvariant` has three parts besides the types. A value is valid just if it was
given, and is that one (`ValueOK`). In what is left of a `tx()`, each record is passed after it was
prepared and cleaned up after it was passed, once each (`InOrder`); that every kind's `tx()` begins
like this is `TxInOrder`, by cases over the kinds, and that a suffix of it stays so `TailInOrder`.
The copy is there while its cleaning up is ahead and its preparation behind, and holds what
preparing it now would fill in (`CopyOK`): nothing sets a field during a transmission.
`EveryFieldSent` and `EveryPartCleaned` compare the lists of fields that are read, filled in and
released.

*Every kind of request.* The steps of `RequestDispatch` take messages out of the list, put some in
the middle and append others. `WithoutPlaces` shows what taking out does: the rest is an
order-preserving bijection with the places that were not taken (by the rank of a place among
them). From it, a cancel message leaves none of those it is about. `OthersKeepRunning` counts messages
that are alike: what is taken out of other places, put beside or appended leaves no fewer of them
(`WithoutNotFewer`, `JoinNotFewer`, `RetryLeaves`), so that where there are fewer one of them was meant.
`SlotBound` counts the subscriptions that run: taking out does not add one (`WithoutSlots`), joining
adds the new ones only (`JoinSlots`), and these start only while slots are left.

## 5. Only model-checked

* Liveness under fairness (`RequestsAnswered`, `PostponedServed`, `ScansGetGoing`, `PathsArePolled`,
  `AllEndTogether`), which the prover cannot handle.
* `WithinTwsLimit`, which the code violates.

## 6. Where the code does not do what it says

The run `scanner_limit` shows one: ids start at 0, and a cancel message for ticker 0 obtains an id
of its own, so that the first subscription is never cancelled at TWS, which then runs one more than
the limit. The others were met in modelling. They are part of the models, and the properties
above are stated around them:

* `tier2_message.h` demands that a requester destroys its messages; no front-end ever does.
* `event_handler()` ignores that `wait_for_response()` was ended by the stop flag and replies with
  a message it does not own: `RepliesWithAnswer` excepts a stopped server.
* Requests of a lost connection keep their subscription slots: the exception in `PostponedServed`.
* An id announced by TWS before the first one was handed out is ignored (unsigned comparison with
  the value before 0).
* The lists of data farms outlive the connection, so that the next one's pump is primed on the
  farms of the last; and subscriptions are made when the parameters arrive, whether or not there
  are farms by then.
* A parameters request of a lost connection still waits on the next and subscribes to every scan
  again: hence the bound, and not one, in `SubscriptionBound`.
* `f_commence_transmit()` of most kinds does not call `tx()`: such a message stays half-way. The
  program makes none of these kinds itself: `NoneStuck` is about those it makes.
* A cancel message that matched nothing is marked for destruction and then moved on: it is kept
  for good.
* A request may look for the worker's processor before the worker has registered, or after it
  has left; the code asserts that it is there.
* `in_server_negotiation` is static and reset by nothing but messages: if a fake connection is closed
  between the two messages of its greeting, the next one's version is taken for the client id (it gets
  accounts, next id and farms for an answer), and its client id, if the library still sends one, for
  a request, which fails the assertion "Should not get here". The one after it is greeted properly:
  hence `MisreadOnce` and the exception in `FakeAnswers`.
* The logger's `io_open()` is never called for the connection that is being opened: the manager
  adds it to the observers afterwards.

## 7. Plan

All modules of the plan that the program uses are built. Every safety invariant and action property
a run checks is proved, with four refinements (of `TwsService`, `SubscriptionService`, `PathService`
and `IdService`). What could still be added: an abstract limiter for `ScannerLimit` and
`RequestDispatch` to share; partial reads and writes in `TwsChannel`.

## 8. Not modelled

* Formatting, logging, JSON and HTML output, option parsing, XML and text files, start-up: pure
  I/O without state a property could be about.
* The store of contracts and the equality of records: data that nothing in the program reads back.
* The inside of a contract's legs and delta-neutral part, and with it the texts of the enumerated
  types: only the action of a leg is ever converted.
* `cancel_message` has no caller, the data tracker's event processing is compiled out, its
  database is a stub, and `tier2_message_queue` is never instantiated.
* Mongoose and the TWS C API are external, modelled from their use.
