# TLA+ models of the security-header test framework

The repository measures how browsers parse security headers. It is a fork of
web-platform-tests (WPT): a modified `wptserve` serves test pages and test
responses, browsers load the pages, and the pages post their results to a
database. Everything of its own is in `_hp/`; of the WPT tools only
`tools/wptserve` and `tools/serve` are used at run time, and `server.py` and
`entrypoint.sh` start them.

This directory models that system in TLA+, checks the models with TLC on small
instances, and proves the most important facts with TLAPS for every instance.

## 1. Inventory

| Component | Source | State | Operations |
|---|---|---|---|
| Desktop crawler | `_hp/hp/tools/crawler/desktop_selenium.py`, `Timeout.py` | per worker: SIGALRM handler, interval timer, driver, list of processes; the pool's queue of URL chunks | take a chunk, start a browser, visit the URLs, close it under a timeout, kill what is left; an alarm between any two steps |
| Page runner | `_hp/hp/tools/crawler/test-page-runner.html`, `save_result` in `_hp/resources/store_results.sub.js` | counter, current window, timeout, message queue of the page; the test windows | open next window, timeout, `finished` message; a test page saves its results and notifies its opener |
| Android runner | `_hp/hp/tools/crawler/android_intent.py`, `_hp/server/notify_runner_clients.py` | device processes, LISTEN connections, run ids | send an intent, wait for the NOTIFY of the run id, restart emulators |
| Test selection | `_hp/hp/tools/crawler/utils.py`, `run_tests` in `store_results.sub.js` | loop variables of `get_resp_ids`, the URL list, popup count of a page | split response ids, split popups among URLs, select the tests of a page |
| Repeat loop | `create_repeat.py`, `create_page_runner_repeats.py` | results in the database | find tests with fewer than five results, generate URLs |
| Browser table | `get_or_create`, `get_or_create_browser` in `utils.py`, `models.py` | rows of `Browser`, transactions of several crawlers | select, insert, commit, roll back |
| Response server | `_hp/server/responses.py`, `get_resp_ids.py` | `Response` rows, per-process caches | serve a response, fill a cache |
| Result store | `_hp/server/store_results.py` | `Result` rows | store all results of a page in one transaction |
| Stash | `tools/wptserve/wptserve/stash.py` | a dictionary shared by all server processes | put, take |
| HTTP/2 handler | `tools/wptserve/wptserve/server.py` | per connection: socket, stream threads and queues, `close_connection` | receive frames, start stream threads, end |
| Server start and stop | `tools/serve/serve.py`, `server.py`, `entrypoint.sh` | server processes, stop flags, retries | start, poll, shut down, restart |
| Response generation | `create_responses.py`, `response_header_generation.py` | tables of responses | generate rows |
| Analysis | `_hp/hp/tools/analysis` | none | notebooks over the stored results |
| WPT proper | `tools/wptrunner`, `tools/wpt`, `tools/wave`, ... | | not used by the framework |

### How the parts interact

- A crawler gets its test URLs from `get_tests`, which asks the server for the
  response ids of a label (`get_resp_ids.py`), and its browser id from the
  browser table.
- A worker of the desktop crawler drives a browser through Selenium. A test page
  loads responses from `responses.py`, posts its results to `store_results.py`,
  appends a `#finished` element for which the worker waits, notifies the Android
  runner through `notify_runner_clients.py` (PostgreSQL NOTIFY) if it has a run
  id, and finally posts `finished` to its opener, the page runner, if it has one.
- The repeat loop reads the results back and makes URL lists for the tests that
  have too few.
- `server.py` restarts the server every ten minutes, because it gets stuck or
  leaks threads.

### What is hard here

Little of this code is an algorithm; most of it is several processes that wait
for each other with timeouts.

- **Desktop crawler.** SIGALRM raises an exception between any two statements,
  also in `finally` clauses and in the code that leaves a `with` block, and two
  nested timeouts share the one interval timer of the process. Correct means: no
  alarm of one chunk hits the next, a chunk that was not interrupted is reported
  with its browser gone, and every chunk ends.
- **Page runner.** Messages carry no test, closing a window is asynchronous and
  timeouts race with messages. Correct means: one test at a time, the runner
  ends, and what goes wrong with one test does not spread.
- **Android runner.** All workers listen on one channel, pages that were given up
  go on and notify later, the alarm can end the worker process. Correct means: no
  notification is missed or taken for another's, and every entry is run.
- **Test selection.** Python cuts the tests of a label by number and JavaScript
  counts them again. Correct means: every test runs exactly once.
- **Browser table.** Look-up and insert are two steps of concurrent transactions.
  Correct means: one row per configuration, and results under the right one.
- **Server start and stop.** Three levels of processes, SIGINT to a whole group at
  any step, servers that do not stop, a main process that dies before them, ports
  that are fixed. Correct means: the restart comes, nothing is left behind, and
  the supervisor gives up only for cause.
- **Response server.** Caches that are never refreshed, filled by threads that miss
  at the same time. Correct means: an existing response is served, and what is
  stale ends with its process.
- **HTTP/2 handler.** A thread per stream and one that joins them all, ends of
  requests that are reported twice, sizes that are computed under a lock and used
  after it. Correct means: every thread ends, and one answer per request.
- **Stash.** `put` and `take` are two calls each, and every process sets its
  connection up lazily. Correct means: with the lock, a value is returned once.
- **Repeat loop.** The page for a missing result is made by string replacement from
  the URL of another browser's result. Correct means: it runs the missing test,
  and repeating ends.

## 2. Modules

| Module | Models | Proofs | Runs |
|---|---|---|---|
| `ChunkPool` | what the desktop crawler promises about chunks (abstract) | | through `desktop` |
| `DesktopCrawler` | workers, nested timeouts, browsers, pool | `DesktopCrawlerProofs` | `MCDesktopCrawler` |
| `PageRunner` | runner page, test windows, messages, timeouts | `PageRunnerProofs` | itself |
| `AndroidRunner` | lists, workers, LISTEN/NOTIFY, emulators, pages | `AndroidRunnerProofs` | itself |
| `TestSelection` | `get_resp_ids`, `get_tests`, `run_tests` | `TestSelectionProofs` | itself |
| `AtomicTable` | what `get_or_create_browser` promises (abstract) | | through `browsers` |
| `BrowserTable` | `get_or_create_browser` of concurrent crawlers | `BrowserTableProofs` | itself |
| `ServeSupervisor` | `server.py`, `serve.py`: generations of server processes | `ServerProofs` | through `ResponseServer` |
| `ResponseServer` | the caches of those processes (extends `ServeSupervisor`) | `ServerProofs` | itself |
| `H2Connection` | one HTTP/2 connection: threads, queues, flow control | `H2ConnectionProofs` | itself |
| `Stash` | the store that server processes share | `ServerProofs` | `MCStash` |
| `RepeatLoop` | `create_repeat.py` and the loop around it | `RepeatLoopProofs` | `MCRepeatLoop` |

Each module has its definitions first, in the order of the code, and its
properties at the end. A definition whose comment begins with "A mutant of"
is not part of the specification: it is the definition after it with a plausible
mistake, to show that a property notices the mistake.

Durations are abstracted everywhere: an armed timer may run out at any time.
What a driver call, an adb command, a page or the database may do is a
nondeterministic choice of its outcomes.

### DesktopCrawler

`pc[w]` is the next statement of worker `w` at which the alarm makes a
difference; the comment at `PC` says which lines of `desktop_selenium.py` each
group of control points belongs to. `handler[w]` and `timer[w]` are the
disposition of SIGALRM and the interval timer of the worker process, `saved[w]`
the `old_timeout` that the inner `SignalTimeout` rearms, `exc[w]` an exception
that is in flight in a `finally` clause. `procs[w]` and `ret[w]` are the two
variables called `processes`, that of `run_task` and that of `worker_function`:
they are different, because an exception on the way from one to the other loses
the list. `up` are the chunks whose browser processes live.

The two calls of `SignalTimeout.__enter__` and of `cancel` are steps of their own
(`InstallHandler`, `ArmTimer`, `RestoreHandler`, `RearmTimer`, ...), because the
alarm can fall between them. Where the exception goes is what `CaughtInRunTask`,
`CaughtAfterClosingWindow`, `CaughtWhileQuitting`, `ReplacesReturn`,
`EscapesRunTask` and `AlarmEndsWorker` say; `CustomTimeout` is a `BaseException`,
so that only the clauses that name it catch it. `Hangs` is the set of control
points whose driver call may never return.

`ChunkPool` knows no workers, timers or control points. It allows a chunk to be
lost or to leave a browser behind only if an alarm hit it. The refinement maps
its `running` to the chunks some worker has.

### PageRunner

The runner is one event loop, so a timeout (`Timeout`) and a message
(`HandleMessage`) are one step each, with everything `openNextWindow` does:
close the current window, open the next one or append the `finished` element. A
blocked window is `openWindow = 0`. `phase[i]` is how far `save_result` is in
window `i`; `shut[i]` separates `close()` from the time the window is gone.
`inbox` is the message queue of the runner; messages are handled in any order,
as they come from different windows. `handled` and `ended` only record what has
happened, for the properties.

### AndroidRunner

`main`, `listed`, `urlList`, `appList` are the lists `main` builds before it
starts the workers; `Owner` is `np.array_split`. A worker's entry is its number
in `appList`, which stands for the `run_id` of the URL. `listening` and `inbox`
are the LISTEN connection of the worker; `Notify` is `pg_notify`, which reaches
the connections that listen at that moment. `page[k]` follows `save_result` from
the tests to the notification, with the two requests to the server each in two
halves, as a request that was sent is executed even when the emulator is killed;
`open` are the pages whose scripts can still run. `main` waits for emulators of an
earlier run to be gone (`OldEmulatorsGone`), without an end if adb cannot stop
them. An emulator may not come up,
a restart may fail, and a connection may be lost.

### TestSelection

A sequential program over every input: `Init` chooses the limits and the ids of
the label in any order (the query has no ORDER BY). `TakeId` is one iteration of
`get_resp_ids`, `AddUrls` one of `get_tests`, `TryTest` one of the innermost loop
of `run_tests`. Test declarations are numbered with those that open popups last:
popups are counted among themselves, so their place does not matter. `NumPopups` is
the number of popups that `test_info` gives for a response id of the label. It is
written by hand; `NumPopupsAssumption` says that it is the number of popups the
page opens, as it is today (RP has 8 in basic mode and none in parsing mode, COOP
has 8 and, with one origin, 1). The models do not show what happens if a page is
changed and the number is not.

### BrowserTable

`key` stands for the columns of the constraint `uq_browser`, `info` for `add_info`,
which the query filters by and the constraint leaves out. `pending[c]` is what the
transaction of crawler `c` has inserted and not committed; `Insert` is enabled once
no other transaction holds a row with the key, `InsertConflicts` once such a row is
committed. The sequence moves on even if the INSERT fails. After COMMIT the session
lets the attributes of the row expire, so that `browser.id` is another SELECT
(`Refresh`). `Fail` is any other exception, or the death of the process: what is
not committed is rolled back, but a row that is committed stays.

`AtomicTable` knows no queries and transactions: a call takes effect at one moment,
at which it makes the row of its configuration, finds it, or refuses because its key
is in the table. The refinement maps its table to the committed rows; `Commit` is
the moment at which a row is made.

### ServeSupervisor and ResponseServer

`sup` is where `run_with_restart` is (`popen`: the child is there, and `process` not
yet assigned; `timedOut` and `interrupted`: an exception is caught, and SIGINT not
yet sent), `main` where `run` of the current generation
is, `srv[p]` the state of its server process for port `p`, and `held` the ports
that servers of earlier generations still have. `SignalGroup` is SIGINT to the
process group, which every process meets where it is: `Interrupted` says what it
does to a server, and `cut` remembers a main process that was killed, or was
interrupted in its own exit code, so that it could not end its children.
Ctrl-C may come at any step of `server.py`, any number of times. It is caught in the
`try` body only, and `killpg` reaches the generation only if `process` is the new
one. So there are three windows in which it ends `server.py` and leaves a generation
that nobody tells (`sup = "escaped"`): in `Popen` after the fork, between the timeout
and its `killpg`, and, as a second Ctrl-C, between the first one and its `killpg`.
`JoinServers` decides the exit code as it is in the code: a server that has not
ended after a second counts as failed. (Its exit code is `None` then; the warning
with `'%d'` fails inside `logging` and is not printed, which changes nothing else.)
The accept loop does the TLS handshake, so a server that is asked to stop need not
stop; `Terminate` is the SIGTERM that `multiprocessing` sends to what is left when
main exits, and it is why `process.wait()` in `server.py` returns. `hung` is
`stop_flag.set()` of a server that has died in its sleep on the flag: main waits
until the ten minutes are over.

`ResponseServer` adds the caches of the processes: `entry[p][q]` is what the cache
of `get_response` or of `get_resp_ids` has, `reading[p][q]` what calls that missed
have read; there may be any number of them, so one that has read the same may always
be left. The two caches differ: the one of `get_response` has a bound, and its first
caller to return fills the entry; that of `get_resp_ids` has none, and the last to
return overwrites it (`Open`). `CachesFollow` empties them when a process starts
or ends. A database error in `get_response` raises (its variable is unassigned),
so that nothing is cached; in `get_resp_ids` the empty list is.

### H2Connection

The connection thread (`conn`) receives a batch of frames, dispatches them one by
one into the queues of the stream threads and, in its `finally` clause, puts `None`
into each queue and joins the thread. A thread is a stream with a number, since a
stream may get several: the frame that ends a request ends its registration, and
the h2 library reports that end twice. `pc[t]` is where thread `t` is, in
`queue.get` or in the steps of `H2ResponseWriter`: headers, the computation of
`payload_size`, each DATA frame, the end. What is done with the connection lock
is one step; `size[t]` keeps what was computed under the lock and is used after it.
`stuck` is a sender that is blocked in `sendall` with the lock of the class. The
client and the h2 library are external: `Arrive` says how frames are reported.
An error of the h2 library ends the handler, and `HandleLoop` starts another
`H2Connection` on the same socket. `finish_handling` closes the connection if a
response asks for it (`wptserve/server.py:319`). That is left out because none does:
`as_is_handler`, the only handler that sets `close_connection`, raises before that
over HTTP/2, since `H2ResponseWriter` has no `write_raw_content`.

### Stash

A request constructs a `Stash`, which sets the connection of its process up under
`_initializing` in four steps. The last three call the manager and may fail
(`SetupFails`), the first only makes an object. `Look` and
`Write` are the two calls of `put`, `Get` and `Pop` those of `take`; `careful` says
whether callers take `Stash.lock`, as `dispatcher.py` and `svg.py` do. One key is
followed, and a value is put by one call only, so that one returned twice shows.

### RepeatLoop

`todo` is the list of URLs of the round, `rows[t]` the URLs in the results of test
`t`, `count[t][b]` the number of its results. `CalcRepeat` is one call of
`calc_repeat`: `Lacking` are the tests below the number wanted, counted for every
browser that has any result (`browser_id` is categorical, so zeros are counted),
and the row a URL is made from is arbitrary, as the query has no ORDER BY. A test
that no browser has a result of is not known to the script and not repeated; the
properties say so.

## 3. Runs

| Run | Instance | Shows |
|---|---|---|
| `desktop` | 2 workers, 2 chunks of 2 URLs, symmetric | `SignalsQuiet`: between chunks no timer runs and the default handler is back. `TimersNest`: the inner timer never outlives its block. `ImplementsChunkPool` |
| `desktop_ends` | 1 worker, 2 chunks; every driver call but the close of a test window may hang | `ChunkEnds`: every chunk ends |
| `page_runner` | 4 URLs | `OneAtATime`, `EachLateTestCostsOne`, `RunnerFinishes` |
| `android` | 3 entries, 2 emulators, restart after 2 runs | `EndedByOwnPage`, `NotificationArrives`, `EveryEntryRun`, `WorkersEnd` |
| `android_browser` | 2 browsers with up to one URL each | a violation of `StoredUnderOwnBrowser` |
| `selection` | ids up to 4, splits up to 3, 1 to 5 popups a page, 2 origins, 2 tests | `SplitsPartition`, `ExactlyOnce`, `FewPopups` |
| `browsers` | 2 crawlers, 2 keys, 2 values of `add_info`, 4 ids | `OneRowPerKey`, `ResultsUnderOwnRow`, `ImplementsAtomicTable`, `CallsEnd` |
| `response_server` | 2 ports, one asked for responses, 3 retries, up to 3 faults | `GivesUpForCause`, `PortsAreFree`, `RestartComes`, `DeadServerNoticed`, `NothingLeftBehind` of the supervisor; `ExistingServed`, `StaleEnds` of the caches |
| `h2` | 2 requests, one with a body, frames of stream 0 and of a stream that has ended, a client that may shut its side down or go away | `NoThreadForgotten`, `WholeRequest`, `CutOnlyByOverlap`, `ConnectionEnds` |
| `h2_eof` | 1 request, a client that shuts its side down | a violation of `EofEndsConnection` |
| `stash` | 3 threads, 2 processes, 2 values, with and without the lock | `EachValueOnce`, `NotTakenAgain` |
| `repeat` | 2 browsers, 3 ids, one with 2 popups, 2 results wanted, 3 losses | `CoversMissing`, `RepeatEnds` |

The first run of a module also checks its type invariant, except `selection`, which
leaves `TypeOK` of its module unchecked (it only tells the reader the types), and
`repeat`, whose module has none. The others are not for nothing:
that the loop over the URLs does not overrun a chunk, that `run_times`
and the retries stay within their bounds, that no result is stored without a
browser id, that a DATA frame never exceeds the client's window, and that nobody
uses a half-finished connection of the stash are part of it. Deadlock is not
checked, because all of these programs come to an end or may wait for requests
that never come.

### Bounds

- `desktop`: a worker needs two chunks in a row for an alarm to hit the next
  chunk, and another worker for two chunks to run at once; two URLs are a first
  and a last one. Workers share nothing but the queue, so a third adds nothing.
  Chunks and workers are interchangeable, which the symmetry uses; the runs with
  liveness properties use no symmetry.
- `page_runner`: a late message needs a window that was closed, one it hits, and
  one more whose own message is late in turn; four URLs allow two such chains.
- `android`: three entries among two emulators give shares of different length;
  the longer one is enough for a restart and for a page that was given up to
  notify during the next run of its own emulator or of the other.
- `selection`: four ids contain every kind of gap and order that a comparison of
  neighbours can see, splits are shorter and longer than the runs of ids, and with
  two popups an id the buckets are cut at, before and after a multiple of
  `max_popups`.
- `browsers`: two transactions can conflict; four ids let each crawler insert,
  conflict and look up again. The run ends when the sequence is used up, which
  `CallsEnd` takes as an end.
- `response_server`: two servers are needed for one to die while the other goes on,
  or to fail to get its port while the other has it; one of them has caches, as
  processes share none. Three faults are what three retries need to give up.
- `h2`: two streams are the fewest whose responses overlap; the window holds one
  whole frame and a bit more, so that the second response meets a stale size. One
  DATA frame gives requests with and without a body, and a batch of two frames
  puts the end of a request and a GOAWAY into one `recv`.
- `stash`: two threads of one process meet in the setup and a third, of another
  process, shares only the store; two values distinguish old from new.
- `repeat`: one page of two ids that is narrowed to one, one id whose popups are
  divided in one browser and not in the other; three losses can leave a test
  without results in one browser and with too few in the other.

### Fairness

Safety properties assume none. The liveness properties assume:

- `desktop_ends`: a worker that is not inside a call of `Hangs` goes on, and an
  armed timer fires. The operating system gives both.
- `page_runner`: a pending `setTimeout` runs out. Nothing is assumed of test
  windows, the network or the server.
- `android`: `main` starts the workers once no old emulator runs, a worker goes on
  where it waits for nobody, and its timer fires. That old emulators can be stopped
  is not assumed: `WorkersEnd` begins after that wait.
  Nothing is assumed of the database, the browser, the pages and adb's effect;
  the adb commands themselves are assumed to return.
- `browsers`: the database answers every statement that does not wait for another
  transaction. Crawlers may fail, but need not.
- `response_server`: supervisor, main and servers go on where they wait for nobody.
  A server need not stop when asked to; Ctrl-C, other signals and faults need not
  come, and may come again and again.
  `StaleEnds` assumes in its own statement that the ten minutes end.
- `h2`: the connection thread and the stream threads run. Nothing is assumed of the
  client. `ConnectionEnds` and `EofEndsConnection` assume in their statements that
  no sender is blocked for ever, which the code has no timeout for.
- `repeat`: the scripts are run as long as there is something to repeat.

### Disagreements found

Two runs show where the program does something else than it says:

1. `android_browser`: `url_list` is not emptied between browsers, so the second
   browser visits the URLs of the first, whose `browser_id` is in them.
2. `h2_eof`: `recv` returns `b''` at the end of the stream, and the handler compares
   it with `''`. It does not see "Socket Closed": it reads again at once, for ever,
   and the threads of its streams stay. `store_results.sub.js:32` works around "a
   process leak" of this server.

The models also have these limits of the program, and the properties are stated
so that they bound them:

- The timer of a chunk is one-shot. Once it has fired in the loop, `driver.close()`
  of the `finally` clause runs without one (`desktop_selenium.py:232`): a chunk
  whose close of a test window hangs does not end, and the run of `ChunkEnds` does
  not let that call hang. If the clause raises, the other URLs are skipped.
- An alarm near the end of `run_task` loses the list of processes to kill;
  `ChunkPool` allows this for chunks that an alarm hit and for no others.
- The late message of a test that timed out closes the next test's window.
  `EachLateTestCostsOne` bounds the damage.
- Two crawlers that start with the same new browser, or with one that differs from
  an old one in `add_info` only, race, and the loser gets `None`.
  `ImplementsAtomicTable` and `ResultsUnderOwnRow` show that nothing worse happens.
- Ctrl-C in one of the windows of `server.py` named above ends it, and the generation
  of servers goes on without restarts, although `server.py:41` promises SIGINT to the
  group "in case of Ctrl+C". `NothingLeftBehind` says that this happens in no other
  way, and `StaleEnds` and `RestartComes` except it.
- A main process of the servers that is killed leaves servers with its ports, and
  `server.py` gives up. `PortsAreFree` and `GivesUpForCause` name the cases.
- Two responses on one connection may overlap so that one is cut
  (`CutOnlyByOverlap`), and one whose `payload_size` is 0 waits in a busy loop.
- With `--mult_resp_ids`, `calc_repeat` raises for a URL with popups; `RepeatEnds`
  excepts this, and `FailsOnlyWithMult` shows that nothing else raises.

## 4. Proofs

All theorems hold for every value of the constants that satisfies the named
assumptions in the modules (sizes are natural numbers, a chunk has a URL,
`NoChunk` is no chunk, only popups of one id are divided among pages, ...). None is about
liveness. In each proof module `IInv` is the inductive invariant, `Invariance` says
that it always holds, and the other theorems follow from it; there is a lemma per
action, or per group of actions that leave the same parts alone. What only some
theorems need is added in an invariant of its own: `RunInv` of the Android runner,
`PagesInv` of the pages; `StashInv` is that of the stash.

**DesktopCrawlerProofs** — `TypeCorrect`, `QuietBetweenChunks`, `TimersAreNested`,
`Refinement`. The invariants are not inductive by themselves. That the URL loop
stays within a chunk needs that no two workers have the same chunk (`JobShape`);
that timers nest needs to know handler, timer and `saved` at every control point
(`SignalShape`); and that an uninterrupted chunk leaves no browser behind needs to
know which variable its processes are in at every control point (`ProcessShape`).
`FateShape` says where chunks are that no worker has. `Refinement` shows that
every step is a step of `ChunkPool` or changes nothing it sees.

**PageRunnerProofs** — `TypeCorrect`, `OneTest`, `LateTestsCost`. The bound on lost
tests is shown by counting: every window ended by a stale message is charged to
one stale message handled, and a stale message comes from a window that was
itself ended by its timeout or by a stale message (`Charged`). This is for any
number of URLs.

**AndroidRunnerProofs** — `TypeCorrect`, `OwnPage`, `NothingMissed`,
`NothingLeftOut`. For the notifications only this is used of the shares: an entry
has one owner. Its page is opened by the owner only, after it has begun to listen
(`Shares`, `Connection`), and an inbox holds only runs whose page has been served.
`NothingLeftOut` needs more: `OwnerExists` shows that `np.array_split` gives every
entry to an emulator that is up, for any number of entries and emulators; `Reached`
says that an entry is before its owner, in a test, or ended; and `Handled` that in a
test the handler of the alarm is the custom one, so that an alarm ends the test and
the worker goes on.

**TestSelectionProofs** — `SplittingCorrect`, `EveryTestOnce`, `PopupsLimited`. The
first is the loop invariant of `get_resp_ids` for lists of any length in any order:
the ids taken so far are those in the splits and those of the split the loop is at,
without overlap. The other two are about the two sides of a URL that never meet:
Python divides the popups of a split by `max_popups`, and JavaScript counts them
again. A page counts the popups of the ids before this one, then those of the
origins before this one, then those declared before this one. So the number it has
before a popup is a closed form (`Before`), different for every popup and below the
total; divided by `max_popups` it is the number of the one URL that selects the
popup (`Selects`, `Shares`). With this, a test of a listed id always waits for just
one URL, waits on the page that is open, or has been run once.

**BrowserTableProofs** — `TypeCorrect`, `UniqueRows`, `OwnRow`, `Refinement`. A
transaction holds a row exactly while it is about to commit, all ids given out are
below the sequence, and no two rows clash, committed or not. `Refinement` shows that
every step is a step of `AtomicTable` or changes nothing it sees: a row is committed
while nobody has its key, because its transaction has kept others from the key since
the INSERT.

**ServerProofs** — about supervisor and caches together: `TypeCorrect`,
`GivesUpOnlyForCause`, `PortsFree`, `ExistingAlwaysServed`. A main process that
has ended properly leaves no server (`NobodyLeft`); hence the ports are free. Every
generation that does not end well is charged to a fault of its own (`Balance`), so
that the retries never exceed the faults; hence giving up has a cause. `CacheShape`
says that a process that does not answer has no cache, and that of a response that
was there at the start nobody has read that it is not.

About the stash, in the same module: `StashTypeCorrect`, `ReadOnce`,
`NoLateReturn`. Only the holder of `_initializing` is in the setup (`Setup`). With
the lock, the caller finds the store as it has seen it (`Exclusive`), and a value
that was returned is stored no more (`Returned`); without it, `Values` alone keeps a
value from a take that began later.

**H2ConnectionProofs** — `TypeCorrect`, `ThreadsRemembered`, `RequestsWhole`,
`CutsNeedOverlap`, for any number of streams and DATA frames and batches of any
length. Of a queue or a batch the proofs use only whether there is a frame of a
kind in it, how many, and what comes after what; the first lemmas say what `Append`
and `Tail` do to these. `NoThreadForgotten` is not inductive, because the end of a
request is reported twice and the second report may start a thread that nobody
has asked for. `Order` says that nothing of a request comes after its end, neither
in the batch nor across queues; `Starts`, that what is left of a request goes to the
first thread of its stream, and that a thread number is left for the second report;
`Threads`, that later threads get nothing of a request. `Bodies` counts: the DATA
frames handled, queued and not yet dispatched are those the client has sent, until
the first thread has ended. `Flow` says that a response that has been alone leaves a
part of the window, so that `payload_size`, which is computed under the lock and
used after it, is still right. It needs that the client's window holds the 9 bytes
`payload_size` leaves free (`Window` is not 0); a client with a smaller one gets a
negative `payload_size`, for which a response alone is cut.

**RepeatLoopProofs** — `FailsOnlyWithMult`, `MissingCovered`. The latter is the
action property `CoversMissing`: it needs of all earlier visits that the page in
the URL of a result runs the test of the result, and that popups are divided for
one id only (`RowsRun`); then narrowing the page to the id changes nothing else.

### Only model-checked

The liveness properties (`ChunkEnds`, `RunnerFinishes`, `WorkersEnd`, `CallsEnd`,
`RestartComes`, `DeadServerNoticed`, `NothingLeftBehind`, `StaleEnds`,
`ConnectionEnds`, `RepeatEnds`) need fairness, or are leads-to formulas, and stay
with TLC. So do the two properties that are violated. Every safety property that
a run shows is also a theorem.

## 5. Not modelled

- The choice and the options of browsers, command lines, configuration files,
  logging: they do not change the order of steps.
- `get_tests`: which labels are left out, the timeouts of test files, and the
  manual confirmation mode. `TestSelection` follows one label.
- The rows of single tests in `store_results.py`: a page's results are stored or
  refused as a whole, in one transaction.
- Response generation: lists of header values, written once before any test.
- Analysis: queries and notebooks over stored results.
- WPT proper: not used by the framework.
- HTTP/2: websockets, pushed streams, trailers, frame handlers and the raw frames a
  handler may write. No page of the framework uses them. SETTINGS of the client that
  lower its window or frame size while a response is written: such a response may be
  cut without another beside it, so `CutOnlyByOverlap` holds for clients that keep
  the settings of their preface. The windows of streams, which are taken to be no
  smaller than that of the connection: a browser opens one with the other.
- Servers: the configuration, the routes and `check_subdomains` are part of starting.
  `get_body` reads files that do not change.
- Repeat loop: the doubled timeouts and the page-runner lists made from
  `repeat.json`.

Most of the repository is WPT itself, and notebooks: the framework runs neither.

## 6. Plan

Done, in this order: `ChunkPool` and `DesktopCrawler`; `PageRunner`;
`AndroidRunner`; `BrowserTable`; `TestSelection`; `ServeSupervisor` and
`ResponseServer`; `H2Connection`; `Stash`; `RepeatLoop`; and the proofs of all
safety properties.

What is left:

1. The stash under its lock as a refinement of a store that writes once and reads
   once.
2. `TestSelection` with the ids it takes from the cache of `ResponseServer`, and
   `RepeatLoop` with the pages that `TestSelection` makes in place of its constant.
3. Websockets over HTTP/2, if a page of the framework comes to use them.
