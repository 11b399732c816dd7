# A formal model of owfs

owfs gives programs access to 1-Wire devices as if they were files. This
directory holds TLA+ models of the parts of it where several threads, programs
or failures meet, the TLC runs that check them on small instances, and TLAPS
proofs of their safety properties for every instance. `PROJECT.json` has
the index: components, runs, mutants, the source lines of every definition, the
hazards and the theorems.

    tlc -workers 2 -config DeviceLock.cfg DeviceLock    # a run
    tlapm DeviceLockProofs.tla                          # the proofs of a module

Paths below are relative to `src/module/`; `owlib/` and `owserver/` stand for
`owlib/src/c/` and `owserver/src/c/`.

## The system

`owlib` is the library all programs share. A query (a path to read, write or
list) is parsed, looked up in the cache, and otherwise put to a bus master: an
adapter on this machine or a remote `owserver` over TCP. `owserver` makes the
buses of one machine available to others, and may itself be a client of other
owservers. `owhttpd`, `owftpd`, `owfs` (FUSE), `owcapi` and the bindings are
front ends of owlib; `owshell` is a small client of owserver without owlib.

Every client connection has a thread, and in owserver a second one for each
request, so most of owlib runs concurrently with itself.

| part | state | operations | what makes it hard |
|---|---|---|---|
| device locks (`owlib/ow_devicelock.c`) | per bus master a tree of locks with user counts, and its mutex | get, release | locks are created and freed while others look them up |
| keep-alives (`owserver/loop.c`, `handler.c`, `data.c`, `dir.c`) | who may still write to the socket, a pipe, a mutex | answer, ping | two threads write to one socket; the state is reused for the next request |
| persistence (`owserver/handler.c`) | number of persistent connections | grant, deny, time out, leave | a limit shared by all connections; many ways to leave |
| remote buses (`owlib/ow_server_message.c`) | one shared descriptor of an idle connection | send, read answer, release, close, reconnect | lost and late answers, servers that close, a descriptor written without its lock |
| loop suppression (`owserver/from_client.c`, `ow_server_message.c`) | tokens in a request | append, compare | any topology of servers |
| cache (`owlib/ow_cache.c`) | two trees of entries with times of expiry, their sizes, timeouts | add, get, delete, flip, clear, change a timeout | entries move between trees by time; timeouts change underneath |
| properties (`owlib/ow_read.c`, `ow_write.c`) | device, cache entries per extension | read, write by element, whole or bits | three representations of one array, parts that fail |
| listener (`owlib/ow_net_server.c`, `ow_exec.c`) | count of handlers, shutdown flag and pipe, a rwlock | accept, handle, shut down, restart | shutdown and restart against handlers that start and end |
| search (`owlib/ow_search.c`) | last discrepancy, the serial number so far | next device | passes repeated after a failure, devices unplugged in a pass |
| bus (`owlib/ow_buslock.c`, `ow_reset.c`, `ow_reconnect.c`, `ow_select.c`, `ow_2409.c`) | lock, count of errors, the branch turned on last | transaction, reset, reconnect, select | what is remembered of couplers and errors against what is on the wire |
| list of bus masters (`owlib/ow_connect.c`, `ow_add_inflight.c`, `ow_del_inflight.c`, `ow_w1_*.c`) | ports in a list, their numbers, a rwlock | add, remove | masters come and go under queries; numbers are handed out outside any lock |
| location (`owlib/ow_presence.c`, `ow_read.c`, `ow_write.c`, `ow_parsename.c`) | the selected bus master, the cached location | check, recheck, try again | a cached location that is wrong, gone or replaced by another query |

The parts without a model are listed at the end.

## The modules

**DeviceLock** (proofs in **DeviceLockProofs**). One action for each step of
`DeviceLockGet` and `DeviceLockRelease` between two lock operations. `heap` is
the set of allocated blocks, `devDb` the tree of each bus master, `devMutex` its
mutex, `users` and `owner` the fields of a devlock, `lock[t]` the pointer a
thread holds. A freed block can be allocated again, so a stale pointer is seen.

**Reply** says what a client may see as the answer to a request: pings and, for
a directory, elements, then one final message. **PingLoop** has the connection's
thread (`SingleHandler`, `PingLoop`, `Ping_or_Send`) and the data thread, and is
checked and proved (in **ServerMessageProofs**) to implement Reply. The fallbacks without a pipe or without a second
thread and the extra ping of pingcrazy are included.

**Handler** is the loop of `Handler()` for all connections: read a request,
decide on persistence under the mutex, serve, wait briefly, wait longer if there
are few persistent connections, and give the slot back on the way out.
`--no_persistence` is the case that no request wants persistence. **NetServer**
has `ServerProcess`, its accept loop and the handler threads, and the thread that
restarts the program when its configuration changes. Accesses to freed memory or
destroyed locks on the way (see below) may end the process. **Server** (proofs in
**ServerProofs**) is owserver as a whole: NetServer, with Handler as the routine
that each of its threads runs. A thread enters Handler when it begins and is done
when Handler has returned; all other steps are of one of the two alone.

**ServerMessage** (instance **MCServerMessage**, proofs in
**ServerMessageProofs**) is the client side:
`To_Server`, the read of the answer, `Release_Persistent` and
`Close_Persistent`, with the idle connection's descriptor as `slot`. The remote
server is modelled from what owserver does: it answers in order, sends delay
messages, grants or denies persistence in every message, and may close at any
time. A message is a header and, for an element or an answer, a body. A query may
leave a body unread or break off a list and still keep the connection; what is
left is then read as if it were a header, and may say anything. `id`, `broken`
and `reconnected` are history variables.

**Antiloop** (proofs in **ServerMessageProofs**) follows one request from server to
server, and the presence requests made for it: `DataHandler` parses a path, and
looks for the device in it, before it attaches the tokens that came with the
request, so that such a presence request starts a token list of its own (`start`
is where in the chain). `FromClient` writes a null behind the path of everything but a write,
which is where the token list begins; `Mangled` is a token that lost its first
byte that way, and `ZeroFirst` are the servers whose token begins with a zero.

**Cache** (instance **MCCache**, proofs in **CacheProofs**) has the two trees,
their sizes and times, the timeouts and the clock. An operation under
`cache_mutex_rw` is one step; an addition is two, since the node gets its time of
expiry before the lock is taken, and so is a change of a timeout, which clears
the cache only afterwards. `FS_w_timeout` clears only if the timeout gets shorter
when both are taken as unsigned numbers, so timeouts are integers of the width
`IntMax` gives, negative ones included. Keys are of four sorts, as they are looked
up and deleted differently; `Bare` is the key that `Cache_Del_Internal` deletes in
place of an internal one. `last`, `since`, `until` and `raced` are history
variables.

**ReadWrite** (proofs in **ReadWriteProofs**) has `FS_r_local` and `FS_w_local` for an array property:
aggregate, mixed and separate ways of the device crossed with element, `.ALL` and
`.BYTE` in the path, through the cache or past it. The device lock is used as
DeviceLock shows it to work. The cache is a map that may lose any entry at any
time and may refuse to store one, which is what Cache promises. Arrays of strings
are left out: those the device takes one by one go the way of numbers, and those
taken at once can only be external properties, whose queries take no device lock.

**Search** (proofs in **SearchProofs**) is `BUS_next` with the bit-by-bit pass below it. A serial number has
`B` bits. Every exchange with the bus may fail and devices may be unplugged.

**Bus** (instance **MCBus**, proofs in **BusProofs**) is one local bus master
under the transactions of several threads: `BUS_lock`, `BUS_reset` with its
count of errors in `reconnect_state`, `TestConnection`, which closes and reopens
the bus master, and `BUS_select`, which clears and turns on couplers according
to the branch it remembers. `on` is what the couplers have really joined. Any
exchange may fail before or after it had its effect. `FS_w_reconnect` sets
`reconnect_state` at any time, without a lock, and its write may get lost between
the read and the write of a thread that counts an error. `Physical` says that the
paths that are selected are those of one tree: a coupler hangs in one place, and
a query names a device by the couplers it hangs behind. `dirty` and `sound` are
history variables.

**Masters** (proofs in **LocateProofs**) is the list of bus masters with the
threads that messages of the kernel's w1 subsystem start: each makes a port with
a number, takes the write lock, and links the port or removes the ports that
match it. A read of `next_index` and the write that follows are two steps, as
no lock joins them. Ports live in cells that are used again. `order`, `raced`
and `astray` are history variables. **Locate** (instance **MCLocate**, proofs in
**LocateProofs**) extends it with queries: parsing takes the read lock,
`CheckPresence` takes the cached location or asks all bus masters, each in a
thread of its own, and `FS_read_real` and `FS_write_real` try up to three times
with `ReCheckPresence` in between. There is one device, which may be moved.
`steady` and `misled` are history variables.

In each module, definitions called `X_Something` with the comment "Variant:" are
`X` with a plausible mistake. They are no part of a specification; each property
is known to fail when some `X` is replaced by its variant.

## The runs

| run | module, config | distinct states | what it asks |
|---|---|---|---|
| device_lock | DeviceLock | 154,496 | Is a device given to one query at a time? Is a lock never used after it was freed, never left behind, its user count exact? Do all queries get through once no new ones start? |
| ping_loop | PingLoop | 1,888 | Do the two threads together send what Reply allows? Do pings go on until the answer of this very request, and only into silence? Does every request end? |
| client | MCServerMessage | 378,865 | Is a socket never in two hands, although the slot is written without its lock? Does a query read its own answer unless an earlier answer was not read to its end on its connection? Does every query end, unless the server sends delay messages for ever? |
| client_dir_answers | MCServerMessage, MCServerMessageOwnAnswer.cfg | violation | And if one was not? See Findings. |
| antiloop | Antiloop | 12,948 | Of the servers whose tokens a request should bear, does only the first accept it again? |
| antiloop_first | Antiloop, AntiloopFirst.cfg | violation | Nor the first? See Findings. |
| cache | MCCache | 708,508 (under the view) | Does a lookup give the latest value, only while fresh, and always while fresh and within the lifespan of a tree? Are the sizes exact? |
| read_write | ReadWrite | 167,344 | Does a read give what is in the device? Does a write arrive whole and leave other elements alone? Is no stale entry left? Does the lock come back? |
| server | Server | 356,823 | Is the number of persistent connections exact and within its limit? Does the listener wait for every handler and no longer, unless a signal ends the wait? Is every connection closed and its slot free again? |
| search | Search | 303,004 | Does a search end, find each device once, and make up none? |
| bus | MCBus | 662,706 | Is a selected device alone with its own path, unless a clearing failed or a coupler was switched by hand? Is a bus master that works never closed? Is one that is plugged in for good open in the end? |
| locate | MCLocate | 1,791,532 (with symmetry) | Does no query follow a bus master that is gone? Are numbers given once, and does the list follow the kernel? Is a device that stays where it is found? |

Each module has a type invariant, `TypeOK` or `MTypeOK`. It documents the ranges
of the variables and holds in every one of these runs, though it is not listed
with their properties. The properties the runs check are
commented where they are defined, at the end of their module.

### Bounds

Symmetric roles need few members: three queries on two bus masters with two
devices (DeviceLock) have an owner, a waiter and a newcomer; three connections
for two persistent slots (Server) reach the limit and go beyond it. Two queries
on two sockets (ServerMessage) are a holder of the slot and a query that finds it
taken, and two requests are enough for one to follow another on its connection,
broken or not; reads and writes are left to the violating run and the proofs, as
their answer is read like that of "one" without the case that its body is left.
Four servers
(Antiloop) have loops through and behind the first server; `MaxChain` is the
length up to which presence requests, which nothing else bounds, prolong a chain. Arrays have three
elements (ReadWrite), so that one has neighbours on both sides. Three bits
(Search) give all 256 sets of devices, with discrepancies at every bit. Three
couplers (Bus), two on the trunk and one behind the first, give paths of every
relation to the branch remembered: the same, a part of it, beside it. Two
handlers and two queries (Locate) race each other in pairs; four cells are as
many ports as can be in memory then.

`MaxPings`, `MaxEntries`, `MaxElements`, `MaxRequests`, `MaxChain`, `MaxUnplug` and `MaxTrouble`
are bounds of the models alone; the code has none. A remote server
(ServerMessage) sends a delay message only when all it sent before has been read,
which bounds what is under way and not how many there are. `MaxTrouble` (Bus, Locate) is one budget
for everything that comes from outside: failed exchanges, plugging in and out,
moves, expiries, properties that switch a coupler. With two of them any pair
meets, which is what the histories in the properties tell apart; the theorems
about both modules hold for any budget. `Recovers`, which is no theorem, is shown
for a bus master that meets at most that much trouble.

Cache has one key each for a simultaneous conversion, for something internal that
is deleted as that, and for a directory, with timeouts of -1, 0, 1 and 2 and a
lifespan of 1: there are timeouts that are not cached, below, at and above the
lifespan, and the change from each to each. An ordinary key would do nothing that
the first does not.

The clock of Cache has no bound. `MCCache` gives TLC a view in which times are
differences from now, cut off beyond the longest timeout: the cache compares
nothing else. It leaves out the value of an expired node, which no lookup
returns, and the trees while a clearing is due, about which nothing is claimed
and which the clearing empties. The view is an argument for the run only. The
proofs do not use it, and cover all the run's properties. One
addition at a time is between its two halves.

`SYMMETRY` is used in the runs locate and client_dir_answers, which check no
liveness property.
Deadlock is checked except in the client's runs, where all requests may have
been made.

### Fairness

All fairness is weak, and only for steps the program takes by itself.

- DeviceLock: a thread that can go on does. Nothing is assumed about who gets a
  contended mutex, so what is claimed is that queries drain, not that each is
  served while others keep coming.
- PingLoop: both threads run, and bus work ends (adapters have timeouts).
- Server: the main thread, and each handler thread that has started, timeouts of
  silent clients among its steps. Connections, requests, signals and
  configuration changes need not come.
- ServerMessage: steps of a query; a read ends at the latest with
  `timeout_network`. The server need do nothing. That it does not send delay
  messages for ever is the exception in `QueryEnds`, not fairness.
- ReadWrite: a query that holds the lock goes on; any access may fail.
- Search: every exchange with the bus returns, well or not.
- Bus: a thread that can go on does. That the bus master stays plugged in and
  that queries keep coming are premises of `Recovers`, not fairness.

`ShutsDown` and `Answered` have the premise that clients fall silent. Without it
they fail: Handler does not look at `shutdown_in_progress`, so a client that
goes on asking on its persistent connection keeps the shutdown waiting.

## The proofs

Every safety property that a passing run checks is also proved, and so is the
refinement of Reply. What is below holds for all values of the constants under
the named assumptions. Most of these say that sets are finite, that null values
are not members, or that a set is not empty. Two have content: `Physical` for Bus,
and for Cache that timeouts are integers of one width (`TimeAssumption`).

**DeviceLockProofs**: `TypeCorrect`, `DeviceExclusion`, `NoDanglingDevlock`,
`UsersExact`, `NothingLeaks`, from one inductive invariant. That no freed block
is used rests on the exact user count, which rests on `dev_mutex` being held by
the one thread between its lock and unlock (`TreeMutex`), on a new block being
known to its thread alone (`PrivateBlock`) and on a block serving one device
(`TreeInjective`). Exclusion follows since two owners of a device hold the same
block and its mutex has one owner (`OwnerHolds`).

**ServerMessageProofs** is about what goes over the network, in three parts
that share nothing; it extends the three modules.

- The client: `TypeCorrect`, `SocketExclusiveHolds`, `OwnAnswerHolds`,
  `SlotOwnedHolds`. A socket is in the slot, in the hands of one query, or
  closed. What is under way on it follows from the place of the query
  (`SocketOK`): nothing, or the rest of the answer to its own request with
  nothing behind the final message. Hence the socket in the slot is quiet
  (`NetInv`), and the next query to take it finds it so, unless an answer was not
  read to its end on it (`broken`). `SlotInv` says that until the first reconnection the slot is marked
  exactly while one query is to bring it back.
- The answer: `PingsUntilAnsweredHolds`, `PingMeansQuietHolds` and
  `ImplementsReplyHolds`, that PingLoop implements Reply. `ReplyInv` ties what is
  on the wire and `hd->toclient` to the place of the data thread. Under the mutex
  what the loop has read of `hd->toclient` is still so, so that it does not write
  once the final message is out; and it concludes from the pipe or from
  `toclient` that the thread has ended only when it has.
- The chain of servers: `TokensCorrect`, `LoopsEnd`. Behind the first place, the
  token list names the servers of the chain since the list was started
  (`TokensName`), as only the first token is ever damaged; a server whose token is
  there refuses. Nothing is claimed across the start of a list.

**CacheProofs**: `TypeCorrect`, `LookupIsLatest`, `LookupIsFresh`,
`NothingLostEarly`, `RamExactHolds`, for any timeouts and any lifespan. `KeyOK`
relates the trees to what was stored last. A key whose timeout is zero has nothing
in them. If it is positive (`Holds`), a node in the new tree is the latest or was
killed; without one, a node in the old tree is the latest, was killed, or was
deleted when the tree was past `time_to_kill`, where deleting does not look. The
code sets the lifespan once, from the timeout of stable values and at most an hour,
and lookups go by timeout and not by lifespan: with a timeout above the lifespan
they find what was deleted so, the exception in `LookupIsLatest`, and a tree is
dropped before its entries expire, the limit in `NothingLostEarly`. Of a negative
timeout nothing need be said: nothing is stored or found with it, and a change
from it to a positive one clears the cache, as it is the greater number when both
are unsigned.
The properties are stated while `Settled`: not between the
shortening of a timeout and the clearing that follows, and not once a timeout
has changed under a node on its way in, until the next clearing after that. The
sizes (`RamExactHolds`) are exact without that premise: an addition puts in one
node more or replaces one, and a deletion expires a node and leaves it in its tree.

**ReadWriteProofs**: `TypeCorrect`, `ReadCurrentHolds`, `WriteCompleteHolds`,
`CacheCoherentHolds` and, as an action property, `OthersKeptHolds`. The heart is
which extensions are ever cached for a property (`Usable`). Only for a mixed
property do entries of two extensions stand for one element, and there a request
first deletes the other kind. An entry is right except under the extension that
a query has just written and is about to delete (`CacheOK`). While a query reads,
each element it needs is in its buffer or still to be read (`ReadOK`). While it
writes, the elements it does not mean to change are in the buffer as the device
has them, and each of its own is written, still to be written, or the write is no
success (`WriteOK`).

**ServerProofs**: `CountExactHolds`, `HighLimitHolds`, `AllServedHolds`,
`LastWordHolds`, for owserver as a whole. Only Handler's steps touch the count of
slots, under their mutex, and each counts what it marks. `NetInv` has the same for
`handler_thread_count`, and that no handler starts once `shutdown_in_progress`
is set, so that the byte in the pipe means there is none left, and so does the end
of the wait for it, unless a signal ended that (`interrupted`). `Inner` joins the
two: only a thread that works is in Handler, so that with no handler left no slot
is taken.

**SearchProofs**: `CompleteHolds`, `NoTwiceHolds`, `PresentHolds`, for serial
numbers of any length. Each pass ends at the least serial number above the one
before. `Passed` says this without an order on numbers: the devices found are
those whose path leaves the present one towards zero in front of
`LastDiscrepancy`, or has a zero there (`Progress`). Within a pass (`Pass`) the active devices
are those that share the bits sent, and `last_zero` is the last bit at which a
zero was sent where some device has a one. A pass that fails has set no bit of
`sn` in front of `LastDiscrepancy`, so the next try starts from the same place.
`Followed` needs no stable bus: some device follows the whole of a pass, so a
number is never put together from two devices.

**BusProofs**: `ClosesOnlyFailedHolds`, `OnlyThePathHolds`. `TestConnection`
looks at `reconnect_state` a second time under the lock of the bus. A bus master
that is sound has no errors counted, and one that is not sound does not become so
while a thread has the lock to close it: only a reset or a reconnection, which
need the lock, make it sound. A write to interface/reconnect needs none, and may
only end soundness. For the second theorem, `PathInv` says that unless `dirty` or in the
midst of a clearing the remembered branch is to be trusted (`Trusted`): no
coupler that hangs along it leads off it (`Clear`). A clearing makes a path clear
place by place (`ClearTo`), on its way there over the legs it has turned on
(`Walked`), and losing power only turns couplers off (`Fewer`). A joined coupler
off the path would have a first place at which it
leaves it; there a coupler along the path leads off it, which it does not, being
clear. This uses that paths are those of one tree (`Physical`). Without it a query
for a coupler at a place where it does not hang could be selected next to the
branch where it does.

**LocateProofs**: `IndexUniqueHolds`, `PointersLiveHolds`, `FollowsKernelHolds`,
`FindsHolds`. The first part is about Masters, whose steps the queries leave
alone. `Owned` says who owns a port: it is in the list once, or the own port of one
handler, and a listed port is taken out only by the writer. `Numbered` says that
without a race one handler at most is between its read and its write of
`next_index`, that what it read is still so, and that `next_index` is above all
numbers in use; taking a number back keeps this, since it is unique. `KInv`
relates the list to the kernel: `order` has the messages still to be dealt with,
and unless handlers overtook each other the last of them on a master says what
the kernel has, or, if there is none on it, the list does (`Tracked`). `QInv` adds
the queries: one at work holds the read lock, so that the list stands still, and
once a query has cleared the cached location what is cached names a listed bus
master. This is why a write that starts over has one to follow. `FInv` is about a
query that has met no trouble and was not misled (`Sure`, `Good`): what it has
found answers, what it has given up does not, and between its deletion of the
cached location and its next look only a right one is cached. So the second try at
the latest succeeds, or the query is a write whose cached bus master is gone. What
others cache at any other time makes no difference, as the query does not rely on
it. Least and
greatest positions in a list, which the definitions choose, exist because
intervals are well-founded by inclusion (`Least`, `Last`). Without the
premise about races `next_index` may even get below zero, for which the types
allow.

Model-checked only: all liveness, which is outside the prover's reach
(`Drains`, `EveryRequestEnds`, `QueryEnds`, `LockComesBack`, `ShutsDown`,
`Answered`, `Ends`, `Recovers`), and the two properties that fail, of the runs
client_dir_answers and antiloop_first.

## Findings

1. *An answer that is not read to its end leaves its rest on the connection*
   (`owlib/ow_server_message.c:271`, run client_dir_answers). When
   `Directory_Element` fails, or the body of an element, of a whole directory or of
   a presence answer could not be read, the connection is released for reuse all
   the same. The next request finds bytes on it, takes them for "a good connection"
   (line 596), and reads what is left of the earlier answer as its own.
2. *The first token of a request is damaged* (`owserver/from_client.c:125`, run
   antiloop_first). The null behind the path overwrites the first byte of the
   token list, so the first server of a chain does not recognise its own request
   under "make sure no loop" (line 135). Theorem `LoopsEnd` shows that
   every other server accepts a request that is passed on at most once. A presence
   request that is made while a path is parsed bears one token only, and that is
   the damaged one, so that such requests are accepted lap after lap.

Also seen while modelling, and not the subject of a run:

- After a reconnection `To_Server` marks the slot as in use
  (`ow_server_message.c:592`), but `Close_Persistent` has just made the query
  non-persistent, so this query does not free the slot again. Unless another
  query claimed the slot in between, it stays marked, and from then on every
  request makes a connection of its own. If the slot held another query's idle
  connection by then, that socket is forgotten, still open. The model takes
  these steps; no property claims the slot comes back.
- A restart frees the listening structures while handlers and the main thread
  may still follow them (`ow_exec.c:79`, against the comment at
  `ow_net_server.c:380`), and the last handler writes its byte before it lets go
  of locks that the main thread then destroys (`ow_net_server.c:356`). A signal
  during the wait for the last handler ends it (`ow_net_server.c:353`), against
  "Make sure all the handler threads are complete before closing down" (line 342).
- The loop at `ow_write.c:540` increments the wrong variable and does not end for
  element 1 or later of a writable aggregate of strings. No device of the library
  has one; an external property can, and then the query hangs, without a device
  lock.
- `Cache_Del_Internal` deletes under extension 0 what is stored and looked for under
  `EXTENSION_INTERNAL` (`ow_cache.c:1346`), so that "remove existing entry"
  (`ow_simultaneous.c:199`) removes nothing, or another entry. In Cache an internal
  entry is never deleted.
- Nothing keeps a timeout below the lifespan of a retired tree. With a longer one a
  deleted entry can be found again (`ow_cache.c:1368`), the exception in `GetLatest`.
- A server that keeps sending delay messages keeps a query for ever, as each starts
  its timeout again (`ow_server_message.c:433`), the exception in `QueryEnds`.
- `interface/reconnect` is written without the lock of the bus.
- `Cache_Del_Alias_Persistent` (`ow_cache.c:1681`) frees a node and leaves it in
  its tree. The alias trees are not modelled.
- A node of the cache counts as the size of a pointer, whatever its data
  (`ow_cache.c:652`), so `cache_size` limits the number of entries.
- A handler that the main thread has to run itself takes a read lock the main
  thread holds (`ow_net_server.c:308`). With a rwlock that lets waiting writers go
  first this can block; the model has the default of glibc, which does not.
- A connection accepted during a shutdown is neither handed over nor closed
  (`ow_net_server.c:300`).
- Clearing the couplers of a path may fail, which `BUS_select` does not look at
  (`ow_select.c:96`); a coupler switched through its property is not entered in
  what the bus master remembers (`ow_2409.c:152`), and the mark that
  `OW_discharge` sets is overwritten by its own first selection. `dirty` stands
  for these, and `OnlyThePath` is stated without it. That a reset found a short
  circuit does not stop a selection.
- With a DS2404 on the bus the good second reset leaves the errors counted
  (`ow_reset.c:48`), so single errors far apart add up to a reconnection.
- Threads that add and remove bus masters can overtake each other, so a master
  that is unplugged and plugged in again at once may end up out of the list
  (`ow_w1_dispatch.c:124`). They change `next_index` outside any lock
  (`ow_connect.c:121`). `Del_InFlight` goes on from the port it has freed
  (`ow_del_inflight.c:38`), and a port that was never linked is looked for in the
  list without the lock (`ow_w1_addremove.c:91`). The histories `astray` and
  `raced` and the outcome `crashed` stand for these.
- `CheckPresence` trusts a cached location whose bus master is gone. A read gets
  over it; a write returns -ENODEV without a look at the other bus masters, until
  the location expires. And it trusts what it finds right after
  `Cache_Del_Device` (`ow_presence.c:121`): if another query has just cached where
  the device was before (line 275), the device is not found although it never moved
  during the query. These are the two exceptions in `Finds`.
- A query whose connection could not be made still counts as persistent, and
  `Close_Persistent` then frees the slot even if another query has claimed it.
- In owftpd, `ftp_session_init` sets the descriptor to `FILE_DESCRIPTOR_BAD`,
  which the invariant of a session excludes. Built with its assertions it ends at
  the first connection.

## Not modelled

The models cover the shared state of owlib and owserver. In lines they stand for
a small part of the repository, 4,415 of 103,128 lines: most of it is one driver per
device and adapter, bindings in many languages, front ends and documentation,
where there is little to interleave or to fail halfway.

Left out for these reasons:

- the adapters' hardware protocols and the device drivers: one per kind of
  hardware, sequential, data rather than control;
- path parsing, checksums, settings and statistics: functions on text and bytes,
  plain numbers;
- directories: a walk over what Search and the cache give, one thread for each
  bus master, which share nothing but the output;
- aliases, whose trees have text as keys, and simultaneous conversion, whose
  marker is a cached value with a time of its own, as in Cache;
- the monitors that look for USB, network and zeroconf bus masters: they call
  `Add_InFlight` and `Del_InFlight` as the threads of Masters do;
- the numbering of netlink messages and the pipes of the w1 bus master;
- access to the library (`ow_api.c`): a count and a flag under two mutexes;
- zeroconf, start as a daemon, bindings and graphical programs, `owhttpd` (its
  listener is NetServer), `owfs`, `owshell`, and `owftpd` (see above).

Of the modelled parts, left out are: in ServerMessage the contents of messages
and the fallback from DIRALL to DIR; in Cache the persistent and alias trees; in
ReadWrite sparse and string arrays, virtual properties and simultaneous
conversions; in NetServer the set-up of sockets; in Search misread bits, devices
that appear during a search, and alarm searches (after a device is unplugged a
device already found may be returned again: `NoTwice` is stated for a bus that
stays); in Bus overdrive, the steps of a transaction behind the selection, and
adapters with a selection of their own; in Masters ports with several bus
masters; in Locate adapters that know their devices by a list, and more than one
device.

Two compositions remain: ReadWrite over Cache and DeviceLock in place of the map
and the lock it assumes of them, and Locate over ServerMessage for bus masters
that are remote.
