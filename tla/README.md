# A specification of the WorldForge metaserver

The metaserver is a small UDP daemon that keeps a list of the game servers that
are up, and answers clients that ask for it.  This directory holds TLA+ modules
that model its code, the TLC configurations that check them on small instances,
and proofs that TLAPS checks for every instance.

## Inventory

| component | state | operations |
|---|---|---|
| event loop (`Metaserver::Process`, `SignalManager`, `SIGALRMHandler`, `SIGINTHandler`) | the program point, `mAlarm`, `mGracefulQuit`, the registered handlers, the kernel's one-shot alarm, the receive buffer | start-up, test for SIGINT, test for SIGALRM, `Reaper`, `recvfrom`, the handlers, `system` |
| lists and handlers (`Metaserver`, `Handshake`) | four `std::list`s (active servers, active clients, and the pending handshakes of each), four peak counters, `mPacketCount` | `HandleServerKeepalive`, `HandleClientKeepalive`, `HandleServerShake`, `HandleClientShake`, `HandleTerminate`, `HandleListRequest`, `ReapList`, `Interrupted` |
| wire messages (`NetMsg`, its subclasses) | a buffer, its length, a read position, the flags `mGood` and `mPacked` | pack, unpack, verify, `AddServer` |
| paging (`HandleListRequest`, `metaserver_listreq` of `TestClient`) | the client's `from` and `total` | the request loop |
| peers (`TestServer`, `TestClient`) | their place in a script of messages, the end of a sleep | keepalive, shake, terminate, list |
| start-up (`main`, `ParseCommandline`, `LookupHost`, `Daemonize`, `Initialize`) | the options, the session, the descriptors, the socket | each option, both forks, `setsid`, closing, `socket`, `bind` |
| wrappers and logging (`WrapUnix`) | `daemon_proc` | system calls, messages to stderr or syslog, formatting |

How they interact.  One process, one thread: `Process` blocks in `recvfrom`,
decodes a datagram with `NetMsg`, runs one handler and starts over.  Two signals
interrupt it at any point; their handlers only raise a flag that the loop
polls.  SIGALRM makes the loop sweep all four lists (`Reaper`), which asks for
the next alarm.  A game server or a client registers in two steps: its KEEPALIVE
makes a random number that is kept on a pending list and sent back, its SHAKE
brings the number back, uses up the pending entry and puts the *sender* of the
SHAKE on the active list, or renews it.  A LISTREQ names a position in the list
of servers and is answered with a block of addresses; a client pages through
the list with several.  When a server is listed or delisted the command
given with `--execute` is run with `system`, which blocks the loop.

What is hard about it, and what would make it correct:

* *signals and a blocking call*: a flag is tested and then the process blocks;
  alarms are one-shot.  No expiry may be lost, the clock must not stop, SIGINT
  must end the process through `Interrupted`.
* *ages*: an entry spared by one sweep must be gone after the next; the sweep
  erases while it iterates, and time passes under it.
* *two-step registration over an unreliable network*: repeated, replayed, late
  and mixed-up SHAKEs; one pending entry is good for one listing or renewal,
  and no address may be listed twice.
* *positions into a changing list*: clients page by position while servers
  come and go.
* *one buffer for every datagram*: a short datagram is read together with what earlier
  ones left; its type is read twice, from two buffers, and compared only sometimes.  No
  datagram may be acted on for what another one said.
* *a block of addresses in a datagram*: the answer must fit, be packed once in whatever
  order C++ evaluates the arguments of `sendto`, and unpack to what the list held.
* *what follows the command*: peaks and erasures happen after a blocking
  `system`.
* *times that several parties keep*: a server's keepalives, the reaping interval, the sleep the
  test server takes for "2X" it.  A renewal in time must beat the sweep, a silent server must go.
* *becoming a daemon*: two forks, a new session, closed descriptors, and messages that must go somewhere else
  from one statement on; the shell sees the first exit status only.

`PROJECT.json` lists each hazard at its line with the properties about it.

## The modules

| module | models |
|---|---|
| `EventLoop` | the control skeleton of `Process` with the two signals, `alarm`, `recvfrom` and `system`; a datagram only occupies the loop |
| `ListRequest` | how a LISTREQ is answered: the position asked for, the block of addresses, the total |
| `Metaserver` (extends `EventLoop`, `ListRequest`) | the lists, the handlers, the sweep, the counters, and a clock in seconds |
| `Directory` | the abstract promise of an active list: leases, tickets, a clock, and who asked for what |
| `Roster` | the abstract promise to a client that pages: a list that is joined at the end and left from anywhere |
| `MetaserverDirectory` (extends `Metaserver`) | a record of the datagram each step handles, and the refinement mappings: servers and clients onto `Directory`, the servers onto `Roster` |
| `Paging` (extends `Roster`, `ListRequest`) | the list client's request loop against a roster that changes, over an unreliable network |
| `Wire` | words in network byte order, the images of messages, buffers, message types |
| `Receiver` (extends `Wire`) | how `Process` decodes a datagram: whole, short, oversized |
| `ListResponse` (extends `Wire`, instantiates `ListRequest`) | `HandleListRequest` statement by statement, `ListResponseMsg`, and what the client unpacks |
| `Answering` (extends `Receiver`, `ListResponse`) | the two as one loop: datagrams come in, LISTREQs are answered |
| `System` (extends `Metaserver`) | the metaserver and game servers that follow the test server's script, over a faulty network and in time |
| `Startup` | `main` up to the event loop: command line, daemon, socket, and where messages go |
| `MCMetaserver`, `MCAnswering`, `MCSystem`, `MCStartup` | small instances for TLC |
| `ListLemmas`, `MetaserverProofs`, `SystemProofs`, `PunctualProofs`, `DirectoryProofs`, `PagingProofs`, `AnsweringProofs`, `StartupProofs` | the proofs |

**EventLoop.**  `pc` names the call or test that comes next.  One action stands for
each statement of the loop that another actor could come between: the test of
`mGracefulQuit`, the test of `mAlarm`, the sweep, `recvfrom` finding the buffer
empty (`LoopBlock`), `recvfrom` returning a datagram whose handler then runs
(`LoopReceive`), the return of `system`.  The kernel acts at any point: `SIGALRM`
when an alarm is armed, `SIGINT` any time except while `system` has it ignored,
`Arrive` while the receive buffer has room.  A handler is installed with
`sa_flags = 0`, so a signal that finds the process in `recvfrom` ends the wait with
EINTR and the loop starts over.  `EventLoop` has no clock: an armed alarm may go
off whenever it likes, which covers every speed of the process.

**Metaserver.**  `lists` holds the four `std::list`s as sequences of
`[addr, hs, ts]`, an iterator is a position, `FindByHS` and `FindByAddr` are the set
that holds the position found or nothing for `end()`.  Each action
conjoins the loop's action with what the handler does to the data; the whole of a
handler up to `system` is one step, because nothing but signal handlers runs
between its statements and they touch only the flags.  `system` splits a
handler: what follows it (the peak in `HandleServerShake`, the erasure in
`ReapList`) is in `HookReturns`.  The sweep is one action per iterator step,
because `time(NULL)` is read anew for every entry.  `Tick` advances the clock between
any two steps, except past the moment an armed alarm is due (the kernel delivers it
then) and at most `Slack` times during one sweep.  
A datagram is a record of its type, its sender and one argument; any sender may send
any argument, so replays, forged and late messages are all included, and so is
a datagram that decodes to something else than its sender meant.

**Directory.**  A lease for each listed address, a sequence of tickets, a clock, and `request`: what the latest step was
asked, by which address and with which value.  Every change is tied to it.  `Issue` gives a ticket to whoever asks.  `Redeem` uses up
the oldest ticket with the value shown and makes the lease of the address that *shows* it new, whoever the ticket was issued to: that is
what `FindByHS` and `HandleServerShake` do, and the code promises no more.  `Refuse`: no ticket has the value, and nothing changes.  `Withdraw`
ends the lease of the address that asks, and no other.  `Disregard`: what is not for this directory changes nothing.  A step that nobody asked
for (`Unasked`) may let time pass, end a lease or void a ticket, these only if stale, or do nothing.

**MetaserverDirectory.**  To say who asked, `ObservedSpec` adds to `Metaserver` one history variable, `asked`: the datagram that the latest step
handled, or `Nothing`; it constrains nothing (each step of `Metaserver` is one of `ObservedNext`).  `Request` is what a datagram asks of a
directory: of the servers' a SERVERKEEPALIVE asks a ticket, a SERVERSHAKE redeems, a TERMINATE withdraws; of the clients' a CLIENTKEEPALIVE and a
CLIENTSHAKE do, and nothing withdraws, not even a TERMINATE from the same host.  The address asks, not the port.  A
lease is the timestamp of the address's entry, the tickets are the pending list.  So that a server leaves the list only by a TERMINATE from its
own address or because it is stale, that an invented value uses up nobody's ticket, and that a SHAKE lists its sender and nobody else are all
steps of the refinement that could fail.

**ListRequest.**  `ListResponses` is the set of answers `HandleListRequest` may give to
a request for the servers from a position on.  It is a set because the
handler advances its iterator without a bound: past the end of the list that is undefined in
C++, and the iterator then stands anywhere on the ring of the list's nodes.  At `end()`
the code never calls `SetTotalServers`, so the answer says 0 of 0 even when servers are
listed; the client's loop relies on it to end.

**Paging.**  The client is `metaserver_listreq` of the test client: it sends a KEEPALIVE,
waits for one datagram, answers a HANDSHAKE, and then asks for the servers from its counter
`from` on until the counter passes the last total or the total is 0.  Of the metaserver only
the answers and the list are there, and the list is a `Roster`: that the real list is one is
`RegistrationOrder` of the metaserver, so the two models compose.  Both directions
of the network are sets of datagrams: any order of delivery, `Lose`, and repeated
delivery up to `MaxRepeats`.  `due` and `joined` are history variables: who was listed at the
latest request, and who joined since the first, without those who left.

**Receiver.**  `mesg` is the one receive array of `Process`; `recvfrom` overwrites its beginning and
leaves the rest.  A first `NetMsg` is made of it, with a `mBuffer` that nothing initialises; it reads the
type only (`Types`).  The `switch` then makes a second message, of the class for that type, whose
zeroed `mBuffer` gets as many bytes as were received and which reads the type again (`Copied`).  Neither copies
a datagram that fills the buffer.  TERMINATE and LISTREQ are carried out only if the second message
is `Good`; a SHAKE is handled whatever the second message says, with an uninitialised
handshake when the types differ; a KEEPALIVE has no second message.  So a datagram of
one byte can count as a KEEPALIVE when the array still ends like one.  `Metaserver` covers this: any sender may send any
datagram, so it stands for whatever the bytes decode to.

**ListResponse.**  One action per statement of `HandleListRequest`.  The two getters in the arguments of
`sendto` both call `Pack` if the message is not yet packed and may be evaluated in either order;
`Pack` appends at `mLength`.  `Unpacked` is what `metaserver_listreq` takes out of the datagram with
`unpack_uint32`.  `ClientUnpacksAnswer` says that this is one of the `ListResponses` of
`ListRequest`, the operator that `Metaserver` and `Paging` use for a LISTRESP.

**Answering.**  One iteration of `Process` receives a datagram as `Receiver` says (`Process`) and, if that runs the handler
of LISTREQ, calls `HandleListRequest` with the position that was decoded and with fresh locals (`Locals`); its statements are
those of `ListResponse`.  When the answer is sent, or no handler of LISTREQ ran, the loop receives again, into the same array.
Between datagrams the list may become any other list (`ListChanges`): what the other handlers and the sweep do to it is `Metaserver`'s matter.
`AnswersItsRequest` goes from datagram to datagram: the answer sent is one to the position in the bytes received last.

**System.**  Module `Metaserver` lets any datagram come at any time; here it comes from somewhere.  A game server is `dg_cli` of
`TestServer`: `Script` is its list of calls, `at` its place in it.  `Keepalive` is `metaserver_keepalive` up to
its `recvfrom`, `Shake` the rest; a call that fails ends the program (`err_sys`), and nothing but the
answer ends its wait.  `toServer` is what is under way to the metaserver, `inbox` its receive
buffer in the order of arrival, which the loop takes from the head (`Serve`); `toPeer` are the answers.
The network delivers any datagram (the oldest one if `Ordered`), repeats up to `MaxRepeats` and loses up to `MaxLosses`.
A sleep ends at its time or later.  `Punctual` says how much later:
a game server is through with what follows a sleep, up to the metaserver's handlers, within `RoundTime`; the clock waits for it.
`bogus`, `voided` and `disturbed` are history variables; the last holds the game servers of which a TERMINATE was lost or overtook a SHAKE.

**Startup.**  One action per option of `getopt_long`, and one per call from `fork` to `bind`, each of which can
fail.  The process that is followed is the one that goes on; the shell sees the status of the first to exit.
`descriptors` says what 0 to 4 are open on: the terminal, something inherited, nothing, the socket, the connection to the log.  A
message is recorded with the stream it was written to and what that was open on, so that a message to a
closed descriptor, or to one that has been given to something else since, is told from one that arrives.  The terminal may
interrupt or hang up at any point, which reaches only processes in its session.  The command given with `-x`
is abstracted to whether it is empty.

## The runs

| run | configuration | question |
|---|---|---|
| loop | `EventLoop` | is the clock ever dead?  With traffic, is every alarm swept and every SIGINT honoured; without, what can stop the sweeps, and does an alarm wake a sleeping loop? |
| servers | `Metaserver_servers` | types, no duplicates, ages, peaks, the servers' directory and roster, and the command on every change, in a DEBUG build with a command, with end points that share an address and values never issued |
| clients | `Metaserver_clients` | the clients' directory, likewise, with TERMINATEs and SERVERSHAKEs among its datagrams |
| paging | `Paging` | does the client print the whole list, once, without a gap; and does its loop end when servers leave and datagrams are repeated? |
| answering | `Answering` | is any datagram acted on for what an earlier one left in the buffer?  Does a LISTRESP fit, is it packed once, and is it an answer to its own request? |
| system_punctual | `System_punctual` | do two game servers that keep to their times stay listed, and is one that fell silent, wherever in its script, gone after two intervals and a sweep? |
| system_unruly | `System_unruly` | with losses, repeats, reordering and failures: what makes a SHAKE fail, what lists a server again that has terminated, and can a script hang? |
| startup | `Startup` | any command line, any failure: is the socket bound, and to the port asked for if there is such a port, the daemon detached, every failure told, every report readable? |
| lost_wakeup | `Metaserver_lost_wakeup` | *violated*: is a silent server gone after two intervals? |
| paging_leaves | `Paging_leaves` | *violated*: is a server that registers between two requests always printed? |
| system_overtaken | `System_overtaken` | *violated*: is the test server unlisted when it comes to its last TERMINATE, after "2X debug reap interval"? |
| startup_binds | `Startup_binds` | *violated*: does the process listen on the port and at the address it is given? |

**Bounds.**  `MaxPackets` datagrams are received and the clock stops at `MaxTime`; deadlock is not
checked because these bounds, and the end of the process, stop every run.
Two addresses are the least that can be listed at once, be confused by a search,
or be mis-ordered, and three end points let two share one; one interval is one tick, so the four ticks of `servers` span three
sweeps, more than the two that an entry can survive.  Five datagrams allow a full
registration, a renewal and a replay, or two registrations and a termination.  `clients` has
two handshake values for three end points; with its one value, `servers` collides all the time, and its SHAKEs of a value that was never
issued are refused.  `servers` is a DEBUG
build with a command, the one with most steps: it splits the handlers and the sweep at `system`; `clients` and `lost_wakeup` are release builds.  The receive buffer holds one datagram where order of arrival
does not matter (the handler picks any datagram of the set), three in the
runs of the loop alone, so that it fills and drops.

`paging` has three servers and two addresses in a block, four joins, two departures and one repetition: a
listing takes up to three requests, joins fall before, between and after them, the last block is full, partial or
empty, the counter gets ahead of the list (the undefined advance), a server leaves and joins again, and a stale LISTRESP
is taken as the answer to a later request.  `PagingComplete` speaks of the behaviours up to the first departure or repetition,
because it is false behind them: a repeated LISTRESP is counted twice (nothing in it says which request it answers),
and a departure shifts positions.  The violation in `paging_leaves` needs two joins and one departure.

`answering` has buffers of 26 bytes in place of 570: like 570 it is 2 more than a multiple of 4, so that the largest
response leaves 2 bytes; three addresses fit, and up to four are listed.  `MAXLINE` equals `MAX_MSG_LENGTH` as in `wrapunix.hh`.
The datagrams are messages of up to two words of five types, whole or cut off before, within, at the end of or just behind
their first word, in any sequence, and two of 26 and 28 bytes, which fill the buffer and exceed it.  Their arguments are 1 and 16909060, whose four bytes
differ and which is past the end of every list.  Uninitialised memory holds a type of either kind, checked again or not.
TLC's integers have 32 bits with a sign, so the words of the runs stay below 2^31; the proofs are for all of `Word`.

The passing runs of `System` divide its dimensions.  `system_punctual` has two game servers with one handshake value between them, three short rounds each and time
enough (`MaxTime`) for all of them, a wait and its sweeps; the network is in order and loses nothing, the pause
is two seconds, `RoundTime` one, the interval three: the same relation as the 5, 2 and 7 seconds of
a DEBUG build.  That a round takes less than a pause matters: where both are one second and the interval two, the SHAKE of one round may
still be under way when the next begins, and with it the deadline of the next; `StaysListed` is then false from the third round on.
The operator may interrupt.  A failing call may end one of the two anywhere, with or without an
entry and a pending handshake, while the other goes on; the wait of 8 exceeds two intervals and a sweep by one, so that a game server
is silent in its sleep, too.  `system_unruly` has one game
server and one of each fault, out of order: enough for a SHAKE that comes twice, a pending handshake swept away under a SHAKE, a TERMINATE that is lost
or overtakes, and a wait for an
answer that was lost.  Its clock stops at 3, after two sweeps.  Values that coincide *between* game servers, and the listing of one by another's
datagrams, are out of its reach; the theorems about `BogusExplained` and `UnlistedUnlessDisturbed` are for any number of them.
`system_overtaken` has one game server and the numbers of the source, five rounds with pauses of 5, a wait of 10, an interval of 7
with 2 of slack, on a network without faults but for the order.  Its property holds when the network keeps the order, and, out of order, with a wait of 17: the violation needs both the late
SHAKE and the short wait.

`startup` has every command line of up to three options, so that any two repeat or
contradict each other before a third; the ports are 80, 65536 (0 in its low 16 bits), 65537 and no number.
`startup_binds` has the two lines that give a port above 65535 and a known host.  Five descriptors are as many as the process ever holds, an inherited one included.

**Fairness.**  `LoopSpec` assumes that the process is scheduled, that the
command ends, that the kernel delivers an alarm, and (strongly) that a
sweep ends: it walks four finite lists that nothing else changes.  `AlarmSwept` and `InterruptHonoured` are
conditional on `Traffic`, that datagrams keep arriving.  SIGINT is never assumed.  `PagingSpec` assumes that the client and the
metaserver run and take what the network delivers; nothing makes the network deliver,
so `ClientEnds` excuses a lost datagram, after which the client waits for ever.
`SysSpec` assumes that the metaserver and each game server are scheduled, that alarms are delivered, that
time passes, and that the network delivers what it does not lose.  `ScriptsEnd` excuses a loss, for the same reason, and the end of the metaserver.
`Startup` and `Answering` need no fairness: they state safety only.

**What was found.**

* *The lost wake-up.*  A SIGALRM that arrives after `mAlarm` was tested and before the
  process blocks in `recvfrom` only raises the flag.  The alarm is one-shot and only the
  Reaper asks for the next, so a metaserver without traffic sleeps with stale servers listed
  until some datagram comes.  `OnlyLostWakeupStopsSweeps` shows that nothing
  else stops the sweeps; with traffic, `AlarmSwept` holds.
* *Servers that register between two requests.*  The note at `metaserver.cpp:766` says a client
  gets them.  It does while nobody leaves (`PagingComplete`); a departure between
  two requests moves those behind it up, past the client's position.
* *`--server-ip` has no effect.*  `LookupHost` assigns the address to its parameter, and the socket is bound to
  any address.
* *The number given with `-p`.*  It is an `int` that nothing checks; `htons` keeps its low 16 bits.  `-p 65537` listens on port 1 and `-p 65536` on any port,
  while the process announces the number given.  For a number that is a port, `ListensOnValidPort` holds.
* *The late SHAKE.*  `HandleServerShake` lists the sender of any SHAKE whose value is pending, and
  `HandleTerminate` leaves pending handshakes alone.  A SHAKE that the TERMINATE overtakes lists the server again, and
  the test server's second TERMINATE is not "for unlisted server" (`dgclibig.c:52`).  `UnlistedUnlessDisturbed` says that this, and a TERMINATE that is
  lost, is all that can do it.
* *The wait that is too short.*  The test server sleeps for 10 seconds as "2X debug reap interval", but the interval
  is 7, and an entry can live for two of them: the one that the late SHAKE makes outlives the wait.  `SilentAreGone` says what would be enough: two intervals and a sweep.

Each of these shows in a run that ends in a violation, the last two in one, and so do the two before them.  Three more disagreements showed in passing:

* *The command on reaping.*  The help text promises the command "on Server List/Delist" (`metaserver.cpp:256`);
  `ReapList` runs it only in a DEBUG build (`metaserver.cpp:502`).  `HookOnListChange` is checked and proved for such a build; with `DEBUG = FALSE` it is false.
* *A `printf` in a daemon.*  The message about an unknown type, in a DEBUG build, goes to descriptor 1, which
  is closed or the log's connection; `MessagesReadable` excepts it.
* *`--quiet` is not quite.*  An unknown host is reported on stdout all the same (`OptServerIp`).

## The proofs

`MetaserverProofs` begins with the loop's invariants, for every receive buffer, build and
command; `LoopInv` adds to them what the start-up labels say about the
handlers and the alarm.  It then proves one inductive invariant,

    Inv == TypeOK /\ LoopInv /\ AtLead /\ UniqueActive /\ PeakCoversLists /\ Ages

for any hosts, datagrams, handshake values, interval and bounds.  It first shows that a
step does one of four things to each list (`NextChange`: leaves it, erases one entry,
adds one at the end that is not there yet, renews one), and then what each of
the four preserves.  `AtLead`: while the command runs during a sweep, the iterator is
still at a stale entry, so the erasure that follows is defined.  `Ages` is what
`BoundedStaleness` needs to be inductive: timestamps are not in the future; the
alarm is due within an interval; while it is armed, it is due before any entry is too
old (`Covered`); and while a sweep is at work, everything behind its iterator is at most
an interval and the seconds of this sweep old (`Swept`), which becomes `Covered` when the
sweep asks for the next alarm.  `CommandOnListChange` adds that a renewal keeps the addresses on a list; it is for
a DEBUG build, because in any other the Reaper runs no command (see above).

`SystemProofs` proves that a step of the system is a step of the metaserver or leaves it alone (`StepIsMetaserverStep`), which needs that
only datagrams of game servers are ever in the receive buffer (`SysTypeOK`).  So `ImplementsMetaserver`: every theorem about `Metaserver`
holds among its peers.

Two more of its theorems are about what is under way, on a network that loses, repeats and reorders as it likes.  `UnlistedAtTheEnd` is for game servers with hosts of their own.
Its invariant says of each game server from its first TERMINATE on, unless it is `disturbed`, that whatever could still list it, a SHAKE under way, and
an entry that is there, is `Overruled` by a TERMINATE behind it: in the network or in the receive buffer.  Taking something out of the network keeps the order of the rest, so a SHAKE loses
the TERMINATE behind it only if that is lost or delivered first.  A SHAKE of somebody else cannot list it, because a SHAKE lists its sender.
`BogusShakesHaveAReason` is for any network.  Handshake values coincide, and `FindByHS` goes by value alone, so no SHAKE owns a pending entry;
counting per value is not inductive either, because a bogus SHAKE of one value spends a repetition of another.
`Explained` therefore bounds every *set* of values at once: for any set `H`, the handshakes and SHAKEs under way with a value in `H` exceed the pending entries with such a value
by no more than `repeats + voided - bogus`.  A step that serves a bogus SHAKE of value *v* keeps the bound of `H` by that of `H` with *v* added, where
no pending entry is added but one SHAKE is.  `BogusExplained` is the bound of the empty set.  It rests on the lemmas about `Count` in `ListLemmas`: what appending,
erasing and enlarging the set do to the number of elements of a list that are in a set.

`PunctualProofs` proves `StaysListed`: a game server that has been listed stays listed through all its rounds (`PunctualServersStayListed`), for any
number of game servers and handshake values, any order of datagrams and any calls that fail.  Of its hypotheses, `Undisturbed`, those on the network are
needed: a lost datagram leaves an entry without its renewal, and a SHAKE that is repeated may take the pending entry of another game server with the same
value, whose own SHAKE is then bogus (TLC finds both if `system_punctual` is given a loss or a repeat); two game servers on one host delist each other.
`RoundTime < Pause` is the relation said above, `Pause + RoundTime <= REAP_INTERVAL` the source's "5 seconds plus 2 slack".  `RoundTime < Wait` lets the
invariant speak of one round of a game server at a time; the test server's wait is much longer.
The invariant, `PunctualInv`, has four parts beside the bound of the clock.

* `InTime` relates the clock to `until` and `due`: whoever is busy is not past its deadline, and a sleep that begins while its SHAKE is still
  under way ends only after the SHAKE's deadline.  `OneAtATime`: of a round, one datagram at a time is under way.
* `Lease` bounds the age of a game server's entry: before the next SHAKE is handled it is no older than a pause and a round before `due`.
  Stale means older than `REAP_INTERVAL`, and so no sweep takes it.
* `Matched` is why that SHAKE is taken for what it is.  Values coincide and `FindByHS` goes by value alone, so a SHAKE may use up the pending entry of another
  game server.  For each value *v* and each time *t*, the game servers that hold *v* from a round that began at *t* or later are no more than
  the pending entries with *v* that are no older than *t*.  A SHAKE takes one away on either side if the entry it takes is the oldest with its value.
* `Sorted` says that it is: pending entries are appended, so the first with a value is one of the oldest.

A sweep removes pending entries older than the interval; the rounds that are not over began after that, so what it removes counts for none of them.

Its last part proves `SilentAreGone` (`SilentServersAreGone`), without any of these hypotheses: whatever the network and the calls do, and whatever the script's times
are.  `SilentInv` says of each entry that some game server on its host had until the entry's timestamp or later for what it was doing (`Backed`, by the deadline `due`), and of each
game server that it is not past its deadline while anything of it is under way (`Prompt`), because the clock waits for it.  So the entry of a host
whose game servers are all silent is older than two intervals and a sweep, and `BoundedStaleness` with the clock's being alive (`OneClock`) forbids it.

`DirectoryProofs` proves that the list of servers is a `Roster`: from
`MetaserverProofs!NextChange` and `UniqueActive`, each way a step changes a list maps to a step of
the roster: an erasure to `Leave`, an addition to `Join`, a renewal, which keeps every address in
its place, to a stutter.  `ServersAreADirectory` and `ClientsAreADirectory` prove the refinements of `Directory`, handler by handler and with the datagram
each step handled: a KEEPALIVE is an `Issue` for its sender, a SHAKE whose value `FindByHS` finds is a `Redeem` of just that ticket by its sender, any other a `Refuse`,
a TERMINATE a `Withdraw` of its sender, whether it was listed or not, and any other datagram a `Disregard`.  A step without a datagram is `Unasked`: the Reaper's erasure is an `Expire` or a
`Void`, which need the entry to be stale (`AtLead` when the command ran between the test and the erasure).

`PagingProofs` proves `PagingTypeOK` and `PagingComplete` for any number of servers, any block size and any bounds.  Two invariants
go together.  `TInv` holds always: what is under way is well formed, and the counter is the number of addresses
printed.  `PInv` holds while nobody has left and nothing was repeated (`Quiet`, which a step can only end: `QuietBefore`): what is printed is a
prefix of the list, client and metaserver take turns (`Turns`: at each place of
the client at most one relevant datagram is under way), and a LISTRESP under way continues
what is printed (`Continues`), with a total of 0 only when all that is due is
printed.  It survives a server's joining because the list only grows at its end.

`AnsweringProofs` begins with the receiver: leftovers never terminate a server nor answer a LISTREQ, and never supply
an argument.  The invariant adds to the two properties only that `mesg` holds bytes.  The step that
matters: the second buffer of a datagram shorter than a word ends its first word in 0, and no type does,
because all of them are between 1 and 9; it holds whatever uninitialised memory contains.

It then proves that a LISTRESP fits and is what the client should get, for every buffer size that
is not a multiple of the word size, and every list of less than 2^32 servers.  `PackedOnce` ties `mLength`
and `mBuffer` to `mPacked`, whichever getter came first, and `Filling` says that the addresses added so far are the list's,
from a start position on.  It rests on `ImageWord`: the word unpacked behind *j* words is the next one that
was packed (`WordRoundTrip`: `ntohl` undoes `htonl`).  The invariant of the loop, `AnsweringInv`, joins the
receiver's and, while `HandleListRequest` runs, the response's, and says that it runs for the position in the datagram received
last (`AskedFor`), which is what `AnswersItsRequest` needs.  `LoopReceives` carries the receiver's theorems over to the loop.

`StartupProofs` proves the four properties of `Startup` for every command line and every combination of failures, from one invariant, `StartInv`.  `Parsed` ties `mListenPort` to
the options taken so far; `Control` says what each label of `main` has behind it: until the descriptors are closed messages go to the
terminal (`Attached`), from then on a daemon has neither session nor terminal and its descriptors are closed, the log's or the socket's
(`Detached`); `Bound` that the loop is entered with the socket that was bound, to the low 16 bits of `mListenPort`, which are all of it if it is a port; `Reported` that nothing failed yet while options are
parsed.  The argument is one lemma per call.  It uses that a free descriptor is left for `socket` and for the log's connection (`LowestFreeProperties`).

Proved: every invariant that a passing run checks, and all the other safety properties: `HookOnListChange` (in a DEBUG build), `RegistrationOrder`,
`StaysListed`, `ServersImplemented` and `ClientsImplemented`.  Further, that every step of the metaserver is a step of the loop (`ImplementsLoop`) and every
step of the system one of the metaserver (`ImplementsMetaserver`), so that what is proved of the one holds of the other.
`StaysListed` is proved for a network that delivers every datagram once, `UnlistedUnlessDisturbed` for game servers with a host each, as said above.
The proofs rest on the assumptions `LoopAssumption`, `MetaserverAssumption`, `NotListedAssumption`, `SystemAssumption`, `ListRequestAssumption`,
`PagingAssumption`, `WireAssumption`, `ReceiverAssumption`, `ListResponseAssumption` and `StartupAssumption`, which type the constants, keep the constants that stand
for "nothing" apart from values, and
ask for a positive interval, block and receive buffer, a message buffer of at least four words whose size is
not a multiple of the word size, and room for five addresses in a DEBUG build.

Only model-checked: the liveness properties `AlarmSwept`, `AlarmWakesSleeper`, `InterruptHonoured`, `OnlyLostWakeupStopsSweeps`, `ScriptsEnd` and
`ClientEnds`.  They need fairness and ENABLED, which the prover does not do.  The assumptions of the proofs are those above and the hypotheses that a theorem
states; what a violated run shows is, of course, not proved of every instance.

## Plan

What is left is to model more: the bytes of a handshake, out in a HANDSHAKE and back in a SHAKE, as `Answering` has those of a list.

## Not modelled

* *`recvfrom` failing with anything but EINTR*: `Process` goes on as after EINTR; `Startup` has the report of the failure.
* *The list client's exit when `Sendto` or `Recvfrom` fails*: `Paging` has losses, after which the client waits for ever, but no failing calls.  Identical datagrams
  that are under way in `Paging` at the same time are one: its network is two sets.

* *The list client's HTML page* and its command line, and the printing of addresses (`sock_ntop`): output only.  One hazard of the page is listed, without
  a property.
* *Wrappers that nothing calls*, and the formatting and wording of messages; `err_doit`, `fork`, `socket`, `Signal` and the choice of
  the channel are in `Startup`.
* *The image of a HANDSHAKE*: `Metaserver` passes the value as it is.
* *Functions of `NetMsg` that no message uses* (characters, shorts, strings, floating point, 64 bits), and the packing side of
  the classes that the metaserver only receives.
* *`SignalManager::RemoveHandler`*, which nothing calls, and signals without a handler.
* *The length of the command* given with `-x`, what it does, and what it finds on its stdin.
* *Build scripts and the init script*; what they decide, `-DDEBUG` and `--daemon`, is a constant or an option.
