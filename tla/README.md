# Verification of tst: the thread pool and amiproc

This directory holds TLA+ models of the programs of this repository, the
configurations TLC checks them with, and proofs for TLAPS. Line numbers below
are those of the files in `src/`.

    tlc -workers 2 -config pool_core.cfg MCTstPool     # a run: <name>.cfg, module in PROJECT.json
    tlapm TstPoolOwnership.tla                         # proofs: any module that EXTENDS TLAPS

## 1. The system

`tst` is a pool of threads that serves TCP connections with epoll; `amiproc` is
a server built on it that speaks HTTP and websocket to its clients and the
manager protocol (AMI) to an Asterisk; `echoserver` is a demonstration.

| component | state | operations | behaviour that is hard |
|---|---|---|---|
| `tstpool` main thread (`tst.cpp` 189-486) | the batch of events from `epoll_wait`, the local `socket` and `i`, `m_main_run` | wait, accept, look up the record, find a worker at rest, assign, stop the workers | reads `thread_stat` and `m_connect` without their locks; one event stays in hand while all workers are busy |
| worker (`tst.cpp` 488-720) | `thread_stat`, `tst_socket`, locals `socket`, `next` | timed wait, job (automatic transfer, user function), close or re-arm, idle function, exit | signal before wait, the order of re-arm and of reporting itself idle, the shutdown |
| connection table (`tst.h` 229-239, `tst.cpp` 896-947) | `m_connect`, the `TST_SOCKET` records, `m_mutexConnect` | `addsocket`, `closesocket` | erase, `close` and `delete` are three steps; descriptors are reused |
| application interface | - | `need_send`, `closesocket`, `destroy` | called from threads outside the pool |
| automatic transfer (`tst.cpp` 551-611) | `TST_DATA`: `req_pos`, `req_len`, `com_len`, `checked_len` | receive or send `req_len` bytes over several events | shares the counters with the user function |
| HTTP (`http.cpp` 252-539) | receive buffer, `user_data` | collect header, then body; refuse; route; upgrade | bytes of the next message, limits of the buffer |
| websocket (`websocket.cpp` 71-317) | `WS_INFO`, receive buffer | read a frame's header, grow the buffer, read data, call the user function | segments end anywhere |
| AMI actions (`amiproc.cpp` 98-305, `amiproc.h` 42-95) | `AMI_MANAGE`: `pResp`, `actionid`, `resp_waitcount`, two mutexes, a condition | `ami_sync`, `ami_async`, the replies in `ami_event` | late replies, timeouts, tests before the lock |
| AMI login (`amiaction.cpp`, `amiproc.cpp` 361-485) | `ami_socket`, the requests for a login | connect, log in, register, reconnect | check and set without a lock; loss during a call; nine ways out of a login |
| AMI messages (`amiaction.cpp` 60-136, `amiproc.cpp` 201-409) | receive buffer of `ami_socket`, queue of the AsyncThreadPool | read banner and answer, separate messages, call handlers | TCP cuts anywhere; login and `ami_event` share a buffer and read differently |
| echo server (`echoserver.cpp`) | send buffer | greet, echo, leave messages with `need_send` | two writers of one send buffer |
| keep-alive of the process monitor (`ws_routes.cpp`) | `g_processmon_sd` | register | a stale descriptor |
| text algorithms (`http.cpp` 31-179, `http.h` 114-236, `amiproc.cpp` 67-96) | none | base64, URL decoding, query string, AMI message | |
| `AsyncThreadPool` | - | header only, the library is a binary | |

The parts meet as follows. The main thread hands a record to a worker by
`thread_stat` and `tst_socket`; the worker gives the connection back by
`epoll_ctl(MOD)` on a descriptor that `EPOLLONESHOT` has disabled, or closes it.
The worker calls `http()`, which passes on to `ami_event()` or `websocket()` by
`TST_SOCKET::func`. Between two events a connection lives in its record only:
the counters of its `TST_DATA` say where its handler goes on.

What makes each correct:

* pool: one owner per connection at any time; a record in use stays registered
  and allocated; table and kernel agree; a close hits the connection it means; a
  job that is assigned runs and ends; shutdown ends.
* connection: the handlers get every message whole and in order, and nothing but
  a message closes the connection.
* automatic transfer: a message left to a worker goes out once, in order, as a whole
  unless another one is composed over it, and the user function is called when it has.
* AMI: a caller gets the reply to its action or none, never another one, and comes back; there
  is one connection, again and again; its events reach their handlers one by one.
* text: a message that is well-formed is read as the fields it consists of.

The hazards, each at its line with the properties that are about it, are in
`PROJECT.json`.

## 2. Modules

| module | what it is |
|---|---|
| `TstPool` | the thread pool in server mode: kernel, main thread, workers, `closesocket`, `need_send`, `destroy` |
| `TstPoolProps` | its type invariant, its properties, and claims of comments and of the repository's README |
| `Connections` | abstract: who has a connection |
| `TstPoolInv` | the inductive invariant `IInv`; the refinement of `Connections` |
| `TstPoolProofs`, `TstPoolOwnership` | theorems: types, and records under any use of the interface; `IInv`, what follows from it, and the refinement |
| `AmiSync` | actions and replies on the AMI connection, with its properties |
| `Messages` | requests and frames, and their places in the stream of bytes |
| `MsgServer` | abstract: what a connection promises |
| `HttpConn`, `HttpConnProps` | one connection: worker, `http()`, `websocket()`; its properties and the refinement of `MsgServer` |
| `TstSend` | the automatic sending, on a connection of the echo server, with its properties |
| `AmiLogin` | the life of `ami_socket`: requests, login, loss, reconnection, with its properties |
| `AmiMessages` | the messages of Asterisk and their places in the stream of bytes |
| `AmiFeed` | abstract: what the AMI connection makes of the stream |
| `AmiStream` | login and `ami_event` byte by byte, the AsyncThreadPool; its properties and the refinement of `AmiFeed` |
| `TextAlgorithms` | parsers and codecs as operators, and the definitions they are checked against |
| `AmiSyncProofs`, `AmiLoginProofs`, `AmiStreamProofs`, `TstSendProofs`, `HttpConnProofs` | theorems about the module they are named for, each with its inductive invariant `Inv` |
| `TextProofs` | theorems about `TextAlgorithms` |
| `MC...` | instances for TLC (symmetry, streams, texts) |

Operators whose comment begins with "Variation" are wrong forms of the operator
that follows; the specifications do not use them. Each shows that some property
notices that mistake (`mutants` in `PROJECT.json`).

### TstPool

A step is the code between two accesses to state that another thread can change.
`mpc` and `wpc` name the places in `tst_main` and `tst_work`, `cpc` the place
inside `closesocket`, which any thread may be in. The kernel is three functions:
the connection behind a descriptor (`conn`), the epoll interest (`ep`: absent,
disabled by `EPOLLONESHOT`, armed, armed with `EPOLLOUT`), and what can be read
(`rx`). A connection and its record have one name and are never reused;
descriptors are. `crash` is the undefined behaviour the process has run into: the
use of a null or deleted record, a double delete, a search in `m_connect` that
finds nothing or overlaps an erase. The behaviour ends there.

At its end the main thread cancels the workers that have not exited (`MCancel`) and frees
`m_workers` (`MExit`) without waiting for them. A worker can be cancelled where it makes a
system call or waits (`WCancelled`); one that is still there after that has its next access
to its entry of `m_workers` in freed memory (`WFreed`, a crash). Inside `closesocket` it
uses none and goes on.

Accesses without a lock are steps of their own: the scan of `thread_stat`
(`MScan`) before its mutex is taken (`MLock`), the store of `tst_run` (`MLock`)
before that of `tst_socket` (`MAssign`), the worker's comparisons of
`thread_stat` (`WTake`, `WNotRun`, `WBranch`), the search of `m_connect`
(`MFind`, with `Torn`). User functions return any of `Returns`, the
idle function any of `IdleReturns`, the callback for new connections any of
`Admits`. What the kernel may report is any selection of armed and ready
descriptors, at most `ThreadCount` of them.

`Connections` is what the threads promise one another: the main thread makes a record,
a record has at most one owner at a time and is handed from owner to owner, and only
its owner deletes it; an owner may also lose it, a worker that is cancelled with it or that never
takes the job. `ConnectionsLive` in `TstPoolInv` says that the pool implements
it, with the records on the heap for `record` and `OwnersOf`, which reads the owners off
the program counters, for `owners`.

Left out: the main socket as a client (`m_fmain`), statistics, failures of
`epoll_ctl` on open descriptors, and the bytes themselves, which are in `HttpConn`.

### HttpConn

One connection, from the bytes TCP delivers to what the handlers are given. The
stream is a sequence of messages (`Messages`); a byte is its place in the
stream, and the receive buffer `s` holds places, so that the wrong byte in the
right position is noticed. `Arrive` lets the kernel have more of the stream at any
moment; each of the other actions is the code up to the next look at the socket.
`pc` names the place: `epoll` (armed, or waiting for the main thread), `job` (a
worker has it), then the functions. That only one worker has the connection is what
`TstPool` shows (`SoleOwner`).

Requests are known by how they end: `keep` (the route returns `tst_suspend`),
`done` (`tst_disconnect`, as for every unknown address or method), `version`
(505), `upgrade` and `nows` (a websocket at a known or unknown address). Frames are
known by the size of their length, their mask, their data, and by whether they
close. Sockets that `accept()` returns block on Linux (only the listening one
is made non-blocking), so a `read` without data waits.

`MsgServer` promises that messages are handed over whole, singly and in
order once they are complete, and that the connection closes with a message that
calls for it and not otherwise. `ServesTheStream` is that specification, fairness
included, under the refinement mapping `open <- (pc # "closed")`.

`http()` puts a `'\0'` behind each header and body (328). Where that is within the buffer it
clears a place of `s` (`Terminate`); a body that just fits has it one byte behind, at
`s[s_len]`. `WithinBuffer` says that it is never further. That byte belongs to the
allocation where `TST_DATA` ends in padding, as it does on a 64-bit machine (`s` is at 36 of 40
bytes); the code does not reserve it.

Left out: the text inside a header, `realloc` failing, errors of `read`, the peer
closing (in `TstPool`), the responses, the `EPOLLOUT` branch of `http()`, which
nothing in amiproc arms.

### AmiSync

Threads call `ami_sync` and `ami_async`; the reader is the one worker that has
the AMI connection and runs `ami_event` on a reply; Asterisk answers any action
it has received, in any order, at any time. `resp_waitcount++` is a load and a store.
A response record is named by its action id and is `deleted` when its caller, who
owns it after the return, may have deleted it. `early` and `stale` only record what has
happened: a wait that ended without the signal, an access to a deleted record. The counter `ami_waitcount`, which
nothing reads, and messages other than replies are left out. `ami_sync` and
`ami_async` have no caller in this repository: they are an interface.

The socket does not block (`tst.cpp` 165-167) and nobody looks at what `write()` returns
(`amiproc.cpp` 142, 196): `Write` takes the action, its beginning, or nothing, and `short`
records that it was not all. Asterisk reads up to an empty line, so what it takes for one
request may be the beginning of one action and another behind it (`tail`), and the ActionID it
answers with may be that of any of these, cut short, or missing (`ReplyIds`). A timeout returns
an error; a spurious wake-up returns 0, as if there were a reply. `OwnReply` says what a call
can rely on in each case, `WireOrder` what is left of the order on the wire, and `NoReplyLost` is
conditional on whole writes too.

### TstSend

One connection over its life: the peer, which sends lines, acknowledges bytes and may
reset; the kernel's send queue; the main thread, in one step that disarms, stores the
events and wakes a worker; the worker in `tst_work` (lines 551-664); `echo()` and
`first()`; and the application's main thread, which composes a message in `send->s`, sets
`com_len` to 0 and calls `need_send()`, in three steps, since the lock it holds is one no
worker takes. A byte on the wire is a message and a place in it. What `write()` returns
depends on the socket: those of `accept()` block until the queue takes all of it, those of
`tcp_connect()` take what there is room for or return -1.
`com_len` is added to modulo `CountMod`, which stands for 2^32: after a failed write it is
`CountMod - 1`, and the message counts as sent.

`failed` and `overlap` record a write that has returned -1 and the application and a worker
having the connection at the same time. `InOrder` and `ToldWhenSent` are
conditional on neither having happened: the code loses or mixes messages then. `InOrder` does
not say that a message goes out to its end: a newer one may be composed over it, and a partial
write of `echo()` (52), which looks no further, leaves it cut short. `LeftMessageIsSent`
names the other way a message stays behind: the peer speaks first. The event then has
EPOLLIN and EPOLLOUT, the worker looks at EPOLLIN only (551, 589), `echo()` composes its
answer over the message and returns `tst_suspend`, and the socket is armed for input.

Left out: a line longer than the receive buffer, several lines read at a time, a failing
`ioctl`, connections other than the one.

### AmiLogin

`main` (a request whenever `ami_socket` is NULL), any number of threads of the AsyncThreadPool
in `amiLogin`, the pool's `closesocket` with `my_disconnected`, and a caller of `ami_async`. A step is the
code between two accesses to `ami_socket` or its record. A record is allocated,
then deleted, and never the same again; so a pointer that has become stale is seen.
`crash` names the thread that has used a null or deleted record; behaviours end there. They
also end to be followed once two logins have passed the test of `ami_socket` (`twice`):
both then write into one record, and the first to fail deletes it under the other. This can
happen because `main` asks again every three seconds until a login has set
`ami_socket`, and the requests wait in a queue for three threads.

The properties are what is left: with one login at a time there is one connection, every way out of
`amiLogin` leaves `ami_socket` NULL or in use, and nobody touches a deleted
record, unless the connection is lost before the login has returned (`early`: line
148 reads `ami_socket` after the socket has been armed), or a close or a login overlaps a call
of `ami_async` (`crossed`: it tests `ami_socket` and uses it several times, without a lock the
pool takes). `Reconnects` lists what can keep the program from
connecting again: a login that spins, and the descriptors of failed logins, none of which is
closed, when the limit is reached.

`ami_async` stands for both calls: the accesses of `ami_sync` before it waits are the same. A
loss while it waits for the condition, which frees the mutex it waits with, is not followed.

### AmiStream, AmiFeed

The stream of Asterisk is a banner of one line, the answer to the login, replies and events;
a message is known by the places where its lines end. `rdata.s` is the bytes from `base + 1` to
`rpos`. One round of `amiLogin`'s loop is one action, which reads all that has arrived;
one call of `ami_event` is one action, which reads byte by byte up to the first
blank line, to the end of its buffer, or to what the main thread has counted.

`AmiFeed` promises that from the end of the login on the texts handed over follow one
another without a gap, each up to the first end of a message, and that a message that has
arrived and fits is handed over. `FeedsTheEvents` is that specification, with its fairness,
under the mapping `from <- base` (0 until the login is complete). It leaves the
login one choice that a reader might not expect: where it ends. The answer is taken as complete at
any line end, so its rest may come with the first event; and whatever came with the answer
is dropped with it. The next text therefore begins with a line, but perhaps in the middle of a
message. The answer is copied onto the stack without a `\0` behind it (110-111), and
`parse_amievent` runs on into what is left there; the fields of the answer come first all the same, and
only a text without any field is in doubt (`Outcomes`). `EventsReachHandlers` says that an event is handled even if the text begins with the blank line of
the answer. `LoginIsNoticed` is conditional on the banner having been read as a whole: the bytes
of a banner that come later hide the answer, which begins with them.

### TextAlgorithms

State is only a device to enumerate: a text grows piece by piece, and the invariants compare
operators on it. A loop is a recursive function of the place reached: of its
variables (`AmiState`, `UrlState`) or of the items it has collected so far (`Collect`);
`base64_encode` is in closed form, a character of each place. Each is checked against a definition that
says what the text means, for texts that are well-formed:

* the fields of an AMI message, with or without a space behind the colon, and of an
  HTTP header, with a space: `http()` steps over two characters behind the name,
  whatever they are, so that without the space a character of the value is lost; in both
  cases no more than there are places for (`MAX_EVENTS`, 100, and `HTTP_MAX_HEADERS`, 30):
  neither loop looks at the length of its array, and `parse_amievent` writes behind its own exactly
  if there are more fields (`overrun`);
* the pairs of a query string, decoded as a whole before it is taken apart: the escapes
  of `=` and `&` are excluded because they become separators;
* base64 there and back; the length of a frame, which is read back as sent up to 126 bytes and
  wrong from 127 on, for every length tried (the invariant says both).

Not here: `strrtrim` (`http.cpp` 156-179), which nothing calls and which trims nothing
(`p = '\0'` sets the pointer), and SHA-1, which is third-party.

## 3. Runs

Pool. Bounds: 1 or 2 workers, 1 or 2 descriptors, 1 to 3 connections in a
behaviour. Two workers are what a connection can be given to twice; two descriptors
let a batch hold two events while one worker closes; three connections on one
descriptor let it be reused twice, so that a stale event or a late close can
meet a successor. `FairSpec` makes the main thread, each worker, the waits that
expire and the user functions (that return) weakly fair; it asks nothing of peers.

| run | shows |
|---|---|
| `pool_core` | the invariants, the inductive invariant `IInv`, and that the pool implements `Connections`, 2 workers, 2 connections, 2 descriptors |
| `pool_api` | no double delete and no deleted record in the table, with `need_send` and `closesocket` from outside, a descriptor reused twice, refused connections, unusual results of callbacks, failing waits, a broken listening socket |
| `pool_stop` | a job whose signal was lost starts; every job ends, with both threads closing and registering connections; `destroy` returns, even if jobs outlast the waiting time; the hand-over stays correct until it deletes the records. 1 worker, 2 connections, 2 descriptors: both threads can wait for `m_mutexConnect` at the same time |
| `pool_lost_job` | counterexample to what a comment and the repository's README say |

`pool_stop` checks no deadlock because `destroy` ends the process.

AMI. Two callers, up to three actions: one call that times out, one that its late
reply meets, and one action of `ami_async` between them. `CountMod` stands for 2^32 and
is larger than any count a behaviour reaches. The threads are weakly fair, Asterisk is
not. The behaviours end when the actions are used up, so deadlock is not checked.

| run | shows |
|---|---|
| `ami_sync` | a caller never takes another action's reply for its own; actions are written once and in order, each as much as `write()` takes; and until a wait first ends without the signal: no access to a deleted record, the counter balanced, and, if the writes are whole, no lost reply |
| `ami_return` | every call returns, even if Asterisk never answers (two actions) |
| `ami_login` | one connection; `ami_socket` NULL or in use between logins; no deleted record touched, but for the races named; connected again |
| `ami_stream` | `AmiFeed` is implemented; the \0 has its place; the login is noticed; handlers are called |

`ami_login`: two threads of the AsyncThreadPool and two requests are what two logins at a time
take; two failing logins use up the two descriptors; four records allow a login after two
failures and a loss. The threads and the pool are weakly fair; Asterisk lets at most
`MaxFails` logins fail, so a program that fails for ever is not what `Reconnects` rules out. `ami_stream`: a
buffer of 12 bytes, with messages that need 5 to 12 of them, so that one just fits and one
never does, and a login that waits for 4 bytes where the code waits for 22 (a constant). The
threads are weakly fair, Asterisk is not. Both end when the stream or the bounds do, so deadlock is not checked.

Connection. A buffer of 14 bytes, the least that holds a frame's longest header,
and frames of up to 18. The streams of `MCHttpConn` have headers and bodies that
just fit and just do not, frames of the three forms, longer than the buffer, too
long, and empty, an upgrade with a body, and messages close behind one another; segments end anywhere.
The peer keeps to the protocol (`KeepsProtocol`): requests up to the one for a websocket, frames from then on.
A stream ends, so deadlock is not checked. Fairness: the kernel reports an armed
readable socket, and a woken worker runs.

| run | shows |
|---|---|
| `http_stream` | `MsgServer` is implemented, if no segment ends inside a frame's header; no read beyond the message at hand; nothing received beyond the buffer, and the `'\0'` at most one byte behind it |
| `http_header` | counterexample: a segment that ends inside a frame's header |

Sending. A message of 3 bytes, a queue of 4, one line, one message of `need_send`: writes of 1
to 3 bytes, a full queue, and messages behind one another all occur. One worker is
enough as long as nothing arms a connection in use (that is `overlap`, after which nothing is
promised). The threads and the peer's acknowledgements are weakly fair, since a peer that stops reading
stops everything. The connection may be closed, so deadlock is not checked.

| run | shows |
|---|---|
| `send_auto` | no byte goes out twice or out of order; the user function is told when they are out; a message left to the worker is sent, unless the peer speaks first; EPOLLOUT is withdrawn; `com_len` keeps its width |

Text. All texts of up to 13 characters of `k`, `:`, `: ` and `\r\n`; of up to three whole fields, for
which there are two places; query strings of up to 9
characters with separators, a lone `%` and three escapes, names and values cut at 2; up to 6
bytes at the limits of the groups of 6 bits; ten lengths at the limits of the three forms. That has
two fields, two pairs, all lengths of a last group of base64.

| run | shows |
|---|---|
| `text` | what is well-formed is read as what it means; what is encoded is read back |

### What the counterexamples say

* `pool_lost_job`: a worker that wakes up by itself can miss the job it is given, which leaves
  the connection disabled for good.
* `http_header`: a frame whose header arrives in two segments is misread.

`PROJECT.json` quotes the lines that say otherwise. The models contain more behaviour of
this kind that no run is about:

* `m_connect` is searched by the main thread while a worker erases from it (`MFind`, `Torn`);
* a worker that wakes up by itself can see `tst_run` before the record is stored, and work on a
  null pointer (`MLock`, `MAssign`, `WTake`);
* a listening socket that a failed `accept` leaves disabled (`MAcceptFail`);
* `need_send` and `closesocket` on a connection in use (`NeedSend`, `UserClose`: the four
  properties of the pool left to itself do not survive them, which is why `pool_api` checks
  others; `overlap` in `TstSend`);
* jobs dropped, or left with deleted records, at shutdown, and workers that go on when
  `m_workers` has been freed (`WBranch`, `DClean`, `WFreed`);
* an action that `write()` takes a part of (`Write` in `AmiSync`);
* after a timeout `pResp` keeps naming the record of that call, and the reader, resetting it
  at `amiproc.cpp` 302, may hit the next call, which is then not woken by its reply (`EventClear`);
  a spurious wake-up counts as the response (`SyncWake`);
* two logins at a time, and a loss at the end of a login (`twice`, `early` in `AmiLogin`);
* a login that reads beyond its buffer (`LoginOverflow` in `AmiStream`);
* a message left to a worker and forgotten because the peer speaks first (`TstSend`).

## 4. Proofs

`TstPoolProofs` proves, for any number of workers, connections and descriptors
and any behaviour of the callbacks,

    THEOREM TypeCorrect == CoreSpec => []TypeOK

from the assumption `PoolConstants`. `TypeOK` is inductive as it stands because it
says, beside the types, what the program counters imply: a thread inside `closesocket`
has a descriptor, the main thread has a record and a worker's number while it hands
over, a worker in a job has a record unless the process has crashed, and whatever a
pointer names has been allocated. The proof goes by action, and shows of each the groups
of variables it changes.

`TstPoolOwnership` proves, under the same assumption,

    THEOREM Inductive           == CoreSpec => []IInv
    THEOREM OneOwner            == CoreSpec => []SoleOwner
    THEOREM UsedStaysRegistered == CoreSpec => []InUseIsRegistered
    THEOREM TableAgrees         == CoreSpec => []TableMatchesKernel
    THEOREM CloseIsOwn          == CoreSpec => []ClosesItsOwn

None of the four properties is inductive. That a descriptor with epoll has no worker
(`SoleOwner`) says nothing of where its next worker comes from: the main thread takes the
record from `m_connect`, so the table must lead to the live record of that very
connection; that depends on `closesocket`, which erases the entry, closes and deletes in
three steps, the lock held during the first only, while `accept` may already have the
descriptor again; and that is harmless only because nobody else has the record then.
`IInv` ties these together:

* `ConnIsLive`, `TableIsOpen`, `OpenIsKnown`: descriptor, table and record agree but for
  the windows in `addsocket` and `closesocket`;
* `EventIsRegistered`, `ArmedNotBatched`, `HeldIsSilent`, `OneWorker`: a descriptor that
  can still raise an event, or whose event is in the batch, is registered and nobody
  closes it; what a worker holds raises none;
* `WorkerCloses`, `CloseStages`, `ClosersDiffer`, `MainCloses`: who is inside
  `closesocket`, with which descriptor and record, at which of its stages;
* `MainOpens`, `MainDispatches`: the record the main thread accepts is with nobody else,
  the one it hands over is that of an event in its batch;
* `NoUserClose`: the application does not call `closesocket` (the specification is
  `CoreSpec`).

There is one lemma per action, one step per conjunct in it. `StepAside` covers every
action that moves no connection towards a worker; `BatchedIsFree` says that nobody holds
a connection whose event is in the batch, which is what makes the assignment sound;
`HeldIsOwn` that a worker in its job is alone with the connection, which the re-arm and
the disconnection need; `CloserHolds` that a worker inside `closesocket` still holds the
record of its job. `MainCloses` stays true because the main thread closes only a
connection whose event it has in hand.

Two more theorems of `TstPoolOwnership` rest on `IInv`:

    THEOREM Implements          == CoreSpec => ConnectionsLive
    THEOREM OwnedUntilDestroyed == PoolSpec => []HandoverLasts

`Implements` takes the actions one by one: each leaves heap and owners as they are, or is
one step of `Connections`. `Connections` states no fairness, so that this is the whole
refinement. `OwnedUntilDestroyed` adds the end of the pool: shutdown, with its timeouts
and cancellations, keeps `IInv` up to the last walk of `destroy` over `m_connect`, and up to
there no record is deleted twice or used after it was deleted. What is used after its
release is `m_workers`, by a worker that has outlasted the main thread (`WFreed`); the
theorem is about what the other workers and the records are like when that happens. The walk
(`DClean`) may delete a record that a late worker still has, and nothing is
claimed after it.

These theorems are about the pool left to itself. With an application that calls
`closesocket` or `need_send` on a connection in use (`ApiSpec`), neither `IInv` nor any
of the four properties holds. `TstPoolProofs` proves what is left:

    THEOREM FreedOnce      == ApiSpec => []NoDoubleFree
    THEOREM TableStaysLive == ApiSpec => []TableIsLive

`RecInv` is weaker than `IInv` and holds in both: an entry of the table is a live record under
its own descriptor; between the search and the erasure, both under the lock, it stays what was
found; what has been erased is live, in nobody's table and the erasing thread's alone; and
the record that the main thread has created and not yet entered is the main thread's.

### Actions on the AMI connection (`AmiSyncProofs`)

    TypeCorrect, RepliesAreOwn (OwnReply), RepliesArrive (NoReplyLost),
    RecordsAreLive (NoStaleAccess), CounterIsExact (CountBalanced), WrittenInOrder (WireOrder)

for any finite number of callers and actions and any `CountMod` above 2 (2^32 in the code; the counter is
at most 2: one caller, for they hold `mutexAMI`, and the reader). `Inv` has the locks (the holder is who is at
a place between lock and unlock), the budget of action numbers, the order of numbers, wire and
`actionid`, and what a caller's place says of its record. `NoReplyLost`, `NoStaleAccess` and
`CountBalanced` need more, which holds only until a wait has ended without the signal
(`Prompt`): the record that `pResp` names belongs to a caller that still waits; the counter is
the number of those between its changes; and, while writes are whole, the reply to an open call
is at Asterisk, with `ami_event` or in the record. Short writes leave `RecordsAreLive`
and `CounterIsExact` as they are; replies stay with their own calls because none bears a
greater number than the last action that was written (`Order`, `ReadId`). `ami_event` tests `pResp` before it locks, and that is safe
because of the first of these; the timeout breaks it.

### Login (`AmiLoginProofs`)

    TypeCorrect, AtMostOne (OneConnection), RestsSettled (Settled), LoginSafe, CallSafe

for any finite set of threads and any bounds. None of the properties is inductive. `Alone`, which
holds until two logins have passed the test, says for each place of `amiLogin` what it has
done to the record, the descriptor and `m_connect` so far, that `m_connect` and epoll know of no
record but `ami_socket`, that what `closesocket` holds is unregistered, and that between logins `ami_socket` is NULL,
in use, or about to be reset by `my_disconnected`.

### Sending (`TstSendProofs`)

    TypeCorrect, WireInOrder (InOrder), ToldWhenAllSent (ToldWhenSent)

for any length of a message, any queue at least as long, and any set of workers. `Counts` says
what `com_len` says of the wire: at rest the last byte on it is byte `com_len` of the
message in `send->s`, or, if `com_len` is 0, a message before; between `write` and the
addition the bytes written are those just behind. It needs `Owned`: one thread has the
connection. That fails once a write has failed or the application has interfered, the
two conditions of the properties.

### Stream of Asterisk (`AmiStreamProofs`)

    TextsFit (TextFits), OneMessageEach,
    FeedsSafely == FairSpec => Feed!Init /\ [][Feed!Next]_(Feed!fvars)

for any buffer and any stream. `FeedsSafely` is the refinement of `AmiFeed` but for its
fairness. Its invariant says that the bytes read since the last text contain no end of a message (`NoneYet`), so
that the first end the byte-wise reader comes to is the end of the next text. This also gives
`OneMessageEach`: without a gap, and one whole message in each but the first.

### Connection (`HttpConnProofs`)

    TypeCorrect, BufferHolds (WithinBuffer), NothingStolen (NoSteal), WholeMessages,
    ServesSafely == Spec => Server!Init /\ [][Server!Next]_(Server!avars)

each under `~SplitHeaders`, which is what the code relies on and `http_header` refutes: no
segment ends inside a frame's header. Otherwise for any stream, any buffer of at least 14 bytes and any
`MaxFrame`. `ServesSafely` is the refinement of `MsgServer` but for its
fairness. `Inv` is a table of the nine phases of a connection (`Phase`: reading a request's header,
header complete, body, request complete, no frame begun, frame's header, buffer ready, data, frame complete). Each says
where the worker may be, how `req_pos`, `req_len` and `com_len` relate, how far the stream has been
read relative to the message at hand, and that the buffer holds the bytes from its beginning in
order. One lemma per action takes a phase to the next.

### Text algorithms (`TextProofs`)

    THEOREM FieldsRead == Spec => []FieldsAreRead
    THEOREM QueryRead  == Spec => []QueryIsRead
    THEOREM ReadBack   == Spec => []EncodedIsReadBack

for texts of any length, of any characters but \0 (base64: of any bytes), under `TextConstants`. The run `text` tries
all short texts; here is the argument for the rest.

* A loop in the model is a recursive function. The proof shows first that the function exists,
  hence satisfies its equation (`CollectStep`, `AmiSteps`, `UrlSteps`).
* `parse_amievent`: what its variables hold after each character, by where in its line the
  character is (`AtName`, `AtValue`). At a line end the field of that line has been entered.
* The loop of `http()` over a header, and that of `CQueryString`, go from the beginning of an
  item to the beginning of the next; `CollectAlong` says that a loop that does so along a list of
  places collects the items at those places, in order.
* `urlDecodeRewite` overwrites the text it reads. `UrlInv`: every character or escape that has begun
  has been written at its place (`Begins`, `Written` relate a place in the text and in the decoded
  text), and what is still to be read has not been touched. As no escape stands for a separator, the
  separators of the decoded text are those of the text (`SeparatorDecoded`), and what is
  between them is decoded alone as it is within the whole (`StretchDecoded`).
* How many places of its arrays `parse_amievent` has used is known behind each character
  (`PlacesUsed`), and at the end it is the number of fields.
* base64 by groups of three bytes and four characters, the last of which may be short; and a length is read
  back as sent exactly if it is at most 126.

### How recursion over a stream is avoided

The theorems of the library on induction take an operator as a parameter, and the provers
cannot instantiate it. `TextProofs` replaces an induction by its least counterexample (`LeastOf`, and
`Upwards`, `Downwards` for a set of places). Where a loop of `AmiStream` reads up to the first of something (the end of a line, of a
message), the proof takes a least element too: a set of natural numbers that is not empty
has one (`LeastOf` in `AmiStreamProofs`, from the well-foundedness of the order).

### What the proofs have changed

* `TypeOK` of `HttpConnProps` had the messages handed over as sequences of unbounded numbers; they
  are places in the stream. `WithinBuffer` counted `req_pos` at all times. An upgrade
  with a body leaves `req_pos` at the length of its header, `websocket()` does not look at it while
  it reads a header, and for a request that fills the buffer the sum is larger than the buffer,
  although nothing is written there. The property now says how far the buffer is
  filled (`Filled`), and a stream of `http_stream` has the case.
* Streams in which a request follows an upgrade, or a frame is the first message, were
  admitted by `HttpConstants`, though not sent in any run. `KeepsProtocol` excludes them.
* `TextAlgorithms` had folds and recursive operators for the loops, of which nothing can be
  proved; they are recursive functions now. Its `Digits` was put together with `@@` and is one function.
* Two CASEs, in the login of `AmiStream` and in base64 of `TextAlgorithms`, had guards that overlap; TLC took the
  first, the meaning leaves it open.

### Only model-checked

* Liveness and what needs `ENABLED`: `pool_stop`, `ami_return`, `Reconnects`, `LoginIsNoticed`,
  `EventsReachHandlers`, `LeftMessageIsSent`,
  `OutputIsWithdrawn`, and the fairness in the refinements `FeedsTheEvents` and
  `ServesTheStream`. The prover does not support them.
* The violations, by nature.

## 5. Plan

Done: all modules of section 2; the invariants of all passing runs proved, and the steps of all
three refinements. Left:

1. Facts behind the liveness properties that are invariants: whoever waits has somebody to wait for
   (a worker with a job has a signal or is on its way; a caller in the wait of `ami_sync` is counted).
2. The hazards of `PROJECT.json` without a property. All but one (`g_processmon_sd`, in the routes) are
   in the models, as undefined behaviour or as the case that the properties exclude; a property that
   denies them would not hold of this code.

## 6. Not modelled

* The pool as a client (`m_fmain`, `m_socktype`), `tcp_create`: no program of the repository
  uses the first, the second is a row of system calls before anything runs.
* Event handlers and routes (`processevents.cpp`, `http_routes.cpp`, `ws_routes.cpp`): they read
  fields and write text. `g_processmon_sd`, a descriptor that outlives its connection, is the one
  piece of state among them.
* The first line of a request and the text of responses.
* A loss of the AMI connection while `ami_sync` waits for the condition.
* `sha1.c` (third-party), the AsyncThreadPool (no source; its queue and threads are an
  environment of `AmiLogin` and `AmiStream`).
