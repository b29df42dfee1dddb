# Verification of Collection-of-Mini-Projects-in-CXX

TLA+ models of the programs in this repository, checked with TLC on small
instances, and theorems about them checked with TLAPS for every size.

## 1. The system

The repository holds independent mini-projects. Their own code is about 3500
lines; the rest of the tree is build output.

| Part | State it keeps | Operations | What is hard | What makes it correct |
|---|---|---|---|---|
| `实现Radix Tree` | heap of `RadixTreeNode`s, `m_root`, `m_size`, iterators | `insert`, `operator[]`, `erase`, `clear`, `find`, the three matches, `begin`, `++` | splits and merges rewrite four fields of several nodes; iterators are raw node pointers held across them | an ordered dictionary whose iterators survive the change of other keys |
| `高性能内存池/MemoryPool.hpp` | block list, free list inside the elements' storage, cut position | `allocate`, `construct`, `destroy`, `deallocate`, destructor | pointer arithmetic, a list threaded through client memory | no slot lost, doubled or overlapping; every block given back |
| `高性能内存池/StackAlloc.hpp` | `head_`, its pool | `push`, `pop`, `top`, `clear`, destructor | throws between allocation and use; order of read and release | a stack, and a proper client of the pool |
| `TCPServerDemoMultiProcess` | listening and client sockets, children, pending SIGCHLD | parent loop, child loop, signal handler | fork with shared sockets, merged signals, resets | streams echoed intact, sockets and children released |
| `EPOLL` | epoll set, batch of events, one buffer | one event loop | edge-triggered readiness, numbers reused within a batch, short writes | no edge lost, none stale, streams echoed intact |
| `MultiThreads` | threads, a local variable shared with them | accept loop, `handle_client` | data race on `client_sock`, reuse of closed numbers, a loop without exit | as above |
| `TCPServerDemo` | one client's socket, one message | server loop; client's question and answer | partial reads, both sides waiting, quitting half way | each client echoed and served in turn; no overrun, no mutual wait |
| `socket`, `SELECT`, `UDP` | one socket or two | straight-line programs | nothing kept between calls | |
| `Redis ...` (publisher, subscriber) | hiredis context, event base, semaphore, detached event thread | `init`, `connect`, `publish`/`subscribe`, `disconnect`, callbacks | two threads on one context without a lock; a context freed behind the main thread's back | set-up before events; commands executed, messages told in order; the context used only while it lives |
| `libevent_quickstart` | bufferevents with their buffers, the terminal's event | accept, read and event callbacks of the server; connect, terminal, read and event callbacks of the client | messages cut and joined, buffers that are not emptied, text functions on arrays of bytes, ends that go at any moment | no byte lost but behind a zero, until an array is overrun; what is typed comes back; neither end's memory outlives the connection |

The parts do not call each other, except that `StackAlloc` uses `MemoryPool`
as its allocator, the TCP servers talk to the same clients, and the Redis
publisher reaches the subscriber through a Redis server. The repository
has no tests; what the code claims of itself is in its asserts and comments.

## 2. Modules

| Module | Models | Remarks |
|---|---|---|
| `LexOrder` | what the tree takes from `std::string` and `std::map` | |
| `RadixMap` | abstract: ordered dictionary with a cursor | |
| `RadixTree` | `radix_tree.hpp`, `radix_tree_node.hpp`, `radix_tree_iterator.hpp` | implements `RadixMap` |
| `MCRadixTree` | instances for TLC | |
| `Chains` | singly linked lists | used by the pool |
| `MemoryPool` | `MemoryPool.hpp` with its most general client | |
| `LifoStack` | abstract: stack | |
| `StackAlloc` | `StackAlloc.hpp`, composed with `MemoryPool` by `INSTANCE` | implements `LifoStack` and `MemoryPool!Spec` |
| `EchoService` | abstract: what each client gets back | |
| `Tcp` | external: sockets, network and clients | shared by the servers |
| `ForkServer` | `TCPServerDemoMultiProcess/src/server.cxx` | implements `EchoService` |
| `Descriptors` | external: the table of descriptor numbers | used by `EpollServer`, `ThreadServer` |
| `ThreadServer` | `pthread_workproc`, `handle_client` of `MultiThreads/src/server.cxx` | |
| `IterServer` | `TCPServerDemo/src/server.cxx` | a component without a specification of its own |
| `EchoDialogue` | `TCPServerDemo/src/client.cxx` composed with `IterServer` and clients of other kinds | implements `EchoService` |
| `EpollServer` | `EPOLL/src/server.cxx` | implements `EchoService` if the send buffer suffices |
| `Hiredis` | external: `redisAsyncContext` with its libevent adapter, and a Redis server | used by `RedisPubSub` |
| `RedisPubSub` | `redis_publisher.cxx`, `redis_subscriber.cxx` under `publisher.cxx`, `subscriber.cxx` | any number of each, composed through the server |
| `LibeventServer` | `libevent_server_withbuffer.cxx` | over `Tcp`; a component without a specification of its own |
| `LibeventDialogue` | `libevent_client_withbuffer.cxx` composed with `LibeventServer` | |
| `MCLibevent` | an instance for TLC | |
| `MemoryPoolProofs` | proofs about `MemoryPool`, with the lemmas about `Chains` | |
| `ContainerProofs` | proofs about `StackAlloc` and `RadixTree` | the two containers side by side; takes the pool's invariant from `MemoryPoolProofs` by `INSTANCE` |
| `TcpLemmas` | lemmas about `Tcp`: well-formed connections, conservation of bytes | extended by the four that follow |
| `ForkServerProofs`, `EpollServerProofs`, `ThreadServerProofs` | proofs about the servers | |
| `DialogueProofs` | proofs about `EchoDialogue` and `LibeventDialogue` | the latter by `INSTANCE`: both hold a server and its clients |
| `RedisProofs` | proofs about `RedisPubSub` | |

Definitions marked `\* mutant of X` are wrong versions of the definition X
that follows them. No specification uses them; they document, for each
property, a plausible bug that the property detects.

### RadixTree

The heap is a function from addresses to node records. An address is the
string a node stands for when it is allocated, and a flag for leaves; no
operation reads it, they follow pointers and labels as the code does. That the
fields of a node keep spelling its address is the invariant `PathsAgree`. Each
public operation is one action; `find_node`, `greedy_match`, the destructor and
the climbing and descending of the iterator are recursive functions over the
heap; `append`, `prepend` and the merge at the end of `erase` are edits of it in
the order of the code. The loop of `greedy_match` is a recursion, too: a call is
a node with the labels still ahead. Deleting a node removes everything below it
from the heap, as its destructor does, so that a node deleted too early shows
as a dangling link. One client iterator is part of the state; the client gives
it up when it erases that element, since using it afterwards is undefined. An
`assert` that fails sets `aborted`.

### MemoryPool and StackAlloc

A block is a name, a slot a pair of block and byte offset, so that the
arithmetic of `allocate` is done on numbers. A slot is a union: writing one
member leaves `JUNK` in the other. `carved`, `live` and `alive` record what a
client of the pool may do. The destructor is one step per block. In
`StackAlloc` a `push` is an allocation and a later construction, with a throw
possible between, and `clear` one step per element. The pool's nodes are the
`Element`s of the instance, so that the stack's `prev` pointers and the pool's
links are two readings of the same memory. `Nodes`, the list the stack stands
for, is chosen as a sequence of slots that descends from `head_` to the end;
that there is exactly one is part of what is proved.

### Tcp and the servers

`Tcp` gives a connection the bytes the server has not read, the bytes it has
written, how many of them the client has not read and the marks of its end:
closed, end of stream arrived, reset on the way, reset arrived, error not yet
reported. A client sends, reads or closes at any moment; closing with unread
data, or data that meets a closed client, produces a reset. Reading answers
data first, then `ECONNRESET` once, then 0. Writing after a reset raises
`SIGPIPE`. `RefinesEcho` is the mapping of a connection to `EchoService`; it is
the same for every server.

`ForkServer` has a parent with a program counter, a child for each connection
(named by it), each process's set of open sockets, and SIGCHLD as one pending
bit with a handler that can run between any two steps of the parent. `fork`
may fail. The variable `coalesced` counts the signals that were merged.

`EpollServer` has the descriptor table with the lowest free number given out
first, the ready list, the batch answered by the last `epoll_wait()` in any
order, and the thread's place in the loop. `accept4()` may fail at any time, for
want of descriptors or otherwise. `epoll_wait()` may fail, too (`WaitFails`):
`EPOLL/src/server.cxx:70-73` leaves the loop then, and the service is over
(`"ended"`), as it is after `SIGPIPE` (`"killed"`). The end of the process closes
its sockets; the model stops there.

`ThreadServer` has `client_sock` as one variable that `accept4()` writes and
each new thread reads at a moment of its own, and per thread its copy of the
number and the bytes of its last `read()`. Numbers are looked up in the table
when a call completes, so a thread that kept a number acts on whatever
connection has it then. A system call on a number that is not open fails
without an effect. When no number is left `accept4()` answers -1, with
`OtherFailures` at other times as well, and a thread is created for it all the
same. The history variable `shared` collects the
connections whose number two threads have held at a time.

`IterServer` is one loop. `EchoDialogue` composes it with its clients: those in
the constant `Users` run `client.cxx`, the others are the general clients of
`Tcp`. A user's steps are the general client's, made in the order type and
write, read once; typing and writing are one step, since nothing else sees the
word in between. A word that begins with a zero byte has length 0 for `strlen()`:
nothing is sent, and the user waits for an answer all the same (`AsksNothing`),
possibly for ever. The server closes a user's connection only after reading the
end of its stream, or when it is killed by the `SIGPIPE` of another client: then
`read()` answers 0 or -1 to a user who waits (`CutOff`), and what follows
(`message[-1]` at `client.cxx:61`) is not followed. That no user gets the server
killed is `KilledByOthers`. The history variable `behind` collects the users who
once took a part of an answer for the whole. Users type words that fit the
array: a longer one overflows it and is undefined in C++17, as is an input that
ends before the first word.

### Redis publisher and subscriber

Every client has a main thread and an event thread on one `redisAsyncContext`.
The class of the publisher and that of the subscriber differ in what they do
with a reply, and in what their `main()` does after `connect()`; so one set of
actions serves both. `Hiredis` holds what the repository does not contain, cut
where the two threads can meet: `redisAsyncCommand()` reads `obuf`, replaces it
and adds the write event; the write handler writes `obuf` out, drops what was
written, and then removes the write event or adds it again. These are separate
steps of the two threads. Undefined behaviour is kept small: `obuf` that was
replaced under the command's hands is either brought back or gone, and a
command on a context that was freed makes the main thread `"undefined"`, where
the client stops. The history variable `raced` holds the clients that have had
both threads inside the context at a time, also when the event thread was
reading a reply: what such a meeting does to hiredis' list of callbacks is not
followed. An event that another thread adds while `event_base_dispatch()` waits
takes effect at once, as it does with epoll. The server executes one command at
a time, sends a message to whoever is subscribed, and may hang up at any
moment.

`connect()` that fails is one outcome of `Connects` and ends the program. The
publisher's `usleep(1)` and all output are left out. `MaxMessages` bounds how
many messages of a publisher are followed.

### libevent server and client

Both programs are one thread in `event_base_dispatch()`, so a step is what
libevent does for one event together with the callback it makes. The server's
bufferevent is a life (`none`, `open`, `freed`) and an output buffer; its input
buffer is emptied by every callback and needs no variable. The client's output
buffer is the difference between what was typed and what was sent; its input
buffer needs no variable either, as long as what comes is shorter than `msg`. The
bytes of the prefix "I have recvieced the msg: " are `<<c, 0>>`. An answer is
built with `strcat()` and measured with `strlen()`: what follows a zero byte in
the same read is left out (`Text`, with the constant `Nuls` for the bytes that are
zero). Three arrays can be written past their end: `msg` and `reply_msg` of the
server (`Overruns`) and `msg[1024]` of the client. That is undefined, and the
model follows that program no further (`"overrun"`). `Tcp` cuts and joins the
stream; a client leaves at any time. A `bind()` that fails makes the server
end; `accept4()` that fails leaves an orphan, a bufferevent without a socket.
At the end of its input `cmd_msg_cb()` is called again and again and writes
nothing, which is no step of the model.

## 3. Runs

| Run | Configuration | Shows |
|---|---|---|
| `radix_tree` | 5 keys over 2 characters up to length 3, 11 query strings, 2 values | linking, labels, compression and the matches after every history; refinement of `RadixMap`, iterator and size included |
| `radix_begin` | the same keys | **finding**: `begin()` asserts after the last key was erased |
| `memory_pool` | 2 blocks of 8 bytes, slots of 3, header of 1 | safety of both lists, and no block asked for too early |
| `stack_alloc` | the same pool, 2 values, 2 throwing copies | refinement of stack and pool; leaks are exactly the throws |
| `fork_server` | 2 clients, 2 bytes each, buffer of 1, send buffer of 1 | isolation, zombies, echo, release |
| `epoll_server` | 3 clients, 1 byte each, 2 numbers, buffer of 1, send buffer of 1 | no edge lost or stale, echo, release |
| `epoll_short_write` | 3 bytes, send buffer of 1 | **finding**: a gap in the echoed stream |
| `thread_server` | 2 clients, 1 byte each, 2 numbers, 3 threads, any failure of `accept4()` | no byte returned twice; release; only shared numbers do harm |
| `thread_race` | 2 clients, 3 numbers, 2 threads | **finding**: a client that no thread serves |
| `echo_dialogue` | a user and a general client, 6 bytes each, buffer of 3, send buffer of 4 | echo and service in turn; for a user who is not behind terminated messages and no SIGPIPE, for every user no mutual wait |
| `redis_pubsub` | a publisher of 2 messages, a subscriber | set-up before events, messages told in order, commands executed; the context used while it lives |
| `libevent_dialogue` | 2 clients, 2 bytes each, one of them zero, the server's buffer of 3, prefix of 1, the client's buffer of 3, send buffer of 3, 1 orphan | no byte lost but behind a zero; what is typed is shown; both ends released |

Bounds. The five keys hold the empty string, a chain of three prefixes and two
siblings that part inside a label, so every branch of `find_node`, `prepend`
and `erase` happens, except a failing assert of `prepend`, which
`OnlyBeginAborts` shows cannot. Two blocks of two slots each (one byte is left
over) let a second block be chained, exhausted and refused. Two clients are
enough for signals to merge and for one child to write while another ends; with
two bytes and a buffer of one, a stream needs several reads (`fork_server`,
`epoll_short_write`). In `epoll_server` a third client is left in the queue while
two hold both numbers, for a time or for ever, and takes a number closed in the
same batch; the price is one byte for each, and that the echo is right for any
number of bytes is a theorem. A send buffer smaller than the message makes a
blocking write wait (`fork_server`); the epoll server loses bytes in that case
(`epoll_short_write`), and its other run shows what holds when it does not
happen. Two numbers and three threads let `accept4()` run out of numbers,
`pthread_create()` run out of threads, and a number be used a second time; the
order of several bytes is left to the theorems about `ThreadServer`, which hold
for all sizes. Six
bytes with words of one or two allow further questions while a part of the
first answer is unread: a user who falls behind can fill the buffer of three
and leave with two questions open, which fewer bytes do not show, and the
general client fills it anyway. One publisher and one subscriber have four
threads and every race within a context: contexts are not shared between
processes, so more of them only repeat it. Two messages let one wait in `obuf`
while another is written out. In `libevent_dialogue` a message of two bytes fills the server's array together
with the prefix, and two answers read at once fill the client's, so that both
overruns occur; two messages of one byte do not, and their answers are longer
than the send buffer, so that the server's output buffer holds a part back. The
zero is the first of two bytes and cuts the second off when both are read
together. Two clients let one end the server by `SIGPIPE` while the other is in
its loop.
`MaxThrows` bounds the copies that throw. Clients send finitely many bytes on
finitely many connections, and `MaxOrphans` bounds the failures of `accept4()`
that are counted: there is no bound on the order of events.

Deadlock is not checked in the pool's, the stack's and the servers' runs,
because a destroyed pool, or a server all of whose clients are done, has
nothing left to do; nor in the tree's, where the abort ends the program.

Fairness. `DestructorFreesAll` assumes that a member function that was entered
runs on (`WF` of its steps), nothing of the caller. The servers' liveness
assumes weak fairness of each process or thread, delivery of signals, and
arrival of resets already sent. Nothing is assumed of `accept4()` or of
`epoll_wait()`. The epoll server's `EverythingEchoed` therefore says of a client
that was accepted that it is answered unless the service ends, and of one in the
queue that it is, too, unless the clients that hold all numbers stay for ever
(`Exhausted`) or `accept4()` fails again and again although a number is free
(`FailsAnyway`). The Redis and libevent runs need only
that something goes on as long as a thread, the server or a reset can take a
step: no step of these models can be repeated for ever. Clients are under no
fairness: they may stop anywhere. One exception: a user of `client.cxx` is
inside `read()`, which returns once something has come. `EverythingEchoed` of
`ForkServer` therefore asks that a client repeatedly leaves room for more
answers, and says so in the formula.

## 4. Findings

- `begin()` on a tree that has become empty fails `assert` at
  `radix_tree.hpp:170`: `erase()` keeps the root node, and `begin()` tests
  only `m_root == NULL`.
- The epoll server ignores what `write()` answers on a non-blocking socket
  (`EPOLL/src/server.cxx:118`), so the data it read is not always returned.
- `pthread_create` is passed the address of `client_sock` (`:310`), which the
  next `accept4()` overwrites; a client may get no thread and another two.
  `IntactUnlessShared` says that apart from these two causes no stream is
  disturbed and no connection closed too early.

More was noticed while modelling and has no run that ends in an error; where
a property says exactly what does happen, it is named.

- `read_childproc` reaps one child per delivered SIGCHLD
  (`TCPServerDemoMultiProcess/src/server.cxx:50`), while its comment at `:46`
  says that it recycles the children that end. `ZombiesAccounted`, which is
  proved, says precisely how many remain: one for each merged signal.
- `redis_subscriber.cxx:123` takes an array of three elements for a message.
  The confirmation of `SUBSCRIBE` is one, too: `_notify_message_fn` is first
  called with a null pointer for the message (`ToldInOrder`), which
  `recieve_message()` inserts into `std::cout`; with libstdc++ that sets the
  stream's badbit, and nothing is printed from then on.
- "Subscribe channel success" (`redis_subscriber.cxx:90`) means that the command
  is in `obuf`. The event thread may then remove the write event just added, and
  nothing is sent (the exception for `raced` in `CommandsExecuted`).
- `_redis_context` is not reset when hiredis frees the context, so that the
  publisher goes on using it after the server has hung up (`ContextLives`).
- `libevent_client_withbuffer.cxx:78` writes a zero behind what it has
  taken, at `msg[1024]` when 1024 bytes have come. A line of the terminal may be
  1024 bytes long, to which the server adds its prefix, so that an honest user
  gets there (the exception for `"overrun"` in `ShownInTheEnd`).
- The server has the same fault at `libevent_server_withbuffer.cxx:59`, when
  4096 bytes are read at once, and its `strcat()` at `:64` overflows `reply_msg` when
  they are fewer by less than the prefix and the zero. The bytes behind a zero
  are silently dropped there (`:64-65`): `NothingElseLost` is the most that can
  be said.
- `EPOLL/src/server.cxx:70-73` ends the service when `epoll_wait()` fails, as it
  does with `EINTR` after the process was stopped and continued.
- `client.cxx:58` sends nothing for a word that begins with a zero byte, and waits
  for an answer; `:60-61` writes `message[-1]` when `read()` fails.
- `tcp_server_init()` ignores the -1 of `err_func()`
  (`libevent_server_withbuffer.cxx:105`, `:109`): after a `bind()` that fails
  `main()` sees a number, and ends without its message.

In the echo programs:
`handle_client` keeps using the number it has closed
(`MultiThreads/src/server.cxx:287`), the second of the two causes above: two
threads then serve the connection that gets the number, and one client's bytes
can go to another. Its loop has no exit (`:282`), while the comment at `:311`
says that the thread ends by itself. `client.cxx:60` reads once per question:
when an echo arrives in two parts every later answer is shifted. Such a user
may then fill the server's message, which is printed without a zero byte, and
may leave with two questions unanswered, so that the second `write()` kills the
server: `MessageTerminated` and `KilledByOthers`, which are proved, hold for the
users that are not `behind`, and TLC shows them violated without that condition.

## 5. Proofs

Every safety property of the passing runs is a theorem, for all values of the
constants. The assumptions are those the modules state with `ASSUME`, which TLC
evaluates on each run, and no others, with one exception that is named below.

**Memory pool.** From `PoolAssumption` (the `static_assert`; a union is no smaller
than its pointer) and the distinctness of the named constants. None of `TypeOK`,
`SlotsApart`, `FreeListExact`, `BlockListExact` is inductive without `Uncut`: what
is left of the current block is a whole number of slots, and all slots cut from
it lie below. `Disjoint` then follows for the new slot, and bounds follow from
`SlotCountFits`, a fact about division. A list that visits a finite set exactly
once still does after a push or a pop, and does not see changes outside of the
set; the free list argument also needs that a slot the client holds is not on it,
so that the client's writes do not touch a link. `NewBlockOnlyWhenFull` is an
action property, and needs `Filled`: every block but the current one has been cut
into `SlotCount` slots.

**Stack.** `ContainerProofs` proves both refinements and `OnlyThrowsLeak`. The
invariant joins the pool's, taken over by `INSTANCE`, with a list of nodes:
there is a sequence of distinct slots, all of them given out and constructed,
that descends from `head_` (`Stacked`), and the slots given out that are neither
its nodes nor the one `push()` is filling are as many as copies have thrown
(`Accounted`). As the list's slots are live, the pool's free list and
blocks do not contain them, so that what `deallocate` writes does not reach a
node. Two such sequences are the same: at the least position where they differed
the one before would have to link two nodes. Hence `Nodes` is that list, and each
step of `push`, `pop` and `clear` is a step of `LifoStack` or none.

**Radix tree.** `ContainerProofs` proves `WellLinked`, `Compressed`,
`OnlyBeginAborts`, `MatchesCorrect` and the refinement `RefinesMap`, for any set
of keys, of any length. From `RadixTreeAssumption`: keys are strings, and neither
the null pointer nor a failed assert is an address or a key.

- The invariant `TreeInv` says that there is no tree, and then no node, or a
  `Tree` in which no node is `Bare`; that the leaves are finitely many, their
  keys among `Keys` and their number `m_size`; that the iterator is on a leaf or
  at the end; that the lengths of all strings have a bound; and that an assert
  has failed only in a tree without leaves. `Tree` is local: of each node it
  says that its parent files it under its `m_key`, that its string is the
  parent's with that label behind it, and that no two labels of one node start
  alike. That all nodes are below the root, and which leaf a walk arrives at,
  follows and is never assumed.
- `find_node` stops in one of three places (`FindFound`): at the leaf for the
  key, at a node that begins the key and has no label that goes on with it, or
  at one whose label the key leaves before its end. All that `insert`, `erase`
  and the matches do starts from these three cases.
- An edit is a lemma about any two heaps: a leaf or a node added (`AddTree`), a
  label cut in two (`SplitTree`), a node without children removed (`RemoveTree`), a
  label joined to that of an only child (`MergeTree`). Each leaves a `Tree`;
  `insert()` and `erase()` are one, two or three of them in a row, and in between
  a node may be `Bare`. That `erase()` merges where it must, and nowhere else, is
  what `NoBare` costs.
- The order of the keys is that of a walk: what is below a label precedes what is
  below a greater one (`UnderOrder`). Hence `begin()` ends at the least key,
  and `++` at the next one: as long as the iterator climbs, nothing below the
  node it has reached is greater (`ClimbStep`). `longest_match` climbs from a
  node that no shorter prefix can lie below (`RiseStep`).
- `greedy_match` fills its vector with the leaves below the node it starts from,
  in order (`GreedyFills`): a set of leaves has one such vector, the one of the
  first child followed by the one of the rest. Below the node at which a query
  stops are the leaves that share its longest prefix (`StemStops`), and the
  comparison in `prefix_match` is true exactly if that prefix is the whole query
  (`PrefixTest`).
- The dictionary of `RefinesMap` is `View(node)`, the values by the strings of the
  leaves, and the cursor the string of the iterator's leaf. No edit changes the
  value or the address of a leaf it does not remove (`Grows`, `Shrinks`), which
  is why iterators survive.

The walks are recursive functions over a heap of any size. A definition by
recursion says nothing until there is a function that satisfies it. For those
that call themselves once, `Recursion` finds one whenever a number falls with
each call: depth in a heap with bounded strings, or height. For the destructor
and `greedy_match`, which call themselves once for each child, the function is
given outright. What it then computes is proved by the least counterexample: a
call of smallest rank that goes wrong would have to make another one that does.

**Echo servers.** `TcpLemmas` shows that each system call leaves a connection
well-formed, and what it does to three streams: those echoed, held by the
server, and in the receive queue. Put together they are the first `sent` bytes of
the client until a reset has arrived, and what has been echoed stays a first part
for ever (`Conserved`). With it

- `ForkServer` implements `EchoService` for any number of clients and sizes of
  buffers: a child's `buf` holds bytes only between `read()` and `write()`
  (`Carried`). `Isolated` needs `Lifecycle`: a connection has a child only after
  it was accepted, is accepted once, and while the parent holds it, it is the
  only one. `ZombiesAccounted` is inductive by counting: a child that ends adds
  one zombie and either the pending bit or one merged signal.
- `EchoDialogue` implements `EchoService`, too, and for `MessageTerminated` and
  `KilledByOthers` a user is followed through his dialogue (`Prompt`): one who
  has heard whole answers has at most one question open, all of it in one place,
  and quits only when there is none, or when the server has been killed.
- `EpollServer` keeps every edge and no stale event (`NoLostEdge`,
  `NoStaleEvent`). Both rest on `Numbered`: open numbers stand for different
  connections, and the number being drained is not in the batch any more, so
  that closing it leaves nothing behind that could name the next
  connection. That it implements `EchoService` is proved under
  `MaxBytes <= SendRoom`: the kernel takes all that a client may be sent. The run
  `epoll_short_write` shows that the theorem is false without it.
- `ThreadServer` leaves a connection intact whose number no two threads have held
  (`IntactUnlessShared`). The difficulty is a number that was closed under a
  thread that still uses it: `Closers` says that it then is not the only one
  that holds the number, so that the next connection with this number is shared
  from its first step on, and `Alone` that otherwise one thread holds it.
  `NoByteTwice` holds whatever is shared: every action moves bytes between two
  places, drops them, or adds new ones with a higher number (`Once`), and none
  copies.

**Redis.** From `ClientsAssumption`: publishers and subscribers are disjoint.
`SetUpFirst` and `ContextLives` follow from an invariant about one client at a
time: what the main thread has done of `connect()` is in its context, and the
semaphore is 0 until the last of it is done (`SettingUp`), so that an event
thread past `sem_wait()` finds both callbacks and an event; a context that is
dispatched and lives always has an event to come, and is freed only when the
connection is lost (`Dispatching`); and `obuf` differs from what a command under
way has seen only if the threads have met (`Commanding`). The calls of hiredis
have lemmas of their own, so that the lemma for a step of the program says only
what the step adds.

`ToldInOrder` follows a message through `obuf`, the connection, the server and
the replies on their way (`Telling`). The commands of a client that is not
raced and whose connection is not lost are in line: those executed, those in
the connection and those in `obuf`, each once, together are those given
(`Lined`). Here the moment matters in which the write handler has written
`obuf` and not yet dropped it. What a subscriber has heard, with the replies on
their way, ends in the last message that was executed of each publisher as long
as it is subscribed (`UpToDate`), so that the next one keeps the order and
leaves no gap; and is empty before it is subscribed (`Confirming`), for which
`SUBSCRIBE` must not be executed twice, which `Lined` and the count of commands
exclude.

**libevent.** `NoOtherByteLost` is `NothingElseLost` for any number of clients,
lengths of the prefix, sizes of buffers and places of zero bytes. A stream
*carries* the numbers from a first to a last one if its bytes that are not of a
prefix are among these, in order, and the others are behind a zero that was read
with them (`Missing`). What has been written carries all up to some m, the output
buffer those from m to some n, and what the server has not read is the run from
n to `sent` (`Relayed`). Answering puts a prefix before a first part of that run,
which ends before its first zero (`TextBounds`); writing cuts the buffer anywhere,
and a prefix is split there as well as a message. A read that overruns an array
ends what is claimed (`RelayOverrun`). A bufferevent that is freed drops its
buffer, and nothing comes after: `Buffered` says that one exists only for a
connection that was accepted, so that `accept4()` never opens a second one for
it. Nothing is asked of the client program but that it is a client: its calls are
those of `Tcp` (`SameCalls`, `ClientOfLibevent`).

**Only model-checked.** Liveness, fairness and the deadlocks they exclude are out
of the prover's reach. The findings are counterexamples and need no proof.

## 6. Not modelled

Alignment of elements in a pool, exceptions of `std::map` and `std::string`,
output, set-up of listening sockets (the initial states, except in
`LibeventServer`), what a program does after it has written past an array
(undefined), the order in which libevent handles the events of one round (any
order is allowed).

Three steps are coarser than the code. A blocking `write()` that has room for all
its bytes takes them at once (`Tcp!WriteAll`); the kernel may take them piece by
piece, which no other process can tell from a slower reader. `HandlesRead` of
`RedisPubSub` is the whole of `redisAsyncHandleRead()`, so that a `publish()` that
falls wholly inside it is not counted in `raced`. And `redisAsyncCommand()` does
not answer `REDIS_ERR` (`redis_publisher.cxx:82-85`, `redis_subscriber.cxx:86-89`):
the program prints a line then and goes on.

`disconnect()` and `uninit()` of the Redis clients stand behind endless loops
and are never reached; read by themselves, they free a context twice
(`redis_publisher.cxx:72`, `:73`) and from the wrong thread.

`select_workproc` and the older `epoll_workproc` of
`MultiThreads/src/server.cxx` are called by nobody, and could serve nobody: the
first compares descriptor numbers with the number of ready descriptors
(`:131`), which its listening socket never is below, and the second uses
positions of the event array for descriptors. The forking variant in the same
file is the code of `ForkServer`. The programs under `socket`, `SELECT` and
`UDP` make a few system calls in a row and keep nothing between them; what the
UDP pair would be asked for, that answers match questions although datagrams
are lost or arrive twice, it makes no attempt at.

## 7. Plan

No safety property is left to prove. Should the code grow, the
parts that would be modelled next are the order in which libevent handles the
events of one round, and `disconnect()` of the Redis clients if something comes
to call it.
