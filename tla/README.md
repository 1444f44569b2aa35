# mini-httpd: a TLA+ model of the server

mini-httpd is a small process-per-connection web server in C: static files,
directory listings and CGI programs, over http and https, with access control
by client address. This directory models its control flow in TLA+, checks it
with TLC on small instances and proves its main invariants with TLAPS for
every instance. Line numbers refer to `src/src/` unless a path is given.

## 1. The system

| Part | State | Operations | Talks to |
|---|---|---|---|
| HTTP and HTTPS listener (`main.c`) | `listenfd`, `clientfd`, its descriptor table, `ishttps`, children, pending SIGCHLD | start, accept, check access, deny, fork, close, reap | clients (sockets), workers (fork, SIGCHLD), `config.ini` |
| Worker (`mini_httpd_helper.c`, `DoInteraction`) | the request line, the `rio_t` buffer, `stat` of the file, TLS session | read request, parse URI, stat, read headers, serve file or directory, report an error, hand over to CGI | client, file system, debug log |
| CGI gateway (`get_dynamic`, `post_dynamic`) | two pipes, the body read so far | fork program, fork feeder, redirect, exec, forward output (https) | CGI program, client |
| Robust I/O (`wrap.c`, `rio_*`) | internal buffer, count, position | read n bytes, read a line, write n bytes | socket, pipes |
| Access control (`secure_access.c`) | none | compare address and mask | configuration |
| Configuration (`parse_config.c`, `parse_option.c`) | one static result buffer, open streams | look a key up, parse options | `config.ini` |
| Access log (`mini_httpd_log.c`) | one stdio stream, whose buffer each process copies at fork | open, write the time, write a header line | log file |
| Debug log (`mini_httpd_debug.c`) | none: the file is opened per message | write a message, dump bytes | log file |
| Life cycle (`writePid`, `Daemon`, `bin/mini-httpd.sh`) | pid file, inherited listening sockets | start, daemonise, stop, restart | user |
| CGI programs (`cgi-bin/`) | the body read so far | read the input, write a page | worker or client |

How they interact: the listener forks a worker per permitted connection and
forgets it; the only thing that comes back is SIGCHLD. The worker owns its
connection, reads one request, answers it or hands the connection to a CGI
program, and exits. Nothing is shared but what `fork` copies and what the
kernel keeps (sockets, process table, log files).

Two habits of the code decide most behaviours. Every system call goes through
a wrapper of `wrap.c` that prints and calls `exit(0)` when the call fails, so a
failing call in a listener ends that listener. And descriptors are closed in
few places: each look-up in `config.ini` keeps a stream open
(`parse_config.c:13`) and a denied client's socket stays open (`main.c:138`).

What is hard here: SIGCHLDs of several workers that coalesce; children that are
reaped, stopped or continued at any moment; limits on descriptors and processes
that are met in the middle of a connection; clients that close or reset in the
middle of a line, or do not read; lines that have no room; files that change
between `lstat`, `open` and the write; TLS records that do not end where the message ends; descriptors that forked
programs inherit; short counts and interruptions of system calls; a buffer that
several look-ups share and one that several processes flush; a server that is
started while the last one is still dying. The list, with line numbers and the
properties that cover each item, is `hazards` in `PROJECT.json`.

What makes each part correct:

| Part | Correct when |
|---|---|
| Listeners | each connection is denied or served as decided and disposed of, is open in no process but its own, and its client sees end-of-file; the handler finds the child it waits for |
| Worker | one response, on the client's channel, head before body, and the one the request deserves; the head of the message consumed, as far as lines were not cut; it ends, or waits for its client |
| CGI gateway | the program's input is the body, the response is the status line and the output in order, and everyone who waits for end-of-file gets it |
| Robust I/O | no byte lost, doubled or reordered, counts as callers rely on, reads return |
| Access control | the verdict is the documented rule's, from a whole mask |
| Configuration | the settings are those given, whatever shares the buffer; nothing is looked up that is not needed |
| Logs | every line once, in order, next to its own time; messages whole |
| Life cycle | the pid file names the server, unless two are started at once; what is left of one listener cannot keep the other's port; a stop ends everything it could see |

## 2. The modules

| Module | Models | Uses |
|---|---|---|
| `Startup` | options, `config.ini` and the settings `main()` makes of them | |
| `Lifecycle` | processes and listening sockets from `./webd` to the end, pid file, script | |
| `Connection` | what the server promises each client (abstract) | |
| `Server` | the process tree: listeners, workers, signals, descriptors | instantiates `Connection`, once for each client |
| `AccessControl` | `access_ornot()`, character by character and bit by bit | |
| `Transaction` | what a worker promises its client (abstract) | |
| `Interaction` | one worker, `DoInteraction` and what it calls | instantiates `Transaction` |
| `Gateway` | what the CGI gateway promises (abstract) | |
| `Cgi` | `get_dynamic`, `post_dynamic`: worker, feeder, program, pipes | instantiates `Gateway` |
| `ByteStream` | what the robust I/O functions promise (abstract) | |
| `Rio` | `rio_read`, `rio_readn`, `rio_readnb`, `rio_readlineb`, `rio_writen` | instantiates `ByteStream` |
| `Logs` | the workers' two log files and the rows of a hex dump | |
| `ServerProofs`, `InteractionProofs`, `CgiProofs`, `RioProofs`, `AccessControlProofs`, `StartupProofs`, `LifecycleProofs`, `LogsProofs` | theorems | extends the module of that name |
| `MCServer`, `MCInteraction`, `MCCgi`, `MCRio`, `MCAccessControl`, `MCStartup`, `MCLifecycle`, `MCLogs` | instances for TLC | extends the module of that name |

Each module leaves to its neighbours what they model in detail:

* `Startup` ends where `Lifecycle` begins, at `Daemon()`; its settings `daemon`
  and `dossl` do not change there.
* A process of `Lifecycle` that reaches `"serve"` is a listener or a worker of
  `Server`; in `Lifecycle` its calls may simply fail and end it.
* `AccessControl` computes the verdict that `CheckAccess` of `Server` leaves
  open; its `"fault"` and `"overrun"` are ways a listener ends.
* `Server` leaves open what a worker does with its connection; `Interaction` is
  one worker in detail. They meet at `ForkWorker` / `WorkerExit` of `Server`,
  which are the beginning of `Interaction` and its `end # "no"`. An interaction
  that ends as `"dynamic"` goes on as `Cgi`, from its `Init` to `worker = "ended"`
  (or `"became"`: over http the worker of a POST turns into the program). The
  processes `Cgi` forks are `program[c]` in `Server`. What both mean by serving a
  client is `Connection`: `Server` implements it for each client, a worker of
  `Interaction` the part of it from `Serve` to `Leave` (section 4).
* `ReadLine` and `Write` of `Interaction` and the feeder of `Cgi` take lines and
  pieces as units. `Rio` shows that short counts and interruptions do not tear
  them. It also has the limit of `rio_readlineb()`, which cuts long lines:
  `Interaction` has the pieces of such a line as items of their own.
* A header that ends early, at such a piece, leaves the rest of the head to be
  read by the feeder as body. `Cgi` begins behind the head and leaves that out.
* `Logs` is what a worker writes to the two logs on its way through `Interaction`.

### Server

* `pc[l]` follows a listener through lines 93-154 of `main.c`; the two loops
  are the same text twice and one set of actions, parameterised by the listener.
* `held[p]` and `cfg[l]` are the descriptor tables: connections by name, and
  how many `config.ini` streams. `FdLimit` is what is left of the table after
  start-up. A look-up that takes the last descriptor makes a debug message
  after it fault (`LastFdTaken`).
* `status`, `pending`, `handling` are the kernel's view of processes and of
  SIGCHLD: one pending bit, SIGCHLD blocked in its handler, SIGCHLD also for
  stopped and continued children (`SA_NOCLDSTOP` is not set).
* `CheckAccess` leaves the verdict open: `config.ini` is read anew for every
  connection. Its keys are assumed to stay there.
* `program[c]` are the connections open in a process the worker forked (CGI
  program or feeder), which outlives the worker and is not waited for.
* `Exit` is `unix_error()`; `cause` names the call that failed.
* `ServedAsPromised`: with `Stage`, which forgets processes, signals and descriptors
  and keeps how far one connection has come, `Server` implements `Connection` for
  every client at once: one verdict, which stands; then the listener's 403 or a
  worker with one page, on the channel of the port. The instance takes the
  connection as its parameter (`Client(c)`), so that one definition covers all.

### Interaction

* The client's message is a sequence of items, each what one `Rio_readlineb()`
  returns: request line, header fields, blank line, pieces of body. A line of
  `MAXLINE` bytes or more comes in pieces (`wrap.c:583`); of these only a last piece
  that is nothing but the line end matters, since it reads like the blank line: the
  item `"rest"`. `pos` items were sent, `got` were taken by the worker; the
  client may close or reset in the middle of an item (`torn`).
* Over http each read takes one item through `rio_t` (`ReadLine`). Over https
  one `SSL_read` takes what the first record holds (`SslPrepare`): items, a part of
  the request line, or nothing. Of a handshake only the result 0 is an error; after
  any other failure the worker goes on with a channel that is `"broken"`.
* What an incomplete request line leaves in the uninitialised arrays is any method
  and any URI, or no string at all (`CheckMethod`, `ParseUri`). A URI without
  room in `filename[]` overflows it (`req.fits`).
* A file is one of nine kinds, those the code tells apart, or fails to: a directory
  may hold a link that leads nowhere (`"dangling"`: `Stat` ends the worker), or be one
  that `serve_dir()` cannot cope with (`"faulty"`: it cannot be opened, an owner has no
  name, the listing outgrows `files[]`); a file may be of another owner.
  It may change at each of the places where the worker goes by what it saw before
  (`ChangeFile`).
* `free` is how many descriptors the worker can still open: `parse_uri` keeps
  one, every debug message needs one for a moment (`Logs`).
* Responses are their page, their channel and their two writes (head, body). What
  the worker makes up itself (errors, listings, heads) has room in the socket's
  buffer. A file may fill it: then the worker is at `"full"` until the client reads
  (`SendRest`) or resets. The same holds for the listener's 403 in `Server`, which is
  short and sent on a fresh socket.
* `gone` says whether the client is `"here"`, has `"closed"` or has `"reset"` the
  connection: end-of-file, or an error that ends the worker in `Rio_readlineb`.
* `end` is how the worker ended: through a wrapper (`exit`), a fault (`crash`),
  SIGPIPE, into `get_dynamic`/`post_dynamic` (`dynamic`), or at the end (`done`).
* `Deserved` is what the documents promise (`src/README:8, 37`, the texts of the
  errors), not what the code does: a listing for every directory, a file for every
  readable file. `Unserved` names the requests whose answer the code loses.
  `AnsweredAsDeserved` says that every other request is answered so, and that these
  get nothing rather than something else.

Abstracted: the bytes of lines, pages and URIs. Formally undefined but benign
with the usual library, and not modelled: `sprintf` of a buffer onto itself.
A build without HTTPS does not compile (`mini_httpd_helper.c:515` uses `ishttps`),
so both are always there.

### Cgi

* `Calls` is the worker's order of system calls, one sequence for each of
  GET/POST and http/https; `worker` is the next one. `feeder` and `program`
  are the two children; over http the program of a POST is the worker itself
  after `execve` (`Exec`), which also puts the SIGCHLD handler out of force.
* Pipe `"in"` carries the body to the program, `"out"` the output to the worker
  (https). `readers` and `writers` say which processes hold each end: forks
  copy them, ends and exits drop them. A read that finds the pipe empty returns
  only when nobody holds the write end: every deadlock of this code is there.
* `ahead` pieces of the body were read together with the head and sit in the
  `rio_t` (http) or in the request buffer (https), `arrived` of them are at the
  socket, `length` of them were promised. Of those in the request buffer, `text`
  come before the first zero byte, where the `strcpy` of `https_getlength()` ends.
* Pieces are numbered, so that a lost, doubled or reordered piece shows. `Pad`
  is a zero byte the feeder sends where it has no data, `Garbage` what
  `get_dynamic`'s uninitialised buffer may hold behind the output.
* The program is any program: it reads and writes as it likes, hangs or ends,
  or cannot be executed at all (`StartProgram`, `Exec`; the client is then
  still told 200).

* With `sample` it is one of the repository's own. `postAuth` writes once it has
  read `length` pieces, a piece with a newline, or end-of-file (`LineRead`);
  `getAuth` reads nothing and faults when its query has no `&` (`Faults`); both
  end after their answer.

* `OneGateway`: with `Phase`, which forgets who runs the program and how it is
  started, `Cgi` implements `Gateway`: one program, which is given the body piece by
  piece (`Give`), and one response, the status line first (`Announce`), then what
  the program writes, at once (`Make`, http) or once in a single reply (`Forward`,
  https). Pipes, processes and descriptors are gone there.

Left out: content lengths beyond the feeder's buffer, the environment the
program gets, and programs that leave a child behind which holds their standard
output: for these, `GetEnds` would have to wait for the child too.

### Rio

* The peer's bytes are their positions; `newlines` are the positions of line
  ends. The kernel has `arrived` bytes, `read()` has returned `taken` of them; the
  `rio_t` is `rio_buf`, `rio_ptr` and `rio_cnt` as in the code, with the -1 that
  an interrupted `read()` leaves in `rio_cnt`.
* `call` is the running function with its local variables. `Refill` and `Copy`
  are the two halves of `rio_read()`, the loop around `read()` and the `memcpy`;
  `ReadDirect` and `Write` are the loops of `rio_readn` and `rio_writen`.
* Each `read()` and `write()` takes any count from 1 to what there is, is
  interrupted (at most `MaxSignals` times), meets the end or fails. A call that
  failed is the last one: the `Rio_` wrappers exit.
* `StreamImplemented`: with what calls have taken (`Consumed`) for `consumed`,
  `Rio` implements `ByteStream`, in which each call is one step.

### AccessControl

* Characters are integers: an octet is one character, and dot, slash and the zero
  at the end are negative. `p` and `count` move as in the code; `count` is not reset
  between address and mask.
* An octet has `OctetBits` bits and an int four times as many, so that the sign
  bit is met as with eight. `Shl` and `Shr` are the shifts of C, one bit at a time;
  `BitAnd` is the int that has the bits `&` gives it.
* `parts`, the octets the value was written from, is a ghost variable: the verdict
  is judged against it.
* `"fault"` is `atoi()` after the null pointer that a missing dot leaves,
  `"overrun"` the copy of an address without a slash, which does not look for
  the end of the text.

### Startup

* `Order` is what `main()` does, an action for each step. A `GetConfig()` is
  `Fetch`: the first line with the key that is not a comment, copied to `info`, and
  one more stream left open. Without the key or the file the process ends.
* `logp` says where that pointer of `main()` points: into `info`, which the next
  look-up overwrites, or to the option's buffer.
* `parse_option()` is one step per option; the last one of a kind counts.
* `InitLog` opens what `strcat(tmpcwd, logp)` names: `InCwd`, a path below the
  working directory, whatever was given.

Abstracted: a line is a key and a value; white space and lengths are left out.

### Lifecycle

* A process has a role, a program point, the listening sockets it `holds`, and may
  be `dying`: `skill` sends SIGKILL and returns before its victims are gone.
  Children inherit sockets. `execve` keeps them but changes the name, so that
  neither `skill` nor `ps` sees a CGI program.
* `Order` is `main()` from `Daemon()` on. `OpenListen` binds a port nobody holds;
  `Exit` is what happens otherwise, and what any other failing call does.
* `writePid()` is two steps: `OpenPidFile` empties the file, `WritePid` puts the number
  over what is there by then. `pidfile` is the set of processes whose digits the
  text is made of: none, one, or two that wrote over each other.
* The script looks (`CheckStart`, `CheckStop`) and acts (`Launch`, `Skill`) in
  separate steps; the program is also started by hand. `skill` goes through the
  processes one by one while they fork; `left` are those the stop could see that
  it has not come to yet.
* `named`: the script looks for `webd` (`bin/mini-httpd.sh:3`), the Makefile builds
  `bin/mini-httpd` (`Makefile:14`). Unless somebody renames the program, `ps` and
  `skill` find nothing, and there is no `./webd` to start.
* `alone`, whether the last server was started when no other lived, is a ghost variable.

### Logs

* The access log is one stdio stream opened before the first fork: `buf[w]` is
  the worker's copy of its buffer, `cbuf[w]` its child's. `WriteTime` leaves its
  stamp there, `WriteLog` adds the line and flushes. `exit()` writes the buffer
  out, a signal or `execve()` drops it.
* A debug message is some pieces between `fopen()` and `fclose()`. What a stdio
  buffer holds goes out in one `write()`, which appends it as a whole.
* A worker whose client closes inside the header logs its last line for good
  (`SameLine`, bounded by `MaxLog`). One whose client resets there exits in
  `Rio_readlineb()`, which writes out a stamp that waits for its line (`ReadFails`).
* `HexDump` and `LastRow` are the rows of a hex dump, as positions of bytes. They
  model `MINIHTTPD_Debug_HexDump_Ex()`, which has no caller.

## 3. The runs

| Run | Question | Result |
|---|---|---|
| `server` | two http connections and one https connection whose worker may be stopped and continued: types, signals, descriptors, privacy, access; is each connection disposed of, does each client see end-of-file, is each treated as `Connection` promises | holds |
| `interaction` | all clients, files, one file change, cut header lines, none to three free descriptors: one transaction, the head consumed to its first line that reads blank, the answer deserved; does a worker end once the head was sent, or wait for a reader | holds |
| `cgi` | every GET and POST: is the program's input the body, are the processes together one gateway, does the handler find its child, does the program see end-of-file, do the worker of a GET, `getAuth` and `postAuth` end | holds |
| `rio` | every sequence of calls over every outcome of `read()` and `write()`: bytes in order, `ByteStream` implemented; do reads return once the peer has gone | holds |
| `access` | every value of `mask` against every peer: is the verdict the documented rule's, from a whole mask; does the computation end | holds |
| `startup` | command lines against files that are complete, lack a line, repeat a key or have a comment: are the settings those given, is nothing looked up that is not needed | holds |
| `lifecycle` | two administrators start, stop and restart, by script or by hand: are the listeners' sockets apart, does the pid file name a server that was started alone, does a stop end what it could see | holds |
| `logs` | two workers, all kinds of requests and ends: is every line logged once, in order, its time before it unless a read fails in between, is every debug message whole, does a hex dump print every byte | holds |
| `server_zombies` | does every dead worker get reaped (`main.c:18`) | violated: SIGCHLDs coalesce, the handler reaps once |
| `interaction_closed` | does a worker end once its client has closed, unless a file waits for a reader | violated: endless header loop at end-of-file |
| `interaction_directory` | is a requested directory listed | violated for URIs outside cgi-bin: the log message before it faults |
| `cgi_post` | does the worker of a POST end when its program has | violated over https: the worker holds the write end of the pipe it reads |

The violated statements are the repository's own; `findings` in `PROJECT.json`
quotes them.

Also seen while modelling: what the modules' actions do, and no run is about by
itself. First, where a line of the repository says otherwise:

* `Lifecycle`, `mini_httpd_helper.c:38`, "if the process is running, the interger in
  the pid file is the pid, else is -1": nobody calls `writePid(0)`, so the file is
  never -1 and outlives the server. It names a server that then cannot bind and
  ends; it is empty between `fopen` and `fclose`; and when two servers start
  at once it may hold the number of the loser, or digits of both. What is left
  of the comment is `PidFileNamesServer`.
* `Lifecycle`, `src/README:75-76`, "to provide start/stop/restart/status the
  mini-httpd": the script looks for `webd` (`bin/mini-httpd.sh:3`), the Makefile builds
  `mini-httpd` (`Makefile:14`), so as shipped it starts and stops nothing (`~named`).
* `Interaction`, `src/README:8`, "provide dircetory view function": beside directories
  outside cgi-bin (run `interaction_directory`), one with a dangling link, more than
  the listing has room for, or owners without a name is answered by nothing.
* `Interaction`, `src/README:6`, "GET/POST method to view static content": an empty
  file is answered by nothing, since `Mmap` of 0 bytes fails and ends the worker, and so
  is a file the worker may not open (`Unserved`).
* `Cgi`, `mini_httpd_helper.c:242-244`, "the cgi script can read the post data from the
  stdin": over https what comes after the first zero byte of the body, or after the
  first TLS record, is replaced by zeros although it was received (`InputIntact` says
  which bytes the program gets).
* `Startup`, `src/README:21`, "assigned log path": the path of `-l`, an absolute one too,
  is appended to the working directory (`InCwd`).

Then, where it says nothing:

* `Server`: a denied https client gets the 403 page in plain text; its descriptor,
  and a `config.ini` stream for each look-up, stay open until the listener ends
  (`DescriptorLedger` counts them). A denied client that resets ends the listener,
  as does any failing `fork`, or a `waitpid` for a child that was only stopped or
  continued: `SignalsCovered` speaks of listeners without `JobControl`.
* `Interaction`: over https only the first TLS record is read, and a failed
  handshake does not stop the worker. A header field of exactly 8191 bytes is cut so
  that its line end reads like the blank line: the header ends there (`HeadConsumed`).
  A client that does not read a file keeps its worker for good.
* `Cgi`: over https the output of a program is read once. A program that cannot be
  executed is answered 200 with no content.
* `AccessControl`: a mask of fewer than four octets ends the listener, and a value
  with an address but no slash is copied beyond its end.
* `Lifecycle`: an http listener that cannot bind leaves its https listener alone;
  a `restart` may find the old processes still dying and then starts nothing; a worker
  forked while `skill` goes round may be missed; a CGI program survives a `stop` and
  keeps the port until it ends.
* `Logs`: the first line of a request is never logged. The time of a POST whose
  header is empty may be lost or appear twice, that of a request that is reset after its
  first line stands alone. Https requests are not logged.

Bounds. Two http connections are the fewest with which SIGCHLDs coalesce,
a worker inherits what an earlier denial left open, and a later worker could
inherit an earlier connection; the https connection adds the second listener,
which is a child and competes for processes. `JobControl` lets the https worker
stop and continue, so that both kinds of worker are there. `FdLimit` and `ProcLimit`
are 4: every limit is met in the middle of a connection, and all connections can
also be served. In `Interaction` one item between request line and blank line tells
"the first line" from "a further line" in the header loops, and may be the one
that reads blank; one piece of body tells the head from the rest. One file change
hits each of the gaps between `lstat`, `open` and the write, and three descriptors are one more than a static request needs. In
`Cgi` two pieces of body are one read ahead and one that comes later or never,
two pieces of output one that the single read returns and one that it leaves,
and a pipe of two holds either. The length promised is chosen independently of
the body sent, so that both may be the longer one.

In `Rio` three bytes are one more than the buffer of two, so that reads leave a
rest in it and go beyond it; sizes from 0 to 3 are below, at and above what is
buffered; two bytes of output make one short count and one repetition of a call;
one interruption meets each `read()` and `write()` in turn. In `AccessControl`
octets of one bit still give all masks, all peers and negative integers; the
number of octets, which decides the control flow, is not reduced. In `Startup`
two options show "the last one counts" and every pair; a file lacks any one of
its lines or has one more. In `Lifecycle` four processes are two servers that start
at the same time, each with its https listener or as a daemon, or a server with an
https listener and a worker or program when the next `./webd` comes; two commands
are two starts, or a start with a stop or restart during it. In `Logs` three lines are the first, a further and the blank one;
three pieces are one more than the stdio buffer holds; a piece of 5 bytes, coprime
to the 16 of a row, makes last rows shorter and longer than half.
Deadlock checking is off: a server whose listeners have ended, a worker
whose client sends nothing more, a check that is done, rightly stop.

Fairness. `Server`: each listener's main program and its handler are weakly
fair, since the kernel schedules a runnable process and delivers pending
signals. Nothing is assumed of workers, CGI programs or clients: a worker may
never end, a client may never send. `Interaction`: the worker is weakly fair as long
as nothing keeps it (`~Waits /\ Work`), and a write to a client that has reset
fails (`SendRest`). The handshake may wait for good for a client that says nothing,
and so may a write for one that does not read; client and file system are not fair.
`Cgi`: the worker, its handler, the feeder and the
child up to its `execve` are weakly fair, and so are `getAuth` and `postAuth`,
whose code is there; any other program may hang and the client
keep silent, which is why `ProgramSeesEof` waits for the body or for the client
to leave, and `GetEnds` for the program to end. `Rio`: the process is fair, peer
and caller are not. `AccessControl` is sequential code that runs on. `Lifecycle`:
a killed process dies, and `skill` comes to the end of its round; nothing is assumed
of servers, programs or administrators. `Startup`
and `Logs` state no liveness and assume no fairness.

## 4. The theorems

`ServerProofs`, for all connection sets, limits and values of `DoSsl` and
`JobControl` that meet `ServerAssumption`:

* `TypeCorrect`: `[]TypeOK`.
* `Invariance`: `[]IInv`, with `IInv == TypeOK /\ ConnInv /\ SignalInv`. The
  properties are not inductive alone. That a connection is private needs to know
  what a listener's program counter says about `cur` (it works on an accepted
  connection with the verdict its branch requires: `LoopInv`), that an
  unaccepted connection is held by nobody and has no worker (`FreshInv`), and
  who may hold a connection at all (`HeldInv`, `ProgramInv`). That a SIGCHLD
  is covered by a zombie needs that the bits are only set for living listeners.
* `ConnectionsArePrivate`, `AccessIsEnforced` and `SignalsAreCovered` follow; the
  last says too that the handler's `Waitpid()` never ends a listener without job
  control.
* `LedgerIsKept`: `[]DescriptorLedger`, from `LedgerInv`. The ledger is an equation
  between a counter and the cardinality of a set (`Checked`, the connections the
  listener has judged), so the invariant carries that the set is finite, and each
  step either leaves it alone (`LedgerQuiet`) or adds the one connection in hand,
  which was not in it. `Accounts` must also hold of a listener that has not begun:
  `StartHttps` finds its books balanced. That the books never hold more than the
  table does is `RoomInv`: a listener waits in `Accept` or works with a place free,
  and `getfp()` and `Accept()` fail when there is none.
* `LifeIsBounded`: nothing gives a listener a descriptor back, so it judges
  `FdLimit` clients at most, and those it denies count twice.
* `Refinement`: `Spec => ServedAsPromised`, and `EachClient`, the same for every client
  by itself. A step of `Server` is a step of one client's `Connection` and none of
  every other's (`Obeys`, one lemma per action). Beside `IInv` this needs
  `PromiseInv`: what was sent to whom before the program point the listener or
  worker is at.
* `EofWaitsForClose`: `[]OnlyCloseLeft`, from `DeadInv` (no ended process holds
  anything). Once worker and program of a client have ended, the only thing its
  end-of-file waits for is a listener on its way to `Close()`. It is the safety half
  of `EofAfterWorker`; the other half is that the listener runs.

The proof of the step is one lemma per group of actions, with frame lemmas for
the many actions that leave descriptors or signals alone.

`InteractionProofs`, for all bounds that meet `InteractionAssumption`:

* `Invariance` (`Inv`: the channel is the promised one until it breaks, and what
  has been sent is determined by `pc`) and `Refinement`: `Spec => OneTransaction`.
  Each step is one of three: silent (`SilentStep`: eleven actions and the exit),
  sending (`SendStep`: head, body, and a body that had to wait), or another's
  (`OthersStep`).
* `TypeCorrect`: `[]TypeOK`.
* `HeadIsConsumed`: `[]HeadConsumed`, from `HeadInv`: up to the header loop no item that
  was taken reads blank (`HeadOpen`); behind it, wherever the program goes from there,
  the last one taken is the first that does (`HeadTaken`): the blank line, or the
  rest of a line that was cut.
* `DeservedAnswer`: `[]AnsweredAsDeserved`, from `CalmInv`. As long as nobody
  interferes (`Calm`: the client stays, the file does not change, a descriptor is
  free) and the worker has the request line (over https its first record may lack
  it), what the worker has learnt is what `Deserved` asks about (`Known`), and the
  page it answers with is the deserved one (`Answering`), or it ends without an
  answer and the request is one of `Unserved`. That `Deserved` itself
  does not change under a calm worker is `CalmBefore`.
* `WorkerServes`: on either channel, a worker does what `Connection` allows from the fork
  to the worker's end, and nothing else: one page at most, then it leaves.
  This is what `Server` assumes of its workers. It follows from `Refinement`.
* `WorkIsBounded`: `Spec => OnlyHeadersSpin`. Every step of the worker, one that had to
  wait included, lowers `Due`, the items left to read and the program points ahead, which client and file system
  cannot raise, except a round of a header loop at end-of-file, which is the finding
  of `interaction_closed`. No other loop of the worker can run for ever.

`CgiProofs`, for all sizes of body, output and pipe:

* `TypeCorrect`: `[]TypeOK`, in four parts (request, places, processes, data).
* `InputDelivered`: `[]InputIntact`, from `InputInv`. What the program has read
  says nothing of what it will read, so the invariant follows the body on its
  way: what the feeder collected is a beginning of the body, as long as it can be
  when the feeder writes (`CollectedInv`; over https that is the text before the first
  zero byte, all else is padding); then the pipe holds what comes after
  what the program has read (`CarriedInv`); and the feeder is forked once, into
  an empty pipe (`FeedInv`).
* `ResponseInOrder`: `[]ResponseOrdered`, the response is consecutive numbers from
  the status line on, from `ResponseInv`. Over http no program
  runs before the status line is sent, and response and output are of one length;
  over https the pipe holds the output from its beginning until the one read, and
  there is nothing but the status line until the one reply.
* `HandlerFindsChild`: `[]SigchldCovered`, inductive as it stands.
* `Refinement`: `Spec => OneGateway`. A step announces, runs, gives, makes, forwards
  or ends (one lemma each), or it only moves processes and pipes (`Quiet`). What the
  mapped steps need beside the invariants above is `GateInv`: no program while the
  worker is still before its fork, no output before it runs, and nothing read that
  was not written. That what is given is the body is `InputDelivered`, after the step.
* `WritersAreAwaited`: `[]NoIdleWriter`, from `WritersInv`, which says of each process
  and program point which write ends it still holds. A program that waits for the end
  of its input waits only for a feeder that lives; a GET's worker that waits for
  output, only for a program that lives. `ProgramSeesEof`, `SampleEnds` and `GetEnds`
  add that those processes run. A POST's worker over https waits for its own write
  end, which is the finding of `cgi_post`.

`RioProofs`, for buffers, streams and sizes that meet `RioAssumption`:

* `TypeCorrect`: `[]TypeOK`; no index leaves `rio_buf`, no call stores more than it
  was asked for.
* `BytesStayInOrder`: `[]BytesInOrder`. `IInv` adds to it what the arithmetic of
  a step needs: where the unread bytes end in `rio_buf`, and that `n`, `nleft` and what
  is stored add up. The lemmas before it are about runs of consecutive numbers:
  that the end of one and the beginning of the next make one, and what a part of
  one is.
* `Refinement`: `Spec => StreamImplemented`. A step that returns is a step of the
  stream, any other is none. `Extra` is what the mapped steps need beside `IInv`: a
  line that is still read has met no newline before its last byte, what is on the
  wire are the program's bytes in order, and a call that failed was the last.
* `CallsAreBounded`: `Spec => RoundsCount`. Each round of a loop lowers what is left of
  the request, the stream and the interruptions, together a natural number. So a
  call goes round finitely often, however short the counts; `ReadReturns` adds that a
  read whose peer has gone has a next round.

`StartupProofs`, for all texts, options, command lines and files that meet
`StartupAssumption`:

* `TypeCorrect`: `[]TypeOK`.
* `SettingsCorrect`: `[]SettingsAsGiven`, from `IInv`: what `parse_option()` has
  stored is the last option of each kind so far (`OptsRight`), what `main()` has
  decided by each of its steps (`Decided`), and that until `initlog()` runs `logp`
  points to a text nobody has overwritten (`PathRight`). That a key that is there has
  a first line is a minimum of a set of numbers (`WFMin`).
* `LookupsAreNeeded`: `[]NeededOnly`, from `LookupInv`: the streams that are open are
  as many as the needed keys that come before the program point (`Asked`), and
  all of those keys were there.

`LifecycleProofs`, for any number of processes, scripts and commands:

* `TypeCorrect`: `[]TypeOK`.
* `ListenersStayApart`: `[]ListenersApart`, from `HoldInv`: a process that has yet to
  fork its https listener holds no socket.
* `PidFileIsRight`: `[]PidFileNamesServer`, from `PidInv`. That a server is the last one to
  write is not enough: another may be between emptying the file and writing it. So
  the invariant says that a server which was started alone stays alone (`alone` falls
  with the next start beside it), that it finds the file empty when it writes, and
  that its number stands there from then on.

`AccessControlProofs`, for octets that meet `AccessAssumption`:

* `TypeCorrect`: `[]TypeOK`; the pointer stays in the text, the counter at six or
  below, and the address within four octets.
* `MaskIsWhole`: `[]WholeMask`, from `IInv`. In the address the counter is half of
  what has been copied (`AddressInv`), so the padding leaves it at three; in the mask it
  goes on from there (`MaskInv`), so it is never below three when the mask ends, and
  the mask is compared as written (`EndInv`). A mask that converts has three dots, and
  `WholeConverts` shows that one of fewer than four octets has at most two. The
  lemmas before it say what is where in the text (`TextIs`).
* `VerdictIsComparison`: `[]VerdictCompares`, from `CopyInv` and `JudgeInv`. The verdict
  is one comparison of three numbers: the address with zeros for the octets it
  leaves out (`PadIs`), the mask as written, and the peer. `OctetsAreRead` shows that
  the searches for dots find the four octets.
* `VerdictIsExact`: `[]VerdictExact`. The comparison of three ints is the rule for
  each bit of each octet (`RuleIs`), for octets of any width. That needs what shifts
  do to numbers and bits, for every distance: shifts join, distribute over sums and
  keep what is above and below apart (`ShlJoins`, `ShlAdds`, `HighPart`, `LowPart`);
  there is an int for any bits (`BitsMake`), so `&` has a value, and only one
  (`SameBits`); an int has the bits of its number, negative or not (`SignedIs`). These
  are inductions. The library's induction theorem takes a predicate as a
  parameter, which the provers cannot instantiate; `Counting` states it for a set,
  from the least number that would be outside, and `Recurrence` gets from it that
  the functions which `Shl` and `Shr` name exist.
* `StepsAreBounded`: `Spec => Advances`: `Left` is the length of the text and eleven at
  first, and each step lowers it. `CheckEnds` adds that there is a next step
  before the end.

`LogsProofs`, for any number of workers, header lines, message sizes and buffers that
meet `LogsAssumption`:

* `TypeCorrect`: `[]TypeOK`.
* `LinesAreLogged` and `StampStaysWithLine`, from `IInv`. A stamp is written by
  `exit()`, by a flush, or by the child that has a second copy of it; so the invariant
  says where copies are: none before the first line (`Fresh`), a second one only in
  a child forked after the header (`Family`), none at all behind a line that has been
  flushed (`Flushed`), and two stamps at most in the file (`Two`). `StampLine` and
  `LinesOf` say what stands there: a stamp with its own next line behind it, or one
  that a reset has left without (`Lone`). `Others` is the lemma that makes it work for many
  workers: what another one appends leaves a worker's own lines as they were.
* `MessagesAreWhole`: `[]DebugWhole` for messages the stdio buffer holds: one `write()`
  appends all pieces (`WholeKept`).
* `HexDumpIsWhole`: `[]HexDumpWhole`. Rows are runs of positions that meet
  (`BytesJoin`), the last one ends at the last byte (`LastRowIs`).

Every invariant and every refinement that a passing run checks is stated by a
theorem. Liveness under fairness, and ENABLED, are out of this prover's reach and
only model-checked: `EofAfterWorker`, `ConnectionDisposed`, `HeadSentEnds`,
`ProgramSeesEof`, `GetEnds`, `SampleEnds`, `ReadReturns`, `CheckEnds` and `StopEndsAll`.
Their provable parts are proved where they say something: that no loop goes round
for nothing (`WorkIsBounded`, `CallsAreBounded`, `StepsAreBounded`) and who may be
waited for (`EofWaitsForClose`, `WritersAreAwaited`). The four violated runs are
counterexamples and need no proof.

## 5. Not modelled

* `doc/back.c` and `doc/dir/`: copies of earlier versions of the sources, kept as
  documents, not built.
* `mini_httpd_mutex.c`: one-line wrappers of pthread calls; no process has a second
  thread. `Logs` shows what the mutex cannot do, and that one `write()` does.
* `init_daemon()`, `MINIHTTPD_LOG_INIT()` and `MINIHTTPD_LOG_UNINIT()`: no caller.
* The upload programs of `cgi-src/`: they need a library that is not in the
  repository. `uploadFile.c` is `postAuth` with another text.
* The wording of pages, log lines and time stamps (`getmonth()`, `mini_httpd_log.c:16`,
  looks for "Sept" where `strftime()` writes "Sep", and so returns 0 in September).
* The wrappers of `wrap.c` that nobody calls; the others are the "fails" and
  "exits" of the actions.

## 6. Plan

Done: all modules of section 2, their runs, and proofs about all eight components,
with four refinements. `Server` and `Interaction` meet at `Connection`, each proved
against it. Worth doing next: one module that composes both, so that the
descriptors a worker inherits (`FdLimit`, `free`) are the same ones.
