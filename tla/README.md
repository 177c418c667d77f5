# TLA+ models of C-systems-programming

The repository is a collection of small Unix programs.  This directory holds
TLA+ modules translated from their source, TLC configurations that check them on
small instances, and TLAPS proofs.  `PROJECT.json` is the index: components,
runs, the source lines behind every definition, findings, hazards, theorems.

## 1. Inventory

| component | state | operations | what is hard | what makes it correct |
|---|---|---|---|---|
| `mtls-chat/server.c` | parallel arrays `fds`, `ssls`, `nfds`; each client's socket and SSL object; stdin | `poll_loop`, `tcp_accept_function`, `tls_accept_function`, `read_server`, `broadcast`, `monitor` | peers act between any two calls; a failed handshake is undone in two functions; `nfds` goes down without regard to the slot freed; `SSL_write`'s result is ignored, with lines of different lengths | no descriptor leaks or is used after close; an SSL object in use is live and its slot's own; `nfds` stays in the array; lines in order; clients are served |
| `mtls-chat/client.c` | one socket, one SSL object, stdin | `setup_context`, `tcp_tls_connect`, `poll_loop`, `monitor`, `read_client` | a readable socket may hold a ticket or half a record; a full one keeps a record pending | neither stdin nor the server is starved |
| `tcp-suite/server.c` | `pollt`, `nfds` | one loop in `main`: accept, broadcast, read; `cleanup` | blocking calls in the only thread; `revents` nobody wrote; jumps over initialisation | every client is below `nfds`; each line is written once to every client; `read()` never blocks |
| `tcp-suite/client.c` | one socket, stdin | `connectf`, `readaw` | its blocking `write()` against the server's | lines are read; it returns when the server goes |
| `http-server/main.c` | `keep_running`; a heap cell per accept; a detached thread per client | `create`, main loop, `signal_handler`, `handler`, `build_http` | hand-off of the cell, signals between a test and a call, process exit under running threads | a connection has one owner; handlers finish; responses are sent |
| `parallel-runner/main.c` | `pids`, `pipes` | fork loop, wait loop | a full pipe against `waitpid`; failed forks; table bounds | terminates; every child printed once under its index |
| `mini-pipeline/main.c` | one pipe, two children | `run` | who still holds which end of the pipe | end of file exactly when cmd1 is done; `run` returns |
| `packet-sniffer/main.c` | `promisc_interfaces`, the capture file and stdio's buffer, `keep_running` | `set_promisc`, capture loop, rotation, `unset_promisc`, `signal_handler` | a crash between any two writes; writes that fail unseen; interfaces that repeat, fail or vanish; a signal against a restarted `recvfrom` | the file is a pcap file at all times; frames are on disk; promiscuous mode is undone |
| `port-scanner/main.c` | the range, the listener's raw socket | `local_ipget`, `syn_scan`, `build_tcph`, `checksum`, `listen_synacks`, `process` | two threads joined only by sleeps; packets lost, late, repeated, foreign; 16-bit arithmetic | SYNs are valid; only open ports are printed, and all that were reached |
| `ipc/mini-shell/main.c` | line and token buffers, stdin with stdio's read-ahead, the child | `readline`, `tokenize`, `execute`, built-ins, `bin_exec` | two buffers that grow; a position in stdin shared with children; ^C, stops and end of file; stale `errno` | lines run once and in order; the prompt comes back, and then nothing of the command is left |
| `ipc/io-redirector/main.c` | descriptors, the file | `parse_op`, `run` | which descriptor `open` returns; one call of several failing | the command runs with exactly one descriptor replaced; old content is kept |
| `udp-messenger/main.c` | one connected datagram socket | `connectf`, `sendf` | an error of an earlier datagram is reported by a later `write` | silence means that everything was sent |
| `tools/hexdump/main.c` | options, position in the file | `parse_arguments`, `hexdump`, `print_data` | padding of a short last line inside a group; output into the input | every byte once, columns aligned |
| `tools/text-readability/main.c` | three counters and a state | `parser`, `print` | a state read before it is set; spaces at either end | the words are counted |
| `graphics/greyscale-filter/main.c` | headers, rows | one pass in `main` | padding; where the pixels begin | every pixel is the average of the input's |
| `cat` | one loop | | nothing | not modelled |

The two ends of the tcp-suite meet over a TCP connection and are composed in
`TcpChat`; mini-shell runs mini-pipeline and io-redirector as commands in
`ShellSession`; the mTLS server and client are
modelled apart, each against any peer that keeps to TCP and TLS.  All servers are
one process, and everything outside it (kernel, OpenSSL, peers, the person at
stdin, the commands run by `sh -c`) is an actor of its own in the next-state
relation.

## 2. Modules

| module | models | checked with |
|---|---|---|
| `MtlsServer` | `mtls-chat/server.c` | `MCMtlsServer`: `MtlsServerSafety.cfg`, `MtlsServerLive.cfg`, `MtlsServerOrphan.cfg` |
| `MtlsServerProofs` | theorems about `MtlsServer` | TLAPS |
| `MtlsClient` | `mtls-chat/client.c` | `MtlsClient.cfg` |
| `Broadcast` | abstract: what a chat server promises its clients | as a property of `TcpServer` |
| `TcpServer` | `tcp-suite/server.c` | `MCTcpServer`: `TcpServer.cfg` |
| `TcpServerProofs` | theorems about `TcpServer` and `TcpChat`, the refinement of `Broadcast` included | TLAPS |
| `TcpChat` | `TcpServer` with `tcp-suite/client.c` as its peers | `TcpChat.cfg` |
| `HttpServer` | `http-server/main.c` | `MCHttpServer`: `HttpServer.cfg` |
| `HttpServerProofs` | theorems about `HttpServer` | TLAPS |
| `ParallelRunner` | `parallel-runner/main.c` | `ParallelRunner.cfg` |
| `ParallelRunnerProofs` | theorems about `ParallelRunner` | TLAPS |
| `MiniShell` | `mini-shell/main.c` | through `ShellSession` |
| `MiniPipeline` | `mini-pipeline/main.c` | through `ShellSession` |
| `IoRedirector` | `io-redirector/main.c` | through `ShellSession` |
| `ShellSession` | a session of `MiniShell` that runs the other two | `MCShellSession`: `ShellSession.cfg` |
| `ShellProofs` | theorems about the four modules above | TLAPS |
| `Hexdump` | `tools/hexdump/main.c` | `MCTools`: `Tools.cfg` |
| `Greyscale` | `greyscale-filter/main.c` | `MCTools` |
| `Readability` | `tools/text-readability/main.c` | `MCTools` |
| `UdpMessenger` | `udp-messenger/main.c` | `MCTools` |
| `HttpUrl` | `get_filename` and `get_extension` of `http-server/main.c` | `MCTools` |
| `ToolsProofs` | theorems about `Hexdump`, `Greyscale`, `Readability`, `UdpMessenger`, `HttpUrl` | TLAPS |
| `PacketSniffer` | `packet-sniffer/main.c` | `MCPacketSniffer`: `PacketSniffer.cfg` |
| `PacketSnifferProofs` | theorems about `PacketSniffer` | TLAPS |
| `Checksum` | `checksum()` of `port-scanner/main.c` | through `PortScanner` |
| `PortScanner` | `port-scanner/main.c` | `MCPortScanner`: `PortScanner.cfg` |
| `PortScannerProofs` | theorems about `PortScanner` and `Checksum` | TLAPS |

The `MC` modules only add the symmetry of connections, used by safety runs, and the
values of constants that a `.cfg` cannot write; `MCTools` starts one of five programs,
which have nothing to do with each other, in each behaviour.  A definition commented
`Mutant:` is a plausible slip in the code next to it; no specification uses it.  Putting
it in place of the definition it follows makes a property fail (`mutants` in
`PROJECT.json` pairs them).

### Conventions

* `pc` is where the thread is, named after the next call.  An action is what the
  thread does from one call whose result depends on the outside to the next, so
  peers and other threads move in between.  A call that would block is an action
  that is not enabled.
* A connection stands for its descriptor.  `conn[c]` goes `new`, `queued` (in the
  accept queue), `open` (accepted), `closed`; in `MtlsServer` a closed one may be opened
  again, as the kernel gives a descriptor out again.
* The peer's end of a connection is `up`; `fin` (closed); `doomed` (closed, and
  something was sent to it, so a RST is under way); `reset` (aborted, not yet
  reported); `rst` (a send raises SIGPIPE).  SIGPIPE's default action is never
  changed by any of the programs, so such a send ends the process.
* `Faults` is the set of calls that may fail in an instance; an action for a
  failing call has its name in the guard.

### MtlsServer

`fds`, `ssls`, `nfds`, `i`, `out_index` are the C variables; `revents` is the set of
slots with POLLIN.  `freed` marks slots whose pointer in `ssls` dangles:
`tls_accept_function` frees the object and leaves the pointer, `monitor` clears it.  A
handshake is two flights of the peer, and `SSL_accept` is split between them.  A record
is a line and the range of its bytes.  `SSL_write` models OpenSSL's rule for a record
that a full socket left pending: the next call takes its own line for a repetition of
it.  A shorter line fails the session (`broken`); an equal or longer one sends the
pending record and then only the bytes of the new line that lie beyond it (`Rest`).  The
length of a line is what `read` returned, 1 to `TLS_RECORD_SIZE`.  `SSL_read` takes two
segments for a record, so half a record is a state.  A failed `accept`, a full table, a
failed handshake and end of file on stdin all `continue`, that is, go straight to
`poll`.  A failing `poll()` and `fcntl()` are not modelled (the code tests neither
usefully: `poll`'s -1 leads to another `poll`).

### MtlsClient

`connect` and `SSL_connect` are the two blocking calls of `tcp_tls_connect`; the second
is enabled only when the server has answered or left, which it need not do.  `nonblock`
is set after it; while it is false `SSL_read` with nothing to return is not enabled.
The first record is the session ticket, consumed without a result.  A full socket leaves
a record pending (`wpend`), and the next line is taken for its repetition, as in the
server.  The callback that prints the ticket is left out.

### TcpServer, Broadcast, TcpChat

`revents` of the client slots starts with any subset of `Garbage`, all of them in the
runs: `pollt` is an uninitialised local array, and `accept` stores a descriptor without
writing `revents`.  `polled`, a history variable, is the number of slots the last `poll`
covered.  `bind_fails` leaves `nfds` (any of `Indeterminate`, values beyond the array
included) and `pollt` arbitrary, as the `goto` over their initialisation does, and
`cleanup` with an `nfds` past the array may end the process; `Stray` is a descriptor
number found there.  `read_closes` after a reset may end the process, since the code
hands -1 to `fwrite`.

`Broadcast` promises that a line read from stdin is told to exactly the members
at that moment, once, before anything else happens to members or lines.  The
refinement mapping: members are the connections in slots, `said` is the number of
lines read, `owed` are the slots the writing loop has still to visit, `heard` is
the history of `write` calls.

`TcpChat` replaces the free peers of `TcpServer` by `client.c`: `connectf`, the
poll, the read of the socket and of stdin, and the blocking write.  `Deadlocked` is
the state in which server and client each wait in `write()` for the other to read.
Every step of it is one of `TcpServer`'s or leaves the server alone (`ClientsArePeers`);
therefore `TcpServer` lets a peer read what it was sent after the server has ended too.

### HttpServer

One cell of the heap per iteration of main, one thread per connection.  The response is
a number of chunks, and a thread inside `send` that has queued some of them is
`sending`: a RST then makes `send` return what it has sent, where one that has sent
nothing raises SIGPIPE.  A `malloc` whose result nobody checks ends the process when it
fails.  A request is `part` until it matches the handler's expression; the single `recv`
may see either.  SIGINT goes to main. The path is decoded in `HttpUrl`, byte by byte.  A
client writes a name there, one byte at a time, each of them plain or as an escape (a
space or `%` only as an escape), or it sends an arbitrary path; `places` remembers where
the code of each byte begins.  What `sscanf` makes of two characters that are not digits
(nothing, or a sign, white space or `0x` it skips) is left open as `Unknown`.  The bound
of `extension[32]`, `get_mime` and the regular expression are left out.

### ParallelRunner, MiniPipeline

Bytes are counted, not named.  Which process holds which end of a pipe is state,
because end of file and SIGPIPE depend on nothing else.  A failed `fork()` gives
the pid -1, which `waitpid` takes, and returns, with another meaning.  `pipe()` in
the parallel runner and `exec`, `dup2` everywhere succeed; a command does not
leave a background process behind that keeps its pipe open.

### MiniShell, IoRedirector, ShellSession

stdin is a script of lines; a line is its first word, its length and its number of
words.  stdio reads ahead: `filled` is the last line in its buffer, `next` the first
that `readline` has not returned, `offset` the kernel's position.  A terminal gives
one line per `read`, a pipe any number, a file all.  After `execvp` fails the child
calls `exit`, and glibc's `exit` seeks stdin back over what is unread; parent and
child share the position, so a shell that reads from a file reads lines again
(`child_execvp`).  The position is counted in lines: with lines of different length
the second such seek can end inside a line, which is not represented.  Output is not
modelled.

A child goes from `forked` (it ignores SIGINT like its parent) over `default` to
`running`; `child_stops` is a stop or continue from elsewhere, which `waitpid` reports
and the loop passes over.  A program that is run does not read the shell's stdin.
`ShellSession` lets the child become mini-pipeline or io-redirector, whose steps are
enabled while it runs, and sends ^C to all processes of the command at once.

In `IoRedirector` a file is the old content and what the command added, and the
descriptors are a function, so that `open` returns the lowest free one.

### Hexdump, Greyscale, Readability, UdpMessenger

A byte of a dumped file is its position, a line of the dump its offset, its bytes and
the column at which the ASCII part begins; `print_data` computes that column as the code
does, byte by byte and then over the padding.  The offset has at least `OffsetDigits`
digits (8 in the code) and more when it needs more (`Digits`).  The bitmap's bytes are a
fixed function of their position under which pixels differ; memory that `fread` did not
fill is `Heap`.  Text is a sequence of character classes, and the `state` that `parser`
does not initialise starts with any value; the three counters are floats and stop at
`FloatMax` (`Incr`).  An ICMP error makes one `write` fail, whichever comes next.

### PacketSniffer

A frame in the file is two items, its header and its bytes, carrying the frame's
number; `buf` is what stdio holds back and `disk` what a crash leaves.  `fwrite`
may pass on any part of `buf`; `fflush` and `fclose` pass on all.  In each of them the
write may fail: some of what stdio held reaches the file, the rest is dropped, and a
`Cut` marks the place.  The code looks at none of these results and goes on.  An `ioctl` of
`unset_promisc` may fail as those of `set_promisc` may (`refused` remembers for which
interfaces), and a `strdup` that fails leaves NULL among the names.  `Clock` makes the
rotation due at any time.  A write past `promisc_interfaces` is the state
`undefined`.  A frame of an interface that has gone may be written or not, since
`if_indextoname` then leaves `ifname` alone.  Frames that are empty or too long are
dropped, which also stands for those past the bound `MaxFrames`.

### PortScanner, Checksum

A TCP header is the ten words `checksum` loads, so byte order and carries are kept:
`htons` swaps, sums are folded as in the code.  The target drops a header whose
one's-complement sum is wrong.  `Patient` states the timing the two sleeps rely on:
the listener has its socket (or has failed) 0.1 s after `pthread_create`, and 2 s
after the last SYN nothing is under way or queued.  Packets with IP options are left
out.  An `EINTR` in `read` only reads again, so it has no action.

## 3. Runs that pass

| run | instance | properties |
|---|---|---|
| `mtls_server_safety` | three connections that come back, two slots, two lines of one or two bytes, every call failing, sockets full at will, end of file on stdin | `SlotsHoldOpenConns`: no descriptor leaks, is shared or used after close; `SslMatchesFd`: SSL objects in use are live and their slot's own; `NfdsInBounds`; `LinesInOrder`: no line twice or after a later one, each from its start or from where the record before it ended |
| `mtls_server_live` | three connections that come back, two slots, `accept` failing, full tables and failed handshakes at will, stdin silent | `PolledClientsServed`: a client poll() covers is read in the end |
| `tcp_server` | three connections, two slots, any `revents` at the start, any `nfds` after a failed `bind`, failing calls, end of file on stdin | `ClientsCovered`: every used slot is below `nfds` and holds an open connection of its own; `ReadNeverBlocks`; `ImplementsBroadcast` |
| `tcp_chat` | server and two clients, two lines in each direction over connections that hold one, `accept` failing, any `revents` at the start, end of file on the server's stdin | `ClientsServed`: what a client sends is read; `LinesReachClients`; `ClientsReturn`; `WaitsAreAnswered`: nobody waits for somebody who has left; `ClientsArePeers`: the composition implements `TcpServer` |
| `parallel_runner` | three commands of up to four bytes, pipes of three, a buffer of two (in the code, too, the buffer is smaller than the pipe), `fork` failing | `EveryChildPrinted`: once and under its own index, whole or as much as the buffer takes; `Terminates` |
| `shell_session` | all scripts of up to two lines out of nine, from a terminal, a pipe and a file, lines at and past both buffers' limits, three bytes through a pipe of two, every call failing, ^C, stops | `LineFits`; `LinesOnce`: lines run once and in order; `PromptMeansQuiet`: at the prompt no process of the last command is left; `PromptReturns`; `EofMeansComplete`: cmd2 sees end of file only after all of cmd1's output; `Redirected`; `FileKept` |
| `tools` | files of up to 17 bytes in lines of 3, 5 and 16 with offsets of one and two digits, bitmaps of up to 4 by 3 pixels, texts of up to four characters, ten datagrams, names of up to four bytes | `HexAligned`; `HexComplete`; `GreyImage`; `WordsCounted`; `AllSentOrTold`; `UrlDecoded` |
| `mtls_client` | an unanswered handshake, a ticket, half a record, full sockets, end of file on stdin | `StdinServed`; `ServerHeard` |
| `http_server` | two clients, all failures, SIGINT | `ConnsOwnedOnce`; `HandlersFinish`; `SigintStops` |
| `packet_sniffer` | `lo` and another interface, up to three names for two places, two frames, all failures, crash | `FileIsPcap`; `CapturedIsOnDisk`; `PromiscRestored`; `StopsOnSignal` |
| `port_scanner` | ranges at 1 and at 65535 and invalid ones, loss, repetition, a foreign packet, all failures | `OnlyOpenReported`; `SynsValid`; `ScanComplete` |

No run is spent on type invariants: those of the servers (`TypeCorrect`),
`ParallelRunner`, `PacketSniffer` and the shell's programs are part of the inductive
invariants of section 8 and proved with them; those of `MtlsClient` and `PortScanner`
document the variables.

What the properties excuse, and why:

* `PolledClientsServed` excuses a client that drops out of poll()'s range (see
  `mtls_server_orphan`) and a `poll_loop` that `continue`s early infinitely often
  (`Continues`: `accept` fails, the table is full, a handshake fails, stdin has ended;
  section 5).  The tcp-suite server never lowers `nfds` and does not `continue` at end of
  file.
* `LinesInOrder` allows lines that are lost or lack their beginning after a full socket.
* `ClientsServed` and `LinesReachClients` excuse the three ways in which the server does
  not go on (`ServerGoesOn`): `Deadlocked`, a `read` of a silent client on a `revents`
  nobody wrote, and an `accept` that fails for ever.  The run reaches the three, and
  they are the only ways to starve a client while everybody runs.
* `ClientsCovered` excuses the cleanup after a failed `bind()`.
* `LinesOnce` excuses a script in a file once a command was not found.
* `PromptReturns` speaks of lines with fewer than `STRTOK_BUF / sizeof(char *)` words (7
  in the code), and excuses a program that stays stopped.
* `Redirected` excuses a program started with the target descriptor closed.
* `HexAligned` compares lines whose offsets have no more digits than their field (10^8
  or 2^32 bytes in the code).
* `HexComplete` excuses output into the input file; `GreyImage` excuses files that end
  early and those whose pixels do not begin at byte 54; `UrlDecoded` speaks of the
  extension only where the client sent it unescaped.
* `WordsCounted` states exactly when the count is one too high, and that it stops at 2^24.
* `ReadNeverBlocks` speaks of reads after a successful `poll()`, and excuses the slot that
  was used for the first time in this iteration, which no `poll()` has covered (section 5).
* `Terminates` claims an end when every output fits its pipe; longer outputs occur
  in the run and are excused.
* `SigintStops` excuses main waiting in `accept()` with nobody queued.
* `HandlersFinish` excuses a client that stays and for ever leaves a full socket unread
  (a thread that is held up only for a while must close), and the end of the process.
* `StdinServed` speaks of lines once the handshake is over, and says that they reach
  `SSL_write`, which may leave them pending or fail.  `ServerHeard` holds until stdin ends.
* `FileIsPcap` speaks of the file up to the first write that failed, `CapturedIsOnDisk` of
  the frames whose own write did not fail, `PromiscRestored` of the interfaces whose own
  last reset did not.
* `ScanComplete` excuses ports one of whose packets was lost or not sent, and a
  listener that failed; it assumes `Patient`.

## 4. The run that shows a disagreement

It checks what the program's README says, and TLC answers with a behaviour of the
code that contradicts it.

| run | what happens |
|---|---|
| `mtls_server_orphan` | clients in slots 2 and 3; the one in 2 leaves, `nfds--` excludes slot 3, whose client is never read, written or cleaned up until another accept raises `nfds` |

## 5. Departures no run checks

These behaviours are in the models too (an action or a constant brings them about),
but no run of their own is spent on them; the hazards in `PROJECT.json` refer to this list.

* **mtls-chat server.**  The socket is non-blocking before `SSL_accept` (server.c:180),
  against the README's "set the socket to non blocking after the handshake succeeds":
  a valid client whose ClientHello or Finished is still under way is refused
  (`SSL_accept_no_hello`, `SSL_accept_fails`).  Two lines broadcast to a client that has
  left, before its end of stream is read, end the server by SIGPIPE (`pc = "killed"`).
  After end of file on stdin every iteration ends at the `continue` of line 148 and no
  client is read again; an `accept` that keeps failing, clients that keep knocking at a
  full table and handshakes that keep failing do the same through lines 130 and 137.  A
  client whose socket was full gets the next line without its beginning, or not at all,
  or loses its session (`SSL_write_full`, `Rest`, `SSL_write_fails`).
* **mtls-chat client.**  The same `continue` at client.c:137 stops it reading its socket.
  Lines typed while its socket is full are lost or cut in the same way.  A server that
  accepts the connection and says nothing keeps it in `SSL_connect` for ever.
* **tcp-suite server.**  A fresh client may be read in the iteration that accepted it, on
  a `revents` nobody wrote (`Garbage`), and the read then blocks the server (`ReadBlocks`).
  An `accept` that keeps failing starves the clients (server.c:66).
  With the table full the accepted descriptor is forgotten.  A failed `bind()` jumps to
  a cleanup that reads uninitialised variables, perhaps past the array (`bind_fails`,
  `cleanup`).  SIGPIPE as above.
  Server and client both use a blocking `write()`: when a connection is full in both
  directions each waits for the other for ever, and the server with it (`Deadlocked`,
  server.c:86 and client.c:79, against the README's "Data received from any client is
  written to stdout").
* **parallel-runner.**  `waitpid` comes before `read`, so a command that writes more than
  a pipe holds, and main, wait for each other.  With more commands than `MAX` the scan
  runs past its tables (`undefined`).  Children that ended before the wait come out in
  any order.  Output beyond one buffer is dropped (`BUFFER` below `MaxOut`).
* **http-server.**  main's return, and a SIGPIPE in one handler, end the process while
  other handlers have responses to send; so does an unchecked `malloc` that fails.
  SIGINT between the loop's test and `accept()` goes unnoticed until the next client.
* **packet-sniffer.**  SIGTERM waits for the next frame of any interface.  Interfaces past
  `MAX_IF` overrun the array.  SIGKILL leaves promiscuous mode on, and a normal return
  turns it off also where another program had turned it on before.  A failed `fopen`
  returns 0, so a service manager does not take it for a failure.  A write that fails
  (a full disk) is not noticed: the rest of the record is missing, and the records
  behind it are out of step for a reader of the file.  An `ioctl` that fails in cleanup
  leaves the interface promiscuous.  A `strdup` that fails leaves a NULL that
  `unset_promisc` reads (`killed`).
* **port-scanner.**  Without `Patient`, replies that come before the listener's socket
  or after the last sleep are lost.  A listener that cannot open its socket, or whose
  `read` fails, leaves main scanning with nobody to print; it ends with "Finished" and 0.
  A repeated reply is printed again.

* **mini-shell.**  `malloc(STRTOK_BUF)` reserves 64 bytes, 8 pointers, and the array
  grows after 64 tokens: a line of eight words is written past it (`undefined`).  End of
  file is an empty line, so a shell whose stdin has ended prompts for ever.  A command
  that is not found in a script read from a file makes the shell run the lines after it
  again.  `pwd` in a directory whose name exceeds the first buffer never sees `errno`
  change and grows its buffer until `realloc` fails and the shell exits.  A ^C between
  `fork` and `signal(SIGINT, SIG_DFL)` is lost.
* **io-redirector.**  Started with the target descriptor closed, `open` returns the
  target itself, and the `close` after `dup2` closes it.  The program returns 0 whether
  or not the child could be started.
* **hexdump.**  `-o` with the name of the input empties it before it is read.  From offset
  10^8 (decimal) or 2^32 the offset has more than eight digits and the columns move.
* **greyscale-filter.**  The copied `bfOffBits` is wrong when the input has a gap between
  its headers and its pixels.  A file that ends early gives pixels from uninitialised
  memory.  When `greyscale.bmp` cannot be created `fclose(NULL)` is called (`undefined`).
* **text-readability.**  The first word is counted twice when the text begins with a
  space or when `state` happens to be `OUT_WORD`; from 2^24 on nothing is counted any
  more.  `ftell` on what cannot be sought gives
  a size of -1 (`undefined`).
* **udp-messenger.**  An error reported to the newline's `write` is swallowed.  A failure
  is printed and the program returns 0.
* **http-server paths.**  The extension is taken before decoding, so an escape in it changes
  the content type.

## 6. Bounds

Two or three connections for two slots make the table empty, half full with a hole at
either side, full, and over-full.  One to three lines and up to two segments (one
record) per peer are enough for a pending record to be followed by another line and for
a disconnect to fall before, inside and after a record.  Lines of one or two bytes
(`TLS_RECORD_SIZE` = 2) are shorter than, as long as and longer than what is pending.
`mtls_server_live` has no lines on stdin: a broadcast does not block, and an ended stdin
is one of the excused `continue`s.  `Indeterminate` has values below, inside, just past
and far past the array; in `tcp_chat`, where `bind` does not fail, it is not used.
`SendBuffer`, `RecvBuffer` and pipes hold one or two units, so that full is reached at
once.  The sniffer's command lines fill its two places, with one name or two, and
overrun them; two frames give a complete one before a partial one, in one file or on both sides of a
rotation.  The scanner's ranges hold one or two ports next to each limit, and `Rands`
contains a word that makes the first fold of a sum carry.  Deadlock checking is off
wherever bounded input can be used up or the process can end; `shell_session` keeps it
on, with stuttering at the end.  There `BUFFER_SIZE` is 2 and lines have 1 to 4
characters, so that they end before, at and after the point where the buffer grows;
`STRTOK_BUF` is four pointers, and lines have up to four words.  Two lines let the
second meet what the first left behind: a moved position, a changed file, a finished
pipeline.  In the tcp-suite stdin ends, if at all, behind the last of `MaxLines` lines.
In `tcp_chat` only one of the clients is typed at (`Typists`), the other listens and
leaves with the server.  `Tools.cfg` has widths with every padding of a bitmap row, and
a last line of a dump that ends before, at and inside a group; `OffsetDigits` = 1 and 17
bytes give offsets beside and beyond the field in both bases, and `FloatMax` = 2 a
counter that stops.

## 7. Fairness

The scheduler is assumed: weak fairness of each thread or process as a whole.  Peers,
the person at stdin and signals owe nothing; a peer need not even answer a handshake.
That a call does not fail for ever is never assumed of the environment: where it matters
(`accept`) it is a hypothesis of the property itself.  In `TcpChat` the clients are
programs, and the scheduler runs them too; that replaces any assumption that peers
read.  In `ShellSession` a program ends although it may be stopped and continued on the
way (strong fairness), a stopped one need not be continued, and a pipeline's cmd2 need
only end once it has seen the end of its input.  In `ParallelRunner` a command goes on
writing while its pipe has room.  In `PacketSniffer` a frame arrives on `lo` now and
then: the socket takes all interfaces, and without any frame the program does not stop;
a blocked `recvfrom` is not assumed to fail.  `PortScanner` states no fairness, only
safety.

## 8. Proofs

Every invariant a run checks is proved by TLAPS for every value of the constants; so are
the action property `LinesOnce`, the refinement of `Broadcast` by `TcpServer` and that
of `TcpServer` by `TcpChat`, and, for two programs whose termination only TLC checks,
that they never come to a standstill.  The proofs use the modules' own assumptions on
the constants (`ConstantsAssumption` and its relatives: sizes are naturals, sets of
names are what they are called), which TLC evaluates on every run.  Two theorems have a
further hypothesis, stated in the theorem: `ScanFindsAll` has `Patient` and `NeverStuck`
has `N <= MAX` and outputs that fit their pipes; section 5 says what happens without
them, and the other theorems of their modules do without.  Each proof module defines an
inductive invariant (`IInv`, or one per program), shows that it holds initially and is
kept by every action, and derives the properties from it.

**`MtlsServerProofs`**: `TypeOK`, `SlotsHoldOpenConns`, `SslMatchesFd`, `NfdsInBounds`,
`LinesInOrder`.  None of the first four is inductive alone.  `NfdsInBounds` is the
interesting one: `nfds` is decremented on every disconnect and failed handshake, and
stays above 1 only because each of those happens to a slot below `nfds`, which is at
least 2.  For a disconnect that is the loop's own test; for a handshake it is the second
conjunct of `NfdsInBounds`, that the slot just filled lies below `nfds`.  `SslMatchesFd`
needs `SlotsHoldOpenConns`, so that closing one slot's connection does not close
another's.  `IInv` adds `AcceptingHeld` (the slot of a running handshake holds a
descriptor) and `LineHeld` (broadcast has a line).  `LinesInOrder` has an invariant of
its own on top, `LInv`: nobody has been sent, or has pending in OpenSSL, a line later than
the last one read; the slots `broadcast` has not visited have not been sent the current
one; and a pending record is later than all that were sent and continues the last of
them or starts a line.  A pending record goes out before the line that pushed it, and the
rest of that line begins where it ends, which is why the order survives `SSL_write`'s
unread failures.

**`TcpServerProofs`**: `TypeOK`, `ClientsCovered`, `ReadNeverBlocks`, and `Spec =>
ImplementsBroadcast`.  `SlotsHeld` is `ClientsCovered` with the exact exception of the
array that a failed `bind()` leaves unfilled; `TypeOK` bounds `nfds` with the same
exception (`Filled`).  For `ReadNeverBlocks`, what `poll()` reported must still hold
when the loop gets there: `PolledFresh` says so for the slots not yet visited and below
`polled`, and has to say as well that such a slot with POLLIN is in use when `accept`
looks for a free one, or a new client could inherit the bit.  The refinement goes action
by action: the read of stdin is `Broadcast`'s say, each visit of the writing loop a
tell, accept and disconnect a join and a leave, everything else a stutter.  `LineHeld`
and `LoopStarts` give that the loop visits all members before anything else happens;
`PendingUnheard` that a client joins with nothing heard.

About `TcpChat` the module proves `ClientsArePeers` and `WaitsAreAnswered`; with the first,
the theorems about the server among any peers hold among its own clients
(`ChatBroadcasts`).  `ClientInv` ties the two programs together.  A client inside its loop
has a connection it has not closed (`InsideIsUp`), which makes each of its steps one a
peer may take; conversely an unclosed connection of a running server has a client
inside its loop (`UpIsInside`), which is why a `write()` of the server blocks only on
somebody who is there.  Nothing is queued for a peer that has closed (`ClosedIsEmpty`),
and what a client's `poll()` reported is still there when it reads (`SocketFresh`): the
server never takes back what it wrote (`ServerOnConnection`).

**`HttpServerProofs`**: `ConnsOwnedOnce`.  `CellsHeld` follows the heap cell from main
to the thread (allocated until read, never shared); `FdsValid` says that what is in it
is a descriptor; `OwnedOnce` that an open connection is held by main before
`pthread_create` or by one thread after it.  The proof needs all three together: a
thread reads its descriptor from a cell, so one cell used twice would be one connection
owned twice.

**`ParallelRunnerProofs`**: `EveryChildPrinted`.  The scan of `pids` finds a child at
its own index because pids are distinct and -1 and 0 belong to none (`PidsDistinct`).
main waits N times, whatever the number of children that were started; `WaitsCounted`
shows that this reaps all of them: either none is left, or as many have been reaped as
waits were made.  `NeverStuck` is the safety half of `Terminates`, for any number of
commands: with outputs that fit, main and the commands that still run never all wait for
each other, and main never looks up a pid it does not know.  A command with something
left to write has room (`OutputFits`); the pipe main reads has no writer left
(`WritersKnown`: main has closed its copy, the child has ended); and a wait that finds
no child left finds the -1 of a failed `fork`, since main has waited at least as often
as it has reaped (`WaitsEnough`) and every entry of `pids` was written (`PidsWritten`).

**`PacketSnifferProofs`**: `FileIsPcap`, `CapturedIsOnDisk`, `PromiscRestored`.  The file is
followed as `written`, what is on disk and what stdio holds.  As far as no write has
failed, its frames alternate header and bytes with growing numbers (`PcapPrefix`,
`NumbersBounded`), and between frames it ends with a whole record (`Aligned`).  Whatever
a call of stdio does, `written` is extended by everything it was given or ends in a `Cut`
of the frame being written (`FwriteOutcome` and its like), so the part before the first
cut never changes.  `Progress` says that the record being written is the last one or has
been cut, whence `fflush` leaves it on disk or marks it lost.  `PromiscKept` says that the
names from index `i` on cover what cleanup has still to undo, unless there is a NULL among
them, which cleanup does not get past, or the reset has been refused.

**`PortScannerProofs`**: `OnlyOpenReported`, `SynsValid`, `ScanComplete`, and two folds are
enough (`ChecksumCancels`): for every sum below 2^32 the checksum has 16 bits and makes the
total a multiple of 65535.  With `hi` and `lo` the halves of the sum, the total is
65535 * (hi + 1) when hi + lo does not carry and 65535 * (hi + 2) when it does.  A
segment has sixteen words with its pseudo header, so `Sum` is unfolded sixteen times and no
induction is needed.  That swapping bytes twice is the identity (`HtonsTwice`) brings
the answer back to its port.  `SentAccounted` is the argument for completeness: an open
port whose SYN was sent is printed or lost, or one of its packets is on the way.

**`ShellProofs`**: `LineFits`, `PromptMeansQuiet`, `EofMeansComplete`, `Redirected`,
`FileKept`, the type invariants and `LinesOnce`.  Each program has its own invariant.
The shell's says that stdio's position is where its buffer ends unless a child has moved
it (`ReadAhead`, which is what `LinesOnce` rests on), and that a child exists only while
it is waited for.  The pipeline's relates how far `run` has come to the children
(`PipeChildren`) and to who holds which end (`PipeEnds`): cmd1 holds the writing end
until it has written everything, or can no longer be heard.  The redirector's follows
the descriptors from `fork` over `open` to `dup2`, with `open` returning the lowest free
one (`FdOpened`). `NoOrphans` joins them: a program the shell does not run has no child
that runs, so a prompt means quiet.  `PipelineNeverStuck` says that `run` and its two
commands never all wait for each other: no process holds an end it has no use for
(`EndsClosed`, the converse of `PipeEnds`), so a full pipe has cmd2 as its reader and an
empty one with a writer has cmd1.

**`ToolsProofs`**: `AllSentOrTold`, `WordsCounted`, `HexAligned`, `HexComplete`,
`GreyImage`, `UrlDecoded`.  For hexdump, the bytes printed and the padding make the same
column because the separators after the printed cells and those of the padding are
disjoint and together are those of a whole line (`DataWidth`), for every width and
grouping, and every offset that fits has the same field; for completeness, what has been
read is on the lines and what is left follows (`DumpedSoFar`).  For the bitmap, rows lie
a stride apart in both files; a filtered pixel of row r is found at r strides whatever
the padding (`RowsRead`, `RowsWritten`).  The words are counted by their beginnings, one
character at a time (`OneMoreWord`), until the float stops.  For `UrlDecoded` the path
is the codes of the name's bytes, one behind the other (`PathIsName`), and between two
turns of its loop `get_filename` stands where a byte's code begins, with the bytes
before it decoded (`DecodedSoFar`); `CodeRead` reads back every way to write a byte.
The extension needs that the last point is found (`LastPointFound`). `SelectLastInSeq`
is a maximum, whose existence is a least-number principle (`LeastNatural`) obtained from
the well-foundedness of < on the naturals, without the library's induction rules.

Only model-checked is liveness (`PolledClientsServed`, `ClientsServed`,
`LinesReachClients`, `ClientsReturn`, `Terminates`, `PromptReturns`, `StdinServed`,
`ServerHeard`, `HandlersFinish`, `SigintStops`, `StopsOnSignal`): fairness and ENABLED
are beyond the prover.  `NeverStuck`, `PipelineNeverStuck` and `WaitsAreAnswered` are
the parts of `Terminates`, `PromptReturns` and `LinesReachClients` that are within its
reach.

## 9. Not modelled, and the plan

Not modelled for good: `mtls-chat/main.c` (argument dispatch), `cat` (a copy loop),
the installation scripts and `scrape.py` (I/O only).

What is left: safety facts of `MtlsClient` that its liveness rests on; a composition of the
mTLS server and client like `TcpChat`; action properties of the servers.
