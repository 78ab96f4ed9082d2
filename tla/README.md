# hush, specified in TLA+

hush is a remote shell over QUIC: a client (`src/hush`), a server
(`src/hush-server`) and the library both are built on (`src/hush-core`).  This
directory holds TLA+ modules for the parts of hush whose correctness depends on
order, failure or concurrency, the TLC configurations that check them on small
instances, and TLAPS proofs of the most important safety properties for
instances of any size.

To check a run: `tlc -config <run>.cfg <module>`, with the pairs of
`PROJECT.json` ("runs").  To check the proofs: `tlapm <module>Proofs.tla`.

## 1. Inventory

| part | state it keeps | operations | what is hard |
|---|---|---|---|
| stateless reset key (`endpoint.rs`) | a file in the data directory | load or create at start | concurrent starts, crash, power loss |
| session, server side (`hush-core/session.rs`, `net.rs`, `os.rs`) | the child, copy tasks, signal and resize channels | start, copy, forward signals, wait, terminate, drain, report | client loss at any step, background processes, timeouts, order of streams |
| session, client side (`hush/session.rs`, `os.rs`) | raw mode, copy tasks, watchdog | open, copy, escape, forward signals, drain, exit | status against output, SIGTERM, `process::exit` |
| server runtime (`runtime.rs`, `server.rs`) | connection slots, tasks, listeners, followers | accept, refuse, authenticate, serve, shut down | slots through every way out of a task |
| forwarding (`forwarding.rs`, `agent.rs`, `net.rs`) | two semaphores, listeners, bridges | accept, bridge, abort | permits taken before accept, half-open bridges |
| roaming (`roam.rs`, `netmon.rs`) | `PathWatch`, the current socket | tick, complaint, network change | stale complaints, ignored events, backoff |
| resizes and side streams (`hush-core/session.rs`, `hush/session.rs`, `hush/os.rs`) | two bounded channels, streams in flight | change, send, accept, apply | merged signals, reordered streams, full channels |
| connected sockets (`fastsock.rs`, `nwsock.rs`) | per-client connected UDP sockets | adopt, open, send, fall back, drop | opened on one thread and polled on another, writable late, dead while the connection lives |
| host identity, known hosts (`tls.rs`) | certificate and key files, known_hosts, two locks | load or create, trust on first use | crash between two files, stale snapshots |
| authentication (`auth.rs`, `server.rs`) | none across connections | choose identity, authorize | many fallbacks and combinations of settings |
| agent forwarding and HostSigner (`agent.rs`) | the socket's directory, one agent connection per program | make, bind, bridge, remove, sign | requests that wait before the binding, encodings |
| file copy (`filecopy.rs`, `cp.rs`) | worker process, archive streams | upload, download, relay | failure in the middle of an archive |
| connecting (`hush/net.rs`) | attempts in flight | staggered connects | last failure against late success |
| terminal filters (`hush/session.rs`) | held and partial bytes | push, finish | input cut at any byte |
| configuration (`config.rs`) | none | match hosts, take first values | globs, negations, order of blocks |
| framing, command lines, logging | none | parsing | sequential text processing |

How they interact.  The server's accept loop gives each connection a slot and a
task; the task authenticates the peer and loops over streams, starting
remote-forward listeners, awaiting file copies, and ending with the one session.
The session shares the connection with tasks that accept further streams: local
forwards, signals and resizes.  Client and server talk through QUIC streams,
which are reliable and ordered one by one and unordered between each other:
that is where most of the hazards come from.  Roaming and the connected sockets
work below the connection and must not be noticed above it.

`PROJECT.json` lists the hazards at their lines, with the properties that cover
them.

## 2. Modules

### ResetKey, KeyStore, ResetKeyProofs

`ResetKey` is `load_or_create_stateless_reset_key`, one action per system call
that another process can observe: `ReadPath`, `CreateTmp`, `WriteTmp`, `SyncTmp`,
`LinkTmp`, `UnlinkTmp`, `SyncDir`, `Cleanup`.  Any call may fail (`IoError`), a
process may be killed anywhere, the operator may delete the key and the machine
may lose power, after which contents that were not synced are torn and entries
that were not synced may be gone.  A "generation" (`gen`) ends with each deletion
or power loss; servers need to agree only within one.

`KeyStore` is what the function promises: a register that is empty or holds a
key, installed in one step and only when it is empty, adopted by whoever reads
it.  `ImplementsStore` says that every behaviour of `ResetKey` is one of
`KeyStore`, with the link as the moment of installation.

### Session, SessionProofs

One session on an established connection: the sequential code of both sides
(`cli`, `srv`), the copy tasks, the child and a background process of it, and the
network.  Output is counted in chunks that move through made, sent, arrived and
shown.  Time is abstract: a timeout may fire whenever its timer runs, which
covers every real timing.  `mode` selects `run_pty` or `run_pipes` on both sides.

### Server, ServerProofs

The accept loop and, for each connection, two things that the code keeps apart:
the QUIC connection (`conn`) and the task that serves it (`task`).  The task owns
the permit of `connection_slots`; `follow_peer` owns a handle on the connection.
Every way a task can end goes through `Return`, as every way out of the spawned
block drops `_permit`.

### Forwarding, ForwardingProofs

The server's forwarding on one connection: which permit is taken where, held by
whom and returned when.  A local or agent peer without a permit is dropped; a
remote listener waits for its permit first and then holds it while it has nothing
to accept.  A bridge is two copy directions and returns its permit after both.

### Roam, RoamProofs

`watch_path` with its three events and `PathWatch`.  Instants are ages counted up
to `MAX_HOP_BACKOFF`, which is the longest duration the code compares one with;
quinn's frame counters are reduced to "changed since the last look".  The socket
in use works, is stale (packets vanish without an error) or is dead (sending
fails, so it complains).

### FileCopy, FileCopyProofs

One run of `hcp` with the servers it talks to.  An archive goes through a chain
of nodes: the one that archives, the server in front of a source worker, the
client of a relay, the server in front of a destination worker, and the one that
extracts; `Up` gives the chain of each kind of copy.  The archive is counted in
units, two for each entry so that a stream can end inside one, and two for its
end.  A node ends its output by finishing or resetting it, and stops its input by
going away (`cut`); dropping a `SendStream` finishes it, which is what a handler
that returns an error does.  Planning is one action for each request
(`PlanDest`, `PlanSource`), refusals included.  What the decompressor makes of a
stream that is cut is external: it reports an error.

### AtomicFile, HostIdentity, KnownHosts, HostTrust, HostTrustProofs

`AtomicFile` is what `write_private_file_atomic` does to a file that can be seen
from outside: the rename, the sync of the directory, and what a power loss leaves
between them.  `HostIdentity` is `load_or_create_host_cert` for several servers
on one data directory: the lock, the reads, the decision between serving,
refusing and generating, and the two files written in turn.  `KnownHosts` is the
check of a certificate by several clients with one `known_hosts`.  `HostTrust`
puts both together: the host "srv" presents the pair of a running server, so that
what the servers do to their files is judged by what the clients are told.
`served` (a pair whose writer came up) and `loose` (a pair adopted before it was
on disk) are history and influence nothing.

### EscapeFilter, AltScreen (run together in MCClient, proofs in SessionProofs)

The two byte automata of the client's terminal.  `EscapeFilter` is the stdin pump
and its filter: `Read` cuts what was typed anywhere, `Push` handles one key per
step and forwards, holds or carries over its bytes, `StdinEof` flushes.  The
reference, `EscapeIffTyped`, reads the whole input at once.  A byte is named for
what the code tells apart, and a kitty parameter list is one byte.  `AltScreen` is
`quic_to_terminal` with its tracker; the reference is the screen a terminal is on
after the bytes it was shown, and the cleanup may run between any two steps.  A C0
control directly after ESC ends the tracker's sequence, as in the code; terminals
that go on after it are not what the tracker follows.

### SshConfig, Identity, Authorization, Login, LoginProofs (run in MCClient)

From a command line to a served connection.  `SshConfig` is `parse_ssh_config`:
globs with their backtracking, negated patterns, the first value of each setting,
forwards, errors.  `Identity` is the choice of the key among agents and files,
`Authorization` the server's decision about it, with its settings from the command
line before those of `config.toml`.  `Login` runs them in order for a `world`: the
command line, the config file, the user's machine and the server.  `ConfigFirst`
compares the parser with a definition that looks at the whole file, in which a glob
matches if its `*` can be stretched to fit (`Stretches`).  The loop of
`host_pattern_matches` is the iteration of one turn (`MatchTurn`), at most `MostTurns`
times.  An
`IdentityAgent SSH_AUTH_SOCK` and a port that does not parse leave room for a later
value; `ConfigFirst` says so because the code does.

### CopyPlan (run in MCClient, theorems in FileCopyProofs)

Where `hcp` puts what it copies and how much it may copy: the operands, the plan
of the destination (`PlanForDestination`) and its validation, the budgets of both
sides, the archiver's walk over the sources (`AppendPath`, with `read_dir` in any
order and files that vanish) and the extraction.  A path is a sequence of names;
`Base` is the working directory of `hcp` and the home directory at a server.
Directories are unpacked last and the deepest first, because their modes may
forbid writing into them.  `CopyFaithful` compares the destination's tree with one
defined from the operands and the trees before the copy alone (`AllPlaced`,
`NothingElse`), and the failures with their reasons.  Its theorems are in
`FileCopyProofs`.  How `tokio_tar`
places an entry is external; `..` inside a destination is not resolved, and no two
sources hold directories that land in the same place.

### Resize, Connect, PrivateSockets, AgentForward (run together in MCTransport)

`Resize` follows a window size from the SIGWINCH to the remote terminal: merged
signals, the client's channel, one unidirectional stream per header, whose data
arrive in any order, `side_task`, which accepts them in the order they were opened,
the server's channel and `resize_task`.  `side_task` is also how the server learns
that the connection is lost.  A session over pipes never drains the channel of
sizes; hush's client sends none in it.  A change before `watch_resize` has its
handler is lost until the next one (`noticed`).

`Connect` is `connect_any`: addresses in Happy Eyeballs order, attempts that start
staggered, end in any order or hang, and the timeout around them.  Attempts are
kept in the order they started.  The stagger of
all addresses (250 ms each) is taken to fit into the 60 s of the timeout.

`PrivateSockets` is `MultiSocket`: an entry is adopted by `follow_peer`, opened by
the first send to its peer, stored, and announced to the receive task; sends run on
the threads of quinn's drivers, beside the receive task and `DropGuard`.  tokio's
reactor only runs while it has a worker (`Yielding`), which is what makes a
`WouldBlock` from a new socket dangerous.

`AgentForward` is a forwarded agent from the remote programs to the user's agent:
the socket's directory at the server, made and removed with every way out; the
stream for each program; and the client, which binds a connection to the session
and reads the agent's reply to that before it bridges the program's requests, some
of which may have been waiting since the program connected.

The theorems about `Connect` are in `RoamProofs`, those about `AgentForward` in
`ForwardingProofs`.

## 3. Runs

| run | instance | what it shows |
|---|---|---|
| ResetKey | 3 servers, 2 keys, 2 temporary names, 2 iterations, 1 deletion or power loss | agreement, no torn key, durability, refinement of KeyStore |
| Session | a terminal with 2 chunks, pipes with 1 chunk on each output, 1 signal | output complete and before the status; no child, raw terminal or wrong status left behind |
| SessionLive | a terminal with 1 chunk, pipes without output, 1 signal | the exit status, SIGTERM, a lost connection and the end of input each take effect |
| Server | 3 connections, 2 slots, 1 listener each | slots and listeners within their limits (`CapacityKept`), slots returned, every incoming connection answered |
| ServerOpen | the same | the documented meaning of `max_connections` does not hold |
| Forwarding | 3 peers of any kind, 2 listeners, 2 permits each | permits conserved, pending peers accepted |
| Roam | silences of 2 and 3 units, cap 3, one failing socket | hops spaced and justified, recovery, the watcher ends |
| FileCopy | all kinds, with and without workers and compression, 2 entries, 1 lost connection | a done upload is complete and only an archiver that gave up truncates (`DoneIsComplete`), no worker is left, everything ends |
| FileCopyRelay | relays of 1 entry, no lost connection | a truncated archive is taken for complete |
| HostTrust | 2 servers, 2 clients, 2 hosts, 2 generated pairs, 1 deleted file or power loss | one identity, kept, and configured files never overwritten (`IdentityKept`); pins kept; no false alarm, also none from a torn file |
| Client | up to 4 keys or reports typed, 3 sequences printed, each cut anywhere; globs and hosts up to 3 letters; config files, agents, key files and authorized_keys of a few lines; copies of small trees | bytes kept, escape seen exactly when typed, alternate screen known, first values, configured key, listed key, every file where it belongs |
| Transport | 3 changes of 2 sizes, channels of 1; resolutions of up to 4 addresses; 1 connection with 2 addresses, 2 entries, 2 sends, 2 datagrams; 2 programs with 2 requests each | no answer hidden, sizes settle, a lost connection is noticed, datagrams are read, sends end, agent replies go to who asked and after the binding |

Why the bounds are enough.  Three servers are the winner of a race, a loser and a
third that comes later; two temporary names and two iterations let a name
collide and the loop run out.  Two chunks let one be in flight while another
waits; liveness over pipes needs no output, since signals and output share no
state but the child.  Three connections for two slots fill the server and leave one to
be refused.  With two permits and three peers both semaphores run out.
An archive of two entries can be cut before, inside and between them.  Two
servers and two clients are the two sides of a race for either lock; two pairs
are the one that was cut short and the one that repairs it.  The
durations of `Roam` keep the order of the code's (interval <= hop interval <=
silence <= cap).

What is a bound and not the code's: `MaxTries` (32), `MaxGen`, `MaxChunks`,
`MaxSignals`, `MaxFails`, `Entries`, `MaxLosses`, `MaxPairs`, `MaxFaults`,
`MaxPartial` (256, here 4, so that an unfinished sequence can outgrow it),
`ClientCap` and `ServerCap` (16, here 1, so that they fill), `MaxChanges`,
`MaxEntries`, `MaxArrivals`, `MaxSends`, `MaxAsked`, and the trees and limits of
`MCClient`'s copies.

`MCClient` and `MCTransport` each check several modules that share no state: the
variable `part` picks the one a behaviour is about and the others stand still, so
the run is the sum of their state spaces and not the product.  In `MCClient` each
world varies one of configuration, identity and authorization and keeps the other
two plain; every byte sequence is cut in every way.

### Findings

`ServerOpen` is expected to be violated.  `config.example.toml` documents
`max_connections` as the "Maximum concurrent QUIC connections accepted by the
server".  The slot belongs to the serving task; once a session is over the task
returns, while `follow_peer` keeps the connection open until the client's side
goes away.  A client leaves through `process::exit` without closing, and the idle
timeout is seven days.  What the code does bound is the number of connections
being served (`ServedBounded`, proved, part of `CapacityKept`).

With fewer permits (`max_forward_streams_per_connection`) than remote listeners
`PendingAccepted` fails: an idle listener keeps the permit another one needs.
The configuration does not rule this out.

`FileCopyRelay` is expected to be violated.  `relay_archive` resets the
destination's stream "so the destination does not take a truncated archive for a
complete one", but a source server that fails while it archives drops its stream,
which finishes it: the relay sees an ordinary end.  Without compression the
reader of the archive accepts an end between two entries, so the copy is reported
as done with files missing.  A plain download is exposed in the same way; an
upload is not, because the client knows of its own failure (`UploadComplete`, part of
`DoneIsComplete`).

`WorkerStarves` in `FileCopy` is the one way a copy does not end: closing the
input of a destination worker with `shutdown` does nothing, so a worker that is
sent an archive without its end waits, and its server waits for the worker, even
after the client is gone.

### Fairness

Weak fairness stands for the runtime polling a task that is ready and firing a
timer that has expired.  Beyond this the properties assume: packets get through
while the network is up and a dead peer is noticed in the end (QUIC's
retransmission and idle timeout); SIGKILL kills; in `Forwarding`, a peer closes
its connection some day; in `Server`, a session or copy whose connection is lost
ends, which `Session!DisconnectEnds` shows of sessions except for one whose
background process holds a pipe open, and `FileCopy!EveryoneEnds` of copies
except for a starving worker; in `FileCopy`, that some node moves while one can
(no step can be repeated for ever, so this is all that is needed); in `Roam`, quinn retransmits what is not
acknowledged; in `Resize`, that runnable tasks run and lost packets are sent again
while the connection is up; in `PrivateSockets`, that drivers and the receive task
run when they are woken and the reactor runs while it has a worker.  `Connect` has
only a safety property: whether an address answers is up to the network, and the
timeout ends the rest.  Nothing is assumed of users, remote programs or the network
otherwise: `Free` actions of `Session` and the events of `Roam` may never happen.

Deadlock is not checked where the system may stop: a session ends, a server
exits, connections are used up, a watcher returns, a copy is over, all servers and
clients of `HostTrust` may be idle with no pair left to generate, and the parts of
`MCClient` and `MCTransport` run out of input.

## 4. Proofs

For every set of processes, connections and values of the limits:

- **ResetKeyProofs**: `IInv` strengthens the properties with who owns a temporary
  name (`NamesOwned`: at most one running process, so nobody overwrites another's
  file), what a file is at each step (`LinkReady`: complete and synced before the
  link), that the installed file is complete and synced (`FileGood`), and that a
  key taken in the current generation is the one on file (`TakenGood`).  None of
  the four properties is inductive alone.  From it follow `TypeOK`, `NeverTorn`,
  `Agreement`, `UpMatchesFile` (proved only), the action property `InstallerDurable`, and the
  refinement `ImplementsStore`.
- **ServerProofs**: slots and holders add up and the holders are exactly the
  living tasks; listeners are at most as many as forwards counted, and exist only
  under a living task of an authenticated connection; a connection that was not
  accepted has no task.  From it follow `TypeOK`, `SlotsConserved`,
  `ServedBounded` and `ListenersBounded`, and with them `CapacityKept`.  Assumes only finitely many connections.
- **RoamProofs**: with a zero backoff `unanswered_since` is no older than the last
  hop (`SinceAfterHop`), and with no acknowledgement left to notice it is no older
  than the last one (`SinceAfterAck`); complaints are of the current socket.
  `HopsSpaced` needs the first, since an acknowledgement resets the backoff without
  forgetting the last hop; `HopMeansSilence` needs the second.  Assumed: the order
  of the code's durations.
- **SessionProofs**: how far the server is says what has become of its child
  (`ChildStage`) and of its report (`StatusStage`); a chunk is made, sent, arrived
  and shown in this order and nothing follows the end of a stream (`OutputOrder`);
  over pipes a status is sent only after the ends of all streams have arrived
  (`PipesDrained`), a copy task of the client that is done has shown all
  (`ClientDrained`), and the terminal is raw at most until the client exits
  (`RawStage`).  From these follow
  `OutputComplete`, `PipesOutputBeforeStatus` and `CleanEnd`, none of which says
  enough about the other side of the connection to be inductive.  The proof of
  `OutputComplete` does not use that the server's own drain was in time: what it
  failed to drain shows as a stream without its end.
- **ForwardingProofs**: `PermitsConserved` counts permits, bridges and idle
  listeners.  A permit that is returned goes to the first listener waiting, which is
  only one more holder if it held none: `WaitsOnce` says that no listener waits twice
  or while it has one.  Assumes finitely many peers and listeners and that a listener
  is not one of the other kinds of peer.
- **FileCopyProofs**: the nodes a copy does not have never run (`Absent`); planning
  comes before copying (`Stages`); how a node ended its output says how much of the
  archive passed it (`Fins`), which is what carries "complete" down the chain; and
  what was answered is what the destination found (`Answers`).  With them
  `DoneIsComplete` and `NoWorkerLeft` are inductive, for any number of entries and
  lost connections.
- **FileCopyProofs**, of `CopyPlan`, for any operands, limits, trees of any depth and
  orders of `read_dir`: `CopyElsewhere` (`NothingElse`: also a copy that fails on the way
  has touched nothing but where nodes of the sources land and new directories above the
  targets) and `CopyPlaces` (a copy that is done has every node in place, `AllPlaced`).
  The invariant `CopyInv` follows a copy through its phases.  The plan puts each source
  to its target (`Planned`, from `PlanMade`).  While the sources are walked, every node
  of the sources taken so far is in the archive or below something still to be visited
  (`AllReached`), because the next name below a directory is one of its children
  (`NextBelow`) and what vanished is still to be visited (`SrcOK`); each entry's path is
  its node's path with the source replaced by the target (`Moved`, `MovedChild`).  While
  the archive is unpacked, every node is in it, among the directories that wait, or in
  place (`AllOnTheWay`), and stays in place because no two nodes land at the same path
  (`LandsOnce`).  What is made above a node is above a target or where another node lands
  (`LandsAbove`).  Assumed (`IsCopy`, which TLC evaluates for the copies of the run):
  there is a source, the trees are finite and hold the directories above their nodes,
  and the home directory is a directory; for `CopyPlaces` also that no two sources have
  the same last name (`SourcesDistinct`), since otherwise the later one wins.
- **HostTrustProofs**: on the server's side no file is ever torn (`IdFiles`), while
  a server writes its pair nobody serves and it knows what it wrote (`Writers`), a
  served pair is in the files and on disk (`ServedKept`), and the operator's pair is
  written over by nobody (`ProvidedAlone`); on the client's, what a client is about
  to save is the file as it is and its own pin (`Saving`).  Between them, `Agreed`:
  unless files were deleted or a pair adopted before it was on disk, all that "srv"
  presents, has presented and is pinned for is the pair in the files.  From
  these follow `IdentityKept`, `AcceptedIsPinned` and `NoFalseAlarm`.  Assumed:
  absent and torn contents are no pair or pins, "no host" is no host, and
  "srv" is a host whose pairs have fingerprints.
- **RoamProofs**, of `Connect`: an attempt that was answered stays so and none is
  joined without its error being kept (`AnswersKept`), hence `NoAnswerHidden`, for any
  resolutions.
- **ForwardingProofs**, of `AgentForward`: before a connection is bridged its requests
  wait (`Waits`), and then requests and replies are numbered through from the program to
  the agent and back (`Flows`, `Ends`), hence `AgentForwarded`, for any programs and
  number of requests.
- **SessionProofs**, of `EscapeFilter`, for inputs of any length over any bytes and any
  `MaxPartial`: `InputKept` is inductive together with the types of the buffers
  (`FilterTypeOK`), since `next_escape_key` never takes more than there is
  (`KeyWithin`).  `EscapeIffTyped` rests on two facts.  A key that is complete in a part
  of the input is the same key in all of it (`KeyStable`), which is where an ESC cut from
  its `[` and a sequence longer than `MaxPartial` have to be excluded; so the keys that
  `Push` takes are those of the input read at once (`ParseStarts`, `ParseNext`).  And
  `held` and `lineStart` are what these keys mean at each of their boundaries: a `~` that
  starts a line and waits, or the start of a line (`PendingLine`, `LineNext`,
  `HandleTracks`).  `Understood` is both together and is inductive.
- **SessionProofs**, of `AltScreen`, for outputs of any length over any bytes: the state
  of the tracker after n bytes is a function of the sequence that is open there
  (`TrackerAt`): after an ESC, after `ESC [`, or among the numbers of a private mode
  sequence, in which case its `param` is the number since the last separator and its mode
  the last alternate screen named before it (`Reading`).  `TrackStep` takes this over one
  byte, `TrackedAt` over a read, and `Recorded` adds that what was read is at the
  terminal or on its way; hence `AltKnown`.  That the definition of the terminal only
  looks at the bytes up to n is `ScreenAgree`.
- **LoginProofs**, for files, globs, host names, agents and authorized_keys of any length:
  - `GlobMatches`: the loop with its one point to go back to accepts a host exactly if the
    glob can be stretched over it.  Each turn keeps "the glob fits the host if its rest
    fits the rest, or the last `*` can take more" (`LoopFits`), and each turn lowers a
    rank, so that `MostTurns` turns are enough.
  - `LoginInvariance`: after k lines the settings are those of the first k lines by the
    definition over the whole file, and after the last one they are used and not touched
    again.  Hence `ConfigFirst`, and with the server's decision `AuthorizedMeansListed`.
  - `PresentsConfiguredKey`, by the ways to a key: matching agent, file, default files.

  Assumed of a world (`IsWorld`, which TLC evaluates for those of the run): what is called
  a list is one; a host name is not empty and has no `*`, which the code would take for
  itself where a glob has one; no agent is at a path called "file".

A recursive function is shown to exist by building it up to every n (`UpTo`, the
induction over the numbers to N that the provers can use because it takes a set), or as
the least closed set; then what it computes is an induction like any other.

Only model-checked:

- every liveness property: they need fairness and ENABLED, which the prover does
  not handle;
- what `CopyFaithful` says beyond `CopyElsewhere` and `CopyPlaces`: that the limits are
  kept and that a failure has a reason, which are about sums over sets of nodes, and
  sources of the same name.

## 5. Not modelled, and the plan

Next, in this order:

1. `CopyFaithful` for sources of the same name, with the order of the archive.
2. The bytes of a bridge (a TCP reset that reaches the other side as an ordinary
   end), and two data directories in `HostIdentity`.

Left out of a module that is there: `HostIdentity` has one data directory; servers
that share configured certificate paths across data directories lock different
files and are not excluded from each other.

`PrivateSockets` reads
finitely many datagrams: a listener that always has some keeps the private sockets
from being polled, and nothing in the code bounds that.  `FileCopy` and
`CopyPlan` look at the same copies from two sides: the one at what fails on the
way and the other at names and trees; the limit on the bytes of the archive itself
(`LimitedWriter`) is one of the failures of `FileCopy`.  `SshConfig` leaves out
quoting and expansion, `Identity` the formats of keys and the packets of the agent
protocol.

Not planned: the text of `config.toml`, framing, command lines, completion and
logging (sequential text processing); cryptography and encodings, those of
`HostSigner` and of the agent's packets included; the platform code of
`nwsock.rs` and `netmon.rs`; and vendored quinn: the models use QUIC streams and
connections the way hush does.
