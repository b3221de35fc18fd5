# Passage: TLA+ models, model checks and proofs

Passage is a single-port reverse TCP tunnel. A client behind a firewall dials
the server's control port, the two authenticate each other, and the server
listens on one address per service of that client; each user connection to such
an address becomes a yamux stream to the client, which connects it to a local
target.

## Inventory

| Part | State | Operations | What makes it hard |
| --- | --- | --- | --- |
| Session lifecycle (`server.go`) | `s.sessions` under `s.mu`; per session: context, `listeners`, yamux session | `runSession`, `replaceSession`, `shutdown`, `removeSession`, watcher of `acceptUsers` | A reconnecting client's new session tears the old one down while the old one may still be setting itself up; fields are read without a lock; three sessions can overlap |
| Control connections (`server.go`, `client.go`) | `handshakeSem`; state of both ends | `Server.Run`, `handleControl`, `runHandshake`, `validateAuth`; `connectAndServe`, `VerifyOnce` | Both ends time out on their own; the two answers of the server share an encoding; tokens are returned on two paths |
| User streams (`server.go`, `client.go`) | `streamSem` per session, accept queues | `acceptUsers`, `proxyUser`, `handleStream`, `relay` | The session may go away between any two steps of a user |
| Reconnect loop (`client.go`) | `backoff` | `Client.Run`, `jitterDelay`, `sleepCtx`, `acceptStreams` | Wrap-around of durations; cancellation at any point |
| Relay data path (`server.go`, `client.go`) | two copies per end | `relay` | The end of one direction closes both |
| Framing (`proto`) | a byte stream | `WriteMessage`, `ReadMessage` | Partial reads, size limit |
| Signing inputs, clock skew (`auth`) | none | `SigningInput`, `PQSigningInput`, `CheckClockSkew` | Ambiguous concatenation, saturating and wrapping arithmetic |
| Configuration and keys (`config`, `auth`, `tls.go`) | files, and what the processes loaded from them | `Load*`, `applyDefaults`, `Validate`, `NewServer`, `NewClient`, key files, `keygen` | What the running code relies on; files that change while processes run and restart |
| quick-docker | files on disk | `Spec.Validate`, `Generate`, `ensureFreshDir` | Partial failure, rerun, validity of what is generated |
| yamux configuration, command line, scripts | none | | Sequential glue |

`PROJECT.json` lists the same parts with their status, and the hazards at the
lines where they bite.

## Modules

| Module | Models | Checked by | Proved in |
| --- | --- | --- | --- |
| `SessionRegistry` | what session bookkeeping promises: one current session per client, handed over in one step | through the two below | |
| `ServerSessions` | `runSession` and everything it shares with other sessions | `MCServerSessions` | `ServerSessionsProofs` |
| `ControlPlane` (extends `SessionRegistry`) | a control connection at both ends, from dial to session | `MCControlPlane` | `ControlPlaneProofs` |
| `UserStreams` (extends `ServerSessions`) | user connections over the sessions | `MCUserStreams` | `UserStreamsProofs` |
| `ClientLoop` | the client's reconnect loop | `MCTunnel` | `TunnelProofs` |
| `Tunnel` (extends `ControlPlane`, `ClientLoop`) | the loop driving connection after connection | `MCTunnel` | `TunnelProofs` |
| `Relay` | the data of one stream through both relays | itself | `RelayProofs` |
| `Bytes` | a loop of appends, used by the next two | `MCHandshakeBytes` | `HandshakeBytesProofs` |
| `Framing` (extends `Bytes`) | messages on a byte stream | `MCHandshakeBytes` | `HandshakeBytesProofs` |
| `AuthInputs` (extends `Bytes`) | the bytes that are signed; the clock check | `MCHandshakeBytes` | `HandshakeBytesProofs` |
| `Config` | configuration and key files, and the processes started from them | `MCDeployment` | `ConfigProofs` |
| `Rotation` (extends `Config`) | key rotation with restarts | `MCDeployment` | `ConfigProofs` |
| `QuickDocker` (extends `Config`) | the generator, and what its files start | `MCDeployment` | `QuickDockerProofs` |

`SessionRegistry` is the joint. `ServerSessions` is shown to implement it, and
`ControlPlane` uses it for what happens after the handshake, so that the
connection model need not repeat the goroutines. In the same way `UserStreams`
takes only the ends of a relay, which `Relay` has in full; `ControlPlane` takes
whole messages, signed tuples and a Boolean skew, which `Framing` and `AuthInputs`
justify; and the assumptions on constants in `ServerSessions`, `UserStreams` and
`ClientLoop` are what `Config` shows of every process that starts.

Operators introduced as "Faulty variant" are not part of the models. Each is a
plausible mistake in the definition that follows it, kept to show that the
properties notice it.

### ServerSessions

One goroutine per session; `pc[s]` is where it is, in the order of the code:
`replace`, then (if there was an old session) `cancelOld`, `closeOld`,
`closingOld`, `yamOld`, then the loop `listen`/`append`, `wait`, and the deferred
calls `remove`, `removing`, `yamClose`, `cancel`, `done`. A step ends where
another goroutine can see the difference. In particular:

- `shutdown` reads `ss.listeners` without the lock. The model reads the set as it
  is at that moment; what the old session appends later is closed by its watcher
  or by its own `removeSession`. If the read falls into the append, the Go memory
  model leaves the outcome open. One possible outcome is a nil listener whose
  `Close` panics (`ShutdownPanics`); then the process is gone, and the liveness
  properties claim nothing.
- `removeSession` holds `s.mu` while it closes listeners (`mu` is the holder).
- The first `Close` of a listener returns once the address is free, later ones at
  once. The listener states are `open`, `closing` (no more accepts, address still
  taken) and `closed`.
- `yam` is `closing` from the moment `CloseChan` fires, `closed` when the streams
  are gone and every caller of `Close` returns.
- An address is a pair of client and service: `ServerConfig.Validate` rejects
  equal listen strings. `Occupied` has those that another process holds.

### ControlPlane

`srv[k]` and `cli[k]` are the two ends of connection `k`, each where its function
is waiting. A client process has a configuration (id, two keys, services, whether
its clock is off, whether its pin matches the server) and a mode, `run` or
`verify`. `validateAuth` is translated condition by condition; `pq_algorithm` is
left out since the client has only one. Signatures are tuples of key and input,
nonce and exporter are named by the connection. Deadlines and errors of either
end are `ServerFails` and `ClientFails`, possible at any point; a client can also
vanish without closing anything. `ServerCrash` ends the process.

### UserStreams

`uc[u]` is where `acceptUsers` or `proxyUser` is with user `u`, `handler[u]` where
the client's `handleStream` is with its stream. A prefix of `allowed_user_cidrs`
is the set of users in it. `relay` is reduced to its ends: `draining` is the state
in which the user has hung up and the server's half of the stream is closed.
All of `ServerSessions` runs underneath.

### ClientLoop

`Client.Run` with 64-bit durations replaced by signed integers up to `MaxInt`
that wrap around. `jitterDelay` is the set of values it may return.

### Tunnel

`attempt` is the connection of the `connectAndServe` in progress. A step of the
client is a step of `ClientLoop` and one of `ControlPlane` at once, `ReadVerdict`
with `Connected` for instance. The server goes on with a connection the client has
given up until a deadline or a read error tells it, so an abandoned connection may
still be accepted and displace its successor. A server that died comes back
(`restart: unless-stopped` in the generated compose files) with an empty map. Names
of connections are used again once both ends are done (`Forget`, just before the
client dials), so the attempts are unbounded; failures not caused by the other end are bounded by `MaxFaults`.

### Relay

Each direction has three links: host to relay, the yamux stream, relay to host.
`copy[<<d, i>>]` is the `io.Copy` that reads link `i`. A link holds `Window` chunks, so
that writers block. The difference between the connections is what matters:
closing a yamux stream ends one direction of it, closing a TCP connection ends
both, and resets it if data is unread or still to come. Hosts may send, read, stop
reading, half-close and close at any time.

### Framing

The bytes of a frame go to the wire, and come from it, in pieces of any size; the
writer may stop after any byte. Headers have two digits instead of four.

### AuthInputs

`SigningInput` and `PQSigningInput` as sequences of bytes, and `CheckClockSkew`
with the conversions of the `time` package: seconds counted from year 1, a
subtraction that saturates, a negation that wraps.

### Config and Rotation

`disk` has the content of each file; `server` and `client` are what `NewServer` and
`NewClient` returned, or `Err` while the process is down. Loading, defaults and
validation are functions of the file content, in the order of the code; whether they
succeed is a predicate of its own (`ServerLoads`, `NewServerFails`, `ServerStarts` and
their counterparts for the client). `ServerFile` and `ClientFile` are the structs that
the decoder fills, with strings and numbers of any value. Addresses,
keys and PEM files are pairs that keep what the code looks at: the prefix or type,
and whether the rest decodes. `Accepts` is the outcome of a handshake between two
such processes. `Rotation` adds the procedure of `src/README.md:287`, with `keygen`
and `pq-keygen` and their failing writes.

### QuickDocker

`plan` is what `Generate` has still to do, in the order of the code; each step may
fail, with the file missing or complete, or the directory partly removed. What
either directory would start at any moment is `ServerFrom` and `ClientFrom` of
`Config`, applied to the files that the generated compose file mounts.

## Runs

| Run | Instance | States | Shows |
| --- | --- | --- | --- |
| `sessions_safety` | 2 clients, 1 service, 3 sessions, symmetric | 514,516 | map, hand-over and listener invariants; implements `SessionRegistry` |
| `sessions_liveness` | 3 sessions of a client with 1 service, or 2 of a client with 2 services, one address taken | 800,636 | replaced sessions end, no deadlock on `s.mu`, clean-up after a failed listen, stop frees addresses |
| `control_connections` | 2 clients, 2 connections, 1 token, 9 client configurations | 601,795 | token count, entitlement, one current session; handshakes end, views converge |
| `verify_dry_run` | 1 client, 2 connections | violated | `passage verify` displaces the running client |
| `users` | 2 users on 2 services of a session, 1 token; or 1 user of 2 sessions | 236,469 | token count, routing; users are disconnected, tokens returned |
| `users_overlap` | 3 sessions, 2 services, 2 users, 1 token | violated | more streams than `max_streams_per_client` |
| `tunnel` | 3 connection names, 1 token, 2 faults; `MaxInt` 4, `max_backoff` 2 | 253,800 | back-off and jitter in range; one connection at a time; cancellation ends the loop and nothing else; the client ends up with the current session |
| `relay` | window 1, 2 chunks each way | 93,609 | nothing lost inside; both relays return |
| `handshake_bytes` | 3 messages of 1 to 5 bytes, limit 4; 600 requests; 6-bit integers, all client times | 12,178 | reader and writer stay in step, the limit is the same; different requests differ in their bytes; the window is exact where the difference fits |
| `skew_window` | the requests and times of `handshake_bytes` | violated | a time centuries ahead is accepted |
| `deployment` | 27 server and 15 client files; 3 rotations; 8 specifications, 3 runs of the generator | 16,617 | what starts has what the other modules assume; every restart during a rotation succeeds; no mixed generations, and what is generated starts and is reachable |
| `docker_same_port` | a port on two hosts, isolated | violated | the generated server does not start |

Four runs explore two or three instances side by side. `sessions_liveness`
(`ChainSpec`) and `users` (`UnionSpec`) restrict who connects, and nothing else: the
steps that are fair in `Spec` and `UserSpec` are never cut off, so the fairness is
theirs. `handshake_bytes` (`BytesSpec`) and `deployment` (`DeploymentSpec`) choose
one of their modules and leave the variables of the others alone.

Bounds. Three sessions are the smallest number for a session to be replaced while
it is still replacing another; two clients show that they do not disturb each
other except through `s.mu`. With two connections and one handshake token, both
the full and the free semaphore occur, and one connection can displace the other.
Two users and one stream token do the same for `streamSem`. In `tunnel`
`max_backoff` is the largest value whose double still fits in the type, and large
enough for a doubling, a capped doubling and a wait that jitter shortens. Sessions,
connections and users are used once each, except in `tunnel`; a process that
reconnects is a new one.
Deadlock checking is off: all of them may come to their end.

Three names for connections leave a free one when two faults have each left a
connection lingering at the server. A window of one chunk makes every writer block,
and with two chunks one can be in a buffer while another waits behind it. The
messages of `handshake_bytes` are the shortest, the two around the limit and one in between,
over bytes that can be mistaken for headers. The edited files in `deployment` differ from a
correct one by each mistake a loader or constructor tells apart, and by limits on
either side of what is accepted. Key files alternate between two names, so a second
rotation writes over the key of the one before the last.

`users_overlap` explores the part of the state space (`SlowReplacement`) in which
the second session is slow to shut the first one down; every state in it is
reachable without the constraint.

Fairness. Each specification has weak fairness on the disjunction of the steps
that the processes take by themselves, deadlines included: a Go process does not
idle while a goroutine can run, and a timer fires. That is weaker than fairness
for each goroutine. It suffices because sessions, connections and users take
finitely many steps. Nothing that depends on somebody's will is fair: connecting,
hanging up, stopping the server, losing a connection. For `Notice` (an end learns
that the other is gone) the justification is the yamux keep-alive, which both ends
configure; for `HandshakesEnd` it is `HandshakeTimeout`. In `ClientLoop` a session
may last for ever, so only its end by cancellation is fair.

`Tunnel` has weak fairness for the client, whose loop is one goroutine, for each
connection of the server, since each has its own, and for the restart, which the
container runtime sees to. Faults are not fair, nor is cancellation. In `Relay` only
the four copies are fair: a host need not send, read or close. In `Framing` it is
the transfer of bytes, and not the sending of a further message or the closing.

### Disagreements found

- `verify_dry_run`: `src/README.md:275` calls `passage verify` a "dry-run". The
  server cannot tell it from a client, and `runSession` replaces the running
  session of that client id: its listeners are closed and its users dropped.
- `users_overlap`: `src/README.md:210` has `max_streams_per_client`, but
  `streamSem` belongs to a session (`server.go:269`). Of three overlapping sessions,
  the third only waits for the second to be closed, and may serve users while the
  second has not yet begun to close the first. With two sessions this does not
  happen: see `PredecessorDead`.
- `skew_window`: `src/README.md:29` says "clock skew window is 60 seconds". For a
  `client_time` about 292 years ahead `Time.Sub` saturates at the smallest int64,
  whose negation (`auth.go:64`) is itself, and the check passes. `SkewExact` and
  its proof show that the check is exact otherwise.
- `docker_same_port`: `src/README.md:106` promises a "ready-to-go" stack. In isolated
  mode `serverListenForService` drops the hosts that made two addresses different,
  and the generated `server.yaml` has a duplicate that `ServerConfig.Validate` refuses.

All hold for the code as it is; none involves a fault in the other checks.

## Proofs

`tlapm` checks all of the following for any sets of clients, services, sessions
and configurations.

`ServerSessionsProofs`. The six safety properties of `sessions_safety`, type
correctness, and `Refinement`, that every step of the goroutines is a step of
`SessionRegistry` or leaves it unchanged. The properties are not inductive by
themselves, because they do not say how a session came to be where it is. `IInv`
is `TypeOK` and `LiveListenersStay` with: the map entry of a client is one of its
sessions between registration and removal (`OwnerInv`); the `old` of a session is an
earlier session of the same client, and the `old` of no other (`OldInv`); the map
entry is the one registered session nobody replaced (`CurrentInv`); how far a
shutdown has got with the old session (`ShutdownInv`); services still to be bound,
in hand and bound are disjoint (`SetupInv`); an open listener is in `sess.listeners`
or about to be (`ListenerInv`). `RegistryExact` and `OverlapOnlyInShutdown` follow
from the first three and `ShutdownInv`, `PredecessorDead` from `ShutdownInv`, the
listener properties from `ListenerInv` and `CurrentInv`.
Assumptions: `None` is no client, service or session; `Allowed` is a function from
clients to sets of services.

`ControlPlaneProofs`. `ControlTypeOK`, `SlotsExact`, `SessionsAreEntitled` and
`OneCurrent`. The three lemmas `KeepToken`, `AcquireToken` and `ReleaseToken` count
the holders of the semaphore. `ConnInv` follows the evidence along a connection: a
`ClientAuth` in flight is the one its client would make; behind `accept` it has
passed `validateAuth`; an `Accepted` in flight, a serving client and a live session
therefore belong to an entitled client. Assumptions: finitely many connections, a
positive semaphore, `None` different from everything else.

`UserStreamsProofs`. `UserTypeOK`, `TokensExact` and `RoutedToOwnService`, on top of the
invariant of the sessions underneath: `UserInv` adds to `IInv` that a listener is open
only for a service its client is allowed (`ServiceInv`), and that a user that was
accepted was admitted by the prefixes of that service, which stays true for its
handler after `proxyUser` has returned (`RouteInv`). The tokens are
counted as in `ControlPlane`. Assumptions: finitely many users, a positive limit.

`RelayProofs`. `NothingLostInside`, for any window and any amount of data. `RelayInv`
has the balance of each direction that is intact, that is, whose session and sink
connection are not lost and whose sink still reads: what the first relay took in is
what the sink got, what is in the two buffers and what the copies have in hand. It
also says that a link is closed for writing only by the copy that writes it, when
that is done, and that in an intact direction the second copy is done only after
the first, with nothing left between them.

`TunnelProofs`. Of the composition of client and server:

- `BackoffBounded` and `DelayInRange`, from what `ClientConfig.Validate` enforces and
  `Doublable`: twice `max_backoff` fits in an int64, that is, it is below 146 years. The
  validator does not require this; above it the doubled value is negative, and both
  properties fail. `TunnelStepsLoop` shows that every step of the tunnel is one of
  `Client.Run` or leaves it alone, so that the invariant of the loop carries over.
- `SlotsExact`, `SessionsAreEntitled` and `OneCurrent`, which `ControlPlaneProofs` has for
  single-use connections and a server that stays down, here with connections without
  number and a server that comes back. `TunnelStepsControl` reduces this to the two
  steps `ControlPlane` does not have, `Forget` and `ServerRestarts`.
- `OneConnection`, from `AttemptInv`, which pairs where `Run` is with the state of the
  connection of its `connectAndServe`, and says that all other connections are given up.

`HandshakeBytesProofs`, for messages, ids and lists of names of any length.

- `InStep`. `FramingInv` adds that the messages on either side have a length within the
  limit, and so has the body that a header announced. The steps move the borders between
  what was read, is in hand, on the wire and to be written; a header or body that is
  complete is the next one written because the digits of a header determine the length
  (`HeaderOfBytes`).
- `InputsBind`. `SigningInput` is cut up again from both ends, which needs the fixed
  lengths of nonce, exporter and time; `PQSigningInput` from the front, by its prefixes
  (`PrefixedCancel`), and its list of names by induction on their number (`NamesBind`).
- `SkewExact`, for integers of any range: no conversion of a time that near wraps, no
  subtraction saturates, and no negation overflows.

Assumptions: a size limit that the header can express; nonces of one length and
exporters of one length, 32 bytes each in the code; the range of `int64`. The library's
induction theorems cannot be instantiated by the provers used, but that `<` is
well-founded can be cited, and induction over sets of numbers follows (`Induction`).

`ConfigProofs`. `RunningServerUsable` and `RunningClientUsable`, for files of any
content of the types the decoder fills (`FilesAssumption`), by following decoding,
defaults, validation and the maps of `NewServer`. `RestartSafe`, for any number of
rotations: `RotationInv` says, stage by stage, which keys `server.yaml` lists and which
files `client.yaml` names, that the key files in use are intact, and which keys the
running processes were started with. `DeployedAssumption` describes the deployment at the
start: it works, its keys are in the files that the numbering gives, and no other file
of the deployment has their names.

`QuickDockerProofs`. `GenInv` says that the files on disk, as far as there are any, were
written by one run (`OneRun`), and describes the middle of a run: what remains of the
plan is the end of `Generate`, and once both directories are cleared, the files written
are those of the steps taken (`InRun`). Both directories are cleared before anything is
written, hence `NoMixedGenerations`, for any specifications and any number of runs. `StackStarts` and `StackReachable` are
proved for specifications that are `Portable` if `Spec.Validate` accepts them: no value
that YAML reads as something else, and for isolated mode different ports and a control
address without a host. This is a hypothesis of the two theorems, and `docker_same_port`
shows that it cannot be dropped.

Only model-checked: all liveness, which under fairness is beyond the proof system used.

## Not modelled, and why

- TLS, yamux, Ed25519, ML-DSA, JSON, YAML and TCP are external, and appear by what
  the code uses of them. Of YAML `QuickDocker` has the two effects of rendering values
  without quotes; the runs use values that mean the same with and without.
- Base64 and PEM text, logging, flag parsing and printed output: no state, and no
  property is about them.
- Control addresses of isolated stacks with a host of their own: `server.listen` is
  rendered as it is (`generate.go:128`), unlike the services' addresses, so the server
  in the container would bind an address that exists only outside. `StackReachable`
  is checked for control addresses without a host or with 0.0.0.0.
- Container and project names of the generated stacks: constant prefixes.
- Goroutines that outlive a session: each reconnect of a client leaves one of
  `acceptStreams` waiting for the context (`client.go:166`). Nothing bounds or uses
  their number.
- Half-close end to end: a host that half-closes and waits for an answer may not get
  it, since the other relay closes the target's connection. No document promises it.
- Two client processes with one id displace each other for ever; `Tunnel` has one.
- The shell scripts under `scripts/` and `quick/`: straight-line calls of other tools.
