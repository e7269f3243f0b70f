# Formal model of localsend-rs

TLA+ specifications of localsend-rs, checked with TLC on small instances, and
proofs about them checked with TLAPS for every instance. All source paths are
relative to the crate: `handlers.rs`, `server.rs`, `pin.rs`, `web_share.rs` are
in `src/server/`, `session.rs` and `sink.rs` in `src/core/`, `tls.rs` in
`src/crypto/`, `http.rs` and `multicast.rs` in `src/discovery/`, `app.rs` in
`src/tui/`, `send.rs` in `src/cli/commands/`.

- [The system](#the-system): the components, their state and operations, and
  what has to be true of them
- [The modules](#the-modules): which module models what, and how its state and
  actions correspond to the code
- [The runs](#the-runs): what TLC checks, within which bounds
- [Fairness](#fairness)
- [The proofs](#the-proofs)
- [Where the code and its comments disagree](#where-the-code-and-its-comments-disagree)
- [Known limits](#known-limits)
- [What is not modelled](#what-is-not-modelled)
- [Plan](#plan)

## The system

localsend-rs is a LocalSend v2 implementation: a library with an HTTP(S)
server, a client and discovery, and a CLI and TUI on top of it. The server
holds **one** session slot. Every handler is an async task that takes the
state's `RwLock` for short critical sections, releases it to wait (for the
user, for a body, for the disk, for room in a channel), and takes it again. A
client that disconnects drops its handler's future at the await it is parked
on; destructors run, and whatever was handed to the blocking pool still
happens. Most of what is hard in this code follows from these two facts.

| Component | State | Operations | Interacts with |
|---|---|---|---|
| receive slots (`core/session.rs`) | one `ReceivePhase` per file and a cancellation token each, behind a mutex; `received`; `last_activity` | `begin_receive`, `begin_publication`, `finish`, drop of lease and permit, `try_cancel_receives`, `mark_received`, `is_timed_out` | called by upload, cancel, prepare-upload, sweep, stop |
| standard receive path (`server/handlers.rs`, `state.rs`, `events.rs`, the sweep of `server.rs`) | `current_session`, `current_session_from`, `awaiting_consent`; handlers parked at awaits; `ReservationGuard`s | prepare-upload, upload, cancel, session sweep, guard task | PIN gate (before), slots, sink, event channel to the host |
| receive sink (`core/sink.rs`) | names, temporaries and received files in the directory; the pending file a handler holds | `create`, `write`, `commit`, `abort`, `Drop` | called by upload; runs its file system calls in the blocking pool |
| PIN gate (`server/pin.rs`) | the PIN; per peer a count and the instant of the last wrong value; `wrong_values` | `check`, `make_room`, `set` | in front of prepare-upload and Web Share |
| CrossCopy authorized upload (`server/crosscopy_authorized.rs`, part of `handlers.rs`) | the owner installed by the host's gate, `active_upload`, `stopping` | admission, hand-over, upload, cancel, stop | shares the slot's 409 with the standard path; the host's gate and owner |
| Web Share (`server/web_share.rs`) | the share, browser sessions and their approval, files each has completed | prepare-download, download, replacement, stop | PIN gate, event channel |
| server lifecycle (`server/server.rs`) | the listener, sweep, web-share and crosscopy tasks | start, stop, start/stop web share | all of the server's state |
| TLS identity (`crypto/tls.rs`) | certificate, key and lock file on disk | `load_or_generate_tls_certificate` | two processes on one machine, kills |
| multicast discovery (`discovery/multicast.rs`, `announce.rs`) | the running flag, listeners, the broadcast channel and the callback's task | `on_discovered`, `start`, `announce_presence`, `stop` | client (register), CLI |
| HTTP discovery (`discovery/http.rs`) | none across calls | sweeps of hosts, `probe_peer` | remote servers, CLI |
| client (`client/`) | none across calls; a trust policy | register, prepare-upload, upload, cancel | a remote server |
| CLI (`cli/`) | the send command's sequence of calls | send, receive, discover | client, server, discovery |
| TUI (`tui/`) | popups, two send screens, the send tasks and their back-channel, the generation, devices | key handling, polling of server and send events, retry with PIN | client, server |
| protocol types, builders, path safety, hashing | none | pure functions | everybody |

What is hard, and which property is about it (`PROJECT.json` lists every hazard
at its line):

- **the slot between two critical sections.** A prepare-upload handler visits
  the slot four times with the lock free in between, and its later visits clear
  or replace whatever they find. Cancels, the sweep, other offers, uploads and
  the guard task of a dropped handler run in the gaps.
- **the upload that comes back.** An upload handler returns from the body and
  from the disk to a session that may be another; the publication permit is
  what makes that safe, as far as it does.
- **dropped futures.** At every await, with a rename possibly under way.
- **several places that end a session.** Completion, cancel, message, decline,
  sweep, guard: `SessionDone` must come once, and must mean what it says.
- **a sender that vanishes.** The accept timeout, the sweep and the guard must
  between them always free the slot.
- **names on disk.** Two senders with the same or with overlapping collision
  names, failing calls, power failures.
- **the lockout table.** Bounded, evicting, expiring by two different rules.
- **a one-shot owner.** CrossCopy admission looks, asks the host's gate with
  the lock released, and looks again; stop, sweep, cancel and a second upload
  run in between, and the owner must neither be kept for ever nor be used twice.
- **an approval for something that is gone.** The host replaces the share while
  browsers wait to be let into it, and says yes to the old one.
- **two first starts.** Processes that read the two files of an identity
  without a lock while another writes them, and may be killed in between.
- **a deadline among the answers.** What was heard before it must count, what
  was not asked must be said, and a stranger must not be told who asks.
- **one round of the interface.** A PIN demand, an incoming transfer, the end
  of a send and a key meet in it; and sends the user left end all the same.

## The modules

| Module | Models |
|---|---|
| `ReceiveSlots` | the slots of a session, as functions from slots to slots, one per critical section of its mutex |
| `SessionDelivery` | abstract: what a session promises about files that arrive, are acknowledged, are given up, and about its end |
| `ReceiveLifecycle` | one session driven by any number of concurrent and repeated uploads; implements `SessionDelivery` |
| `StandardReceive` | the server's session slot and everything that moves it |
| `StandardReceiveSessions` | composes the two: each session of `StandardReceive` is a `ReceiveLifecycle` |
| `AtomicFileSink` | the default sink and the directory it writes to |
| `PinGate` | the PIN gate |
| `OwnerCustody` | abstract: what the server promises a host about the owners its gate hands over |
| `CrossCopyUpload` | the protected upload from the first look of a prepare to the return of `stop`; implements `OwnerCustody` |
| `WebShare` | a share, its browsers and their downloads, while the host replaces and stops it |
| `OneIdentity` | abstract: one identity, set once, told to everyone who asks |
| `TlsIdentity` | the two files, the lock and the processes; implements `OneIdentity` |
| `HostScan` | a sweep of hosts over HTTP |
| `Multicast` | listeners, confirmations, the broadcast channel and the callback |
| `Discovery` | composes the two: a sweep, or the search of a send for its target |
| `TuiApp` | the loop of the terminal interface and the sends it spawns |
| `MC*` | instances for TLC |
| `*_proofs` | theorems and their proofs |

Operators whose comment starts with *Mutant* are plausible bugs of the code.
They are used by no specification; substituting one for the definition it
stands next to must make a property fail (`PROJECT.json`, `mutants`).

### ReceiveSlots, ReceiveLifecycle, SessionDelivery

`slots[f]` is `ReceivePhase`. `Claimable`/`Claim` are `begin_receive`,
`Publishable`/`Publish` are `begin_publication`, `FinishPublication` is
`finish`, `DropLease` and `DropPermit` are the two `Drop`s, `Cancellable` and
`CancelAll` the two halves of `try_cancel_receives`. The cancellation token of a
slot is cancelled in the critical section that moves it to `Cancelled` and
nowhere else, so it is not kept apart.

In `ReceiveLifecycle` a handler is `idle`, in its `body` (lease held), in
`commit` (permit held), `landed` (past commit, waiting for the server lock),
`done`, or `lost`: gone from `commit` or `landed` without an answer. A future
dropped inside `commit` leaves its rename in the blocking pool: the handler is
in `detached` until `LandDetached`.

`SessionDelivery` forgets all of that. `arrived` is mapped to the files whose
rename happened for an upload that was not lost, `acked` to `recorded`, `closed`
to itself. The interesting part of the refinement is `Close`, possible only
when everything that arrived was acknowledged: the permit must keep
`try_cancel_receives` out from `Land` to `Record`.

### StandardReceive

The slot is `current` (the id of the placeholder or the real session of an
offer, or `None`), `from`, `awaiting` and `stale` (`is_timed_out` of the
installed session). A session id is fresh (a UUID) in the code, which is what
the pairs `<<"placeholder", o>>` and `<<"real", o>>` are. `slots` and `received`
are kept for the real session of every offer also after it left the slot, since
upload handlers hold on to its lifecycle. A placeholder's slots are always
`Ready`, for its tokens are told to nobody; it has no state of its own.

A prepare-upload handler goes `new` – `reserved` (255–290) – `asked`
(`send(...).await` done, 311–319) – `decided` (select over token, timeout and
answer, 323–337) – `cleared` (339–352) – and settles by declining (354–384) or
by installing the session (366–405), which for a text message leaves it
`installed` until `DeliverMessage` (407–426). When it returns or is dropped, its
`ReservationGuard` spawns a task: `leaving` until `ReleaseReservation` (52–89).
Auto-accept goes from `new` to `decided`.

An upload handler is as in `ReceiveLifecycle`, except that the two ways to lose
a permit after commit are told apart: `orphaned` came back to a session that is
no longer installed (801–816, answered 500), `lost` was dropped.

`CancelWithoutId` and `CancelById` are the two branches of `handle_cancel`;
`GrowStale` is the clock; `Sweep` is a tick of `spawn_session_sweep` that finds
something. Requests that are turned away change nothing and are not actions,
except that a turned-away offer is over.

Two abstractions matter. `GrowStale` does not happen to a session whose handler
is between two of its critical sections (`decided`, `cleared`, `installed`):
300 seconds do not pass there. It does happen while the handler waits for room
in the event channel, which no timeout bounds, or for the user, whose timeout
(60 seconds by default) and `session_timeout` (300) are configured apart. And
`DropOffer` can drop a handler at any of its awaits.

`overran` is a history variable: the offers whose placeholder went stale while
their handler was still waiting.

### AtomicFileSink

`disk[n]` is what is under a name: nothing, the empty file of a reservation, a
receive's bytes, or torn bytes. `at[r]` is the file system call a receive is
in; each is a job of tokio's blocking pool, so an action is the *end* of a job,
and a caller dropped meanwhile (`DropCaller`) ends the receive there, with the
job done and nothing after it (`Goes`). `DropPending` is `Drop` of a pending
file whose temporary was not taken: it cleans up synchronously. A failing
`commit` or `create` returns with the temporary already taken, so nothing is
cleaned up (`GivesUp`). `PowerFails` may undo everything in the directory that
is not behind a settled rename, and tears files that were never synced.
`Series` stands for `collision_leaf`: the names each receive tries; two series
may meet in any way. `faulty` is a history variable, the receives hit by a
failing call or a power failure.

### PinGate

`failures` is the map of the code with ages instead of instants, counted to
`LOCKOUT`. `Check*` are the exits of `check` in order, `Roomy` is `make_room` (a
set of tables: ties among the oldest entries are broken by the hash map's
order). `guesses` is a history variable, the wrong values of each peer in the
last `LOCKOUT`: each is its age and how many of that age came before it, so that
their number is a cardinality.

### CrossCopyUpload, OwnerCustody

`session`, `active` and `stopping` are the three fields of the server's state;
`owner[r]` follows the boxed owner of a prepare request through the code, which
has no such variable: in the host's `gate`, `held` by the handler that took it,
`installed`, `cancelling` (somebody awaits `owner.cancel()`, and `by` says who),
`receiving`, and four ways to be over. A prepare goes `new` – `asking` (the
preflight passed and the lock is released) – `holding` – installed or rejected,
under the lock again. An upload is `receiving` from the moment it takes the
owner out of the session, which also records it in `active`; it returns,
clears the record if it is still its own, and sends `FileReceived` and
`SessionDone`, each an await at which its connection may be gone.

`CancelSession` and `CancelActive` are the two looks of `handle_cancel` at a
protected session id, `SweepProtected` the protected half of the sweep's tick
(`Age` is its clock), and `BeginStop`, `CancelReturns` and `AbortTasks` the
steps of `stop`: raise the barrier and take the owner, await its cancel, abort
and await the tasks. An abort that meets the sweep in the middle of a cancel
drops that owner with it. `StandardPath` moves `standard` and `from` in any way
the standard handlers can, since cancel checks the sender's address against
`current_session_from` whoever wrote it.

`OwnerCustody` is the promise to the host. Each `owner[r]` maps to `gate`,
`server`, `transfer` or `over`, and `stopping` to `closing`: no step may take an
owner back, use it twice, or begin a transfer when the server is stopping.

History variables: `signalled` (requests whose token was cancelled),
`overwritten` (requests whose record in `active` another upload replaced) and
`disconnected` (requests of which a handler was dropped).

### WebShare

`share`, `sessions`, `pending` and `approved` are the map and its fields. A
session's one-shot channel is `answer`: empty, holding a yes or a no, or closed
because its sender went with the share. A prepare-download goes `new` –
`sending` (the session is in the map, the event not yet in the host's channel) –
`asked` – `accepted` or `refused` – `over` (under the lock again, where it may
find another share). The wait is `tokio::time::timeout` around the receiver,
which looks at the channel, then at the timer, and drops the receiver only
afterwards; in between the handler is `expired`, and `respond_web_share` still
sends with success. There is no await there, so a handler is not dropped in it.
`call` is a host inside `start_web_share` or `stop_web_share`, between the
state's lock and the device's. A download is `streaming` after the checks,
`finished` once the stream ended, `closing` between recording the file and
sending `WebShareSessionDone`; the last two are the task it spawned, which
outlives the handler.

History variables: `granted` (requests the host was told it had approved),
`late` (those of them approved when the handler was `expired`), `listed` (the
shares whose list a request's browser was shown) and `hungUp`.

### TlsIdentity, OneIdentity

`cert` and `key` are what the two files hold: the part of an identity, nothing,
or something unusable. `LoadOrGenerate` is the call of
`load_or_generate_tls_certificate`: the process reads both without the lock
(`ReadCert`, `ReadKey`), and only for a missing pair opens and takes the lock,
looks again, generates, writes the two temporaries, renames the certificate,
renames the key, and reads both back. Each is a step, each may fail (`Fails`),
and between any two the process may be killed (`Crash`), which frees the lock
and leaves the files. The initial state is any pair of files. `told`, `failed`,
`broken` and `killed` are history variables.

`OneIdentity` is what a device that pins a fingerprint relies on: the usable
pair in the two files is one value, set once, and everyone who asks is told
this one.

### HostScan, Multicast, Discovery

`HostScan` is one call: a blind subnet sweep, a sweep of named hosts, a register
sweep, or `probe_peer`. `asked[h]` and `scheme[h]` are the request a host's
probe waits for, `Slots` is `SCAN_CONCURRENCY`, `discovered` the answers in the
order they came. `Drained` and `Deadline` end a sweep; both turn the answers
into the outcome, `Listed`: other devices only, the first answer of each. The
history variable `absent` holds the questions a host answered by having no such
route, the only thing that permits the fallback to `/register`.

`Multicast` is one object from `on_discovered` to `stop`. Announcements are
lost, repeated, heard on several interfaces and heard late; each that is not our
own starts a confirmation (`asking` counts them), and one that succeeds is
broadcast. The broadcast channel of `Capacity` overruns a slow callback, which
ends its task for good (`lagged`), and a callback whose task has not run yet
(`spawned`) hears nothing. `registered` and `expected` are history variables.
In the code a listener sees up to a second later that it was stopped; the model
ends it at once, for `resolve_target` reads what was found right after `stop`
(send.rs:298–300) and nothing a listener still confirms reaches anybody.

`Discovery` lets one of the two happen after the other: the search of
`resolve_target` (send.rs) asks the target's address first, if that is what it
was given, and falls back to multicast.

### TuiApp

`turn` is where the loop is: server events, send updates, one key, the PIN
prompt. A send is a record in `task` under its generation; `updates` is the
back-channel in which its end arrives. `stage`, `target` and `input` are the two
send screens, `sending` their `is_sending`, `popup` the dialog (an incoming
transfer, the PIN prompt, or none), `pendingPin` is `pending_pin_kind`. The keys
the user presses are the disjuncts of `HandleKey` and `HandlePopupKey`; `q`
leaves the loop (`turn = "over"`), and the process ends with it. History
variables: `asker` (whose 401 the prompt is for), `cancelled` (sends the user
left) and `reported` (sends whose end was shown).

## The runs

Every run below passes or fails as stated.

| Run | Instance | States | Shows |
|---|---|---|---|
| `lifecycle` | 4 uploads, 2 files | 1 016 | `OneOwnerPerFile`, `LandsOnce`, `ImplementsDelivery` |
| `server_open` | 2 offers (two files; one file) from different addresses, 2 uploads | 1 083 707 | `ReservationHasHandler`, `DoneMeansComplete`, `UndisturbedOwnsSlot`, `UndisturbedRecorded`, `ImplementsLifecycle` |
| `server_live` | an offer of two files and a text message, 1 upload, fair | 167 930 | `DoneOnce`, `OfferIsAnswered`, `SlotIsReclaimed` |
| `sink` | 3 receives, 2 attempts each, one series starting at the other's collision name | 185 972 | `NeverTorn`, `CommittedIsDurable`, `NothingLeftBehind`, `ReceivedFileStays` |
| `pin` | 3 peers, a table of 2, 3 failures, lockout of 3 ticks, fair | 14 285 | `GuessBudget`, `LockoutHolds`, `LockoutEnds` |
| `crosscopy` | 2 protected prepares from two addresses, 2 uploads, the standard slot, sweep and stop, fair | 160 160 | `OwnerInOnePlace`, `ImplementsCustody`, `OwnerIsReleased`, `ReceivedIsReported`, `StopReturns` |
| `web_share` | a share of two files that asks, one of one file that does not, 2 browsers, 2 downloads, fair | 99 726 | `DownloadIsPermitted`, `AskIsAnswered`, `GrantTakesEffect`, `CompletionIsReported` |
| `tls_identity` | 2 processes, a stored identity and two to generate, every initial pair of files, fair | 155 145 | `ErrorsHaveACause`, `ImplementsOneIdentity`, `CallReturns` |
| `discovery` | every mode over every set of 3 hosts, 2 slots; 2 devices, one of them wanted, 2 interfaces, a channel of 2, 4 announcements heard, fair | 1 347 991 | `NoBlindDisclosure`, `OutcomeIsExact`, `FoundIsConfirmed`, `NothingConfirmedIsLost`, `SearchEnds` |
| `tui` | 2 incoming transfers, 3 generations, 1 device, 1 text, fair | 698 292 | `TypeOK`, `RequestsAreKept`, `CancelledIsSilent`, `PromptAppears`, `SendIsReported` |
| `server_publishing_lost`, `tui_pin_retries_other` | as small as shows it | | [disagreements](#where-the-code-and-its-comments-disagree) |

Why these bounds are enough:

- *lifecycle*: two uploads compete for a file, a third repeats after one of
  them was lost, the fourth is in another file so that cancellation sees slots
  in different phases. Handlers are interchangeable.
- *server_open*: a hazard of the slot needs two offers, one that is late and one
  that took the slot meanwhile, and an upload in the second one's session. Two
  uploads and two files are needed for "all files recorded". The one-file offer
  completes with its first file, the two-file offer does not.
- *server_live*: liveness needs an offer that competes for the slot and an
  upload that is abandoned; the message has its own way out of the slot.
- *sink*: two receives of one name and a third that starts at their first
  collision name; the series of two names can be exhausted.
- *pin*: one peer more than the table holds, so that eviction meets live
  lockouts; three ticks distinguish young, older and expired entries.
  `U32_MAX` is 3, where `wrong_values` saturates.
- *crosscopy*: two prepares race for the one protected session, and a second
  upload overwrites the record of the first; the second address is the one that
  `current_session_from` may wrongly name. An owner meets every pair of sweep,
  cancel, stop and upload.
- *web_share*: one share replaces the other in either order, one of them
  approves without asking; two browsers tell an approval from a neighbour's;
  two downloads end a two-file share, at the same time or one of them twice.
- *tls_identity*: one writer and one that looks while it writes. A process can
  call again after it was killed, so two processes make as many first starts as
  there are identities left to generate; the initial files are any of missing,
  the stored part and unusable, for each of the two.
- *discovery*: with three hosts on two slots one host waits when the deadline
  comes; every host can answer with any name, so names repeat. Four
  announcements overrun a channel of two with one being handled. `Rounds` (3)
  and `MaxRounds` (5) are the code's own.
- *tui*: two transfers put one dialog behind another; the third generation is a
  retry or a new send whose predecessors may still be under way.
  `RetriesTheSameSend` needs two messages instead of transfers and has a run
  with two generations.

Bounds on counters: `MaxHeard` (announcements heard), `MaxGeneration` (sends
started); `asking` and the updates under way are bounded through them. Nothing
else needs one: handlers and requests run once, and an identity or a share is
started at most once.

`Undisturbed` (no offer withdrawn without a session id, no handler overtaken by
`session_timeout`) is the premise of `UndisturbedOwnsSlot` and
`UndisturbedRecorded`. It is a condition on what happened, not on the instance:
the same run also explores the behaviours that break it, where the other
properties still have to hold. Without it the two fail, and
`server_publishing_lost` shows how.

`TuiApp`'s `TypeOK` is in its run because it is not obvious there: a send
record's message is a text, never empty, although a retry takes it from a screen
that the user may have emptied. It is a theorem too, as every module's `TypeOK`.

Deadlock is checked where time or processes always go on (*pin* and
*tls_identity*). `CHECK_DEADLOCK FALSE` is set elsewhere: requests run once, a
search ends, a stopped server and a left interface do nothing, and when every
request has been served there is nothing left to do. That nobody waits for ever
is what the liveness properties say.

Symmetry (uploads, handlers) is used in `lifecycle` and `server_open` only,
which check no liveness.

## Fairness

Each run below assumes weak fairness of the steps named, for they stay enabled
until they happen or become unnecessary, except where strong fairness is
mentioned. None assumes that a client, a user or a remote device does anything,
except for the one line about the interface.

- *server_live*: the clock and the sweep tick (`spawn_session_sweep` loops on
  an interval for as long as the server runs), the accept timeout fires
  (`tokio::time::sleep` in the select), a running handler gets from one await
  to the next, the guard's spawned task runs, and jobs of the blocking pool
  end. For `Ask` it assumes that the host drains the event channel or drops
  its receiver: with a full channel nobody reads, `send().await` would wait for
  ever. It does *not* assume that a user answers, a sender uploads, a body
  ends or a dropped connection is noticed.
- *pin*: time passes; nothing about requests.
- *crosscopy*: the clock and the sweep tick, a handler that holds an owner
  gets the lock, `owner.cancel` returns, an upload whose receive returned gets
  to its end (the host drains its events), and the tasks `stop` aborts end. Not
  that the gate answers, that a body ends, or that anyone uploads, cancels or
  stops.
- *web_share*: handlers get from one await to the next, `accept_timeout` runs
  out, spawned tasks run, and the host drains its events and comes back from
  its own calls. Not that the host decides or a browser downloads.
- *tls_identity*: a process that runs goes on (or is killed). Taking the lock
  is *strongly* fair: another process may take and release it any number of
  times first, and what is assumed is that the operating system does not pass
  over a waiter for ever.
- *discovery*: every request has a timeout, sleeps end, at most five
  announcements are made, and the wait for a device is five seconds. Nothing
  about what the network delivers.
- *tui*: the loop goes round. The user decides, in the end, about a transfer
  on screen, strongly fair because the dialog can be answered in one of the four
  turns only. A send need not end: an upload has no timeout.

## The proofs

TLAPS checks these for every number of files, handlers, offers, uploads, peers,
receives, requests, shares, downloads, processes, hosts, devices and
interfaces, and every bound, without any assumption on behaviour; the only
assumptions are the named `ASSUME`s on the constants (`None` is not a file, an
offer offers at least one file, the series are functions, a share's files are
finite, and so on). TLC evaluates them in the runs.

Each proof module has one invariant, the lemmas that the initial states have it
and every step keeps it (one step per action), and theorems that follow from
it. Why the properties alone are not inductive:

- `ReceiveLifecycle_proofs`: `TypeCorrect`, `OneOwner`, `RecordedStays`,
  `LandsAtMostOnce`, `CancellationFinal`, `LifecycleImplementsDelivery`. The
  properties about files on disk and about owners are not inductive: the
  invariant `IInv` ties the phase of a slot to the handlers in it (a
  `Publishing` slot has exactly the handler that holds its permit, a `Published`
  one is recorded, a closed session has nothing in flight), and each theorem
  follows from it and one step.
- `StandardReceive_proofs`: `TypeCorrect` and `ReservationsAreHandled` from
  `BaseInv`, which also says that uploads are in sessions whose tokens were
  issued. `DoneAtMostOnce` and `DoneIsComplete` from `DoneInv`: a session that
  is done is out of the slot with its handler past settling, so nobody can
  install it again, and what is recorded has landed. `HoldInv` says what a
  handler knows of its slot whatever the senders do: a permit's slot is
  `Publishing` and has no second holder. `HandlersOwnTheSlot`,
  `PublicationKeepsSession` and `CancellerIsTheSender` from `CalmInv`: each
  handler's session is the installed one, a stale session has no handler at
  work, everything in flight is in the installed session and accepted but not
  yet recorded. `CalmInv` itself is not an invariant of the specification;
  `Undisturbed => CalmInv` is, since disturbance once it has happened is
  remembered (`DisturbanceStays`). The argument is that at most one handler is
  at work on the slot (`OneHandler`), so that the unconditional clears of the
  code hit a placeholder, which can always be cancelled.
  `LandedFilesAreRecorded` combines `CalmInv` and `HoldInv`: who comes back from
  the commit still has its slot `Publishing`, so its session is installed.
  `SessionsRunTheLifecycle` is the refinement: a step of an upload is that step
  of `ReceiveLifecycle` in its own session and a stutter in the others, every
  other step cancels the installed session or leaves the slots alone. What is
  proved of the lifecycle then holds of each session of the server: `OneSession`
  instantiates `ReceiveLifecycle_proofs` for any one offer (`Session`),
  `SessionRuns` shows that it runs `OneSession!Spec`, and
  `SessionsKeepThePromise`, `SessionsLandOnce`, `SessionsRecordForGood` and
  `SessionsCancelForGood` cite the lifecycle's theorems. So the abstract
  `SessionDelivery` is implemented by the server itself, in two steps.
- `FilesOnDisk_proofs`, on the two components that keep files. Of the sink
  `TypeCorrect`, `NamesAreExclusive`, `NoTornFile`, `ReceivedFilesStay`, from
  `SinkInv`: reservations are exclusive and still empty, and bytes are synced
  before they get a name. `CommitsAreDurable` adds `DurableInv` (what was
  published without a fault is settled, what is settled is under its name and
  outlives a power failure, `PowerKeepsSettled`); `LeavesNothing` adds
  `LeftInv`, which tells where the receive behind an empty file or a temporary
  is. Of the identity store `IdentityTypeCorrect`, `ToldStaysStored`,
  `ErrorsAreCaused`, `StagedCertsAreInUse` and the refinement
  `StoreIsOneIdentity`. A lock holder past its second look knows what the files
  are at each of its steps (`WriterKnowsFiles`), for nobody else writes; a
  reader that has seen the first half of a pair knows that the file still holds
  it; a half pair without its writer was left by a kill or a failure
  (`HalfIsExplained`).
- `PinGate_proofs`: `TypeCorrect`, `TableIsBounded` and `LockoutsHold`, with
  lemmas on what `make_room` returns: room for one (`RoomForOne`), and everybody
  who is still locked out, unless the table is full of live entries and it is
  the oldest that goes (`RoomySpares`). `GuessesAreLimited` is the budget. Alone
  it is not inductive, for nothing in it says why a peer that still has an entry
  may guess again: `Charged` does. A tracked peer's recent guesses are at most
  its count and none is younger than its entry, and a peer without an entry has
  none; so when an entry expires and counting starts again, every guess behind
  it is `LOCKOUT` old. That a guess is never mistaken for another of its age
  (`Numbered`) makes the set count guesses: `GuessesAreCounted`.
- `CrossCopyUpload_proofs`: `TypeCorrect`, `OwnerHasOnePlace`, `BarrierHolds`,
  `ReceiveStaysUnderControl`, `ReportsStayTrue` and the refinement
  `ServerKeepsCustody`. The invariant adds where the handler of a prepare is in
  each state of its owner, which upload has which owner, and that a cancel under
  way is awaited by someone. `stopping` and an installed owner exclude each
  other because `Install` looks at the flag under the lock that `stop` raises it
  under; that carries the refinement's one hard case, that a transfer never
  begins once the server is closing. Every other step moves at most the owners
  it names, and each of those along one edge of `OwnerCustody`.
- `WebShare_proofs`: `TypeCorrect`, `DownloadsArePermitted`,
  `ListsArePermitted`, `ParkedHandlersAreReachable`, `DoneIsComplete`. The key
  is `MapIsOfShare`: a session in the map was made in the running share, so a
  replaced share takes everything with it that an approval could count for. That
  equal numbers of files mean all files is a cardinality lemma, which is why
  `Files[s]` is assumed finite.
- `Discovery_proofs`: `TypeCorrect`, `StrangersAreToldNothing`,
  `SweepsAreExact`, `FoundDevicesAreConfirmed`, `ConfirmedDevicesAreKept`. That
  each listed device is listed once needs that a name which was heard has a
  *first* answer (`NamesHaveAFirstAnswer`), kept by each append. That this
  machine never finds itself needs that it is never asked (`asking[Own] = 0`).
  The invariants of the two composed modules are kept apart and each is shown to
  survive the other's steps.
- `TuiApp_proofs`: `TypeCorrect`, `RequestsStayOnScreen`, `LeftSendsAreSilent`,
  `DecidedOnce`, `EndsAreShownOnce`. For the requests the invariant says that
  each is in the event channel at most once, and until it was shown
  (`QueuedOnce`), and that the one on screen waits for its decision. For the
  sends it follows their one end: sent by a task that is over, it is in the
  back-channel at one place, or was acted on, or was dropped because the user
  had left the send (`EndsOnce`). That what was cancelled is of an earlier
  generation (`CancelledIsPast`) is why a new send is not silenced with the old.
  `DecisionsStand` and `EndIsShownOnce` are stated in this module.

Every invariant and every action property the runs check is stated by a theorem.
Only model-checked: liveness (`OfferIsAnswered`, `SlotIsReclaimed`,
`LockoutEnds`, `OwnerIsReleased`, `ReceivedIsReported`, `StopReturns`,
`AskIsAnswered`, `GrantTakesEffect`, `CompletionIsReported`, `CallReturns`,
`SearchEnds`, `PromptAppears`, `SendIsReported`), which is out of the prover's
reach, like anything with ENABLED. Recursive operators and induction over data
cannot be handled by the installed provers; no module here needs them.

## Where the code and its comments disagree

Each is a run that must end in a violation, and a finding in `PROJECT.json`.

- `server_publishing_lost`: `/cancel` without a session id frees the slot of an
  offer that has been accepted and has not settled. A second offer reserves the
  slot and is accepted too. The first settles in place of the second's
  placeholder, its sender uploads, and while the file is being published the
  second settles and replaces that session (handlers.rs:399–405, where the
  answer of `try_cancel_receives` is ignored), against handlers.rs:798–800.
  The decline and refusal paths (354–384) clear the slot in the same way; the
  run stops at the shortest behaviour, which does not go through them.
- `tui_pin_retries_other`: `retry_pending_send_with_pin` (app.rs:914) starts a
  send from what the screen holds when the PIN is entered. The 401 is taken
  early in a round of the loop and the prompt opens at its end; a key in between
  still edits the message, and the PIN goes with another message than the one it
  was asked for, against app.rs:64–65 ("retries the same send with it").

## Known limits

What the models allow because the code does, found while building them. No
property is stated that would exclude these.

- A handler dropped inside `pending.commit().await` drops its permit, the slot
  is `Ready` again, and a repeated upload publishes the file although the first
  rename still runs, and a cancel can succeed while a file of the session lands
  (compare session.rs:202–203 and 47–49). `LandsOnce` and `SessionDelivery`
  except uploads that were lost.
- A `/cancel` that comes after the decision was taken and before the reservation
  is cleared answers 200, and the offer is installed all the same (compare
  handlers.rs:903 and tests/conformance_reservation.rs:125–131).
- A handler dropped between clearing its reservation and settling leaves the
  placeholder in the slot until the sweep (compare handlers.rs:292).
- A call of `create`, `commit` or `abort` that fails or is dropped half-way
  leaves the empty reservation, the temporary or both, for `Drop` has nothing
  left to act on (compare sink.rs:202–203). `NothingLeftBehind` excepts the
  receives this happened to.
- An approval that `respond_web_share` puts in the channel after the timeout's
  last look and before the receiver is dropped answers `Ok`; the handler then
  removes the session, and the browser is refused (web_share.rs:249–260,
  server.rs:369). `GrantTakesEffect` excepts it.
- Wrong PINs older than `LOCKOUT` still count as long as they are fewer than
  `MAX_FAILURES` (compare pin.rs:189–190).
- A second protected upload overwrites the record of the active one, which
  cancel and stop then do not reach. `ReceiveIsUnderControl` excepts it.
- `stop` drops, rather than cancels, an owner whose cancel the sweep it aborts
  was awaiting; handlers outlive `stop`.
- A certificate that cannot be renamed leaves the staged key; a process killed
  between the two renames leaves a half pair, which is an error for every later
  start. `ErrorsHaveACause` says that nothing less is.
- The send and discover commands run multicast without a server, so devices
  that answer an announcement by registering with us are not heard. The
  callback's task hears nothing from before it first ran, and ends for good when
  it falls behind the channel; `NothingConfirmedIsLost` excepts both.
- In the TUI, a send that is superseded by one of the other screen leaves its
  screen's `is_sending` set; a send left with Esc goes on and may be sent a
  second time; `q` leaves the loop from a text input as well.

## What is not modelled

- The contents of messages, HTTP status codes beyond which branch is taken,
  hashes and sizes (a body that does not match is one that fails), file names
  beyond their identity, the spelling of collision names, the walk that creates
  directories, `constant_time_eq`.
- Progress events and the progress counter with its rollback; that events sent
  with `try_send` are dropped by a full channel. Web Share's static pages.
- The exact readings of `last_activity`: `GrowStale` may happen to a session at
  any time it may have been idle, which includes a long upload, for only a
  recorded file counts as activity (session.rs:256).
- Binding and the TLS listener, a `start` of a server that runs, and a second
  `start` of multicast discovery after `stop`. `HttpDiscovery`'s implementation
  of the `Discovery` trait is passive: a flag, and a channel nobody sends on.
  `MulticastDiscovery::add_device` and `scan`.
- The client's calls are modelled by their outcomes; streaming, rate limit and
  the trust policy (a pure decision) are left out.
- The CLI apart from `resolve_target` and `probe_device`: the rest of send is a
  sequence without branches but errors, receive and discover are loops over
  events.
- In the TUI: drawing, the device and file lists, the choice among offered
  files, a path that does not exist, and the tabs other than the two sends.
- Key generation and parsing of the TLS identity (a library's), and power
  failures there: the code syncs the two temporaries and not the renames.
- Pure code (types, builders, path safety, hashing): unit tests reach it better.
- Custom `ReceiveSink`s of a host; only the default one is modelled.

## Plan

Done, the most important behaviour first: the core (`ReceiveSlots` to
`PinGate`), CrossCopy with the server's stop, Web Share, the TLS identity,
discovery, and the TUI as the send flow with PIN prompt and retry; with the runs
and theorems above.

What would come next:

1. **Progress and events**: the bounded event channel, progress with clamp and
   rollback, the activity clock of a session.
2. **The send command** composed with the slot of the server as its
   environment: a failed upload ends it without a cancel.
3. **A second start** of a server that runs, and of a discovery that was
   stopped.
4. **Theorems**: that what a session recorded is a file of the sink, which needs
   `StandardReceive` composed with `AtomicFileSink`.
