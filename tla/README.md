# Formal models of the music-sharing server, its clients and the STP protocol

The repository is a small peer-to-peer music exchange. A server (`src/server`)
keeps users, published songs and the negotiation of downloads in one SQLite
database; two clients (`src/desktop_client`, `src/termux_client`) publish songs,
ask for them and approve requests; the file itself goes from the owner's
machine to the downloader's over STP (`src/stp`), a stop-and-wait protocol on a
TCP connection. This directory models that system in TLA+: the modules are
checked by TLC on small instances, and the theorems about them are proved by
TLAPS for every value of the constants.

## 1. The system

| component | state | operations | talks to | what makes it correct |
|---|---|---|---|---|
| **STP transfer** `stp/sender.py`, `receiver.py`, `chunker.py`, `integrity.py` | two state machines `_state`; the loop's `chunk_id` and attempts; the assembler's chunk table; damage counters; the output path | `handle_transfer_req`, `send_file`; `initiate_transfer`, `receive_file`, `send_resume_request` | each other, over one TCP connection | a reported delivery is the promised file; a chunk is not skipped; both calls end |
| **STP frames** `stp/protocol.py`, `encoder.py`, `decoder.py` | none | encode, decode, `recv_exact` | the socket | a frame that is read is a frame that was sent |
| **Negotiation** `server/services/negotiation_service.py` | table `download_requests` | request, approve, reject, report, poll | token store, logging, database | one decision per request, one active request per song and requester, answers survive a crash, a request reaches an owner whose client polls |
| **Peer tokens** `server/security/token_store.py` | table `peer_tokens` | create, verify | database | a token stands for one request; nobody who holds it is let in twice |
| **Database** `server/database.py` | one shared `aiosqlite` connection | execute, commit | every service | what is answered is on disk |
| **Router and transports** `server/router`, `server/network` | none that outlives a call | dispatch of an HTTP or QUIC message | every service | one answer per call |
| **Sessions, login** `auth_service.py`, `session_service.py`, `token_store.py` | table `sessions` | register, login, refresh, logout, hourly clean-up | database | what was answered is on disk; a session that was logged out of stays out |
| **Accounts** `profile_service.py` | tables `users`, `profiles` and all that refer to them | update, delete account | database | a username has one owner; `display_name` follows it; an account is deleted as a whole and stays deleted |
| **Peer registry** `peer_service.py` | table `peer_registry` | register, heartbeat (unregister has no caller) | database | a row belongs to an account |
| **Publishing, search** `publish_service.py` | tables `music_metadata`, `publish_history` | publish (then register), search | database | a row belongs to an account |
| **Desktop transfers** `desktop_client/core/transfer_manager.py`, `stp_provider.py`, `stp_downloader.py` | `_items`, `_downloaders`, the listener, handlers, `.part` files, the download folder | download, approve and send, cancel | server, the other client | only whole songs are in the folder; what the screen and the server say is what happened; the port and `.part` files are given up |
| **Termux transfers** `termux_client/transfer`, `command_controller.py` | background tasks, receiving thread | the same, on a command line | server, the other client | the same |
| **Termux control** `cli.py`, `command_controller.py`, `csp_client.py`, `auth_manager.py` | heartbeat task and failure counter; two token files and a profile file | login, logout, exit, edit and delete the profile; heartbeat | server | whoever is logged in is watched; a login is ended by its own failures; the files and the server's session belong together |

How they interact. The downloader asks the server (`request_download`) and
listens on its one port; the owner's long poll (`get_pending_requests`) shows the
request, the owner approves it (`approve_request`, which mints a peer token), the
owner's machine connects to the downloader's and sends the file; both ends report
the outcome (`update_transfer_status`). The deployed clients speak the frames of
`src/stp` over their own socket loops; the state machines of the library
`src/stp`, with retries, HMAC and resumption, are modelled apart.

What is hard in it:

* **Concurrency in the server.** Every call is a coroutine on one event loop,
  and *all* of them share one database connection: between any two `await`s the
  statements of other calls run, their uncommitted writes are visible, and
  anybody's `commit()` commits everybody's writes.
* **Two machines and a network.** The sender, the receiver, damage, socket
  timeouts and connection resets interleave. Answers carry a `chunk_id` that
  the sender never looks at, so a late answer is taken for the next one.
* **Crashes** of the server between a statement and its commit, and between the
  commit and the answer; clients that give up while the call goes on.
* **A file that changes** while it is hashed once and read again in pieces.
* **One port, shared names.** All downloads of a client bind one port and know
  each other by the song, and its files go by the name that the song's owner chose:
  a handler outlives its download's deadline, a second download takes over the first
  one's entry, two providers fill one `.part` file, of one song or of two that have the
  same file name.
* **A task in the background of a prompt.** The heartbeat logs the user out, while
  commands log in, log out and write the same files; it runs only when they wait.
* **An account that is deleted while it is used**, in seven tables tied by foreign
  keys, by statements that other calls' statements interleave with.

`PROJECT.json` lists each of these hazards at its line, with the properties
that would catch it, or the reason why none does yet.

## 2. The modules

| module | what it is |
|---|---|
| `StpTransfer` | one STP transfer: both threads, the connection, the owner's disk |
| `FileDelivery` | the abstract specification a transfer implements |
| `MCStpTransfer` | values for TLC |
| `StpTransferProofs` | theorems about `StpTransfer`: types, delivery, refinement, the end of the exchange |
| `StpExchangeProofs` | the theorem that no chunk is skipped |
| `StpFlightProofs` | the theorem that the exchange is stop-and-wait |
| `Negotiation` | the server's calls at `await` granularity, on the shared connection |
| `RequestBook` | the abstract specification: each call as one step |
| `MCNegotiation` | values for TLC |
| `NegotiationProofs` | theorems about `Negotiation` |
| `PeerTransfer` | the deployed clients' transfers, composed with `RequestBook` as their server |
| `MCPeerTransfer` | values for TLC |
| `PeerTransferProofs` | theorems about `PeerTransfer` |
| `PeerFolderProofs` | the theorem that the download folder is sound |
| `Accounts` | accounts, sessions, what they own, and their deletion, at `await` granularity |
| `MCAccounts` | values for TLC |
| `AccountsProofs` | theorems about `Accounts` |
| `TermuxSession` | the termux client's login: command loop, heartbeat, files, and the server's sessions |
| `TermuxSessionProofs` | theorems about `TermuxSession` |

### StpTransfer

One action is the code between two socket operations, so the other thread, the
network and the timeouts interleave exactly where they can.

| in the model | in the code |
|---|---|
| `sPc`, `rPc` | where each thread is: `sPc` runs `idle, recvReq, ready, send, wait, end, abort, ended`; `rPc` runs `idle, accept, ready, loop, verify, ended` |
| `sState`, `rState` | `STPSender._state`, `STPReceiver._state` |
| `hashed`, `source` | the file `send_file()` hashed, and the owner's file as it is now |
| `next`, `data`, `attempt` | the loops of `send_file()` and `_send_chunk_with_retry()` |
| `total`, `chunks` | `ChunkAssembler` |
| `retries` | `STPReceiver._chunk_retries` |
| `file` | the receiver's output path |
| `toR`, `toS` | the bytes under way, as frames with the fields the peer reads |
| `up`, `closed` | a reset has happened; which sockets are closed |
| `Sender*` actions | `handle_transfer_req`, `send_file`, `_send_chunk_with_retry`, one per answer that can arrive |
| `Receiver*` actions | `initiate_transfer`, `receive_file`, `_handle_chunk`, `_finalize_transfer`, `send_resume_request` |
| `CorruptChunk`, `Reset`, `ResetByClosed`, `EditSource` | the network and the owner's disk |

Chunks are members of a small set; a digest is represented by what it was
computed from (SHA-256 is taken to be injective, an HMAC additionally to be
worthless without the key). A timeout in the middle of `recv_exact()` drops the
bytes it had, and what remains of the frame is a `TORN` frame that does not
parse. Hashing the file and reading its first chunk are one step (`sender.py:253`,
`265`): an edit between them, and a file that vanishes during the transfer
(`sender.py:301`), are left out. A call that raises leaves the `_state` the code has given it: this is why
`NEGOTIATING`, `TRANSFERRING` and `VERIFYING` are possible final states.

### Negotiation

| in the model | in the code |
|---|---|
| `mem` | `download_requests` and `peer_tokens` as the shared connection sees them |
| `disk` | the same as committed; a crash sets `mem` back to it |
| `task[h]` | a coroutine: its call, its arguments, and the `await` it is at |
| `Call*`, `Abandon` | a client calls; a client stops waiting |
| `Poll` | the query of `get_pending_requests()` when it finds something new |
| `Request*`, `Approve*`, `Reject*`, `Report*`, `Verify*` | the statements of the five calls, one action per `await` |
| `Commit`, `Log`, `OtherCommit` | `db.commit()` of the call, of `logging_service.log()`, of another service |
| `Answer` | the answer of `dispatch()` to a client that still waits |
| `Crash` | the process is killed and started again |

A `SELECT` and the fetch of its row are one step: nothing is written between
them by this task, and a row that changes between them is a row that changes
right after. `SESSION_VERIFY` has no authentication and looks at no caller, so
`CallVerify` is open to whoever holds the token: the owner, who was answered with
it, and the downloader, to whom the provider sends it with TRANSFER_REQ
(`stp_provider.py:139`). `Desktops` are the users at a desktop client, whose poll
is repeated (`transfer_manager.py:229`); the termux client asks once for each
`requests` command and gives up after its 8 s (`csp_client.py:23`), which here is a
poll that may or may not come. Refusals that depend on tables outside the module (an unknown
song, an owner who is offline, an expired token) may happen at any time.

### PeerTransfer

An attempt is one download, from its request to the reports of both ends. Each
end runs the desktop or the termux client (`downloader`, `provider`); actions
named `Desktop*`, `Handler*` and `Cancel` are the desktop's, `Termux*` and
`Thread*` the termux client's, the others are the same in both.

| in the model | in the code |
|---|---|
| `status`, `tokenOf`, `token` | the server, as `RequestBook` (each call is one step of `Book!`) |
| `dl[d].task`, `.future`, `.listener`, `.cancelled` | `_do_download()` or the termux command's task; `done_future`; the socket on the one port; `STPDownloader._cancelled` |
| `entry`, `item`, `registered` | `TransferManager._items` by song, `TransferItem.status`, `_downloaders` |
| `up[u]` | `approve_and_send()` with `STPProvider.send_one()`, or `_bg_send()` with `send_file_to_peer()` |
| `link[u]` | the connection of an upload: frames under way, who has closed it, broken or silent |
| `hnd[u]` | `_handle_connection()` of the desktop, or the one connection of `serve_once()` |
| `folder`, `part`, `data` | the download folder, its `.part` files by name, and the contents of the files (a renamed file keeps its contents and its writers) |
| `Listen`, `Deadline`, `Wake`, `Report` | the wait of `listen_and_receive()` with its 180 s, and what follows |
| `HandlerReq`, `HandlerChunk`, `HandlerStopped`, `HandlerEnd` | `_handle_connection()`, one action per message read |
| `Connect`, `GetAccept`, `GetAck`, `GetNack`, `GetOther`, `SenderTimeout`, `UploadCut` | the provider, one action per answer |
| `RequestFails`, `ReportFails`, `StartFails`, `UploadReportFails` | a call to the server that gets no answer, served or not |
| `Damage`, `Break` | the network |

Decisions. The owner's file does not change during a transfer (`StpTransfer` has
that case). Files are told apart by the name that comes with the request and by
slot (`name`, `name (1)`, …). The name is the owner's choice (`NameOf`); nothing makes
it unique (`database.py:89`), so two songs may share one, and with it a `.part` file.
Files are not empty. `Cancel` is one step: `STPDownloader.cancel()` sets its flag and
resolves the future in two statements of the GUI thread, between which the loop may
run; a handler that saves the file there is one that saved it just before the
cancellation, and one that sees the flag fails the same future, as `cancel()` would. A
termux request cancels the task of an earlier attempt for that song (`Replaced`), not
its thread. The connection
attempts before the last one, and the pauses between them, are left out: only the
last outcome is visible. `sent` records that every chunk was acknowledged; no code
reads it. The entry that an upload has on the owner's screen is not modelled.

### Accounts

Like `Negotiation`: one shared connection, one action per `await`, commits of
anybody commit everybody's statements, and the server may be killed anywhere.

| in the model | in the code |
|---|---|
| `mem`, `disk` | the tables of an account, as the connection sees them and as committed |
| `Sound` | the `REFERENCES` clauses, checked at each statement (`PRAGMA foreign_keys`) |
| `task[h]` | a call: its user once that is known, its arguments, the table or step it is at |
| `drawn`, `opened` | the `user_id`s and sessions that have been created |
| `registered`, `held`, `left`, `gone` | what clients have been answered: accounts, sessions, logouts, deletions |
| `leaving`, `late`, `overlap` | whose deletion has begun; who got a row meanwhile; who was renamed while another call named them |
| `Admit`, `Admits`, `Valid` | `get_current_user()`, `_resolve_jwt()`, `verify_session_token()` |
| `Register*`, `Login*`, `OpenSession`, `VerifySession`, `RevokeSession`, `RefreshSelect`, `Cleanup*` | `register()`, `login()`, `logout()`, `refresh()`, `cleanup_loop()` |
| `Update*`, `Delete*` | `update_profile()`, `delete_account()`, a step for each statement |
| `PublishSong`, `PublishHistory`, `RegisterPeer`, `Download*` | the calls that insert rows of an account |
| `Write`, `Refuse`, `Commit`, `Log`, `Answer`, `OtherCommit`, `Restart` | a statement that may raise; the ends of a call; another service's commit; kill, start and `_migrate_schema()` |

A session stands for its token, its `jwt_secret` and the access tokens signed with
it. A wrong password and an expired access token are refusals that may always
happen. The rows that one user has in a table are one row; the foreign key of
`publish_history` and `download_requests` on one song is then one on having a song.
Three tables that `delete_account()` empties are left out, with its DELETEs from them:
nothing is ever inserted into `transfer_negotiation` and `download_history`, and
`peer_tokens` has no foreign key: no statement on it can be refused, and a row
that is minted during a deletion stays (section 5). Its tokens are in
`Negotiation`, which has no deletions. The foreign keys of `download_requests` are in
every database, because `init_db()` runs before `_migrate_schema()` (`main.py:34`).

The models allow what either transport does. Over REST a refresh is always refused
and a rename does nothing (section 5); `CallRefresh` and `CallAdmitted` let them be
what they are over QUIC. A registration shows the username, as both clients
send no `display_name`. An update with only a password skips the profile
(`StartsAt`).

### TermuxSession

One action of the client is the code between two `await`s of its one event loop.

| in the model | in the code |
|---|---|
| `cli`, `call`, `reply` | the `await` the command loop is at, the request it has sent and its answer; at `prompt` it is in `input()`, which blocks the loop; `off` is no process |
| `access`, `session`, `profile` | `tokens/access.jwt`, `tokens/session.token`, `profile/profile.json` |
| `hb`, `current`, `failures` | the tasks that run `_heartbeat_loop()`; `_heartbeat_task`; `_heartbeat_failures` |
| `accounts`, `created`, `owner`, `valid` | the server's users and sessions: a number stands for a session and both of its tokens |
| `late` | requests that the client has given up and the server may still get |
| `Begin*`, `*Returns` | `_login()`, `_logout()` and `exit`, `_delete_profile()`, `_edit_profile()` with its two calls, any other call |
| `HeartbeatWakes`, `HeartbeatSucceeds`, `HeartbeatRefused`, `HeartbeatTimesOut` | the pieces of `_heartbeat_loop()` |
| `Start`, `Quit`, `ExitLoggedOut` | `run_cli()`: its start, end of input, and `exit` |
| `Killed`, `KilledInSave`, `KilledInLogout` | the process is killed, also between two of the three file operations of a login or a logout |
| `Grant`, `Revoke`, `DeleteAccount`, `Admits`, `Expire` | what `Accounts` has statement by statement, as one step each |
| `blamed`, `torn`, `quiet` | history: whose heartbeats were counted; a kill between two file operations; nothing lost or killed so far |

Decisions. Time is left out: a sleep or a deadline may end whenever the loop runs. An
answer that is lost and one that comes after the deadline are the same to the client;
the request may reach the server, at once or later (`Abandon`). Kills leave a file whole
or not written. `refresh()` has no caller in this client. Transfers in the background
are `PeerTransfer`'s; they send "other" requests.

### FileDelivery and RequestBook

`FileDelivery` says what a transfer promises without saying how: the sender
fixes a file, each end reports once, the receiver's output path changes only
between the two reports and not after the second, and "delivered" implies the
promised file. `RequestBook` has one atomic step per call. `StpTransfer` and
`Negotiation` instantiate them with a refinement mapping (`Delivery`, `Book`)
and state the implementation as `ImplementsDelivery` and `ImplementsBook`;
`PeerTransfer` uses `RequestBook` as its server, so that its steps are those of
clients that wait for the answer to each call, or lose it.

## 3. The runs

| run | property | what it shows | bounds |
|---|---|---|---|
| `stp_faults` | `TypeOK`, `DeliveredIsPromised`, `NoChunkSkipped`, `InFlightBounded`, `ImplementsDelivery`, `WorkRunsOut`, `Terminates`, `DamageRepaired` | whatever goes wrong once, a reported delivery is the promised file, both calls end and both sockets are closed; as long as no timeout strikes, the unread `chunk_id`s do no harm; fewer damaged chunks than `max_retries` never cost the transfer; every step, faults included, leaves less to do; a transfer implements `FileDelivery` | 2 chunks, 2 attempts, one fault of every kind and a second damaged chunk, right and wrong token, right and wrong chunk count, fresh and resumed, fairness of both threads |
| `stp_late_ack` | `VerifyingIsResolved` (violated) | timeouts shift the answers by one, a chunk is lost and the receiver ends in VERIFYING | two timeouts, one damaged chunk |
| `stp_resume` | `ResumeCompletes` (violated) | a resumed transfer never completes | no fault at all |
| `neg_concurrent` | `TypeOK`, `AnswerDurable`, `TokenOfItsOwn`, `NeverPendingAgain` | an answer is on disk, a peer token stands for one request, and a settled request stays settled, with overlapping calls, foreign commits, a crash and an abandoned call | 2 requests for one song, 3 tokens, 2 tasks, 4 calls |
| `neg_polite` | `OneDecision`, `OnePendingPerSong`, `OneUsePerHolder` | clients that wait for their answer before they call again cannot break them, even with two tasks and a crash: one decision, one pending request, and nobody who holds a token is let in twice | the same, 5 calls, `CallsAtOnce = 1`, no abandoned call |
| `neg_serial` | `ImplementsBook`, `RequestIsSeen` | one call at a time, with crashes and abandoned calls, is `RequestBook`; an acknowledged request is shown to an owner at a desktop client, or stops being pending | one task, 4 calls, fairness of tasks and of the desktop's polls |
| `neg_two_decisions` | `OneDecision` (violated) | two overlapping decisions about one request are both answered ok | 2 tasks, `CallsAtOnce = 2`, no crash |
| `neg_two_redemptions` | `TokenUsedOnce` (violated) | owner and downloader redeem one token at the same time and are both let in, although each waits for its answer | 1 request, 2 tokens, 2 tasks, 4 calls, `CallsAtOnce = 1`, no crash |
| `peer_transfers` | `TypeOK`, `FolderIsSound`, `SavedIsRight`, `ShownDoneIsSaved`, `NothingKept`, `CompletedIsBacked`, `CancelledIsNotReported` | with overlapping downloads on one port, deadlines, cancellation and lost reports, a download that succeeds has just saved its song whole, what is in the folder stays whole unless another song of that name is downloaded as well, success is shown and reported only with a reason, and port and `.part` files are given up | two downloads out of three requests (two of one song, one of another that has the same file name), 2 chunks, 2 variants of the name, one fault or cancellation, three pairings of clients |
| `peer_live` | `AttemptsRunOut`, `DownloadEnds`, `RequestsSettle` | whatever happens to an attempt leaves it less to do; every download ends, and its request does not stay pending or in progress unless a report was lost or a connection is silent | one download, two faults, all four pairings, fairness of both machines |
| `accounts` | `TypeOK`, `AnswerKept`, `LogoutIsFinal`, `DeletedIsGone`, `NamesAgree`, `DeletionRaisesOnlyLate` | overlapping calls, foreign commits, expiry, clean-up and a crash do not lose what was answered, revive a session or a deleted account, share out a name, or break the order of a deletion | three users and names, two with data at the start, 2 tasks, 3 calls, 3 sessions, one expiry, one crash |
| `termux_session` | `TypeOK`, `HeartbeatIsHeld`, `LoginIsWatched`, `FailuresAreOfThisLogin`, `FilesAgree`, `NoSessionLeaks`, `DeadLoginEnds` | in any order of commands, automatic log-outs, deletions, restarts and kills there is one heartbeat; it counts the failures of its own login; the files are of one login; no session is left open at the server; a login that the server has ended is ended at the client, if the user goes on giving commands | 2 users, 2 tasks, 2 sessions, 2 failures, one late request, one kill, fairness of calls and heartbeat |

Why these bounds. A chunk number can be confused only with its neighbour's,
because at most one exchange is under way plus one for each timeout
(`InFlightBounded`): two chunks show every confusion, and `stp_late_ack` needs
no third. Two attempts are enough for a retry and for giving up. One fault of
each kind gives every combination of different faults; the runs about one kind
allow two of it. In the server, the interesting interleavings are those of two
calls about one row or about two rows of the same song and requester: two tasks,
two requests; three tokens allow an approval after two others. Four calls are
enough for request, request, approve, and a report, rejection or verification, or for
a request, its approval and two redemptions of its token.
In `peer_transfers` the
interference is between two downloads, of one song or of two; one file name for all
songs makes every two downloads meet in the folder; two chunks are the
least that lets a `.part` file hold pieces of two writers. The fourth pairing, a
termux provider that sends to a desktop downloader without waiting for
TRANSFER_ACCEPT for ever, has some 5.6 million states with two downloads, too many
for a run that is repeated often: `peer_live` has it with one download, and the
theorems have every pairing, for every number of downloads. In `accounts` three calls allow a deletion against a
login, publication, request or update, and a third call that finds what they left;
the account and requests of the start save the calls that would make them.
In `termux_session` a
heartbeat may outlive its login and be met by another one's: two tasks, and two
sessions, of one user or of two; two failures are one that counts and one that logs out.
All counters that would grow (`used`, `calls`, `crashes`, `timeouts`) are
bounded by constants that the modules name as bounds.

Fairness. `StpTransfer.FairSpec` is weak fairness of each thread: a thread waits
for nothing but its socket, and data, end of the connection or the socket
timeout ends that wait. Nothing is assumed about the network. `Negotiation.FairSpec`
is weak fairness of each task (the event loop runs every ready coroutine) and of
the poll of each owner at a desktop client, which repeats it for as long as the user is
logged in (`transfer_manager.py:229-242`). Nothing is assumed of an owner at a termux
client, who asks only by hand. `PeerTransfer.FairSpec` is weak fairness of each download's task, each
handler or thread, and each upload: event loops and threads run, and their
deadlines and socket timeouts pass. For a termux client this takes for granted that its
user goes on giving commands that wait for the server, because its prompt blocks the
event loop (`TermuxSession` shows what follows when nobody does). Nothing is assumed about owners and the
network; a request that no owner looks at ends with the downloader's deadline. Crashes
and abandoned calls remain possible. `TermuxSession.FairSpec` is weak fairness of the
command that waits, since every call has a deadline (`CSP_REQUEST_TIMEOUT`), and strong
fairness of the heartbeat, since a loop that runs again and again does what is due;
`DeadLoginEnds` states its own condition on the user: the client stays up, and commands
that wait for the server are given again and again.

`CHECK_DEADLOCK` is on everywhere: `Stop` and `Quiet` name the states in which
the system may rest, and TLC finds no other state without a step.

## 4. The theorems

The theorems hold for every value of the constants that the assumptions
`StpAssumption`, `NegotiationAssumption`, `PeerAssumption`,
`AccountsAssumption` and `TermuxAssumption` allow. They ask for little: that the sets are not confused
with the null values, that bounds are numbers, that a file has a chunk and the
folder two names, that the data of the start obey the database's constraints.
`NegotiationAssumption` asks for a finite set of tasks, because a call's number
is bounded.

### `StpTransferProofs`

* `TypeCorrect`: `Spec => []TypeOK`. The inductive invariant is `TypeInv`, which
  adds to `TypeOK` that a sender on a chunk has a chunk number of the file and its
  bytes (`OnAChunk`: the loop's guard is what keeps it), and that the END frame
  stays in front of a verifying receiver (`EndAtHand`: the network cannot take
  back a frame that has been read).
* `DeliveryCorrect`: `Spec => []DeliveredIsPromised`, for every file, every number
  of chunks and attempts, and any number of faults. The invariant is `PromiseInv`:
  an END frame under way carries the hash of the file the sender hashed, and its
  sender has ended as COMPLETED (`EndIsPromise`); a receiver that is COMPLETED
  holds that file and has ended (`CompletedIsPromise`). Neither can be dropped:
  the property speaks about `hashed`, and only the END frame ties what the
  receiver compares to it. `SenderEnded` and `ReceiverEnded` say that an ended
  side takes no step that changes its verdict.
* `DeliveryImplemented`: `Spec => ImplementsDelivery`. Every step is classified by
  what `FileDelivery` sees of it (`SenderVisible`, `ReceiverVisible`); writing
  and delivering need `PromiseInv`, because the abstract receiver does both only
  after the sender's report.
* `TransferRunsOut`: `Spec => WorkRunsOut`. `Work` adds up what a transfer may still
  do: faults, transmissions of the retry loops, the stages of the two calls, frames
  under way, sockets and the connection. Every step lowers it, because a frame to the
  receiver is answered by one frame at most, an answer makes the sender go to a new
  attempt or a new chunk, and there are finitely many of both. `WorkInv` adds to
  `TypeInv` what keeps it a natural number (`Budget`: no loop passes its bound, no kind
  of fault its limit). So no run goes on for ever, with no fairness at all; that
  it does not stop too early is TLC's deadlock check.

### `StpExchangeProofs`

* `NoChunkIsSkipped`: `Spec => []NoChunkSkipped`. `send_file()` takes any CHUNK_ACK
  for the acknowledgement of the chunk it is on. The invariant `ExchangeInv` says
  why that is right until a timeout strikes: a chunk or its answer is under way,
  never both, and it is the chunk the sender waits for (`Outstanding`); chunks
  below it are stored. This needs the handshake to be over exactly once
  (`Handshake`: a second TRANSFER_REQ would be taken for a refusal of the chunk and
  repeat it), and it needs the resumed transfers out of the way, whose senders
  skip chunks without an acknowledgement (`ResumeFails`: they all die in the
  receiver's assembler). The steps are sorted into those of bystanders, those of a
  sender that gives up, and the twelve that move a request, a chunk or an answer.

### `StpFlightProofs`

* `StopAndWait`: `Spec => []InFlightBounded`. `Count` is how many frames of some types
  a channel holds; there is a lemma for what each operation on a sequence does to
  it. `FlightBound` adds what the sender knows: nothing is under way before its
  first chunk, and when it is about to send a chunk there is at most what timeouts
  have made it leave behind. That it has then read a whole answer, and not the
  receiver's TRANSFER_REQ, which it would take for a CHUNK_NACK, is `RequestFirst`: the
  request is the receiver's first frame, and read before any chunk is sent.

### `NegotiationProofs`

* `TypeCorrect`: `Spec => []TypeOK`.
* `AnswersSurvive`: `Spec => []AnswerDurable`, and
* `SettledForGood`: `Spec => NeverPendingAgain`. The invariant is `BookInv`. A row on
  the shared connection is never behind the row on disk (`MemAhead`, in the order
  of a row's life), so that neither a foreign commit nor a crash takes a settled
  row back; a call's program counter says what it has read and written
  (`TasksSound`); a `request_id` is inserted by one call only (`DrawnOnce`); what
  has been answered is on disk (`AnswersKept`).
* `PoliteDecisions`, `PoliteRequests`, `PoliteTokens`: if `CallsAtOnce = 1` and
  `MaxTimeouts = 0`, that is, if every client waits for the answer to its call,
  then `Spec` implies `[]OneDecision`, `[]OnePendingPerSong` and
  `[]OneUsePerHolder`, however the calls of different clients interleave, and with
  crashes. The hypotheses are those of the run `neg_polite`, and needed: without them
  TLC refutes all three (section 5). `PoliteInv` adds to `BookInv` that each client has
  one call (`Alone`), and for each property that a call past its check has no rival
  that was answered (`DecidedOnce`, `PendingOnce`, `TokensApart`, `RedeemedOnce`): a
  rival could only be another call of the same client, because the code lets only the
  provider decide and only the requester ask. Redeeming is open to everybody who
  holds the token, so waiting bounds it for each of them alone: `TokenUsedOnce` is
  false even then (`neg_two_redemptions`).

* `TokensStandForOne`: `Spec => []TokenOfItsOwn`, with no condition on the clients. The
  property speaks of the disk and of answers; `OwnInv` follows a token through
  everything that may tie it to a request (`Bears`: the row in memory and on disk, an
  approval that has drawn it and not yet written it, an answer) and says that all of
  them name one request (`OneBearer`), and that a row's token was issued before the row
  was written (`RowsHold`), so that a crash or a foreign commit in between keeps the
  token without the row, never the row without the token.
* `SerialImplementsBook`: if no other service commits, `Spec /\ []OneCall =>
  ImplementsBook`; `OneTaskImplementsBook` draws the conclusion for a server with one
  task, which is the run `neg_serial`. `Serial` says that the one call under way
  accounts for every difference between the connection's tables and the disk (`Whole`),
  and that what it has read is still so when it commits (`Ready`). A commit is then one
  step of the book (the two commits of an approval are `Issue` and `Approve`) and
  every other step a stutter, a crash among them. Both hypotheses are needed: a second
  call, or a foreign commit in the middle of a call, puts half of it on disk.

### `PeerTransferProofs`

The inductive invariant is `Inv`. Besides types it says what is known of a
download before it listens, when it is cancelled and when it has its verdict
(`TasksInv`), that a connection is untouched before its upload opens it and that a
success is only reported after the last acknowledgement (`UploadsInv`), whom a
handler serves (`HandlersInv`: without the comparison of `music_id` a handler would
not be known to serve its own song), and that every `.part` file has a handler
that will rename or remove it (`PartInv`).

* `TypeCorrect`; `NothingIsKept`: `Spec => []NothingKept`, from `NoPartIsLeft` and
  `PortIsFreedForTheNext`, which follow from `Inv`.
* `SavedIsTheSong`: `Spec => SavedIsRight`, an action property. The step that makes a
  success of a download is the one that has compared the hash and renamed the file
  (`SavesStores`; `FutureSteps` and `SavedBySaves` say who may set a `done_future` and
  when), so the song is whole at that moment, even if another song has its name.
* `ShownDoneIsInTheFolder` and `CompletedHasReason` relate what is reported to what
  was done before: a name in the folder is not given up (`StoredStays`), so that
  there is still a file for a success (`SavedStays`), and an acknowledged upload stays
  so (`SentStays`).
* `CancelledStaysUndone` is an action property: a cancelled download's future is
  never `saved` afterwards, because `cancel()` and the handlers set it only once.
* `AttemptsEnd`: `Spec => AttemptsRunOut`. `Left` adds up what an attempt may still
  do: the stages of its task and listener, of its upload, the transmissions of its
  chunks (two of each at most), its handler and the frames under way. A frame is paid
  for by who sends it (`SendLess`, `AnswerLess`): the handler answers what it has
  taken, the provider sends for a chunk, or a repetition, that it has one less of.
  `DownSteps` is about the downloader and `RestSteps` about the rest; a step about two
  attempts, a connection to another one's listener or a thread that returns and resets
  its backlog, lowers each that it changes. It needs that a task starts without a
  future (`TasksInv`), that an upload connects at most once (`UploadsInv`), that a
  thread's download is still pending when it returns (`HandlersInv`) and that a chunk
  that is repeated has been sent (`Sending`). A fault may leave the same to do, but
  not more, and there are `MaxFaults` of them. So the clients cannot keep each other
  busy for ever, with no fairness at all; that they do not stop too early is
  `DownloadEnds`. `peer_live` shows it for one download; that downloads which overlap
  lead into no cycle either is what the theorem adds.

### `PeerFolderProofs`

* `FolderStaysSound`: `Spec => []FolderIsSound`. A handler may still write to a file
  that another one has verified and renamed, when both had the `.part` file of that
  name. `FilesInv` says that each file has one name, and that its writers send songs of
  that name. If only one of these has been asked for (`Unshared`), its writers send
  that one (`WritersSong`; by `HostedInv` a handler serves a download that was started,
  and it compares the `music_id`), so a late write puts a chunk where that chunk
  already is. This needs the chunks of each connection in their order, which
  `ExchangeInv` gives: at most one chunk or answer is under way, the chunk is the
  handler's next, and the answer is about the chunk the provider waits with. It
  holds even for the termux provider, which starts without TRANSFER_ACCEPT:
  an acceptance that arrives late is not taken for an acknowledgement. The
  condition is needed: without it the property is false (section 5).

### `AccountsProofs`

`Inv` is the conjunction of `Typed` (with `Good`: both the connection's tables and the
committed ones obey the foreign keys and the UNIQUE constraints, and hold only
what was created; and with what a call at each statement knows of its arguments),
`EffectInv` (what a call that is past its write, or past its commit, has in effect),
`ToldInv` (what clients have been told is in effect in memory and on disk) and
`LateInv` (the tables that a deletion is past hold nothing of its user, unless
somebody was late). There is one lemma for each statement on a database
(`PutName`, `PutSession`, `EndSessions`, `PutRow`, `TakeRows`, ...); it gives
`Good` for what the statement leaves, and what it never undoes (`Keeps`, `NoMore`).
Every step is then a statement, a commit, or the loss of what is not on disk.

* `TypeCorrect`, and with it that no step meets a database that breaks a constraint.
* `AnswersAreKept`: a registration or a session that was answered is on disk until
  its owner leaves. `ToldInv` cannot do without
  `EffectInv`: an answer is given some awaits after the commit.
* `LogoutStaysFinal`, `DeletedStaysGone`: a session logged out of admits nobody, and a
  deleted account has no row left in a table with a foreign key to it, although calls
  that were admitted before are still under way and other calls commit in between.
  `peer_tokens` is not such a table (section 5).
* `NamesStayUnique`: no two accounts share a name, whichever registrations and
  renamings read before others write: the UNIQUE constraint decides.
* `NamesStayInStep`: `Spec => []NamesAgree`, which is that and `NamesInStep`.
  `display_name` is written one statement after `username`, by an update and by a
  registration. `NamesInv` says that a call between the two still has the name that
  the account has, unless another one renamed it meanwhile (`NamersKnow`); that the
  connection's tables disagree only during an update (`NamesInMem`); and that the disk
  disagrees only until that update's commit (`NamesOnDisk`). `NameMove` lists what one
  step can do to a user's two names. The users excepted are those in `overlap`, which
  the next start empties, because `_migrate_schema()` writes the names again.
* `DeletionOrderIsRight`: a deletion raises only if somebody got a row in a table that
  it had already been through: the order of its statements is right.

### `TermuxSessionProofs`

`Inv` relates the command loop, the heartbeat, the files and the server. What a command
waits for is what it asked for, with the tokens that are on disk, unless an automatic
log-out has removed them (`CallInv`); what an answer has changed at the server holds
until it is read (`ReplyInv`); what the running heartbeat has counted, or is waiting for,
is about the session on disk or about a deleted account (`BlameInv`). The three
lemmas `UserEffect`, `CommandEffect` and `CrashEffect` say what a step of each kind does to
heartbeat and files, and that starting beside a running task and stopping leave no other
(`HeldIsAlone`); the steps are then proved from them.

* `TypeCorrect` needs `CountInv`: a task that has counted to the limit has ended.
* `OneHeartbeat`, `EveryLoginIsWatched`: the automatic log-out ends its task, and
  `logout()` stops it before it waits; a deletion does neither, and the task ends when it
  wakes, unless a login has taken it over.
* `OwnFailuresCount` follows from `BlameInv`: a deletion is the one way to a new login
  beside an old heartbeat.
* `FilesStayTogether`: a profile that `edit-profile` writes after an automatic log-out is
  replaced by the next login, because a login writes all three files.
* `NoSessionIsLeaked` rests on `QuietInv`: a heartbeat that was refused is about a session
  that the server has ended, so that logging out without telling the server is right.

Only model-checked: the liveness properties (`Terminates`, `DamageRepaired`,
`RequestIsSeen`, `DownloadEnds`, `RequestsSettle`, `DeadLoginEnds`), which need
fairness and `ENABLED` and are out of the prover's reach, and the absence of deadlock.
Every invariant and every action property of a run that passes is stated by a theorem.

## 5. Findings

Four are runs of their own that TLC refutes, and rows of `findings` in
`PROJECT.json` with the line they contradict.

1. A TRANSFER_END with chunks missing leaves the receiver in VERIFYING
   (`stp_late_ack`); it is reached because the sender takes a late ACK for the
   next chunk's.
2. `initiate_transfer(resume_from > 0)` cannot succeed: the sender answers with
   `total_chunks = 0`, which the assembler refuses (`stp_resume`).
3. Two overlapping decisions are both answered ok, because the row is selected
   as pending and updated some awaits later without that condition
   (`neg_two_decisions`). Two overlapping `request_download()` calls leave two
   pending rows, and a client redeems a peer token twice, for the same reason: with
   `CallsAtOnce = 2` the run `neg_polite` refutes `OnePendingPerSong` and
   `OneUsePerHolder` as well.
4. Owner and downloader hold the same peer token and can both redeem it
   (`neg_two_redemptions`): `verify_peer_token()` reads `used`, awaits, and sets it
   without that condition, where `token_store.py:11` says a token authorises exactly one
   transfer. The clients would only have to call at the same time; the ones that
   are deployed do not call `SESSION_VERIFY` yet.

Other behaviours of the code that the models show and that a reader of its
documentation would not expect:

* A RESUME_REQ in mid-transfer fails the transfer (`SenderGetResume`), where
  `stp/sender.py:215` says it fast-forwards.
* A request that is superseded between the SELECT and the UPDATE of its approval
  is approved all the same (`ApproveUpdate`), even when every client waits for its
  answers.
* The automatic rejection after a failed search for the file is always refused: both
  clients look for the file after they have approved (`main_window.py:503`,
  `command_controller.py:657`), and `reject_request()` rejects only what is pending
  (`negotiation_service.py:310`), where its docstring says it is "called automatically" for
  that case (`RejectSelect`).
* `update_transfer_status()` does not look at the status it replaces
  (`ReportUpdate`), where `negotiation_service.py:168` lists valid transitions.

Transfers between clients:

* The termux receiver does not look at `music_id` (`ThreadReq`): a thread left over from
  an earlier download can receive another song, whose request is then reported
  completed. A third file of a name replaces the second.
* Cancelling a termux download does not free the port, as
  `command_controller.py:517` says it does: the thread keeps it until its accept times
  out, and a retry that comes earlier fails and reports "failed" (`TermuxRequest`,
  `Listen`).
* Two desktop downloads of one song share a `transfer_id`: the second takes over the
  first one's entry in `_downloaders` even when its own bind fails, and whichever
  ends first removes it; the cancel button then does nothing (`Listen`, `EndTask`).
* A lost answer to the report "completed" makes the desktop report "failed", over a
  file that is saved (`ReportFails`); so does the 180 s deadline when the handler
  finishes after it (`Deadline`, `HandlerEnd`). Two handlers of one song may leave
  its entry at FAILED after DONE.
* Two songs of one file name share the `.part` file, and `os.replace()` goes by name. A
  handler that outlives its download's deadline may take the other song's file for its
  own, or write a chunk into it after that one was verified, renamed and shown as done:
  without `Unshared` TLC refutes `FolderIsSound`, in 24 steps. The download itself had
  succeeded rightly (`SavedIsRight`).
* The downloader of a rejected request waits for its deadline and then overwrites
  "rejected" with "failed".
* The desktop provider, and the termux receiver once it has accepted, have no socket
  timeout: a silent connection holds them for ever (`Silent`).

Accounts:

* A peer token that is minted while its user is being deleted stays, where the
  docstring of `delete_account()` says "all associated data"; `get_current_user()` and
  the calls it admits run to their end after a logout or a deletion, so that an
  update with only a password is answered ok for an account that is gone.
* After a second login the access tokens of the first session are refused, and a
  refresh does not help: `get_current_user()` checks them against the newest session
  of the user (`Admits`). It does not look whether that session has expired.
* Over REST, `/session/refresh` is always refused: it passes no user
  (`rest_server.py:175`) and its message type is not among those that need none
  (`message_router.py:60`). A rename over REST is answered ok and does nothing, because
  `UpdateProfileRequest` has no `username` (`schemas.py:115`).
* Overlapping updates leave `display_name` different from `username` until the next
  start, where `profile_service.py:17` says they are always in sync
  (`NamesInStep` says when they are). A registration does the same when its INSERT
  INTO profiles comes after the new user has logged in and renamed the account, which the
  shared connection makes possible: the old name is then shown. When that update
  has also made the profile's row, the INSERT raises (`RegisterProfile`).
* A deletion that raises leaves its earlier statements uncommitted, and the next
  commit of any call makes them final. In the same way a login can succeed for an
  account whose registration is not committed yet.
* A heartbeat that the server refuses does not log the termux user out at once, as
  `command_controller.py:357` says: the refusal reads "Authentication required."
  (`quic_server.py:129`), and the loop looks for other words (`IsAuthError`). It counts as a
  failure, and the third one logs out, as if the server could not be reached.
* No heartbeat is sent while the termux client waits at its prompt, where
  `command_controller.py:352` says "every HEARTBEAT_INTERVAL seconds": `input()` blocks the
  event loop (`LoopRuns`). Transfers in the background stand still as well.
* In the termux client, a login after `delete-profile` takes over the old heartbeat with the
  failures it has counted, and one that is still waiting for an answer to the deleted
  session may count for it, or end it while the new session stays open at the server: this
  is why `FailuresAreOfThisLogin` and `NoSessionLeaks` speak of deletions.
* A login or logout that the server carries out after the client's deadline leaves a session
  at the server that nobody uses, until it expires.
* `unregister_peer()` has no caller: nobody goes offline. No row is ever written to
  `transfer_negotiation` and `download_history`.
* An exception in the QUIC handler sends no answer. If `cleanup_loop()` raises, `main()`
  shuts the server down, as it waits for its first task to end.

## 6. What is not modelled, and why

* Byte layout, size limits and the negotiated chunk size of STP: the receiver
  takes the chunk size from configuration, and no property tells sizes apart.
* A `sendall()` that blocks until the socket timeout: with stop-and-wait there
  is at most one frame per outstanding exchange, far below a socket buffer.
* Password hashing, the encoding of JWTs, the parsing of HTTP and QUIC messages, the
  columns that `_migrate_schema()` adds: pure functions or start-up. What depends on
  their outcome is a refusal that may always happen.
* Searches and listings: they read one table and change nothing.
* The older direct flow of the desktop client (`core/stp_sender.py`,
  `core/stp_receiver.py`): no module imports it.
* The clocks of the termux client: the 8 s of a request and the 28 s of the server's long
  poll are compared by no property. Its catalogue file and listings: they are read and
  written by one command at a time.
* The desktop's windows and styles: layout.
* `PROJECT.json` gives the status of every component.

## 7. Plan

In order of importance; 1 to 5 are done.

1. `StpTransfer`, `FileDelivery`: the protocol, checked and, but for liveness,
   proved.
2. `Negotiation`, `RequestBook`: the server's core; checked and, but for liveness, proved,
   the implementation of `RequestBook` included.
3. `PeerTransfer`: the deployed providers and downloaders of both clients, composed
   with `RequestBook`; checked and, but for liveness, proved.
4. `Accounts`: sessions, accounts, what they own, and their deletion, as statements on
   the shared connection; checked and proved.
5. `TermuxSession`: login, heartbeat, files and sessions of the termux client; checked
   and, but for liveness, proved.
6. The long poll against the client's timeout. `ChunkPlan`: the pure functions of the
   chunker against a reference definition. The older direct flow of the desktop client last.
