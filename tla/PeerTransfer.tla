---------------------------- MODULE PeerTransfer ----------------------------
(***************************************************************************)
(* The transfers of the two clients, as deployed: a downloader asks for    *)
(* songs one after another, their owners approve and connect to the one    *)
(* port the downloader listens on.  The server is RequestBook, one step a  *)
(* call; a call whose answer is lost may or may not have been served.      *)
(*                                                                         *)
(* Either end runs either client, desktop or termux.  An attempt is one    *)
(* download: its task at the downloader, its request at the server, and    *)
(* the upload its owner starts when it approves that request.  Files have  *)
(* at least one chunk; their names are their owners' choice, and files of  *)
(* two songs may have one name.                                            *)
(***************************************************************************)
EXTENDS Naturals, Sequences, FiniteSets

CONSTANTS
  Setups,       \* the clients that downloader and provider run
  Songs,
  Names,        \* the file names owners may give their songs
  NameOf,       \* the file name the owner of a song sends with it
  Attempts,     \* downloads, and their request_ids
  SongOf,       \* the song an attempt is for
  NoAttempt,
  Chunks,       \* chunks of a file
  Slots,        \* bound: what _safe_download_path() can make of a name
  FirstSong,    \* bound: the song of the first attempt, as the songs are alike
  MaxAttempts,  \* bound: attempts that are made
  MaxFaults     \* bound: faults and cancellations in a behaviour

Clients == {"desktop", "termux"}

ASSUME PeerAssumption ==
  /\ Setups \subseteq Clients \X Clients
  /\ SongOf \in [Attempts -> Songs] /\ NameOf \in [Songs -> Names]
  /\ NoAttempt \notin Attempts /\ FirstSong \in Songs
  /\ Chunks \in Nat \ {0} /\ Slots \in Nat \ {0, 1}
  /\ MaxAttempts \in Nat /\ MaxFaults \in Nat

Signals == {"REQ", "ACCEPT", "ACK", "NACK", "END", "FAIL"}
Frames ==
  [type : Signals, n : {0}] \union [type : {"CHUNK", "BAD"}, n : 1 .. Chunks]
Frame(type) == [type |-> type, n |-> 0]
Chunk(n) == [type |-> "CHUNK", n |-> n]

\* A connection: what is on its way in each direction, and who has closed it.
Links ==
  [st : {"none", "open", "reset", "silent"}, closed : SUBSET {"up", "down"},
   toDown : Seq(Frames), toUp : Seq(Frames)]
NoLink == [st |-> "none", closed |-> {}, toDown |-> <<>>, toUp |-> <<>>]

\* The contents of a file: a piece of some song in every place, or nothing.
Hole == <<>>
Pieces == Songs \X (1 .. Chunks)
Whole(s) == [n \in 1 .. Chunks |-> <<s, n>>]
Blank == [n \in 1 .. Chunks |-> Hole]

VARIABLES
  downloader, provider,     \* the clients the two ends run
  status, tokenOf, token,   \* the server's book
  dl,         \* of an attempt: task, done_future, listener, cancelled
  entry,      \* TransferManager._items: the attempt a song's entry is about
  item,       \* TransferItem.status of an attempt
  registered, \* TransferManager._downloaders: whom the cancel button reaches
  up,         \* the upload of an attempt
  link,       \* its connection
  hnd,        \* who serves that connection, and how far it is
  folder,     \* the download folder: a file for every name and slot
  part,       \* the .part file of every name and slot
  data,       \* the contents of the files
  faults,
  lost        \* whether some report has been lost

server == <<status, tokenOf, token>>
ui     == <<entry, item, registered>>
files  == <<folder, part, data>>
vars   == <<downloader, provider, server, dl, ui, up, link, hnd, files, faults, lost>>

Optional == Attempts \union {NoAttempt}
Reports  == {"in_progress", "completed", "failed"}
Statuses == {"none", "pending", "superseded", "approved", "rejected"} \union Reports

Downloads ==
  [task : {"none", "asked", "waiting", "completing", "failing", "ended"},
   future : {"none", "pending", "saved", "error"},
   listener : {"none", "open", "taken"}, cancelled : BOOLEAN]
Uploads ==
  [pc : {"none", "approving", "report", "connecting", "accept", "ack",
         "completing", "failing", "ended"},
   n : 0 .. Chunks, again : BOOLEAN, stopped : BOOLEAN, sent : BOOLEAN]
Handlers ==
  [pc : {"none", "queued", "req", "loop", "ended"}, host : Optional,
   got : Nat, slot : 0 .. Slots, ino : Optional]

TypeOK ==
  /\ downloader \in Clients /\ provider \in Clients
  /\ status \in [Attempts -> Statuses]
  /\ tokenOf \in [Attempts -> Optional]
  /\ token \in [Attempts -> {"none", "fresh", "used"}]
  /\ dl \in [Attempts -> Downloads]
  /\ entry \in [Songs -> Optional]
  /\ item \in [Attempts -> {"NONE", "PENDING", "ACTIVE", "DONE", "FAILED", "CANCELLED"}]
  /\ registered \in [Songs -> Optional]
  /\ up \in [Attempts -> Uploads]
  /\ link \in [Attempts -> Links]
  /\ hnd \in [Attempts -> Handlers]
  /\ folder \in [Names -> [1 .. Slots -> Optional]]
  /\ part \in [Names -> [1 .. Slots -> Optional]]
  /\ data \in [Attempts -> [1 .. Chunks -> Pieces \union {Hole}]]
  /\ faults \in 0 .. MaxFaults
  /\ lost \in BOOLEAN

Init ==
  /\ \E c \in Setups : downloader = c[1] /\ provider = c[2]
  /\ status = [d \in Attempts |-> "none"]
  /\ tokenOf = [d \in Attempts |-> NoAttempt]
  /\ token = [d \in Attempts |-> "none"]
  /\ dl = [d \in Attempts |->
       [task |-> "none", future |-> "none", listener |-> "none", cancelled |-> FALSE]]
  /\ entry = [s \in Songs |-> NoAttempt]
  /\ item = [d \in Attempts |-> "NONE"]
  /\ registered = [s \in Songs |-> NoAttempt]
  /\ up = [u \in Attempts |->
       [pc |-> "none", n |-> 0, again |-> FALSE, stopped |-> FALSE, sent |-> FALSE]]
  /\ link = [u \in Attempts |-> NoLink]
  /\ hnd = [u \in Attempts |->
       [pc |-> "none", host |-> NoAttempt, got |-> 0, slot |-> 0, ino |-> NoAttempt]]
  /\ folder = [n \in Names |-> [i \in 1 .. Slots |-> NoAttempt]]
  /\ part = [n \in Names |-> [i \in 1 .. Slots |-> NoAttempt]]
  /\ data = [d \in Attempts |-> Blank]
  /\ faults = 0 /\ lost = FALSE

\* The server, each call as one step; a request's token carries its name.
Book == INSTANCE RequestBook WITH
  Requests <- Attempts, RequesterOf <- [d \in Attempts |-> NoAttempt],
  Tokens <- Attempts, NoToken <- NoAttempt

Desktop == downloader = "desktop"
Termux  == downloader = "termux"

Fault == faults < MaxFaults /\ faults' = faults + 1

PortFree == \A d \in Attempts : dl[d].listener = "none"

\* The two ends of a connection.  Each reads what has arrived, then the end.
Put(l, end, f) ==
  IF l.st # "open" \/ end \in l.closed THEN l
  ELSE IF end = "up" THEN [l EXCEPT !.toUp = Append(@, f)]
                     ELSE [l EXCEPT !.toDown = Append(@, f)]
Close(l, end) ==
  IF l.closed \union {end} = {"up", "down"} THEN NoLink
  ELSE IF end = "up" THEN [l EXCEPT !.closed = @ \union {end}, !.toUp = <<>>]
                     ELSE [l EXCEPT !.closed = @ \union {end}, !.toDown = <<>>]
TakeDown(u) == [link[u] EXCEPT !.toDown = Tail(@)]
TakeUp(u)   == [link[u] EXCEPT !.toUp = Tail(@)]

AtDown(u) == link[u].st = "open" /\ link[u].toDown # <<>>
AtUp(u)   == link[u].st = "open" /\ link[u].toUp # <<>>
DownLost(u) ==
  \/ link[u].st = "reset"
  \/ link[u].st = "open" /\ link[u].toDown = <<>> /\ "up" \in link[u].closed
UpLost(u) ==
  \/ link[u].st = "reset"
  \/ link[u].st = "open" /\ link[u].toUp = <<>> /\ "down" \in link[u].closed

-----------------------------------------------------------------------------
(* The downloader's commands and tasks: TransferManager.request_download() *)
(* and _do_download(), CommandController._download() and _bg_receive().    *)

\* A request_id has not been used before; which one it is makes no difference.
Unused(s) == {d \in Attempts : SongOf[d] = s /\ dl[d].task = "none"}
Started   == {d \in Attempts : dl[d].task # "none"}
MayStart(d) ==
  /\ Cardinality(Started) < MaxAttempts
  /\ Started = {} => SongOf[d] = FirstSong
  /\ Unused(SongOf[d]) # {} /\ d = CHOOSE e \in Unused(SongOf[d]) : TRUE

\* The server answers with a request_id, and the task goes on.
DesktopRequest(d) ==
  /\ Desktop /\ MayStart(d)
  /\ Book!Submit(d)
  /\ dl' = [dl EXCEPT ![d].task = "asked"]
  /\ entry' = [entry EXCEPT ![SongOf[d]] = d]
  /\ item' = [item EXCEPT ![d] = "PENDING"]
  /\ UNCHANGED <<downloader, provider, registered, up, link, hnd, files, faults,
                 lost>>

\* The termux client cancels the task of an earlier attempt before it asks
\* again, which that one's thread does not notice, nor the server if the task
\* was about to report.
Replaced(d) ==
  {e \in Attempts : Termux /\ SongOf[e] = SongOf[d]
                    /\ dl[e].task \in {"asked", "waiting", "completing", "failing"}}
StartTask(d, task) ==
  dl' = [e \in Attempts |->
    IF e = d THEN [dl[e] EXCEPT !.task = task]
    ELSE IF e \in Replaced(d) THEN [dl[e] EXCEPT !.task = "ended"] ELSE dl[e]]

TermuxRequest(d) ==
  /\ Termux /\ MayStart(d)
  /\ Book!Submit(d)
  /\ StartTask(d, "asked")
  /\ lost' = (lost \/ \E e \in Replaced(d) : dl[e].task \in {"completing", "failing"})
  /\ UNCHANGED <<downloader, provider, ui, up, link, hnd, files, faults>>

\* Without a request_id there is nothing to wait for and to report on.  The
\* end of a desktop task takes its song out of _downloaders, whoever is there.
RequestFails(d) ==
  /\ MayStart(d)
  /\ Fault
  /\ Book!Submit(d) \/ UNCHANGED server
  /\ StartTask(d, "ended")
  /\ IF Desktop
     THEN /\ entry' = [entry EXCEPT ![SongOf[d]] = d]
          /\ item' = [item EXCEPT ![d] = "FAILED"]
          /\ registered' = [registered EXCEPT ![SongOf[d]] = NoAttempt]
     ELSE UNCHANGED ui
  /\ lost' = TRUE
  /\ UNCHANGED <<downloader, provider, up, link, hnd, files>>

\* STPDownloader.listen_and_receive() and serve_once() bind the same port for
\* every download.
Listen(d) ==
  /\ dl[d].task = "asked"
  /\ dl' = IF PortFree
           THEN [dl EXCEPT ![d].task = "waiting", ![d].future = "pending", ![d].listener = "open"]
           ELSE [dl EXCEPT ![d].task = "failing"]
  /\ IF Desktop
     THEN /\ registered' = [registered EXCEPT ![SongOf[d]] = d]
          /\ item' = [item EXCEPT ![d] = IF PortFree THEN "ACTIVE" ELSE "FAILED"]
          /\ UNCHANGED entry
     ELSE UNCHANGED ui
  /\ UNCHANGED <<downloader, provider, server, up, link, hnd, files, faults, lost>>

\* Mutant: the deadline is for the provider to connect.
DeadlineToConnect(d) ==
  /\ dl[d].future = "pending" /\ dl[d].listener = "open"
  /\ \A u \in Attempts : hnd[u].host # d
  /\ dl' = [dl EXCEPT ![d].future = "error", ![d].listener = "none"]
  /\ UNCHANGED <<downloader, provider, server, ui, up, link, hnd, files, faults, lost>>

\* The desktop's deadline ends the wait, whatever the handlers are doing; the
\* thread's is for accept() only.
Deadline(d) ==
  /\ dl[d].future = "pending" /\ dl[d].listener = "open"
  /\ dl' = [dl EXCEPT ![d].future = "error", ![d].listener = "none"]
  /\ UNCHANGED <<downloader, provider, server, ui, up, link, hnd, files, faults, lost>>

\* Mutant: the item is done when the wait is over.
WakeAndShowDone(d) ==
  /\ dl[d].task = "waiting" /\ dl[d].future \in {"saved", "error"}
  /\ dl' = [dl EXCEPT ![d].task = IF dl[d].future = "saved" THEN "completing" ELSE "failing",
                      ![d].listener = "none"]
  /\ item' = [item EXCEPT ![d] = IF Termux THEN @ ELSE "DONE"]
  /\ UNCHANGED <<downloader, provider, server, entry, registered, up, link, hnd, files, faults, lost>>

\* The task goes on when the future is done, and closes the listener.
Wake(d) ==
  /\ dl[d].task = "waiting" /\ dl[d].future \in {"saved", "error"}
  /\ LET saved == dl[d].future = "saved"
     IN  /\ dl' = [dl EXCEPT ![d].task = IF saved THEN "completing" ELSE "failing",
                             ![d].listener = "none"]
         /\ item' = [item EXCEPT ![d] = IF Termux THEN @ ELSE IF saved THEN "DONE" ELSE "FAILED"]
  /\ UNCHANGED <<downloader, provider, server, entry, registered, up, link, hnd, files, faults, lost>>

EndTask(d) ==
  /\ dl' = [dl EXCEPT ![d].task = "ended"]
  /\ registered' = [registered EXCEPT ![SongOf[d]] = NoAttempt]

Verdict(task) == IF task = "completing" THEN "completed" ELSE "failed"

Report(d) ==
  /\ dl[d].task \in {"completing", "failing"}
  /\ Book!Report(d, Verdict(dl[d].task))
  /\ EndTask(d)
  /\ UNCHANGED <<downloader, provider, entry, item, up, link, hnd, files, faults, lost>>

\* On the desktop a report of success that gets no answer makes a failure.
ReportFails(d) ==
  /\ dl[d].task \in {"completing", "failing"}
  /\ Fault /\ lost' = TRUE
  /\ Book!Report(d, Verdict(dl[d].task)) \/ UNCHANGED server
  /\ IF Desktop /\ dl[d].task = "completing"
     THEN /\ dl' = [dl EXCEPT ![d].task = "failing"]
          /\ item' = [item EXCEPT ![d] = "FAILED"]
          /\ UNCHANGED registered
     ELSE EndTask(d) /\ UNCHANGED item
  /\ UNCHANGED <<downloader, provider, entry, up, link, hnd, files>>

\* Mutant: the future is left to the handler.
CancelByFlag(s) ==
  /\ Desktop /\ entry[s] # NoAttempt
  /\ Fault
  /\ item' = [item EXCEPT ![entry[s]] = "CANCELLED"]
  /\ dl' = IF registered[s] = NoAttempt THEN dl
           ELSE [dl EXCEPT ![registered[s]].cancelled = TRUE]
  /\ UNCHANGED <<downloader, provider, server, entry, registered, up, link, hnd, files, lost>>

\* TransferManager.cancel_transfer() and STPDownloader.cancel().
Cancel(s) ==
  /\ Desktop /\ entry[s] # NoAttempt
  /\ Fault
  /\ item' = [item EXCEPT ![entry[s]] = "CANCELLED"]
  /\ dl' = IF registered[s] = NoAttempt THEN dl
           ELSE [dl EXCEPT ![registered[s]].cancelled = TRUE,
                           ![registered[s]].future = IF @ = "pending" THEN "error" ELSE @]
  /\ UNCHANGED <<downloader, provider, server, entry, registered, up, link, hnd, files, lost>>

-----------------------------------------------------------------------------
(* STPDownloader._handle_connection().  A handler outlives the listener.   *)

Host(u) == hnd[u].host
Gone == [pc |-> "ended", host |-> NoAttempt, got |-> 0, slot |-> 0, ino |-> NoAttempt]

Resolve(d, value) ==
  dl' = [dl EXCEPT ![d].future = IF @ = "pending" THEN value ELSE @]

\* done_cb and error_cb know a transfer by its song.
Show(s, value) ==
  item' = IF entry[s] = NoAttempt THEN item ELSE [item EXCEPT ![entry[s]] = value]

\* Mutant: the .part file stays.
FailAndLeave(u, slot, l) ==
  /\ hnd' = [hnd EXCEPT ![u] = Gone]
  /\ link' = [link EXCEPT ![u] = Close(l, "down")]
  /\ UNCHANGED part
  /\ Show(SongOf[Host(u)], "FAILED")
  /\ Resolve(Host(u), "error")

\* The except clause: l is the connection after the last message.
HandlerFails(u, slot, l) ==
  /\ hnd' = [hnd EXCEPT ![u] = Gone]
  /\ link' = [link EXCEPT ![u] = Close(l, "down")]
  /\ part' = IF slot = 0 THEN part ELSE [part EXCEPT ![NameOf[SongOf[u]]][slot] = NoAttempt]
  /\ Show(SongOf[Host(u)], "FAILED")
  /\ Resolve(Host(u), "error")

\* The loop looks at the flag before it reads on.
LoopTop(u, h, l, p) ==
  IF dl[Host(u)].cancelled /\ h.got < Chunks
  THEN HandlerFails(u, h.slot, Put(l, "up", Frame("FAIL")))
  ELSE /\ hnd' = [hnd EXCEPT ![u] = h]
       /\ link' = [link EXCEPT ![u] = l]
       /\ part' = p
       /\ UNCHANGED <<dl, item>>

\* _safe_download_path(): the first variant of the name that is not taken.
FreeSlot(n, i) ==
  /\ folder[n][i] = NoAttempt
  /\ \A j \in 1 .. (i - 1) : folder[n][j] # NoAttempt

\* The .part file is opened, which empties it, be it that of another song.
OpenPart(u) ==
  LET n == NameOf[SongOf[u]]
  IN  \E i \in 1 .. Slots :
        LET f == IF part[n][i] = NoAttempt THEN u ELSE part[n][i]
        IN  /\ FreeSlot(n, i)
            /\ data' = [data EXCEPT ![f] = Blank]
            /\ LoopTop(u, [hnd[u] EXCEPT !.pc = "loop", !.slot = i, !.ino = f],
                       Put(TakeDown(u), "up", Frame("ACCEPT")), [part EXCEPT ![n][i] = f])

\* Mutant: the request's music_id is not looked at.
AcceptAny(u) ==
  /\ Desktop /\ hnd[u].pc = "req" /\ AtDown(u)
  /\ OpenPart(u)
  /\ UNCHANGED <<downloader, provider, server, entry, registered, up, folder, faults, lost>>

\* A provider of another song is turned away, and the listener waits on.
HandlerReq(u) ==
  /\ Desktop /\ hnd[u].pc = "req" /\ AtDown(u)
  /\ IF SongOf[u] # SongOf[Host(u)]
     THEN /\ hnd' = [hnd EXCEPT ![u] = Gone]
          /\ link' = [link EXCEPT ![u] = Close(Put(TakeDown(u), "up", Frame("FAIL")), "down")]
          /\ UNCHANGED <<part, data, dl, item>>
     ELSE OpenPart(u)
  /\ UNCHANGED <<downloader, provider, server, entry, registered, up, folder, faults, lost>>

HandlerChunk(u) ==
  LET m == Head(link[u].toDown)
      n == hnd[u].got + 1
  IN  /\ Desktop /\ hnd[u].pc = "loop" /\ AtDown(u) /\ n <= Chunks
      /\ \/ /\ m.type = "BAD"
            /\ LoopTop(u, hnd[u], Put(TakeDown(u), "up", Frame("NACK")), part)
            /\ UNCHANGED data
         \/ /\ m.type = "CHUNK"
            /\ data' = [data EXCEPT ![hnd[u].ino][n] = <<SongOf[u], m.n>>]
            /\ LoopTop(u, [hnd[u] EXCEPT !.got = n], Put(TakeDown(u), "up", Frame("ACK")), part)
      /\ UNCHANGED <<downloader, provider, server, entry, registered, up, folder, faults, lost>>

\* TRANSFER_FAIL, or anything but TRANSFER_END after the last chunk, or the
\* end of the connection.
HandlerStopped(u) ==
  /\ Desktop
  /\ \/ hnd[u].pc = "loop" /\ AtDown(u) /\ Head(link[u].toDown).type = "FAIL"
     \/ hnd[u].pc \in {"req", "loop"} /\ DownLost(u)
  /\ HandlerFails(u, hnd[u].slot, link[u])
  /\ UNCHANGED <<downloader, provider, server, entry, registered, up, folder, data, faults, lost>>

\* Mutant: no look at the hash of the file.
SaveUnverified(u) ==
  LET s == SongOf[u]
      n == NameOf[s]
      i == hnd[u].slot
  IN  /\ Desktop /\ hnd[u].pc = "loop" /\ hnd[u].got = Chunks
      /\ AtDown(u) /\ Head(link[u].toDown).type = "END"
      /\ IF part[n][i] # NoAttempt
         THEN /\ folder' = [folder EXCEPT ![n][i] = part[n][i]]
              /\ part' = [part EXCEPT ![n][i] = NoAttempt]
              /\ hnd' = [hnd EXCEPT ![u] = Gone]
              /\ link' = [link EXCEPT ![u] = Close(@, "down")]
              /\ Show(s, "DONE")
              /\ Resolve(Host(u), "saved")
         ELSE HandlerFails(u, hnd[u].slot, link[u]) /\ UNCHANGED folder
      /\ UNCHANGED <<downloader, provider, server, entry, registered, up, data, faults, lost>>

\* The .part file is verified and renamed by its name: another handler may
\* have removed it, or have written to it.
HandlerEnd(u) ==
  LET s == SongOf[u]
      n == NameOf[s]
      i == hnd[u].slot
  IN  /\ Desktop /\ hnd[u].pc = "loop" /\ hnd[u].got = Chunks
      /\ AtDown(u) /\ Head(link[u].toDown).type = "END"
      /\ IF part[n][i] # NoAttempt /\ data[part[n][i]] = Whole(s)
         THEN /\ folder' = [folder EXCEPT ![n][i] = part[n][i]]
              /\ part' = [part EXCEPT ![n][i] = NoAttempt]
              /\ hnd' = [hnd EXCEPT ![u] = Gone]
              /\ link' = [link EXCEPT ![u] = Close(@, "down")]
              /\ Show(s, "DONE")
              /\ Resolve(Host(u), "saved")
         ELSE HandlerFails(u, hnd[u].slot, link[u]) /\ UNCHANGED folder
      /\ UNCHANGED <<downloader, provider, server, entry, registered, up, data, faults, lost>>

-----------------------------------------------------------------------------
(* serve_once() of the termux client, a thread that serves one connection. *)

\* A request of any song; the second file of a name replaces the third.
ThreadReq(u) ==
  LET n == NameOf[SongOf[u]]
      i == IF folder[n][1] = NoAttempt THEN 1 ELSE 2
      f == IF folder[n][i] = NoAttempt THEN u ELSE folder[n][i]
  IN  /\ Termux /\ hnd[u].pc = "req" /\ AtDown(u)
      /\ hnd' = [hnd EXCEPT ![u].pc = "loop", ![u].slot = i, ![u].ino = f]
      /\ folder' = [folder EXCEPT ![n][i] = f]
      /\ data' = [data EXCEPT ![f] = Blank]
      /\ link' = [link EXCEPT ![u] = Put(TakeDown(u), "up", Frame("ACCEPT"))]
      /\ UNCHANGED <<downloader, provider, server, dl, ui, up, part, faults, lost>>

ThreadChunk(u) ==
  LET m == Head(link[u].toDown)
      n == hnd[u].got + 1
  IN  /\ Termux /\ hnd[u].pc = "loop" /\ AtDown(u)
      /\ \/ /\ m.type = "BAD"
            /\ link' = [link EXCEPT ![u] = Put(TakeDown(u), "up", Frame("NACK"))]
            /\ UNCHANGED <<hnd, data>>
         \/ /\ m.type = "CHUNK"
            /\ data' = [data EXCEPT ![hnd[u].ino][n] = <<SongOf[u], m.n>>]
            /\ hnd' = [hnd EXCEPT ![u].got = n]
            /\ link' = [link EXCEPT ![u] = Put(TakeDown(u), "up", Frame("ACK"))]
      /\ UNCHANGED <<downloader, provider, server, dl, ui, up, folder, part, faults, lost>>

\* Both sockets are closed; connections nobody has accepted are reset.
ThreadReturns(u, result) ==
  LET queued == {v \in Attempts : hnd[v].pc = "queued"}
  IN  /\ dl' = [dl EXCEPT ![Host(u)].future = result, ![Host(u)].listener = "none"]
      /\ hnd' = [v \in Attempts |->
           IF v = u \/ v \in queued THEN Gone ELSE hnd[v]]
      /\ link' = [v \in Attempts |->
           IF v = u THEN Close(link[v], "down")
           ELSE IF v \in queued /\ link[v].st = "open"
                THEN Close([link[v] EXCEPT !.st = "reset"], "down")
           ELSE link[v]]

ThreadEnd(u) ==
  /\ Termux /\ hnd[u].pc = "loop" /\ AtDown(u)
  /\ Head(link[u].toDown).type = "END"
  /\ ThreadReturns(u, IF data[hnd[u].ino] = Whole(SongOf[u])
                      THEN "saved" ELSE "error")
  /\ UNCHANGED <<downloader, provider, server, ui, up, files, faults, lost>>

ThreadStopped(u) ==
  /\ Termux
  /\ \/ hnd[u].pc = "loop" /\ AtDown(u) /\ Head(link[u].toDown).type = "FAIL"
     \/ hnd[u].pc \in {"req", "loop"} /\ DownLost(u)
  /\ ThreadReturns(u, "error")
  /\ UNCHANGED <<downloader, provider, server, ui, up, files, faults, lost>>

-----------------------------------------------------------------------------
(* The owner: approval or rejection, then TransferManager.approve_and_send *)
(* and STPProvider.send_one(), or CommandController._bg_send() and         *)
(* send_file_to_peer().                                                    *)

Provider == <<downloader, provider, dl, ui, hnd, files>>

OwnerRejects(u) ==
  /\ up[u].pc = "none" /\ Book!Reject(u)
  /\ UNCHANGED <<Provider, up, link, faults, lost>>

OwnerApproves(u) ==
  /\ up[u].pc = "none" /\ status[u] = "pending"
  /\ Book!Issue(u)
  /\ up' = [up EXCEPT ![u].pc = "approving"]
  /\ UNCHANGED <<Provider, link, faults, lost>>

\* Without the answer, or without the file, nothing is sent: the rejection
\* that is to make up for it is refused (see Negotiation).
Approved(u) ==
  /\ up[u].pc = "approving" /\ Book!Approve(u, u)
  /\ \E pc \in {"report", "ended"} : up' = [up EXCEPT ![u].pc = pc]
  /\ UNCHANGED <<Provider, link, faults, lost>>

ApprovalRefused(u) ==
  /\ up[u].pc = "approving" /\ status[u] # "pending"
  /\ up' = [up EXCEPT ![u].pc = "ended"]
  /\ UNCHANGED <<Provider, server, link, faults, lost>>

StartUpload(u) ==
  /\ up[u].pc = "report" /\ Book!Report(u, "in_progress")
  /\ up' = [up EXCEPT ![u].pc = "connecting"]
  /\ UNCHANGED <<Provider, link, faults, lost>>

StartFails(u) ==
  /\ up[u].pc = "report"
  /\ Fault
  /\ Book!Report(u, "in_progress") \/ UNCHANGED server
  /\ up' = [up EXCEPT ![u].pc = "failing"]
  /\ UNCHANGED <<Provider, link, lost>>

\* Whoever listens on the port gets the connection.  A thread accepts one;
\* the others stay in its backlog.
Connect(u) ==
  /\ up[u].pc = "connecting"
  /\ \E d \in Attempts :
       /\ dl[d].listener # "none"
       /\ hnd' = [hnd EXCEPT ![u].host = d,
                             ![u].pc = IF dl[d].listener = "open" THEN "req" ELSE "queued"]
       /\ dl' = [dl EXCEPT ![d].listener = IF Termux THEN "taken" ELSE @]
  /\ link' = [link EXCEPT ![u].st = "open", ![u].toDown = <<Frame("REQ")>>]
  /\ up' = [up EXCEPT ![u].pc = "accept"]
  /\ UNCHANGED <<downloader, provider, server, ui, files, faults, lost>>

\* The last of the attempts, which the others and the pauses between them come
\* before.
ConnectRefused(u) ==
  /\ up[u].pc = "connecting" /\ PortFree
  /\ up' = [up EXCEPT ![u].pc = "failing"]
  /\ UNCHANGED <<Provider, server, link, faults, lost>>

\* Mutant: the failure is not passed on to the caller.
GiveUpQuietly(u, l) ==
  /\ up' = [up EXCEPT ![u].pc = "completing", ![u].n = 0, ![u].again = FALSE]
  /\ link' = [link EXCEPT ![u] = Close(l, "up")]

GiveUp(u, l) ==
  /\ up' = [up EXCEPT ![u].pc = "failing", ![u].n = 0, ![u].again = FALSE]
  /\ link' = [link EXCEPT ![u] = Close(l, "up")]

\* Mutant: one chunk more.
SendOneMore(u, l) ==
  LET n == up[u].n + 1
  IN  IF up[u].n > Chunks
      THEN /\ up' = [up EXCEPT ![u].pc = "completing", ![u].n = 0, ![u].again = FALSE,
                                ![u].sent = TRUE]
           /\ link' = [link EXCEPT ![u] = Close(Put(l, "down", Frame("END")), "up")]
      ELSE /\ up' = [up EXCEPT ![u].pc = "ack", ![u].n = n, ![u].again = FALSE]
           /\ link' = [link EXCEPT ![u] = Put(l, "down", Chunk(n))]

\* The chunk loop of send_one(): the next chunk, or TRANSFER_END, after which
\* nothing is waited for.
SendChunk(u, l) ==
  LET n == up[u].n + 1
  IN  IF up[u].n = Chunks
      THEN /\ up' = [up EXCEPT ![u].pc = "completing", ![u].n = 0, ![u].again = FALSE,
                                ![u].sent = TRUE]
           /\ link' = [link EXCEPT ![u] = Close(Put(l, "down", Frame("END")), "up")]
      ELSE IF up[u].stopped
      THEN GiveUp(u, Put(l, "down", Frame("FAIL")))
      ELSE /\ up' = [up EXCEPT ![u].pc = "ack", ![u].n = n, ![u].again = FALSE]
           /\ link' = [link EXCEPT ![u] = Put(l, "down", Chunk(n))]

GetAccept(u) ==
  /\ up[u].pc = "accept" /\ AtUp(u)
  /\ IF Head(link[u].toUp).type = "ACCEPT" THEN SendChunk(u, TakeUp(u)) ELSE GiveUp(u, TakeUp(u))
  /\ UNCHANGED <<Provider, server, faults, lost>>

GetAck(u) ==
  /\ up[u].pc = "ack" /\ AtUp(u) /\ Head(link[u].toUp).type = "ACK"
  /\ SendChunk(u, TakeUp(u))
  /\ UNCHANGED <<Provider, server, faults, lost>>

\* Mutant: a chunk is repeated for as long as it is refused.
RepeatAgain(u) ==
  /\ up[u].pc = "ack" /\ AtUp(u) /\ Head(link[u].toUp).type = "NACK"
  /\ link' = [link EXCEPT ![u] = Put(TakeUp(u), "down", Chunk(up[u].n))]
  /\ UNCHANGED <<Provider, server, up, faults, lost>>

\* One repetition for each chunk, of the bytes that were read.
GetNack(u) ==
  /\ up[u].pc = "ack" /\ AtUp(u) /\ Head(link[u].toUp).type = "NACK" /\ ~up[u].again
  /\ up' = [up EXCEPT ![u].again = TRUE]
  /\ link' = [link EXCEPT ![u] = Put(TakeUp(u), "down", Chunk(up[u].n))]
  /\ UNCHANGED <<Provider, server, faults, lost>>

GetOther(u) ==
  /\ up[u].pc = "ack" /\ AtUp(u)
  /\ LET type == Head(link[u].toUp).type
     IN  type \notin {"ACK", "NACK"} \/ (type = "NACK" /\ up[u].again)
  /\ GiveUp(u, IF provider = "termux" THEN Put(TakeUp(u), "down", Frame("FAIL")) ELSE link[u])
  /\ UNCHANGED <<Provider, server, faults, lost>>

\* The termux sender has a timeout: it sends without TRANSFER_ACCEPT, and
\* gives up without an ACK.  The desktop provider waits for both.
SenderTimeout(u) ==
  /\ provider = "termux" /\ up[u].pc \in {"accept", "ack"}
  /\ link[u].st = "silent" \/ (link[u].st = "open" /\ link[u].toUp = <<>>)
  /\ IF up[u].pc = "accept" THEN SendChunk(u, link[u]) ELSE GiveUp(u, link[u])
  /\ UNCHANGED <<Provider, server, faults, lost>>

UploadCut(u) ==
  /\ up[u].pc \in {"accept", "ack"} /\ UpLost(u)
  /\ GiveUp(u, link[u])
  /\ UNCHANGED <<Provider, server, faults, lost>>

\* STPProvider.cancel()
CancelUpload(u) ==
  /\ provider = "desktop" /\ up[u].pc \in {"report", "connecting", "accept", "ack"}
  /\ ~up[u].stopped /\ Fault
  /\ up' = [up EXCEPT ![u].stopped = TRUE]
  /\ UNCHANGED <<Provider, server, link, lost>>

\* Mutant: a failure is left to the downloader to report.
ReportSuccess(u) ==
  /\ up[u].pc \in {"completing", "failing"}
  /\ IF up[u].pc = "completing" THEN Book!Report(u, "completed") ELSE UNCHANGED server
  /\ up' = [up EXCEPT ![u].pc = "ended"]
  /\ UNCHANGED <<Provider, link, faults, lost>>

UploadReport(u) ==
  /\ up[u].pc \in {"completing", "failing"}
  /\ Book!Report(u, Verdict(up[u].pc))
  /\ up' = [up EXCEPT ![u].pc = "ended"]
  /\ UNCHANGED <<Provider, link, faults, lost>>

UploadReportFails(u) ==
  /\ up[u].pc \in {"completing", "failing"}
  /\ Fault /\ lost' = TRUE
  /\ Book!Report(u, Verdict(up[u].pc)) \/ UNCHANGED server
  /\ up' = [up EXCEPT ![u].pc = IF @ = "completing" THEN "failing" ELSE "ended"]
  /\ UNCHANGED <<Provider, link>>

-----------------------------------------------------------------------------
(* The network.                                                            *)

Damage(u) ==
  /\ Fault /\ link[u].st = "open"
  /\ \E i \in 1 .. Len(link[u].toDown) :
       /\ link[u].toDown[i].type = "CHUNK"
       /\ link' = [link EXCEPT ![u].toDown[i].type = "BAD"]
  /\ UNCHANGED <<Provider, server, up, lost>>

\* A connection breaks, or falls silent without an error.
Break(u) ==
  /\ Fault /\ link[u].st = "open"
  /\ \E st \in {"reset", "silent"} :
       link' = [link EXCEPT ![u].st = st, ![u].toDown = <<>>, ![u].toUp = <<>>]
  /\ UNCHANGED <<Provider, server, up, lost>>

-----------------------------------------------------------------------------

TaskStep(d) ==
  \/ Listen(d) \/ Deadline(d) \/ Wake(d) \/ Report(d)

HandlerStep(u) ==
  \/ HandlerReq(u) \/ HandlerChunk(u) \/ HandlerStopped(u) \/ HandlerEnd(u)
  \/ ThreadReq(u) \/ ThreadChunk(u) \/ ThreadEnd(u) \/ ThreadStopped(u)

UploadStep(u) ==
  \/ Approved(u) \/ ApprovalRefused(u) \/ StartUpload(u)
  \/ Connect(u) \/ ConnectRefused(u) \/ GetAccept(u) \/ GetAck(u) \/ GetNack(u)
  \/ GetOther(u) \/ SenderTimeout(u) \/ UploadCut(u) \/ UploadReport(u)

Environment ==
  \/ \E d \in Attempts :
       \/ DesktopRequest(d) \/ TermuxRequest(d) \/ RequestFails(d) \/ ReportFails(d)
       \/ OwnerRejects(d) \/ OwnerApproves(d) \/ StartFails(d) \/ CancelUpload(d)
       \/ UploadReportFails(d) \/ Damage(d) \/ Break(d)
  \/ \E s \in Songs : Cancel(s)

Silent == \E u \in Attempts : link[u].st = "silent"

\* Nobody is waiting for anything, unless a connection has fallen silent.
Rest ==
  /\ \/ Silent
     \/ \A d \in Attempts : dl[d].task \in {"none", "ended"} /\ up[d].pc \in {"none", "ended"}
  /\ UNCHANGED vars

Next ==
  \/ \E d \in Attempts : TaskStep(d) \/ HandlerStep(d) \/ UploadStep(d)
  \/ Environment
  \/ Rest

Spec == Init /\ [][Next]_vars

\* The event loops and threads run, and the deadlines pass.
FairSpec ==
  /\ Spec
  /\ \A d \in Attempts :
       WF_vars(TaskStep(d)) /\ WF_vars(HandlerStep(d)) /\ WF_vars(UploadStep(d))

-----------------------------------------------------------------------------
(* Safety.                                                                 *)

\* No other song of its file name has been asked for.
Unshared(s) == \A d \in Started : NameOf[SongOf[d]] = NameOf[s] => SongOf[d] = s

\* On the desktop nothing but whole, verified songs is in the download folder
\* under a final name, and that stays so: not even a handler whose download
\* has timed out writes to a file that another one has finished.  It is so for
\* a song only while none of the same file name is downloaded as well: a late
\* handler of that one opens and renames the same .part file.
FolderIsSound ==
  Desktop =>
    \A s \in Songs, i \in 1 .. Slots :
      LET f == folder[NameOf[s]][i]
      IN  Unshared(s) /\ f # NoAttempt => data[f] = Whole(s)

\* A desktop download that succeeds leaves in the folder the song it was asked
\* for, whole, whoever connected to its port, and whatever else was written
\* under that name before.
SavedIsRight ==
  [][\A d \in Attempts :
       Desktop /\ dl[d].future # "saved" /\ dl'[d].future = "saved" =>
         \E i \in 1 .. Slots :
           LET f == folder'[NameOf[SongOf[d]]][i]
           IN  f # NoAttempt /\ data'[f] = Whole(SongOf[d])]_vars

\* A desktop entry is shown as done only when a file of its song's name has been
\* saved, though the callbacks of older downloads write to it.  (Whose file that
\* is then, SavedIsRight and FolderIsSound say.)
ShownDoneIsSaved ==
  \A d \in Attempts : item[d] = "DONE" =>
    \E i \in 1 .. Slots : folder[NameOf[SongOf[d]]][i] # NoAttempt

\* No .part file is left when the handlers are done, whichever of two that
\* shared one failed first.
NoPartLeft ==
  (\A u \in Attempts : hnd[u].pc \in {"none", "ended"}) =>
    \A n \in Names, i \in 1 .. Slots : part[n][i] = NoAttempt

\* A request is "completed" only if its downloader has saved a file or its
\* owner has had every chunk acknowledged.
CompletedIsBacked ==
  \A d \in Attempts : status[d] = "completed" => dl[d].future = "saved" \/ up[d].sent

\* A desktop download that is cancelled before it is done stays undone for
\* the server: its handler may finish, but not its task.
CancelledIsNotReported ==
  [][\A d \in Attempts :
       dl[d].cancelled /\ dl[d].future # "saved" => dl'[d].future # "saved"]_vars

\* When a desktop task has its verdict, the port is free for the next one.
PortIsFreed ==
  Desktop =>
    \A d \in Attempts : dl[d].listener # "none" => dl[d].task = "waiting"

\* What downloads share they give back when they are over, whoever else uses it.
NothingKept == NoPartLeft /\ PortIsFreed

-----------------------------------------------------------------------------
(* How much an attempt may still do: its task at the downloader and what    *)
(* that waits for, its upload, its handler, and the frames under way.       *)

TaskLeft(r) ==
  CASE r.task = "none" -> 8 [] r.task = "asked" -> 7 [] r.task = "waiting" -> 3
    [] r.task = "completing" -> 2 [] r.task = "failing" -> 1 [] OTHER -> 0

ListenerLeft(r) ==
  CASE r.listener = "open" -> 2 [] r.listener = "taken" -> 1 [] OTHER -> 0

DownloadLeft(r) == TaskLeft(r) + ListenerLeft(r) + (IF r.future = "pending" THEN 1 ELSE 0)

StageLeft(r) ==
  CASE r.pc = "none" -> 10 [] r.pc = "approving" -> 9 [] r.pc = "report" -> 8
    [] r.pc = "connecting" -> 7 [] r.pc \in {"accept", "ack"} -> 4
    [] r.pc = "completing" -> 2 [] r.pc = "failing" -> 1 [] OTHER -> 0

\* The chunks still to be transmitted: each is, twice at most.
ChunksLeft(r) ==
  CASE r.pc \in {"none", "approving", "report", "connecting", "accept"} -> 2 * Chunks
    [] r.pc = "ack" -> 2 * (Chunks - r.n) + (IF r.again THEN 0 ELSE 1)
    [] OTHER -> 0

UploadLeft(r) == StageLeft(r) + 3 * ChunksLeft(r)

HandlerLeft(h) ==
  CASE h.pc = "none" -> 4 [] h.pc = "queued" -> 3 [] h.pc = "req" -> 2 [] h.pc = "loop" -> 1
    [] OTHER -> 0

\* A frame to the receiver may bring about an answer.
LinkLeft(l) == 2 * Len(l.toDown) + Len(l.toUp)

Left(d) == DownloadLeft(dl[d]) + UploadLeft(up[d]) + HandlerLeft(hnd[d]) + LinkLeft(link[d])

\* No two clients keep each other busy: whatever happens to an attempt leaves it
\* less to do, but for faults, which are counted and never give it more.  So a
\* late TRANSFER_ACCEPT, a NACK in the place of an ACK, or a second download that
\* takes a thread's place can lead into no cycle (stp_provider.py:186,
\* termux_client/transfer/stp_sender.py:126).
AttemptsRunOut ==
  [][\A d \in Attempts :
       /\ Left(d)' \in Nat
       /\ \/ UNCHANGED <<dl[d], up[d], link[d], hnd[d]>>
          \/ Left(d)' < Left(d)
          \/ faults' = faults + 1 /\ Left(d)' <= Left(d)]_vars

-----------------------------------------------------------------------------
(* Liveness.                                                               *)

\* Every download ends, whatever its provider does; only a termux thread that
\* has accepted a connection may wait for ever, when that falls silent.
DownloadEnds ==
  \A d \in Attempts :
    dl[d].task = "asked" ~> (dl[d].task = "ended" \/ (Termux /\ Silent))

\* Unless a report is lost or a connection has fallen silent, a request does
\* not stay pending or in progress.
RequestsSettle ==
  \A d \in Attempts :
    <>[](lost \/ Silent \/ status[d] \notin {"pending", "in_progress"})
=============================================================================
