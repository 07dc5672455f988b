--------------------------- MODULE DirectTransfers ---------------------------
(***************************************************************************)
(* Transfers between two servers (web client: directTransfer of the        *)
(* transfer manager; server: ws/sftp_transfer.go).  A request starts a     *)
(* goroutine that copies, and the page then watches it on a socket: the    *)
(* handler of the socket looks the task up, upgrades, registers the socket *)
(* and sends again what it had found, each in a step of its own, while the *)
(* copy goes on, ends and is forgotten.                                    *)
(***************************************************************************)
EXTENDS Naturals, Sequences

CONSTANTS
  Directs,  \* transfers between two servers
  Nested    \* those whose source is a directory with a directory in it

ASSUME DirectAssumption == Nested \subseteq Directs

VARIABLES
  \* the server
  relay,         \* the goroutine: none, copying, ended, or gone with its task
  outcome,       \* TransferTask.Status
  halted,        \* transferCtx is cancelled
  lastProgress,  \* lastProgress[d]: the message kept for sockets that are late
  handler,       \* HandleTransferWebSocket of d
  found,         \* the message it read with the task
  missed,        \* the end came after that, and before the socket was registered
  \* the page
  call,          \* directTransfer
  shown,         \* the status of the entry in the list
  wire,          \* the socket, as the page sees it
  news,          \* messages on their way to the page (progress is left out)
  marked,        \* cancelledBeforeStart holds d
  asked,         \* the POST of a cancellation
  told           \* a cancel message is on its way on the socket

relayVars == <<relay, outcome, halted, lastProgress>>
socketVars == <<handler, found, missed>>
pageVars == <<call, shown, wire, marked>>
askVars == <<asked, told>>
directVars == <<relayVars, socketVars, pageVars, news, askVars>>

Ends == {"complete", "error", "cancelled"}
Verdicts == {"completed", "failed", "cancelled"}

DirectTypeOK ==
  /\ relay \in [Directs -> {"none", "copying", "ended", "gone"}]
  /\ outcome \in [Directs -> {"none", "running"} \cup Verdicts]
  /\ halted \in [Directs -> BOOLEAN]
  /\ lastProgress \in [Directs -> {"none", "started", "progress"} \cup Ends]
  /\ handler \in [Directs -> {"none", "found", "registered", "reading", "over"}]
  /\ found \in [Directs -> {"none", "started", "progress"} \cup Ends]
  /\ missed \in [Directs -> BOOLEAN]
  /\ call \in [Directs ->
       {"idle", "starting", "ticket", "opening", "watching", "returned"}]
  /\ shown \in [Directs -> {"absent", "transferring"} \cup Verdicts]
  /\ wire \in [Directs -> {"none", "dialing", "open", "closed"}]
  /\ news \in [Directs -> Seq({"started"} \cup Ends)]
  /\ marked \in [Directs -> BOOLEAN]
  /\ asked \in [Directs -> {"no", "sent", "answered", "over"}]
  /\ told \in [Directs -> BOOLEAN]

DirectInit ==
  /\ relay = [d \in Directs |-> "none"]
  /\ outcome = [d \in Directs |-> "none"]
  /\ halted = [d \in Directs |-> FALSE]
  /\ lastProgress = [d \in Directs |-> "none"]
  /\ handler = [d \in Directs |-> "none"]
  /\ found = [d \in Directs |-> "none"]
  /\ missed = [d \in Directs |-> FALSE]
  /\ call = [d \in Directs |-> "idle"]
  /\ shown = [d \in Directs |-> "absent"]
  /\ wire = [d \in Directs |-> "none"]
  /\ news = [d \in Directs |-> <<>>]
  /\ marked = [d \in Directs |-> FALSE]
  /\ asked = [d \in Directs |-> "no"]
  /\ told = [d \in Directs |-> FALSE]

-----------------------------------------------------------------------------
(* The server *)

\* tasks[d] exists.
Known(d) == relay[d] \in {"copying", "ended"}

\* SendProgress: kept, and written if a socket is registered.  What is
\* written to a socket that the page has closed is lost.
Send(d, message) ==
  /\ lastProgress' = [lastProgress EXCEPT ![d] = message]
  /\ news' = [news EXCEPT ![d] =
       IF /\ handler[d] \in {"registered", "reading"}
          /\ wire[d] \in {"dialing", "open"}
          /\ message # "progress"
       THEN Append(@, message) ELSE @]

\* StartDirectTransfer, for a request of the page.
AcceptDirect(d) ==
  /\ call[d] = "starting"
  /\ relay[d] = "none"
  /\ relay' = [relay EXCEPT ![d] = "copying"]
  /\ outcome' = [outcome EXCEPT ![d] = "running"]
  /\ Send(d, "started")
  /\ UNCHANGED <<halted, socketVars, pageVars, askVars>>

\* A part of a file, or a file of a directory, has been copied.
CopyGoesOn(d) ==
  /\ relay[d] = "copying"
  /\ lastProgress[d] # "progress"
  /\ Send(d, "progress")
  /\ UNCHANGED <<relay, outcome, halted, socketVars, pageVars, askVars>>

\* transferDirectory calls itself, and tells the end of each directory.  One
\* that the page has not read yet is not repeated: a bound.
SubdirectoryDone(d) ==
  /\ relay[d] = "copying"
  /\ d \in Nested
  /\ \A i \in DOMAIN news[d] : news[d][i] # "complete"
  /\ Send(d, "complete")
  /\ UNCHANGED <<relay, outcome, halted, socketVars, pageVars, askVars>>

EndRelay(d, verdict) ==
  /\ relay[d] = "copying"
  /\ relay' = [relay EXCEPT ![d] = "ended"]
  /\ outcome' = [outcome EXCEPT ![d] = verdict]
  /\ UNCHANGED <<halted, socketVars, pageVars, askVars>>

\* A cancellation that comes after the last look at the context is too late.
CopyDone(d) == EndRelay(d, "completed") /\ Send(d, "complete")

\* Mutant of CopyFails: a cancelled copy returns without a message.
MutantCopyFails(d) ==
  IF halted[d]
  THEN EndRelay(d, "cancelled") /\ UNCHANGED <<lastProgress, news>>
  ELSE EndRelay(d, "failed") /\ Send(d, "error")

\* No connection, an error of a file, 30 minutes are over, or the context is
\* cancelled: the goroutine asks the context what to call it.
CopyFails(d) ==
  IF halted[d]
  THEN EndRelay(d, "cancelled") /\ Send(d, "cancelled")
  ELSE EndRelay(d, "failed") /\ Send(d, "error")

\* The deferred function of the goroutine.
ForgetTask(d) ==
  /\ relay[d] = "ended"
  /\ relay' = [relay EXCEPT ![d] = "gone"]
  /\ lastProgress' = [lastProgress EXCEPT ![d] = "none"]
  /\ UNCHANGED <<outcome, halted, socketVars, pageVars, news, askVars>>

\* The handler of the socket looks the task up; without one it refuses.
FindTask(d) ==
  /\ wire[d] = "dialing"
  /\ handler[d] = "none"
  /\ Known(d)
  /\ handler' = [handler EXCEPT ![d] = "found"]
  /\ found' = [found EXCEPT ![d] = lastProgress[d]]
  /\ UNCHANGED <<missed, relayVars, pageVars, news, askVars>>

\* After the upgrade.
RegisterSocket(d) ==
  /\ handler[d] = "found"
  /\ handler' = [handler EXCEPT ![d] = "registered"]
  /\ missed' = [missed EXCEPT ![d] = relay[d] # "copying" /\ found[d] \notin Ends]
  /\ UNCHANGED <<found, relayVars, pageVars, news, askVars>>

\* What was found is sent again, and kept again.
Resend(d) ==
  /\ handler[d] = "registered"
  /\ handler' = [handler EXCEPT ![d] = "reading"]
  /\ Send(d, found[d])
  /\ UNCHANGED <<found, missed, relay, outcome, halted, pageVars, askVars>>

HandlerEnds(d) ==
  /\ handler[d] = "reading"
  /\ wire[d] = "closed"
  /\ ~told[d]
  /\ handler' = [handler EXCEPT ![d] = "over"]
  /\ UNCHANGED <<found, missed, relayVars, pageVars, news, askVars>>

\* CancelTaskForUser.
Halt(d) == halted' = [halted EXCEPT ![d] = @ \/ Known(d)]

\* The cancel message of the page.
SocketCancel(d) ==
  /\ told[d]
  /\ handler[d] = "reading"
  /\ Halt(d)
  /\ told' = [told EXCEPT ![d] = FALSE]
  /\ UNCHANGED <<relay, outcome, lastProgress, socketVars, pageVars, news, asked>>

\* The POST of the page.
PostCancel(d) ==
  /\ asked[d] = "sent"
  /\ Halt(d)
  /\ asked' = [asked EXCEPT ![d] = "answered"]
  /\ UNCHANGED <<relay, outcome, lastProgress, socketVars, pageVars, news, told>>

PostCancelLost(d) ==
  /\ asked[d] = "sent"
  /\ asked' = [asked EXCEPT ![d] = "answered"]
  /\ UNCHANGED <<relayVars, socketVars, pageVars, news, told>>

-----------------------------------------------------------------------------
(* The page *)

SetCall(d, step) == call' = [call EXCEPT ![d] = step]

\* directTransfer returns or throws.  With a socket, its finally releases
\* the handles, which closes the socket also if it is still connecting.
DirectReturns(d, status) ==
  /\ SetCall(d, "returned")
  /\ shown' = [shown EXCEPT ![d] = status]
  /\ wire' = [wire EXCEPT ![d] = IF @ = "none" THEN "none" ELSE "closed"]
  /\ marked' = [marked EXCEPT ![d] = @ /\ wire[d] = "none"]
  /\ news' = [news EXCEPT ![d] = <<>>]

StartDirect(d) ==
  /\ call[d] = "idle"
  /\ SetCall(d, "starting")
  /\ UNCHANGED <<shown, wire, marked, relayVars, socketVars, news, askVars>>

\* Refused, or its answer is lost, whether the server copies or not.
DirectRefused(d) ==
  /\ call[d] = "starting"
  /\ DirectReturns(d, "absent")
  /\ UNCHANGED <<relayVars, socketVars, askVars>>

DirectStarted(d) ==
  /\ call[d] = "starting"
  /\ relay[d] # "none"
  /\ SetCall(d, "ticket")
  /\ shown' = [shown EXCEPT ![d] = "transferring"]
  /\ UNCHANGED <<wire, marked, relayVars, socketVars, news, askVars>>

DirectDials(d) ==
  /\ call[d] = "ticket"
  /\ SetCall(d, "opening")
  /\ wire' = [wire EXCEPT ![d] = "dialing"]
  /\ UNCHANGED <<shown, marked, relayVars, socketVars, news, askVars>>

\* No ticket; or the socket is refused, or not open after five seconds.
DirectNotOpened(d) ==
  /\ call[d] \in {"ticket", "opening"}
  /\ DirectReturns(d, "failed")
  /\ UNCHANGED <<relayVars, socketVars, askVars>>

DirectOpens(d) ==
  /\ call[d] = "opening"
  /\ handler[d] # "none"
  /\ SetCall(d, "watching")
  /\ wire' = [wire EXCEPT ![d] = "open"]
  /\ UNCHANGED <<shown, marked, relayVars, socketVars, news, askVars>>

StatusOf(message) ==
  CASE message = "started" -> "transferring"
    [] message = "complete" -> "completed"
    [] message = "error" -> "failed"
    [] message = "cancelled" -> "cancelled"

\* onmessage of bindServerTransferProgressSocket.
Watch(d) ==
  /\ call[d] = "watching"
  /\ news[d] # <<>>
  /\ IF Head(news[d]) \in Ends
     THEN DirectReturns(d, StatusOf(Head(news[d])))
     ELSE /\ shown' = [shown EXCEPT ![d] = StatusOf(Head(news[d]))]
          /\ news' = [news EXCEPT ![d] = Tail(@)]
          /\ UNCHANGED <<call, wire, marked>>
  /\ UNCHANGED <<relayVars, socketVars, askVars>>

\* onclose: a socket that closes after a cancellation settles without a word.
DirectDrops(d) ==
  /\ call[d] = "watching"
  /\ DirectReturns(d, IF marked[d] THEN shown[d] ELSE "failed")
  /\ UNCHANGED <<relayVars, socketVars, askVars>>

\* cancelDirectTransfer, once per transfer (a bound).
CancelDirect(d) ==
  /\ shown[d] = "transferring"
  /\ asked[d] = "no"
  /\ marked' = [marked EXCEPT ![d] = TRUE]
  /\ told' = [told EXCEPT ![d] = wire[d] = "open"]
  /\ asked' = [asked EXCEPT ![d] = "sent"]
  /\ UNCHANGED <<call, shown, wire, relayVars, socketVars, news>>

\* markCancelled, whatever the answer and whatever happened meanwhile.
CancelShown(d) ==
  /\ asked[d] = "answered"
  /\ asked' = [asked EXCEPT ![d] = "over"]
  /\ shown' = [shown EXCEPT ![d] = "cancelled"]
  /\ UNCHANGED <<call, wire, marked, relayVars, socketVars, news, told>>

-----------------------------------------------------------------------------

CopyEnds(d) == CopyDone(d) \/ CopyFails(d)
CallGoesOn(d) == DirectRefused(d) \/ DirectStarted(d) \/ DirectDials(d)
OpeningEnds(d) == DirectOpens(d) \/ DirectNotOpened(d)
CancelAnswered(d) == PostCancel(d) \/ PostCancelLost(d)

DirectStep(d) ==
  \/ StartDirect(d) \/ AcceptDirect(d) \/ CallGoesOn(d) \/ OpeningEnds(d)
  \/ FindTask(d) \/ RegisterSocket(d) \/ Resend(d) \/ HandlerEnds(d)
  \/ CopyGoesOn(d) \/ SubdirectoryDone(d) \/ CopyEnds(d) \/ ForgetTask(d)
  \/ Watch(d) \/ DirectDrops(d)
  \/ CancelDirect(d) \/ SocketCancel(d) \/ CancelAnswered(d) \/ CancelShown(d)

DirectNext == \E d \in Directs : DirectStep(d)

DirectSpec == DirectInit /\ [][DirectNext]_directVars

\* A copy ends (after 30 minutes at the latest), requests are answered or
\* fail, a socket opens or its time is up, and the page reads its messages.
DirectFairness ==
  \A d \in Directs :
    /\ WF_directVars(CopyEnds(d))
    /\ WF_directVars(CallGoesOn(d))
    /\ WF_directVars(OpeningEnds(d))
    /\ WF_directVars(RegisterSocket(d))
    /\ WF_directVars(Resend(d))
    /\ WF_directVars(Watch(d))
    /\ WF_directVars(CancelAnswered(d))
    /\ WF_directVars(CancelShown(d))
-----------------------------------------------------------------------------
(* Properties *)

\* A transfer shown as completed has been copied: the message says
\* "transfer complete" (sftp_transfer.go:858).  Directories in a directory
\* break it, since each of them sends that message when it is done: see the run.
CompleteIsComplete ==
  \A d \in Directs : shown[d] = "completed" => outcome[d] = "completed"

\* Once the page has called directTransfer, the call returns and its entry no
\* longer says that it is transferring, whenever the socket comes and whatever
\* the copy, the cancellation and the network do (transfer-runtime.ts:274).
\* Two cases are excepted, and the code has both: the copy ends between the
\* lookup and the registration of the socket; a socket drops after the
\* cancellation was shown and "started" was read.
DirectEnds ==
  \A d \in Directs :
    call[d] # "idle" ~>
      \/ call[d] = "returned" /\ (shown[d] = "transferring" => asked[d] = "over")
      \/ missed[d]
=============================================================================
