--------------------------------- MODULE Bridge ---------------------------------
(***************************************************************************)
(* The bridge (src/bridge.rs): two pumps between a client's WebSocket and  *)
(* a browser's CDP pipe (src/chrome/pipe.rs), raced in one select.         *)
(*                                                                         *)
(* A message is a number.  On the pipe it is two chunks, its body and the  *)
(* terminator 0, since send_raw writes them one after the other and each   *)
(* write may wait for room.  Whichever pump ends first, the other is       *)
(* dropped at the await it has reached.                                    *)
(***************************************************************************)
EXTENDS Naturals, Sequences

CONSTANTS
    ClientMsgs,     \* how many CDP messages the client sends
    BrowserMsgs,    \* how many the browser sends
    Oversized,      \* the browser's messages that exceed max_frame
    PipeRoom,       \* chunks a pipe holds
    SocketRoom      \* messages a socket holds, in either direction

ASSUME BridgeAssumption ==
    /\ ClientMsgs \in Nat /\ BrowserMsgs \in Nat
    /\ PipeRoom \in Nat \ {0} /\ SocketRoom \in Nat \ {0}
    /\ Oversized \subseteq 1..BrowserMsgs

VARIABLES
    client,     \* "here", or how it left: "finished" or "broken"
    sent,       \* how many CDP messages it sent
    inbox,      \* what ws.next() will return, in order
    up,         \* pump_client_to_browser: "next", "body", "nul" or "closing"
    msg,        \* the message it is writing
    toBrowser,  \* chunks in the pipe to the browser
    partial,    \* chunks the browser read since the last terminator
    seen,       \* the messages it made of them
    browser,    \* "up" or "gone"
    written,    \* how many chunks the browser wrote
    toServer,   \* chunks in the pipe from the browser
    buf,        \* CdpReader::buf
    down,       \* pump_browser_to_client: "recv", "send" or "bye"
    toClient,   \* messages in the socket to the client
    got,        \* messages the client read
    ended       \* the BridgeEnd, "no" while the select runs

ofClient  == <<client, sent, inbox>>
ofUp      == <<up, msg, toBrowser>>
ofBrowser == <<partial, seen, browser, written>>
ofDown    == <<buf, down>>
vars == <<client, sent, inbox, up, msg, toBrowser, partial, seen, browser,
          written, toServer, buf, down, toClient, got, ended>>

Incoming == {<<"msg", n>> : n \in 1..ClientMsgs}
                \cup {<<"ping", 0>>, <<"finish", 0>>, <<"break", 0>>}

(* Every variable holds a value of its type, and no channel its room. *)
TypeOK ==
    /\ client \in {"here", "finished", "broken"}
    /\ sent \in 0..ClientMsgs
    /\ inbox \in Seq(Incoming) /\ Len(inbox) <= SocketRoom + 1
    /\ up \in {"next", "body", "nul", "closing"}
    /\ msg \in 0..ClientMsgs
    /\ toBrowser \in Seq(0..ClientMsgs) /\ Len(toBrowser) <= PipeRoom
    /\ partial \in Seq(1..ClientMsgs)
    /\ seen \in Seq(Seq(1..ClientMsgs))
    /\ browser \in {"up", "gone"}
    /\ written \in 0..(2 * BrowserMsgs)
    /\ toServer \in Seq(0..BrowserMsgs) /\ Len(toServer) <= PipeRoom
    /\ buf \in Seq(1..BrowserMsgs)
    /\ down \in {"recv", "send", "bye"}
    /\ toClient \in Seq(Seq(1..BrowserMsgs)) /\ Len(toClient) <= SocketRoom
    /\ got \in Seq(Seq(1..BrowserMsgs))
    /\ ended \in {"no", "ClientGone", "ClientFinished", "IdleTimeout", "BrowserGone"}

Init ==
    /\ client = "here" /\ sent = 0 /\ inbox = <<>>
    /\ up = "next" /\ msg = 0 /\ toBrowser = <<>>
    /\ partial = <<>> /\ seen = <<>> /\ browser = "up" /\ written = 0
    /\ toServer = <<>> /\ buf = <<>> /\ down = "recv"
    /\ toClient = <<>> /\ got = <<>>
    /\ ended = "no"

-----------------------------------------------------------------------------
(* The client and the browser, seen from their ends. *)

ClientSends ==
    /\ client = "here" /\ Len(inbox) < SocketRoom
    /\ \/ /\ sent < ClientMsgs
          /\ sent' = sent + 1
          /\ inbox' = Append(inbox, <<"msg", sent + 1>>)
       \/ inbox' = Append(inbox, <<"ping", 0>>) /\ UNCHANGED sent
    /\ UNCHANGED <<client, toServer, toClient, got, ended>>
    /\ UNCHANGED <<ofUp, ofBrowser, ofDown>>

(* A close frame with code 1000 or none, or any other end. *)
ClientLeaves ==
    /\ client = "here"
    /\ \/ client' = "finished" /\ inbox' = Append(inbox, <<"finish", 0>>)
       \/ client' = "broken" /\ inbox' = Append(inbox, <<"break", 0>>)
    /\ UNCHANGED <<sent, toServer, toClient, got, ended>>
    /\ UNCHANGED <<ofUp, ofBrowser, ofDown>>

ClientReads ==
    /\ client = "here" /\ toClient # <<>>
    /\ got' = Append(got, Head(toClient))
    /\ toClient' = Tail(toClient)
    /\ UNCHANGED <<toServer, ended>>
    /\ UNCHANGED <<ofClient, ofUp, ofBrowser, ofDown>>

(* The browser reads a chunk; a terminator completes a message. *)
BrowserReads ==
    /\ browser = "up" /\ toBrowser # <<>>
    /\ toBrowser' = Tail(toBrowser)
    /\ \/ /\ Head(toBrowser) = 0
          /\ seen' = Append(seen, partial)
          /\ partial' = <<>>
       \/ /\ Head(toBrowser) # 0
          /\ partial' = Append(partial, Head(toBrowser))
          /\ UNCHANGED seen
    /\ UNCHANGED <<up, msg, browser, written, toServer, toClient, got, ended>>
    /\ UNCHANGED <<ofClient, ofDown>>

(* The browser writes the next chunk of its messages. *)
BrowserWrites ==
    /\ browser = "up" /\ written < 2 * BrowserMsgs /\ Len(toServer) < PipeRoom
    /\ toServer' = Append(toServer, IF written % 2 = 0 THEN written \div 2 + 1 ELSE 0)
    /\ written' = written + 1
    /\ UNCHANGED <<partial, seen, browser, toClient, got, ended>>
    /\ UNCHANGED <<ofClient, ofUp, ofDown>>

BrowserExits ==
    /\ browser = "up"
    /\ browser' = "gone"
    /\ UNCHANGED <<partial, seen, written, toServer, toClient, got, ended>>
    /\ UNCHANGED <<ofClient, ofUp, ofDown>>

-----------------------------------------------------------------------------
(* pump_client_to_browser. *)

Selecting == ended = "no" /\ up # "closing"

(* ws.next() returns; close_exit sorts close frames. *)
UpNext ==
    /\ Selecting /\ up = "next" /\ inbox # <<>>
    /\ inbox' = Tail(inbox)
    /\ LET what == Head(inbox) IN
       \/ what[1] = "msg" /\ up' = "body" /\ msg' = what[2] /\ UNCHANGED ended
       \/ what[1] = "ping" /\ UNCHANGED <<up, msg, ended>>
       \/ what[1] = "finish" /\ ended' = "ClientFinished" /\ UNCHANGED <<up, msg>>
       \/ what[1] = "break" /\ ended' = "ClientGone" /\ UNCHANGED <<up, msg>>
    /\ UNCHANGED <<client, sent, toBrowser, toServer, toClient, got>>
    /\ UNCHANGED <<ofBrowser, ofDown>>

(* Mutant of UpWrite: a message that found no room is started over. *)
UpWriteRestarts ==
    /\ Selecting /\ up \in {"body", "nul"} /\ browser = "up"
    /\ \/ /\ Len(toBrowser) < PipeRoom
          /\ up = "body" /\ up' = "nul" /\ toBrowser' = Append(toBrowser, msg)
       \/ /\ Len(toBrowser) < PipeRoom
          /\ up = "nul" /\ up' = "next" /\ toBrowser' = Append(toBrowser, 0)
       \/ /\ Len(toBrowser) = PipeRoom
          /\ up = "nul" /\ up' = "body" /\ UNCHANGED toBrowser
    /\ UNCHANGED <<msg, toServer, toClient, got, ended>>
    /\ UNCHANGED <<ofClient, ofBrowser, ofDown>>

(* CdpWriter::send_raw: the body, then the terminator. *)
UpWrite ==
    /\ Selecting /\ up \in {"body", "nul"} /\ browser = "up"
    /\ Len(toBrowser) < PipeRoom
    /\ \/ up = "body" /\ up' = "nul" /\ toBrowser' = Append(toBrowser, msg)
       \/ up = "nul" /\ up' = "next" /\ toBrowser' = Append(toBrowser, 0)
    /\ UNCHANGED <<msg, toServer, toClient, got, ended>>
    /\ UNCHANGED <<ofClient, ofBrowser, ofDown>>

(* A write to a browser that is gone ends the pump as ClientClosed. *)
UpWriteFails ==
    /\ Selecting /\ up \in {"body", "nul"} /\ browser = "gone"
    /\ ended' = "ClientGone"
    /\ UNCHANGED <<toServer, toClient, got>>
    /\ UNCHANGED <<ofClient, ofUp, ofBrowser, ofDown>>

(* The timeout around ws.next() fires; the other pump is dropped. *)
IdleTimeout ==
    /\ Selecting /\ up = "next" /\ inbox = <<>>
    /\ up' = "closing"
    /\ UNCHANGED <<msg, toBrowser, toServer, toClient, got, ended>>
    /\ UNCHANGED <<ofClient, ofBrowser, ofDown>>

(* A send to the client completes when the socket has room, or fails. *)
CanClose == client # "here" \/ Len(toClient) < SocketRoom

(* Mutant of IdleClose: it insists on a close that was sent. *)
IdleCloseInsists ==
    /\ ended = "no" /\ up = "closing" /\ client = "here" /\ CanClose
    /\ ended' = "IdleTimeout"
    /\ UNCHANGED <<toServer, toClient, got>>
    /\ UNCHANGED <<ofClient, ofUp, ofBrowser, ofDown>>

(* The 1013 close, in the select's handler. *)
IdleClose ==
    /\ ended = "no" /\ up = "closing" /\ CanClose
    /\ ended' = "IdleTimeout"
    /\ UNCHANGED <<toServer, toClient, got>>
    /\ UNCHANGED <<ofClient, ofUp, ofBrowser, ofDown>>

-----------------------------------------------------------------------------
(* pump_browser_to_client. *)

(* recv_raw and take_frame: buffers until the terminator; a message over    *)
(* the cap is an error.                                                     *)
DownRead ==
    /\ Selecting /\ down = "recv" /\ toServer # <<>>
    /\ toServer' = Tail(toServer)
    /\ LET chunk == Head(toServer) IN
       \/ chunk = 0 /\ down' = "send" /\ UNCHANGED buf
       \/ chunk # 0 /\ chunk \notin Oversized /\ down' = "recv" /\ buf' = Append(buf, chunk)
       \/ chunk \in Oversized /\ down' = "bye" /\ UNCHANGED buf
    /\ UNCHANGED <<toClient, got, ended>>
    /\ UNCHANGED <<ofClient, ofUp, ofBrowser>>

(* End of stream: all that was written is read. *)
DownEof ==
    /\ Selecting /\ down = "recv" /\ toServer = <<>> /\ browser = "gone"
    /\ down' = "bye"
    /\ UNCHANGED <<buf, toServer, toClient, got, ended>>
    /\ UNCHANGED <<ofClient, ofUp, ofBrowser>>

(* ws.send of the message. *)
DownSend ==
    /\ Selecting /\ down = "send" /\ Len(toClient) < SocketRoom
    /\ toClient' = Append(toClient, buf)
    /\ buf' = <<>> /\ down' = "recv"
    /\ UNCHANGED <<toServer, got, ended>>
    /\ UNCHANGED <<ofClient, ofUp, ofBrowser>>

(* ws.send fails; the other pump is dropped wherever it is. *)
DownSendFails ==
    /\ Selecting /\ down = "send" /\ client # "here"
    /\ ended' = "ClientGone"
    /\ UNCHANGED <<toServer, toClient, got>>
    /\ UNCHANGED <<ofClient, ofUp, ofBrowser, ofDown>>

(* The 1011 close. *)
DownBye ==
    /\ Selecting /\ down = "bye" /\ CanClose
    /\ ended' = "BrowserGone"
    /\ UNCHANGED <<toServer, toClient, got>>
    /\ UNCHANGED <<ofClient, ofUp, ofBrowser, ofDown>>

Up == UpNext \/ UpWrite \/ UpWriteFails \/ IdleClose
Down == DownRead \/ DownEof \/ DownSend \/ DownSendFails \/ DownBye

Next ==
    \/ ClientSends \/ ClientLeaves \/ ClientReads
    \/ BrowserReads \/ BrowserWrites \/ BrowserExits
    \/ Up \/ IdleTimeout \/ Down

Spec == Init /\ [][Next]_vars

(* The bridge's own steps: both pumps are polled, and a timer that is not   *)
(* restarted fires.  Nothing is assumed of the browser or the client, who   *)
(* may each stop reading without going away.  Without an idle_timeout, the  *)
(* last conjunct is missing.                                                *)
FairSpec == Spec /\ WF_vars(Up) /\ WF_vars(Down) /\ WF_vars(IdleTimeout)

-----------------------------------------------------------------------------
(* What the bridge promises. *)

\* The n-th chunk of a side that writes its messages whole and in order.
Chunk(n) == IF n % 2 = 1 THEN (n + 1) \div 2 ELSE 0

(* Both sides get the other's messages whole, once each and in order,       *)
(* through partial reads and writes, blocked sends and ends of either side; *)
(* and a client that closed on purpose, whose session alone ends as         *)
(* finished, had all it sent written before: what the browser has not read  *)
(* of it is in the pipe, to the last message's end.                         *)
MessagesWhole ==
    /\ TypeOK
    /\ \A i \in 1..Len(seen) : seen[i] = <<i>>
    /\ \A i \in 1..Len(got \o toClient) : (got \o toClient)[i] = <<i>>
    /\ ended = "ClientFinished" =>
          /\ client = "finished"
          /\ LET stream == partial \o toBrowser
             IN  /\ 2 * Len(seen) + Len(stream) = 2 * sent
                 /\ \A i \in 1..Len(stream) : stream[i] = Chunk(2 * Len(seen) + i)

(* A write waits for a browser that has stopped reading. *)
BrowserStuck ==
    up \in {"body", "nul"} /\ browser = "up" /\ Len(toBrowser) = PipeRoom

(* A close waits for a client that has stopped reading. *)
ClientStuck ==
    up = "closing" /\ client = "here" /\ Len(toClient) = SocketRoom

(* "a session whose client stops sending CDP messages for that long is      *)
(* killed": unless frames (pings are as good) keep coming, the bridge ends, *)
(* whichever pump stands where; only a write or a close that its reader     *)
(* never takes holds it. README: "On disconnect the whole process tree is   *)
(* killed": a client that left ends it, unless a browser stops reading for  *)
(* good under a write.                                                      *)
BridgeEnds ==
    /\ []<>(inbox # <<>>) \/ <>(ended # "no") \/ <>[](BrowserStuck \/ ClientStuck)
    /\ client # "here" ~> (ended # "no" \/ []BrowserStuck)

-----------------------------------------------------------------------------
(* The inductive invariant behind MessagesWhole. *)

\* What ws.next() will return: the messages after msg, each once and in order,
\* and the client's end last.
InboxInv ==
    /\ msg <= sent
    /\ client = "here" => Len(inbox) <= SocketRoom
    /\ \A i \in 1..Len(inbox) :
          /\ inbox[i][1] = "msg" => inbox[i][2] \in (msg + 1)..sent
          /\ inbox[i][1] = "finish" => i = Len(inbox) /\ client = "finished"
          /\ inbox[i][1] = "break" => i = Len(inbox) /\ client = "broken"
    /\ \A i, j \in 1..Len(inbox) :
          i < j /\ inbox[i][1] = "msg" /\ inbox[j][1] = "msg" => inbox[i][2] < inbox[j][2]
    /\ \A n \in (msg + 1)..sent : \E i \in 1..Len(inbox) : inbox[i] = <<"msg", n>>

\* What the browser has read, and what it finds next.
Read == 2 * Len(seen) + Len(partial)
UpInv ==
    /\ \A i \in 1..Len(seen) : seen[i] = <<i>>
    /\ partial = <<>> \/ partial = <<Len(seen) + 1>>
    /\ \A i \in 1..Len(toBrowser) : toBrowser[i] = Chunk(Read + i)
    /\ up \in {"next", "closing"} => Read + Len(toBrowser) = 2 * msg
    /\ up = "body" => msg > 0 /\ Read + Len(toBrowser) = 2 * msg - 2
    /\ up = "nul" => msg > 0 /\ Read + Len(toBrowser) = 2 * msg - 1
    /\ ended = "ClientFinished" => client = "finished" /\ up = "next" /\ msg = sent

\* The same of what the server has read, until it meets a message over the cap.
Passed == Len(got) + Len(toClient)
Taken == 2 * Passed + Len(buf) + (IF down = "send" THEN 1 ELSE 0)
DownInv ==
    /\ \A i \in 1..Len(got) : got[i] = <<i>>
    /\ \A i \in 1..Len(toClient) : toClient[i] = <<Len(got) + i>>
    /\ buf = <<>> \/ buf = <<Passed + 1>>
    /\ down = "send" => buf # <<>>
    /\ down # "bye" =>
          /\ Taken + Len(toServer) = written
          /\ \A i \in 1..Len(toServer) : toServer[i] = Chunk(Taken + i)

BridgeInv == TypeOK /\ InboxInv /\ UpInv /\ DownInv
=============================================================================
