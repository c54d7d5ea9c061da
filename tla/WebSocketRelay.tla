--------------------------- MODULE WebSocketRelay ---------------------------
(***************************************************************************)
(* One carried websocket: CarriedWebSocket in packages/loader/src/         *)
(* websocket.ts and the sockets of client.ts at the page's end, lane 0     *)
(* between, content-node/websocket.go at the node's, and the upstream it   *)
(* dials.                                                                  *)
(*                                                                         *)
(* On the node four parties touch a socket: the lane's frame delivery, the *)
(* dialling goroutine, the writer and the pump (the dialling goroutine     *)
(* goes on as the pump).  closeOnce lets one of them close it.             *)
(*                                                                         *)
(* Request ids are never reused by a page, so one socket is followed.      *)
(* Messages are numbered in the order the application sends them.          *)
(***************************************************************************)
EXTENDS Integers, Sequences, Sums

CONSTANTS
  Credits,     \* MAX_WS_CREDITS, the window of messages to the page
  Batch,       \* WS_CREDIT_BATCH
  QueueFrames, \* maxWebSocketSendQueueFrames
  MaxSends,    \* messages the application sends (bound)
  MaxOffers    \* messages the upstream sends (bound)

ASSUME RelayAssumption ==
  /\ Credits \in Nat \ {0} /\ Batch \in 1..Credits /\ QueueFrames \in Nat \ {0}
  /\ MaxSends \in Nat /\ MaxOffers \in Nat

VARIABLES
  socket,         \* the page's socket
  wsUp, wsDown,   \* the lane, both ways
  link,           \* "up", or "down" once the page's transport is torn down
  stream,         \* the webSocketStream and its goroutines
  upstream        \* what the upstream received and sent, and how it was closed

relayVars == <<socket, wsUp, wsDown, link, stream, upstream>>

Frame(type, n) == [t |-> type, n |-> n]

RelayInit ==
  /\ socket = [state |-> "none", listed |-> FALSE, blobs |-> {}, sends |-> 0,
               framed |-> <<>>, consumed |-> 0, gaveUp |-> FALSE]
  /\ wsUp = <<>> /\ wsDown = <<>>
  /\ link = "up"
  /\ stream = [status |-> "none", open |-> TRUE, listed |-> FALSE, once |-> FALSE,
               cancelled |-> FALSE, conn |-> FALSE, ring |-> <<>>, closing |-> FALSE,
               writer |-> "none", held |-> 0, pump |-> "none", credits |-> 0, reports |-> 0]
  /\ upstream = [conn |-> "none", received |-> <<>>, offered |-> 0, closedBy |-> "none"]

----------------------------------------------------------------------------
(* The page.                                                               *)

(* acceptClose and #fail: the socket is closed and released; #fail tells   *)
(* the application, not the node.                                          *)
Closed(p) == [p EXCEPT !.state = "closed", !.listed = FALSE, !.blobs = {}, !.consumed = 0]

(* openWebSocket.  Without a channel the socket fails in a microtask.      *)
openWebSocket ==
  /\ socket.state = "none"
  /\ IF link = "up"
     THEN /\ socket' = [socket EXCEPT !.state = "connecting", !.listed = TRUE]
          /\ wsUp' = Append(wsUp, Frame("WsOpen", 0))
     ELSE socket' = Closed(socket) /\ UNCHANGED wsUp
  /\ UNCHANGED <<wsDown, link, stream, upstream>>

transmit(n) == wsUp' = Append(wsUp, Frame("WsData", n))

(* send of a text or a buffer is framed at once.  A socket that is closing *)
(* or closed drops it.                                                     *)
SendText ==
  /\ socket.state = "open" /\ socket.sends < MaxSends
  /\ LET n == socket.sends + 1
     IN socket' = [socket EXCEPT !.sends = n, !.framed = Append(@, n)] /\ transmit(n)
  /\ UNCHANGED <<wsDown, link, stream, upstream>>

(* send of a Blob only starts reading it; it is framed when it is read, if *)
(* the socket is still open.                                               *)
SendBlob ==
  /\ socket.state = "open" /\ socket.sends < MaxSends
  /\ socket' = [socket EXCEPT !.sends = @ + 1, !.blobs = @ \cup {socket.sends + 1}]
  /\ UNCHANGED <<wsUp, wsDown, link, stream, upstream>>

BlobRead(n) ==
  /\ n \in socket.blobs
  /\ IF socket.state = "open"
     THEN socket' = [socket EXCEPT !.blobs = @ \ {n}, !.framed = Append(@, n)] /\ transmit(n)
     ELSE socket' = [socket EXCEPT !.blobs = @ \ {n}] /\ UNCHANGED wsUp
  /\ UNCHANGED <<wsDown, link, stream, upstream>>

(* A message above the frame limit fails the socket.                       *)
SendTooLarge ==
  /\ socket.state = "open" /\ socket.sends < MaxSends
  /\ socket' = [Closed(socket) EXCEPT !.sends = @ + 1, !.gaveUp = TRUE]
  /\ UNCHANGED <<wsUp, wsDown, link, stream, upstream>>

(* close, while connecting too.                                            *)
close ==
  /\ socket.state \in {"connecting", "open"}
  /\ socket' = [socket EXCEPT !.state = "closing"]
  /\ wsUp' = Append(wsUp, Frame("WsClose", 0))
  /\ UNCHANGED <<wsDown, link, stream, upstream>>

(* Mutant: the message that completes a batch is left out of it.           *)
replenishOneShort ==
  LET n == socket.consumed + 1
  IN IF n < Batch
     THEN socket' = [socket EXCEPT !.consumed = n] /\ UNCHANGED wsUp
     ELSE /\ socket' = [socket EXCEPT !.consumed = 0]
          /\ wsUp' = Append(wsUp, Frame("Credit", socket.consumed))

(* replenishSocketCredit: credit goes back in batches.                     *)
replenishSocketCredit ==
  LET n == socket.consumed + 1
  IN IF n < Batch
     THEN socket' = [socket EXCEPT !.consumed = n] /\ UNCHANGED wsUp
     ELSE socket' = [socket EXCEPT !.consumed = 0] /\ wsUp' = Append(wsUp, Frame("Credit", n))

(* onFrame and onSocketFrame.  Frames for a socket that was released are   *)
(* ignored.  A message counts as consumed whatever state the socket is in. *)
onSocketFrame ==
  /\ wsDown # <<>>
  /\ wsDown' = Tail(wsDown)
  /\ LET m == Head(wsDown)
     IN \/ ~socket.listed /\ UNCHANGED <<socket, wsUp>>
        \/ /\ socket.listed /\ m.t = "WsOpened"
           /\ socket' = [socket EXCEPT !.state = IF @ = "connecting" THEN "open" ELSE @]
           /\ UNCHANGED wsUp
        \/ socket.listed /\ m.t = "WsData" /\ replenishSocketCredit
        \/ /\ socket.listed /\ m.t \in {"WsClose", "ResErr"}
           /\ socket' = Closed(socket) /\ UNCHANGED wsUp
  /\ UNCHANGED <<link, stream, upstream>>

(* teardown closes every socket (failAllSockets); the lane is gone.        *)
failAllSockets ==
  /\ link = "up"
  /\ link' = "down" /\ wsUp' = <<>> /\ wsDown' = <<>>
  /\ socket' = IF socket.listed THEN Closed(socket) ELSE socket
  /\ UNCHANGED <<stream, upstream>>

----------------------------------------------------------------------------
(* The node.                                                               *)

(* lane.send fails once the lane is closed.                                *)
Sendable == link = "up" /\ stream.open

(* The state of the node after closeOnce ran for the first time: the       *)
(* socket is forgotten, its context cancelled, the upstream connection it  *)
(* knows of closed.                                                        *)
Torn(n) == [n EXCEPT !.once = TRUE, !.listed = FALSE, !.cancelled = TRUE]
Dropped(n, by) ==
  IF n.conn /\ upstream.conn = "live"
  THEN [upstream EXCEPT !.conn = "closed", !.closedBy = by] ELSE upstream

(* closeWebSocket, and failWebSocket, which reports an error instead: they *)
(* tell the page once.                                                     *)
closeWebSocket(n, type) ==
  IF n.once THEN stream' = n /\ UNCHANGED <<upstream, wsDown>>
  ELSE /\ stream' = [Torn(n) EXCEPT !.reports = @ + 1]
       /\ upstream' = Dropped(n, "node")
       /\ wsDown' = IF Sendable THEN Append(wsDown, Frame(type, 0)) ELSE wsDown

(* beginWebSocket: the opening is refused, or the socket listed and the    *)
(* upstream dialled.                                                       *)
beginWebSocket ==
  \/ /\ stream' = [stream EXCEPT !.reports = @ + 1, !.status = "refused"]
     /\ wsDown' = Append(wsDown, Frame("ResErr", 0))
  \/ /\ stream' = [stream EXCEPT !.status = "dialling", !.listed = TRUE, !.credits = Credits]
     /\ UNCHANGED wsDown

(* enqueueWrite: nothing after a close; a close always fits.               *)
enqueueWrite(n, item) ==
  IF n.closing THEN n ELSE [n EXCEPT !.ring = Append(@, item), !.closing = item.t = "WsClose"]

QueueFull(n) == ~n.closing /\ Len(n.ring) >= QueueFrames

(* OnMessage for the socket's frames, on the lane's delivery goroutine:    *)
(* writeWebSocket, requestWebSocketClose and the credit of a socket.       *)
OnMessage ==
  /\ stream.open /\ wsUp # <<>>
  /\ wsUp' = Tail(wsUp)
  /\ LET m == Head(wsUp)
     IN \/ m.t = "WsOpen" /\ beginWebSocket /\ UNCHANGED upstream
        \/ /\ m.t # "WsOpen"
           /\ ~stream.listed \/ (m.t = "WsData" /\ ~stream.conn)
           /\ UNCHANGED <<stream, wsDown, upstream>>
        \/ /\ m.t = "WsData" /\ stream.listed /\ stream.conn
           /\ IF QueueFull(stream)
              THEN closeWebSocket(stream, "WsClose")
              ELSE stream' = enqueueWrite(stream, m) /\ UNCHANGED <<wsDown, upstream>>
        \/ /\ m.t = "WsClose" /\ stream.listed
           /\ IF ~stream.conn
              THEN closeWebSocket(stream, "WsClose")
              ELSE stream' = enqueueWrite(stream, m) /\ UNCHANGED <<wsDown, upstream>>
        \/ /\ m.t = "Credit" /\ stream.listed
           /\ stream' = [stream EXCEPT !.credits = @ + m.n]
           /\ UNCHANGED <<wsDown, upstream>>
  /\ UNCHANGED <<socket, link>>

(* dialWebSocket.  The dial fails, by refusal, time out or cancellation... *)
DialFails ==
  /\ stream.status = "dialling" /\ upstream.conn = "none"
  /\ closeWebSocket([stream EXCEPT !.status = "over"], "ResErr")
  /\ UNCHANGED <<socket, wsUp, link>>

(* ... or the upstream accepts it: the library has a connection of which   *)
(* the stream does not know yet,                                           *)
DialReturns ==
  /\ stream.status = "dialling" /\ upstream.conn = "none" /\ ~stream.cancelled
  /\ upstream' = [upstream EXCEPT !.conn = "live"]
  /\ UNCHANGED <<socket, wsUp, wsDown, link, stream>>

(* which is stored,                                                        *)
StoreConn ==
  /\ stream.status = "dialling" /\ upstream.conn = "live"
  /\ stream' = [stream EXCEPT !.status = "stored", !.conn = TRUE]
  /\ UNCHANGED <<socket, wsUp, wsDown, link, upstream>>

(* and reported; then the writer starts and the pump.  None of this looks  *)
(* whether the socket was closed in between.                               *)
ReportOpened ==
  /\ stream.status = "stored"
  /\ IF Sendable
     THEN /\ stream' = [stream EXCEPT !.status = "open", !.writer = "idle", !.pump = "take"]
          /\ wsDown' = Append(wsDown, Frame("WsOpened", 0))
          /\ UNCHANGED upstream
     ELSE closeWebSocket([stream EXCEPT !.status = "over"], "WsClose")
  /\ UNCHANGED <<socket, wsUp, link>>

(* writeWebSocketLoop takes the next item; a close begins the handshake    *)
(* with closeOnce held, so that nobody else closes or reports.             *)
TakeWrite ==
  /\ stream.writer = "idle" /\ stream.ring # <<>>
  /\ LET item == Head(stream.ring)
         rest == [stream EXCEPT !.ring = Tail(@)]
     IN stream' = IF item.t = "WsData" THEN [rest EXCEPT !.writer = "write", !.held = item.n]
                ELSE IF stream.once THEN [rest EXCEPT !.writer = "done"]
                ELSE [rest EXCEPT !.writer = "handshake", !.once = TRUE, !.listed = FALSE]
  /\ UNCHANGED <<socket, wsUp, wsDown, link, upstream>>

(* The write reaches the upstream, or fails and closes the socket.         *)
WriteDone ==
  /\ stream.writer = "write" /\ upstream.conn = "live"
  /\ stream' = [stream EXCEPT !.writer = "idle", !.held = 0]
  /\ upstream' = [upstream EXCEPT !.received = Append(@, stream.held)]
  /\ UNCHANGED <<socket, wsUp, wsDown, link>>

(* Mutant: a message that could not be written is skipped.                 *)
WriteSkips ==
  /\ stream.writer = "write"
  /\ stream' = [stream EXCEPT !.writer = "idle", !.held = 0]
  /\ UNCHANGED <<socket, wsUp, wsDown, link, upstream>>

WriteFails ==
  /\ stream.writer = "write"
  /\ closeWebSocket([stream EXCEPT !.writer = "done", !.held = 0], "WsClose")
  /\ UNCHANGED <<socket, wsUp, link>>

(* Mutant: the page is not told of the close it asked for.                 *)
HandshakeInSilence ==
  /\ stream.writer = "handshake"
  /\ stream' = [stream EXCEPT !.writer = "done", !.cancelled = TRUE]
  /\ upstream' = IF upstream.conn = "live"
                 THEN [upstream EXCEPT !.conn = "closed", !.closedBy = "page"] ELSE upstream
  /\ UNCHANGED <<socket, wsUp, wsDown, link>>

(* closeWebSocketHandshakeFirst: the upstream sees the page's close, then  *)
(* the pump is cancelled and the page told.                                *)
HandshakeDone ==
  /\ stream.writer = "handshake"
  /\ stream' = [stream EXCEPT !.writer = "done", !.cancelled = TRUE, !.reports = @ + 1]
  /\ upstream' = IF upstream.conn = "live"
                 THEN [upstream EXCEPT !.conn = "closed", !.closedBy = "page"] ELSE upstream
  /\ wsDown' = IF Sendable THEN Append(wsDown, Frame("WsClose", 0)) ELSE wsDown
  /\ UNCHANGED <<socket, wsUp, link>>

(* nextWrite ends with the context.                                        *)
WriterEnds ==
  /\ stream.writer = "idle" /\ stream.cancelled
  /\ stream' = [stream EXCEPT !.writer = "done"]
  /\ UNCHANGED <<socket, wsUp, wsDown, link, upstream>>

(* A party that would close while the writer holds closeOnce waits for it. *)
OnceFree == stream.writer # "handshake"

(* pumpWebSocket: a credit is taken before a message is read.              *)
PumpTakes ==
  /\ stream.pump = "take" /\ stream.credits > 0
  /\ stream' = [stream EXCEPT !.pump = "read", !.credits = @ - 1]
  /\ UNCHANGED <<socket, wsUp, wsDown, link, upstream>>

(* The library's Read fails once its context is cancelled.                 *)
PumpReads ==
  /\ stream.pump = "read" /\ ~stream.cancelled
  /\ upstream.conn = "live" /\ upstream.offered < MaxOffers
  /\ upstream' = [upstream EXCEPT !.offered = @ + 1]
  /\ stream' = [stream EXCEPT !.pump = "send"]
  /\ UNCHANGED <<socket, wsUp, wsDown, link>>

(* waitForBuffer and the send; both fail once the lane is closed.          *)
PumpSends ==
  /\ stream.pump = "send" /\ Sendable
  /\ stream' = [stream EXCEPT !.pump = "take"]
  /\ wsDown' = Append(wsDown, Frame("WsData", 0))
  /\ UNCHANGED <<socket, wsUp, link, upstream>>

(* The pump ends: no credit and a cancelled context, a Read that fails     *)
(* (cancelled, which drops the connection, or closed), or a send that      *)
(* does; waitForBuffer may also notice the cancellation.                   *)
PumpEnds ==
  /\ OnceFree
  /\ \/ stream.pump = "take" /\ stream.credits = 0 /\ stream.cancelled
     \/ stream.pump = "read" /\ (stream.cancelled \/ upstream.conn = "closed")
     \/ stream.pump = "send" /\ (stream.cancelled \/ ~Sendable)
  /\ IF stream.once
     THEN /\ stream' = [stream EXCEPT !.pump = "done"]
          /\ upstream' = IF stream.pump = "read" THEN Dropped(stream, "node") ELSE upstream
          /\ UNCHANGED wsDown
     ELSE closeWebSocket([stream EXCEPT !.pump = "done"], "WsClose")
  /\ UNCHANGED <<socket, wsUp, link>>

(* PeerSession.Close, when the node notices that the transport is gone:    *)
(* the sockets it still lists are closed without a report.                 *)
ClosePeer ==
  /\ link = "down" /\ stream.open
  /\ IF stream.listed /\ ~stream.once
     THEN stream' = [Torn(stream) EXCEPT !.open = FALSE] /\ upstream' = Dropped(stream, "node")
     ELSE stream' = [stream EXCEPT !.open = FALSE, !.listed = FALSE] /\ UNCHANGED upstream
  /\ UNCHANGED <<socket, wsUp, wsDown, link>>

(* The upstream closes or drops its connection.                            *)
UpstreamCloses ==
  /\ upstream.conn = "live" /\ stream.conn
  /\ upstream' = [upstream EXCEPT !.conn = "closed", !.closedBy = "upstream"]
  /\ UNCHANGED <<socket, wsUp, wsDown, link, stream>>

(* What happens by itself: neither the application nor the upstream acts,  *)
(* and the transport stays as it is.                                       *)
RelayStep ==
  \/ \E n \in socket.blobs : BlobRead(n)
  \/ onSocketFrame \/ OnMessage
  \/ DialFails \/ DialReturns \/ StoreConn \/ ReportOpened
  \/ TakeWrite \/ WriteDone \/ WriteFails \/ HandshakeDone \/ WriterEnds
  \/ PumpTakes \/ PumpSends \/ PumpEnds
  \/ ClosePeer

RelayNext ==
  \/ openWebSocket \/ SendText \/ SendBlob \/ SendTooLarge \/ close
  \/ failAllSockets \/ PumpReads \/ UpstreamCloses
  \/ RelayStep

RelaySpec == RelayInit /\ [][RelayNext]_relayVars

----------------------------------------------------------------------------
(* Properties.                                                             *)

Messages(s) == Total([i \in DOMAIN s |-> IF s[i].t = "WsData" THEN 1 ELSE 0])
CreditsIn(s) == Total([i \in DOMAIN s |-> IF s[i].t = "Credit" THEN s[i].n ELSE 0])

(* What the upstream has received is what the page framed, in that order   *)
(* and without a gap, through the lane, the queue and the writer; and      *)
(* "honours a browser-initiated close after every message the browser      *)
(* queued ahead of it has reached the upstream": an upstream that sees the *)
(* page's close has every message framed before it.                        *)
UpstreamSeesAPrefix ==
  /\ Len(upstream.received) <= Len(socket.framed)
  /\ \A i \in DOMAIN upstream.received : upstream.received[i] = socket.framed[i]
  /\ upstream.closedBy = "page" => upstream.received = socket.framed

(* The window refills: while the socket lives at both ends, every credit   *)
(* is at the node, with a message under way, counted by the page or on its *)
(* way back.  The pump holds one from its take until its message is sent.  *)
SocketCreditsConserved ==
  socket.listed /\ stream.listed /\ link = "up" =>
    stream.credits + (IF stream.pump \in {"read", "send"} THEN 1 ELSE 0)
      + Messages(wsDown) + socket.consumed + CreditsIn(wsUp) = Credits

(* When nothing is left to happen, a socket is open at both ends or at     *)
(* neither, and a closed one has let go of its upstream.  Two cases are    *)
(* left out, in which the code lets go of neither: a page that gave up on  *)
(* a message too large, which the node never hears of, and a connection    *)
(* that is stored and cannot be reported after the socket was closed.      *)
(* Meanwhile the goroutines that race to close a socket from both ends     *)
(* report one close or one error, never two ("telling the browser once").  *)
BothEndsAgree ==
  /\ stream.reports <= 1
  /\ \/ socket.gaveUp \/ (stream.status = "over" /\ stream.conn)
     \/ /\ socket.state \in {"none", "open", "closed"}
        /\ socket.state = "open" <=> stream.listed
        /\ socket.state = "closed" => upstream.conn # "live"
     \/ ENABLED RelayStep

============================================================================
