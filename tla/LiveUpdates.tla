----------------------------- MODULE LiveUpdates -----------------------------
(***************************************************************************)
(* How a change in the database reaches a screen.  A commit rings a bell   *)
(* (NOTIFY); the listener of an API process (app/realtime/listener.py)     *)
(* hears it and puts it in the queues of its hub (hub.py); and the         *)
(* connection of a browser forwards it:                                    *)
(*                                                                         *)
(*    socket   /ws of api/v1/realtime.py, read by useLiveUpdates.ts: each  *)
(*             message makes the page fetch its data again                 *)
(*    stream   /notifications/stream, read by useUnreadCount.ts: each      *)
(*             message is the new value of the badge.  It travels as text, *)
(*             in chunks that the parser of sse.ts puts together           *)
(*                                                                         *)
(* A behaviour follows one connection of one browser: the hub keeps them   *)
(* apart.  What is watched is a version, counted up by every change.       *)
(***************************************************************************)
EXTENDS Sse

CONSTANTS
    Kinds,          \* which of the two connections: a subset of AllKinds
    LineEnds,       \* how the text of a stream may end its lines
    QUEUE_SIZE,     \* of a subscriber, in hub.py
    WIRE_SIZE,      \* messages that the network takes before a sender waits
    MaxVersion,     \* bound on the changes
    MaxFaults       \* bound on lost connections, restarts, expired tokens and
                    \* requests that fail

AllKinds == {"socket", "stream"}

ASSUME KindsAssumption == Kinds \subseteq AllKinds /\ Kinds # {}
ASSUME LineEndsAssumption == LineEnds \subseteq {"lf", "crlf"} /\ LineEnds # {}
ASSUME SizeAssumption ==
    /\ QUEUE_SIZE \in Nat \ {0}
    /\ WIRE_SIZE \in Nat \ {0}
    /\ MaxVersion \in Nat
    /\ MaxFaults \in Nat

VARIABLES
    version,    \* what is committed
    notices,    \* NOTIFYs on their way to the process
    listener,   \* the LISTENing connection, and the variable `reconnecting'
    server,     \* the server's end of the connection, with its Subscriber
    wire,       \* the messages between the two ends
    client,     \* the hook
    parser,     \* of the text of a stream
    page,       \* the query of the page (the badge: what it shows)
    faults,     \* how many faults there were
    owed        \* the last version that the browser must come to show: an
                \* observer's variable

vars ==
    <<version, notices, listener, server, wire, client, parser, page, faults, owed>>

Version == 1 .. MaxVersion + 1
None    == 0

\* The messages of a socket, and the elements of the text of a stream.
Message == [type: {"ready", "ticket", "resync", "event", "data", "comment", "cr", "lf"},
            count: Version \cup {None}]

TypeOK ==
    /\ version \in Version
    /\ notices \in Nat
    /\ listener \in [up: BOOLEAN, reconnecting: BOOLEAN]
    /\ server \in [pc: {"none", "rooms", "up", "count", "yield"}, count: Version \cup {None},
                   queue: Seq({"ticket", "resync"}), missed: BOOLEAN,
                   token: {"good", "expired"}, lineEnd: LineEnds]
    /\ Len(server.queue) <= QUEUE_SIZE
    /\ wire \in Seq(Message)
    /\ client \in [kind: AllKinds, status: {"connecting", "live", "offline"},
                   pc: {"retry", "open", "refresh", "stuck", "gone"},
                   again: BOOLEAN, code: {"none", "unauthorized", "other"}]
    /\ parser \in [heldBack: Seq(Message), buffer: Seq(Message)]
    /\ page \in [cached: Version \cup {None}, fetch: {"idle", "sent", "read"},
                 read: Version \cup {None}, lost: Version \cup {None}]
    /\ faults \in Nat
    /\ owed \in Version \cup {None}

Init ==
    /\ version = 1
    /\ notices = 0
    /\ listener = [up |-> FALSE, reconnecting |-> FALSE]
    /\ \E lineEnd \in LineEnds :
        server = [pc |-> "none", count |-> None, queue |-> <<>>, missed |-> FALSE,
                  token |-> "good", lineEnd |-> lineEnd]
    /\ wire = <<>>
    /\ parser = createSseParser
    /\ \E kind \in Kinds :
        /\ client = [kind |-> kind, status |-> "connecting", pc |-> "retry",
                     again |-> FALSE, code |-> "none"]
        /\ page = [cached |-> None, read |-> None, lost |-> None,
                   fetch |-> IF kind = "socket" THEN "sent" ELSE "idle"]
    /\ faults = 0
    /\ owed = None

Fault == faults < MaxFaults /\ faults' = faults + 1

Socket == client.kind = "socket"

\* The hub has a Subscriber for the connection.
Subscribed == server.pc \notin {"none", "rooms"}

-----------------------------------------------------------------------------
(* The database and the listener. *)

\* A change is owed to a browser that is subscribed, or that will reload in
\* any case when it next connects.  Not so: changes between the first load of a
\* page and its first subscription, after the very first load has read and
\* before it is stored, or between the start of a process and its first LISTEN.
Owing ==
    /\ IF Subscribed THEN listener.up \/ listener.reconnecting
                     ELSE Socket => client.again
    /\ Socket => ~(page.cached = None /\ page.fetch = "read")

Change ==
    /\ version < MaxVersion + 1
    /\ version' = version + 1
    /\ notices' = IF listener.up THEN notices + 1 ELSE notices
    /\ owed' = IF Owing THEN version + 1 ELSE owed
    /\ UNCHANGED <<listener, server, wire, client, parser, page, faults>>

Deliver_Unbounded(message) ==   \* slip: put without a limit
    server' = IF Subscribed THEN [server EXCEPT !.queue = Append(@, message)] ELSE server

\* Hub._deliver: a full queue drops the message and remembers that it did.
Deliver(message) ==
    server' = IF ~Subscribed THEN server
              ELSE IF Len(server.queue) < QUEUE_SIZE
              THEN [server EXCEPT !.queue = Append(@, message)]
              ELSE [server EXCEPT !.missed = TRUE]

Dispatch ==
    /\ listener.up /\ notices > 0
    /\ notices' = notices - 1
    /\ Deliver("ticket")
    /\ UNCHANGED <<version, listener, wire, client, parser, page, faults, owed>>

\* Whether a LISTEN is followed by a RESYNC to everybody.
AfterGap_Never == FALSE         \* slip: a new LISTEN as good as the old one

AfterGap == listener.reconnecting

Listen ==
    /\ ~listener.up
    /\ listener' = [listener EXCEPT !.up = TRUE]
    /\ IF AfterGap THEN Deliver("resync") ELSE UNCHANGED server
    /\ UNCHANGED <<version, notices, wire, client, parser, page, faults, owed>>

ListenerLost ==
    /\ listener.up
    /\ listener' = [up |-> FALSE, reconnecting |-> TRUE]
    /\ notices' = 0
    /\ Fault
    /\ UNCHANGED <<version, server, wire, client, parser, page, owed>>

-----------------------------------------------------------------------------
(* The server's end. *)

\* The connection ends: what was on the wire or queued is gone.
Closed == [server EXCEPT !.pc = "none", !.count = None, !.queue = <<>>, !.missed = FALSE]

Hangup(code) ==
    /\ server' = Closed
    /\ wire' = <<>>
    /\ client' = [client EXCEPT !.code = code]

Connected == client.pc = "open" /\ client.code = "none"

\* live_updates reads the rooms of the caller, or refuses the token.  apiRaw
\* deals with a refused token of a stream by itself.
Authenticate ==
    /\ Connected /\ server.pc = "none"
    /\ IF Socket /\ server.token = "expired"
       THEN Hangup("unauthorized")
       ELSE /\ server' = [server EXCEPT !.pc = "rooms", !.token = "good"]
            /\ UNCHANGED <<wire, client>>
    /\ UNCHANGED <<version, notices, listener, parser, page, faults, owed>>

\* The socket says that it is ready after it subscribed; the stream subscribes
\* before it counts.
Subscribe ==
    /\ Connected /\ server.pc = "rooms"
    /\ server' = [server EXCEPT !.pc = IF Socket THEN "up" ELSE "count"]
    /\ wire' = IF Socket THEN <<Plain("ready")>> ELSE <<>>
    /\ UNCHANGED <<version, notices, listener, client, parser, page, faults, owed>>

\* Subscriber.get: what it hands out, and what it leaves in the queue.
Got == IF server.missed THEN "resync" ELSE Head(server.queue)

Left == [server EXCEPT !.queue = IF server.missed THEN <<>> ELSE Tail(@),
                       !.missed = FALSE]

Room == Len(SelectSeq(wire, LAMBDA e : e.type \in {"ready", "ticket", "resync", "data"}))
            < WIRE_SIZE

Forward ==
    /\ Socket
    /\ server.pc = "up" /\ server.queue # <<>> /\ Room
    /\ wire' = Append(wire, Plain(Got))
    /\ server' = Left
    /\ UNCHANGED <<version, notices, listener, client, parser, page, faults, owed>>

\* stream_unread_count: wake up, count, send.
Wake ==
    /\ ~Socket
    /\ server.pc = "up" /\ server.queue # <<>>
    /\ server' = [Left EXCEPT !.pc = "count"]
    /\ UNCHANGED <<version, notices, listener, wire, client, parser, page, faults, owed>>

Count ==
    /\ server.pc = "count"
    /\ server' = [server EXCEPT !.pc = "yield", !.count = version]
    /\ UNCHANGED <<version, notices, listener, wire, client, parser, page, faults, owed>>

Yield ==
    /\ server.pc = "yield" /\ Room
    /\ wire' = wire \o Frame(server.lineEnd, server.count)
    /\ server' = [server EXCEPT !.pc = "up", !.count = None]
    /\ UNCHANGED <<version, notices, listener, client, parser, page, faults, owed>>

\* FastAPI keeps an idle stream open with a comment.
KeepAlive ==
    /\ ~Socket
    /\ server.pc = "up" /\ wire = <<>>
    /\ wire' = Ping(server.lineEnd)
    /\ UNCHANGED <<version, notices, listener, server, client, parser, page, faults, owed>>

\* The access token runs out: 4401 for a socket, the end of a stream.
TokenExpires ==
    /\ Connected /\ Subscribed /\ (Socket \/ server.pc = "up")
    /\ server' = [Closed EXCEPT !.token = "expired"]
    /\ wire' = <<>>
    /\ client' = [client EXCEPT !.code = "unauthorized"]
    /\ Fault
    /\ UNCHANGED <<version, notices, listener, parser, page, owed>>

ConnectionLost ==
    /\ Connected
    /\ Hangup("other")
    /\ Fault
    /\ UNCHANGED <<version, notices, listener, parser, page, owed>>

\* A restart of the process: its sockets close and its listener starts anew.
Restart ==
    /\ server' = Closed
    /\ wire' = <<>>
    /\ client' = IF Connected THEN [client EXCEPT !.code = "other"] ELSE client
    /\ listener' = [up |-> FALSE, reconnecting |-> FALSE]
    /\ notices' = 0
    /\ Fault
    /\ UNCHANGED <<version, parser, page, owed>>

-----------------------------------------------------------------------------
(* The page: a query of TanStack Query.  To invalidate it is to fetch again *)
(* and drop the fetch in flight, but for the very first one, which stays    *)
(* the answer (Query.fetch of the library).  `lost' is an observer: the     *)
(* last version that a fetch was to bring which gave up.                    *)

Invalidated == IF page.cached = None /\ page.fetch # "idle" THEN page
               ELSE [page EXCEPT !.fetch = "sent", !.read = None]

FetchRead ==
    /\ page.fetch = "sent"
    /\ page' = [page EXCEPT !.fetch = "read", !.read = version]
    /\ UNCHANGED <<version, notices, listener, server, wire, client, parser, faults, owed>>

FetchStore ==
    /\ page.fetch = "read"
    /\ page' = [page EXCEPT !.cached = page.read, !.fetch = "idle", !.read = None]
    /\ UNCHANGED <<version, notices, listener, server, wire, client, parser, faults, owed>>

\* What a fetch that gives up now would have brought.
Missed == IF page.fetch = "read" THEN page.read ELSE version

\* The request is refused or fails, at the server or on its way back: it is sent
\* again, or (at once after a 4xx, else after two retries) the query gives up and
\* keeps what it had until it is invalidated again.
FetchFails ==
    /\ page.fetch # "idle"
    /\ Fault
    /\ \/ page' = [page EXCEPT !.fetch = "sent", !.read = None]
       \/ page' = [page EXCEPT !.fetch = "idle", !.read = None, !.lost = Missed]
    /\ UNCHANGED <<version, notices, listener, server, wire, client, parser, owed>>

-----------------------------------------------------------------------------
(* The browser's end: useLiveUpdates and useUnreadCount. *)

Connect ==
    /\ client.pc = "retry"
    /\ client' = [client EXCEPT !.pc = "open", !.code = "none"]
    /\ parser' = createSseParser
    /\ UNCHANGED <<version, notices, listener, server, wire, page, faults, owed>>

\* "After a reconnect we may have missed events: reload everything."
OnReady == IF client.again THEN Invalidated ELSE page

OnMessage ==
    /\ Socket /\ Connected /\ wire # <<>>
    /\ wire' = Tail(wire)
    /\ IF Head(wire).type = "ready"
       THEN /\ page' = OnReady
            /\ client' = [client EXCEPT !.again = FALSE, !.status = "live"]
       ELSE /\ page' = Invalidated
            /\ UNCHANGED client
    /\ UNCHANGED <<version, notices, listener, server, parser, faults, owed>>

\* readStreamOnce: a chunk of any size, and each count in it to the badge.
OnChunk ==
    /\ ~Socket /\ Connected
    /\ \E size \in 1 .. Len(wire) :
        LET pushed == push(parser.buffer, parser.heldBack \o SubSeq(wire, 1, size))
            counts == pushed.counts
        IN /\ wire' = SubSeq(wire, size + 1, Len(wire))
           /\ parser' = pushed.parser
           /\ page' = IF counts = <<>> THEN page
                      ELSE [page EXCEPT !.cached = counts[Len(counts)]]
    /\ UNCHANGED <<version, notices, listener, server, client, faults, owed>>

\* retryLater of the socket counts the attempt; the sleep of the stream does not.
OnClose ==
    /\ client.pc = "open" /\ client.code # "none"
    /\ client' = [client EXCEPT
            !.status = IF Socket THEN "offline" ELSE @,
            !.pc     = IF client.code = "unauthorized" THEN "refresh" ELSE "retry",
            !.again  = Socket]
    /\ UNCHANGED <<version, notices, listener, server, wire, parser, page, faults, owed>>

\* ensureFreshToken, awaited before the next attempt.
Refreshed ==
    /\ client.pc = "refresh"
    /\ client' = [client EXCEPT !.pc = "retry"]
    /\ server' = [server EXCEPT !.token = "good"]
    /\ UNCHANGED <<version, notices, listener, wire, parser, page, faults, owed>>

\* The refresh is refused, the user signs out, or a 401 or 403 outlives the
\* refresh of apiRaw: the hook stops.
Gone ==
    /\ client.pc # "gone"
    /\ client' = [client EXCEPT !.pc = "gone", !.code = "none"]
    /\ server' = Closed
    /\ wire' = <<>>
    /\ UNCHANGED <<version, notices, listener, parser, page, faults, owed>>

\* The refresh gets no answer and throws.  The loop of the stream catches it
\* and tries again; nothing catches it in the socket's onclose.
AfterThrow == IF Socket THEN "stuck" ELSE "retry"

RefreshThrows ==
    /\ client.pc = "refresh"
    /\ client' = [client EXCEPT !.pc = AfterThrow]
    /\ Fault
    /\ UNCHANGED <<version, notices, listener, server, wire, parser, page, owed>>

-----------------------------------------------------------------------------
Listening  == Dispatch \/ Listen
Serving    == Authenticate \/ Subscribe \/ Forward \/ Wake \/ Count \/ Yield
Fetching   == FetchRead \/ FetchStore \/ FetchFails
Browsing   == Connect \/ OnMessage \/ OnChunk \/ OnClose
Refreshing == Refreshed \/ RefreshThrows
Breaking   == ListenerLost \/ TokenExpires \/ ConnectionLost \/ Restart

Next ==
    \/ Change
    \/ Listening
    \/ Serving
    \/ KeepAlive
    \/ Fetching
    \/ Browsing
    \/ Refreshing
    \/ Breaking
    \/ Gone

Spec == Init /\ [][Next]_vars

\* The event loops of both ends go on, a lost listener connects again, and a
\* fetch or refresh that was sent is answered or fails.
Fairness ==
    /\ WF_vars(Listening)
    /\ WF_vars(Serving)
    /\ WF_vars(Fetching)
    /\ WF_vars(Browsing)
    /\ WF_vars(Refreshing)

FairSpec == Spec /\ Fairness

-----------------------------------------------------------------------------
(* Properties. *)

\* Something will still bring the browser what it is owed.
UnderWay ==
    \/ client.pc # "open" \/ ~Subscribed
    \/ listener.up /\ notices > 0
    \/ ~listener.up /\ listener.reconnecting
    \/ server.queue # <<>>
    \/ Socket /\ wire # <<>> /\ (wire = <<Plain("ready")>> => client.again)
    \/ Socket /\ (page.fetch = "sent" \/ (page.fetch = "read" /\ page.read >= owed))
    \/ ~Socket /\ (server.pc = "count" \/ (server.pc = "yield" /\ server.count >= owed))
    \/ ~Socket /\ \E i \in 1 .. Len(parser.buffer \o wire) :
                    (parser.buffer \o wire)[i].count >= owed

\* No change that is owed to a browser is forgotten on the way: while the
\* browser does not show it, a bell, a message, a count or a fetch that will
\* bring it is still under way (listener.py after_gap, hub.py missed,
\* realtime.py "nothing can slip through the gap", useLiveUpdates.ts attempt).
\* Except when the fetch that was to bring it came and gave up, on a 4xx or
\* after its retries (main.tsx:14): the page of a socket then keeps the old data
\* although the socket is open, until a later change is rung.
NothingForgotten == page.cached < owed /\ page.lost < owed => UnderWay

\* So it is shown in the end, whatever connections broke in between, unless the
\* hook has stopped or the fetch that was to bring it gave up.
ShownAtLast ==
    \A v \in 2 .. MaxVersion + 1 :
        owed = v ~> \/ page.cached >= v
                    \/ page.lost >= v
                    \/ client.pc \in {"gone", "stuck"}
=============================================================================
