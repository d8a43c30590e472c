--------------------------------- MODULE Sse ---------------------------------
(***************************************************************************)
(* The parser of Server-Sent Events in realtime/sse.ts.  A text is a       *)
(* sequence of elements: a whole line without its end (an `event', `data'  *)
(* or `comment' line; where inside a line the network splits a text makes  *)
(* no difference to a parser that keeps what is unfinished), a carriage    *)
(* return "cr" or a line feed "lf".  The value of a data line is a count.  *)
(***************************************************************************)
EXTENDS Naturals, Sequences

Element == [type: {"event", "data", "comment", "cr", "lf"}, count: Nat]
Text    == Seq(Element)

Plain(type) == [type |-> type, count |-> 0]

\* How a server may end its lines: "lf" or "crlf".
Eol(lineEnd) == IF lineEnd = "lf" THEN <<Plain("lf")>> ELSE <<Plain("cr"), Plain("lf")>>

\* The text of ServerSentEvent(event="unread", data=UnreadCount(unread=count)),
\* and of the comment that keeps an idle stream open.
Frame(lineEnd, count) ==
    <<Plain("event")>> \o Eol(lineEnd) \o <<[type |-> "data", count |-> count]>>
        \o Eol(lineEnd) \o Eol(lineEnd)

Ping(lineEnd) == <<Plain("comment")>> \o Eol(lineEnd) \o Eol(lineEnd)

createSseParser == [heldBack |-> <<>>, buffer |-> <<>>]

HoldBack_Nothing(text) == <<>>      \* slip: CR at the end of a chunk is a line end

\* A CR at the end of a chunk may be the first half of a CRLF.
HoldBack(text) ==
    IF text # <<>> /\ text[Len(text)].type = "cr" THEN <<text[Len(text)]>> ELSE <<>>

AsLf(char) == IF char.type = "cr" THEN Plain("lf") ELSE char

\* A CRLF is one line end.
Taken(text) ==
    IF Len(text) > 1 /\ text[1].type = "cr" /\ text[2].type = "lf" THEN 2 ELSE 1

\* text.replace(/\r\n?/g, "\n")
normalize[text \in Text] ==
    IF text = <<>> THEN <<>>
    ELSE <<AsLf(text[1])>> \o normalize[SubSeq(text, Taken(text) + 1, Len(text))]

Lines(block, type) == {i \in 1 .. Len(block) : block[i].type = type}

\* readStreamOnce takes notice of a block with data that is named (no block of the server
\* has two data lines).
Unread(block) ==
    IF Lines(block, "data") # {} /\ Lines(block, "event") # {}
    THEN <<block[CHOOSE i \in Lines(block, "data") : TRUE].count>>
    ELSE <<>>

\* Where a blank line ends a block, and the first such place.
Boundaries(buffer) ==
    {i \in 1 .. Len(buffer) - 1 : buffer[i].type = "lf" /\ buffer[i + 1].type = "lf"}

Boundary(buffer) ==
    CHOOSE i \in Boundaries(buffer) : \A j \in Boundaries(buffer) : i <= j

\* The counts in the blocks of a buffer that are complete, and what follows the last.
split[buffer \in Text] ==
    IF Boundaries(buffer) = {}
    THEN [counts |-> <<>>, rest |-> buffer]
    ELSE LET later == split[SubSeq(buffer, Boundary(buffer) + 2, Len(buffer))]
         IN [counts |-> Unread(SubSeq(buffer, 1, Boundary(buffer) - 1)) \o later.counts,
             rest   |-> later.rest]

\* What push leaves in the parser, and the counts that it returns, given the
\* text that was held back and the chunk.
push(buffer, text) ==
    LET held   == HoldBack(text)
        parsed == split[buffer \o normalize[SubSeq(text, 1, Len(text) - Len(held))]]
    IN [parser |-> [heldBack |-> held, buffer |-> parsed.rest],
        counts |-> parsed.counts]
=============================================================================
