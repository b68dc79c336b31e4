------------------------------- MODULE WsHeader -------------------------------
(***************************************************************************)
(* What handshake() of ashe::WebSocket (src/WebSocket.cpp) makes of the    *)
(* lines of a complete request, and which of it the object shows:          *)
(* requestedUrl, values and header.  Module WsHandshake says when a request*)
(* is complete and how it is answered.                                     *)
(*                                                                         *)
(* A header line is the sequence of its parts between colons, each trimmed *)
(* and in lower case; a part may be empty.                                 *)
(***************************************************************************)
EXTENDS Integers, Sequences, FiniteSets

CONSTANTS Lines,        \* header lines that clients send
          LongLines,    \* those of them that are longer than headerLineLimit
          Urls,         \* what status lines ask for: a sequence of pairs, name
                        \* and value, behind the question mark
          MaxLines      \* bound: how many header lines a request has

ASSUME WsHeaderAssumption ==
    /\ Lines \subseteq Seq(STRING) \ {<<>>} /\ LongLines \subseteq Lines
    /\ Urls \subseteq Seq(STRING \X STRING)
    /\ MaxLines \in Nat

VARIABLES at,            \* where handshake() is in the request
          seen,          \* history: the header lines of this request so far
          parsed,        \* the local header: lists of values by name
          header,        \* header, as a function from names
          values,        \* values, likewise
          requestedUrl,  \* requestedUrl
          answered       \* history: the lines of the request that was answered

headerVars == <<at, seen, parsed, header, values, requestedUrl, answered>>

Nothing == <<>>

HeaderInit ==
    /\ at = "status" /\ seen = <<>> /\ parsed = Nothing
    /\ header = Nothing /\ values = Nothing /\ requestedUrl = <<>>
    /\ answered = <<>>

\* A status line with three words, the first of which is GET.
StatusLine(url) ==
    /\ at = "status"
    /\ at' = "headers"
    /\ requestedUrl' = url
    /\ UNCHANGED <<seen, parsed, header, values, answered>>

\* Another status line, a line over the limit, or a value that may not come
\* twice: a string is thrown, and the request is over.
Throw ==
    /\ at' = "thrown"
    /\ UNCHANGED <<seen, parsed, header, values, requestedUrl, answered>>

BadStatus == at = "status" /\ Throw

\* "(.+):" takes all before the last colon that something stands before, and
\* ":(.+)" all behind the first colon that something stands behind.
Name(line) == SubSeq(line, 1, Len(line) - 1)

Text(line) == SubSeq(line, 2, Len(line))

\* A line without a colon, or with nothing before or behind its only one.
Skipped(line) ==
    Len(line) = 1 \/ (Len(line) = 2 /\ "" \in {line[1], line[2]})

\* It is the value that is compared with the names that may not come twice.
Unrepeatable == {<<"host">>, <<"sec-websocket-key">>}

Repeats(line) == Name(line) \in DOMAIN parsed /\ Text(line) \in Unrepeatable

\* The map with the line in it: values of one name are joined.
Entered(line) ==
    [n \in DOMAIN parsed \cup {Name(line)} |->
        (IF n \in DOMAIN parsed THEN parsed[n] ELSE <<>>)
            \o (IF n = Name(line) THEN <<Text(line)>> ELSE <<>>)]

\* One round of the loop over the lines.
HeaderLine(line) ==
    /\ at = "headers"
    /\ Len(seen) < MaxLines
    /\ \/ line \in LongLines /\ Throw
       \/ /\ line \notin LongLines /\ ~Skipped(line) /\ Repeats(line)
          /\ Throw
       \/ /\ line \notin LongLines /\ (Skipped(line) \/ ~Repeats(line))
          /\ parsed' = IF Skipped(line) THEN parsed ELSE Entered(line)
          /\ seen' = Append(seen, line)
          /\ UNCHANGED <<at, header, values, requestedUrl, answered>>

\* The names of the url's pairs, each with the last value it has there.
ValuesOf(url) ==
    [ n \in {url[i][1] : i \in DOMAIN url} |->
        url[CHOOSE i \in DOMAIN url :
              url[i][1] = n /\ \A j \in DOMAIN url : url[j][1] = n => j <= i][2] ]

\* Without a key, "400 Bad Request" is written and a string is thrown.
NoKey ==
    /\ at = "headers" /\ <<"sec-websocket-key">> \notin DOMAIN parsed
    /\ Throw

\* The answer is written at once: the maps are swapped into the object.
Answered ==
    /\ at = "headers" /\ <<"sec-websocket-key">> \in DOMAIN parsed
    /\ at' = "shook"
    /\ header' = parsed /\ values' = ValuesOf(requestedUrl)
    /\ answered' = seen
    /\ UNCHANGED <<seen, parsed, requestedUrl>>

\* The answer is written in pieces: the call that writes the last one does not
\* know the maps any more, so that the object never shows them.
AnsweredInPieces ==
    /\ at = "headers" /\ <<"sec-websocket-key">> \in DOMAIN parsed
    /\ at' = "shook"
    /\ UNCHANGED <<seen, parsed, header, values, requestedUrl, answered>>

\* Mutant of CloseRequest: header is not cleared.
CloseRequestPartly ==
    /\ at' = "status" /\ seen' = <<>> /\ parsed' = Nothing
    /\ values' = Nothing /\ requestedUrl' = <<>> /\ answered' = <<>>
    /\ UNCHANGED header

\* close(), and another connection: __clearRequest.
CloseRequest ==
    /\ at' = "status" /\ seen' = <<>> /\ parsed' = Nothing
    /\ header' = Nothing /\ values' = Nothing /\ requestedUrl' = <<>>
    /\ answered' = <<>>

HeaderNext ==
    \/ \E url \in Urls : StatusLine(url)
    \/ BadStatus
    \/ \E line \in Lines : HeaderLine(line)
    \/ NoKey
    \/ Answered
    \/ AnsweredInPieces
    \/ CloseRequest

HeaderSpec == HeaderInit /\ [][HeaderNext]_headerVars
------------------------------------------------------------------------------
\* The lines that give a name a value, as RFC 7230 reads them.
Saying(name, lines) ==
    {i \in DOMAIN lines : lines[i][1] = name /\ Len(lines[i]) = 2 /\ lines[i][2] # ""}

\* The list has the values of the name, in the order of the lines.
Lists(list, name, lines) ==
    LET mine == Saying(name, lines)
    IN  /\ Len(list) = Cardinality(mine)
        /\ \A i \in mine :
            list[Cardinality({j \in mine : j <= i})] = <<lines[i][2]>>

\* A name that no line with several colons can stand for.
Simple(name) == \A l \in Lines : Len(l) > 2 => l[1] # name

\* What the object shows of the header is what the request said that was answered
\* at once, whole and of no other connection: the values of each name, joined in
\* their order.  Names whose values contain colons are excepted: they are not
\* found under their names.
HeaderIsFaithful ==
    \A name \in {l[1] : l \in Lines} :
        name # "" /\ Simple(name) =>
            IF <<name>> \in DOMAIN header
            THEN Lists(header[<<name>>], name, answered) /\ at = "shook"
            ELSE Saying(name, answered) = {}
==============================================================================
