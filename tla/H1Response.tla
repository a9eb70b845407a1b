----------------------------- MODULE H1Response -----------------------------
(***************************************************************************)
(* A request over HTTP/1.1 and its response: performH1 of lib/client.js on *)
(* one connection, kept from a response to the next request.               *)
(*                                                                         *)
(* Abstractions.  The bytes of the server are pieces that the parser looks *)
(* for as a whole (a status line, the rest of a head, a size line, a byte  *)
(* of a body, a CRLF, a trailer line); a chunk of the transport may end    *)
(* between any two.  Each piece carries the tag of the request it answers, *)
(* which the client never reads.  The server is external: it answers only  *)
(* what it was sent, as RFC 9112 has it, and may end the connection before *)
(* it has answered.                                                        *)
(***************************************************************************)
EXTENDS Integers, SequencesExt

CONSTANT BodyLen     \* bound: bytes of a response's body

ASSUME H1Assumption == BodyLen \in Nat \ {0}

VARIABLES
  conn,     \* PooledConnection: open, the port it leads to, the bytes of _h1Leftover, whether a
            \* request was written without the body its head announces, and whether one that was
            \* redirected still holds it (h1InFlight)
  h1,       \* the locals of performH1
  wire,     \* pieces the client has not read
  ended,    \* the server has ended the connection
  answer,   \* history: the whole answer to the request in flight
  outcome   \* what performH1 settles with, until it is handled

h1Vars == <<conn, h1, wire, ended, answer, outcome>>

NoConn == [open |-> FALSE, port |-> 0, leftover |-> <<>>, half |-> FALSE,
           busy |-> FALSE]
Idle(tag) == [reading |-> FALSE, buf |-> <<>>, method |-> "GET", tag |-> tag]
NoAnswer == [pieces |-> <<>>, body |-> <<>>, eof |-> FALSE, close |-> FALSE, garbled |-> FALSE]
Nothing == [out |-> "none"]
Multiplexed == 2    \* the tag of a response over h2 or h3
Closes == conn' = NoConn /\ wire' = <<>> /\ ended' = FALSE
Failed(code) == [out |-> "error", code |-> code]

H1Init ==
  /\ conn = NoConn /\ h1 = Idle(0) /\ wire = <<>> /\ ended = FALSE
  /\ answer = NoAnswer /\ outcome = Nothing

-----------------------------------------------------------------------------
(* The server (external): how it delimits an answer.                       *)

Piece(k, r, v) == [k |-> k, tag |-> r, v |-> v]
Line(r, head) == Piece("line", r, head)
HeadEnd(r) == Piece("end", r, 0)
Crlf(r) == Piece("crlf", r, 0)
Bytes(r, n) == [i \in 1 .. n |-> Piece("byte", r, i)]

\* content-length (-1: no such header), transfer-encoding and connection.  Only
\* a redirect is answered without a body of some length (a bound).
Headers(loc) ==
  {hd \in [cl : {-1, 0, BodyLen}, te : BOOLEAN, close : BOOLEAN] :
     IF loc = 0 THEN hd.cl # 0 ELSE hd.cl = 0 /\ ~hd.te}
Interim(r) == <<Line(r, [status |-> 100, loc |-> 0, cl |-> -1, te |-> FALSE, close |-> FALSE]),
                HeadEnd(r)>>
Head11(r, st, loc, hd) ==
  <<Line(r, [status |-> st, loc |-> loc, cl |-> hd.cl, te |-> hd.te, close |-> hd.close]),
    HeadEnd(r)>>

\* Two chunks, if there is enough for two, and a trailer or none.
Chunk(r, n, from) ==
  <<Piece("size", r, n)>> \o [i \in 1 .. n |-> Piece("byte", r, from + i)] \o <<Crlf(r)>>
Chunked(r, trailer) ==
  Chunk(r, 1, 0) \o (IF BodyLen > 1 THEN Chunk(r, BodyLen - 1, 1) ELSE <<>>)
    \o <<Piece("size", r, 0)>> \o (IF trailer THEN <<Piece("trailer", r, 0)>> ELSE <<>>)
    \o <<Crlf(r)>>

Bodyless(method, st) == method = "HEAD" \/ st \in {204, 304}

\* The answer to the request tagged r; the extras are an interim response before it
\* and a trailer after it.
Answered(r, method, st, loc, hd, extras) ==
  LET none == Bodyless(method, st)
      len == IF none THEN 0 ELSE IF hd.te \/ hd.cl < 0 THEN BodyLen ELSE hd.cl
      eof == ~none /\ ~hd.te /\ hd.cl < 0
  IN [pieces |-> (IF extras THEN Interim(r) ELSE <<>>) \o Head11(r, st, loc, hd)
                   \o (IF hd.te /\ ~none THEN Chunked(r, extras) ELSE Bytes(r, len)),
      body |-> Bytes(r, len), eof |-> eof, close |-> eof \/ hd.close, garbled |-> FALSE]

-----------------------------------------------------------------------------
(* The parser.                                                             *)

More == 0           \* need-more
Bad == -1           \* EBADRESP

\* Heads of interim responses are dropped: what is left of the buffer.
Final(buf) ==
  LET from[i \in 1 .. Len(buf) + 1] ==
        IF i < Len(buf) /\ buf[i].k = "line" /\ buf[i + 1].k = "end" /\ buf[i].v.status < 200
        THEN from[i + 2] ELSE i
  IN SubSeq(buf, from[1], Len(buf))

\* findTrailerEnd: past the empty line, and the same without the lines before it.
TrailerEndAtOnce(buf, i) == IF i > Len(buf) THEN More ELSE i + 1
TrailerEnd(buf, i) ==
  LET at == {j \in i .. Len(buf) : buf[j].k = "crlf"}
  IN IF at = {} THEN More ELSE (CHOOSE j \in at : \A m \in at : j <= m) + 1

\* The walk over chunks from off, piece by piece.
ChunkEnd(buf, off) ==
  LET walk[i \in off .. Len(buf) + 1] ==
        IF i > Len(buf) THEN More
        ELSE IF buf[i].k # "size" THEN Bad
        ELSE IF buf[i].v = 0 THEN TrailerEnd(buf, i + 1)
        ELSE IF Len(buf) < i + buf[i].v + 1 THEN More
        ELSE walk[i + buf[i].v + 2]
  IN walk[off]

Mode(method, hd) ==
  IF Bodyless(method, hd.status) THEN "none"
  ELSE IF hd.te THEN "chunked" ELSE IF hd.cl >= 0 THEN "length" ELSE "eof"

\* tryComplete with the head parsed: the index past the body, More or Bad.
BodyEnd(buf, mode) ==
  CASE mode = "none" -> 3
    [] mode = "length" -> IF Len(buf) >= 2 + buf[1].v.cl THEN 3 + buf[1].v.cl ELSE More
    [] mode = "chunked" -> ChunkEnd(buf, 3)
    [] OTHER -> More

\* dechunk: the data of the chunks.
Entity(buf, end) ==
  LET data[i \in 2 .. end - 1] ==
        IF i = 2 THEN <<>>
        ELSE IF buf[i].k = "byte" THEN Append(data[i - 1], buf[i]) ELSE data[i - 1]
  IN data[end - 1]

Reusable(mode, hd) == mode # "eof" /\ ~hd.close

Reads(n) == wire' = SubSeq(wire, n + 1, Len(wire)) /\ UNCHANGED ended
Waits(buf, n) == h1' = [h1 EXCEPT !.buf = buf] /\ Reads(n) /\ UNCHANGED <<conn, outcome>>

\* finish: keep what follows the body, and the connection, or close it.
Finished(buf, end, mode, n) ==
  LET hd == buf[1].v IN
  /\ outcome' = [out |-> "response", status |-> hd.status, loc |-> hd.loc,
                 tag |-> buf[1].tag, body |-> Entity(buf, end)]
  /\ IF Reusable(mode, hd)
     THEN conn' = [conn EXCEPT !.leftover = SubSeq(buf, end, Len(buf))] /\ Reads(n)
     ELSE Closes
  /\ h1' = Idle(h1.tag)

\* fail: the connection is closed.
Fails11(code) == outcome' = Failed(code) /\ Closes /\ h1' = Idle(h1.tag)

\* onData: n pieces more.
Parsed(all, n) ==
  LET buf == Final(all)
      headed == \E i \in DOMAIN buf : buf[i].k = "end"
      mode == Mode(h1.method, buf[1].v)
      end == BodyEnd(buf, mode)
  IN IF ~headed THEN Waits(buf, n)
     ELSE IF buf[1].k # "line" \/ end = Bad THEN Fails11("EBADRESP")
     ELSE IF end = More THEN Waits(buf, n)
     ELSE Finished(buf, end, mode, n)

-----------------------------------------------------------------------------
(* Actions of performH1.  What a request needs of its driver is a guard    *)
(* there.                                                                  *)

\* Write the request on c; the response begins with what was left over.
Written(c, method) ==
  /\ h1' = [reading |-> TRUE, buf |-> c.leftover, method |-> method, tag |-> 1 - h1.tag]
  /\ conn' = [c EXCEPT !.leftover = <<>>]
  /\ answer' = NoAnswer

\* transport.write of a Readable throws: the head is out, the body never is.
HalfWritten(c) ==
  /\ conn' = [c EXCEPT !.half = TRUE]
  /\ outcome' = Failed("EUNKNOWN")
  /\ UNCHANGED <<h1, answer>>

DataArrives(n) ==
  /\ h1.reading /\ wire # <<>>
  /\ Parsed(h1.buf \o SubSeq(wire, 1, n), n)
  /\ UNCHANGED answer

EndArrives ==
  /\ h1.reading /\ ended /\ wire = <<>>
  /\ IF Len(h1.buf) >= 2 /\ h1.buf[1].k = "line" /\ Mode(h1.method, h1.buf[1].v) = "eof"
     THEN Finished(h1.buf, Len(h1.buf) + 1, "eof", 0)
     ELSE Fails11("EBADRESP")
  /\ UNCHANGED answer

ResponseTimer ==
  /\ h1.reading /\ Fails11("ETIMEDOUT")
  /\ UNCHANGED answer

-----------------------------------------------------------------------------
(* Actions of the server.                                                  *)

\* The request in flight is answered, whole or cut short by a piece.  To a server that waits
\* for a body, it is a bad chunk of that body.
SrvAnswers(st, loc) ==
  /\ h1.reading /\ answer = NoAnswer /\ ~ended
  /\ \E hd \in Headers(loc), extras \in BOOLEAN :
       LET a == IF conn.half
                THEN [Answered(1 - h1.tag, "POST", 400, 0,
                               [cl |-> 0, te |-> FALSE, close |-> TRUE], FALSE)
                      EXCEPT !.garbled = TRUE]
                ELSE Answered(h1.tag, h1.method, st, loc, hd, extras)
       IN /\ extras => loc = 0
          /\ answer' = a
          /\ \E sent \in {Len(a.pieces) - 1, Len(a.pieces)} :
               /\ wire' = wire \o SubSeq(a.pieces, 1, sent)
               /\ ended' = (a.close \/ sent < Len(a.pieces))
  /\ UNCHANGED <<conn, h1, outcome>>

\* It ends a connection that is idle.
SrvEnds ==
  /\ conn.open /\ ~h1.reading /\ ~ended /\ ended' = TRUE
  /\ UNCHANGED <<conn, h1, wire, answer, outcome>>

-----------------------------------------------------------------------------
\* A response is the one to this request, with its whole body, unless the body
\* is delimited by the end of a connection that was cut, or the request before
\* was left half written; and nothing of it waits for the next request on a
\* connection that is kept (client.js 342-540).
BodyIsMine ==
  /\ outcome.out = "response" /\ outcome.tag # Multiplexed =>
       \/ answer.garbled
       \/ outcome.body = answer.body
       \/ answer.eof /\ IsPrefix(outcome.body, answer.body)
  /\ conn.leftover = <<>>
=============================================================================
