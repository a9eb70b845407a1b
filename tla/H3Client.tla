------------------------------ MODULE H3Client ------------------------------
(***************************************************************************)
(* An HTTP/3 response: the request stream (QuicStream), the frames on it   *)
(* (lib/h3/h3.js), and the QPACK table (lib/h3/qpack.js) that the server's *)
(* encoder stream fills.  The two streams are independent, so a header     *)
(* section can arrive before the insertions it refers to.                  *)
(*                                                                         *)
(* Abstractions.  A field is the number of the insertion that brought it,  *)
(* an entry of the table takes one unit of capacity (32 bytes and more in  *)
(* the code), a HEADERS frame is the first HeadersLen bytes of the stream  *)
(* and DATA the rest.  An instruction on the encoder stream is one or two  *)
(* units that packets can separate: a duplicate of an index below          *)
(* ShortIndex is one (31 in the code), anything else is two.  The encoder  *)
(* stream arrives in order (ByteStream).  The server is external and keeps *)
(* RFC 9204: since the client acknowledges nothing on its decoder stream   *)
(* (bootstrap sends the type of that stream only), the server never evicts *)
(* an entry.  It need not get the request: the client never sends a STREAM *)
(* packet again (connection.js 524-543).                                   *)
(***************************************************************************)
EXTENDS QuicStream, FiniteSetsExt, SequencesExt

CONSTANTS
  HeadersLen,   \* bytes of the HEADERS frame
  Advertised,   \* entries SETTINGS_QPACK_MAX_TABLE_CAPACITY allows
  ShortIndex,   \* the first index whose integer is longer than a byte
  MaxLines,     \* bound: dynamic lines of a section
  MaxGarbage    \* bound: on what a desynced stream inserts, and its capacities

ASSUME H3Assumption ==
  /\ HeadersLen \in 1 .. Size - 1 /\ Advertised \in Nat /\ ShortIndex \in Nat
  /\ MaxLines \in Nat /\ MaxGarbage \in Nat

VARIABLES
  asked,          \* the request was sent
  outcome,        \* "none", "resolved" or "failed": the promise of request
  respHeaders,    \* what the section was decoded to, or Undecoded
  early,          \* history: it was decoded before all its insertions
  closed,         \* the connection is closed: nothing arrives
  entries, totalInserted, capacity,   \* DynamicTable, the newest entry last
  peerEncoderBuf, \* units of the encoder stream not parsed
  desynced,       \* history: an instruction was parsed before all of it was there
  wire,           \* units of the encoder stream under way
  srvTable,       \* server: the fields it inserted
  srvCapacity,    \* server: the capacity it chose, 0 before
  section         \* server: the response's field section, or Unanswered

tableVars == <<entries, totalInserted, capacity, peerEncoderBuf, desynced>>
srvVars == <<wire, srvTable, srvCapacity, section>>
reqVars == <<asked, outcome, respHeaders, early, closed>>

h3Vars == <<streamVars, tableVars, srvVars, reqVars>>

Undecoded == <<"undecoded">>
Unanswered == [ric |-> -1]
Status == "status"            \* a line of the static table
Garbage == 0                  \* a field no insertion brings

H3Init ==
  /\ Init
  /\ asked = FALSE /\ outcome = "none" /\ respHeaders = Undecoded /\ early = FALSE
  /\ closed = FALSE
  /\ entries = <<>> /\ totalInserted = 0 /\ capacity = 0
  /\ peerEncoderBuf = <<>> /\ desynced = FALSE /\ wire = <<>>
  /\ srvTable = <<>> /\ srvCapacity = 0 /\ section = Unanswered

-----------------------------------------------------------------------------
(* The table: DynamicTable, and the instructions that change it.           *)

Unit(op, v, part, of) == [op |-> op, v |-> v, part |-> part, of |-> of]
Instruction(op, v, of) == [k \in 1 .. of |-> Unit(op, v, k, of)]

Evicted(es, cap) ==
  IF Len(es) <= cap THEN es ELSE SubSeq(es, Len(es) - cap + 1, Len(es))

\* getAbsolute, 0 for the first entry ever inserted: one field, or none.
GetAbsolute(abs) ==
  LET i == abs - (totalInserted - Len(entries)) + 1
  IN IF i \in 1 .. Len(entries) THEN <<entries[i]>> ELSE <<>>
GetRelative(base, idx) == GetAbsolute(base - idx - 1)
GetPostBase(base, idx) == GetAbsolute(base + idx)

Insert(fs) ==
  /\ entries' = Evicted(entries \o fs, capacity)
  /\ totalInserted' = totalInserted + Len(fs)
  /\ UNCHANGED capacity

SetCapacity(cap) ==
  /\ capacity' = cap /\ entries' = Evicted(entries, cap)
  /\ UNCHANGED totalInserted

\* The loop of parseEncoderInstructions can go on.  An insertion waits for all
\* its bytes (readLiteralComplete).
Parsable ==
  /\ peerEncoderBuf # <<>>
  /\ desynced \/ (Head(peerEncoderBuf).op = "insert" => Len(peerEncoderBuf) > 1)

\* The integer of the other instructions is read past the end of the buffer
\* (decodeInt): what is there of it is a smaller one.
Reading(u, least, whole) == IF whole THEN {u.v} ELSE least .. u.v

ParseInstruction ==
  LET u == Head(peerEncoderBuf)
      whole == u.of <= Len(peerEncoderBuf)
  IN /\ peerEncoderBuf' = IF whole THEN SubSeq(peerEncoderBuf, u.of + 1, Len(peerEncoderBuf))
                          ELSE <<>>
     /\ desynced' = ~whole
     /\ \/ u.op = "capacity" /\ \E cap \in Reading(u, 0, whole) : SetCapacity(cap)
        \/ u.op = "insert" /\ Insert(<<u.v>>)
        \/ u.op = "duplicate" /\ \E i \in Reading(u, ShortIndex, whole) :
                                   Insert(GetRelative(totalInserted, i))

\* After that the rest of a cut instruction, and what follows, is read as other
\* instructions: n units as one, or as more with what is left of them.  Units that
\* wait for the end of such an instruction are as good as still under way.
ParseGarbage(n) ==
  /\ peerEncoderBuf' = SubSeq(peerEncoderBuf, n + 1, Len(peerEncoderBuf))
  /\ \/ /\ n > 0 \/ totalInserted < MaxGarbage
        /\ \E field \in {Garbage} \cup Range(entries) : Insert(<<field>>)
     \/ n > 0 /\ \E cap \in 0 .. MaxGarbage : SetCapacity(cap)
  /\ UNCHANGED desynced

ParseEncoderInstruction ==
  /\ Parsable /\ ~Emitting
  /\ \/ ~desynced /\ ParseInstruction
     \/ desynced /\ \E n \in 0 .. Len(peerEncoderBuf) : ParseGarbage(n)
  /\ UNCHANGED <<streamVars, srvVars, reqVars>>

-----------------------------------------------------------------------------
(* The response: decodeHeadersWithTable, and the handlers of the stream.   *)

\* decodeRequiredInsertCount, -1 where it throws.  maxEntries is the capacity
\* the server set, not the one advertised.
InsertCountOneMore(enc) == enc
InsertCount(enc) ==
  LET maxValue == totalInserted + capacity
      ric == (maxValue \div (2 * capacity)) * (2 * capacity) + enc - 1
  IN IF enc = 0 \/ capacity = 0 THEN 0
     ELSE IF ric <= maxValue THEN ric
     ELSE IF ric < 2 * capacity THEN -1 ELSE ric - 2 * capacity

Base(s) == IF s.sign THEN InsertCount(s.enc) - s.delta - 1 ELSE InsertCount(s.enc) + s.delta

\* A line whose entry is not in the table is left out.
Looked(s, line) ==
  IF line.post THEN GetPostBase(Base(s), line.idx) ELSE GetRelative(Base(s), line.idx)
Decoded(s) ==
  <<Status>> \o FlattenSeq([i \in DOMAIN s.lines |-> Looked(s, s.lines[i])])

Request ==
  /\ ~asked /\ asked' = TRUE
  /\ UNCHANGED <<streamVars, tableVars, srvVars, outcome, respHeaders, early, closed>>

\* The connection fails or is closed; its streams hear nothing of it.
ConnectionCloses ==
  /\ ~closed /\ ~Emitting /\ ~Parsable /\ closed' = TRUE
  /\ UNCHANGED <<streamVars, tableVars, srvVars, asked, outcome, respHeaders, early>>

Settled(o) == outcome' = IF outcome = "none" THEN o ELSE outcome

StreamArrives(f) ==
  /\ asked /\ section # Unanswered /\ ~closed /\ ~Parsable
  /\ \/ Receive(f) /\ UNCHANGED outcome
     \/ Overflow(f) /\ Settled("failed")
  /\ UNCHANGED <<tableVars, srvVars, asked, respHeaders, early, closed>>

\* Emitting data runs the loop over frames: a HEADERS frame that is complete
\* now is decoded with the table as it is.
StreamEmits ==
  LET complete == recvOffset < HeadersLen /\ recvOffset' >= HeadersLen
      bad == complete /\ InsertCount(section.enc) = -1
  IN /\ Emit
     /\ respHeaders' = IF complete /\ ~bad THEN Decoded(section) ELSE respHeaders
     /\ early' = (early \/ (complete /\ totalInserted < section.ric))
     /\ Settled(IF bad THEN "failed" ELSE IF Head(pending).fin THEN "resolved" ELSE "none")
     /\ UNCHANGED <<tableVars, srvVars, asked, closed>>

\* More of the encoder stream: it waits until nothing is left to parse.
EncoderArrives(n) ==
  /\ ~closed /\ ~Emitting /\ ~Parsable
  /\ peerEncoderBuf' = peerEncoderBuf \o SubSeq(wire, 1, n)
  /\ wire' = SubSeq(wire, n + 1, Len(wire))
  /\ UNCHANGED <<streamVars, entries, totalInserted, capacity, desynced, srvTable,
                 srvCapacity, section, reqVars>>

-----------------------------------------------------------------------------
(* The server (external).                                                  *)

SrvUnchanged == UNCHANGED <<streamVars, tableVars, reqVars, section>>

SrvSetsCapacity ==
  /\ ~closed /\ srvCapacity = 0 /\ srvCapacity' \in 1 .. Advertised
  /\ wire' = wire \o Instruction("capacity", srvCapacity', 2)
  /\ srvTable' = srvTable /\ SrvUnchanged

UnitsOfIndex(idx) == IF idx < ShortIndex THEN 1 ELSE 2

SrvInserts ==
  /\ ~closed /\ Len(srvTable) < srvCapacity
  /\ \/ /\ srvTable' = Append(srvTable, Len(srvTable) + 1)
        /\ wire' = wire \o Instruction("insert", Len(srvTable) + 1, 2)
     \/ \E i \in DOMAIN srvTable :
          /\ srvTable' = Append(srvTable, srvTable[i])
          /\ wire' = wire \o Instruction("duplicate", Len(srvTable) - i,
                                         UnitsOfIndex(Len(srvTable) - i))
  /\ srvCapacity' = srvCapacity /\ SrvUnchanged

\* The entries are counted from 0; RFC 9204 sections 4.5.1 and 4.5.2 to 4.5.5.
Encoded(refs, base) ==
  LET ric == IF refs = <<>> THEN 0 ELSE Max(Range(refs)) + 1
  IN [ric |-> ric, fields |-> [i \in DOMAIN refs |-> srvTable[refs[i] + 1]],
      enc |-> IF ric = 0 THEN 0 ELSE (ric % (2 * Advertised)) + 1,
      sign |-> base < ric, delta |-> IF base < ric THEN ric - base - 1 ELSE base - ric,
      lines |-> [i \in DOMAIN refs |->
                  [post |-> refs[i] >= base,
                   idx |-> IF refs[i] >= base THEN refs[i] - base ELSE base - refs[i] - 1]]]

\* It may never happen: the request can be lost, or left unanswered.
SrvAnswers ==
  /\ asked /\ ~closed /\ section = Unanswered
  /\ LET known == 0 .. Len(srvTable) - 1
     IN \E refs \in UNION {[1 .. n -> known] : n \in 0 .. MaxLines}, base \in 0 .. Len(srvTable) :
          /\ refs = <<>> => base = 0
          /\ section' = Encoded(refs, base)
  /\ UNCHANGED <<streamVars, tableVars, reqVars, wire, srvTable, srvCapacity>>

-----------------------------------------------------------------------------
H3Next ==
  \/ Request \/ ConnectionCloses \/ ParseEncoderInstruction \/ StreamEmits
  \/ \E f \in Frames : StreamArrives(f)
  \/ \E n \in 1 .. Len(wire) : EncoderArrives(n)
  \/ SrvSetsCapacity \/ SrvInserts \/ SrvAnswers

\* A frame with the next bytes, or with the end once all bytes are there.
Useful(f) ==
  f.offset <= recvOffset /\ (f.offset + f.len > recvOffset \/ (recvOffset = Size /\ f.fin))

\* While the connection is open, a server that has answered sends again what was
\* lost of its answer: not what arrived and was dropped by an overflow, which is
\* acknowledged.
H3Spec ==
  /\ H3Init /\ [][H3Next]_h3Vars
  /\ WF_h3Vars(ParseEncoderInstruction) /\ WF_h3Vars(StreamEmits)
  /\ SF_h3Vars(~failed /\ \E f \in Frames : Useful(f) /\ StreamArrives(f))

-----------------------------------------------------------------------------
(* Properties.                                                             *)

\* A field section decoded once its insertions are in the table gives its
\* fields, all and in order, whatever the base, the wrapped insert count, the
\* capacity the server chose and the entries inserted since (qpack.js 255-288,
\* 320-452; h3.js 138-187): unless a packet has cut a Set Capacity or a Duplicate
\* on the encoder stream.
\* A response is resolved after its header section and all its bytes.
ResponseWhole ==
  /\ respHeaders # Undecoded =>
       early \/ desynced \/ respHeaders = <<Status>> \o section.fields
  /\ outcome = "resolved" => respHeaders # Undecoded /\ Len(delivered) = Size


\* Not so: with SETTINGS_QPACK_BLOCKED_STREAMS = 100 (h3.js:27-36) the client
\* says that it holds back a section until its insertions have arrived.
BlockedSectionsWait == ~early

\* Not so: on a truncated integer the parser stops "without advancing past `start`,
\* so we never commit a garbage entry or desync the stream by over-consuming"
\* (qpack.js:365-368).  decodeInt does not throw at the end of the buffer.
NeverDesynced ==
  LET unread == peerEncoderBuf \o wire
  IN unread # <<>> => Head(unread).part = 1
=============================================================================
