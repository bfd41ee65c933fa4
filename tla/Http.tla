-------------------------------- MODULE Http --------------------------------
(***************************************************************************)
(* One request of the plugin's HTTP client (net.rs), made by a job on the  *)
(* network worker: the bounded lookup, the addresses tried in turn, the    *)
(* TLS handshake, the exchange, and the framing of the answer.  The worker *)
(* is joined when the last instance unloads, so the time a call may take   *)
(* is time the host's unload may take.                                     *)
(*                                                                         *)
(* now counts seconds since the call began; an operation on the socket     *)
(* takes any time up to the timeout it carries, and code takes none.  Over *)
(* TLS one read of the stream may be many of the socket: it goes on until  *)
(* a record is whole.                                                      *)
(* Bytes are whole: a size line, an item of the content, the line break    *)
(* after a chunk, the head.  One that is cut off is as good as not there.  *)
(***************************************************************************)
EXTENDS Naturals, Sequences, SequencesExt

CONSTANTS
  CONNECT_TIMEOUT, IO_TIMEOUT, DEADLINE,
  MaxAddresses,        \* bound: addresses a name resolves to
  HandshakeReads,      \* reads and writes a TLS handshake may take, which
                       \* nothing in the client bounds
  RecordReads,         \* reads of the socket that one of a TLS stream may take,
                       \* which only the size of a record bounds
  CHUNK,               \* what one read may return
  Endpoints,           \* [tls : BOOLEAN, literal : BOOLEAN]
  Calls,               \* [method : {"GET", "POST"}, max_bytes : Nat]
  Responses            \* what the server may send, see Wire

\* A handshake and a record take an operation at least, and no chunk but the last
\* is empty.
ASSUME HttpAssumption ==
  /\ {CONNECT_TIMEOUT, IO_TIMEOUT, DEADLINE, MaxAddresses, CHUNK} \subseteq Nat
  /\ HandshakeReads \in Nat \ {0} /\ RecordReads \in Nat \ {0}
  /\ CONNECT_TIMEOUT <= DEADLINE
  /\ Endpoints \subseteq [tls : BOOLEAN, literal : BOOLEAN]
  /\ Calls \subseteq [method : {"GET", "POST"}, max_bytes : Nat]
  /\ Responses \subseteq [chunked : BOOLEAN, length : Nat,
                          parts : Seq(Seq(Nat) \ {<<>>}), whole : BOOLEAN]

VARIABLES
  call, endpoint, response,   \* what is asked of whom, and what it would answer
  now, step,
  addresses,                  \* those not tried yet
  reads,                      \* of the handshake, or of the record, so far
  got,                        \* bytes of the answer that have arrived
  result,                     \* "pending", "error", or what the caller gets
  helper                      \* the conjure-align-dns thread

inputs == <<call, endpoint, response>>
requestVars == <<inputs, now, step, addresses, reads, got, result, helper>>

-----------------------------------------------------------------------------
(***************************************************************************)
(* The answer on the wire.  A response is [chunked, length, parts, whole]: *)
(* its Content-Length (one that is no shorter than the content stands for  *)
(* none), its content as the server cuts it up, and whether the last size  *)
(* line is the terminating zero or does not parse.                         *)
(***************************************************************************)
Byte(kind, n) == [is |-> kind, n |-> n]
Items(part)   == [k \in DOMAIN part |-> Byte("item", part[k])]
Content(r)    == Items(FlattenSeq(r.parts))

Framed(part) == <<Byte("size", Len(part))>> \o Items(part) \o <<Byte("eol", 0)>>

Wire(r) ==
  <<Byte("head", 0)>> \o
  IF r.chunked
  THEN FlattenSeq([k \in DOMAIN r.parts |-> Framed(r.parts[k])])
         \o <<Byte(IF r.whole THEN "size" ELSE "garbled", 0)>>
  ELSE Content(r)

Least(m, n) == IF m < n THEN m ELSE n

First(n, s) == SubSeq(s, 1, Least(n, Len(s)))

\* Where the data of the chunk whose size line is at i ends, and where the next
\* size line should be: after the line break, if it has arrived.
ChunkEnd(rest, i) == Least(i + rest[i].n, Len(rest))

\* Mutant: the line break after a chunk is left for the next size line.
MutNextLine(rest, end) == end + 1

NextLine(rest, end) == IF rest[end + 1].is = "eol" THEN end + 2 ELSE end + 1

\* Up to the zero size line, a line that is no size, or the end of what arrived.
dechunk(rest) ==
  LET from[i \in 1 .. Len(rest) + 1] ==
        IF i > Len(rest) \/ rest[i].is # "size" \/ rest[i].n = 0 THEN <<>>
        ELSE LET end  == ChunkEnd(rest, i)
                 data == SubSeq(rest, i + 1, end)
             IN  IF end = Len(rest) THEN data
                 ELSE data \o from[NextLine(rest, end)]
  IN  from[1]

Malformed == "malformed"

\* The head says how the rest is framed; without a whole head there is no answer.
parse_response(raw, r) ==
  IF raw = <<>> THEN Malformed
  ELSE IF r.chunked THEN dechunk(Tail(raw))
  ELSE First(r.length, Tail(raw))

-----------------------------------------------------------------------------
RequestInit ==
  /\ call \in Calls /\ endpoint \in Endpoints /\ response \in Responses
  /\ now = 0 /\ step = "resolve" /\ addresses = 0 /\ reads = 0
  /\ got = 0 /\ result = "pending" /\ helper = "none"

Takes(limit) == \E d \in 0 .. limit : now' = now + d

\* The call returns to the job.
Return(value) == step' = "returned" /\ result' = value

(***************************************************************************)
(* resolve_bounded: an address literal needs no thread.  A helper that has *)
(* not answered in time is abandoned, and its answer then goes nowhere.    *)
(***************************************************************************)
Literal ==
  /\ step = "resolve" /\ endpoint.literal
  /\ addresses' = 1 /\ step' = "connect"
  /\ UNCHANGED <<inputs, now, reads, got, result, helper>>

Spawn ==
  /\ step = "resolve" /\ ~endpoint.literal /\ helper = "none"
  /\ \/ helper' = "resolving" /\ UNCHANGED <<step, result>>
     \/ Return("error") /\ UNCHANGED helper
  /\ UNCHANGED <<inputs, now, addresses, reads, got>>

Resolved ==
  /\ step = "resolve" /\ helper = "resolving"
  /\ Takes(CONNECT_TIMEOUT)
  /\ helper' = "ended"
  /\ \/ addresses' \in 0 .. MaxAddresses /\ step' = "connect" /\ UNCHANGED result
     \/ Return("error") /\ UNCHANGED addresses
  /\ UNCHANGED <<inputs, reads, got>>

Abandon ==
  /\ step = "resolve" /\ helper = "resolving"
  /\ now' = now + CONNECT_TIMEOUT
  /\ helper' = "abandoned" /\ Return("error")
  /\ UNCHANGED <<inputs, addresses, reads, got>>

LateAnswer ==
  /\ helper = "abandoned" /\ helper' = "ended"
  /\ UNCHANGED <<inputs, now, step, addresses, reads, got, result>>

(***************************************************************************)
(* send: each address is tried while the deadline leaves time for it.      *)
(***************************************************************************)
remaining == IF now < DEADLINE THEN DEADLINE - now ELSE 0

\* Mutant: every address has the whole timeout.
MutConnectBudget == CONNECT_TIMEOUT

ConnectBudget == IF remaining < CONNECT_TIMEOUT THEN remaining ELSE CONNECT_TIMEOUT

Connect ==
  /\ step = "connect" /\ addresses > 0 /\ remaining > 0
  /\ Takes(ConnectBudget)
  /\ addresses' = addresses - 1
  /\ step' \in {"connect", IF endpoint.tls THEN "handshake" ELSE "write"}
  /\ UNCHANGED <<inputs, reads, got, result, helper>>

NoAddress ==
  /\ step = "connect" /\ (addresses = 0 \/ remaining = 0)
  /\ Return("error")
  /\ UNCHANGED <<inputs, now, addresses, reads, got, helper>>

\* write_tls: the handshake's reads and writes have a timeout each.
Handshake ==
  /\ step = "handshake"
  /\ Takes(IO_TIMEOUT)
  /\ \/ reads + 1 < HandshakeReads /\ reads' = reads + 1 /\ UNCHANGED <<step, result>>
     \/ step' = "write" /\ reads' = 0 /\ UNCHANGED result
     \/ Return("error") /\ UNCHANGED reads
  /\ UNCHANGED <<inputs, addresses, got, helper>>

(***************************************************************************)
(* exchange: the request fits the socket's buffer, so one write.  Reading  *)
(* ends at the cap, at the deadline, when the server hangs up or at an     *)
(* error, with what has arrived; a read may bring part of a byte above.    *)
(* The deadline is looked at before a read of the stream, not within it.   *)
(***************************************************************************)
Write ==
  /\ step = "write"
  /\ Takes(IO_TIMEOUT)
  /\ \/ step' = "read" /\ UNCHANGED result
     \/ Return("error")
  /\ UNCHANGED <<inputs, addresses, reads, got, helper>>

MayRead == got < call.max_bytes /\ now < DEADLINE

Reading == step = "read" /\ (reads > 0 \/ MayRead)

\* native-tls: the record is not whole yet.
RecordRead ==
  /\ Reading /\ endpoint.tls /\ reads + 1 < RecordReads
  /\ Takes(IO_TIMEOUT) /\ reads' = reads + 1
  /\ UNCHANGED <<inputs, step, addresses, got, result, helper>>

Read ==
  /\ Reading
  /\ Takes(IO_TIMEOUT) /\ reads' = 0
  /\ \E n \in 0 .. CHUNK : got' = got + n /\ got' <= Len(Wire(response))
  /\ UNCHANGED <<inputs, step, addresses, result, helper>>

Raw == First(got, Wire(response))

\* post hands the bytes on as they are; get decodes them.
Handed == IF call.method = "POST" THEN Raw
          ELSE IF parse_response(Raw, response) = Malformed THEN "error"
          ELSE parse_response(Raw, response)

ReadEnds ==
  /\ \/ step = "read" /\ reads = 0 /\ ~MayRead /\ UNCHANGED now
     \/ Reading /\ Takes(IO_TIMEOUT)     \* hung up, an error, or a timeout
  /\ Return(Handed)
  /\ UNCHANGED <<inputs, addresses, reads, got, helper>>

RequestNext ==
  \/ Literal \/ Spawn \/ Resolved \/ Abandon \/ LateAnswer
  \/ Connect \/ NoAddress \/ Handshake \/ Write \/ RecordRead \/ Read \/ ReadEnds

RequestSpec == RequestInit /\ [][RequestNext]_requestVars
-----------------------------------------------------------------------------
\* Socket operations in a row that nothing but their own timeout bounds: the
\* handshake's and the write, or those of one read.
Unwatched ==
  IF ~endpoint.tls THEN 1
  ELSE IF RecordReads < HandshakeReads + 1 THEN HandshakeReads + 1 ELSE RecordReads

(***************************************************************************)
(* net.rs rule 2, every stage is bounded.  However many addresses time     *)
(* out, a call is over at the deadline plus the socket operations that do  *)
(* not look at it: over plain TCP one, as exchange's comment has it; over  *)
(* TLS the handshake's and the write, or as many as one record takes to    *)
(* arrive, which the server chooses.                                       *)
(***************************************************************************)
CallBounded == now <= DEADLINE + IO_TIMEOUT * Unwatched

(***************************************************************************)
(* What get() hands its caller is the content as far as it arrived, in     *)
(* order and without framing: all of it if every byte arrived.             *)
(***************************************************************************)
Announced == IF response.chunked THEN Content(response)
             ELSE First(response.length, Content(response))

BodyFaithful ==
  step = "returned" /\ call.method = "GET" /\ result # "error" =>
    /\ IsPrefix(result, Announced)
    /\ got = Len(Wire(response)) => result = Announced
=============================================================================
