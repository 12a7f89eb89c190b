---------------------------- MODULE OutputHttp ----------------------------
(***************************************************************************)
(* output_http.c: the thread that serves one track, outside flow mode, and *)
(* the device that reads it over one connection after another.             *)
(*                                                                         *)
(* An iteration of the thread is two actions: what follows its select      *)
(* (accept, a request, a closed connection), and what it does under        *)
(* LOCK_O.  The bytes of the track are numbered from 0; what is sent is a   *)
(* sequence of them, with the ICY metadata and the last chunk in between.  *)
(***************************************************************************)
EXTENDS Cache

CONSTANTS Length,        \* the most bytes the encoded track may have
          MaxBlock,      \* MAX_BLOCK: the most that is taken at once
          ObufSize,      \* what obuf holds
          Interval,      \* icy.interval
          Lengths,       \* values of output.length; negative if none is announced
          MaxConnections \* bound on the connections of the device

ASSUME HttpAssumption ==
  /\ Length \in Nat \ {0}
  /\ MaxBlock \in 1..CacheSize
  /\ ObufSize \in Nat \ {0}
  /\ Interval \in 1..CacheSize
  /\ Lengths \subseteq Int
  /\ MaxConnections \in Nat

VARIABLES
  pc,       \* where the thread is: before its select, before LOCK_O, gone
  thread,   \* output_thread_s and the locals of output_http_thread
  drained,  \* drain_count = 0
  cache,    \* the cache of the thread
  obuf,     \* how many bytes obuf holds: those that follow cache.total
  backlog,  \* what send did not take
  icy,      \* output.icy
  output,   \* state, completed and length of outputstate
  decode,   \* state and new_stream of decode, and the bytes it made
  dev,      \* the connection of the device, as the device sees it
  body      \* history: what came over the last connection

vars == <<pc, thread, drained, cache, obuf, backlog, icy, output, decode, dev, body>>

Meta == -1       \* a block of metadata
LastChunk == -2  \* the chunk of length 0
Unknown == -5    \* nothing is promised

Tokens == 0..Length \cup {Meta, LastChunk, Garbage}

\* A request: is it for this track, is it HEAD, its Range (-1 if there is
\* none), does it ask for metadata.
Requests == [mine : BOOLEAN, head : BOOLEAN, range : -1..Length + 1, icy : BOOLEAN]

ThreadType == [running : BOOLEAN, terminate : BOOLEAN, lingering : BOOLEAN,
               sock : BOOLEAN, use_cache : BOOLEAN, acquired : BOOLEAN,
               http_ready : BOOLEAN, finished : BOOLEAN, wfds : BOOLEAN]

IcyType == [active : BOOLEAN, remain : 0..Interval]

OutputType == [state : {"STOPPED", "RUNNING"}, completed : BOOLEAN, length : Lengths]

DecodeType == [state : {"RUNNING", "ENDED", "STOPPED"},
               new_stream : BOOLEAN, made : 0..Length + 1, size : 0..Length]

DevType == [conn : {"none", "pending", "open", "closed"}, asks : BOOLEAN,
            req : Requests, count : 0..MaxConnections]

\* What came, what it may expect to be first, whether it asked for metadata,
\* and whether the thread closed it at its end.
BodyType == [tokens : Seq(Tokens), promised : {Unknown} \cup 0..Length,
             icy : BOOLEAN, ended : BOOLEAN]

TypeOK ==
  /\ pc \in {"select", "locked", "exited"} /\ drained \in BOOLEAN
  /\ thread \in ThreadType
  /\ cache \in CacheType
  /\ obuf \in 0..ObufSize
  /\ backlog \in Seq(Tokens)
  /\ icy \in IcyType
  /\ output \in OutputType
  /\ decode \in DecodeType
  /\ dev \in DevType
  /\ body \in BodyType

NoBody == [tokens |-> <<>>, promised |-> Unknown, icy |-> FALSE, ended |-> FALSE]

NoRequest == [mine |-> TRUE, head |-> FALSE, range |-> -1, icy |-> FALSE]

\* output_start has made the thread; the decoder has been opened.
Init ==
  /\ pc = "select" /\ drained = FALSE
  /\ thread = [running |-> TRUE, terminate |-> FALSE, lingering |-> FALSE,
               sock |-> FALSE, use_cache |-> FALSE, acquired |-> FALSE,
               http_ready |-> FALSE, finished |-> FALSE, wfds |-> FALSE]
  /\ \E type \in CacheTypes : cache = NewCache(type)
  /\ obuf = 0 /\ backlog = <<>>
  /\ icy = [active |-> FALSE, remain |-> 0]
  /\ \E l \in Lengths : output = [state |-> "STOPPED", completed |-> FALSE, length |-> l]
  /\ decode = [state |-> "RUNNING", new_stream |-> TRUE, made |-> 0, size |-> 0]
  /\ dev = [conn |-> "none", asks |-> FALSE, req |-> NoRequest, count |-> 0]
  /\ body = NoBody

-----------------------------------------------------------------------------
\* What comes over the connection.

\* send_backlog: the backlog goes first; the socket takes what it likes, and
\* the rest waits.
Sent(data, n) ==
  LET all == backlog \o data
  IN /\ body' = [body EXCEPT !.tokens = @ \o SubSeq(all, 1, n)]
     /\ backlog' = SubSeq(all, n + 1, Len(all))

\* send_with_icy: metadata after the last byte of an interval.
WithIcy(data) ==
  IF icy.active /\ Len(data) = icy.remain THEN Append(data, Meta) ELSE data

IcyAfter(data) ==
  IF ~icy.active THEN icy
  ELSE IF Len(data) = icy.remain THEN [icy EXCEPT !.remain = Interval]
  ELSE [icy EXCEPT !.remain = @ - Len(data)]

-----------------------------------------------------------------------------
\* handle_http: what it does with the cache, whether it then serves, and what
\* it promises.

Refused == {[serves |-> FALSE, use_cache |-> TRUE, cache |-> SetOffset(cache, 0)]}

\* Body from the cache, from an offset on.
FromCache(offset) ==
  [serves |-> TRUE, use_cache |-> TRUE, cache |-> SetOffset(cache, offset)]

Live == [serves |-> TRUE, use_cache |-> FALSE, cache |-> SetOffset(cache, 0)]

\* min(total, length - offset).  length is an int64_t, offset a size_t: with
\* 64 bits a negative difference is a huge number, with 32 bits it stays
\* negative and total - avail is beyond the end.
ProbeOffsets(offset) ==
  IF output.length >= offset
  THEN {cache.total - Least(cache.total, output.length - offset)}
  ELSE {0, cache.total + offset - output.length}

RangeResponses(offset) ==
  IF ~thread.lingering /\ cache.total = offset THEN {Live}
  ELSE IF InScope(cache, offset) THEN {FromCache(offset)}
  ELSE IF thread.lingering /\ offset >= cache.total THEN Refused
  ELSE {FromCache(o) : o \in ProbeOffsets(offset)}

Responses(req) ==
  IF ~req.mine
  THEN {[serves |-> FALSE, use_cache |-> thread.use_cache, cache |-> cache]}
  ELSE IF req.range > 0 /\ cache.total > 0 THEN RangeResponses(req.range)
  ELSE IF thread.lingering THEN Refused
  ELSE IF cache.total > 0 THEN {FromCache(0)}
  ELSE {Live}

\* What a request may expect to be sent first, whatever the code does: the
\* byte it asks for if it is kept or the next to come, and without a Range
\* the oldest that is kept.
Kept == IF IsFile(cache) THEN cache.total ELSE Least(cache.total, CacheSize - 1)

Promised(req) ==
  IF req.range <= 0 THEN cache.total - Kept
  ELSE IF req.range \in cache.total - Kept .. cache.total
       THEN req.range ELSE Unknown

-----------------------------------------------------------------------------
\* The thread.

Alive == thread.running /\ ~thread.terminate

Serving == pc = "select" /\ Alive /\ thread.sock

\* The codec must be initialized before anything of the socket is looked at.
CodecReady == thread.acquired \/ ~decode.new_stream

Accept ==
  /\ pc = "select" /\ Alive /\ ~thread.sock
  /\ dev.conn = "pending"
  /\ thread' = [thread EXCEPT !.sock = TRUE, !.http_ready = FALSE,
                              !.finished = FALSE, !.wfds = FALSE]
  /\ backlog' = <<>>
  /\ dev' = [dev EXCEPT !.conn = "open"]
  /\ UNCHANGED <<pc, drained, cache, obuf, icy, output, decode, body>>

\* A request can be read, perhaps after its sender has gone.
HandleHttp ==
  /\ Serving /\ CodecReady /\ dev.asks
  /\ icy' = IF dev.req.icy THEN [active |-> TRUE, remain |-> Interval]
                           ELSE [icy EXCEPT !.active = FALSE]
  /\ \E r \in Responses(dev.req) :
       LET serves == r.serves /\ ~dev.req.head IN
       /\ cache' = r.cache
       /\ thread' = [thread EXCEPT !.acquired = TRUE, !.use_cache = r.use_cache,
                       !.http_ready = serves, !.sock = serves, !.wfds = FALSE,
                       !.lingering = @ \/ (~serves /\ thread.finished)]
       /\ pc' = IF serves THEN "locked" ELSE "select"
       /\ body' = IF serves THEN [NoBody EXCEPT !.promised = Promised(dev.req),
                                                !.icy = dev.req.icy]
                            ELSE NoBody
       /\ dev' = [dev EXCEPT !.asks = FALSE,
                             !.conn = IF serves THEN @ ELSE "none"]
  /\ UNCHANGED <<drained, obuf, backlog, output, decode>>

\* A mutant: any connection the device closes makes the thread linger.
RemoteClosed_Lingers ==
  /\ Serving /\ CodecReady /\ ~dev.asks /\ dev.conn = "closed"
  /\ thread' = [thread EXCEPT !.acquired = TRUE, !.sock = FALSE,
                  !.http_ready = FALSE, !.wfds = FALSE, !.lingering = TRUE]
  /\ dev' = [dev EXCEPT !.conn = "none"]
  /\ UNCHANGED <<pc, drained, cache, obuf, backlog, icy, output, decode, body>>

\* The connection was closed by the device: there is nothing to parse.
RemoteClosed ==
  /\ Serving /\ CodecReady /\ ~dev.asks /\ dev.conn = "closed"
  /\ thread' = [thread EXCEPT !.acquired = TRUE, !.sock = FALSE,
                  !.http_ready = FALSE, !.wfds = FALSE,
                  !.lingering = @ \/ thread.finished]
  /\ dev' = [dev EXCEPT !.conn = "none"]
  /\ UNCHANGED <<pc, drained, cache, obuf, backlog, icy, output, decode, body>>

\* select says that the socket can be written, if it was asked, or times out.
Select(writable) ==
  /\ Serving /\ thread.http_ready /\ ~dev.asks /\ dev.conn = "open"
  /\ writable => thread.wfds
  /\ thread' = [thread EXCEPT !.wfds = writable]
  /\ pc' = "locked"
  /\ UNCHANGED <<drained, cache, obuf, backlog, icy, output, decode, dev, body>>

NotRunning ==
  /\ pc = "locked" /\ output.state # "RUNNING"
  /\ pc' = "select"
  /\ UNCHANGED <<drained, thread, cache, obuf, backlog, icy, output, decode, dev, body>>

\* A mutant: a track never ends.
Fills_More ==
  LET waiting == decode.made - (cache.total + obuf)
  IN {[bytes |-> n, more |-> TRUE] :
        n \in (IF waiting > 0 /\ obuf < ObufSize THEN 1 ELSE 0)..Least(ObufSize - obuf, waiting)}

\* _output_fill: the bytes it moves to obuf, and whether there may be more.
Fills ==
  LET waiting == decode.made - (cache.total + obuf)
      space == ObufSize - obuf
  IN IF space = 0 THEN {[bytes |-> 0, more |-> TRUE]}
     ELSE IF waiting = 0 THEN {[bytes |-> 0, more |-> FALSE]}
     ELSE {[bytes |-> n, more |-> TRUE] : n \in 1..Least(space, waiting)}

Drains(fill) == ~fill.more /\ decode.state = "ENDED"

Chunk == IF icy.active THEN icy.remain ELSE MaxBlock

\* What is sent of what, once the socket can be written.  used is what obuf
\* holds now.
SendFromCache(used) ==
  LET read == ReadInner(cache, Chunk) IN
  /\ thread.use_cache /\ read.data # <<>>
  /\ cache' = read.cache /\ obuf' = used /\ icy' = IcyAfter(read.data)
  /\ \E n \in 1..Len(WithIcy(read.data)) : Sent(WithIcy(read.data), n)
  /\ UNCHANGED <<thread, dev>>

CacheEmpty == thread.use_cache => ReadInner(cache, Chunk).data = <<>>

\* A mutant: bytes that are sent are not kept.
SendFromObuf_AsIs(used) ==
  /\ CacheEmpty /\ used > 0
  /\ \E bytes \in 1..Least(Chunk, used) :
       LET data == [i \in 1..bytes |-> cache.total + i - 1] IN
       /\ cache' = [Write(cache, data) EXCEPT !.total = cache.total]
       /\ obuf' = used - bytes
       /\ icy' = IcyAfter(data)
       /\ \E n \in 1..Len(WithIcy(data)) : Sent(WithIcy(data), n)
  /\ thread' = [thread EXCEPT !.use_cache = FALSE]
  /\ UNCHANGED dev

\* Contiguous bytes of obuf, which may be fewer than it holds.
SendFromObuf(used) ==
  /\ CacheEmpty /\ used > 0
  /\ \E bytes \in 1..Least(Chunk, used) :
       LET from == IF thread.use_cache THEN ReadInner(cache, Chunk).cache ELSE cache
           data == [i \in 1..bytes |-> cache.total + i - 1] IN
       /\ cache' = Write(from, data) /\ obuf' = used - bytes
       /\ icy' = IcyAfter(data)
       /\ \E n \in 1..Len(WithIcy(data)) : Sent(WithIcy(data), n)
  /\ thread' = [thread EXCEPT !.use_cache = FALSE]
  /\ UNCHANGED dev

NothingToSend(used) ==
  /\ CacheEmpty /\ used = 0
  /\ thread' = [thread EXCEPT !.use_cache = FALSE, !.wfds = FALSE]
  /\ cache' = IF thread.use_cache THEN ReadInner(cache, Chunk).cache ELSE cache
  /\ obuf' = used
  /\ UNCHANGED <<backlog, icy, dev, body>>

Send(used, all) ==
  IF ~thread.wfds /\ (thread.use_cache \/ used > 0 \/ backlog # <<>>)
  THEN /\ thread' = [thread EXCEPT !.wfds = TRUE]
       /\ obuf' = used
       /\ UNCHANGED <<cache, backlog, icy, dev, body>>
  ELSE IF backlog # <<>>
  THEN /\ \E n \in 1..Len(backlog) : Sent(<<>>, n)
       /\ obuf' = used
       /\ UNCHANGED <<thread, cache, icy, dev>>
  ELSE IF thread.use_cache \/ used > 0
  THEN SendFromCache(used) \/ SendFromObuf(used) \/ NothingToSend(used)
  ELSE IF thread.finished
  THEN /\ thread' = [thread EXCEPT !.lingering = TRUE, !.sock = FALSE]
       /\ dev' = [dev EXCEPT !.conn = "none"]
       /\ body' = [body EXCEPT !.ended = TRUE]
       /\ obuf' = used
       /\ UNCHANGED <<cache, backlog, icy>>
  ELSE IF all
  THEN /\ \E n \in 0..1 : Sent(<<LastChunk>>, n)
       /\ thread' = [thread EXCEPT !.finished = TRUE]
       /\ obuf' = used
       /\ UNCHANGED <<cache, icy, dev>>
  ELSE /\ thread' = [thread EXCEPT !.wfds = FALSE]
       /\ obuf' = used
       /\ UNCHANGED <<cache, backlog, icy, dev, body>>

\* The section under LOCK_O.  Once drained, outputbuf is left to the next track.
Serve ==
  /\ pc = "locked" /\ output.state = "RUNNING"
  /\ pc' = "select"
  /\ \E fill \in IF drained THEN {[bytes |-> 0, more |-> FALSE]} ELSE Fills :
       LET ends == ~drained /\ Drains(fill) IN
       /\ drained' = (drained \/ ends)
       /\ output' = [output EXCEPT !.completed = @ \/ ends]
       /\ Send(obuf + fill.bytes, drained')
  /\ UNCHANGED decode

\* The loop ends: terminated, or about to be joined.  The buffers are freed.
Exit ==
  /\ pc = "select" /\ ~Alive
  /\ pc' = "exited"
  /\ thread' = [thread EXCEPT !.running = FALSE, !.lingering = FALSE, !.sock = FALSE]
  /\ dev' = [dev EXCEPT !.conn = "none", !.asks = FALSE]
  /\ cache' = NewCache(cache.type) /\ obuf' = 0 /\ backlog' = <<>> /\ body' = NoBody
  /\ UNCHANGED <<drained, icy, output, decode>>

-----------------------------------------------------------------------------
\* The rest of the player.

\* The decoder finds a codec, makes bytes, and ends; a track may be shorter
\* than expected.
DecodeStarts ==
  /\ decode.state = "RUNNING" /\ decode.new_stream
  /\ decode' = [decode EXCEPT !.new_stream = FALSE]
  /\ UNCHANGED <<pc, thread, drained, cache, obuf, backlog, icy, output, dev, body>>

Decodes ==
  /\ decode.state = "RUNNING" /\ ~decode.new_stream /\ decode.size < Length
  /\ decode.made = decode.size
  /\ decode' = [decode EXCEPT !.made = @ + 1, !.size = @ + 1]
  /\ UNCHANGED <<pc, thread, drained, cache, obuf, backlog, icy, output, dev, body>>

\* COMPLETE or ERROR: the thread does not tell one from the other.
DecodeEnds ==
  /\ decode.state = "RUNNING" /\ ~decode.new_stream
  /\ decode' = [decode EXCEPT !.state = "ENDED"]
  /\ UNCHANGED <<pc, thread, drained, cache, obuf, backlog, icy, output, dev, body>>

\* completed lets slimproto ask for the next track, whose first byte comes to
\* outputbuf.
NextTrack ==
  /\ output.completed /\ decode.state = "ENDED"
  /\ decode' = [decode EXCEPT !.state = "STOPPED", !.made = decode.size + 1]
  /\ UNCHANGED <<pc, thread, drained, cache, obuf, backlog, icy, output, dev, body>>

OutputRuns ==
  /\ output.state = "STOPPED" /\ thread.running
  /\ output' = [output EXCEPT !.state = "RUNNING"]
  /\ UNCHANGED <<pc, thread, drained, cache, obuf, backlog, icy, decode, dev, body>>

\* output_flush, up to the join, after which nothing is left to see; a lingering
\* thread survives one that is not full.
Flush(full) ==
  /\ thread.running /\ (thread.lingering => full)
  /\ thread' = [thread EXCEPT !.running = FALSE]
  /\ output' = [output EXCEPT !.state = IF full THEN "STOPPED" ELSE @]
  /\ UNCHANGED <<pc, drained, cache, obuf, backlog, icy, decode, dev, body>>

\* _output_terminate, _output_terminate_below.
Terminate ==
  /\ ~thread.terminate /\ thread.running
  /\ thread' = [thread EXCEPT !.terminate = TRUE]
  /\ UNCHANGED <<pc, drained, cache, obuf, backlog, icy, output, decode, dev, body>>

-----------------------------------------------------------------------------
\* The device connects and asks, any number of bytes into the track, and may
\* close at any time.

Asked == {r \in Requests : (~r.mine \/ r.head) => (r.range = -1 /\ ~r.icy /\ r.mine # r.head)}

Connect ==
  /\ dev.conn = "none" /\ pc # "exited" /\ dev.count < MaxConnections
  /\ \E r \in Asked :
       dev' = [conn |-> "pending", asks |-> TRUE, req |-> r, count |-> dev.count + 1]
  /\ body' = NoBody
  /\ UNCHANGED <<pc, thread, drained, cache, obuf, backlog, icy, output, decode>>

Close ==
  /\ dev.conn = "open"
  /\ dev' = [dev EXCEPT !.conn = "closed"]
  /\ UNCHANGED <<pc, thread, drained, cache, obuf, backlog, icy, output, decode, body>>

-----------------------------------------------------------------------------
ThreadStep ==
  \/ Accept \/ HandleHttp \/ RemoteClosed \/ NotRunning \/ Serve \/ Exit
  \/ \E writable \in BOOLEAN : Select(writable)

Player ==
  \/ DecodeStarts \/ Decodes \/ DecodeEnds \/ NextTrack \/ OutputRuns \/ Terminate
  \/ \E full \in BOOLEAN : Flush(full)

Device == Connect \/ Close

Next == ThreadStep \/ Player \/ Device

\* The thread runs; a device that stays reads, so that the socket can be
\* written again and again; the decoder goes on to its end, and slimproto
\* starts the output.
Fairness ==
  /\ WF_vars(ThreadStep) /\ SF_vars(Select(TRUE))
  /\ WF_vars(DecodeStarts) /\ WF_vars(DecodeEnds)
  /\ WF_vars(OutputRuns)

Spec == Init /\ [][Next]_vars /\ Fairness

-----------------------------------------------------------------------------
\* Where there are metadata in a body.
IsMark(i) == body.icy /\ i % (Interval + 1) = 0

\* How many of its first i tokens are bytes of the track.
BytesIn(i) == IF body.icy THEN i - i \div (Interval + 1) ELSE i

\* What comes over a connection is one piece of the track: no byte is left out,
\* repeated or overtaken where the cache gives way to obuf, where the ring
\* wraps, or where send takes a part (output_http.c:320-347, 400-423).
BodyIsGapless ==
  \A i \in DOMAIN body.tokens :
    body.tokens[i] \notin {Meta, LastChunk} =>
      body.tokens[i] >= 0 /\ body.tokens[i] = body.tokens[1] + BytesIn(i) - 1

\* A device that resumes gets the byte it asks for, if it is kept, and one
\* that does not ask for a range gets all that is kept (handle_http, cache.c).
RangeIsTrue ==
  body.tokens # <<>> /\ body.tokens[1] # LastChunk =>
    body.promised \in {Unknown, body.tokens[1]}

\* A connection the thread ends by itself brought the track to its last byte and
\* nothing of the next, then the last chunk, whatever was in obuf, in the cache
\* or in the backlog when the decoder ended.
EndIsWhole ==
  LET n == Len(body.tokens) IN
  /\ \A i \in 1..n : body.tokens[i] < decode.size
  /\ \A i \in 1..n - 1 : body.tokens[i] # LastChunk
  /\ body.ended =>
       /\ n > 0 /\ body.tokens[n] = LastChunk
       /\ IF n = 1 THEN body.promised \in {decode.size, Unknown}
          ELSE body.tokens[1] + BytesIn(n - 1) = decode.size

\* Metadata come after exactly Interval bytes of a connection that asked for
\* them, across the cache, obuf and the backlog (send_with_icy).
IcyOnTheMark == \A i \in DOMAIN body.tokens : body.tokens[i] = Meta <=> IsMark(i)

\* A lingering thread has pulled the whole track: LMS may ask for the next one
\* (completed), and a device can only be served from the cache.
LingersWhenDrained ==
  thread.lingering => drained /\ output.completed /\ obuf = 0

\* The states of a server are those of output_http_thread, and it does not
\* linger before its time.
ServerOK == TypeOK /\ LingersWhenDrained

\* A body is a piece of the track without a gap, whole when the thread ends it,
\* and the metadata in it are where the device looks for them.
BodyIsWhole == BodyIsGapless /\ EndIsWhole /\ IcyOnTheMark

\* A device that connects is answered to the end or refused, if it stays.
ConnectionEnds == dev.conn = "pending" ~> dev.conn \in {"none", "closed"}
=============================================================================
