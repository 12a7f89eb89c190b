-------------------------------- MODULE Mp4 --------------------------------
(***************************************************************************)
(* The MP4 decoders, squeezelite/faad.c and squeezelite/alac.c: they walk  *)
(* the boxes of the header as bytes come, note where the chunks of the     *)
(* audio are, then decode it sample by sample from chunk to chunk and cut  *)
(* off what the encoder added at both ends.                                *)
(*                                                                         *)
(* A unit is four bytes: the header of a box is two units.  A call of      *)
(* codec->decode has LOCK_S throughout: stream_thread waits until it is    *)
(* out.  Every step of the walk through the header is an action.           *)
(***************************************************************************)
EXTENDS Naturals, SequencesExt, FiniteSetsExt

CONSTANTS Files,       \* a sequence of files, see FileOK
          Sizes,       \* what streambuf may hold
          MinRead,     \* codec->min_read_bytes
          WrapLen,     \* WRAPBUF_LEN
          PerSample,   \* frames in a sample
          MaxTracks,   \* bound on the tracks played
          Cuts         \* may the server close before the end

\* What a box the parser reads into leaves for the next turn.
Stride(box) ==
  CASE box.type \in {"moov", "trak", "mdia", "minf", "stbl", "udta", "ilst"} -> 2
    [] box.type = "meta" -> 3
    [] box.type = "stsd" -> 4
    [] box.type = "mp4a" -> 9
    [] OTHER -> box.len

\* A file: the codec LMS opens, the boxes of its header in order, with what
\* they say, where its samples are and how long they are, where it ends,
\* whether the decoder keeps the first sample back, and the frames that are
\* the track among those decoded.
FileOK(f) ==
  /\ f.codec \in {"faad", "alac"}
  /\ f.boxes[1].at = 0
  /\ \A i \in 2..Len(f.boxes) : f.boxes[i].at = f.boxes[i - 1].at + Stride(f.boxes[i - 1])
  /\ Len(f.offsets) = Len(f.lens)
  /\ f.primes => f.first > PerSample

ASSUME Mp4Assumption ==
  /\ \A i \in DOMAIN Files : FileOK(Files[i])
  /\ MinRead \in Nat /\ WrapLen \in Nat /\ PerSample \in Nat \ {0}
  /\ \A s \in Sizes : s > MinRead
  /\ MaxTracks \in Nat /\ Cuts \in BOOLEAN

VARIABLES
  track,    \* the tracks opened and the file of the last one
  stream,   \* streambuf: its size, readp, and the bytes of the file received
            \* and consumed; whether the stream is over
  call,     \* where decode_thread is, and `bytes` of read_mp4_header
  d,        \* struct faad or struct alac, with new_stream and decode.state
  heard,    \* history: the frames written to outputbuf
  missed    \* history: what the header parser or the first call went wrong at

vars == <<track, stream, call, d, heard, missed>>

File == Files[track.file]
Boxes == File.boxes
Used == stream.received - stream.read
ContRead == stream.size - stream.readp
InOnePiece == IF Used <= ContRead THEN Used ELSE ContRead
Least(a, b) == IF a <= b THEN a ELSE b

\* _buf_inc_readp
Read(s, n) == [s EXCEPT !.read = @ + n, !.readp = (@ + n) % s.size]

\* The boxes whose content is used.
Parsed == {"stts", "stsc", "stco", "----"}
            \cup IF File.codec = "faad" THEN {"esds"} ELSE {"alac", "stsz"}

\* Those the parser waits for: `alac` is not among them.
Kept == (Parsed \ {"alac"}) \cup {"esds"}

\* The box that starts at an offset of the file.
BoxAt(offset) == Boxes[CHOOSE i \in DOMAIN Boxes : Boxes[i].at = offset]

\* The samples in chunk i: the last run of stsc that starts at it or before.
InChunk(runs, i) ==
  LET r == Max({j \in DOMAIN runs : runs[j].first <= i}) IN runs[r].samples

\* The first sample of chunk i.
FirstSample(runs, i) == FoldSet(LAMBDA j, sum : sum + InChunk(runs, j), 0, 1..(i - 1))

\* chunkinfo, from stco and the stsc stored: its last entry has no offset.
ChunkTable(offsets, runs) ==
  Append([i \in DOMAIN offsets |->
            [offset |-> offsets[i], sample |-> IF runs = <<>> THEN 0 ELSE FirstSample(runs, i)]],
         [offset |-> 0, sample |-> 0])

Fresh == [pos |-> 0, consume |-> 0, sample |-> 0, nextchunk |-> 0,
          skip |-> 0, samples |-> 0, sttssamples |-> 0, empty |-> FALSE,
          stsc |-> <<>>, chunkinfo |-> <<>>, block_size |-> <<>>, block_index |-> 1]

\* A mutant: the chunks of the track before stay.
Opened_KeepsTable(old) ==
  [trak |-> old.trak, play |-> old.play, new_stream |-> TRUE, state |-> "RUNNING"]
    @@ [Fresh EXCEPT !.chunkinfo = old.chunkinfo]

\* codec_open with faad_open.  trak and play stay: `moov` resets them.
Opened(old) ==
  [trak |-> old.trak, play |-> old.play, new_stream |-> TRUE, state |-> "RUNNING"] @@ Fresh

\* alac_open: alac_cleanup clears the whole struct.
Cleared == [trak |-> 0, play |-> 0, new_stream |-> TRUE, state |-> "RUNNING"] @@ Fresh

EmptyStream(size) == [size |-> size, readp |-> 0, received |-> 0, read |-> 0, over |-> FALSE]

Init ==
  /\ \E f \in DOMAIN Files : track = [count |-> 1, file |-> f]
  /\ \E s \in Sizes : stream = EmptyStream(s)
  /\ call = [at |-> "out", bytes |-> 0]
  /\ d = Cleared
  /\ heard = <<>> /\ missed = "nothing"

TypeOK ==
  /\ track.count \in 1..MaxTracks /\ track.file \in DOMAIN Files
  /\ stream.readp \in 0..(stream.size - 1)
  /\ Used \in 0..(stream.size - 1) /\ stream.received <= File.length
  /\ call.at \in {"out", "header", "frame"} /\ call.bytes \in 0..stream.size
  /\ d.state \in {"RUNNING", "COMPLETE", "ERROR"} /\ d.new_stream \in BOOLEAN
  /\ {d.pos, d.consume, d.sample, d.skip, d.samples, d.trak, d.play} \subseteq Nat
  /\ d.nextchunk \in 0..Len(d.chunkinfo) \cup {1}
  /\ missed \in {"nothing", "box", "header", "jump", "frame", "tail"}

-----------------------------------------------------------------------------
\* stream_thread and slimproto.

Receive ==
  /\ call.at = "out" /\ ~stream.over
  /\ \E n \in 1..Least(stream.size - 1 - Used, File.length - stream.received) :
       stream' = [stream EXCEPT !.received = @ + n]
  /\ UNCHANGED <<track, call, d, heard, missed>>

StreamEnds ==
  /\ call.at = "out" /\ ~stream.over
  /\ Cuts \/ stream.received = File.length
  /\ stream' = [stream EXCEPT !.over = TRUE]
  /\ UNCHANGED <<track, call, d, heard, missed>>

\* strm s: the stream is flushed, then codec_open.  When the codec changes,
\* the other one is closed and this one starts from malloc or calloc.
Open ==
  /\ call.at = "out" /\ track.count < MaxTracks
  /\ \E f \in DOMAIN Files :
       /\ track' = [count |-> track.count + 1, file |-> f]
       /\ d' = IF Files[f].codec = "faad" /\ File.codec = "faad" THEN Opened(d) ELSE Cleared
  /\ stream' = EmptyStream(stream.size)
  /\ heard' = <<>> /\ missed' = "nothing"
  /\ UNCHANGED call

-----------------------------------------------------------------------------
\* A call of codec->decode.

MayDecode == call.at = "out" /\ d.state = "RUNNING" /\ (Used > MinRead \/ stream.over)

\* faad looks at the end of the stream before anything else.
FaadEnds == File.codec = "faad" /\ stream.over /\ Used = 0

Completes ==
  /\ MayDecode /\ FaadEnds
  /\ d' = [d EXCEPT !.state = "COMPLETE"]
  /\ UNCHANGED <<track, stream, call, heard, missed>>

\* The rest of a box or of the way to a chunk.  alac waits for it for ever.
Consumes ==
  /\ MayDecode /\ ~FaadEnds /\ d.consume > 0
  /\ LET n == Least(d.consume, IF File.codec = "faad" THEN InOnePiece ELSE Used)
     IN /\ stream' = Read(stream, n)
        /\ d' = [d EXCEPT !.pos = @ + n, !.consume = @ - n]
        /\ missed' = IF n = 0 THEN "tail" ELSE missed
  /\ UNCHANGED <<track, call, heard>>

Enters ==
  /\ MayDecode /\ ~FaadEnds /\ d.consume = 0
  /\ call' = IF d.new_stream THEN [at |-> "header", bytes |-> InOnePiece]
             ELSE [at |-> "frame", bytes |-> 0]
  /\ UNCHANGED <<track, stream, d, heard, missed>>

Out == [at |-> "out", bytes |-> 0]

-----------------------------------------------------------------------------
\* read_mp4_header.

Box == BoxAt(stream.read)
AtBox(type) == call.at = "header" /\ call.bytes >= 2 /\ Box.type = type

\* The header of the box is not there.  At the end of the memory it may be in
\* two pieces: nothing brings them together.
HeaderWaits ==
  /\ call.at = "header" /\ call.bytes < 2
  /\ call' = Out
  /\ missed' = IF Used >= 2 \/ stream.over THEN "header" ELSE missed
  /\ UNCHANGED <<track, stream, d, heard>>

\* iTunSMPB: what the encoder put before and after, and the frames between.
Gapless(e, gap) ==
  LET all == gap.start + gap.end + gap.samples
  IN  [e EXCEPT !.skip = gap.start,
                !.samples = IF e.sttssamples > 0 /\ e.sttssamples < all
                            THEN e.sttssamples - (gap.start + gap.end) ELSE gap.samples]

\* What the content of a box, all in the buffer, says.
Content(e, box) ==
  CASE box.type \in {"esds", "alac"} -> [e EXCEPT !.play = e.trak]
    [] box.type = "stts" -> [e EXCEPT !.sttssamples = @ + box.count]
    [] box.type = "stsc" /\ e.chunkinfo = <<>> -> [e EXCEPT !.stsc = box.runs]
    [] box.type = "stco" /\ e.play = e.trak ->
         [e EXCEPT !.chunkinfo = ChunkTable(box.offsets, e.stsc), !.stsc = <<>>]
    [] box.type = "----" -> Gapless(e, box)
    [] OTHER -> e

\* stsz, which only alac.c reads.
BlockSizes(e, box) == [e EXCEPT !.block_size = Append(box.sizes, 0)]

\* The two containers that are counted, or the content.
Noted(e, box) ==
  CASE box.type = "moov" -> [e EXCEPT !.trak = 0, !.play = 0]
    [] box.type = "trak" -> [e EXCEPT !.trak = @ + 1]
    [] box.type \in Parsed \ {"stsz"} /\ call.bytes > box.len -> Content(e, box)
    [] box.type \in Parsed \cap {"stsz"} /\ call.bytes > box.len -> BlockSizes(e, box)
    [] OTHER -> e

\* A box the parser uses is passed without having been parsed.
Overlooked(box) == box.type \in Parsed /\ call.bytes <= box.len

TakesBox ==
  /\ call.at = "header" /\ call.bytes >= 2 /\ Box.type # "mdat"
  /\ call.bytes >= Stride(Box)
  /\ stream' = Read(stream, Stride(Box))
  /\ d' = [Noted(d, Box) EXCEPT !.pos = @ + Stride(Box)]
  /\ call' = [call EXCEPT !.bytes = @ - Stride(Box)]
  /\ missed' = IF Overlooked(Box) THEN "box" ELSE missed
  /\ UNCHANGED <<track, heard>>

\* Not a box the parser waits for: the rest of it is consumed as it comes.
TakesPart ==
  /\ call.at = "header" /\ call.bytes >= 2 /\ Box.type # "mdat"
  /\ call.bytes < Stride(Box) /\ Box.type \notin Kept
  /\ stream' = Read(stream, call.bytes)
  /\ d' = [Noted(d, Box) EXCEPT !.pos = @ + call.bytes, !.consume = Stride(Box) - call.bytes]
  /\ call' = Out
  /\ missed' = IF Overlooked(Box) THEN "box" ELSE missed
  /\ UNCHANGED <<track, heard>>

\* A mutant: nobody looks at the size of the buffer.
BoxTooLarge_Waits ==
  /\ call.at = "header" /\ call.bytes >= 2 /\ Box.type \in Kept
  /\ call.bytes < Box.len /\ Box.len >= stream.size
  /\ call' = Out
  /\ UNCHANGED <<track, stream, d, heard, missed>>

BoxTooLarge ==
  /\ call.at = "header" /\ call.bytes >= 2 /\ Box.type \in Kept
  /\ call.bytes < Box.len /\ Box.len >= stream.size
  /\ d' = [d EXCEPT !.state = "ERROR"] /\ missed' = "box"
  /\ call' = Out
  /\ UNCHANGED <<track, stream, heard>>

\* _buf_unwrap makes room for the box in one piece, and for nothing more.
WaitsForBox ==
  /\ call.at = "header" /\ call.bytes >= 2 /\ Box.type \in Kept
  /\ call.bytes < Box.len /\ Box.len < stream.size
  /\ stream' = IF Box.len > ContRead THEN [stream EXCEPT !.readp = stream.size - Box.len]
               ELSE stream
  /\ call' = Out
  /\ missed' = IF stream.over /\ Used < Box.len THEN "header" ELSE missed
  /\ UNCHANGED <<track, d, heard>>

\* The audio starts here, or a little further on; new_stream is over and the
\* same call decodes.
FindsMedia ==
  /\ AtBox("mdat") /\ d.play > 0
  /\ LET here  == Read(stream, 2)
         bytes == call.bytes - 2
         skip  == IF d.chunkinfo # <<>> /\ d.chunkinfo[1].offset > d.pos + 2
                  THEN d.chunkinfo[1].offset - (d.pos + 2) ELSE 0
         found == [d EXCEPT !.sample = 1, !.nextchunk = 1, !.block_index = 1,
                            !.new_stream = FALSE]
     IN IF skip <= bytes
        THEN /\ stream' = Read(here, skip)
             /\ d' = [found EXCEPT !.pos = @ + 2 + skip]
        ELSE /\ stream' = here
             /\ d' = [found EXCEPT !.pos = @ + 2, !.consume = skip]
  /\ call' = [at |-> "frame", bytes |-> 0]
  /\ UNCHANGED <<track, heard, missed>>

FindsNothing ==
  /\ AtBox("mdat") /\ d.play = 0
  /\ stream' = Read(stream, 2)
  /\ d' = [d EXCEPT !.pos = @ + 2, !.state = "ERROR"]
  /\ call' = Out
  /\ UNCHANGED <<track, heard, missed>>

-----------------------------------------------------------------------------
\* The samples.

\* The sample that starts where streambuf is read from, 0 when none does.
SampleAt(offset) ==
  LET here == {k \in DOMAIN File.offsets : File.offsets[k] = offset}
  IN  IF here = {} THEN 0 ELSE Max(here)

\* A decoder given enough of sample k: the frames of it.  The first one may
\* give nothing.
Frames(k) ==
  IF k = 1 /\ File.primes THEN <<>>
  ELSE [i \in 1..PerSample |-> PerSample * (k - 1) + i]

\* Gapless: what is cut off at the start, and from the end on.
Trimmed(e, frames) ==
  LET lost  == IF e.skip > 0 /\ e.empty THEN Len(frames) ELSE 0
      skip  == Least(Len(frames), e.skip - lost)
      left  == Len(frames) - skip
      kept  == IF e.samples > 0 THEN Least(left, e.samples) ELSE left
  IN  [e |-> [e EXCEPT !.skip = @ - lost - skip,
                       !.empty = IF e.skip > 0 THEN FALSE ELSE @,
                       !.samples = IF @ > 0 THEN @ - kept ELSE 0],
       frames |-> SubSeq(frames, skip + 1, skip + kept)]

\* faad.c decodes what is in one piece, or a copy of what is in two.
InView == IF InOnePiece < WrapLen /\ InOnePiece # Used THEN Least(Used, WrapLen) ELSE InOnePiece

\* What the decoder makes of it: whether it is a sample, whole.
Decodes(k, view) == k > 0 /\ File.lens[k] <= view

\* The last sample of the chunk: there is another chunk, and where.
AtChunkEnd == d.chunkinfo # <<>> /\ d.chunkinfo[d.nextchunk + 1].offset > 0
              /\ d.sample = d.chunkinfo[d.nextchunk + 1].sample
NextChunk == d.chunkinfo[d.nextchunk + 1].offset

\* Why a sample that should be there is not: the way to the first chunk was
\* left for the next call, or less than a sample is there.
Missed(k, view) ==
  IF d.consume > 0 THEN "jump"
  ELSE IF k > 0 /\ File.lens[k] > view THEN "frame" ELSE missed

\* `sample` counts as long as there is a next chunk.
Counted == IF d.chunkinfo # <<>> /\ d.chunkinfo[d.nextchunk + 1].offset > 0
           THEN [d EXCEPT !.sample = @ + 1] ELSE d

\* To the next chunk, now or as its bytes come.
Jumped(e) ==
  LET skip == NextChunk - e.pos
  IN  IF Used >= skip THEN [e EXCEPT !.pos = @ + skip, !.nextchunk = @ + 1]
      ELSE [e EXCEPT !.consume = skip, !.nextchunk = @ + 1]

\* The sample is written when the call does not end the stream: what the
\* encoder added is cut off.
Writes(e, frames) ==
  IF frames = <<>> THEN /\ d' = [e EXCEPT !.empty = TRUE]
                        /\ UNCHANGED heard
  ELSE /\ d' = Trimmed(e, frames).e
       /\ heard' = heard \o Trimmed(e, frames).frames

\* faad_decode, from NeAACDecDecode on.
FaadFrame ==
  /\ call.at = "frame" /\ File.codec = "faad"
  /\ LET k   == SampleAt(stream.read)
         ok  == Decodes(k, InView)
         got == IF ok THEN Frames(k) ELSE <<>>
     IN /\ missed' = IF ok THEN missed ELSE Missed(k, InView)
        /\ \/ /\ AtChunkEnd /\ NextChunk > d.pos
              /\ Writes(Jumped(Counted), got)
              /\ stream' = IF Used >= NextChunk - d.pos THEN Read(stream, NextChunk - d.pos)
                           ELSE stream
           \/ /\ ~AtChunkEnd /\ ok
              /\ Writes([Counted EXCEPT !.pos = @ + File.lens[k]], got)
              /\ stream' = Read(stream, File.lens[k])
           \/ /\ IF AtChunkEnd THEN NextChunk <= d.pos ELSE ~ok
              /\ d' = [Counted EXCEPT !.state = "ERROR"]
              /\ UNCHANGED <<stream, heard>>
  /\ call' = Out
  /\ UNCHANGED track

-----------------------------------------------------------------------------
\* alac_decode, from the size of the next block on: stsz tells it.

Block == IF d.block_index \in DOMAIN d.block_size THEN d.block_size[d.block_index] ELSE 0

AlacEnds ==
  /\ call.at = "frame" /\ File.codec = "alac"
  /\ stream.over /\ (Used = 0 \/ Block = 0)
  /\ d' = [d EXCEPT !.state = "COMPLETE"]
  /\ call' = Out
  /\ UNCHANGED <<track, stream, heard, missed>>

\* The rest of a block that was cut off never comes.
AlacWaits ==
  /\ call.at = "frame" /\ File.codec = "alac"
  /\ Used < Block /\ ~(stream.over /\ Used = 0)
  /\ call' = Out
  /\ missed' = IF stream.over THEN "tail" ELSE missed
  /\ UNCHANGED <<track, stream, d, heard>>

AlacFrame ==
  /\ call.at = "frame" /\ File.codec = "alac"
  /\ Used >= Block /\ ~(stream.over /\ (Used = 0 \/ Block = 0))
  /\ LET k    == SampleAt(stream.read)
         ok   == Decodes(k, Block)
         next == [Counted EXCEPT !.block_index = IF Block > 0 THEN @ + 1 ELSE @]
     IN /\ missed' = IF ok THEN missed ELSE Missed(0, Block)
        /\ \/ /\ ok /\ AtChunkEnd /\ NextChunk > d.pos
              /\ Writes(Jumped(next), Frames(k))
              /\ stream' = IF Used >= NextChunk - d.pos THEN Read(stream, NextChunk - d.pos)
                           ELSE stream
           \/ /\ ok /\ ~AtChunkEnd
              /\ Writes([next EXCEPT !.pos = @ + Block], Frames(k))
              /\ stream' = Read(stream, Block)
           \/ /\ ~ok \/ (AtChunkEnd /\ NextChunk <= d.pos)
              /\ d' = [(IF ok THEN next ELSE d) EXCEPT !.state = "ERROR"]
              /\ UNCHANGED <<stream, heard>>
  /\ call' = Out
  /\ UNCHANGED track

-----------------------------------------------------------------------------
Header == \/ HeaderWaits \/ TakesBox \/ TakesPart \/ BoxTooLarge \/ WaitsForBox
          \/ FindsMedia \/ FindsNothing

Decoder == \/ Completes \/ Consumes \/ Enters \/ Header
           \/ FaadFrame \/ AlacEnds \/ AlacWaits \/ AlacFrame

Next == Receive \/ StreamEnds \/ Open \/ Decoder

\* decode_thread may call again and again while it waits; stream_thread gets
\* LOCK_S between two calls in the end, and has bytes in the end or is told
\* that there are no more.
Fairness == SF_vars(Receive) /\ SF_vars(StreamEnds) /\ WF_vars(Decoder)

Spec == Init /\ [][Next]_vars /\ Fairness

-----------------------------------------------------------------------------
(* Properties                                                              *)

\* The position the chunk table is compared with is the position in the file.
PosIsTrue == d.pos = stream.read

\* The frames of the track, in the file.
Track == [i \in 1..(File.last - File.first + 1) |-> File.first + i - 1]

\* Whatever pieces the header and the samples come in, what is written is the
\* start of the track: no frame of the encoder's, none lost, none of another
\* chunk; and all of it when a stream that was not cut is decoded.  `missed`
\* names the places where the code does not keep that.
HeardIsTrack ==
  missed = "nothing" =>
    /\ IsPrefix(heard, Track)
    /\ stream.received = File.length =>
         (d.state = "COMPLETE" => heard = Track) /\ d.state # "ERROR"

Mp4OK == TypeOK /\ PosIsTrue /\ HeardIsTrack

\* A track opened is decoded to its end, also when the stream is cut.
DecodingEnds == d.state = "RUNNING" ~> (d.state # "RUNNING" \/ missed # "nothing")

\* faad.c: "consume rest of box if it has been parsed (all in the buffer)".
BoxesAreParsed == missed # "box"
=============================================================================
