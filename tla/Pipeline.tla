------------------------------ MODULE Pipeline ------------------------------
(***************************************************************************)
(* The way of the audio through a player, outside flow mode: stream_thread *)
(* fills streambuf, decode_thread (decode.c, with process.c and resample.c *)
(* when it resamples) moves it to outputbuf, and the output thread of the  *)
(* track pulls it from there; slimproto opens, flushes and ends tracks.    *)
(*                                                                         *)
(* A frame is <<track, number>>; decoding and resampling keep it.  The     *)
(* buffers are sequences: Buffer shows that they are queues.               *)
(***************************************************************************)
EXTENDS Naturals, Sequences

CONSTANTS Tracks,      \* how many tracks LMS has
          Length,      \* the most frames a track may have
          StreamSize,  \* what streambuf holds
          OutputSize,  \* what outputbuf holds
          MinSpace,    \* free frames of outputbuf the codec asks for
          MaxOut,      \* process.max_out_frames
          Latency,     \* the most frames the resampler keeps back
          Resampling,  \* may tracks be resampled
          MaxUpsets    \* bound on flushes and decoding errors

ASSUME PipelineAssumption ==
  /\ Tracks \in Nat /\ Length \in Nat /\ StreamSize \in Nat \ {0}
  /\ OutputSize \in Nat /\ MinSpace \in Nat /\ MaxOut \in Nat \ {0}
  /\ MinSpace < OutputSize /\ MaxOut < OutputSize
  /\ Latency \in Nat /\ Resampling \subseteq BOOLEAN /\ MaxUpsets \in Nat

VARIABLES
  stream,     \* the stream: its state, its track, how many frames came
  streambuf,
  decode,     \* decode_thread, which has LOCK_D unless it is out of it
  process,    \* the resampler: what it keeps, and what it gave
  outputbuf,
  output,     \* outputstate: index, completed, state, and whether track_start is set
  threads,    \* the output thread of each track
  slim,       \* where slimproto is, and its local flushed; history: upsets, and the
              \* last track it flushed and whose stream it closed
  heard       \* history: what each output thread pulled

vars == <<stream, streambuf, decode, process, outputbuf, output, threads, slim, heard>>

Frame == (1..Tracks) \X (1..Length)
Out == {"idle", "sampled"}     \* decode_thread is out of LOCK_D

StreamType == [state : {"STREAMING", "DISCONNECT", "FAILED", "STOPPED"},
               track : 0..Tracks, sent : 0..Length]

DecodeType == [at : Out \cup {"process", "write", "drain"},
               state : {"STOPPED", "READY", "RUNNING", "COMPLETE", "ERROR"},
               new_stream : BOOLEAN, direct : BOOLEAN, bytes : BOOLEAN, toend : BOOLEAN,
               space : 0..OutputSize]

ProcessType == [in : Seq(Frame), kept : Seq(Frame), out : Seq(Frame)]

OutputType == [index : 0..Tracks, completed : BOOLEAN, running : BOOLEAN, started : BOOLEAN]

SlimType == [at : {"wait", "q1", "q2", "q3", "f1", "f2", "f3", "s1", "s2", "s3"},
             keep : BOOLEAN, upsets : 0..MaxUpsets, next : {"none", "s"}, flushed : 0..Tracks]

TypeOK ==
  /\ stream \in StreamType /\ decode \in DecodeType /\ process \in ProcessType
  /\ output \in OutputType /\ slim \in SlimType
  /\ streambuf \in Seq(Frame) /\ Len(streambuf) <= StreamSize
  /\ outputbuf \in Seq(Frame) /\ Len(outputbuf) <= OutputSize
  /\ Len(process.kept) <= Latency
  /\ threads \in [1..Tracks -> {"none", "serving", "drained"}]
  /\ heard \in [1..Tracks -> Seq(Frame)]

Idle == [in |-> <<>>, kept |-> <<>>, out |-> <<>>]

\* LMS sends its first strm s.
Init ==
  /\ stream = [state |-> "STOPPED", track |-> 0, sent |-> 0]
  /\ streambuf = <<>> /\ outputbuf = <<>>
  /\ decode = [at |-> "idle", state |-> "STOPPED", new_stream |-> TRUE, direct |-> TRUE,
               bytes |-> FALSE, toend |-> FALSE, space |-> 0]
  /\ process = Idle
  /\ output = [index |-> 0, completed |-> FALSE, running |-> FALSE, started |-> FALSE]
  /\ threads = [t \in 1..Tracks |-> "none"]
  /\ slim = [at |-> "wait", keep |-> FALSE, upsets |-> 0, next |-> "s", flushed |-> 0]
  /\ heard = [t \in 1..Tracks |-> <<>>]

LockD == decode.at \in Out
Ended == stream.state # "STREAMING"
Space == OutputSize - Len(outputbuf)

-----------------------------------------------------------------------------
\* stream_thread.

Receive ==
  /\ stream.state = "STREAMING" /\ stream.sent < Length
  /\ Len(streambuf) < StreamSize
  /\ stream' = [stream EXCEPT !.sent = @ + 1]
  /\ streambuf' = Append(streambuf, <<stream.track, stream.sent + 1>>)
  /\ UNCHANGED <<decode, process, outputbuf, output, threads, slim, heard>>

\* The server closes, or fails: DISCONNECT with or without DISCONNECT_OK.
StreamEnds ==
  /\ stream.state = "STREAMING"
  /\ \E how \in {"DISCONNECT", "FAILED"} : stream' = [stream EXCEPT !.state = how]
  /\ UNCHANGED <<streambuf, decode, process, outputbuf, output, threads, slim, heard>>

-----------------------------------------------------------------------------
\* decode_thread.

\* Under LOCK_S, then LOCK_O; what it sees is used later, under LOCK_D.
Sample ==
  /\ decode.at = "idle"
  /\ decode' = [decode EXCEPT !.at = "sampled", !.bytes = streambuf # <<>>,
                              !.toend = Ended, !.space = Space]
  /\ UNCHANGED <<stream, streambuf, process, outputbuf, output, threads, slim, heard>>

Needed == IF decode.direct THEN MinSpace ELSE MaxOut

MayDecode ==
  /\ decode.state = "RUNNING"
  /\ decode.space > Needed /\ (decode.bytes \/ decode.toend)

CannotDecode ==
  /\ decode.at = "sampled" /\ ~MayDecode
  /\ decode' = [decode EXCEPT !.at = "idle"]
  /\ UNCHANGED <<stream, streambuf, process, outputbuf, output, threads, slim, heard>>

\* A mutant: the track ends when the stream does.
DecodeCompletes_AtDisconnect ==
  /\ decode.at = "sampled" /\ MayDecode /\ Ended
  /\ decode' = [decode EXCEPT !.state = "COMPLETE", !.at = IF decode.direct THEN "idle" ELSE "drain"]
  /\ UNCHANGED <<stream, streambuf, process, outputbuf, output, threads, slim, heard>>

\* codec->decode ends the track.  When it resamples, the state is set before
\* the resampler is drained.
DecodeCompletes ==
  /\ decode.at = "sampled" /\ MayDecode
  /\ Ended /\ streambuf = <<>>
  /\ decode' = [decode EXCEPT !.state = "COMPLETE", !.at = IF decode.direct THEN "idle" ELSE "drain"]
  /\ UNCHANGED <<stream, streambuf, process, outputbuf, output, threads, slim, heard>>

DecodeFails ==
  /\ decode.at = "sampled" /\ MayDecode
  /\ slim.upsets < MaxUpsets
  /\ decode' = [decode EXCEPT !.state = "ERROR", !.at = "idle"]
  /\ slim' = [slim EXCEPT !.upsets = @ + 1]
  /\ UNCHANGED <<stream, streambuf, process, outputbuf, output, threads, heard>>

\* Some frames, to outputbuf or to the resampler; decode_newstream decides
\* which at the first of a track, and makes a new resampler.
Decode ==
  /\ decode.at = "sampled" /\ MayDecode /\ ~(Ended /\ streambuf = <<>>)
  /\ \E active \in IF decode.new_stream THEN Resampling ELSE {~decode.direct} :
     \E n \in (IF streambuf = <<>> THEN 0 ELSE 1)..Len(streambuf) :
       LET frames == SubSeq(streambuf, 1, n) IN
       /\ n <= IF active THEN MaxOut ELSE Space
       /\ streambuf' = SubSeq(streambuf, n + 1, Len(streambuf))
       /\ outputbuf' = IF active THEN outputbuf ELSE outputbuf \o frames
       /\ process' = IF ~active THEN process
                     ELSE [process EXCEPT !.in = frames,
                                          !.kept = IF decode.new_stream THEN <<>> ELSE @]
       /\ decode' = [decode EXCEPT !.new_stream = FALSE, !.direct = ~active,
                                   !.at = IF active /\ n > 0 THEN "process" ELSE "idle"]
       /\ output' = [output EXCEPT !.started = @ \/ decode.new_stream]
  /\ UNCHANGED <<stream, threads, slim, heard>>

\* resample_samples: the resampler gives what it likes and keeps the rest.
Resample ==
  /\ decode.at = "process"
  /\ LET all == process.kept \o process.in
     IN \E n \in 0..Len(all) :
          /\ n <= MaxOut /\ Len(all) - n <= Latency
          /\ process' = [process EXCEPT !.in = <<>>, !.out = SubSeq(all, 1, n),
                                        !.kept = SubSeq(all, n + 1, Len(all))]
  /\ decode' = [decode EXCEPT !.at = "write"]
  /\ UNCHANGED <<stream, streambuf, outputbuf, output, threads, slim, heard>>

\* Where _write_samples returns to.
Written == IF decode.state = "COMPLETE" THEN "drain" ELSE "idle"

\* A mutant: the read pointer stays.
WriteSamples_Repeats ==
  /\ decode.at = "write"
  /\ process.out # <<>> => Space > 0
  /\ LET n == IF Len(process.out) <= Space THEN Len(process.out) ELSE Space
     IN /\ outputbuf' = outputbuf \o SubSeq(process.out, 1, n)
        /\ process' = [process EXCEPT !.out = SubSeq(@, 1, Len(@) - n)]
        /\ decode' = [decode EXCEPT !.at = IF n = Len(process.out) THEN Written ELSE @]
  /\ UNCHANGED <<stream, streambuf, output, threads, slim, heard>>

\* _write_samples, one turn of its loop.
WriteSamples ==
  /\ decode.at = "write"
  /\ process.out # <<>> => Space > 0
  /\ LET n == IF Len(process.out) <= Space THEN Len(process.out) ELSE Space
     IN /\ outputbuf' = outputbuf \o SubSeq(process.out, 1, n)
        /\ process' = [process EXCEPT !.out = SubSeq(@, n + 1, Len(@))]
        /\ decode' = [decode EXCEPT !.at = IF n = Len(process.out) THEN Written ELSE @]
  /\ UNCHANGED <<stream, streambuf, output, threads, slim, heard>>

\* A mutant: the wait for space has no end.
WriteGivesUp_Never == FALSE /\ UNCHANGED vars

\* After 100 ms without space the rest of the block is dropped.
WriteGivesUp ==
  /\ decode.at = "write" /\ process.out # <<>> /\ Space = 0
  /\ process' = [process EXCEPT !.out = <<>>]
  /\ decode' = [decode EXCEPT !.at = Written]
  /\ UNCHANGED <<stream, streambuf, outputbuf, output, threads, slim, heard>>

\* process_drain: blocks of what the resampler has left, until it has none.
Drain ==
  /\ decode.at = "drain"
  /\ IF process.kept = <<>>
     THEN /\ process' = Idle
          /\ decode' = [decode EXCEPT !.at = "idle"]
     ELSE /\ \E n \in 1..Len(process.kept) :
               n <= MaxOut /\
               process' = [process EXCEPT !.out = SubSeq(process.kept, 1, n),
                                          !.kept = SubSeq(@, n + 1, Len(@))]
          /\ decode' = [decode EXCEPT !.at = "write"]
  /\ UNCHANGED <<stream, streambuf, outputbuf, output, threads, slim, heard>>

-----------------------------------------------------------------------------
\* The output thread of a track, under LOCK_O.

\* _output_fill pulls something.  track_start is forgotten where audio is
\* processed, and kept where it is passed through.
Pull(t) ==
  /\ threads[t] = "serving" /\ output.running /\ outputbuf # <<>>
  /\ \E kept \in BOOLEAN : output' = [output EXCEPT !.started = @ /\ kept]
  /\ \E n \in 1..Len(outputbuf) :
       /\ heard' = [heard EXCEPT ![t] = @ \o SubSeq(outputbuf, 1, n)]
       /\ outputbuf' = SubSeq(outputbuf, n + 1, Len(outputbuf))
  /\ UNCHANGED <<stream, streambuf, decode, process, threads, slim>>

\* It pulls nothing: is the decoder done?  That is read without LOCK_D.
PullsNothing(t) ==
  /\ threads[t] = "serving" /\ output.running /\ outputbuf = <<>>
  /\ decode.state \in {"COMPLETE", "ERROR"}
  /\ threads' = [threads EXCEPT ![t] = "drained"]
  /\ output' = [output EXCEPT !.completed = TRUE]
  /\ UNCHANGED <<stream, streambuf, decode, process, outputbuf, slim, heard>>

-----------------------------------------------------------------------------
\* slimproto.

\* A round: the decoder may start, once streambuf has enough.
RoundStarts ==
  /\ slim.at = "wait" /\ LockD
  /\ decode.state = "READY" /\ stream.state \in {"STREAMING", "DISCONNECT"}
  /\ decode' = [decode EXCEPT !.state = "RUNNING"]
  /\ output' = [output EXCEPT !.running = TRUE]
  /\ UNCHANGED <<stream, streambuf, process, outputbuf, threads, slim, heard>>

\* A round: STMd, or STMn, to which LMS answers with the next track or not.
RoundEnds ==
  /\ slim.at = "wait" /\ LockD /\ slim.next = "none"
  /\ decode.state = "ERROR" \/ (decode.state = "COMPLETE" /\ output.completed)
  /\ decode' = [decode EXCEPT !.state = "STOPPED"]
  /\ stream' = [stream EXCEPT !.state = IF @ = "STREAMING" THEN "STOPPED" ELSE @]
  /\ slim' = IF output.index = Tracks THEN slim
             ELSE IF decode.state = "ERROR" THEN [slim EXCEPT !.at = "q1", !.next = "s"]
             ELSE [slim EXCEPT !.next = "s"]
  /\ UNCHANGED <<streambuf, process, outputbuf, output, threads, heard>>

\* The user skips or takes the next track back: strm q or f, and then strm s.
Upset(command) ==
  /\ slim.at = "wait" /\ slim.upsets < MaxUpsets /\ output.index \in 1..Tracks - 1
  /\ slim.next = "none"
  /\ slim' = [slim EXCEPT !.at = command, !.upsets = @ + 1, !.next = "s"]
  /\ UNCHANGED <<stream, streambuf, decode, process, outputbuf, output, threads, heard>>

\* A mutant: the decoder goes on.
DecodeFlush_Running ==
  /\ slim.at \in {"q1", "f1"} /\ LockD
  /\ process' = IF decode.direct THEN process ELSE [process EXCEPT !.in = <<>>, !.kept = <<>>]
  /\ slim' = [slim EXCEPT !.at = IF @ = "q1" THEN "q2" ELSE "f2"]
  /\ UNCHANGED <<stream, streambuf, decode, outputbuf, output, threads, heard>>

\* decode_flush, output_flush, stream_disconnect and buf_flush, in this order.
DecodeFlush ==
  /\ slim.at \in {"q1", "f1"} /\ LockD
  /\ decode' = [decode EXCEPT !.state = "STOPPED"]
  /\ process' = IF decode.direct THEN process ELSE [process EXCEPT !.in = <<>>, !.kept = <<>>]
  /\ slim' = [slim EXCEPT !.at = IF @ = "q1" THEN "q2" ELSE "f2"]
  /\ UNCHANGED <<stream, streambuf, outputbuf, output, threads, heard>>

\* The threads that are joined: all, or those that do not linger, which a
\* drained one may or may not do.
OutputFlush ==
  /\ slim.at \in {"q2", "f2"}
  /\ \E gone \in SUBSET {t \in 1..Tracks : threads[t] # "none"} :
       /\ \A t \in 1..Tracks : threads[t] = "serving" \/ (slim.at = "q2" /\ threads[t] = "drained")
                               => t \in gone
       /\ threads' = [t \in 1..Tracks |-> IF t \in gone THEN "none" ELSE threads[t]]
  /\ outputbuf' = <<>>
  /\ output' = IF slim.at = "q2" THEN [output EXCEPT !.started = FALSE, !.running = FALSE]
                                 ELSE [output EXCEPT !.started = FALSE, !.completed = TRUE]
  /\ slim' = [slim EXCEPT !.at = IF @ = "q2" THEN "q3" ELSE "f3",
                          !.keep = slim.at = "f2" /\ output.started]
  /\ UNCHANGED <<stream, streambuf, decode, process, heard>>

\* strm f leaves the stream connected when output_flush found a track_start.
StreamFlush ==
  /\ slim.at \in {"q3", "f3"}
  /\ IF slim.keep
     THEN /\ slim' = [slim EXCEPT !.at = "wait"]
          /\ UNCHANGED stream
     ELSE /\ slim' = [slim EXCEPT !.at = "wait", !.flushed = output.index]
          /\ stream' = [stream EXCEPT !.state = "STOPPED"]
  /\ streambuf' = <<>>
  /\ UNCHANGED <<decode, process, outputbuf, output, threads, heard>>

\* strm s: process_start up to codec_open; codec_open and output_start;
\* stream_sock.
Start ==
  /\ slim.at = "wait" /\ slim.next = "s" /\ output.index < Tracks
  /\ output' = [output EXCEPT !.index = @ + 1, !.completed = FALSE]
  /\ slim' = [slim EXCEPT !.at = "s1", !.next = "none"]
  /\ UNCHANGED <<stream, streambuf, decode, process, outputbuf, threads, heard>>

CodecOpen ==
  /\ slim.at = "s1" /\ LockD
  /\ decode' = [decode EXCEPT !.new_stream = TRUE, !.state = "READY", !.direct = TRUE]
  /\ threads' = [threads EXCEPT ![output.index] = "serving"]
  /\ slim' = [slim EXCEPT !.at = "s2"]
  /\ UNCHANGED <<stream, streambuf, process, outputbuf, output, heard>>

SockOpens ==
  /\ slim.at = "s2"
  /\ streambuf' = <<>>
  /\ slim' = [slim EXCEPT !.at = "s3"]
  /\ UNCHANGED <<stream, decode, process, outputbuf, output, threads, heard>>

SockFails ==
  /\ slim.at = "s2" /\ slim.upsets < MaxUpsets
  /\ stream' = [stream EXCEPT !.state = "FAILED"]
  /\ slim' = [slim EXCEPT !.at = "wait", !.upsets = @ + 1]
  /\ UNCHANGED <<streambuf, decode, process, outputbuf, output, threads, heard>>

StreamSock ==
  /\ slim.at = "s3"
  /\ stream' = [state |-> "STREAMING", track |-> output.index, sent |-> 0]
  /\ slim' = [slim EXCEPT !.at = "wait"]
  /\ UNCHANGED <<streambuf, decode, process, outputbuf, output, threads, heard>>

-----------------------------------------------------------------------------
Streams == Receive \/ StreamEnds
Decodes == \/ Sample \/ CannotDecode \/ DecodeCompletes \/ Decode \/ Resample
           \/ WriteSamples \/ Drain
Rounds == RoundStarts \/ RoundEnds
Commands == DecodeFlush \/ OutputFlush \/ StreamFlush \/ Start \/ CodecOpen
            \/ SockOpens \/ StreamSock

Next ==
  \/ Streams \/ Decodes \/ DecodeFails \/ SockFails \/ WriteGivesUp \/ Rounds \/ Commands
  \/ \E t \in 1..Tracks : Pull(t) \/ PullsNothing(t)
  \/ \E command \in {"q1", "f1"} : Upset(command)

\* The server closes in the end, the threads run, LOCK_D is given to slimproto,
\* and the device reads.
Fairness ==
  /\ WF_vars(StreamEnds) /\ WF_vars(Decodes) /\ WF_vars(WriteGivesUp)
  /\ SF_vars(Rounds) /\ SF_vars(Commands)
  /\ \A t \in 1..Tracks : WF_vars(Pull(t) \/ PullsNothing(t))

Spec == Init /\ [][Next]_vars /\ Fairness

-----------------------------------------------------------------------------
Before(f, g) == f[1] < g[1] \/ (f[1] = g[1] /\ f[2] < g[2])

\* What the threads pull, in the order of their tracks, is in the order of the
\* streams: nothing is repeated or overtaken on the way.
InOrder ==
  \A t, u \in 1..Tracks : \A i \in 1..Len(heard[t]), j \in 1..Len(heard[u]) :
    t < u \/ (t = u /\ i < j) => Before(heard[t][i], heard[u][j])

\* The buffers keep within their sizes, and their frames in order.
BuffersOK == TypeOK /\ InOrder

\* Once a track is flushed and its stream closed none of its frames comes to
\* outputbuf, whatever the decoder and the stream were doing (process_strm: the
\* order of the flushes).
FlushForgets ==
  \A i \in 1..Len(outputbuf) : outputbuf[i][1] > slim.flushed

\* A track that is not resampled is drained when all of it has been pulled.
EndIsWhole ==
  [][\A t \in 1..Tracks :
       threads[t] = "serving" /\ threads'[t] = "drained"
       /\ decode.direct /\ decode.state = "COMPLETE"
       => \A k \in 1..stream.sent : \E i \in 1..Len(heard[t]) : heard[t][i] = <<t, k>>]_vars

\* A decoder ends, also when the device does not read for a while, the stream
\* breaks or a command comes.
DecoderEnds == decode.state = "RUNNING" ~> decode.state = "STOPPED"

\* A thread pulls the frames of its own track alone: "2 different tracks will
\* never co-exist in outpufbuf" (output_http.c:283).
NeverCoexist ==
  \A t \in 1..Tracks : \A i \in 1..Len(heard[t]) : heard[t][i][1] = t

\* Between commands nothing is received of a track that was flushed: "we stop the
\* streaming process" (output.c:716).
FlushStopsStream ==
  slim.at = "wait" /\ slim.keep /\ slim.next = "s" => stream.state # "STREAMING"
=============================================================================
