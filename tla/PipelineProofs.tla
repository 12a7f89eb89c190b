--------------------------- MODULE PipelineProofs ---------------------------
(***************************************************************************)
(* Proofs about Pipeline, for every number of tracks, their length, and    *)
(* every size of the buffers: no frame is repeated or overtaken on its way,*)
(* a flushed track is forgotten, and a track that is not resampled ends    *)
(* when all of it has been pulled.                                         *)
(***************************************************************************)
EXTENDS Pipeline, SequenceTheorems, TLAPS

Increasing(s) == \A i, j \in 1..Len(s) : i < j => Before(s[i], s[j])
AllBefore(s, u) == \A i \in 1..Len(s), j \in 1..Len(u) : Before(s[i], u[j])
AllBelow(s, f) == \A i \in 1..Len(s) : Before(s[i], f)
AllAfter(s, t) == \A i \in 1..Len(s) : s[i][1] > t
Has(s, f) == \E i \in 1..Len(s) : s[i] = f

\* The frames that decode_thread has taken and not yet given, and all that are
\* on the way from the server to an output thread.
Held == IF decode.direct THEN <<>> ELSE process.out \o (process.kept \o process.in)
Line == outputbuf \o (Held \o streambuf)

\* The frame that would come next from the server.
NextFrame == <<stream.track, stream.sent + 1>>

\* Where decode_thread is says what it holds.
Places ==
  /\ decode.at # "process" => process.in = <<>>
  /\ decode.at # "write" => process.out = <<>>
  /\ ~LockD => ~decode.direct
  /\ decode.new_stream => decode.direct
  /\ decode.at = "process" => decode.state = "RUNNING"

\* What a command of slimproto has done so far stays done until its end, and a
\* strm s finds the decoder stopped.
Commanded ==
  /\ slim.at \in {"q2", "q3", "f2", "f3"} => decode.state = "STOPPED" /\ LockD /\ Held = <<>>
  /\ slim.at \in {"q3", "f3"} => outputbuf = <<>>
  /\ slim.at = "s1" \/ (slim.at = "wait" /\ slim.next = "s") => decode.state = "STOPPED"
  /\ slim.at \in {"s2", "s3"} => decode.state = "READY"
  /\ slim.at \in {"s1", "s2", "s3"} =>
       slim.next = "none" /\ stream.track < output.index /\ slim.flushed < output.index
  /\ slim.flushed <= output.index /\ stream.track <= output.index
  /\ stream.state = "STREAMING" => stream.track > slim.flushed

\* One thread serves, that of the last track, and a track that has not come has
\* no thread.
Served ==
  /\ \A t \in 1..Tracks : threads[t] = "serving" => t = output.index
  /\ (\E t \in 1..Tracks : threads[t] = "serving") =>
       /\ ~output.completed /\ slim.at \notin {"q3", "f3", "s1"}
       /\ ~(slim.at = "wait" /\ slim.next = "s")
  /\ slim.at = "s1" => ~output.completed
  /\ \A t \in 1..Tracks : t > output.index \/ (t = output.index /\ slim.at = "s1")
                          => threads[t] = "none" /\ heard[t] = <<>>

\* A decoder that runs has the stream of the last track, and one that completed
\* has taken all of it.
FromSource ==
  /\ decode.state \in {"RUNNING", "COMPLETE", "ERROR"} => stream.track = output.index
  /\ decode.state = "READY" /\ slim.at = "wait" /\ stream.state \in {"STREAMING", "DISCONNECT"}
       => stream.track = output.index
  /\ decode.state = "COMPLETE" => Ended /\ streambuf = <<>>

\* Where the threads are, and what each may count on there.
Control == Places /\ Commanded /\ Served /\ FromSource

\* What was pulled, and behind it what is on the way, is in the order of the
\* streams.
Ordered ==
  /\ Increasing(Line) /\ AllBelow(Line, NextFrame)
  /\ \A t \in 1..Tracks : /\ Increasing(heard[t]) /\ AllBefore(heard[t], Line)
                          /\ AllBelow(heard[t], NextFrame)
  /\ \A t, u \in 1..Tracks : t < u => AllBefore(heard[t], heard[u])

Forgotten == AllAfter(Line, slim.flushed)

\* While a track that is not resampled lasts, each frame that came of it is
\* somewhere.
Kept ==
  decode.direct /\ decode.state \in {"READY", "RUNNING", "COMPLETE"} /\ stream.track = output.index
  => \A k \in 1..stream.sent :
       \/ Has(heard[output.index], <<output.index, k>>)
       \/ Has(outputbuf, <<output.index, k>>)
       \/ Has(streambuf, <<output.index, k>>)

\* The inductive invariant.
IInv == TypeOK /\ Control /\ Ordered /\ Forgotten /\ Kept

\* A step that loses a block of what is on the way, or nothing.
Shortens == \E a, b, c \in Seq(Frame) : Line = a \o (b \o c) /\ Line' = a \o c

-----------------------------------------------------------------------------
(* Sequences of frames.                                                    *)

LEMMA BoundsAreNat ==
  /\ Tracks \in Nat /\ Length \in Nat /\ OutputSize \in Nat /\ MaxUpsets \in Nat
  /\ StreamSize \in Nat /\ MinSpace \in Nat /\ MaxOut \in Nat /\ Latency \in Nat
BY PipelineAssumption

\* A sequence is what it begins with, and the rest.
LEMMA Split ==
  ASSUME NEW s \in Seq(Frame), NEW n \in 0..Len(s)
  PROVE  /\ SubSeq(s, 1, n) \in Seq(Frame) /\ SubSeq(s, n + 1, Len(s)) \in Seq(Frame)
         /\ SubSeq(s, 1, n) \o SubSeq(s, n + 1, Len(s)) = s
         /\ Len(SubSeq(s, 1, n)) = n /\ Len(SubSeq(s, n + 1, Len(s))) = Len(s) - n
<1>1. Len(s) \in Nat /\ \A i \in 1..Len(s) : s[i] \in Frame
  BY ElementOfSeq, LenProperties
<1>2. SubSeq(s, 1, n) \in Seq(Frame) /\ Len(SubSeq(s, 1, n)) = n
  <2> DEFINE m == 1
  <2>1. m \in Int /\ n \in Int /\ \A i \in m..n : s[i] \in Frame
    BY <1>1
  <2> QED BY <1>1, <2>1, SubSeqProperties
<1>3. SubSeq(s, n + 1, Len(s)) \in Seq(Frame) /\ Len(SubSeq(s, n + 1, Len(s))) = Len(s) - n
  <2>1. n + 1 \in Int /\ Len(s) \in Int /\ \A i \in n + 1..Len(s) : s[i] \in Frame
    BY <1>1
  <2> QED BY <1>1, <2>1, SubSeqProperties
<1>4. SubSeq(s, 1, n) \o SubSeq(s, n + 1, Len(s)) = SubSeq(s, 1, Len(s))
  <2>1. 1 \in 1..Len(s) + 1 /\ n \in 1 - 1..Len(s) /\ Len(s) \in n..Len(s)
    BY <1>1
  <2> QED BY <2>1, ConcatAdjacentSubSeq
<1> QED BY <1>2, <1>3, <1>4, SubSeqFull

\* What holds of the frames of two sequences holds of those of both together.
LEMMA AllBelowBoth ==
  ASSUME NEW s \in Seq(Frame), NEW u \in Seq(Frame), NEW f
  PROVE  AllBelow(s \o u, f) <=> AllBelow(s, f) /\ AllBelow(u, f)
<1>1. Len(s) \in Nat /\ Len(u) \in Nat
  BY LenProperties
<1>2. ASSUME AllBelow(s \o u, f) PROVE AllBelow(s, f)
  BY <1>1, <1>2, ConcatProperties DEF AllBelow
<1>3. ASSUME AllBelow(s \o u, f), NEW i \in 1..Len(u) PROVE Before(u[i], f)
  <2>1. Len(s) + i \in 1..Len(s \o u) /\ (s \o u)[Len(s) + i] = u[i]
    BY <1>1, ConcatProperties
  <2> QED BY <1>3, <2>1 DEF AllBelow
<1>4. ASSUME AllBelow(s, f), AllBelow(u, f) PROVE AllBelow(s \o u, f)
  BY <1>1, <1>4, ConcatProperties DEF AllBelow
<1> QED BY <1>2, <1>3, <1>4 DEF AllBelow

LEMMA AllAfterBoth ==
  ASSUME NEW s \in Seq(Frame), NEW u \in Seq(Frame), NEW t
  PROVE  AllAfter(s \o u, t) <=> AllAfter(s, t) /\ AllAfter(u, t)
<1>1. Len(s) \in Nat /\ Len(u) \in Nat
  BY LenProperties
<1>2. ASSUME AllAfter(s \o u, t) PROVE AllAfter(s, t)
  BY <1>1, <1>2, ConcatProperties DEF AllAfter
<1>3. ASSUME AllAfter(s \o u, t), NEW i \in 1..Len(u) PROVE u[i][1] > t
  <2>1. Len(s) + i \in 1..Len(s \o u) /\ (s \o u)[Len(s) + i] = u[i]
    BY <1>1, ConcatProperties
  <2> QED BY <1>3, <2>1 DEF AllAfter
<1>4. ASSUME AllAfter(s, t), AllAfter(u, t) PROVE AllAfter(s \o u, t)
  BY <1>1, <1>4, ConcatProperties DEF AllAfter
<1> QED BY <1>2, <1>3, <1>4 DEF AllAfter

LEMMA HasBoth ==
  ASSUME NEW s \in Seq(Frame), NEW u \in Seq(Frame), NEW f
  PROVE  Has(s \o u, f) <=> Has(s, f) \/ Has(u, f)
<1>1. Len(s) \in Nat /\ Len(u) \in Nat
  BY LenProperties
<1>2. ASSUME Has(s, f) PROVE Has(s \o u, f)
  BY <1>1, <1>2, ConcatProperties DEF Has
<1>3. ASSUME NEW i \in 1..Len(u), u[i] = f PROVE Has(s \o u, f)
  <2>1. Len(s) + i \in 1..Len(s \o u) /\ (s \o u)[Len(s) + i] = u[i]
    BY <1>1, ConcatProperties
  <2> QED BY <1>3, <2>1 DEF Has
<1>4. ASSUME Has(s \o u, f) PROVE Has(s, f) \/ Has(u, f)
  <2>1. PICK i \in 1..Len(s \o u) : (s \o u)[i] = f
    BY <1>4 DEF Has
  <2>2. CASE i <= Len(s)
    <3>1. i \in 1..Len(s) /\ s[i] = f
      BY <1>1, <2>1, <2>2, ConcatProperties
    <3> QED BY <3>1 DEF Has
  <2>3. CASE ~(i <= Len(s))
    <3>1. i - Len(s) \in 1..Len(u) /\ u[i - Len(s)] = f
      BY <1>1, <2>1, <2>3, ConcatProperties
    <3> QED BY <3>1 DEF Has
  <2> QED BY <2>2, <2>3
<1> QED BY <1>2, <1>3, <1>4 DEF Has

LEMMA AllBeforeBoth ==
  ASSUME NEW s \in Seq(Frame), NEW u \in Seq(Frame), NEW w \in Seq(Frame)
  PROVE  /\ AllBefore(s \o u, w) <=> AllBefore(s, w) /\ AllBefore(u, w)
         /\ AllBefore(w, s \o u) <=> AllBefore(w, s) /\ AllBefore(w, u)
<1>1. Len(s) \in Nat /\ Len(u) \in Nat /\ Len(w) \in Nat
  BY LenProperties
<1>2. ASSUME AllBefore(s \o u, w) PROVE AllBefore(s, w)
  BY <1>1, <1>2, ConcatProperties DEF AllBefore
<1>3. ASSUME NEW i \in 1..Len(u)
      PROVE  Len(s) + i \in 1..Len(s \o u) /\ (s \o u)[Len(s) + i] = u[i]
  BY <1>1, ConcatProperties
<1>4. ASSUME AllBefore(s \o u, w) PROVE AllBefore(u, w)
  BY <1>3, <1>4 DEF AllBefore
<1>5. ASSUME AllBefore(s, w), AllBefore(u, w), NEW i \in 1..Len(s \o u), NEW j \in 1..Len(w)
      PROVE  Before((s \o u)[i], w[j])
  <2>1. IF i <= Len(s) THEN i \in 1..Len(s) /\ (s \o u)[i] = s[i]
        ELSE i - Len(s) \in 1..Len(u) /\ (s \o u)[i] = u[i - Len(s)]
    BY <1>1, ConcatProperties
  <2> QED BY <1>5, <2>1 DEF AllBefore
<1>6. ASSUME AllBefore(w, s \o u) PROVE AllBefore(w, s)
  BY <1>1, <1>6, ConcatProperties DEF AllBefore
<1>7. ASSUME AllBefore(w, s \o u) PROVE AllBefore(w, u)
  BY <1>3, <1>7 DEF AllBefore
<1>8. ASSUME AllBefore(w, s), AllBefore(w, u), NEW i \in 1..Len(s \o u), NEW j \in 1..Len(w)
      PROVE  Before(w[j], (s \o u)[i])
  <2>1. IF i <= Len(s) THEN i \in 1..Len(s) /\ (s \o u)[i] = s[i]
        ELSE i - Len(s) \in 1..Len(u) /\ (s \o u)[i] = u[i - Len(s)]
    BY <1>1, ConcatProperties
  <2> QED BY <1>8, <2>1 DEF AllBefore
<1>9. AllBefore(s, w) /\ AllBefore(u, w) => AllBefore(s \o u, w)
  BY <1>5 DEF AllBefore
<1>10. AllBefore(w, s) /\ AllBefore(w, u) => AllBefore(w, s \o u)
  BY <1>8 DEF AllBefore
<1> QED BY <1>2, <1>4, <1>6, <1>7, <1>9, <1>10

LEMMA IncreasingBoth ==
  ASSUME NEW s \in Seq(Frame), NEW u \in Seq(Frame)
  PROVE  Increasing(s \o u) <=> Increasing(s) /\ Increasing(u) /\ AllBefore(s, u)
<1>1. Len(s) \in Nat /\ Len(u) \in Nat /\ Len(s \o u) = Len(s) + Len(u)
  BY LenProperties, ConcatProperties
<1>2. ASSUME NEW i \in 1..Len(u)
      PROVE  Len(s) + i \in 1..Len(s \o u) /\ (s \o u)[Len(s) + i] = u[i]
  BY <1>1, ConcatProperties
<1>3. ASSUME NEW i \in 1..Len(s)
      PROVE  i \in 1..Len(s \o u) /\ (s \o u)[i] = s[i]
  BY <1>1, ConcatProperties
<1>4. ASSUME Increasing(s \o u) PROVE Increasing(s)
  BY <1>3, <1>4 DEF Increasing
<1>5. ASSUME Increasing(s \o u), NEW i \in 1..Len(u), NEW j \in 1..Len(u), i < j
      PROVE  Before(u[i], u[j])
  <2>1. Len(s) + i < Len(s) + j
    BY <1>1, <1>5
  <2> QED BY <1>2, <1>5, <2>1 DEF Increasing
<1>6. ASSUME Increasing(s \o u), NEW i \in 1..Len(s), NEW j \in 1..Len(u)
      PROVE  Before(s[i], u[j])
  <2>1. i < Len(s) + j
    BY <1>1
  <2> QED BY <1>2, <1>3, <1>6, <2>1 DEF Increasing
<1>7. ASSUME Increasing(s), Increasing(u), AllBefore(s, u),
             NEW i \in 1..Len(s \o u), NEW j \in 1..Len(s \o u), i < j
      PROVE  Before((s \o u)[i], (s \o u)[j])
  <2>1. \A k \in 1..Len(s \o u) :
          IF k <= Len(s) THEN k \in 1..Len(s) /\ (s \o u)[k] = s[k]
          ELSE k - Len(s) \in 1..Len(u) /\ (s \o u)[k] = u[k - Len(s)]
    BY <1>1, ConcatProperties
  <2>2. CASE j <= Len(s)
    BY <1>1, <1>7, <2>1, <2>2 DEF Increasing
  <2>3. CASE i <= Len(s) /\ ~(j <= Len(s))
    BY <1>1, <1>7, <2>1, <2>3 DEF AllBefore
  <2>4. CASE ~(i <= Len(s)) /\ ~(j <= Len(s))
    <3>1. i - Len(s) < j - Len(s)
      BY <1>1, <1>7
    <3> QED BY <1>7, <2>1, <2>4, <3>1 DEF Increasing
  <2> QED BY <1>1, <1>7, <2>2, <2>3, <2>4
<1> QED BY <1>4, <1>5, <1>6, <1>7 DEF Increasing, AllBefore

LEMMA BeforeIsOrder ==
  ASSUME NEW f \in Nat \X Nat, NEW g \in Nat \X Nat, NEW h \in Nat \X Nat,
         Before(f, g), Before(g, h)
  PROVE  Before(f, h)
BY DEF Before

-----------------------------------------------------------------------------
(* The types.                                                              *)

LEMMA HeldIsFrames ==
  ASSUME TypeOK
  PROVE  /\ Held \in Seq(Frame) /\ Line \in Seq(Frame)
         /\ process.in \in Seq(Frame) /\ process.kept \in Seq(Frame) /\ process.out \in Seq(Frame)
<1>1. process.in \in Seq(Frame) /\ process.kept \in Seq(Frame) /\ process.out \in Seq(Frame)
  BY DEF TypeOK, ProcessType
<1>2. process.kept \o process.in \in Seq(Frame)
  BY <1>1, ConcatProperties
<1>3. process.out \o (process.kept \o process.in) \in Seq(Frame)
  BY <1>1, <1>2, ConcatProperties
<1>4. Held \in Seq(Frame)
  BY <1>3, EmptySeq DEF Held
<1>5. streambuf \in Seq(Frame) /\ outputbuf \in Seq(Frame)
  BY DEF TypeOK
<1>6. Held \o streambuf \in Seq(Frame)
  BY <1>4, <1>5, ConcatProperties
<1>7. Line \in Seq(Frame)
  BY <1>5, <1>6, ConcatProperties DEF Line
<1> QED BY <1>1, <1>4, <1>7

\* How the frames move, with a block a that goes and a rest b that stays.
LEMMA BufferSizes ==
  ASSUME TypeOK
  PROVE  /\ Len(outputbuf) \in Nat /\ Space \in Nat /\ Space = OutputSize - Len(outputbuf)
         /\ Len(streambuf) \in Nat /\ Len(process.out) \in Nat /\ Len(process.kept) \in Nat
BY HeldIsFrames, LenProperties, BoundsAreNat DEF TypeOK, Space

LEMMA DecodeMoves ==
  ASSUME TypeOK, Decode
  PROVE  \E active \in BOOLEAN, a, b \in Seq(Frame) :
           /\ ~decode.new_stream => active = ~decode.direct
           /\ streambuf = a \o b /\ streambuf' = b /\ Len(b) <= Len(streambuf)
           /\ ~active => Len(a) <= Space
           /\ outputbuf' = IF active THEN outputbuf ELSE outputbuf \o a
           /\ process' = IF ~active THEN process
                         ELSE [process EXCEPT !.in = a,
                                 !.kept = IF decode.new_stream THEN <<>> ELSE @]
           /\ decode' = [decode EXCEPT !.new_stream = FALSE, !.direct = ~active,
                           !.at = IF active /\ a # <<>> THEN "process" ELSE "idle"]
<1>1. PICK active \in IF decode.new_stream THEN Resampling ELSE {~decode.direct} :
      \E n \in (IF streambuf = <<>> THEN 0 ELSE 1)..Len(streambuf) :
        LET frames == SubSeq(streambuf, 1, n) IN
        /\ n <= IF active THEN MaxOut ELSE Space
        /\ streambuf' = SubSeq(streambuf, n + 1, Len(streambuf))
        /\ outputbuf' = IF active THEN outputbuf ELSE outputbuf \o frames
        /\ process' = IF ~active THEN process
                      ELSE [process EXCEPT !.in = frames,
                                           !.kept = IF decode.new_stream THEN <<>> ELSE @]
        /\ decode' = [decode EXCEPT !.new_stream = FALSE, !.direct = ~active,
                                    !.at = IF active /\ n > 0 THEN "process" ELSE "idle"]
  BY DEF Decode
<1>2. PICK n \in (IF streambuf = <<>> THEN 0 ELSE 1)..Len(streambuf) :
        LET frames == SubSeq(streambuf, 1, n) IN
        /\ n <= IF active THEN MaxOut ELSE Space
        /\ streambuf' = SubSeq(streambuf, n + 1, Len(streambuf))
        /\ outputbuf' = IF active THEN outputbuf ELSE outputbuf \o frames
        /\ process' = IF ~active THEN process
                      ELSE [process EXCEPT !.in = frames,
                                           !.kept = IF decode.new_stream THEN <<>> ELSE @]
        /\ decode' = [decode EXCEPT !.new_stream = FALSE, !.direct = ~active,
                                    !.at = IF active /\ n > 0 THEN "process" ELSE "idle"]
  BY <1>1
<1> DEFINE a == SubSeq(streambuf, 1, n)
           b == SubSeq(streambuf, n + 1, Len(streambuf))
<1>3. active \in BOOLEAN /\ (~decode.new_stream => active = ~decode.direct)
  <2>1. decode.direct \in BOOLEAN
    BY DEF TypeOK, DecodeType
  <2> QED BY <1>1, <2>1, PipelineAssumption
<1>4. streambuf \in Seq(Frame) /\ n \in 0..Len(streambuf)
  BY BufferSizes DEF TypeOK
<1>5. /\ a \in Seq(Frame) /\ b \in Seq(Frame) /\ a \o b = streambuf
      /\ Len(a) = n /\ Len(b) = Len(streambuf) - n
  BY <1>4, Split
<1>6. n > 0 <=> a # <<>>
  BY <1>4, <1>5, EmptySeq
<1>7. Len(b) <= Len(streambuf) /\ (~active => Len(a) <= Space)
  BY SMTT(30), <1>2, <1>4, <1>5, BufferSizes
<1>8. /\ streambuf' = b
      /\ outputbuf' = IF active THEN outputbuf ELSE outputbuf \o a
      /\ process' = IF ~active THEN process
                    ELSE [process EXCEPT !.in = a, !.kept = IF decode.new_stream THEN <<>> ELSE @]
      /\ decode' = [decode EXCEPT !.new_stream = FALSE, !.direct = ~active,
                      !.at = IF active /\ n > 0 THEN "process" ELSE "idle"]
  BY <1>2
<1> HIDE DEF a, b
<1> QED BY <1>3, <1>5, <1>6, <1>7, <1>8

LEMMA ResampleMoves ==
  ASSUME TypeOK, Resample
  PROVE  \E a, b \in Seq(Frame) :
           /\ process.kept \o process.in = a \o b /\ Len(b) <= Latency
           /\ process' = [process EXCEPT !.in = <<>>, !.out = a, !.kept = b]
<1> DEFINE all == process.kept \o process.in
<1>1. all \in Seq(Frame) /\ Len(all) \in Nat
  BY HeldIsFrames, ConcatProperties, LenProperties
<1>2. PICK n \in 0..Len(all) :
        /\ Len(all) - n <= Latency
        /\ process' = [process EXCEPT !.in = <<>>, !.out = SubSeq(all, 1, n),
                                      !.kept = SubSeq(all, n + 1, Len(all))]
  BY DEF Resample
<1>3. /\ SubSeq(all, 1, n) \in Seq(Frame) /\ SubSeq(all, n + 1, Len(all)) \in Seq(Frame)
      /\ SubSeq(all, 1, n) \o SubSeq(all, n + 1, Len(all)) = all
      /\ Len(SubSeq(all, n + 1, Len(all))) = Len(all) - n
  BY <1>1, Split
<1> QED BY <1>2, <1>3

LEMMA WriteMoves ==
  ASSUME TypeOK, WriteSamples
  PROVE  \E a, b \in Seq(Frame) :
           /\ process.out = a \o b /\ Len(a) <= Space
           /\ outputbuf' = outputbuf \o a /\ process' = [process EXCEPT !.out = b]
           /\ decode' = [decode EXCEPT !.at = IF b = <<>> THEN Written ELSE @]
<1> DEFINE n == IF Len(process.out) <= Space THEN Len(process.out) ELSE Space
<1>1. n \in 0..Len(process.out) /\ n <= Space
  BY BufferSizes
<1>2. /\ outputbuf' = outputbuf \o SubSeq(process.out, 1, n)
      /\ process' = [process EXCEPT !.out = SubSeq(process.out, n + 1, Len(process.out))]
      /\ decode' = [decode EXCEPT !.at = IF n = Len(process.out) THEN Written ELSE @]
  BY DEF WriteSamples
<1> HIDE DEF n
<1>3. /\ SubSeq(process.out, 1, n) \in Seq(Frame)
      /\ SubSeq(process.out, n + 1, Len(process.out)) \in Seq(Frame)
      /\ SubSeq(process.out, 1, n) \o SubSeq(process.out, n + 1, Len(process.out)) = process.out
      /\ Len(SubSeq(process.out, 1, n)) = n
      /\ Len(SubSeq(process.out, n + 1, Len(process.out))) = Len(process.out) - n
  BY <1>1, HeldIsFrames, Split
<1>4. n = Len(process.out) <=> SubSeq(process.out, n + 1, Len(process.out)) = <<>>
  <2> DEFINE b == SubSeq(process.out, n + 1, Len(process.out))
  <2>1. b \in Seq(Frame) /\ Len(b) = Len(process.out) - n
    BY <1>3
  <2> HIDE DEF b
  <2>2. n = Len(process.out) <=> Len(b) = 0
    BY <1>1, <2>1, BufferSizes
  <2>3. Len(b) = 0 <=> b = <<>>
    BY <2>1, EmptySeq
  <2>4. n = Len(process.out) <=> b = <<>>
    BY <2>2, <2>3
  <2> QED BY <2>4 DEF b
<1> QED BY <1>1, <1>2, <1>3, <1>4

LEMMA DrainMoves ==
  ASSUME TypeOK, Drain, process.kept # <<>>
  PROVE  \E a, b \in Seq(Frame) :
           /\ process.kept = a \o b /\ Len(b) <= Latency
           /\ process' = [process EXCEPT !.out = a, !.kept = b]
<1>1. PICK n \in 1..Len(process.kept) :
        process' = [process EXCEPT !.out = SubSeq(process.kept, 1, n),
                      !.kept = SubSeq(process.kept, n + 1, Len(process.kept))]
  BY DEF Drain
<1>2. n \in 0..Len(process.kept) /\ Len(process.kept) <= Latency
  BY BufferSizes DEF TypeOK
<1>3. /\ SubSeq(process.kept, 1, n) \in Seq(Frame)
      /\ SubSeq(process.kept, n + 1, Len(process.kept)) \in Seq(Frame)
      /\ SubSeq(process.kept, 1, n) \o SubSeq(process.kept, n + 1, Len(process.kept)) = process.kept
      /\ Len(SubSeq(process.kept, n + 1, Len(process.kept))) = Len(process.kept) - n
  BY <1>2, HeldIsFrames, Split
<1>4. Len(process.kept) - n <= Latency
  BY <1>2, BufferSizes, BoundsAreNat
<1> QED BY <1>1, <1>3, <1>4

LEMMA PullMoves ==
  ASSUME TypeOK, NEW t \in 1..Tracks, Pull(t)
  PROVE  \E a, b \in Seq(Frame) :
           /\ outputbuf = a \o b /\ outputbuf' = b /\ Len(b) <= OutputSize
           /\ heard' = [heard EXCEPT ![t] = heard[t] \o a]
<1>1. PICK n \in 1..Len(outputbuf) :
        /\ heard' = [heard EXCEPT ![t] = heard[t] \o SubSeq(outputbuf, 1, n)]
        /\ outputbuf' = SubSeq(outputbuf, n + 1, Len(outputbuf))
  BY DEF Pull
<1>2. outputbuf \in Seq(Frame) /\ n \in 0..Len(outputbuf) /\ Len(outputbuf) <= OutputSize
  BY BufferSizes DEF TypeOK
<1>3. /\ SubSeq(outputbuf, 1, n) \in Seq(Frame)
      /\ SubSeq(outputbuf, n + 1, Len(outputbuf)) \in Seq(Frame)
      /\ SubSeq(outputbuf, 1, n) \o SubSeq(outputbuf, n + 1, Len(outputbuf)) = outputbuf
      /\ Len(SubSeq(outputbuf, n + 1, Len(outputbuf))) = Len(outputbuf) - n
  BY <1>2, Split
<1>4. Len(outputbuf) - n <= OutputSize
  BY <1>2, BufferSizes, BoundsAreNat
<1> QED BY <1>1, <1>3, <1>4

LEMMA TypeInit == Init => TypeOK
<1> SUFFICES ASSUME Init PROVE TypeOK
  OBVIOUS
<1> USE BoundsAreNat, EmptySeq DEF Init
<1>1. stream \in StreamType BY DEF StreamType
<1>2. decode \in DecodeType BY DEF DecodeType, Out
<1>3. process \in ProcessType BY DEF ProcessType, Idle
<1>4. output \in OutputType BY DEF OutputType
<1>5. slim \in SlimType BY DEF SlimType
<1>6. Len(process.kept) <= Latency BY DEF Idle
<1> QED BY <1>1, <1>2, <1>3, <1>4, <1>5, <1>6 DEF TypeOK

LEMMA StreamsType ==
  ASSUME TypeOK, Commanded, Streams
  PROVE  TypeOK'
<1>1. CASE Receive
  <2>1. stream \in StreamType /\ stream.state = "STREAMING" /\ stream.sent < Length
    BY <1>1 DEF Receive, TypeOK
  <2>2. stream.track \in 1..Tracks /\ stream.sent + 1 \in 1..Length
    BY SMTT(30), <2>1, BoundsAreNat DEF Commanded, StreamType, TypeOK, SlimType
  <2>3. stream' \in StreamType
    <3>1. stream' = [stream EXCEPT !.sent = stream.sent + 1]
      BY <1>1 DEF Receive
    <3> QED BY <2>1, <2>2, <3>1, BoundsAreNat DEF StreamType
  <2>4. <<stream.track, stream.sent + 1>> \in Frame
    BY <2>2 DEF Frame
  <2>5. streambuf' \in Seq(Frame) /\ Len(streambuf') <= StreamSize
    BY <1>1, <2>4, AppendProperties, LenProperties, BoundsAreNat DEF Receive, TypeOK
  <2> QED BY <1>1, <2>3, <2>5 DEF Receive, TypeOK
<1>2. CASE StreamEnds
  BY <1>2 DEF StreamEnds, TypeOK, StreamType
<1> QED BY <1>1, <1>2 DEF Streams

LEMMA DecodesType ==
  ASSUME TypeOK, Decodes \/ DecodeFails \/ WriteGivesUp
  PROVE  TypeOK'
<1> USE BoundsAreNat
<1>a. decode \in DecodeType /\ process \in ProcessType /\ slim \in SlimType /\ output \in OutputType
  BY DEF TypeOK
<1>1. CASE Sample
  <2>1. decode' \in DecodeType
    <3>1. /\ decode' = [decode EXCEPT !.at = "sampled", !.bytes = streambuf # <<>>,
                                       !.toend = Ended, !.space = Space]
          /\ (streambuf # <<>>) \in BOOLEAN /\ Ended \in BOOLEAN
      BY <1>1 DEF Sample, Ended
    <3>2. Space \in 0..OutputSize
      BY BufferSizes DEF TypeOK
    <3> QED BY <1>a, <3>1, <3>2 DEF DecodeType, Out
  <2> QED BY <1>1, <2>1 DEF Sample, TypeOK
<1>2. CASE CannotDecode
  <2>1. decode' \in DecodeType
    BY <1>2, <1>a DEF CannotDecode, DecodeType, Out
  <2> QED BY <1>2, <2>1 DEF CannotDecode, TypeOK
<1>3. CASE DecodeCompletes
  <2>1. decode' \in DecodeType
    BY <1>3, <1>a DEF DecodeCompletes, DecodeType, Out
  <2> QED BY <1>3, <2>1 DEF DecodeCompletes, TypeOK
<1>4. CASE DecodeFails
  <2>1. decode' \in DecodeType
    BY <1>4, <1>a DEF DecodeFails, DecodeType, Out
  <2>2. slim' \in SlimType
    BY <1>4, <1>a DEF DecodeFails, SlimType
  <2> QED BY <1>4, <2>1, <2>2 DEF DecodeFails, TypeOK
<1>5. CASE Decode
  <2>1. PICK active \in BOOLEAN, a \in Seq(Frame), b \in Seq(Frame) :
          /\ streambuf' = b /\ Len(b) <= Len(streambuf)
          /\ ~active => Len(a) <= Space
          /\ outputbuf' = IF active THEN outputbuf ELSE outputbuf \o a
          /\ process' = IF ~active THEN process
                        ELSE [process EXCEPT !.in = a,
                                !.kept = IF decode.new_stream THEN <<>> ELSE @]
          /\ decode' = [decode EXCEPT !.new_stream = FALSE, !.direct = ~active,
                          !.at = IF active /\ a # <<>> THEN "process" ELSE "idle"]
    BY <1>5, DecodeMoves
  <2>2. streambuf' \in Seq(Frame) /\ Len(streambuf') <= StreamSize
    <3>1. Len(b) \in Nat /\ Len(streambuf) <= StreamSize
      BY LenProperties DEF TypeOK
    <3> QED BY <2>1, <3>1, BufferSizes
  <2>3. decode' \in DecodeType
    BY <1>a, <2>1 DEF DecodeType, Out
  <2>4. process' \in ProcessType /\ Len(process'.kept) <= Latency
    <3>1. Len(process.kept) <= Latency
      BY DEF TypeOK
    <3>2. CASE ~active
      BY <1>a, <2>1, <3>1, <3>2
    <3>3. CASE active /\ ~decode.new_stream
      BY <1>a, <2>1, <3>1, <3>3 DEF ProcessType
    <3>4. CASE active /\ decode.new_stream
      <4>1. process' = [process EXCEPT !.in = a, !.kept = <<>>]
        BY <2>1, <3>4
      <4>2. <<>> \in Seq(Frame) /\ Len(<<>>) <= Latency
        BY EmptySeq
      <4> QED BY <1>a, <4>1, <4>2 DEF ProcessType
    <3> QED BY <3>2, <3>3, <3>4
  <2>5. outputbuf' \in Seq(Frame) /\ Len(outputbuf') <= OutputSize
    <3>1. outputbuf \in Seq(Frame) /\ Len(outputbuf) <= OutputSize
      BY DEF TypeOK
    <3>2. outputbuf \o a \in Seq(Frame) /\ Len(outputbuf \o a) = Len(outputbuf) + Len(a)
      BY <3>1, ConcatProperties
    <3>3. Len(a) \in Nat
      BY LenProperties
    <3> QED BY <2>1, <3>1, <3>2, <3>3, BufferSizes
  <2>6. output' \in OutputType
    <3>1. output' = [output EXCEPT !.started = output.started \/ decode.new_stream]
      BY <1>5 DEF Decode
    <3> QED BY <3>1, <1>a DEF OutputType, DecodeType
  <2>7. stream' = stream /\ slim' = slim /\ threads' = threads /\ heard' = heard
    BY <1>5 DEF Decode
  <2>8. Len(streambuf') <= StreamSize
    BY <2>2
  <2> QED BY <2>2, <2>3, <2>4, <2>5, <2>6, <2>7 DEF TypeOK
<1>6. CASE Resample
  <2>1. PICK a \in Seq(Frame), b \in Seq(Frame) :
          /\ Len(b) <= Latency
          /\ process' = [process EXCEPT !.in = <<>>, !.out = a, !.kept = b]
    BY <1>6, ResampleMoves
  <2>2. process' \in ProcessType /\ Len(process'.kept) <= Latency
    BY <1>a, <2>1, EmptySeq DEF ProcessType
  <2>3. decode' \in DecodeType
    BY <1>6, <1>a DEF Resample, DecodeType
  <2> QED BY <1>6, <2>2, <2>3 DEF Resample, TypeOK
<1>7. CASE WriteSamples
  <2>1. PICK a \in Seq(Frame), b \in Seq(Frame) :
          /\ Len(a) <= Space
          /\ outputbuf' = outputbuf \o a /\ process' = [process EXCEPT !.out = b]
          /\ decode' = [decode EXCEPT !.at = IF b = <<>> THEN Written ELSE @]
    BY <1>7, WriteMoves
  <2>2. process' \in ProcessType /\ process'.kept = process.kept
    BY <1>a, <2>1 DEF ProcessType
  <2>3. outputbuf' \in Seq(Frame) /\ Len(outputbuf') <= OutputSize
    <3>1. outputbuf \in Seq(Frame) /\ Len(outputbuf) <= OutputSize
      BY DEF TypeOK
    <3>2. outputbuf \o a \in Seq(Frame) /\ Len(outputbuf \o a) = Len(outputbuf) + Len(a)
      BY <3>1, ConcatProperties
    <3>3. Len(a) \in Nat
      BY LenProperties
    <3> QED BY <2>1, <3>1, <3>2, <3>3, BufferSizes
  <2>4. decode' \in DecodeType
    BY <1>a, <2>1 DEF DecodeType, Written, Out
  <2> QED BY <1>7, <2>2, <2>3, <2>4 DEF WriteSamples, TypeOK
<1>8. CASE WriteGivesUp
  <2>1. process' \in ProcessType /\ process'.kept = process.kept
    BY <1>8, <1>a, EmptySeq DEF WriteGivesUp, ProcessType
  <2>2. decode' \in DecodeType
    BY <1>8, <1>a DEF WriteGivesUp, DecodeType, Written, Out
  <2> QED BY <1>8, <2>1, <2>2 DEF WriteGivesUp, TypeOK
<1>9. CASE Drain
  <2>1. decode' \in DecodeType
    BY <1>9, <1>a DEF Drain, DecodeType, Out
  <2>2. process' \in ProcessType /\ Len(process'.kept) <= Latency
    <3>1. CASE process.kept = <<>>
      <4>1. process' = Idle
        BY <1>9, <3>1 DEF Drain
      <4> QED BY <4>1, EmptySeq DEF ProcessType, Idle
    <3>2. CASE process.kept # <<>>
      <4>1. PICK a \in Seq(Frame), b \in Seq(Frame) :
              Len(b) <= Latency /\ process' = [process EXCEPT !.out = a, !.kept = b]
        BY <1>9, <3>2, DrainMoves
      <4> QED BY <1>a, <4>1 DEF ProcessType
    <3> QED BY <3>1, <3>2
  <2> QED BY <1>9, <2>1, <2>2 DEF Drain, TypeOK
<1> QED
  BY <1>1, <1>2, <1>3, <1>4, <1>5, <1>6, <1>7, <1>8, <1>9 DEF Decodes

LEMMA OutputsType ==
  ASSUME TypeOK, NEW t \in 1..Tracks, Pull(t) \/ PullsNothing(t)
  PROVE  TypeOK'
<1>1. CASE Pull(t)
  <2>1. PICK a \in Seq(Frame), b \in Seq(Frame) :
          /\ outputbuf' = b /\ Len(b) <= OutputSize
          /\ heard' = [heard EXCEPT ![t] = heard[t] \o a]
    BY <1>1, PullMoves
  <2>2. heard' \in [1..Tracks -> Seq(Frame)]
    <3>1. heard \in [1..Tracks -> Seq(Frame)] /\ heard[t] \o a \in Seq(Frame)
      BY ConcatProperties DEF TypeOK
    <3> QED BY <2>1, <3>1
  <2>3. output' \in OutputType
    <3>1. PICK kept \in BOOLEAN : output' = [output EXCEPT !.started = output.started /\ kept]
      BY <1>1 DEF Pull
    <3> QED BY <3>1 DEF TypeOK, OutputType
  <2> QED BY <1>1, <2>1, <2>2, <2>3 DEF Pull, TypeOK
<1>2. CASE PullsNothing(t)
  <2>1. output' \in OutputType
    BY <1>2 DEF PullsNothing, TypeOK, OutputType
  <2> QED BY <1>2, <2>1 DEF PullsNothing, TypeOK
<1> QED BY <1>1, <1>2

LEMMA RoundsType ==
  ASSUME TypeOK, Rounds \/ SockFails \/ \E command \in {"q1", "f1"} : Upset(command)
  PROVE  TypeOK'
<1>a. decode \in DecodeType /\ stream \in StreamType /\ slim \in SlimType /\ output \in OutputType
  BY DEF TypeOK
<1>1. CASE RoundStarts
  <2>1. decode' \in DecodeType /\ output' \in OutputType
    BY <1>1, <1>a DEF RoundStarts, DecodeType, OutputType
  <2> QED BY <1>1, <2>1 DEF RoundStarts, TypeOK
<1>2. CASE RoundEnds
  <2>1. decode' \in DecodeType /\ stream' \in StreamType
    BY <1>2, <1>a DEF RoundEnds, DecodeType, StreamType
  <2>2. slim' \in SlimType
    BY <1>2, <1>a DEF RoundEnds, SlimType
  <2> QED BY <1>2, <2>1, <2>2 DEF RoundEnds, TypeOK
<1>3. CASE SockFails
  <2>1. stream' \in StreamType
    BY <1>3, <1>a DEF SockFails, StreamType
  <2>2. slim.upsets + 1 \in 0..MaxUpsets
    BY <1>3, <1>a, BoundsAreNat DEF SockFails, SlimType
  <2>3. slim' \in SlimType
    <3>1. slim' = [slim EXCEPT !.at = "wait", !.upsets = slim.upsets + 1]
      BY <1>3 DEF SockFails
    <3> QED BY <1>a, <2>2, <3>1 DEF SlimType
  <2> QED BY <1>3, <2>1, <2>3 DEF SockFails, TypeOK
<1>4. CASE \E command \in {"q1", "f1"} : Upset(command)
  <2>1. PICK command \in {"q1", "f1"} :
          /\ slim.upsets < MaxUpsets
          /\ slim' = [slim EXCEPT !.at = command, !.upsets = slim.upsets + 1, !.next = "s"]
    BY <1>4 DEF Upset
  <2>2. slim.upsets + 1 \in 0..MaxUpsets
    BY <1>a, <2>1, BoundsAreNat DEF SlimType
  <2>3. slim' \in SlimType
    BY <1>a, <2>1, <2>2 DEF SlimType
  <2> QED BY <1>4, <2>3 DEF Upset, TypeOK
<1> QED BY <1>1, <1>2, <1>3, <1>4 DEF Rounds

LEMMA CommandsType ==
  ASSUME TypeOK, Commanded, Commands
  PROVE  TypeOK'
<1>a. /\ decode \in DecodeType /\ stream \in StreamType /\ slim \in SlimType
      /\ output \in OutputType /\ process \in ProcessType
  BY DEF TypeOK
<1>1. CASE DecodeFlush
  <2>1. decode' \in DecodeType /\ slim' \in SlimType
    BY <1>1, <1>a DEF DecodeFlush, DecodeType, SlimType
  <2>2. process' \in ProcessType /\ Len(process'.kept) <= Latency
    <3>1. CASE decode.direct
      BY <1>1, <1>a, <3>1 DEF DecodeFlush, TypeOK
    <3>2. CASE ~decode.direct
      <4>1. process' = [process EXCEPT !.in = <<>>, !.kept = <<>>]
        BY <1>1, <3>2 DEF DecodeFlush
      <4>2. <<>> \in Seq(Frame) /\ Len(<<>>) <= Latency
        BY EmptySeq, BoundsAreNat
      <4> QED BY <1>a, <4>1, <4>2 DEF ProcessType
    <3> QED BY <3>1, <3>2
  <2> QED BY <1>1, <2>1, <2>2 DEF DecodeFlush, TypeOK
<1>2. CASE OutputFlush
  <2>1. output' \in OutputType
    BY <1>2, <1>a DEF OutputFlush, OutputType
  <2>2. slim' \in SlimType
    <3>1. /\ slim' = [slim EXCEPT !.at = IF @ = "q2" THEN "q3" ELSE "f3",
                                  !.keep = slim.at = "f2" /\ output.started]
          /\ output.started \in BOOLEAN
      BY <1>2, <1>a DEF OutputFlush, OutputType
    <3> QED BY <3>1, <1>a DEF SlimType
  <2>3. threads' \in [1..Tracks -> {"none", "serving", "drained"}]
    <3>1. PICK gone : threads' = [t \in 1..Tracks |-> IF t \in gone THEN "none" ELSE threads[t]]
      BY <1>2 DEF OutputFlush
    <3> QED BY <3>1 DEF TypeOK
  <2>4. outputbuf' \in Seq(Frame) /\ Len(outputbuf') <= OutputSize
    BY <1>2, EmptySeq, BoundsAreNat DEF OutputFlush
  <2> QED BY <1>2, <2>1, <2>2, <2>3, <2>4 DEF OutputFlush, TypeOK
<1>3. CASE StreamFlush
  <2>1. slim' \in SlimType
    BY <1>3, <1>a DEF StreamFlush, SlimType, OutputType
  <2>2. stream' \in StreamType
    BY <1>3, <1>a DEF StreamFlush, StreamType
  <2>3. streambuf' \in Seq(Frame) /\ Len(streambuf') <= StreamSize
    BY <1>3, EmptySeq, BoundsAreNat DEF StreamFlush
  <2> QED BY <1>3, <2>1, <2>2, <2>3 DEF StreamFlush, TypeOK
<1>4. CASE Start
  <2>1. slim' \in SlimType
    BY <1>4, <1>a DEF Start, SlimType
  <2>2. output' \in OutputType
    <3>1. /\ output' = [output EXCEPT !.index = output.index + 1, !.completed = FALSE]
          /\ output.index + 1 \in 0..Tracks
      BY <1>4, <1>a, BoundsAreNat DEF Start, OutputType
    <3> QED BY <3>1, <1>a DEF OutputType
  <2> QED BY <1>4, <2>1, <2>2 DEF Start, TypeOK
<1>5. CASE CodecOpen
  <2>1. decode' \in DecodeType /\ slim' \in SlimType
    BY <1>5, <1>a DEF CodecOpen, DecodeType, SlimType
  <2>2. threads' \in [1..Tracks -> {"none", "serving", "drained"}]
    BY <1>5 DEF CodecOpen, TypeOK
  <2> QED BY <1>5, <2>1, <2>2 DEF CodecOpen, TypeOK
<1>6. CASE SockOpens
  <2>1. slim' \in SlimType /\ streambuf' \in Seq(Frame) /\ Len(streambuf') <= StreamSize
    BY <1>6, <1>a, EmptySeq, BoundsAreNat DEF SockOpens, SlimType
  <2> QED BY <1>6, <2>1 DEF SockOpens, TypeOK
<1>7. CASE StreamSock
  <2>1. slim' \in SlimType /\ stream' \in StreamType
    BY <1>7, <1>a, BoundsAreNat DEF StreamSock, SlimType, StreamType, OutputType
  <2> QED BY <1>7, <2>1 DEF StreamSock, TypeOK
<1> QED BY <1>1, <1>2, <1>3, <1>4, <1>5, <1>6, <1>7 DEF Commands

LEMMA TypeKeeps ==
  ASSUME TypeOK, Commanded, [Next]_vars
  PROVE  TypeOK'
<1>1. CASE UNCHANGED vars
  BY <1>1 DEF vars, TypeOK
<1> QED BY <1>1, StreamsType, DecodesType, OutputsType, RoundsType, CommandsType DEF Next

-----------------------------------------------------------------------------
(* Where each thread is.                                                   *)

LEMMA ControlInit == Init => Control
BY EmptySeq, BoundsAreNat
DEF Init, Control, Places, Commanded, Served, FromSource, Idle, LockD, Out, Ended

LEMMA StreamsControl ==
  ASSUME TypeOK, Control, Streams
  PROVE  Control'
<1> USE DEF Control
<1>a. /\ decode \in DecodeType /\ stream \in StreamType /\ slim \in SlimType
      /\ output \in OutputType
  BY DEF TypeOK
<1>1. CASE Receive
  <2>1. Places'
    BY <1>1, <1>a DEF Receive, Places, LockD, Out, DecodeType
  <2>2. Commanded'
    BY <1>1, <1>a DEF Receive, Places, Commanded, Held, LockD, Out, DecodeType, SlimType, OutputType, StreamType
  <2>3. Served'
    BY <1>1, <1>a DEF Receive, Served, TypeOK, SlimType, OutputType
  <2>4. FromSource'
    BY <1>1, <1>a DEF Receive, FromSource, Commanded, Ended, DecodeType, StreamType, SlimType, OutputType
  <2> QED BY <2>1, <2>2, <2>3, <2>4
<1>2. CASE StreamEnds
  <2>1. Places'
    BY <1>2, <1>a DEF StreamEnds, Places, LockD, Out, DecodeType
  <2>2. Commanded'
    BY <1>2, <1>a DEF StreamEnds, Places, Commanded, Held, LockD, Out, DecodeType, SlimType, OutputType, StreamType
  <2>3. Served'
    BY <1>2, <1>a DEF StreamEnds, Served, TypeOK, SlimType, OutputType
  <2>4. FromSource'
    BY <1>2, <1>a DEF StreamEnds, FromSource, Commanded, Ended, DecodeType, StreamType, SlimType, OutputType
  <2> QED BY <2>1, <2>2, <2>3, <2>4
<1> QED
  BY <1>1, <1>2 DEF Streams

LEMMA DecodesControl ==
  ASSUME TypeOK, Control, Decodes \/ DecodeFails \/ WriteGivesUp
  PROVE  Control'
<1> USE DEF Control
<1>a. /\ decode \in DecodeType /\ stream \in StreamType /\ slim \in SlimType
      /\ output \in OutputType
  BY DEF TypeOK
<1>1. CASE Sample
  <2>1. Places'
    BY <1>1, <1>a DEF Sample, Places, LockD, Out, DecodeType
  <2>2. Commanded'
    BY <1>1, <1>a DEF Sample, Places, Commanded, Held, LockD, Out, DecodeType, SlimType, OutputType, StreamType
  <2>3. Served'
    BY <1>1, <1>a DEF Sample, Served, TypeOK, SlimType, OutputType
  <2>4. FromSource'
    BY <1>1, <1>a DEF Sample, FromSource, Commanded, Ended, DecodeType, StreamType, SlimType, OutputType
  <2> QED BY <2>1, <2>2, <2>3, <2>4
<1>2. CASE CannotDecode
  <2>1. Places'
    BY <1>2, <1>a DEF CannotDecode, Places, LockD, Out, DecodeType
  <2>2. Commanded'
    BY <1>2, <1>a DEF CannotDecode, Places, Commanded, Held, LockD, Out, DecodeType, SlimType, OutputType, StreamType
  <2>3. Served'
    BY <1>2, <1>a DEF CannotDecode, Served, TypeOK, SlimType, OutputType
  <2>4. FromSource'
    BY <1>2, <1>a DEF CannotDecode, FromSource, Commanded, Ended, DecodeType, StreamType, SlimType, OutputType
  <2> QED BY <2>1, <2>2, <2>3, <2>4
<1>3. CASE DecodeCompletes
  <2>1. Places'
    BY <1>3, <1>a DEF DecodeCompletes, MayDecode, Places, LockD, Out, DecodeType
  <2>2. Commanded'
    BY <1>3, <1>a DEF DecodeCompletes, MayDecode, Places, Commanded, Held, LockD, Out, DecodeType, SlimType, OutputType, StreamType
  <2>3. Served'
    BY <1>3, <1>a DEF DecodeCompletes, MayDecode, Served, TypeOK, SlimType, OutputType
  <2>4. FromSource'
    BY <1>3, <1>a DEF DecodeCompletes, MayDecode, FromSource, Commanded, Ended, DecodeType, StreamType, SlimType, OutputType
  <2> QED BY <2>1, <2>2, <2>3, <2>4
<1>4. CASE DecodeFails
  <2>1. Places'
    BY <1>4, <1>a DEF DecodeFails, MayDecode, Places, LockD, Out, DecodeType
  <2>2. Commanded'
    BY <1>4, <1>a DEF DecodeFails, MayDecode, Places, Commanded, Held, LockD, Out, DecodeType, SlimType, OutputType, StreamType
  <2>3. Served'
    BY <1>4, <1>a DEF DecodeFails, MayDecode, Served, TypeOK, SlimType, OutputType
  <2>4. FromSource'
    BY <1>4, <1>a DEF DecodeFails, MayDecode, FromSource, Commanded, Ended, DecodeType, StreamType, SlimType, OutputType
  <2> QED BY <2>1, <2>2, <2>3, <2>4
<1>5. CASE Decode
  <2>1. Places'
    <3>1. PICK active \in BOOLEAN, a \in Seq(Frame) :
            /\ ~decode.new_stream => active = ~decode.direct
            /\ process' = IF ~active THEN process
                          ELSE [process EXCEPT !.in = a,
                                  !.kept = IF decode.new_stream THEN <<>> ELSE @]
            /\ decode' = [decode EXCEPT !.new_stream = FALSE, !.direct = ~active,
                            !.at = IF active /\ a # <<>> THEN "process" ELSE "idle"]
      BY <1>5, DecodeMoves
    <3>2. decode.at = "sampled" /\ decode.state = "RUNNING" /\ process.in = <<>> /\ process.out = <<>>
      BY <1>5 DEF Decode, MayDecode, Places
    <3>3. (decode'.at # "process" => process'.in = <<>>) /\ process'.out = <<>>
      BY <1>a, <3>1, <3>2 DEF TypeOK, ProcessType, DecodeType
    <3> QED BY <1>a, <3>1, <3>2, <3>3 DEF Places, LockD, Out, DecodeType
  <2>2. Commanded'
    BY <1>5, <1>a DEF Decode, MayDecode, Places, Commanded, Held, LockD, Out, DecodeType, SlimType, OutputType, StreamType
  <2>3. Served'
    BY <1>5, <1>a DEF Decode, MayDecode, Served, TypeOK, SlimType, OutputType
  <2>4. FromSource'
    BY <1>5, <1>a DEF Decode, MayDecode, FromSource, Commanded, Ended, DecodeType, StreamType, SlimType, OutputType
  <2> QED BY <2>1, <2>2, <2>3, <2>4
<1>6. CASE Resample
  <2>1. Places'
    BY <1>6, <1>a DEF Resample, Places, LockD, Out, DecodeType
  <2>2. Commanded'
    BY <1>6, <1>a DEF Resample, Places, Commanded, Held, LockD, Out, DecodeType, SlimType, OutputType, StreamType
  <2>3. Served'
    BY <1>6, <1>a DEF Resample, Served, TypeOK, SlimType, OutputType
  <2>4. FromSource'
    BY <1>6, <1>a DEF Resample, FromSource, Commanded, Ended, DecodeType, StreamType, SlimType, OutputType
  <2> QED BY <2>1, <2>2, <2>3, <2>4
<1>7. CASE WriteSamples
  <2>1. Places'
    BY <1>7, <1>a DEF WriteSamples, Written, Places, LockD, Out, DecodeType
  <2>2. Commanded'
    BY <1>7, <1>a DEF WriteSamples, Written, Places, Commanded, Held, LockD, Out, DecodeType, SlimType, OutputType, StreamType
  <2>3. Served'
    BY <1>7, <1>a DEF WriteSamples, Written, Served, TypeOK, SlimType, OutputType
  <2>4. FromSource'
    BY <1>7, <1>a DEF WriteSamples, Written, FromSource, Commanded, Ended, DecodeType, StreamType, SlimType, OutputType
  <2> QED BY <2>1, <2>2, <2>3, <2>4
<1>8. CASE WriteGivesUp
  <2>1. Places'
    BY <1>8, <1>a DEF WriteGivesUp, Written, Places, LockD, Out, DecodeType
  <2>2. Commanded'
    BY <1>8, <1>a DEF WriteGivesUp, Written, Places, Commanded, Held, LockD, Out, DecodeType, SlimType, OutputType, StreamType
  <2>3. Served'
    BY <1>8, <1>a DEF WriteGivesUp, Written, Served, TypeOK, SlimType, OutputType
  <2>4. FromSource'
    BY <1>8, <1>a DEF WriteGivesUp, Written, FromSource, Commanded, Ended, DecodeType, StreamType, SlimType, OutputType
  <2> QED BY <2>1, <2>2, <2>3, <2>4
<1>9. CASE Drain
  <2>1. Places'
    <3>1. process'.in = <<>> /\ (decode'.at # "write" => process'.out = <<>>)
      BY <1>9, <1>a DEF Drain, Places, Idle, TypeOK, ProcessType, DecodeType
    <3> QED BY <1>9, <1>a, <3>1 DEF Drain, Places, LockD, Out, DecodeType
  <2>2. Commanded'
    BY <1>9, <1>a DEF Drain, Places, Commanded, Held, LockD, Out, DecodeType, SlimType, OutputType, StreamType
  <2>3. Served'
    BY <1>9, <1>a DEF Drain, Served, TypeOK, SlimType, OutputType
  <2>4. FromSource'
    BY <1>9, <1>a DEF Drain, FromSource, Commanded, Ended, DecodeType, StreamType, SlimType, OutputType
  <2> QED BY <2>1, <2>2, <2>3, <2>4
<1> QED
  BY <1>1, <1>2, <1>3, <1>4, <1>5, <1>6, <1>7, <1>8, <1>9 DEF Decodes

LEMMA RoundsControl ==
  ASSUME TypeOK, Control, Rounds \/ SockFails
  PROVE  Control'
<1> USE DEF Control
<1>a. /\ decode \in DecodeType /\ stream \in StreamType /\ slim \in SlimType
      /\ output \in OutputType
  BY DEF TypeOK
<1>1. CASE RoundStarts
  <2>1. Places'
    BY <1>1, <1>a DEF RoundStarts, Places, LockD, Out, DecodeType
  <2>2. Commanded'
    BY <1>1, <1>a DEF RoundStarts, Places, Commanded, Held, LockD, Out, DecodeType, SlimType, OutputType, StreamType
  <2>3. Served'
    BY <1>1, <1>a DEF RoundStarts, Served, TypeOK, SlimType, OutputType
  <2>4. FromSource'
    BY <1>1, <1>a DEF RoundStarts, FromSource, Commanded, Ended, DecodeType, StreamType, SlimType, OutputType
  <2> QED BY <2>1, <2>2, <2>3, <2>4
<1>2. CASE RoundEnds
  <2>1. Places'
    BY <1>2, <1>a DEF RoundEnds, Places, LockD, Out, DecodeType
  <2>2. Commanded'
    BY <1>2, <1>a DEF RoundEnds, Places, Commanded, Held, LockD, Out, DecodeType, SlimType, OutputType, StreamType
  <2>3. Served'
    BY <1>2, <1>a DEF RoundEnds, Served, TypeOK, SlimType, OutputType
  <2>4. FromSource'
    BY <1>2, <1>a DEF RoundEnds, FromSource, Commanded, Ended, DecodeType, StreamType, SlimType, OutputType
  <2> QED BY <2>1, <2>2, <2>3, <2>4
<1>3. CASE SockFails
  <2>1. Places'
    BY <1>3, <1>a DEF SockFails, Places, LockD, Out, DecodeType
  <2>2. Commanded'
    BY <1>3, <1>a DEF SockFails, Places, Commanded, Held, LockD, Out, DecodeType, SlimType, OutputType, StreamType
  <2>3. Served'
    BY <1>3, <1>a DEF SockFails, Served, Commanded, TypeOK, SlimType, OutputType
  <2>4. FromSource'
    BY <1>3, <1>a DEF SockFails, FromSource, Commanded, Ended, DecodeType, StreamType, SlimType, OutputType
  <2> QED BY <2>1, <2>2, <2>3, <2>4
<1> QED
  BY <1>1, <1>2, <1>3 DEF Rounds

LEMMA CommandsControl ==
  ASSUME TypeOK, Control, Commands
  PROVE  Control'
<1> USE DEF Control
<1>a. /\ decode \in DecodeType /\ stream \in StreamType /\ slim \in SlimType
      /\ output \in OutputType
  BY DEF TypeOK
<1>1. CASE DecodeFlush
  <2>1. Places'
    BY <1>1, <1>a DEF DecodeFlush, Places, LockD, Out, DecodeType
  <2>2. Commanded'
    BY <1>1, <1>a DEF DecodeFlush, Places, Commanded, Held, LockD, Out, DecodeType, SlimType, OutputType, StreamType
  <2>3. Served'
    BY <1>1, <1>a DEF DecodeFlush, Served, TypeOK, SlimType, OutputType
  <2>4. FromSource'
    BY <1>1, <1>a DEF DecodeFlush, FromSource, Commanded, Ended, DecodeType, StreamType, SlimType, OutputType
  <2> QED BY <2>1, <2>2, <2>3, <2>4
<1>2. CASE OutputFlush
  <2>1. Places'
    BY <1>2, <1>a DEF OutputFlush, Places, LockD, Out, DecodeType
  <2>2. Commanded'
    BY <1>2, <1>a DEF OutputFlush, Places, Commanded, Held, LockD, Out, DecodeType, SlimType, OutputType, StreamType
  <2>3. Served'
    BY <1>2, <1>a DEF OutputFlush, Served, TypeOK, SlimType, OutputType
  <2>4. FromSource'
    BY <1>2, <1>a DEF OutputFlush, FromSource, Commanded, Ended, DecodeType, StreamType, SlimType, OutputType
  <2> QED BY <2>1, <2>2, <2>3, <2>4
<1>3. CASE StreamFlush
  <2>1. Places'
    BY <1>3, <1>a DEF StreamFlush, Places, LockD, Out, DecodeType
  <2>2. Commanded'
    <3>1. /\ decode' = decode /\ Held' = Held /\ output' = output /\ stream'.track = stream.track
          /\ slim'.at = "wait" /\ slim'.next = slim.next /\ decode.state = "STOPPED"
          /\ slim'.flushed \in {slim.flushed, output.index}
      BY <1>3, <1>a DEF StreamFlush, Commanded, Held, SlimType, StreamType
    <3>2. stream'.state = "STREAMING" => stream'.track > slim'.flushed
      BY <1>3, <1>a DEF StreamFlush, Commanded, SlimType, StreamType
    <3> QED BY <1>a, <3>1, <3>2 DEF Commanded, LockD, OutputType, SlimType
  <2>3. Served'
    BY <1>3, <1>a DEF StreamFlush, Served, TypeOK, SlimType, OutputType
  <2>4. FromSource'
    BY <1>3, <1>a DEF StreamFlush, FromSource, Commanded, Ended, DecodeType, StreamType, SlimType, OutputType
  <2> QED BY <2>1, <2>2, <2>3, <2>4
<1>4. CASE Start
  <2>1. Places'
    BY <1>4, <1>a DEF Start, Places, LockD, Out, DecodeType
  <2>2. Commanded'
    BY <1>4, <1>a DEF Start, Places, Commanded, Held, LockD, Out, DecodeType, SlimType, OutputType, StreamType
  <2>3. Served'
    BY <1>4, <1>a DEF Start, Served, TypeOK, SlimType, OutputType
  <2>4. FromSource'
    BY <1>4, <1>a DEF Start, FromSource, Commanded, Ended, DecodeType, StreamType, SlimType, OutputType
  <2> QED BY <2>1, <2>2, <2>3, <2>4
<1>5. CASE CodecOpen
  <2>1. Places'
    BY <1>5, <1>a DEF CodecOpen, Places, LockD, Out, DecodeType
  <2>2. Commanded'
    BY <1>5, <1>a DEF CodecOpen, Places, Commanded, Held, LockD, Out, DecodeType, SlimType, OutputType, StreamType
  <2>3. Served'
    BY <1>5, <1>a DEF CodecOpen, Served, Commanded, TypeOK, SlimType, OutputType
  <2>4. FromSource'
    BY <1>5, <1>a DEF CodecOpen, FromSource, Commanded, Ended, DecodeType, StreamType, SlimType, OutputType
  <2> QED BY <2>1, <2>2, <2>3, <2>4
<1>6. CASE SockOpens
  <2>1. Places'
    BY <1>6, <1>a DEF SockOpens, Places, LockD, Out, DecodeType
  <2>2. Commanded'
    BY <1>6, <1>a DEF SockOpens, Places, Commanded, Held, LockD, Out, DecodeType, SlimType, OutputType, StreamType
  <2>3. Served'
    BY <1>6, <1>a DEF SockOpens, Served, TypeOK, SlimType, OutputType
  <2>4. FromSource'
    BY <1>6, <1>a DEF SockOpens, FromSource, Commanded, Ended, DecodeType, StreamType, SlimType, OutputType
  <2> QED BY <2>1, <2>2, <2>3, <2>4
<1>7. CASE StreamSock
  <2>1. Places'
    BY <1>7, <1>a DEF StreamSock, Places, LockD, Out, DecodeType
  <2>2. Commanded'
    BY <1>7, <1>a DEF StreamSock, Places, Commanded, Held, LockD, Out, DecodeType, SlimType, OutputType, StreamType
  <2>3. Served'
    BY <1>7, <1>a DEF StreamSock, Served, Commanded, TypeOK, SlimType, OutputType
  <2>4. FromSource'
    BY <1>7, <1>a DEF StreamSock, FromSource, Commanded, Ended, DecodeType, StreamType, SlimType, OutputType
  <2> QED BY <2>1, <2>2, <2>3, <2>4
<1> QED
  BY <1>1, <1>2, <1>3, <1>4, <1>5, <1>6, <1>7 DEF Commands

LEMMA OutputsControl ==
  ASSUME TypeOK, Control, NEW t \in 1..Tracks, Pull(t) \/ PullsNothing(t)
  PROVE  Control'
<1> USE DEF Control
<1>a. /\ decode \in DecodeType /\ stream \in StreamType /\ slim \in SlimType
      /\ output \in OutputType
  BY DEF TypeOK
<1>1. CASE Pull(t)
  <2>1. output'.index = output.index /\ output'.completed = output.completed /\ outputbuf # <<>>
    BY <1>1, <1>a DEF Pull, OutputType
  <2>2. Places' /\ FromSource'
    BY <1>1, <2>1 DEF Pull, Places, FromSource, LockD, Ended
  <2>3. Commanded'
    BY <1>1, <2>1 DEF Pull, Commanded, Held, LockD
  <2>4. Served'
    BY <1>1, <1>a, <2>1 DEF Pull, Served, TypeOK, OutputType
  <2> QED BY <2>2, <2>3, <2>4
<1>2. CASE PullsNothing(t)
  <2>1. output'.index = output.index
    BY <1>2, <1>a DEF PullsNothing, OutputType
  <2>2. Places' /\ FromSource'
    BY <1>2, <2>1 DEF PullsNothing, Places, FromSource, LockD, Ended
  <2>3. Commanded'
    BY <1>2, <2>1 DEF PullsNothing, Commanded, Held, LockD
  <2>4. Served'
    <3>1. t = output.index /\ slim.at # "s1"
      BY <1>2 DEF PullsNothing, Served
    <3> QED BY <1>2, <1>a, <2>1, <3>1 DEF PullsNothing, Served, TypeOK, OutputType
  <2> QED BY <2>2, <2>3, <2>4
<1> QED BY <1>1, <1>2

LEMMA UpsetControl ==
  ASSUME TypeOK, Control, NEW command \in {"q1", "f1"}, Upset(command)
  PROVE  Control'
<1>1. slim \in SlimType
  BY DEF TypeOK
<1>2. Places' /\ Served' /\ FromSource'
  BY <1>1 DEF Control, Upset, Places, Served, FromSource, LockD, Ended, SlimType
<1>3. Commanded'
  BY <1>1 DEF Control, Upset, Commanded, Held, LockD, SlimType
<1> QED BY <1>2, <1>3 DEF Control

LEMMA ControlKeeps ==
  ASSUME TypeOK, Control, [Next]_vars
  PROVE  Control'
<1>1. CASE UNCHANGED vars
  BY <1>1 DEF vars, Control, Places, Commanded, Served, FromSource, Held, LockD, Ended
<1> QED BY <1>1, StreamsControl, DecodesControl, OutputsControl, RoundsControl, CommandsControl,
           UpsetControl DEF Next

-----------------------------------------------------------------------------
(* The order of the frames.                                                *)

LEMMA SameLine ==
  ASSUME TypeOK, Line' = Line
  PROVE  Shortens
<1>1. Line \in Seq(Frame) /\ <<>> \in Seq(Frame)
  BY HeldIsFrames, EmptySeq
<1>2. Line = Line \o (<<>> \o <<>>) /\ Line' = Line \o <<>>
  BY <1>1, ConcatEmptySeq
<1> QED BY <1>1, <1>2 DEF Shortens

LEMMA StillHeld ==
  ASSUME decode'.direct = decode.direct, process' = process,
         streambuf' = streambuf, outputbuf' = outputbuf
  PROVE  Line' = Line
BY DEF Line, Held

\* How sequences are put together does not matter.
LEMMA Regroup == \A s, t, u \in Seq(Frame) : (s \o t) \o u = s \o (t \o u)
BY ConcatAssociative

LEMMA TogetherIsFrames == \A s, t \in Seq(Frame) : s \o t \in Seq(Frame)
BY ConcatProperties

LEMMA Nothing ==
  ASSUME NEW s \in Seq(Frame)
  PROVE  s \o <<>> = s /\ <<>> \o s = s /\ <<>> \in Seq(Frame)
BY ConcatEmptySeq, EmptySeq

LEMMA DecodesLine ==
  ASSUME TypeOK, Control, Decodes \/ DecodeFails \/ WriteGivesUp
  PROVE  Shortens
<1>c. /\ process.in \in Seq(Frame) /\ process.kept \in Seq(Frame) /\ process.out \in Seq(Frame)
      /\ streambuf \in Seq(Frame) /\ outputbuf \in Seq(Frame)
  BY HeldIsFrames DEF TypeOK
<1>a. /\ process.in \in Seq(Frame) /\ process.kept \in Seq(Frame) /\ process.out \in Seq(Frame)
      /\ streambuf \in Seq(Frame) /\ outputbuf \in Seq(Frame)
      /\ process.kept \o process.in \in Seq(Frame)
  BY <1>c, ConcatProperties
<1>b. process \in ProcessType /\ decode \in DecodeType
  BY DEF TypeOK
<1>1. CASE Sample \/ CannotDecode \/ DecodeCompletes \/ DecodeFails
  <2>1. decode'.direct = decode.direct /\ process' = process
        /\ streambuf' = streambuf /\ outputbuf' = outputbuf
    BY <1>1, <1>b DEF Sample, CannotDecode, DecodeCompletes, DecodeFails, DecodeType
  <2> QED BY <2>1, StillHeld, SameLine
<1>2. CASE Decode
  <2>1. PICK active \in BOOLEAN, a \in Seq(Frame), b \in Seq(Frame) :
          /\ ~decode.new_stream => active = ~decode.direct
          /\ streambuf = a \o b /\ streambuf' = b
          /\ outputbuf' = IF active THEN outputbuf ELSE outputbuf \o a
          /\ process' = IF ~active THEN process
                        ELSE [process EXCEPT !.in = a,
                                !.kept = IF decode.new_stream THEN <<>> ELSE @]
          /\ decode' = [decode EXCEPT !.new_stream = FALSE, !.direct = ~active,
                          !.at = IF active /\ a # <<>> THEN "process" ELSE "idle"]
    BY <1>2, DecodeMoves
  <2>2. process.in = <<>> /\ process.out = <<>> /\ (decode.new_stream => decode.direct)
    BY <1>2 DEF Decode, Control, Places
  <2>3. decode'.direct = ~active /\ decode.direct \in BOOLEAN
    BY <1>b, <2>1 DEF DecodeType
  <2>4. CASE ~active
    <3>1. decode.direct
      BY <2>1, <2>2, <2>3, <2>4
    <3>2. Line = outputbuf \o (<<>> \o (a \o b)) /\ Line' = (outputbuf \o a) \o (<<>> \o b)
      BY <2>1, <2>3, <2>4, <3>1 DEF Line, Held
    <3>3. a \o b \in Seq(Frame)
      BY <1>a, <2>1
    <3>4. outputbuf \o (a \o b) = (outputbuf \o a) \o b
      <4>1. outputbuf \in Seq(Frame)
        BY <1>c
      <4> QED BY <4>1, Regroup
    <3>5. Line' = Line
      BY <3>2, <3>3, <3>4, Nothing
    <3> QED BY <3>5, SameLine
  <2>5. CASE active /\ decode.new_stream
    <3>1. process' = [process EXCEPT !.in = a, !.kept = <<>>]
      BY <2>1, <2>5
    <3>2. process'.in = a /\ process'.kept = <<>> /\ process'.out = <<>>
      BY <1>b, <2>2, <3>1 DEF ProcessType
    <3>3. Line = outputbuf \o (<<>> \o (a \o b)) /\ Line' = outputbuf \o ((<<>> \o (<<>> \o a)) \o b)
      BY <2>1, <2>2, <2>3, <2>5, <3>2 DEF Line, Held
    <3>4. a \o b \in Seq(Frame)
      BY <1>a, <2>1
    <3>5. Line' = Line
      BY <3>3, <3>4, Nothing
    <3> QED BY <3>5, SameLine
  <2>6. CASE active /\ ~decode.new_stream
    <3>1. process' = [process EXCEPT !.in = a] /\ ~decode.direct
      BY <1>b, <2>1, <2>3, <2>6 DEF ProcessType
    <3>2. process'.in = a /\ process'.kept = process.kept /\ process'.out = <<>>
      BY <1>b, <2>2, <3>1 DEF ProcessType
    <3>3. /\ Line = outputbuf \o ((<<>> \o (process.kept \o <<>>)) \o (a \o b))
          /\ Line' = outputbuf \o ((<<>> \o (process.kept \o a)) \o b)
      BY <2>1, <2>2, <2>3, <2>6, <3>1, <3>2 DEF Line, Held
    <3>4. process.kept \o a \in Seq(Frame)
      BY <1>a, ConcatProperties
    <3>5. Line' = Line
      <4>1. process.kept \o (a \o b) = (process.kept \o a) \o b
        <5>1. process.kept \in Seq(Frame)
          BY <1>c
        <5> QED BY <5>1, Regroup
      <4>2. <<>> \o (process.kept \o <<>>) = process.kept
        BY <1>a, Nothing
      <4>3. <<>> \o (process.kept \o a) = process.kept \o a
        BY <3>4, Nothing
      <4> QED BY <3>3, <4>1, <4>2, <4>3
    <3> QED BY <3>5, SameLine
  <2> QED BY <2>4, <2>5, <2>6
<1>3. CASE Resample
  <2>1. PICK a \in Seq(Frame), b \in Seq(Frame) :
          /\ process.kept \o process.in = a \o b
          /\ process' = [process EXCEPT !.in = <<>>, !.out = a, !.kept = b]
    BY <1>3, ResampleMoves
  <2>2. process.out = <<>> /\ ~decode.direct /\ decode'.direct = decode.direct
    BY <1>3, <1>b DEF Resample, Control, Places, LockD, Out, DecodeType
  <2>3. process'.in = <<>> /\ process'.out = a /\ process'.kept = b
    BY <1>b, <2>1 DEF ProcessType
  <2>4. /\ Line = outputbuf \o ((<<>> \o (a \o b)) \o streambuf)
        /\ Line' = outputbuf \o ((a \o (b \o <<>>)) \o streambuf)
    BY <1>3, <2>1, <2>2, <2>3 DEF Line, Held, Resample
  <2>5. a \o b \in Seq(Frame)
    BY ConcatProperties
  <2>6. Line' = Line
    BY <1>a, <2>4, <2>5, Nothing
  <2> QED BY <2>6, SameLine
<1>4. CASE WriteSamples
  <2>1. PICK a \in Seq(Frame), b \in Seq(Frame) :
          /\ process.out = a \o b
          /\ outputbuf' = outputbuf \o a /\ process' = [process EXCEPT !.out = b]
    BY <1>4, WriteMoves
  <2>2. ~decode.direct /\ decode'.direct = decode.direct
    BY <1>4, <1>b DEF WriteSamples, Control, Places, LockD, Out, DecodeType
  <2>3. process'.in = process.in /\ process'.out = b /\ process'.kept = process.kept
    BY <1>b, <2>1 DEF ProcessType
  <2>4. /\ Line = outputbuf \o (((a \o b) \o (process.kept \o process.in)) \o streambuf)
        /\ Line' = (outputbuf \o a) \o ((b \o (process.kept \o process.in)) \o streambuf)
    BY <1>4, <2>1, <2>2, <2>3 DEF Line, Held, WriteSamples
  <2>5. Line' = Line
    <3> DEFINE k == process.kept \o process.in
    <3>1. k \in Seq(Frame)
      BY <1>a
    <3> HIDE DEF k
    <3>2. (a \o b) \o k = a \o (b \o k) /\ b \o k \in Seq(Frame)
      BY SMTT(30), <2>1, <3>1, Regroup, TogetherIsFrames
    <3>3. (a \o (b \o k)) \o streambuf = a \o ((b \o k) \o streambuf)
          /\ (b \o k) \o streambuf \in Seq(Frame)
      <4> DEFINE w == b \o k
      <4>1. a \in Seq(Frame) /\ w \in Seq(Frame) /\ streambuf \in Seq(Frame)
        BY <1>c, <2>1, <3>2
      <4> HIDE DEF w
      <4>2. w \o streambuf \in Seq(Frame)
        BY <4>1, TogetherIsFrames
      <4>3. (a \o w) \o streambuf = a \o (w \o streambuf)
        BY <4>1, Regroup
      <4> QED BY <4>2, <4>3 DEF w
    <3>4. outputbuf \o (a \o ((b \o k) \o streambuf)) = (outputbuf \o a) \o ((b \o k) \o streambuf)
      <4>1. outputbuf \in Seq(Frame) /\ (b \o k) \o streambuf \in Seq(Frame)
        BY <1>c, <3>3
      <4> QED BY <4>1, Regroup
    <3> QED BY <2>4, <3>2, <3>3, <3>4 DEF k
  <2> QED BY <2>5, SameLine
<1>5. CASE WriteGivesUp
  <2> DEFINE k == process.kept \o process.in
  <2>1. ~decode.direct /\ decode'.direct = decode.direct
    BY <1>5, <1>b DEF WriteGivesUp, Control, Places, LockD, Out, DecodeType
  <2>2. process'.in = process.in /\ process'.out = <<>> /\ process'.kept = process.kept
    BY <1>5, <1>b DEF WriteGivesUp, ProcessType
  <2>3. /\ Line = outputbuf \o ((process.out \o k) \o streambuf)
        /\ Line' = outputbuf \o ((<<>> \o k) \o streambuf)
    BY <1>5, <2>1, <2>2 DEF Line, Held, WriteGivesUp
  <2>4. k \in Seq(Frame) /\ k \o streambuf \in Seq(Frame)
    BY <1>a, ConcatProperties
  <2> HIDE DEF k
  <2>5. Line = outputbuf \o (process.out \o (k \o streambuf)) /\ Line' = outputbuf \o (k \o streambuf)
    <3>1. process.out \in Seq(Frame) /\ k \in Seq(Frame) /\ streambuf \in Seq(Frame)
      BY <1>a, <2>4
    <3>2. (process.out \o k) \o streambuf = process.out \o (k \o streambuf)
      BY <3>1, Regroup
    <3> QED BY <2>3, <2>4, <3>2, Nothing
  <2> QED BY <1>a, <2>4, <2>5 DEF Shortens
<1>6. CASE Drain
  <2>1. /\ process.in = <<>> /\ process.out = <<>>
        /\ ~decode.direct /\ decode'.direct = decode.direct
    BY <1>6, <1>b DEF Drain, Control, Places, LockD, Out, DecodeType
  <2>2. CASE process.kept = <<>>
    <3>1. process'.in = <<>> /\ process'.out = <<>> /\ process'.kept = <<>>
      BY <1>6, <2>2 DEF Drain, Idle
    <3>2. Line' = Line
      BY <1>6, <2>1, <2>2, <3>1 DEF Drain, Line, Held
    <3> QED BY <3>2, SameLine
  <2>3. CASE process.kept # <<>>
    <3>1. PICK a \in Seq(Frame), b \in Seq(Frame) :
            process.kept = a \o b /\ process' = [process EXCEPT !.out = a, !.kept = b]
      BY <1>6, <2>3, DrainMoves
    <3>2. process'.in = <<>> /\ process'.out = a /\ process'.kept = b
      BY <1>b, <2>1, <3>1 DEF ProcessType
    <3>3. /\ Line = outputbuf \o ((<<>> \o (process.kept \o <<>>)) \o streambuf)
          /\ Line' = outputbuf \o ((a \o (b \o <<>>)) \o streambuf)
      BY <1>6, <2>1, <3>2 DEF Line, Held, Drain
    <3>4. Line' = Line
      BY <1>a, <3>1, <3>3, Nothing
    <3> QED BY <3>4, SameLine
  <2> QED BY <2>2, <2>3
<1> QED BY <1>1, <1>2, <1>3, <1>4, <1>5, <1>6 DEF Decodes

LEMMA CommandsLine ==
  ASSUME TypeOK, Control, Commands
  PROVE  Shortens
<1>a. /\ process.in \in Seq(Frame) /\ process.kept \in Seq(Frame) /\ process.out \in Seq(Frame)
      /\ streambuf \in Seq(Frame) /\ outputbuf \in Seq(Frame) /\ Held \in Seq(Frame)
      /\ Held \o streambuf \in Seq(Frame) /\ outputbuf \o Held \in Seq(Frame)
      /\ <<>> \in Seq(Frame)
  BY HeldIsFrames, ConcatProperties, EmptySeq DEF TypeOK
<1>b. process \in ProcessType /\ decode \in DecodeType
  BY DEF TypeOK
<1>1. CASE DecodeFlush
  <2>1. process.in = <<>> /\ process.out = <<>> /\ decode'.direct = decode.direct
    BY <1>1, <1>b DEF DecodeFlush, Control, Places, LockD, Out, DecodeType
  <2>2. CASE decode.direct
    <3>1. Line' = Line
      BY <1>1, <2>1, <2>2 DEF DecodeFlush, Line, Held
    <3> QED BY <3>1, SameLine
  <2>3. CASE ~decode.direct
    <3>1. process'.in = <<>> /\ process'.out = <<>> /\ process'.kept = <<>>
      BY <1>1, <1>b, <2>1, <2>3 DEF DecodeFlush, ProcessType
    <3>2. /\ Line = outputbuf \o ((<<>> \o (process.kept \o <<>>)) \o streambuf)
          /\ Line' = outputbuf \o ((<<>> \o (<<>> \o <<>>)) \o streambuf)
      BY <1>1, <2>1, <2>3, <3>1 DEF DecodeFlush, Line, Held
    <3>3. Line = outputbuf \o (process.kept \o streambuf) /\ Line' = outputbuf \o streambuf
      BY <1>a, <3>2, Nothing
    <3> QED BY <1>a, <3>3 DEF Shortens
  <2> QED BY <2>2, <2>3
<1>2. CASE OutputFlush
  <2>1. Held' = Held
    BY <1>2 DEF OutputFlush, Held
  <2>2. /\ Line = <<>> \o (outputbuf \o (Held \o streambuf))
        /\ Line' = <<>> \o (Held \o streambuf)
    <3>1. Line = outputbuf \o (Held \o streambuf) /\ Line' = <<>> \o (Held \o streambuf)
      BY <1>2, <2>1 DEF Line, OutputFlush
    <3> QED BY <3>1, HeldIsFrames, Nothing
  <2> QED BY <1>a, <2>2 DEF Shortens
<1>3. CASE StreamFlush \/ SockOpens
  <2>1. streambuf' = <<>> /\ outputbuf' = outputbuf /\ Held' = Held
    BY <1>3 DEF StreamFlush, SockOpens, Held
  <2>2. Line = (outputbuf \o Held) \o (streambuf \o <<>>) /\ Line' = (outputbuf \o Held) \o <<>>
    <3>1. Line = outputbuf \o (Held \o streambuf) /\ Line' = outputbuf \o (Held \o <<>>)
      BY <2>1 DEF Line
    <3>2. outputbuf \o (Held \o streambuf) = (outputbuf \o Held) \o streambuf
      <4>1. outputbuf \in Seq(Frame) /\ Held \in Seq(Frame) /\ streambuf \in Seq(Frame)
        BY <1>a
      <4> QED BY <4>1, Regroup
    <3> QED BY <1>a, <3>1, <3>2, Nothing
  <2> QED BY <1>a, <2>2 DEF Shortens
<1>4. CASE Start \/ StreamSock
  <2>1. Line' = Line
    BY <1>4, StillHeld DEF Start, StreamSock
  <2> QED BY <2>1, SameLine
<1>5. CASE CodecOpen
  <2>1. Held' = <<>>
    BY <1>5, <1>b DEF CodecOpen, Held, DecodeType
  <2>2. Line = outputbuf \o (Held \o streambuf) /\ Line' = outputbuf \o streambuf
    <3>1. Line' = outputbuf \o (<<>> \o streambuf)
      BY <1>5, <2>1 DEF CodecOpen, Line
    <3> QED BY <1>a, <3>1, Nothing DEF Line
  <2> QED BY <1>a, <2>2 DEF Shortens
<1> QED BY <1>1, <1>2, <1>3, <1>4, <1>5 DEF Commands

LEMMA RoundsLine ==
  ASSUME TypeOK, Rounds \/ SockFails \/ StreamEnds \/ UNCHANGED vars
         \/ (\E t \in 1..Tracks : PullsNothing(t)) \/ (\E command \in {"q1", "f1"} : Upset(command))
  PROVE  Line' = Line
<1>1. decode \in DecodeType
  BY DEF TypeOK
<1>2. decode'.direct = decode.direct /\ process' = process
      /\ streambuf' = streambuf /\ outputbuf' = outputbuf
  BY <1>1 DEF Rounds, RoundStarts, RoundEnds, SockFails, StreamEnds, vars, PullsNothing, Upset, DecodeType
<1> QED BY <1>2, StillHeld

\* What is said of the frames on the way is said of fewer of them too.
LEMMA ShorterIsOrdered ==
  ASSUME TypeOK, Ordered, Shortens, heard' = heard, NextFrame' = NextFrame
  PROVE  Ordered'
<1>1. PICK a \in Seq(Frame), b \in Seq(Frame), c \in Seq(Frame) :
        Line = a \o (b \o c) /\ Line' = a \o c
  BY DEF Shortens
<1>2. b \o c \in Seq(Frame)
  BY TogetherIsFrames
<1>3. Increasing(Line')
  <2>1. Increasing(a \o (b \o c))
    BY <1>1 DEF Ordered
  <2>2. Increasing(a) /\ Increasing(b \o c) /\ AllBefore(a, b \o c)
    BY <1>2, <2>1, IncreasingBoth
  <2>3. Increasing(c) /\ AllBefore(a, c)
    BY <2>2, IncreasingBoth, AllBeforeBoth
  <2> QED BY <1>1, <2>2, <2>3, IncreasingBoth
<1>4. AllBelow(Line', NextFrame')
  <2>1. AllBelow(a \o (b \o c), NextFrame)
    BY <1>1 DEF Ordered
  <2>2. AllBelow(a, NextFrame) /\ AllBelow(b \o c, NextFrame)
    BY <1>2, <2>1, AllBelowBoth
  <2>3. AllBelow(c, NextFrame)
    BY <2>2, AllBelowBoth
  <2>4. AllBelow(a \o c, NextFrame)
    BY <2>2, <2>3, AllBelowBoth
  <2> QED BY <1>1, <2>4
<1>5. ASSUME NEW t \in 1..Tracks PROVE AllBefore(heard[t], Line')
  <2>1. heard[t] \in Seq(Frame) /\ AllBefore(heard[t], a \o (b \o c))
    BY <1>1 DEF Ordered, TypeOK
  <2> DEFINE h == heard[t]
  <2> HIDE DEF h
  <2>2. h \in Seq(Frame) /\ AllBefore(h, a \o (b \o c))
    BY <2>1 DEF h
  <2>3. AllBefore(h, a) /\ AllBefore(h, b \o c)
    BY ZenonT(40), <1>2, <2>2, AllBeforeBoth
  <2>4. AllBefore(h, a \o c)
    BY <2>2, <2>3, AllBeforeBoth
  <2> QED BY <1>1, <2>4 DEF h
<1> QED BY <1>3, <1>4, <1>5 DEF Ordered

LEMMA ShorterIsForgotten ==
  ASSUME TypeOK, Forgotten, Shortens, slim'.flushed = slim.flushed
  PROVE  Forgotten'
<1>1. PICK a \in Seq(Frame), b \in Seq(Frame), c \in Seq(Frame) :
        Line = a \o (b \o c) /\ Line' = a \o c
  BY DEF Shortens
<1>2. b \o c \in Seq(Frame)
  BY TogetherIsFrames
<1> DEFINE n == slim.flushed
<1>3. AllAfter(a \o (b \o c), n)
  BY <1>1 DEF Forgotten
<1>4. AllAfter(a, n) /\ AllAfter(b \o c, n)
  BY <1>2, <1>3, AllAfterBoth
<1>5. AllAfter(a \o c, n)
  BY <1>4, AllAfterBoth
<1> QED BY <1>1, <1>5 DEF Forgotten

\* A frame that comes is behind all others, and of a track that is not flushed.
LEMMA ReceiveKeeps ==
  ASSUME TypeOK, Control, Ordered, Forgotten, Receive
  PROVE  Ordered' /\ Forgotten'
<1> DEFINE f == NextFrame
           g == <<stream.track, stream.sent + 2>>
<1>1. /\ stream.track \in 1..Tracks /\ stream.sent + 1 \in 1..Length
      /\ stream.track > slim.flushed /\ slim.flushed \in Nat
      /\ stream' = [stream EXCEPT !.sent = stream.sent + 1]
  <2>1. stream \in StreamType /\ slim.flushed \in Nat
    BY BoundsAreNat DEF TypeOK, SlimType
  <2>2. stream.state = "STREAMING" /\ stream.sent < Length
        /\ stream' = [stream EXCEPT !.sent = stream.sent + 1]
    BY DEF Receive
  <2>3. stream.track > slim.flushed
    BY <2>2 DEF Control, Commanded
  <2>4. stream.track \in 0..Tracks /\ stream.sent \in 0..Length
    BY <2>1 DEF StreamType
  <2>5. stream.track \in 1..Tracks /\ stream.sent + 1 \in 1..Length
    BY <2>1, <2>2, <2>3, <2>4, BoundsAreNat
  <2> QED BY <2>1, <2>2, <2>3, <2>5
<1>2. f \in Frame /\ f[1] = stream.track /\ f[2] = stream.sent + 1
  BY <1>1 DEF Frame, NextFrame
<1>3. NextFrame' = g
  BY <1>1 DEF NextFrame, TypeOK, StreamType
<1>4. <<f>> \in Seq(Frame) /\ Len(<<f>>) = 1 /\ <<f>>[1] = f
  BY <1>2
<1>5. Line' = Line \o <<f>> /\ Line \in Seq(Frame)
  <2>1. Held' = Held /\ outputbuf' = outputbuf /\ streambuf' = Append(streambuf, f)
    BY DEF Receive, Held, NextFrame
  <2>2. Append(streambuf, f) = streambuf \o <<f>> /\ streambuf \in Seq(Frame)
    BY <1>2, AppendIsConcat DEF TypeOK
  <2>3. Line' = outputbuf \o (Held \o (streambuf \o <<f>>))
    BY <2>1, <2>2 DEF Line
  <2>4. Held \in Seq(Frame) /\ outputbuf \in Seq(Frame)
    BY HeldIsFrames DEF TypeOK
  <2>5. Held \o (streambuf \o <<f>>) = (Held \o streambuf) \o <<f>> /\ Held \o streambuf \in Seq(Frame)
    BY <1>4, <2>2, <2>4, Regroup, TogetherIsFrames
  <2>6. outputbuf \o ((Held \o streambuf) \o <<f>>) = (outputbuf \o (Held \o streambuf)) \o <<f>>
    BY <1>4, <2>4, <2>5, Regroup
  <2> QED BY <2>3, <2>5, <2>6, HeldIsFrames DEF Line
<1>6. Before(f, g) /\ f[1] = g[1] /\ f[1] \in Nat /\ f[2] \in Nat /\ g[2] = f[2] + 1
  <2>1. g[1] = stream.track /\ g[2] = stream.sent + 2 /\ stream.sent \in Nat /\ stream.track \in Nat
    BY <1>1, BoundsAreNat DEF TypeOK, StreamType
  <2> HIDE DEF f, g
  <2> QED BY <1>2, <2>1 DEF Before
<1>7. ASSUME NEW s \in Seq(Frame), AllBelow(s, f) PROVE AllBelow(s, g) /\ AllBefore(s, <<f>>)
  <2>1. \A i \in 1..Len(s) : s[i] \in Frame /\ Before(s[i], f)
    BY <1>7, ElementOfSeq DEF AllBelow
  <2>2. ASSUME NEW h \in Frame, Before(h, f) PROVE Before(h, g)
    <3>1. h[1] \in Nat /\ h[2] \in Nat
      BY DEF Frame
    <3> HIDE DEF f, g
    <3> QED BY <1>6, <2>2, <3>1 DEF Before
  <2> HIDE DEF f, g
  <2>3. AllBelow(s, g)
    BY <2>1, <2>2 DEF AllBelow
  <2>4. AllBefore(s, <<f>>)
    BY <1>4, <2>1 DEF AllBefore
  <2> QED BY <2>3, <2>4
<1> HIDE DEF f, g
<1>8. AllBelow(<<f>>, g) /\ Increasing(<<f>>)
  BY <1>4, <1>6 DEF AllBelow, Increasing
<1>9. AllBelow(Line, f) /\ Increasing(Line)
  BY DEF Ordered, f
<1>10. AllBelow(Line, g) /\ AllBefore(Line, <<f>>)
  BY <1>5, <1>7, <1>9
<1>11. Increasing(Line') /\ AllBelow(Line', NextFrame')
  <2>1. Increasing(Line \o <<f>>)
    BY <1>4, <1>5, <1>8, <1>9, <1>10, IncreasingBoth
  <2>2. AllBelow(Line \o <<f>>, g)
    BY <1>4, <1>5, <1>8, <1>10, AllBelowBoth
  <2> QED BY <1>3, <1>5, <2>1, <2>2
<1>12. ASSUME NEW t \in 1..Tracks PROVE AllBefore(heard[t], Line') /\ AllBelow(heard[t], NextFrame')
  <2> DEFINE h == heard[t]
  <2>1. h \in Seq(Frame) /\ AllBefore(h, Line) /\ AllBelow(h, f)
    BY DEF Ordered, TypeOK, f
  <2> HIDE DEF h
  <2>2. AllBelow(h, g) /\ AllBefore(h, <<f>>)
    BY <1>7, <2>1
  <2>3. AllBefore(h, Line \o <<f>>)
    BY <1>4, <1>5, <2>1, <2>2, AllBeforeBoth
  <2> QED BY <1>3, <1>5, <2>2, <2>3 DEF h
<1>13. Ordered'
  BY <1>11, <1>12 DEF Ordered, Receive
<1>14. Forgotten'
  <2>1. AllAfter(<<f>>, slim.flushed)
    BY <1>1, <1>2, <1>4 DEF AllAfter
  <2>2. AllAfter(Line \o <<f>>, slim.flushed)
    BY <1>4, <1>5, <2>1, AllAfterBoth DEF Forgotten
  <2> QED BY <1>5, <2>2 DEF Forgotten, Receive
<1> QED BY <1>13, <1>14

\* The thread that pulls takes what is first.
LEMMA PullKeeps ==
  ASSUME TypeOK, Control, Ordered, Forgotten, NEW t \in 1..Tracks, Pull(t)
  PROVE  Ordered' /\ Forgotten'
<1>1. PICK a \in Seq(Frame), b \in Seq(Frame) :
        outputbuf = a \o b /\ outputbuf' = b /\ heard' = [heard EXCEPT ![t] = heard[t] \o a]
  BY PullMoves
<1> DEFINE r == Held \o streambuf
           rest == b \o r
<1>2. r \in Seq(Frame) /\ rest \in Seq(Frame)
  <2>1. Held \in Seq(Frame) /\ streambuf \in Seq(Frame)
    BY HeldIsFrames DEF TypeOK
  <2>2. r \in Seq(Frame)
    BY <2>1, TogetherIsFrames
  <2> HIDE DEF r
  <2> QED BY <2>2, TogetherIsFrames
<1>3. Line = a \o rest /\ Line' = rest
  <2>1. Line = (a \o b) \o r /\ Line' = b \o r
    BY <1>1 DEF Pull, Line, Held
  <2> HIDE DEF r
  <2> QED BY <1>2, <2>1, Regroup
<1> HIDE DEF r, rest
<1>4. NextFrame' = NextFrame /\ slim' = slim
  BY DEF Pull, NextFrame
<1>5. Increasing(a) /\ Increasing(rest) /\ AllBefore(a, rest)
  BY <1>2, <1>3, IncreasingBoth DEF Ordered
<1>6. AllBelow(a, NextFrame) /\ AllBelow(rest, NextFrame)
  <2> DEFINE f == NextFrame
  <2>1. AllBelow(a \o rest, f)
    BY <1>3 DEF Ordered
  <2> HIDE DEF f
  <2>2. AllBelow(a, f) /\ AllBelow(rest, f)
    BY <1>2, <2>1, AllBelowBoth
  <2> QED BY <2>2 DEF f
<1>7. ASSUME NEW u \in 1..Tracks
      PROVE  /\ heard[u] \in Seq(Frame) /\ Increasing(heard[u])
             /\ AllBefore(heard[u], a) /\ AllBefore(heard[u], rest) /\ AllBelow(heard[u], NextFrame)
  <2>1. heard[u] \in Seq(Frame) /\ AllBefore(heard[u], a \o rest)
    BY <1>3 DEF Ordered, TypeOK
  <2>2. AllBefore(heard[u], a) /\ AllBefore(heard[u], rest)
    BY <1>2, <2>1, AllBeforeBoth
  <2> QED BY <2>1, <2>2 DEF Ordered
<1>8. heard'[t] = heard[t] \o a /\ \A u \in 1..Tracks : u # t => heard'[u] = heard[u]
  BY <1>1 DEF TypeOK
<1>9. t = output.index
  BY DEF Pull, Control, Served
<1>10. /\ Increasing(heard'[t]) /\ AllBefore(heard'[t], rest) /\ AllBelow(heard'[t], NextFrame)
  <2> DEFINE h == heard[t]
             f == NextFrame
  <2>1. /\ h \in Seq(Frame) /\ Increasing(h)
        /\ AllBefore(h, a) /\ AllBefore(h, rest) /\ AllBelow(h, f) /\ AllBelow(a, f)
    BY <1>6, <1>7
  <2> HIDE DEF h, f
  <2>2. Increasing(h \o a)
    BY <1>5, <2>1, IncreasingBoth
  <2>3. AllBefore(h \o a, rest)
    BY <1>2, <1>5, <2>1, AllBeforeBoth
  <2>4. AllBelow(h \o a, f)
    BY <2>1, AllBelowBoth
  <2> QED BY <1>8, <2>2, <2>3, <2>4 DEF h, f
<1>11. ASSUME NEW u \in 1..Tracks, NEW w \in 1..Tracks, u < w
       PROVE  AllBefore(heard'[u], heard'[w])
  <2>1. CASE u # t /\ w # t
    BY <1>8, <1>11, <2>1 DEF Ordered
  <2>2. CASE w = t
    <3>1. AllBefore(heard[u], heard[t]) /\ u # t
      BY <1>11, <2>2 DEF Ordered
    <3>2. AllBefore(heard[u], heard[t] \o a)
      BY <1>7, <3>1, AllBeforeBoth
    <3> QED BY <1>8, <2>2, <3>1, <3>2
  <2>3. CASE u = t
    <3>1. heard[w] = <<>> /\ w # t
      <4>1. w > output.index
        BY <1>9, <1>11, <2>3
      <4> QED BY <1>9, <4>1, <1>11, <2>3 DEF Control, Served
    <3>2. heard'[w] = <<>>
      BY <1>8, <3>1
    <3> QED BY <3>2, EmptySeq DEF AllBefore
  <2> QED BY <2>1, <2>2, <2>3
<1>12. ASSUME NEW u \in 1..Tracks
       PROVE  Increasing(heard'[u]) /\ AllBefore(heard'[u], rest) /\ AllBelow(heard'[u], NextFrame)
  BY <1>7, <1>8, <1>10
<1>13. Ordered'
  BY <1>3, <1>4, <1>5, <1>6, <1>11, <1>12 DEF Ordered
<1>14. Forgotten'
  <2>1. AllAfter(rest, slim.flushed)
    BY <1>2, <1>3, AllAfterBoth DEF Forgotten
  <2> QED BY <1>3, <1>4, <2>1 DEF Forgotten
<1> QED BY <1>13, <1>14

\* A new stream is of a later track.
LEMMA StreamSockKeeps ==
  ASSUME TypeOK, Control, Ordered, Forgotten, StreamSock
  PROVE  Ordered' /\ Forgotten'
<1> DEFINE f == NextFrame
           g == <<output.index, 1>>
<1>1. /\ stream' = [state |-> "STREAMING", track |-> output.index, sent |-> 0]
      /\ stream.track < output.index /\ slim'.flushed = slim.flushed /\ heard' = heard
      /\ stream.track \in Nat /\ stream.sent \in Nat /\ output.index \in Nat
  BY BoundsAreNat DEF StreamSock, Control, Commanded, TypeOK, StreamType, OutputType, SlimType
<1>2. NextFrame' = g
  BY <1>1 DEF NextFrame
<1>3. Line' = Line
  BY StillHeld DEF StreamSock
<1>4. f[1] \in Nat /\ f[2] \in Nat /\ g[1] \in Nat /\ g[2] \in Nat /\ f[1] < g[1]
  BY <1>1 DEF NextFrame
<1>5. AllBelow(Line, f) /\ \A t \in 1..Tracks : AllBelow(heard[t], f)
  BY DEF Ordered
<1> HIDE DEF f, g
<1>6. ASSUME NEW s \in Seq(Frame), AllBelow(s, f) PROVE AllBelow(s, g)
  <2>1. \A i \in 1..Len(s) : s[i] \in Frame /\ Before(s[i], f)
    BY <1>6, ElementOfSeq DEF AllBelow
  <2>2. ASSUME NEW h \in Frame, Before(h, f) PROVE Before(h, g)
    <3>1. h[1] \in Nat /\ h[2] \in Nat
      BY DEF Frame
    <3> QED BY <1>4, <2>2, <3>1 DEF Before
  <2> QED BY <2>1, <2>2 DEF AllBelow
<1>7. AllBelow(Line, g) /\ \A t \in 1..Tracks : AllBelow(heard[t], g)
  BY <1>5, <1>6, HeldIsFrames DEF TypeOK
<1> QED BY <1>1, <1>2, <1>3, <1>7 DEF Ordered, Forgotten

LEMMA OrderInit == Init => Ordered /\ Forgotten
<1> SUFFICES ASSUME Init PROVE Ordered /\ Forgotten
  OBVIOUS
<1>1. Held = <<>>
  BY DEF Init, Held
<1>2. Line = <<>>
  <2>1. Line = <<>> \o (<<>> \o <<>>)
    BY <1>1 DEF Init, Line
  <2> QED BY <2>1, Nothing
<1>3. Len(<<>>) = 0 /\ \A t \in 1..Tracks : heard[t] = <<>>
  BY EmptySeq DEF Init
<1> QED BY <1>2, <1>3 DEF Ordered, Forgotten, Increasing, AllBefore, AllBelow, AllAfter

LEMMA OrderKeeps ==
  ASSUME TypeOK, Control, Ordered, Forgotten, [Next]_vars
  PROVE  Ordered' /\ Forgotten'
<1>a. stream \in StreamType /\ slim \in SlimType
  BY DEF TypeOK
<1>1. CASE Decodes \/ DecodeFails \/ WriteGivesUp
  <2>1. heard' = heard /\ stream' = stream /\ slim'.flushed = slim.flushed
    BY <1>1, <1>a DEF Decodes, DecodeFails, WriteGivesUp, Sample, CannotDecode, DecodeCompletes,
                      Decode, Resample, WriteSamples, Drain, SlimType
  <2>2. NextFrame' = NextFrame
    BY <2>1 DEF NextFrame
  <2> QED BY <1>1, <2>1, <2>2, DecodesLine, ShorterIsOrdered, ShorterIsForgotten
<1>2. CASE \/ Rounds \/ SockFails \/ StreamEnds \/ UNCHANGED vars
           \/ (\E t \in 1..Tracks : PullsNothing(t)) \/ (\E command \in {"q1", "f1"} : Upset(command))
  <2>1. /\ heard' = heard /\ slim'.flushed = slim.flushed
        /\ stream'.track = stream.track /\ stream'.sent = stream.sent
    BY <1>2, <1>a DEF Rounds, RoundStarts, RoundEnds, SockFails, StreamEnds, vars, PullsNothing,
                      Upset, StreamType, SlimType
  <2>2. NextFrame' = NextFrame
    BY <2>1 DEF NextFrame
  <2> QED BY <1>2, <2>1, <2>2, RoundsLine, SameLine, ShorterIsOrdered, ShorterIsForgotten
<1>3. CASE DecodeFlush \/ OutputFlush \/ Start \/ CodecOpen \/ SockOpens
  <2>1. heard' = heard /\ stream' = stream /\ slim'.flushed = slim.flushed
    BY <1>3, <1>a DEF DecodeFlush, OutputFlush, Start, CodecOpen, SockOpens, SlimType
  <2>2. NextFrame' = NextFrame
    BY <2>1 DEF NextFrame
  <2>3. Shortens
    BY <1>3, CommandsLine DEF Commands
  <2> QED BY <2>1, <2>2, <2>3, ShorterIsOrdered, ShorterIsForgotten
<1>4. CASE StreamFlush
  <2>1. heard' = heard /\ stream'.track = stream.track /\ stream'.sent = stream.sent
    BY <1>4, <1>a DEF StreamFlush, StreamType
  <2>2. NextFrame' = NextFrame
    BY <2>1 DEF NextFrame
  <2>3. Shortens
    BY <1>4, CommandsLine DEF Commands
  <2>4. Ordered'
    BY <2>1, <2>2, <2>3, ShorterIsOrdered
  <2>5. Line' = <<>>
    <3>1. outputbuf' = <<>> /\ Held' = <<>> /\ streambuf' = <<>>
      BY <1>4 DEF StreamFlush, Control, Commanded, Held
    <3>2. Line' = <<>> \o (<<>> \o <<>>)
      BY <3>1 DEF Line
    <3> QED BY <3>2, Nothing
  <2>6. Forgotten'
    BY <2>5, EmptySeq DEF Forgotten, AllAfter
  <2> QED BY <2>4, <2>6
<1> QED
  BY <1>1, <1>2, <1>3, <1>4, StreamSockKeeps, ReceiveKeeps, PullKeeps
  DEF Next, Streams, Commands

-----------------------------------------------------------------------------
(* Every frame of a track that is not resampled is somewhere.              *)

LEMMA KeptInit == Init => Kept
BY DEF Init, Kept

\* While neither the track nor what came of it changes, it is enough to see
\* where a frame goes.
LEMMA KeptElsewhere ==
  ASSUME Kept,
         /\ decode'.direct => decode.direct
         /\ decode'.state \in {"READY", "RUNNING", "COMPLETE"} =>
              decode.state \in {"READY", "RUNNING", "COMPLETE"}
         /\ stream'.track = stream.track /\ stream'.sent = stream.sent
         /\ output'.index = output.index,
         \A f : \/ Has(heard[output.index], f) \/ Has(outputbuf, f) \/ Has(streambuf, f)
               => \/ Has(heard'[output.index], f) \/ Has(outputbuf', f) \/ Has(streambuf', f)
  PROVE  Kept'
BY DEF Kept

LEMMA KeptKeeps ==
  ASSUME TypeOK, Control, Kept, [Next]_vars
  PROVE  Kept'
<1>a. /\ decode \in DecodeType /\ stream \in StreamType /\ output \in OutputType
      /\ streambuf \in Seq(Frame) /\ outputbuf \in Seq(Frame)
  BY DEF TypeOK
<1>1. CASE Receive
  <2> DEFINE n == stream.sent + 1
             f == <<stream.track, n>>
  <2>1. stream.track \in 1..Tracks /\ n \in 1..Length /\ n \in Nat /\ stream.sent \in Nat
    <3>1. /\ stream.track \in 0..Tracks /\ stream.sent \in 0..Length /\ slim.flushed \in 0..Tracks
          /\ stream.track > slim.flushed /\ stream.sent < Length
      BY <1>1 DEF Receive, Control, Commanded, TypeOK, StreamType, SlimType
    <3> QED BY <3>1, BoundsAreNat
  <2>2. f \in Frame
    BY <2>1 DEF Frame
  <2>3. streambuf' = Append(streambuf, f)
    BY <1>1 DEF Receive
  <2> HIDE DEF f
  <2>4. streambuf' = streambuf \o <<f>> /\ <<f>> \in Seq(Frame) /\ Has(<<f>>, f)
    BY <1>a, <2>2, <2>3, AppendIsConcat DEF Has
  <2>5. Has(streambuf', f) /\ \A g : Has(streambuf, g) => Has(streambuf', g)
    BY <1>a, <2>4, HasBoth
  <2>6. /\ stream'.sent = n /\ stream'.track = stream.track
        /\ decode' = decode /\ output' = output /\ heard' = heard /\ outputbuf' = outputbuf
    BY <1>1, <1>a DEF Receive, StreamType
  <2>7. ASSUME decode.direct, decode.state \in {"READY", "RUNNING", "COMPLETE"},
               stream.track = output.index, NEW k \in 1..n
        PROVE  \/ Has(heard[output.index], <<output.index, k>>)
               \/ Has(outputbuf, <<output.index, k>>) \/ Has(streambuf', <<output.index, k>>)
    <3>1. CASE k = n
      BY <2>5, <2>7, <3>1 DEF f
    <3>2. CASE k # n
      <4>1. k \in 1..stream.sent
        BY <2>1, <3>2
      <4> QED BY <2>5, <2>7, <4>1 DEF Kept
    <3> QED BY <3>1, <3>2
  <2> HIDE DEF n
  <2> QED BY <2>6, <2>7 DEF Kept
<1>2. CASE Decode
  <2>1. PICK active \in BOOLEAN, a \in Seq(Frame), b \in Seq(Frame) :
          /\ ~decode.new_stream => active = ~decode.direct
          /\ streambuf = a \o b /\ streambuf' = b
          /\ outputbuf' = IF active THEN outputbuf ELSE outputbuf \o a
          /\ decode' = [decode EXCEPT !.new_stream = FALSE, !.direct = ~active,
                          !.at = IF active /\ a # <<>> THEN "process" ELSE "idle"]
    BY <1>2, DecodeMoves
  <2>2. /\ decode'.direct = ~active /\ decode'.state = decode.state
        /\ heard' = heard /\ stream' = stream /\ output'.index = output.index
    BY <1>2, <1>a, <2>1 DEF Decode, DecodeType, OutputType
  <2>3. CASE active
    BY <2>2, <2>3 DEF Kept
  <2>4. CASE ~active
    <3>1. decode.direct
      BY <1>2, <1>a, <2>1, <2>4 DEF Control, Places, DecodeType
    <3>2. outputbuf' = outputbuf \o a
      BY <2>1, <2>4
    <3>3. ASSUME NEW f, \/ Has(heard[output.index], f) \/ Has(outputbuf, f) \/ Has(streambuf, f)
          PROVE  \/ Has(heard'[output.index], f) \/ Has(outputbuf', f) \/ Has(streambuf', f)
      <4>1. Has(outputbuf \o a, f) <=> Has(outputbuf, f) \/ Has(a, f)
        <5>1. outputbuf \in Seq(Frame)
          BY <1>a
        <5> QED BY <5>1, HasBoth
      <4>2. Has(a \o b, f) <=> Has(a, f) \/ Has(b, f)
        BY HasBoth
      <4> QED BY <2>1, <2>2, <3>2, <3>3, <4>1, <4>2
    <3> QED BY <2>2, <3>1, <3>3, KeptElsewhere
  <2> QED BY <2>3, <2>4
<1>3. CASE WriteSamples \/ Resample \/ WriteGivesUp \/ Drain
  <2>1. ~decode.direct /\ decode'.direct = decode.direct
    BY <1>3, <1>a DEF WriteSamples, Resample, WriteGivesUp, Drain, Control, Places, LockD, Out, DecodeType
  <2> QED BY <2>1 DEF Kept
<1>4. ASSUME NEW t \in 1..Tracks, Pull(t) PROVE Kept'
  <2>1. PICK a \in Seq(Frame), b \in Seq(Frame) :
          outputbuf = a \o b /\ outputbuf' = b /\ heard' = [heard EXCEPT ![t] = heard[t] \o a]
    BY <1>4, PullMoves
  <2>2. t = output.index /\ output'.index = output.index
        /\ decode' = decode /\ stream' = stream /\ streambuf' = streambuf
    BY <1>4, <1>a DEF Pull, Control, Served, OutputType
  <2>3. heard'[t] = heard[t] \o a /\ heard[t] \in Seq(Frame)
    BY <2>1 DEF TypeOK
  <2>4. ASSUME NEW f, \/ Has(heard[output.index], f) \/ Has(outputbuf, f) \/ Has(streambuf, f)
        PROVE  \/ Has(heard'[output.index], f) \/ Has(outputbuf', f) \/ Has(streambuf', f)
    <3>1. Has(heard[t] \o a, f) <=> Has(heard[t], f) \/ Has(a, f)
      <4> DEFINE h == heard[t]
      <4>1. h \in Seq(Frame)
        BY <2>3
      <4> HIDE DEF h
      <4>2. Has(h \o a, f) <=> Has(h, f) \/ Has(a, f)
        BY <4>1, HasBoth
      <4> QED BY <4>2 DEF h
    <3>2. Has(a \o b, f) <=> Has(a, f) \/ Has(b, f)
      BY HasBoth
    <3> QED BY <2>1, <2>2, <2>3, <2>4, <3>1, <3>2
  <2> QED BY <2>2, <2>4, KeptElsewhere
<1>5. CASE \/ Sample \/ CannotDecode \/ DecodeCompletes \/ DecodeFails \/ StreamEnds \/ SockFails
           \/ RoundStarts \/ RoundEnds \/ UNCHANGED vars
           \/ (\E t \in 1..Tracks : PullsNothing(t)) \/ (\E command \in {"q1", "f1"} : Upset(command))
  <2>1. /\ decode'.direct = decode.direct
        /\ decode'.state \in {"READY", "RUNNING", "COMPLETE"} =>
             decode.state \in {"READY", "RUNNING", "COMPLETE"}
    BY <1>5, <1>a DEF Sample, CannotDecode, DecodeCompletes, MayDecode, DecodeFails, StreamEnds, SockFails,
                      RoundStarts, RoundEnds, vars, PullsNothing, Upset, DecodeType
  <2>2. /\ stream'.track = stream.track /\ stream'.sent = stream.sent
        /\ output'.index = output.index
        /\ heard' = heard /\ outputbuf' = outputbuf /\ streambuf' = streambuf
    BY <1>5, <1>a DEF Sample, CannotDecode, DecodeCompletes, DecodeFails, StreamEnds, SockFails,
                      RoundStarts, RoundEnds, vars, PullsNothing, Upset, StreamType, OutputType
  <2> QED BY <2>1, <2>2, KeptElsewhere
<1>6. CASE DecodeFlush \/ OutputFlush \/ StreamFlush \/ Start
  <2>1. decode'.state = "STOPPED"
    BY <1>6, <1>a DEF DecodeFlush, OutputFlush, StreamFlush, Start, Control, Commanded, DecodeType
  <2> QED BY <2>1 DEF Kept
<1>7. CASE CodecOpen \/ SockOpens
  <2>1. stream'.track < output'.index /\ stream' = stream
    BY <1>7 DEF CodecOpen, SockOpens, Control, Commanded
  <2>2. stream'.track # output'.index
    BY <1>7, <1>a, <2>1 DEF CodecOpen, SockOpens, StreamType, OutputType
  <2> QED BY <2>2 DEF Kept
<1>8. CASE StreamSock
  <2>1. stream'.sent = 0
    BY <1>8 DEF StreamSock
  <2> QED BY <2>1 DEF Kept
<1> QED
  BY <1>1, <1>2, <1>3, <1>4, <1>5, <1>6, <1>7, <1>8
  DEF Next, Streams, Decodes, Rounds, Commands

-----------------------------------------------------------------------------
LEMMA Invariance == Spec => []IInv
<1>1. Init => IInv
  BY TypeInit, ControlInit, OrderInit, KeptInit DEF IInv
<1>2. IInv /\ [Next]_vars => IInv'
  <2> SUFFICES ASSUME IInv, [Next]_vars PROVE IInv'
    OBVIOUS
  <2>1. TypeOK /\ Control /\ Ordered /\ Forgotten /\ Kept /\ Commanded
    BY DEF IInv, Control
  <2> QED BY <2>1, TypeKeeps, ControlKeeps, OrderKeeps, KeptKeeps DEF IInv
<1> QED BY <1>1, <1>2, PTL DEF Spec

\* No buffer holds more than its size, and no frame is repeated or overtaken on
\* its way from the server to the device (stream.c, decode.c, process.c,
\* output.c: the pointers each thread moves under its lock).
THEOREM BuffersAreSound == Spec => []BuffersOK
<1>1. IInv => BuffersOK
  <2> SUFFICES ASSUME IInv PROVE BuffersOK
    OBVIOUS
  <2>1. ASSUME NEW t \in 1..Tracks, NEW u \in 1..Tracks,
               NEW i \in 1..Len(heard[t]), NEW j \in 1..Len(heard[u]),
               t < u \/ (t = u /\ i < j)
        PROVE  Before(heard[t][i], heard[u][j])
    <3>1. CASE t < u
      BY <3>1 DEF IInv, Ordered, AllBefore
    <3>2. CASE t = u /\ i < j
      BY <3>2 DEF IInv, Ordered, Increasing
    <3> QED BY <2>1, <3>1, <3>2
  <2> QED BY <2>1 DEF IInv, BuffersOK, InOrder
<1> QED BY <1>1, Invariance, PTL

\* A flushed track whose stream was closed does not come to outputbuf again
\* (process_strm: decode_flush, output_flush, stream_disconnect and buf_flush
\* in this order).
THEOREM FlushedIsForgotten == Spec => []FlushForgets
<1>1. IInv => FlushForgets
  <2> SUFFICES ASSUME IInv, NEW i \in 1..Len(outputbuf) PROVE outputbuf[i][1] > slim.flushed
    BY DEF FlushForgets
  <2> DEFINE r == Held \o streambuf
  <2>1. outputbuf \in Seq(Frame) /\ r \in Seq(Frame)
    BY HeldIsFrames, TogetherIsFrames DEF IInv, TypeOK
  <2>2. AllAfter(outputbuf \o r, slim.flushed)
    BY DEF IInv, Forgotten, Line
  <2> HIDE DEF r
  <2>3. AllAfter(outputbuf, slim.flushed)
    BY <2>1, <2>2, AllAfterBoth
  <2> QED BY <2>3 DEF AllAfter
<1> QED BY <1>1, Invariance, PTL

\* The thread of a track that is not resampled sees its end when it has pulled
\* all of it (output_http_thread: nothing pulled and a decoder that completed).
THEOREM DrainedIsWhole == Spec => EndIsWhole
<1> DEFINE Whole ==
      \A t \in 1..Tracks :
        threads[t] = "serving" /\ threads'[t] = "drained"
        /\ decode.direct /\ decode.state = "COMPLETE"
        => \A k \in 1..stream.sent : \E i \in 1..Len(heard[t]) : heard[t][i] = <<t, k>>
<1>1. IInv /\ [Next]_vars => [Whole]_vars
  <2> SUFFICES ASSUME IInv, [Next]_vars, NEW t \in 1..Tracks,
                      threads[t] = "serving", threads'[t] = "drained",
                      decode.direct, decode.state = "COMPLETE", NEW k \in 1..stream.sent
               PROVE  \E i \in 1..Len(heard[t]) : heard[t][i] = <<t, k>>
    OBVIOUS
  <2>1. \/ UNCHANGED threads \/ OutputFlush \/ CodecOpen
        \/ \E u \in 1..Tracks : PullsNothing(u)
    BY DEF vars, Next, Streams, Receive, StreamEnds, Decodes, Sample, CannotDecode, DecodeCompletes, Decode,
           Resample, WriteSamples, Drain, DecodeFails, SockFails, WriteGivesUp, Rounds, RoundStarts,
           RoundEnds, Commands, DecodeFlush, StreamFlush, Start, SockOpens, StreamSock, Pull, Upset
  <2>2. PullsNothing(t)
    <3>1. threads[t] # threads'[t]
      OBVIOUS
    <3>2. ~OutputFlush /\ ~CodecOpen
      BY <3>1 DEF OutputFlush, CodecOpen, IInv, TypeOK
    <3>3. ASSUME NEW u \in 1..Tracks, PullsNothing(u) PROVE u = t
      BY <3>1, <3>3 DEF PullsNothing, IInv, TypeOK
    <3> QED BY <2>1, <3>1, <3>2, <3>3
  <2>3. t = output.index /\ outputbuf = <<>>
    BY <2>2 DEF PullsNothing, IInv, Control, Served
  <2>4. stream.track = output.index /\ streambuf = <<>>
    BY DEF IInv, Control, FromSource
  <2>5. ~Has(<<>>, <<t, k>>)
    BY EmptySeq DEF Has
  <2>6. Has(heard[t], <<t, k>>)
    BY <2>3, <2>4, <2>5 DEF IInv, Kept
  <2> QED BY <2>6 DEF Has
<1> QED BY <1>1, Invariance, PTL DEF Spec, EndIsWhole
=============================================================================
