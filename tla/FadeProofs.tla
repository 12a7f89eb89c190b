----------------------------- MODULE FadeProofs -----------------------------
(***************************************************************************)
(* Proofs about Fade, for every number and length of tracks, every size of *)
(* outputbuf and every duration of the fades.                              *)
(***************************************************************************)
EXTENDS Fade, FiniteSetTheorems, SequenceTheorems, TLAPS

-----------------------------------------------------------------------------
(* The smallest of a few numbers.                                          *)

\* Least is what its name says of a set that has a least element.
LEMMA LeastOf ==
  ASSUME NEW S, \E x \in S : \A y \in S : x <= y
  PROVE  Least(S) \in S /\ \A y \in S : Least(S) <= y
BY DEF Least

LEMMA LeastTwo ==
  ASSUME NEW a \in Int, NEW b \in Int
  PROVE  /\ Least({a, b}) = IF a <= b THEN a ELSE b
         /\ Least({a, b}) \in Int
<1>1. \E x \in {a, b} : \A y \in {a, b} : x <= y BY SMT
<1>2. Least({a, b}) \in {a, b} /\ \A y \in {a, b} : Least({a, b}) <= y
  BY <1>1, LeastOf
<1> DEFINE m == Least({a, b})
<1>3. m \in {a, b} /\ m <= a /\ m <= b BY <1>2
<1> HIDE DEF m
<1>4. m = (IF a <= b THEN a ELSE b) /\ m \in Int BY <1>3
<1>5. QED BY <1>4 DEF m

LEMMA LeastFour ==
  ASSUME NEW a \in Int, NEW b \in Int, NEW c \in Int, NEW d \in Int
  PROVE  /\ Least({a, b, c, d}) \in {a, b, c, d}
         /\ Least({a, b, c, d}) <= a /\ Least({a, b, c, d}) <= b
         /\ Least({a, b, c, d}) <= c /\ Least({a, b, c, d}) <= d
<1>1. \E x \in {a, b, c, d} : \A y \in {a, b, c, d} : x <= y BY SMT
<1>2. QED BY <1>1, LeastOf

-----------------------------------------------------------------------------
(* Positions                                                               *)

Where == 0..Size - 1

\* Within one turn of the ring the remainder is a subtraction or an addition.
LEMMA Turn ==
  ASSUME NEW p \in Where, NEW n \in 0..Size
  PROVE  /\ Plus(p, n) = IF p + n < Size THEN p + n ELSE p + n - Size
         /\ Minus(p, n) = IF p >= n THEN p - n ELSE p - n + Size
         /\ Plus(p, n) \in Where /\ Minus(p, n) \in Where
<1>1. Size \in Nat /\ Size > 0 /\ p \in Nat /\ n \in Nat /\ p < Size /\ n <= Size
  BY FadeAssumption DEF Where
<1>2. \A a \in 0..Size - 1 : a % Size = a BY <1>1, SMT
<1>3. \A a \in Size..2 * Size - 1 : a % Size = a - Size BY <1>1, SMT
<1>4. \A a \in -Size..-1 : a % Size = a + Size BY <1>1, SMT
<1>5. Plus(p, n) = IF p + n < Size THEN p + n ELSE p + n - Size
  BY <1>1, <1>2, <1>3 DEF Plus
<1>6. Minus(p, n) = IF p >= n THEN p - n ELSE p - n + Size
  BY <1>1, <1>2, <1>4 DEF Minus
<1>7. QED BY <1>1, <1>5, <1>6 DEF Where

\* A distance is less than a turn, and none only from a position to itself.
LEMMA DistanceType ==
  ASSUME NEW a \in Where, NEW b \in Where
  PROVE  /\ Distance(a, b) \in Where
         /\ Distance(a, b) = 0 <=> a = b
BY FadeAssumption DEF Distance, Where

\* What lies n frames ahead or behind is n frames away.
LEMMA DistanceBy ==
  ASSUME NEW p \in Where, NEW n \in Where
  PROVE  Distance(Plus(p, n), p) = n /\ Distance(p, Minus(p, n)) = n
<1>1. n \in 0..Size BY FadeAssumption DEF Where
<1> DEFINE a == Plus(p, n)
           b == Minus(p, n)
<1>2. /\ a = IF p + n < Size THEN p + n ELSE p + n - Size
      /\ b = IF p >= n THEN p - n ELSE p - n + Size
  BY <1>1, Turn
<1> HIDE DEF a, b
<1>3. Distance(a, p) = n /\ Distance(p, b) = n
  BY <1>2, FadeAssumption DEF Distance, Where
<1>4. QED BY <1>3 DEF a, b

\* n frames before the m-th after r is the (m - n)-th.
LEMMA Back ==
  ASSUME NEW r \in Where, NEW m \in Where, NEW n \in 0..m
  PROVE  Distance(Minus(Plus(r, m), n), r) = m - n
<1>1. m \in 0..Size /\ n \in 0..Size /\ n <= m BY FadeAssumption DEF Where
<1> DEFINE w == Plus(r, m)
<1>2. w \in Where /\ w = IF r + m < Size THEN r + m ELSE r + m - Size BY <1>1, Turn
<1>3. Minus(w, n) = IF w >= n THEN w - n ELSE w - n + Size BY <1>1, <1>2, Turn
<1> HIDE DEF w
<1>4. Distance(Minus(w, n), r) = m - n
  BY <1>1, <1>2, <1>3, FadeAssumption DEF Distance, Where
<1>5. QED BY <1>4 DEF w

\* The read pointer comes closer to what is ahead of it.
LEMMA Closer ==
  ASSUME NEW p \in Where, NEW r \in Where, NEW n \in 0..Distance(p, r)
  PROVE  Distance(p, Plus(r, n)) = Distance(p, r) - n
<1>1. Distance(p, r) \in Where BY DistanceType
<1>2. n \in 0..Size BY <1>1, FadeAssumption DEF Where
<1> DEFINE a == Plus(r, n)
<1>3. a = IF r + n < Size THEN r + n ELSE r + n - Size BY <1>2, Turn
<1> HIDE DEF a
<1>4. Distance(p, a) = Distance(p, r) - n
  BY <1>1, <1>2, <1>3, FadeAssumption DEF Distance, Where
<1>5. QED BY <1>4 DEF a

\* And leaves what is behind it.
LEMMA Further ==
  ASSUME NEW p \in Where, NEW r \in Where, NEW n \in Nat, Distance(r, p) + n < Size
  PROVE  Distance(Plus(r, n), p) = Distance(r, p) + n
<1>1. Distance(r, p) \in Where BY DistanceType
<1>2. n \in 0..Size BY <1>1, FadeAssumption DEF Where
<1> DEFINE a == Plus(r, n)
<1>3. a = IF r + n < Size THEN r + n ELSE r + n - Size BY <1>2, Turn
<1> HIDE DEF a
<1>4. Distance(a, p) = Distance(r, p) + n
  BY <1>1, <1>2, <1>3, FadeAssumption DEF Distance, Where
<1>5. QED BY <1>4 DEF a

\* From the start of a fade to its end, by way of the read pointer.
LEMMA Between ==
  ASSUME NEW a \in Where, NEW b \in Where, NEW r \in Where,
         Distance(r, a) <= Distance(b, a)
  PROVE  Distance(b, r) = Distance(b, a) - Distance(r, a)
BY FadeAssumption DEF Distance, Where

LEMMA Ahead ==
  ASSUME NEW a \in Where, NEW b \in Where, NEW r \in Where,
         Distance(a, r) + Distance(b, a) < Size
  PROVE  Distance(b, r) = Distance(a, r) + Distance(b, a)
BY FadeAssumption DEF Distance, Where

\* A pull that stops before wrap, and at p when it is ahead, does not pass p.
LEMMA Stops ==
  ASSUME NEW p \in Where, NEW r \in Where, p # r, NEW n \in 0..Size - r,
         p > r => n <= p - r
  PROVE  n <= Distance(p, r)
BY FadeAssumption DEF Distance, Where

-----------------------------------------------------------------------------
(* Types                                                                   *)

Frame == Track \X Nat
Kinds == {"NONE", "CROSSFADE", "IN", "OUT", "INOUT"}
Dirs == {"none", "UP", "DOWN", "CROSS"}

Fades ==
  [state : {"INACTIVE", "DUE", "ACTIVE"}, dir : {"UP", "DOWN", "CROSS"},
   start : Where, end : Where, writep : Where \cup {None}]

Outputs ==
  [flow : BOOLEAN, wanted : Kinds, mode : Kinds, track_start : Where \cup {None},
   replay_gain : 0..Tracks, next_replay_gain : 0..Tracks, completed : BOOLEAN]

Decoders ==
  [state : {"STOPPED", "NEW", "RUNNING", "COMPLETE", "DONE"}, track : 0..Tracks,
   frames : Nat, length : [Track -> Lengths]]

Pulls ==
  [frames : Seq(Frame), mixed : Seq(Frame), dir : Dirs, gain : 0..Tracks, fault : BOOLEAN]

Pasts ==
  [heard : [Track -> Nat], mixed : [Track -> Nat], flushes : Nat, stale : BOOLEAN]

Types ==
  /\ outputbuf \in Seq(Frame) /\ Used < Size /\ readp \in Where
  /\ output \in Outputs /\ fade \in Fades /\ decode \in Decoders
  /\ pulled \in Pulls /\ past \in Pasts
  /\ decode.state # "STOPPED" => decode.track \in Track

LEMMA Numbers ==
  /\ Size \in Nat /\ Size >= 3 /\ 0 \in Where /\ Tracks \in Nat /\ Tracks >= 1
  /\ Secs \in Nat /\ Secs >= 2 /\ MinSpace \in Nat /\ MinSpace >= 1 /\ Size > MinSpace + 1
  /\ Secs \div 2 \in 1..Secs /\ (9 * Size) \div 10 \in 1..Size
  /\ \A t \in Lengths : t \in Nat /\ t >= 1
<1>1. /\ Size \in Nat /\ Secs \in Nat /\ MinSpace \in Nat /\ Tracks \in Nat
      /\ Size >= 3 /\ Secs >= 2 /\ MinSpace >= 1 /\ Size > MinSpace + 1 /\ Tracks >= 1
      /\ \A t \in Lengths : t \in Nat /\ t >= 1
  BY FadeAssumption
<1>2. 0 \in Where BY <1>1 DEF Where
<1>3. Secs \div 2 \in 1..Secs BY <1>1
<1>4. (9 * Size) \div 10 \in 1..Size BY <1>1
<1>5. QED BY <1>1, <1>2, <1>3, <1>4

LEMMA UsedType ==
  ASSUME Types
  PROVE  /\ Used \in 0..Size - 1 /\ Used \in Nat /\ Used \in Where /\ writep \in Where
         /\ ContRead \in 0..Used /\ ContRead <= Size - readp /\ ContRead \in Int
         /\ ContWrite \in Int /\ ContWrite <= Size - Used - 1
         /\ Distance(writep, readp) = Used
<1>1. Used \in Nat /\ Used < Size /\ readp \in Where /\ Size \in Nat
  BY Numbers, LenProperties DEF Types, Used
<1> HIDE DEF Used
<1>2. Used \in 0..Size - 1 /\ Used \in 0..Size /\ Used \in Where BY <1>1 DEF Where
<1>3. writep \in Where BY <1>1, <1>2, Turn DEF writep
<1>4. readp \in Nat /\ readp < Size /\ writep \in Nat /\ Size - readp \in Nat
  BY <1>1, <1>3 DEF Where
<1>5. ContRead = IF Used <= Size - readp THEN Used ELSE Size - readp
  BY <1>1, <1>4, LeastTwo DEF ContRead
<1> DEFINE b == IF writep >= readp THEN Size - writep ELSE Size
<1>6. b \in Int BY <1>1, <1>4
<1> HIDE DEF b
<1>7. /\ ContWrite = IF Size - Used - 1 <= b THEN Size - Used - 1 ELSE b
  BY <1>1, <1>6, LeastTwo DEF ContWrite, b
<1>8. Distance(writep, readp) = Used BY <1>1, <1>2, DistanceBy DEF writep
<1>9. QED BY <1>1, <1>2, <1>3, <1>4, <1>5, <1>6, <1>7, <1>8

\* The fades that _checkfade sets up.
LEMMA CrossFramesType ==
  ASSUME Types
  PROVE  /\ CrossFrames \in 0..Used /\ CrossFrames <= Secs
         /\ Used > 0 => CrossFrames >= 1
<1>1. Used \in Nat BY UsedType
<1> DEFINE a == Size - MinSpace - 1
           b == (9 * Size) \div 10
<1>2. a \in Int /\ a >= 1 /\ b \in Int /\ b >= 1 /\ Secs \in Int /\ Secs >= 2 BY Numbers
<1> DEFINE u == Used
           m == Least({Secs, u, a, b})
<1>0. u \in Int /\ Secs \in Int BY <1>1, <1>2
<1> HIDE DEF a, b, u
<1>3. m \in {Secs, u, a, b} /\ m <= Secs /\ m <= u
  BY <1>0, <1>2, LeastFour
<1> HIDE DEF m
<1>4. m \in 0..u /\ m <= Secs /\ (u > 0 => m >= 1) BY <1>1, <1>2, <1>3 DEF u
<1>5. QED BY <1>4 DEF m, a, b, u, CrossFrames

LEMMA FadeFramesType == FadeFrames \in 1..Secs
BY Numbers DEF FadeFrames

LEMMA FromType ==
  ASSUME fade \in Fades, NEW p \in Where, NEW n \in 0..Size, NEW dir \in {"UP", "DOWN", "CROSS"}
  PROVE  LET f == From(p, dir, n)
         IN  /\ f \in Fades /\ f.state = "DUE" /\ f.dir = dir
             /\ f.start = p /\ f.end = Plus(p, n) /\ f.writep = fade.writep
<1> DEFINE e == Plus(p, n)
           f == From(p, dir, n)
<1>1. e \in Where BY Turn
<1>2. f = [fade EXCEPT !.state = "DUE", !.dir = dir, !.start = p, !.end = e] BY DEF From
<1> HIDE DEF e, f
<1>3. /\ f \in Fades /\ f.state = "DUE" /\ f.dir = dir
      /\ f.start = p /\ f.end = e /\ f.writep = fade.writep
  BY <1>1, <1>2 DEF Fades
<1>4. QED BY <1>3 DEF e, f

LEMMA UpToType ==
  ASSUME fade \in Fades, NEW p \in Where, NEW n \in 0..Size, NEW dir \in {"UP", "DOWN", "CROSS"}
  PROVE  LET f == UpTo(p, dir, n)
         IN  /\ f \in Fades /\ f.state = "DUE" /\ f.dir = dir
             /\ f.start = Minus(p, n) /\ f.end = p /\ f.writep = fade.writep
<1> DEFINE e == Minus(p, n)
           f == UpTo(p, dir, n)
<1>1. e \in Where BY Turn
<1>2. f = [fade EXCEPT !.state = "DUE", !.dir = dir, !.start = e, !.end = p] BY DEF UpTo
<1> HIDE DEF e, f
<1>3. /\ f \in Fades /\ f.state = "DUE" /\ f.dir = dir
      /\ f.start = e /\ f.end = p /\ f.writep = fade.writep
  BY <1>1, <1>2 DEF Fades
<1>4. QED BY <1>3 DEF e, f

LEMMA CheckFadeStartType ==
  ASSUME Types
  PROVE  /\ CheckFadeStart \in Fades
         /\ CheckFadeStart.writep = fade.writep
         /\ LET n == Least({FadeFrames, Size - 1})
            IN  /\ n \in 1..Size - 1 /\ n <= FadeFrames
                /\ output.mode = "IN" \/ (output.mode = "INOUT" /\ Used = 0) =>
                     CheckFadeStart = From(writep, "UP", n)
<1>1. fade \in Fades /\ writep \in Where BY UsedType DEF Types
<1> DEFINE n == Least({FadeFrames, Size - 1})
<1>2. FadeFrames \in Int /\ FadeFrames >= 1 BY FadeFramesType, Numbers
<1>3. Size - 1 \in Int /\ Size - 1 >= 2 /\ Size \in Nat BY Numbers
<1>4. n = IF FadeFrames <= Size - 1 THEN FadeFrames ELSE Size - 1
  BY <1>2, <1>3, LeastTwo
<1> HIDE DEF n
<1>5. n \in 1..Size - 1 /\ n <= FadeFrames /\ n \in 0..Size BY <1>2, <1>3, <1>4
<1>6. CrossFrames \in 0..Size BY CrossFramesType, UsedType, Numbers
<1>7. CASE output.mode = "IN" \/ (output.mode = "INOUT" /\ Used = 0)
  <2>1. CheckFadeStart = From(writep, "UP", n) BY <1>7 DEF CheckFadeStart, n
  <2>2. From(writep, "UP", n) \in Fades /\ From(writep, "UP", n).writep = fade.writep
    BY <1>1, <1>5, FromType
  <2>3. QED BY <1>5, <2>1, <2>2 DEF n
<1>8. CASE /\ ~(output.mode = "IN" \/ (output.mode = "INOUT" /\ Used = 0))
           /\ output.mode = "CROSSFADE" /\ Used # 0
  <2>1. CheckFadeStart = UpTo(writep, "CROSS", CrossFrames) BY <1>8 DEF CheckFadeStart
  <2>2. /\ UpTo(writep, "CROSS", CrossFrames) \in Fades
        /\ UpTo(writep, "CROSS", CrossFrames).writep = fade.writep
    BY <1>1, <1>6, UpToType
  <2>3. QED BY <1>5, <1>8, <2>1, <2>2 DEF n
<1>9. CASE /\ ~(output.mode = "IN" \/ (output.mode = "INOUT" /\ Used = 0))
           /\ ~(output.mode = "CROSSFADE" /\ Used # 0)
  <2>1. CheckFadeStart = fade BY <1>9 DEF CheckFadeStart
  <2>2. QED BY <1>1, <1>5, <1>9, <2>1 DEF n
<1>10. QED BY <1>7, <1>8, <1>9

LEMMA CheckFadeEndType ==
  ASSUME Types
  PROVE  /\ CheckFadeEnd \in Fades
         /\ LET n == Least({FadeFrames, Used})
            IN  /\ n \in 0..Used /\ n <= FadeFrames
                /\ output.mode \in {"OUT", "INOUT"} /\ fade.state = "INACTIVE" =>
                     CheckFadeEnd = UpTo(writep, "DOWN", n)
<1>1. fade \in Fades /\ writep \in Where /\ Used \in Nat /\ Used < Size
  BY UsedType DEF Types
<1> DEFINE n == Least({FadeFrames, Used})
<1>2. FadeFrames \in Int /\ FadeFrames >= 1 /\ Size \in Nat BY FadeFramesType, Numbers
<1>3. n = IF FadeFrames <= Used THEN FadeFrames ELSE Used BY <1>1, <1>2, LeastTwo
<1> HIDE DEF n
<1>4. n \in 0..Used /\ n <= FadeFrames /\ n \in 0..Size BY <1>1, <1>2, <1>3
<1>5. CASE output.mode \in {"OUT", "INOUT"} /\ fade.state = "INACTIVE"
  <2>1. CheckFadeEnd = UpTo(writep, "DOWN", n) BY <1>5 DEF CheckFadeEnd, n
  <2>2. UpTo(writep, "DOWN", n) \in Fades BY <1>1, <1>4, UpToType
  <2>3. QED BY <1>4, <2>1, <2>2 DEF n
<1>6. CASE output.mode \in {"OUT", "INOUT"} /\ fade.state # "INACTIVE"
  <2>1. CheckFadeEnd = [fade EXCEPT !.writep = writep] BY <1>6 DEF CheckFadeEnd
  <2> DEFINE w == writep
  <2>2. w \in Where BY <1>1
  <2> HIDE DEF w
  <2>3. [fade EXCEPT !.writep = w] \in Fades BY <1>1, <2>2 DEF Fades
  <2>4. QED BY <1>4, <1>6, <2>1, <2>3 DEF n, w
<1>7. CASE output.mode \notin {"OUT", "INOUT"}
  <2>1. CheckFadeEnd = fade BY <1>7 DEF CheckFadeEnd
  <2>2. QED BY <1>1, <1>4, <1>7, <2>1 DEF n
<1>8. QED BY <1>5, <1>6, <1>7

LEMMA InitTypes == Init => Types
<1> SUFFICES ASSUME Init PROVE Types OBVIOUS
<1>1. PICK flow \in BOOLEAN, mode \in Modes, length \in [Track -> Lengths] :
        /\ output = [flow |-> flow, wanted |-> mode, mode |-> "NONE", track_start |-> None,
                     replay_gain |-> 0, next_replay_gain |-> 0, completed |-> TRUE]
        /\ decode = [state |-> "STOPPED", track |-> 0, frames |-> 0, length |-> length]
  BY DEF Init
<1>2. mode \in Kinds BY FadeAssumption DEF Kinds
<1>3. 0 \in 0..Tracks /\ 0 \in Where /\ 0 < Size BY Numbers
<1>4. output \in Outputs BY <1>1, <1>2, <1>3 DEF Outputs, Kinds
<1>5. decode \in Decoders /\ decode.state = "STOPPED" BY <1>1, <1>3 DEF Decoders
<1>6. outputbuf \in Seq(Frame) /\ Used < Size /\ readp \in Where
  BY <1>3, EmptySeq DEF Init, Used
<1>7. fade \in Fades BY <1>3 DEF Init, NoFade, Fades
<1>8. pulled \in Pulls
  <2>1. <<>> \in Seq(Frame) BY EmptySeq
  <2>2. QED BY <1>3, <2>1 DEF Init, Nothing, Pulls, Dirs
<1>9. past \in Pasts BY DEF Init, Pasts
<1>10. QED BY <1>4, <1>5, <1>6, <1>7, <1>8, <1>9 DEF Types

LEMMA NextTrackTypes ==
  ASSUME Types, NextTrack
  PROVE  Types'
<1>1. PICK mode \in {output.wanted, "NONE"} :
        output' = [output EXCEPT !.mode = mode, !.completed = FALSE,
                                 !.next_replay_gain = decode.track + 1]
  BY DEF NextTrack
<1> DEFINE t == decode.track + 1
<1>2. t \in Track /\ t \in 0..Tracks /\ decode.track \in 0..Tracks
  BY Numbers, SMTT(20) DEF NextTrack, Types, Decoders, Track
<1>3. decode' = [decode EXCEPT !.state = "NEW", !.track = t, !.frames = 0]
  BY DEF NextTrack
<1> HIDE DEF t
<1>4. decode' \in Decoders /\ decode'.track \in Track BY <1>2, <1>3 DEF Types, Decoders
<1>5. mode \in Kinds BY DEF Types, Outputs, Kinds
<1>6. output' \in Outputs BY <1>1, <1>2, <1>5 DEF Types, Outputs, t
<1>7. QED BY <1>4, <1>6 DEF NextTrack, Types, Used

LEMMA NewStreamTypes ==
  ASSUME Types, NewStream
  PROVE  Types'
<1>1. fade' \in Fades BY CheckFadeStartType DEF NewStream
<1> DEFINE w == writep
<1>2. w \in Where BY UsedType
<1>3. output' = [output EXCEPT !.track_start = w] BY DEF NewStream
<1> HIDE DEF w
<1>4. output' \in Outputs BY <1>2, <1>3 DEF Types, Outputs
<1>5. decode' \in Decoders /\ decode'.track = decode.track
  BY DEF Types, Decoders, NewStream
<1>6. QED BY <1>1, <1>4, <1>5 DEF NewStream, Types, Used

\* What is written follows what was there.
LEMMA Appended ==
  ASSUME NEW S, NEW a \in Seq(S), NEW b \in Seq(S)
  PROVE  /\ a \o b \in Seq(S) /\ Len(a \o b) = Len(a) + Len(b)
         /\ \A i \in 1..Len(a) : (a \o b)[i] = a[i]
         /\ \A i \in Len(a) + 1..Len(a) + Len(b) : (a \o b)[i] = b[i - Len(a)]
BY ConcatProperties

LEMMA DecodeTypes ==
  ASSUME Types, Decode
  PROVE  /\ Types'
         /\ \E n \in 1..Size - Used - 1 :
              /\ n <= Left
              /\ outputbuf' \in Seq(Frame) /\ Used' = Used + n
              /\ \A i \in 1..Used : outputbuf'[i] = outputbuf[i]
              /\ \A i \in Used + 1..Used + n :
                   outputbuf'[i] = <<decode.track, decode.frames + i - Used>>
              /\ decode' = [decode EXCEPT !.frames = @ + n]
<1> DEFINE t == decode.track
           f == decode.frames
<1>1. t \in Track /\ f \in Nat /\ decode \in Decoders BY DEF Decode, Types, Decoders
<1>2. decode.length[t] \in Nat BY <1>1, Numbers DEF Decoders
<1>3. Left \in Int BY <1>1, <1>2 DEF Left
<1>4. ContWrite \in Int /\ ContWrite <= Size - Used - 1 /\ Used \in Nat /\ Size \in Nat
  BY UsedType, Numbers
<1>5. PICK n \in 1..Least({Left, ContWrite}) :
        /\ outputbuf' = outputbuf \o [i \in 1..n |-> <<t, f + i>>]
        /\ decode' = [decode EXCEPT !.frames = f + n]
  BY DEF Decode
<1>6. Least({Left, ContWrite}) = (IF Left <= ContWrite THEN Left ELSE ContWrite)
  BY <1>3, <1>4, LeastTwo
<1>7. n \in 1..Size - Used - 1 /\ n <= Left /\ n \in Nat
  BY <1>3, <1>4, <1>5, <1>6
<1> HIDE DEF t, f
<1> DEFINE s == [i \in 1..n |-> <<t, f + i>>]
<1>8. s \in Seq(Frame) /\ Len(s) = n /\ \A i \in 1..n : s[i] = <<t, f + i>>
  <2>1. \A i \in 1..n : <<t, f + i>> \in Frame BY <1>1, <1>7 DEF Frame
  <2>2. QED BY <1>7, <2>1, IsASeq
<1>9. outputbuf' = outputbuf \o s BY <1>5
<1> HIDE DEF s
<1>10. outputbuf \in Seq(Frame) /\ Used = Len(outputbuf) BY DEF Types, Used
<1>11. /\ outputbuf' \in Seq(Frame) /\ Len(outputbuf') = Used + n
       /\ \A i \in 1..Used : outputbuf'[i] = outputbuf[i]
       /\ \A i \in Used + 1..Used + n : outputbuf'[i] = s[i - Used]
  <2>1. /\ outputbuf \o s \in Seq(Frame) /\ Len(outputbuf \o s) = Len(outputbuf) + Len(s)
        /\ \A i \in 1..Len(outputbuf) : (outputbuf \o s)[i] = outputbuf[i]
        /\ \A i \in Len(outputbuf) + 1..Len(outputbuf) + Len(s) :
             (outputbuf \o s)[i] = s[i - Len(outputbuf)]
    BY <1>8, <1>10, Appended
  <2>2. QED BY <1>8, <1>9, <1>10, <2>1
<1>12. \A i \in Used + 1..Used + n : i - Used \in 1..n /\ f + (i - Used) = f + i - Used
  BY <1>1, <1>4, <1>7
<1>13. Used' = Used + n BY <1>11 DEF Used
<1>14. decode' \in Decoders /\ decode'.state = decode.state /\ decode'.track = t
  BY <1>1, <1>5, <1>7, SMTT(20) DEF Decoders, t
<1>15. Types'
  <2>1. Used' < Size BY <1>4, <1>7, <1>13
  <2>2. QED BY <1>1, <1>11, <1>14, <2>1 DEF Decode, Types
<1>16. \A i \in Used + 1..Used + n : outputbuf'[i] = <<t, f + i - Used>>
  BY <1>8, <1>11, <1>12
<1>17. QED BY <1>5, <1>7, <1>11, <1>13, <1>15, <1>16 DEF t, f

LEMMA EndTypes ==
  ASSUME Types, DecodeCompletes \/ DecodeDone \/ Drain \/ Flush
  PROVE  Types'
<1>1. ASSUME DecodeCompletes PROVE Types'
  <2>1. decode' \in Decoders /\ decode.state = "RUNNING" /\ decode'.track = decode.track
    BY <1>1 DEF DecodeCompletes, Types, Decoders
  <2>2. QED BY <1>1, <2>1 DEF DecodeCompletes, Types, Used
<1>2. ASSUME DecodeDone PROVE Types'
  <2>1. fade' \in Fades BY <1>2, CheckFadeEndType DEF DecodeDone
  <2>2. decode' \in Decoders /\ decode.state = "COMPLETE" /\ decode'.track = decode.track
    BY <1>2 DEF DecodeDone, Types, Decoders
  <2>3. QED BY <1>2, <2>1, <2>2 DEF DecodeDone, Types, Used
<1>3. ASSUME Drain PROVE Types'
  <2>1. fade' \in Fades /\ output' \in Outputs BY <1>3 DEF Drain, Types, Fades, Outputs
  <2>2. QED BY <1>3, <2>1 DEF Drain, Types, Used
<1>4. ASSUME Flush PROVE Types'
  <2>1. fade' \in Fades /\ output' \in Outputs BY <1>4 DEF Flush, Types, Fades, Outputs
  <2>2. decode' \in Decoders /\ decode'.state = "STOPPED" BY <1>4 DEF Flush, Types, Decoders
  <2>3. past' \in Pasts
    <3> DEFINE b == past.stale \/ fade.state # "INACTIVE"
    <3>1. b \in BOOLEAN OBVIOUS
    <3>2. past' = [past EXCEPT !.flushes = @ + 1, !.stale = b,
                               !.heard[decode.track] = 0, !.mixed[decode.track] = 0]
      BY <1>4 DEF Flush
    <3> HIDE DEF b
    <3>3. past \in Pasts /\ past.flushes + 1 \in Nat BY DEF Types, Pasts
    <3> DEFINE h == [past.heard EXCEPT ![decode.track] = 0]
               m == [past.mixed EXCEPT ![decode.track] = 0]
    <3>4. h \in [Track -> Nat] /\ m \in [Track -> Nat] BY <3>3 DEF Pasts
    <3>5. past' = [past EXCEPT !.flushes = past.flushes + 1, !.stale = b,
                               !.heard = h, !.mixed = m]
      BY <3>2, <3>3 DEF Pasts
    <3> HIDE DEF h, m
    <3>6. QED BY <3>1, <3>3, <3>4, <3>5 DEF Pasts
  <2>4. outputbuf' = <<>> /\ outputbuf' \in Seq(Frame) /\ Len(outputbuf') = 0 /\ readp' = 0
    BY <1>4, EmptySeq DEF Flush
  <2>5. QED BY <1>4, <2>1, <2>2, <2>3, <2>4, Numbers DEF Flush, Types, Used
<1>5. QED BY <1>1, <1>2, <1>3, <1>4

-----------------------------------------------------------------------------
(* gain_and_fade, part by part                                             *)

Workings ==
  [output : Outputs, fade : Fades, readp : Where, used : Nat, frames : Nat, dir : Dirs]

\* What is left of a working record when only how much to pull is decided.
SameBut(g, h) ==
  /\ h.readp = g.readp /\ h.used = g.used /\ h.dir = g.dir
  /\ h.frames <= g.frames /\ (g.frames >= 1 => h.frames >= 1)

LEMMA ShortIs ==
  ASSUME NEW g \in Workings, NEW p \in Where
  PROVE  LET h == Short(g, p)
         IN  /\ h \in Workings /\ h.output = g.output /\ h.fade = g.fade
             /\ SameBut(g, h)
             /\ p > g.readp => h.frames <= p - g.readp
<1> DEFINE h == Short(g, p)
<1>1. g.frames \in Nat /\ g.readp \in Nat /\ p \in Nat BY Numbers DEF Workings, Where
<1>2. CASE p > g.readp
  <2> DEFINE m == Least({g.frames, p - g.readp})
  <2>1. h = [g EXCEPT !.frames = m] BY <1>2 DEF Short
  <2>2. m = IF g.frames <= p - g.readp THEN g.frames ELSE p - g.readp
    BY <1>1, LeastTwo
  <2> HIDE DEF m, h
  <2>3. m \in Nat /\ m <= g.frames /\ m <= p - g.readp /\ (g.frames >= 1 => m >= 1)
    BY <1>1, <1>2, <2>2
  <2>4. h \in Workings /\ h.output = g.output /\ h.fade = g.fade /\ h.frames = m
        /\ h.readp = g.readp /\ h.used = g.used /\ h.dir = g.dir
    BY <2>1, <2>3 DEF Workings
  <2>5. QED BY <2>3, <2>4 DEF h, SameBut
<1>3. CASE ~(p > g.readp)
  <2>1. h = g BY <1>3 DEF Short
  <2>2. QED BY <1>1, <1>3, <2>1 DEF SameBut
<1>4. QED BY <1>2, <1>3

\* The start of a track: reached, or not to be passed.
LEMMA AtTrackStartIs ==
  ASSUME NEW g \in Workings
  PROVE  LET h == AtTrackStart(g)
         IN  /\ h \in Workings /\ h.fade = g.fade /\ SameBut(g, h)
             /\ h.output.flow = g.output.flow /\ h.output.wanted = g.output.wanted
             /\ h.output.mode = g.output.mode /\ h.output.completed = g.output.completed
             /\ h.output.next_replay_gain = g.output.next_replay_gain
             /\ g.output.track_start = None => h.output = g.output
             /\ g.output.track_start = g.readp =>
                  /\ h.output.track_start = None
                  /\ h.output.replay_gain =
                       IF g.fade.state = "INACTIVE" \/ g.output.mode # "CROSSFADE"
                         THEN g.output.next_replay_gain ELSE g.output.replay_gain
             /\ g.output.track_start \notin {None, g.readp} =>
                  /\ h.output = g.output
                  /\ g.output.track_start > g.readp =>
                       h.frames <= g.output.track_start - g.readp
<1> DEFINE h == AtTrackStart(g)
<1>1. /\ g.output \in Outputs /\ g.readp \in Where /\ g.readp # None /\ g.frames \in Nat
      /\ g.output.track_start \in Where \cup {None}
  BY Numbers DEF Workings, Outputs, Where, None
<1>2. CASE g.output.track_start = None
  <2>1. h = g BY <1>1, <1>2 DEF AtTrackStart
  <2>2. QED BY <1>1, <1>2, <2>1 DEF SameBut
<1>3. CASE g.output.track_start = g.readp
  <2> DEFINE r == IF g.fade.state = "INACTIVE" \/ g.output.mode # "CROSSFADE"
                    THEN g.output.next_replay_gain ELSE g.output.replay_gain
             o == [g.output EXCEPT !.track_start = None, !.replay_gain = r]
  <2>1. h = [g EXCEPT !.output.track_start = None, !.output.replay_gain = r]
    BY <1>1, <1>3 DEF AtTrackStart
  <2>2. r \in 0..Tracks BY <1>1 DEF Outputs
  <2> HIDE DEF r
  <2>3. o \in Outputs /\ o.track_start = None /\ o.replay_gain = r
        /\ o.flow = g.output.flow /\ o.wanted = g.output.wanted /\ o.mode = g.output.mode
        /\ o.completed = g.output.completed /\ o.next_replay_gain = g.output.next_replay_gain
    BY <1>1, <2>2 DEF Outputs
  <2>4. h = [g EXCEPT !.output = o] BY <2>1 DEF Workings
  <2> HIDE DEF o, h
  <2>5. h \in Workings /\ h.output = o /\ h.fade = g.fade /\ h.readp = g.readp
        /\ h.used = g.used /\ h.dir = g.dir /\ h.frames = g.frames
    BY <2>3, <2>4 DEF Workings
  <2>6. SameBut(g, h) BY <1>1, <2>5 DEF SameBut
  <2>7. QED BY <1>1, <1>3, <2>3, <2>5, <2>6 DEF h, r
<1>4. CASE g.output.track_start \notin {None, g.readp}
  <2>1. h = Short(g, g.output.track_start) BY <1>4 DEF AtTrackStart
  <2>2. g.output.track_start \in Where BY <1>1, <1>4
  <2> HIDE DEF h
  <2>3. h \in Workings /\ h.output = g.output /\ h.fade = g.fade /\ SameBut(g, h)
        /\ (g.output.track_start > g.readp => h.frames <= g.output.track_start - g.readp)
    BY <2>1, <2>2, ShortIs
  <2>4. QED BY <1>4, <2>3 DEF h
<1>5. QED BY <1>2, <1>3, <1>4

\* The start of a fade.
LEMMA AtFadeStartIs ==
  ASSUME NEW g \in Workings
  PROVE  LET h == AtFadeStart(g)
         IN  /\ h \in Workings /\ h.output = g.output /\ SameBut(g, h)
             /\ h.fade.dir = g.fade.dir /\ h.fade.start = g.fade.start
             /\ h.fade.end = g.fade.end /\ h.fade.writep = g.fade.writep
             /\ g.fade.state # "DUE" => h = g
             /\ g.fade.state = "DUE" /\ g.fade.start = g.readp => h.fade.state = "ACTIVE"
             /\ g.fade.state = "DUE" /\ g.fade.start # g.readp =>
                  /\ h.fade.state = "DUE"
                  /\ g.fade.start > g.readp => h.frames <= g.fade.start - g.readp
<1> DEFINE h == AtFadeStart(g)
<1>1. /\ g.fade \in Fades /\ g.fade.start \in Where /\ g.frames \in Nat
  BY DEF Workings, Fades
<1>2. CASE g.fade.state # "DUE"
  <2>1. h = g BY <1>2 DEF AtFadeStart
  <2>2. QED BY <1>1, <1>2, <2>1 DEF SameBut
<1>3. CASE g.fade.state = "DUE" /\ g.fade.start = g.readp
  <2> DEFINE f == [g.fade EXCEPT !.state = "ACTIVE"]
  <2>1. f \in Fades /\ f.state = "ACTIVE" /\ f.dir = g.fade.dir /\ f.start = g.fade.start
        /\ f.end = g.fade.end /\ f.writep = g.fade.writep
    BY <1>1 DEF Fades
  <2>2. h = [g EXCEPT !.fade = f] BY <1>3 DEF AtFadeStart, Workings
  <2> HIDE DEF f, h
  <2>3. h \in Workings /\ h.output = g.output /\ h.fade = f /\ h.readp = g.readp
        /\ h.used = g.used /\ h.dir = g.dir /\ h.frames = g.frames
    BY <2>1, <2>2 DEF Workings
  <2>4. SameBut(g, h) BY <1>1, <2>3 DEF SameBut
  <2>5. QED BY <1>3, <2>1, <2>3, <2>4 DEF h
<1>4. CASE g.fade.state = "DUE" /\ g.fade.start # g.readp
  <2>1. h = Short(g, g.fade.start) BY <1>4 DEF AtFadeStart
  <2> HIDE DEF h
  <2>2. h \in Workings /\ h.output = g.output /\ h.fade = g.fade /\ SameBut(g, h)
        /\ (g.fade.start > g.readp => h.frames <= g.fade.start - g.readp)
    BY <1>1, <2>1, ShortIs
  <2>3. QED BY <1>4, <2>2 DEF h
<1>5. QED BY <1>2, <1>3, <1>4

\* What the end of a fade leaves alone.
SameWork(g, h) ==
  h.readp = g.readp /\ h.used = g.used /\ h.frames = g.frames /\ h.dir = g.dir

LEMMA LengthType ==
  ASSUME NEW g \in Workings
  PROVE  Duration(g) \in Where /\ Position(g) \in Where
BY DistanceType DEF Workings, Fades, Duration, Position

\* A fade out in flow mode that ends.
LEMMA UpAgainIs ==
  ASSUME NEW g \in Workings
  PROVE  LET h == UpAgain(g)
         IN  /\ h \in Workings /\ SameWork(g, h) /\ h.output = g.output
             /\ h.fade.state = g.fade.state /\ h.fade.dir = "UP" /\ h.fade.start = g.readp
             /\ h.fade.writep = g.fade.writep
             /\ Duration(h) = Duration(g) /\ Position(h) = 0
<1> DEFINE h == UpAgain(g)
           n == Duration(g)
           e == Plus(g.readp, n)
           f == [g.fade EXCEPT !.dir = "UP", !.start = g.readp, !.end = e]
<1>1. g.fade \in Fades /\ g.readp \in Where BY DEF Workings
<1>2. n \in Where /\ n \in 0..Size BY LengthType, Numbers DEF Where
<1>3. e \in Where BY <1>1, <1>2, Turn
<1>4. Distance(e, g.readp) = n /\ Distance(g.readp, g.readp) = 0
  BY <1>1, <1>2, DistanceBy, DistanceType
<1>5. h = [g EXCEPT !.fade = f] BY DEF UpAgain, Workings
<1> HIDE DEF n, e
<1>6. f \in Fades /\ f.state = g.fade.state /\ f.dir = "UP" /\ f.start = g.readp /\ f.end = e
      /\ f.writep = g.fade.writep
  BY <1>1, <1>3 DEF Fades
<1> HIDE DEF f, h
<1>7. h \in Workings /\ SameWork(g, h) /\ h.output = g.output /\ h.fade = f
  BY <1>5, <1>6 DEF Workings, SameWork
<1>8. Duration(h) = n /\ Position(h) = 0
  BY <1>4, <1>6, <1>7 DEF Duration, Position, SameWork
<1>9. QED BY <1>6, <1>7, <1>8 DEF h, n

\* A crossfade that ends.
LEMMA CrossCompleteIs ==
  ASSUME NEW g \in Workings
  PROVE  LET h == CrossComplete(g)
             skip == IF g.used >= Duration(g) THEN Duration(g) ELSE 0
         IN  /\ h \in Workings /\ h.frames = g.frames /\ h.dir = g.dir
             /\ h.readp = Plus(g.readp, skip) /\ h.used = g.used - skip
             /\ h.fade.state = "INACTIVE" /\ h.fade.dir = g.fade.dir
             /\ h.fade.writep = g.fade.writep
             /\ h.output = [g.output EXCEPT !.replay_gain = g.output.next_replay_gain]
             /\ h.output \in Outputs
<1> DEFINE h == CrossComplete(g)
           skip == IF g.used >= Duration(g) THEN Duration(g) ELSE 0
           r == Plus(g.readp, skip)
           f == [g.fade EXCEPT !.state = "INACTIVE"]
           o == [g.output EXCEPT !.replay_gain = g.output.next_replay_gain]
<1>1. g.fade \in Fades /\ g.readp \in Where /\ g.output \in Outputs /\ g.used \in Nat
  BY DEF Workings
<1>2. Duration(g) \in Where BY LengthType
<1>3. skip \in 0..Size /\ g.used - skip \in Nat BY <1>1, <1>2, Numbers DEF Where
<1> HIDE DEF skip
<1>4. r \in Where BY <1>1, <1>3, Turn
<1>5. h = [g EXCEPT !.readp = r, !.used = g.used - skip, !.fade = f, !.output = o]
  BY DEF CrossComplete, SkipMixed, skip, Workings
<1> HIDE DEF r
<1>6. f \in Fades /\ f.state = "INACTIVE" /\ f.dir = g.fade.dir /\ f.writep = g.fade.writep
  BY <1>1 DEF Fades
<1>7. o \in Outputs BY <1>1 DEF Outputs
<1> HIDE DEF f, h, o
<1>8. h \in Workings /\ h.frames = g.frames /\ h.dir = g.dir /\ h.readp = r
      /\ h.used = g.used - skip /\ h.fade = f /\ h.output = o
  BY <1>3, <1>4, <1>5, <1>6, <1>7 DEF Workings
<1>9. QED BY <1>6, <1>7, <1>8 DEF h, skip, r, o

\* Any other fade that ends.
LEMMA FadeCompleteIs ==
  ASSUME NEW g \in Workings
  PROVE  LET h == FadeComplete(g)
         IN  /\ h \in Workings /\ SameWork(g, h) /\ h.output = g.output
             /\ h.fade.state = "INACTIVE" /\ h.fade.writep = g.fade.writep
             /\ h.fade.dir \in {g.fade.dir, "DOWN"}
<1> DEFINE h == FadeComplete(g)
<1>1. g.fade \in Fades /\ g.used \in Nat BY DEF Workings
<1>2. CASE g.fade.writep = None
  <2> DEFINE f == [g.fade EXCEPT !.state = "INACTIVE"]
  <2>1. f \in Fades /\ f.state = "INACTIVE" /\ f.dir = g.fade.dir /\ f.writep = g.fade.writep
    BY <1>1 DEF Fades
  <2>2. h = [g EXCEPT !.fade = f] BY <1>2 DEF FadeComplete, Workings
  <2> HIDE DEF f, h
  <2>3. h \in Workings /\ SameWork(g, h) /\ h.output = g.output /\ h.fade = f
    BY <2>1, <2>2 DEF Workings, SameWork
  <2>4. QED BY <2>1, <2>3 DEF h
<1>3. CASE g.fade.writep # None
  <2> DEFINE w == g.fade.writep
             m == Least({Secs \div 2, g.used})
             s == Minus(w, m)
             f == [g.fade EXCEPT !.state = "INACTIVE", !.dir = "DOWN", !.end = w, !.start = s]
  <2>1. w \in Where BY <1>1, <1>3 DEF Fades
  <2>2. s \in Where
    <3>1. Minus(w, m) = (w - m) % Size BY DEF Minus
    <3>2. Secs \div 2 \in Int BY Numbers
    <3>3. m \in Int BY <1>1, <3>2, LeastTwo
    <3>4. w \in Int /\ Size \in Nat /\ Size > 0 BY <2>1, Numbers DEF Where
    <3> HIDE DEF w, m
    <3>5. (w - m) % Size \in 0..Size - 1 BY <3>3, <3>4
    <3>6. QED BY <3>1, <3>5 DEF Where
  <2>3. h = [g EXCEPT !.fade = f] BY <1>3 DEF FadeComplete, Workings
  <2> HIDE DEF w, s
  <2>4. f \in Fades /\ f.state = "INACTIVE" /\ f.dir = "DOWN" /\ f.writep = g.fade.writep
    BY <1>1, <2>1, <2>2 DEF Fades
  <2> HIDE DEF f, h
  <2>5. h \in Workings /\ SameWork(g, h) /\ h.output = g.output /\ h.fade = f
    BY <2>3, <2>4 DEF Workings, SameWork
  <2>6. QED BY <2>4, <2>5 DEF h
<1>4. QED BY <1>2, <1>3

\* The end of a fade, whichever it is.
Ends(g) == g.fade.state = "ACTIVE" /\ Position(g) >= Duration(g)

LEMMA AtFadeEndIs ==
  ASSUME NEW g \in Workings
  PROVE  LET h == AtFadeEnd(g)
         IN  /\ h \in Workings
             /\ ~Ends(g) => h = g
             /\ Ends(g) /\ g.output.mode = "INOUT" /\ g.fade.dir = "DOWN" => h = UpAgain(g)
             /\ Ends(g) /\ g.output.mode = "CROSSFADE" => h = CrossComplete(g)
             /\ Ends(g) /\ g.output.mode # "CROSSFADE"
                        /\ ~(g.output.mode = "INOUT" /\ g.fade.dir = "DOWN") =>
                  h = FadeComplete(g)
<1>1. Position(g) \in Int /\ Duration(g) \in Int BY LengthType, Numbers DEF Where
<1>2. Ends(g) <=> ~(g.fade.state # "ACTIVE" \/ Position(g) < Duration(g)) BY <1>1 DEF Ends
<1>3. UpAgain(g) \in Workings /\ CrossComplete(g) \in Workings /\ FadeComplete(g) \in Workings
  BY UpAgainIs, CrossCompleteIs, FadeCompleteIs
<1>4. QED BY <1>2, <1>3, Zenon DEF AtFadeEnd

\* Frames of a fade are pulled up to its end, and frames are mixed only while
\* there are more than the crossfade takes.
LEMMA InFadeIs ==
  ASSUME NEW g \in Workings
  PROVE  LET h == InFade(g)
         IN  /\ h \in Workings /\ h.output = g.output /\ h.fade = g.fade
             /\ h.readp = g.readp /\ h.used = g.used /\ h.dir = g.fade.dir
             /\ h.frames <= g.frames
             /\ g.fade.dir # "CROSS" /\ g.frames >= 1 => h.frames >= 1
             /\ g.fade.end > g.readp => h.frames <= g.fade.end - g.readp
             /\ g.fade.dir = "CROSS" /\ h.frames > 0 => h.frames + Duration(g) <= g.used
<1> DEFINE s == Short(g, g.fade.end)
           h == InFade(g)
           d == Duration(g)
<1>1. g.fade \in Fades /\ g.fade.end \in Where /\ g.used \in Nat /\ g.frames \in Nat
      /\ g.readp \in Nat
  BY Numbers DEF Workings, Fades, Where
<1>2. d \in Nat BY LengthType, Numbers DEF Where
<1>3. /\ s \in Workings /\ s.output = g.output /\ s.fade = g.fade /\ SameBut(g, s)
      /\ g.fade.end > g.readp => s.frames <= g.fade.end - g.readp
  BY <1>1, ShortIs
<1>4. s.frames \in Nat BY <1>3 DEF Workings
<1>5. CASE g.fade.dir # "CROSS"
  <2>1. h = [s EXCEPT !.dir = g.fade.dir] BY <1>5 DEF InFade
  <2>2. g.fade.dir \in Dirs BY <1>1 DEF Fades, Dirs
  <2> HIDE DEF s, h
  <2>3. h \in Workings /\ h.output = s.output /\ h.fade = s.fade /\ h.readp = s.readp
        /\ h.used = s.used /\ h.dir = g.fade.dir /\ h.frames = s.frames
    BY <1>3, <2>1, <2>2 DEF Workings
  <2>4. QED BY <1>3, <1>5, <2>3 DEF SameBut, h
<1>6. CASE g.fade.dir = "CROSS"
  <2> DEFINE c == IF g.used > d THEN Least({s.frames, g.used - d}) ELSE 0
  <2>1. h = [s EXCEPT !.dir = "CROSS", !.frames = c] BY <1>3, <1>6 DEF InFade, Workings
  <2> HIDE DEF s, h, d
  <2>2. c \in Nat /\ c <= s.frames /\ (c > 0 => c + d <= g.used)
    <3>1. Least({s.frames, g.used - d}) = IF s.frames <= g.used - d THEN s.frames ELSE g.used - d
      BY <1>1, <1>2, <1>4, LeastTwo
    <3> DEFINE l == Least({s.frames, g.used - d})
    <3>2. l = IF s.frames <= g.used - d THEN s.frames ELSE g.used - d BY <3>1
    <3> HIDE DEF l
    <3>3. QED BY <1>1, <1>2, <1>4, <3>2 DEF l
  <2> HIDE DEF c
  <2>3. h \in Workings /\ h.output = s.output /\ h.fade = s.fade /\ h.readp = s.readp
        /\ h.used = s.used /\ h.dir = "CROSS" /\ h.frames = c
    BY <1>3, <2>1, <2>2 DEF Workings, Dirs
  <2>4. s.frames <= g.frames /\ s.readp = g.readp /\ s.used = g.used BY <1>3 DEF SameBut
  <2>5. h.frames <= g.frames /\ (h.frames > 0 => h.frames + d <= g.used)
        /\ (g.fade.end > g.readp => h.frames <= g.fade.end - g.readp)
    <3>1. g.fade.end \in Nat BY <1>1, Numbers DEF Where
    <3>2. QED BY <1>1, <1>3, <1>4, <2>2, <2>3, <2>4, <3>1
  <2>6. QED BY <1>3, <1>6, <2>3, <2>4, <2>5 DEF h, d
<1>7. QED BY <1>5, <1>6

LEMMA AppliedIs ==
  ASSUME NEW g \in Workings
  PROVE  LET h == Applied(g)
         IN  /\ h \in Workings /\ h.output = g.output /\ h.readp = g.readp /\ h.used = g.used
             /\ g.fade.state = "ACTIVE" => h = InFade(g)
             /\ g.fade.state # "ACTIVE" =>
                  /\ h.frames = g.frames /\ h.dir = g.dir /\ h.fade.dir = g.fade.dir
                  /\ h.fade.state # "ACTIVE"
             /\ g.fade.state = "DUE" \/ (g.fade.state = "INACTIVE" /\ g.fade.writep = None) =>
                  h = g
<1> DEFINE h == Applied(g)
<1>1. g.fade \in Fades BY DEF Workings
<1>2. CASE g.fade.state = "ACTIVE"
  <2>1. h = InFade(g) BY <1>2 DEF Applied
  <2>2. QED BY <1>2, <2>1, InFadeIs
<1>3. CASE g.fade.state = "INACTIVE" /\ g.fade.writep # None
  <2> DEFINE f == [g.fade EXCEPT !.state = "DUE", !.writep = None]
  <2>1. f \in Fades /\ f.state = "DUE" /\ f.dir = g.fade.dir BY <1>1 DEF Fades
  <2>2. h = [g EXCEPT !.fade = f] BY <1>3 DEF Applied, Workings
  <2> HIDE DEF f, h
  <2>3. h \in Workings /\ SameWork(g, h) /\ h.output = g.output /\ h.fade = f
    BY <2>1, <2>2 DEF Workings, SameWork
  <2>4. QED BY <1>3, <2>1, <2>3 DEF h, SameWork
<1>4. CASE g.fade.state # "ACTIVE" /\ ~(g.fade.state = "INACTIVE" /\ g.fade.writep # None)
  <2>1. h = g BY <1>4 DEF Applied
  <2>2. QED BY <1>4, <2>1
<1>5. QED BY <1>2, <1>3, <1>4

-----------------------------------------------------------------------------
(* The output thread                                                       *)

\* gain_and_fade up to each of its parts.
Aligned(n) == AtTrackStart(Working(n))
Started(n) == AtFadeStart(Aligned(n))
Ended(n)   == AtFadeEnd(Started(n))

LEMMA StepsAre ==
  ASSUME Types, NEW n \in 1..ContRead
  PROVE  /\ Working(n) \in Workings /\ Aligned(n) \in Workings
         /\ Started(n) \in Workings /\ Ended(n) \in Workings
         /\ GainAndFade(n) \in Workings /\ GainAndFade(n) = Applied(Ended(n))
         /\ Started(n).readp = readp /\ Started(n).used = Used /\ Started(n).dir = "none"
         /\ Started(n).frames <= n /\ Started(n).frames >= 1
         /\ n \in Nat /\ n >= 1 /\ n <= Used /\ n <= Size - readp
<1>1. n \in Nat /\ n >= 1 /\ n <= Used /\ n <= Size - readp
  BY UsedType, Numbers DEF Where, Types
<1> DEFINE w == Working(n)
           a == Aligned(n)
           s == Started(n)
<1>2. w \in Workings /\ w.readp = readp /\ w.used = Used /\ w.dir = "none" /\ w.frames = n
  BY <1>1, UsedType DEF Working, Workings, Types, Dirs
<1>3. a = AtTrackStart(w) /\ s = AtFadeStart(a) /\ Ended(n) = AtFadeEnd(s)
  BY DEF Aligned, Started, Ended
<1>4. GainAndFade(n) = Applied(Ended(n)) BY DEF GainAndFade, Aligned, Started, Ended
<1> HIDE DEF w, a, s
<1>5. a \in Workings /\ SameBut(w, a) BY <1>2, <1>3, AtTrackStartIs
<1>6. s \in Workings /\ SameBut(a, s) BY <1>3, <1>5, AtFadeStartIs
<1>7. Ended(n) \in Workings BY <1>3, <1>6, AtFadeEndIs
<1>8. GainAndFade(n) \in Workings BY <1>4, <1>7, AppliedIs
<1>9. s.readp = readp /\ s.used = Used /\ s.dir = "none" /\ s.frames <= n /\ s.frames >= 1
  <2>1. a.frames \in Nat /\ s.frames \in Nat /\ w.frames \in Nat
    BY <1>2, <1>5, <1>6 DEF Workings
  <2>2. QED BY <1>1, <1>2, <1>5, <1>6, <2>1 DEF SameBut
<1>10. QED BY <1>1, <1>2, <1>4, <1>5, <1>6, <1>7, <1>8, <1>9 DEF w, a, s

LEMMA EndedIs ==
  ASSUME Types, NEW n \in 1..ContRead
  PROVE  LET e == Ended(n)
         IN  /\ e.used <= Used /\ e.used \in Nat /\ e.dir = "none"
             /\ e.frames = Started(n).frames
<1> DEFINE s == Started(n)
           e == Ended(n)
<1>1. s \in Workings /\ e \in Workings /\ s.used = Used /\ s.dir = "none" BY StepsAre
<1>2. e = AtFadeEnd(s) BY DEF Ended
<1>3. Used \in Nat /\ e.used \in Nat BY <1>1, UsedType DEF Workings
<1> HIDE DEF s, e
<1>4. CASE ~Ends(s) BY <1>1, <1>2, <1>3, <1>4, AtFadeEndIs DEF e, s
<1>5. CASE Ends(s) /\ s.output.mode = "INOUT" /\ s.fade.dir = "DOWN"
  <2>1. e = UpAgain(s) BY <1>1, <1>2, <1>5, AtFadeEndIs
  <2>2. QED BY <1>1, <1>3, <2>1, UpAgainIs DEF SameWork, e, s
<1>6. CASE Ends(s) /\ s.output.mode = "CROSSFADE"
  <2>1. e = CrossComplete(s) BY <1>1, <1>2, <1>6, AtFadeEndIs
  <2> DEFINE k == IF s.used >= Duration(s) THEN Duration(s) ELSE 0
  <2>2. e.frames = s.frames /\ e.dir = s.dir /\ e.used = s.used - k
    BY <1>1, <2>1, CrossCompleteIs
  <2>3. k \in Nat BY <1>1, LengthType, Numbers DEF Where
  <2> HIDE DEF k
  <2>4. QED BY <1>1, <1>3, <2>2, <2>3 DEF e, s
<1>7. CASE Ends(s) /\ s.output.mode # "CROSSFADE"
           /\ ~(s.output.mode = "INOUT" /\ s.fade.dir = "DOWN")
  <2>1. e = FadeComplete(s) BY <1>1, <1>2, <1>7, AtFadeEndIs
  <2>2. QED BY <1>1, <1>3, <2>1, FadeCompleteIs DEF SameWork, e, s
<1>8. QED BY <1>4, <1>5, <1>6, <1>7

LEMMA GainAndFadeIs ==
  ASSUME Types, NEW n \in 1..ContRead
  PROVE  LET g == GainAndFade(n)
         IN  /\ g \in Workings /\ g.used <= Used /\ g.used \in Nat /\ g.frames \in Nat
             /\ g.frames <= n
             /\ g.dir = "CROSS" /\ g.frames > 0 => g.frames + Duration(g) <= g.used
             /\ Duration(g) \in Nat
<1> DEFINE e == Ended(n)
           g == GainAndFade(n)
<1>1. /\ e \in Workings /\ g \in Workings /\ g = Applied(e)
      /\ e.used <= Used /\ e.dir = "none" /\ e.frames <= n /\ n \in Nat
  BY StepsAre, EndedIs
<1> HIDE DEF e, g
<1>2. g.used = e.used /\ g.used \in Nat /\ g.frames \in Nat /\ e.frames \in Nat
  BY <1>1, AppliedIs DEF Workings
<1>3. Duration(g) \in Nat BY <1>1, LengthType, Numbers DEF Where
<1>4. CASE e.fade.state = "ACTIVE"
  <2>1. g = InFade(e) BY <1>1, <1>4, AppliedIs
  <2>2. /\ g.frames <= e.frames /\ g.dir = e.fade.dir /\ g.fade = e.fade
        /\ e.fade.dir = "CROSS" /\ g.frames > 0 => g.frames + Duration(e) <= e.used
    BY <1>1, <2>1, InFadeIs
  <2>3. Duration(g) = Duration(e) BY <2>2 DEF Duration
  <2>4. QED BY <1>1, <1>2, <1>3, <2>2, <2>3 DEF g
<1>5. CASE e.fade.state # "ACTIVE"
  <2>1. g.frames = e.frames /\ g.dir = e.dir BY <1>1, <1>5, AppliedIs
  <2>2. QED BY <1>1, <1>2, <1>3, <2>1 DEF g
<1>6. QED BY <1>4, <1>5

\* What a step of the output thread takes, when nothing goes wrong.
Takes(g) ==
  /\ g.frames <= g.used /\ g.frames <= Size - g.readp
  /\ ~DividesByZero(g)
  /\ readp' = Plus(g.readp, g.frames)
  /\ outputbuf' \in Seq(Frame) /\ Used' = g.used - g.frames
  /\ \A i \in 1..Used' : outputbuf'[i] = outputbuf[Used - g.used + g.frames + i]
  /\ pulled'.frames \in Seq(Frame) /\ Len(pulled'.frames) = g.frames
  /\ \A i \in 1..g.frames : pulled'.frames[i] = outputbuf[Used - g.used + i]
  /\ pulled'.mixed \in Seq(Frame)
  /\ Len(pulled'.mixed) = IF g.dir = "CROSS" THEN g.frames ELSE 0
  /\ g.dir = "CROSS" => \A i \in 1..g.frames :
       pulled'.mixed[i] = outputbuf[Used - g.used + Duration(g) + i]
  /\ pulled'.dir = g.dir /\ pulled'.gain = g.output.replay_gain
  /\ past'.heard = [t \in Track |-> past.heard[t] + Of(pulled'.frames, t)]
  /\ past'.mixed = [t \in Track |-> past.mixed[t] + Of(pulled'.mixed, t)]

\* A part of a sequence.
LEMMA PartOf ==
  ASSUME NEW S, NEW s \in Seq(S), NEW a \in 1..Len(s) + 1, NEW b \in a - 1..Len(s)
  PROVE  /\ SubSeq(s, a, b) \in Seq(S) /\ Len(SubSeq(s, a, b)) = b - a + 1
         /\ \A i \in 1..b - a + 1 : SubSeq(s, a, b)[i] = s[a - 1 + i]
<1>1. Len(s) \in Nat BY LenProperties
<1>2. \A i \in a..b : s[i] \in S BY <1>1, ElementOfSeq
<1>3. a \in Int /\ b \in Int BY <1>1
<1>4. /\ SubSeq(s, a, b) \in Seq(S)
      /\ Len(SubSeq(s, a, b)) = IF a <= b THEN b - a + 1 ELSE 0
      /\ \A i \in 1..b - a + 1 : SubSeq(s, a, b)[i] = s[a + i - 1]
  BY <1>2, <1>3, SubSeqProperties
<1>5. Len(SubSeq(s, a, b)) = b - a + 1 BY <1>1, <1>3, <1>4
<1>6. \A i \in 1..b - a + 1 : a + i - 1 = a - 1 + i BY <1>3
<1>7. QED BY <1>4, <1>5, <1>6

LEMMA OfType ==
  ASSUME NEW s \in Seq(Frame), NEW t
  PROVE  Of(s, t) \in Nat
<1>1. DOMAIN s = 1..Len(s) /\ Len(s) \in Nat BY LenProperties
<1>2. IsFiniteSet(1..Len(s)) BY <1>1, FS_Interval
<1>3. IsFiniteSet({i \in DOMAIN s : s[i][1] = t}) BY <1>1, <1>2, FS_Subset
<1>4. QED BY <1>3, FS_CardinalityType DEF Of

\* Frames that are all of one track.
LEMMA OfOne ==
  ASSUME NEW s \in Seq(Frame), NEW t, \A i \in 1..Len(s) : s[i][1] = t
  PROVE  /\ Of(s, t) = Len(s)
         /\ \A u : u # t => Of(s, u) = 0
<1>1. DOMAIN s = 1..Len(s) /\ Len(s) \in Nat BY LenProperties
<1>2. {i \in DOMAIN s : s[i][1] = t} = 1..Len(s) BY <1>1
<1>3. Cardinality(1..Len(s)) = Len(s) BY <1>1, FS_Interval, SMTT(20)
<1>4. ASSUME NEW u, u # t PROVE Of(s, u) = 0
  <2>1. {i \in DOMAIN s : s[i][1] = u} = {} BY <1>1, <1>4
  <2>2. QED BY <2>1, FS_EmptySet DEF Of
<1>5. QED BY <1>2, <1>3, <1>4 DEF Of

\* What is left of outputbuf for a working record.
LEMMA KeptIs ==
  ASSUME Types, NEW g, g.used \in Nat, g.used <= Used
  PROVE  /\ Kept(g) \in Seq(Frame) /\ Len(Kept(g)) = g.used
         /\ \A i \in 1..g.used : Kept(g)[i] = outputbuf[Used - g.used + i]
<1>1. outputbuf \in Seq(Frame) /\ Used = Len(outputbuf) /\ Used \in Nat
  BY UsedType DEF Types, Used
<1> DEFINE a == Used - g.used + 1
<1>2. a \in 1..Len(outputbuf) + 1 /\ Used \in a - 1..Len(outputbuf) BY <1>1
<1> HIDE DEF a
<1>3. /\ SubSeq(outputbuf, a, Used) \in Seq(Frame)
      /\ Len(SubSeq(outputbuf, a, Used)) = Used - a + 1
      /\ \A i \in 1..Used - a + 1 : SubSeq(outputbuf, a, Used)[i] = outputbuf[a - 1 + i]
  BY <1>1, <1>2, PartOf
<1>4. Used - a + 1 = g.used /\ a - 1 = Used - g.used BY <1>1 DEF a
<1>5. Kept(g) = SubSeq(outputbuf, a, Used) BY DEF Kept, a
<1>6. QED BY <1>3, <1>4, <1>5

\* The frames that are mixed.
LEMMA MixedIs ==
  ASSUME Types, NEW g \in Workings, g.used <= Used,
         g.dir = "CROSS" /\ g.frames > 0 => g.frames + Duration(g) <= g.used
  PROVE  /\ Mixed(g) \in Seq(Frame)
         /\ Len(Mixed(g)) = IF g.dir = "CROSS" THEN g.frames ELSE 0
         /\ g.dir = "CROSS" => \A i \in 1..g.frames :
              Mixed(g)[i] = outputbuf[Used - g.used + Duration(g) + i]
<1>1. g.used \in Nat /\ g.frames \in Nat /\ Duration(g) \in Nat /\ Used \in Nat
  BY LengthType, UsedType, Numbers DEF Workings, Where
<1>2. CASE g.dir # "CROSS"
  <2>1. Mixed(g) = <<>> BY <1>2 DEF Mixed
  <2>2. QED BY <1>2, <2>1, EmptySeq
<1>3. CASE g.dir = "CROSS" /\ g.frames = 0
  <2> DEFINE k == Kept(g)
             d == Duration(g)
  <2>1. Mixed(g) = SubSeq(k, d + 1, d + 0) BY <1>3 DEF Mixed
  <2>2. d + 1 \in Int /\ d + 0 \in Int /\ d + 0 < d + 1 BY <1>1
  <2> HIDE DEF k, d
  <2>3. Mixed(g) = <<>> BY <2>1, <2>2, SubSeqEmpty
  <2>4. QED BY <1>3, <2>3, EmptySeq
<1>4. CASE g.dir = "CROSS" /\ g.frames > 0
  <2> DEFINE k == Kept(g)
             d == Duration(g)
             a == d + 1
             b == d + g.frames
  <2>1. k \in Seq(Frame) /\ Len(k) = g.used
        /\ \A i \in 1..g.used : k[i] = outputbuf[Used - g.used + i]
    BY <1>1, KeptIs
  <2>2. d \in Nat /\ g.frames + d <= g.used /\ g.frames \in Nat /\ g.used \in Nat
        /\ Len(k) = g.used
    BY <1>1, <1>4, <2>1
  <2>3. Mixed(g) = SubSeq(k, a, b) BY <1>4 DEF Mixed
  <2> HIDE DEF k, d
  <2> DEFINE f == g.frames
  <2>9. f \in Nat /\ d \in Nat /\ Len(k) \in Nat /\ f + d <= Len(k) BY <2>2
  <2> HIDE DEF f
  <2>4. a \in 1..Len(k) + 1 /\ b \in a - 1..Len(k) /\ b - a + 1 = g.frames /\ a - 1 = d
    <3>1. a \in Int /\ b \in Int /\ a - 1 = d /\ b - a + 1 = f BY <2>9 DEF f
    <3>2. a >= 1 /\ a <= Len(k) + 1 /\ a - 1 <= b /\ b <= Len(k) BY <2>9 DEF f
    <3>3. QED BY <2>9, <3>1, <3>2 DEF f
  <2> HIDE DEF a, b
  <2>5. /\ SubSeq(k, a, b) \in Seq(Frame) /\ Len(SubSeq(k, a, b)) = b - a + 1
        /\ \A i \in 1..b - a + 1 : SubSeq(k, a, b)[i] = k[a - 1 + i]
    BY <2>1, <2>4, PartOf
  <2>6. \A i \in 1..g.frames : d + i \in 1..g.used
                               /\ Used - g.used + (d + i) = Used - g.used + d + i
    BY <1>1, <2>2
  <2>7. \A i \in 1..g.frames : Mixed(g)[i] = outputbuf[Used - g.used + d + i]
    BY <2>1, <2>3, <2>4, <2>5, <2>6
  <2>8. QED BY <1>4, <2>3, <2>4, <2>5, <2>7 DEF d
<1>5. QED BY <1>1, <1>2, <1>3, <1>4

LEMMA FillIs ==
  ASSUME Types, Fill
  PROVE  /\ Types'
         /\ \E n \in 1..ContRead :
              LET g == GainAndFade(n)
              IN  /\ output' = g.output /\ fade' = g.fade /\ decode' = decode
                  /\ past'.stale = past.stale /\ past'.flushes = past.flushes
                  /\ ~pulled'.fault => Takes(g)
<1> DEFINE Does(g) ==
             LET frames == SubSeq(Kept(g), 1, g.frames)
             IN /\ pulled' = IF Overruns(g) \/ DividesByZero(g)
                               THEN [Nothing EXCEPT !.dir = g.dir, !.fault = TRUE]
                               ELSE [frames |-> frames, mixed |-> Mixed(g), dir |-> g.dir,
                                     gain |-> g.output.replay_gain, fault |-> FALSE]
                /\ output' = g.output /\ fade' = g.fade
                /\ IF Overruns(g) \/ DividesByZero(g)
                     THEN UNCHANGED <<outputbuf, readp, past>>
                     ELSE /\ readp' = Plus(g.readp, g.frames)
                          /\ outputbuf' = SubSeq(Kept(g), g.frames + 1, g.used)
                          /\ past' = [past EXCEPT
                               !.heard = [t \in Track |-> @[t] + Of(frames, t)],
                               !.mixed = [t \in Track |-> @[t] + Of(Mixed(g), t)]]
<1>0. \E g \in {GainAndFade(n) : n \in 1..ContRead} : Does(g) BY DEF Fill
<1> HIDE DEF Does
<1>1. PICK n \in 1..ContRead : Does(GainAndFade(n)) BY <1>0, Zenon
<1> USE DEF Does
<1> DEFINE g == GainAndFade(n)
           frames == SubSeq(Kept(g), 1, g.frames)
           mixed == Mixed(g)
<1>2. /\ g \in Workings /\ g.used <= Used /\ g.used \in Nat /\ g.frames \in Nat
      /\ g.dir = "CROSS" /\ g.frames > 0 => g.frames + Duration(g) <= g.used
  BY GainAndFadeIs
<1>3. decode' = decode BY DEF Fill
<1>4. CASE Overruns(g) \/ DividesByZero(g)
  <2>1. pulled' = [Nothing EXCEPT !.dir = g.dir, !.fault = TRUE]
        /\ output' = g.output /\ fade' = g.fade /\ UNCHANGED <<outputbuf, readp, past>>
    BY <1>1, <1>4
  <2> HIDE DEF g
  <2>2. pulled' \in Pulls /\ pulled'.fault
    <3>1. <<>> \in Seq(Frame) BY EmptySeq
    <3>2. g.dir \in Dirs /\ 0 \in 0..Tracks BY <1>2, Numbers DEF Workings
    <3>3. pulled' = [frames |-> <<>>, mixed |-> <<>>, dir |-> g.dir, gain |-> 0, fault |-> TRUE]
      BY <2>1 DEF Nothing
    <3>4. QED BY <3>1, <3>2, <3>3 DEF Pulls
  <2>3. output' \in Outputs /\ fade' \in Fades BY <1>2, <2>1 DEF Workings
  <2>4. Types' BY <1>3, <2>1, <2>2, <2>3 DEF Types, Used
  <2>5. QED BY <1>3, <2>1, <2>2, <2>4 DEF g
<1>5. CASE ~(Overruns(g) \/ DividesByZero(g))
  <2>1. /\ pulled' = [frames |-> frames, mixed |-> mixed, dir |-> g.dir,
                      gain |-> g.output.replay_gain, fault |-> FALSE]
        /\ output' = g.output /\ fade' = g.fade
        /\ readp' = Plus(g.readp, g.frames)
        /\ outputbuf' = SubSeq(Kept(g), g.frames + 1, g.used)
        /\ past' = [past EXCEPT !.heard = [t \in Track |-> @[t] + Of(frames, t)],
                                !.mixed = [t \in Track |-> @[t] + Of(mixed, t)]]
    BY <1>1, <1>5
  <2>2. ~Overruns(g) /\ ~DividesByZero(g) BY <1>5
  <2> HIDE DEF g
  <2>3. g.readp \in Where /\ Size \in Nat /\ Used \in Nat /\ Used < Size
    BY <1>2, UsedType, Numbers DEF Workings
  <2>4. g.frames <= g.used /\ g.frames <= Size - g.readp
    <3>1. Least({g.used, Size - g.readp}) = IF g.used <= Size - g.readp
            THEN g.used ELSE Size - g.readp
      BY <1>2, <2>3, LeastTwo DEF Where
    <3> DEFINE l == Least({g.used, Size - g.readp})
    <3>2. ~(g.frames > l) BY <2>2 DEF Overruns
    <3>3. l = (IF g.used <= Size - g.readp THEN g.used ELSE Size - g.readp) BY <3>1
    <3> HIDE DEF l
    <3>4. QED BY <1>2, <2>3, <3>2, <3>3 DEF Where
  <2> DEFINE k == Kept(g)
  <2>5. k \in Seq(Frame) /\ Len(k) = g.used
        /\ \A i \in 1..g.used : k[i] = outputbuf[Used - g.used + i]
    BY <1>2, KeptIs
  <2>6. frames = SubSeq(k, 1, g.frames) /\ outputbuf' = SubSeq(k, g.frames + 1, g.used)
    BY <2>1
  <2> HIDE DEF k, frames, mixed
  <2>7. /\ frames \in Seq(Frame) /\ Len(frames) = g.frames
        /\ \A i \in 1..g.frames : frames[i] = outputbuf[Used - g.used + i]
    <3>1. 1 \in 1..Len(k) + 1 /\ g.frames \in 1 - 1..Len(k) BY <1>2, <2>4, <2>5
    <3>2. /\ SubSeq(k, 1, g.frames) \in Seq(Frame)
          /\ Len(SubSeq(k, 1, g.frames)) = g.frames - 1 + 1
          /\ \A i \in 1..g.frames - 1 + 1 : SubSeq(k, 1, g.frames)[i] = k[1 - 1 + i]
      BY <2>5, <3>1, PartOf
    <3>3. g.frames - 1 + 1 = g.frames /\ \A i \in 1..g.frames : 1 - 1 + i = i /\ i \in 1..g.used
      BY <1>2, <2>4
    <3>4. QED BY <2>5, <2>6, <3>2, <3>3
  <2>8. /\ outputbuf' \in Seq(Frame) /\ Len(outputbuf') = g.used - g.frames
        /\ \A i \in 1..g.used - g.frames :
             outputbuf'[i] = outputbuf[Used - g.used + g.frames + i]
    <3> DEFINE a == g.frames + 1
    <3>1. a \in 1..Len(k) + 1 /\ g.used \in a - 1..Len(k) /\ g.used - a + 1 = g.used - g.frames
          /\ a - 1 = g.frames
      BY <1>2, <2>4, <2>5
    <3>2. outputbuf' = SubSeq(k, a, g.used) BY <2>6
    <3> HIDE DEF a
    <3>3. /\ SubSeq(k, a, g.used) \in Seq(Frame)
          /\ Len(SubSeq(k, a, g.used)) = g.used - a + 1
          /\ \A i \in 1..g.used - a + 1 : SubSeq(k, a, g.used)[i] = k[a - 1 + i]
      BY <2>5, <3>1, PartOf
    <3>4. \A i \in 1..g.used - g.frames : /\ g.frames + i \in 1..g.used
             /\ Used - g.used + (g.frames + i) = Used - g.used + g.frames + i
      BY <1>2, <2>3, <2>4
    <3>5. QED BY <2>5, <3>1, <3>2, <3>3, <3>4
  <2>9. Used' = g.used - g.frames BY <2>8 DEF Used
  <2>10. /\ mixed \in Seq(Frame) /\ Len(mixed) = IF g.dir = "CROSS" THEN g.frames ELSE 0
         /\ g.dir = "CROSS" => \A i \in 1..g.frames :
              mixed[i] = outputbuf[Used - g.used + Duration(g) + i]
    BY <1>2, MixedIs DEF mixed
  <2>11. /\ pulled'.frames = frames /\ pulled'.mixed = mixed /\ pulled'.dir = g.dir
         /\ pulled'.gain = g.output.replay_gain /\ ~pulled'.fault
    BY <2>1
  <2>12. pulled' \in Pulls
    <3>1. g.dir \in Dirs /\ g.output.replay_gain \in 0..Tracks BY <1>2 DEF Workings, Outputs
    <3>2. QED BY <2>1, <2>7, <2>10, <3>1 DEF Pulls
  <2> DEFINE h == [t \in Track |-> past.heard[t] + Of(frames, t)]
             m == [t \in Track |-> past.mixed[t] + Of(mixed, t)]
  <2>13. past \in Pasts BY DEF Types
  <2>14. past' = [past EXCEPT !.heard = h, !.mixed = m] BY <2>1, <2>13 DEF Pasts
  <2>15. h \in [Track -> Nat] /\ m \in [Track -> Nat]
    <3>1. \A t \in Track : past.heard[t] \in Nat /\ past.mixed[t] \in Nat
      BY <2>13 DEF Pasts
    <3>2. \A t \in Track : Of(frames, t) \in Nat /\ Of(mixed, t) \in Nat
      BY <2>7, <2>10, OfType
    <3>3. \A t \in Track : /\ past.heard[t] + Of(frames, t) \in Nat
                           /\ past.mixed[t] + Of(mixed, t) \in Nat
      BY <3>1, <3>2
    <3>4. QED BY <3>3
  <2> HIDE DEF h, m
  <2>16. past' \in Pasts /\ past'.heard = h /\ past'.mixed = m
         /\ past'.stale = past.stale /\ past'.flushes = past.flushes
    BY <2>13, <2>14, <2>15 DEF Pasts
  <2>17. readp' \in Where
    <3>1. g.frames \in 0..Size BY <1>2, <2>3, <2>4 DEF Where
    <3>2. QED BY <2>1, <2>3, <3>1, Turn
  <2>18. output' \in Outputs /\ fade' \in Fades BY <1>2, <2>1 DEF Workings
  <2>19. Used' < Size BY <1>2, <2>3, <2>9
  <2>20. Types'
    BY <1>3, <2>8, <2>12, <2>16, <2>17, <2>18, <2>19 DEF Types
  <2>21. Takes(g)
    BY <2>1, <2>2, <2>4, <2>7, <2>8, <2>9, <2>10, <2>11, <2>16 DEF Takes, h, m
  <2>22. QED BY <1>3, <2>1, <2>16, <2>20, <2>21 DEF g
<1>6. QED BY <1>4, <1>5

LEMMA TypesAreOK == Types => TypeOK
BY UsedType DEF Types, TypeOK, Fades, Outputs, Decoders, Frame, Where

LEMMA NextTypes ==
  ASSUME Types, [Next]_vars
  PROVE  Types'
<1>1. ASSUME NextTrack PROVE Types' BY <1>1, NextTrackTypes
<1>2. ASSUME Decodes PROVE Types'
  BY <1>2, NewStreamTypes, DecodeTypes, EndTypes DEF Decodes
<1>3. ASSUME Fill PROVE Types' BY <1>3, FillIs
<1>4. ASSUME Drain \/ Flush PROVE Types' BY <1>4, EndTypes
<1>5. ASSUME UNCHANGED vars PROVE Types' BY <1>5 DEF vars, Types, Used
<1>6. QED BY <1>1, <1>2, <1>3, <1>4, <1>5 DEF Next

-----------------------------------------------------------------------------
(***************************************************************************)
(* The order of the frames.  Outputbuf holds, in this order, what is left  *)
(* of the track before (`Rest` frames) and what was decoded of the track   *)
(* that is being decoded (`Own` frames); the mark of the start of a track  *)
(* is where the one ends and the other begins; and a crossfade ends there. *)
(***************************************************************************)

Now  == decode.track
Own  == decode.frames - Gone(Now)
Rest == Used - Own

Progress ==
  /\ \A t \in Track : t > Now => past.heard[t] = 0 /\ past.mixed[t] = 0
  /\ decode.state # "STOPPED" => decode.frames <= decode.length[Now]
  /\ decode.state = "NEW" => decode.frames = 0
  /\ decode.state \in {"COMPLETE", "DONE"} => decode.frames = decode.length[Now]
  /\ ~output.flow /\ output.completed => Used = 0 /\ decode.state \notin {"NEW", "RUNNING"}
  /\ decode.state = "STOPPED" => Used = 0

Holds ==
  decode.state # "STOPPED" =>
    /\ Own >= 0 /\ Rest >= 0
    /\ \A i \in 1..Used :
         /\ i <= Rest => outputbuf[i] = <<Now - 1, decode.length[Now - 1] - Rest + i>>
         /\ i > Rest => outputbuf[i] = <<Now, decode.frames - Used + i>>
    /\ Rest > 0 => /\ output.flow /\ Now > 1 /\ past.heard[Now] = 0 /\ past.heard[Now - 1] > 0
                   /\ Gone(Now - 1) + Rest = decode.length[Now - 1]

Marks ==
  /\ output.next_replay_gain = Now
  /\ decode.state \in {"STOPPED", "NEW"} => output.track_start = None
  /\ decode.state = "NEW" /\ Used > 0 => output.replay_gain = Now - 1
  /\ decode.state \notin {"STOPPED", "NEW"} /\ output.track_start = None =>
       Rest = 0 /\ output.replay_gain = Now /\ past.heard[Now] > 0
  /\ decode.state \notin {"STOPPED", "NEW"} /\ output.track_start # None =>
       /\ past.heard[Now] = 0 /\ Distance(output.track_start, readp) = Rest
       /\ Rest > 0 => output.replay_gain = Now - 1

FadeLength == Distance(fade.end, fade.start)
FadeDone   == Distance(readp, fade.start)

\* Frames are mixed for crossfades only, and nothing else fades then.
NoCross ==
  /\ fade.dir # "CROSS" /\ output.mode # "CROSSFADE"
  /\ \A t \in Track : past.mixed[t] = 0

Crossing ==
  /\ decode.state \notin {"STOPPED", "NEW"}
  /\ fade.dir = "CROSS" /\ output.mode = "CROSSFADE"
  /\ fade.end = output.track_start /\ FadeLength \in 1..Secs
  /\ fade.state = "DUE" => Distance(fade.start, readp) + FadeLength = Rest
  /\ fade.state = "ACTIVE" => /\ FadeDone + Rest = FadeLength /\ past.mixed[Now] = FadeDone
                              /\ FadeDone > 0 => Used >= FadeLength

Crosses ==
  /\ output.wanted # "CROSSFADE" => NoCross
  /\ output.wanted = "CROSSFADE" =>
       /\ fade.writep = None /\ output.mode \in {"CROSSFADE", "NONE"}
       /\ (Now \in Track /\ past.heard[Now] = 0 /\ fade.state # "ACTIVE") => past.mixed[Now] = 0
       /\ fade.state # "INACTIVE" => Crossing

Order == Progress /\ Holds /\ Marks /\ Crosses

-----------------------------------------------------------------------------
LEMMA Parts ==
  ASSUME Types
  PROVE  /\ Used \in Nat /\ Used < Size /\ readp \in Where /\ writep \in Where
         /\ output \in Outputs /\ output.track_start \in Where \cup {None}
         /\ fade \in Fades /\ fade.start \in Where /\ fade.end \in Where
         /\ decode \in Decoders /\ decode.track \in 0..Tracks /\ decode.frames \in Nat
         /\ decode.length \in [Track -> Lengths]
         /\ \A t \in Track : /\ decode.length[t] \in Nat /\ decode.length[t] >= 1
                             /\ past.heard[t] \in Nat /\ past.mixed[t] \in Nat
                             /\ Gone(t) \in Nat
         /\ decode.state # "STOPPED" => Now \in Track /\ Own \in Int /\ Rest \in Int
         /\ None \notin Where
<1>1. Used \in Nat /\ Used < Size /\ readp \in Where /\ writep \in Where
  BY UsedType, Numbers DEF Types
<1>2. /\ output \in Outputs /\ output.track_start \in Where \cup {None}
      /\ fade \in Fades /\ fade.start \in Where /\ fade.end \in Where
      /\ decode \in Decoders /\ decode.track \in 0..Tracks /\ decode.frames \in Nat
      /\ decode.length \in [Track -> Lengths]
  BY DEF Types, Outputs, Fades, Decoders
<1>3. past.heard \in [Track -> Nat] /\ past.mixed \in [Track -> Nat] BY DEF Types, Pasts
<1>4. ASSUME NEW t \in Track
      PROVE  /\ decode.length[t] \in Nat /\ decode.length[t] >= 1
             /\ past.heard[t] \in Nat /\ past.mixed[t] \in Nat /\ Gone(t) \in Nat
  <2>1. decode.length[t] \in Lengths BY <1>2
  <2>2. past.heard[t] \in Nat /\ past.mixed[t] \in Nat BY <1>3
  <2>3. Gone(t) \in Nat BY <2>2 DEF Gone
  <2>4. QED BY <2>1, <2>2, <2>3, Numbers
<1>5. ASSUME decode.state # "STOPPED" PROVE Now \in Track /\ Own \in Int /\ Rest \in Int
  <2>1. Now \in Track BY <1>5 DEF Types, Now
  <2>2. Gone(Now) \in Nat BY <1>4, <2>1
  <2>3. QED BY <1>1, <1>2, <2>1, <2>2 DEF Own, Rest
<1>6. None \notin Where BY Numbers DEF None, Where
<1>7. QED BY <1>1, <1>2, <1>4, <1>5, <1>6

\* Nothing is gone of a track that was not heard: what was mixed of it is
\* still in outputbuf.
LEMMA UnheardGone ==
  ASSUME Types, Order, Now \in Track, past.heard[Now] = 0
  PROVE  Gone(Now) = 0
<1>1. CASE output.wanted # "CROSSFADE"
  BY <1>1 DEF Order, Crosses, NoCross, Gone
<1>2. CASE output.wanted = "CROSSFADE" /\ fade.state # "ACTIVE"
  BY <1>2 DEF Order, Crosses, Gone
<1>3. CASE output.wanted = "CROSSFADE" /\ fade.state = "ACTIVE"
  <2>1. fade.dir = "CROSS" BY <1>3 DEF Order, Crosses, Crossing
  <2>2. QED BY <1>3, <2>1 DEF Gone
<1>4. QED BY <1>1, <1>2, <1>3

LEMMA InitOrder == Init => Order
<1> SUFFICES ASSUME Init PROVE Order OBVIOUS
<1>1. PICK flow \in BOOLEAN, mode \in Modes, length \in [Track -> Lengths] :
        /\ output = [flow |-> flow, wanted |-> mode, mode |-> "NONE", track_start |-> None,
                     replay_gain |-> 0, next_replay_gain |-> 0, completed |-> TRUE]
        /\ decode = [state |-> "STOPPED", track |-> 0, frames |-> 0, length |-> length]
  BY DEF Init
<1>2. decode.state = "STOPPED" /\ Now = 0 BY <1>1 DEF Now
<1>3. Used = 0 BY EmptySeq DEF Init, Used
<1>4. \A t \in Track : past.heard[t] = 0 /\ past.mixed[t] = 0 BY DEF Init
<1>5. fade.state = "INACTIVE" /\ fade.dir = "UP" /\ fade.writep = None BY DEF Init, NoFade
<1>6. Progress BY <1>2, <1>3, <1>4 DEF Progress
<1>7. Holds BY <1>2 DEF Holds
<1>8. Marks BY <1>1, <1>2, <1>3 DEF Marks
<1>9. Crosses
  <2>1. 0 \notin Track BY DEF Track
  <2>2. QED BY <1>1, <1>2, <1>4, <1>5, <2>1 DEF Crosses, NoCross
<1>10. QED BY <1>6, <1>7, <1>8, <1>9 DEF Order

\* A track that is followed by the next was marked and heard.
LEMMA DoneIs ==
  ASSUME Types, Order, NextTrack, decode.state = "DONE"
  PROVE  /\ Now \in Track /\ decode.frames = decode.length[Now]
         /\ output.track_start = None /\ Rest = 0 /\ output.replay_gain = Now
         /\ past.heard[Now] > 0 /\ (Used > 0 => output.flow)
<1>1. Now \in Track /\ decode.frames = decode.length[Now] /\ decode.length[Now] >= 1
      /\ Own \in Int /\ Rest \in Int /\ decode.frames \in Nat
  BY Parts DEF Order, Progress
<1>2. past.heard[Now] \in Nat /\ Gone(Now) \in Nat BY <1>1, Parts
<1>3. output.track_start = None
  <2>1. CASE output.flow
    <3>1. past.heard[Now] > 0 BY <2>1 DEF NextTrack, Now
    <3>2. QED BY <1>2, <3>1 DEF Order, Marks
  <2>2. CASE ~output.flow
    <3>1. Used = 0 BY <2>2 DEF NextTrack, Order, Progress
    <3> SUFFICES ASSUME output.track_start # None PROVE FALSE OBVIOUS
    <3>2. past.heard[Now] = 0 BY DEF Order, Marks
    <3>3. Gone(Now) = 0 BY <1>1, <3>2, UnheardGone
    <3>4. Rest >= 0 BY DEF Order, Holds
    <3>5. QED BY <1>1, <3>1, <3>3, <3>4 DEF Own, Rest
  <2>3. QED BY <2>1, <2>2
<1>4. Rest = 0 /\ output.replay_gain = Now /\ past.heard[Now] > 0
  BY <1>3 DEF Order, Marks
<1>5. Used > 0 => output.flow BY DEF NextTrack, Order, Progress
<1>6. QED BY <1>1, <1>3, <1>4, <1>5

\* The next track is asked for when what is left in outputbuf is of the last
\* one alone, and no fade of it is under way in a crossfade.
LEMMA NextTrackOrder ==
  ASSUME Types, Order, NextTrack
  PROVE  Order' /\ Used' = Used /\ Rest' = Used /\ Now' = Now + 1 /\ past'.heard[Now'] = 0
<1> DEFINE t == Now + 1
<1>1. PICK mode \in {output.wanted, "NONE"} :
        output' = [output EXCEPT !.mode = mode, !.completed = FALSE,
                                 !.next_replay_gain = t]
  BY DEF NextTrack, Now
<1>2. /\ decode' = [decode EXCEPT !.state = "NEW", !.track = t, !.frames = 0]
      /\ UNCHANGED <<outputbuf, readp, fade, pulled, past>>
      /\ decode.state \in {"STOPPED", "DONE"} /\ Now < Tracks
  BY DEF NextTrack, Now
<1>3. Now \in 0..Tracks /\ t \in Track /\ t > Now /\ t - 1 = Now /\ Now \in Int
  <2>1. Now \in 0..Tracks BY Parts DEF Now
  <2>2. QED BY <1>2, <2>1, Numbers DEF Track
<1> HIDE DEF t
<1>4. decode'.state = "NEW" /\ Now' = t /\ decode'.frames = 0 /\ decode'.length = decode.length
  BY <1>2, Parts DEF Now, Decoders
<1>5. /\ output'.mode = mode /\ ~output'.completed /\ output'.next_replay_gain = t
      /\ output'.flow = output.flow /\ output'.wanted = output.wanted
      /\ output'.track_start = output.track_start /\ output'.replay_gain = output.replay_gain
  BY <1>1, Parts DEF Outputs
<1>6. past.heard[t] = 0 /\ past.mixed[t] = 0 BY <1>3 DEF Order, Progress
<1>7. Used' = Used /\ Used \in Nat /\ \A u \in Track : Gone(u)' = Gone(u)
  BY <1>2, Parts DEF Used, Gone
<1>8. Own' = 0 /\ Rest' = Used
  <2>1. Gone(t) = 0 BY <1>6 DEF Gone
  <2>2. Gone(Now)' = Gone(t) BY <1>2, <1>4 DEF Gone
  <2>3. QED BY <1>4, <1>7, <2>1, <2>2 DEF Own, Rest
<1>9. ASSUME decode.state = "DONE"
      PROVE  /\ Now \in Track /\ decode.frames = decode.length[Now]
             /\ output.track_start = None /\ Rest = 0 /\ output.replay_gain = Now
             /\ past.heard[Now] > 0 /\ (Used > 0 => output.flow)
  BY <1>9, DoneIs
<1>10. decode.state = "STOPPED" => Used = 0 /\ output.track_start = None
  BY DEF Order, Progress, Marks
<1>11. Progress'
  <2>1. \A u \in Track : u > t => past.heard[u] = 0 /\ past.mixed[u] = 0
    BY <1>3 DEF Order, Progress, Track
  <2>2. decode.length[t] \in Nat BY <1>3, Parts
  <2>3. QED BY <1>2, <1>4, <1>5, <2>1, <2>2 DEF Progress
<1>12. Holds'
  <2>1. ASSUME NEW i \in 1..Used
        PROVE  outputbuf[i] = <<Now, decode.length[Now] - Used + i>>
    <3>1. decode.state = "DONE" BY <1>2, <1>7, <1>10
    <3>2. outputbuf[i] = <<Now, decode.frames - Used + i>>
      BY <1>9, <3>1 DEF Order, Holds
    <3>3. QED BY <1>9, <3>1, <3>2
  <2>2. ASSUME Used > 0
        PROVE  /\ output.flow /\ t > 1 /\ past.heard[t] = 0 /\ past.heard[Now] > 0
               /\ Gone(Now) + Used = decode.length[Now]
    <3>1. decode.state = "DONE" BY <1>2, <2>2, <1>10
    <3>2. Now \in Track /\ Gone(Now) \in Nat BY <1>9, <3>1, Parts
    <3>3. Own = Used BY <1>7, <1>9, <3>1, Parts DEF Rest
    <3>4. t > 1 BY <1>3, <3>2 DEF t, Track
    <3>5. Gone(Now) + Used = decode.length[Now] BY <1>9, <3>1, <3>2, <3>3, Parts DEF Own
    <3>6. QED BY <1>6, <1>9, <2>2, <3>1, <3>4, <3>5
  <2>4. \A i \in 1..Used : i <= Used BY <1>7
  <2>5. (Now - 1)' = Now BY <1>3, <1>4
  <2>6. Gone(Now - 1)' = Gone(Now) BY <1>2, <2>5 DEF Gone
  <2>7. Rest' >= 0 /\ Own' >= 0 BY <1>7, <1>8
  <2>8. \A i \in 1..Used : ~(i > Used) BY <1>7
  <2>9. QED
    BY <1>2, <1>4, <1>5, <1>7, <1>8, <2>1, <2>2, <2>4, <2>5, <2>6, <2>7, <2>8 DEF Holds
<1>13. Marks'
  <2>1. output.track_start = None BY <1>2, <1>9, <1>10
  <2>2. Used > 0 => output.replay_gain = t - 1 BY <1>2, <1>3, <1>9, <1>10
  <2>3. QED BY <1>4, <1>5, <1>7, <2>1, <2>2 DEF Marks
<1>14. Crosses'
  <2>1. CASE output.wanted # "CROSSFADE"
    <3>1. NoCross BY <2>1 DEF Order, Crosses
    <3>2. mode # "CROSSFADE" BY <2>1
    <3>3. NoCross' BY <1>2, <1>5, <3>1, <3>2 DEF NoCross
    <3>4. QED BY <1>5, <2>1, <3>3 DEF Crosses
  <2>2. CASE output.wanted = "CROSSFADE"
    <3>1. fade.state = "INACTIVE"
      <4> SUFFICES ASSUME fade.state # "INACTIVE" PROVE FALSE OBVIOUS
      <4>1. Crossing BY <2>2 DEF Order, Crosses
      <4>2. fade.end = None BY <1>2, <1>9, <4>1 DEF Crossing
      <4>3. QED BY <4>2, Parts
    <3>2. fade.writep = None BY <2>2 DEF Order, Crosses
    <3>3. QED BY <1>2, <1>4, <1>5, <1>6, <2>2, <3>1, <3>2 DEF Crosses
  <2>3. QED BY <2>1, <2>2
<1>15. QED BY <1>2, <1>4, <1>6, <1>7, <1>8, <1>11, <1>12, <1>13, <1>14 DEF Order, t

\* The start of a track is marked behind what is left of the last one, and a
\* crossfade is set up to end there.
LEMMA NewStreamOrder ==
  ASSUME Types, Order, NewStream
  PROVE  Order' /\ Used' = Used /\ Rest = Used /\ Rest' = Used /\ past.heard[Now] = 0
<1> DEFINE w == writep
<1>1. /\ decode' = [decode EXCEPT !.state = "RUNNING"]
      /\ output' = [output EXCEPT !.track_start = w]
      /\ UNCHANGED <<outputbuf, readp, pulled, past>> /\ fade' = CheckFadeStart
      /\ decode.state = "NEW"
  BY DEF NewStream
<1>2. w \in Where /\ Distance(w, readp) = Used /\ Used \in Where BY UsedType
<1> HIDE DEF w
<1>3. /\ Now \in Track /\ Now' = Now /\ decode'.state = "RUNNING"
      /\ decode'.frames = decode.frames /\ decode'.length = decode.length
  BY <1>1, Parts DEF Now, Decoders
<1>4. /\ output'.track_start = w /\ output'.flow = output.flow /\ output'.mode = output.mode
      /\ output'.wanted = output.wanted /\ output'.completed = output.completed
      /\ output'.replay_gain = output.replay_gain
      /\ output'.next_replay_gain = output.next_replay_gain
  BY <1>1, Parts DEF Outputs
<1>5. w # None BY <1>2, Parts
<1>6. decode.frames = 0 BY <1>1 DEF Order, Progress
<1>7. past.heard[Now] = 0 /\ Gone(Now) = 0 /\ Own = 0 /\ Rest = Used
  <2>1. Own >= 0 BY <1>1 DEF Order, Holds
  <2>2. Gone(Now) \in Nat /\ past.heard[Now] \in Nat /\ past.mixed[Now] \in Nat /\ Used \in Nat
    BY <1>3, Parts
  <2>3. Gone(Now) = 0 BY <1>6, <2>1, <2>2 DEF Own
  <2>4. past.heard[Now] = 0 BY <2>2, <2>3 DEF Gone
  <2>5. QED BY <1>6, <2>2, <2>3, <2>4 DEF Own, Rest
<1>8. ASSUME output.wanted = "CROSSFADE" PROVE fade.state = "INACTIVE"
  BY <1>1, <1>8 DEF Order, Crosses, Crossing
\* The frames of every track stay where they are.
<1>9. \A u \in Track : Gone(u)' = Gone(u)
  <2>1. CASE output.wanted = "CROSSFADE"
    <3>1. fade'.state # "ACTIVE"
      <4> DEFINE f == UpTo(writep, "CROSS", CrossFrames)
      <4>1. output.mode \in {"CROSSFADE", "NONE"} BY <2>1 DEF Order, Crosses
      <4>2. CrossFrames \in 0..Size /\ writep \in Where
        BY CrossFramesType, UsedType, Numbers
      <4>3. f.state = "DUE" BY <4>2, UpToType DEF Types
      <4>4. CheckFadeStart \in {f, fade} BY <4>1 DEF CheckFadeStart
      <4>5. QED BY <1>1, <1>8, <2>1, <4>3, <4>4
    <3>2. QED BY <1>1, <1>8, <2>1, <3>1 DEF Gone
  <2>2. CASE output.wanted # "CROSSFADE"
    <3>1. \A u \in Track : past.mixed[u] = 0 BY <2>2 DEF Order, Crosses, NoCross
    <3>2. QED BY <1>1, <3>1 DEF Gone
  <2>3. QED BY <2>1, <2>2
<1>10. Used' = Used /\ Own' = Own /\ Rest' = Rest
  BY <1>1, <1>3, <1>9 DEF Used, Own, Rest
<1>11. Progress'
  BY <1>1, <1>3, <1>4, <1>6, <1>10 DEF Order, Progress
<1>12. Holds'
  <2>1. Now > 1 => Now - 1 \in Track BY <1>3, Numbers DEF Track
  <2>2. Now > 1 => Gone(Now - 1)' = Gone(Now - 1)
    <3> DEFINE u == decode.track - 1
    <3>1. (Now - 1)' = Now - 1 BY <1>3
    <3>2. Now > 1 => u \in Track /\ u = Now - 1 BY <2>1 DEF Now
    <3>3. QED BY <1>1, <1>9, <3>1, <3>2 DEF Gone
  <2>3. QED BY <1>1, <1>3, <1>4, <1>10, <2>2 DEF Order, Holds
<1>13. Marks'
  BY <1>1, <1>2, <1>3, <1>4, <1>5, <1>7, <1>10 DEF Order, Marks
<1>14. Crosses'
  <2>1. CASE output.wanted # "CROSSFADE"
    <3>1. NoCross BY <2>1 DEF Order, Crosses
    <3>2. fade'.dir # "CROSS"
      <4> DEFINE n == Least({FadeFrames, Size - 1})
                 f == From(writep, "UP", n)
      <4>1. n \in 1..Size - 1 BY CheckFadeStartType
      <4> HIDE DEF n
      <4>2. n \in 0..Size /\ writep \in Where BY <4>1, UsedType, Numbers
      <4>3. f.dir = "UP" BY <4>2, FromType DEF Types
      <4>4. CheckFadeStart \in {f, fade} BY <3>1 DEF CheckFadeStart, NoCross, n
      <4>5. QED BY <1>1, <3>1, <4>3, <4>4 DEF NoCross
    <3>3. QED BY <1>1, <1>4, <2>1, <3>1, <3>2 DEF Crosses, NoCross
  <2>2. CASE output.wanted = "CROSSFADE" /\ output.mode = "CROSSFADE" /\ Used # 0
    <3> DEFINE n == CrossFrames
               f == UpTo(writep, "CROSS", n)
               s == Minus(writep, n)
    <3>1. fade' = f BY <1>1, <2>2 DEF CheckFadeStart
    <3>2. n \in 0..Used /\ n <= Secs /\ n >= 1 /\ n \in 0..Size /\ n \in Where /\ n \in Int
      <4>1. Used \in Nat /\ Used < Size BY Parts
      <4>2. n \in 0..Used /\ n <= Secs /\ n >= 1 BY <2>2, <4>1, CrossFramesType
      <4>3. QED BY <4>1, <4>2, Numbers DEF Where
    <3>3. writep \in Where BY UsedType
    <3>4. /\ f.state = "DUE" /\ f.dir = "CROSS" /\ f.start = s
          /\ f.end = writep /\ f.writep = fade.writep
      BY <3>2, <3>3, UpToType DEF Types
    <3>5. Distance(writep, s) = n BY <3>2, <3>3, DistanceBy
    <3>6. Distance(s, readp) = Used - n BY <1>2, <3>2, Back DEF Types, writep
    <3> HIDE DEF n, f, s
    <3>7. (Used - n) + n = Used BY <3>2, Parts
    <3>8. FadeLength' = n BY <3>1, <3>4, <3>5 DEF FadeLength
    <3>9. n \in 1..Secs BY <3>2, Numbers
    <3>10. Crossing'
      <4>1. fade'.end = output'.track_start BY <1>4, <3>1, <3>4 DEF w
      <4>2. Distance(fade.start, readp)' + FadeLength' = Rest'
        BY <1>1, <1>7, <1>10, <3>1, <3>4, <3>6, <3>7, <3>8
      <4>3. QED BY <1>3, <1>4, <2>2, <3>1, <3>4, <3>8, <3>9, <4>1, <4>2 DEF Crossing
    <3>11. fade.writep = None /\ past.mixed[Now] = 0
      BY <1>3, <1>7, <1>8, <2>2 DEF Order, Crosses
    <3>12. QED BY <1>1, <1>3, <1>4, <2>2, <3>1, <3>4, <3>10, <3>11 DEF Crosses
  <2>3. CASE output.wanted = "CROSSFADE" /\ ~(output.mode = "CROSSFADE" /\ Used # 0)
    <3>1. output.mode \in {"CROSSFADE", "NONE"} BY <2>3 DEF Order, Crosses
    <3>2. fade' = fade BY <1>1, <2>3, <3>1 DEF CheckFadeStart
    <3>3. QED BY <1>1, <1>3, <1>4, <1>8, <2>3, <3>2 DEF Order, Crosses
  <2>4. QED BY <2>1, <2>2, <2>3
<1>15. QED BY <1>7, <1>10, <1>11, <1>12, <1>13, <1>14 DEF Order

LEMMA DecodeOrder ==
  ASSUME Types, Order, Decode
  PROVE  Order' /\ Rest' = Rest /\ (decode.frames - Used)' = decode.frames - Used
<1>1. PICK n \in 1..Size - Used - 1 :
        /\ n <= Left
        /\ outputbuf' \in Seq(Frame) /\ Used' = Used + n
        /\ \A i \in 1..Used : outputbuf'[i] = outputbuf[i]
        /\ \A i \in Used + 1..Used + n :
             outputbuf'[i] = <<decode.track, decode.frames + i - Used>>
        /\ decode' = [decode EXCEPT !.frames = @ + n]
  BY DecodeTypes
<1>2. decode.state = "RUNNING" /\ UNCHANGED <<readp, output, fade, pulled, past>> BY DEF Decode
<1>3. Used \in Nat /\ decode.frames \in Nat /\ Now \in Track /\ Own \in Int /\ Rest \in Int
      /\ decode.length[Now] \in Nat /\ decode \in Decoders /\ FadeLength \in Where
  BY <1>2, Parts, DistanceType DEF FadeLength
<1>4. n \in Nat /\ n >= 1 BY <1>1
<1>5. /\ decode'.state = "RUNNING" /\ decode'.track = decode.track
      /\ decode'.length = decode.length /\ decode'.frames = decode.frames + n
  BY <1>1, <1>2, <1>3, <1>4 DEF Decoders
<1>6. Now' = Now BY <1>5 DEF Now
<1>7. Gone(Now)' = Gone(Now) /\ Gone(Now) \in Nat /\ Gone(Now - 1)' = Gone(Now - 1)
  BY <1>2, <1>3, <1>6, Parts DEF Gone
<1>8. Own' = Own + n /\ Rest' = Rest
  BY <1>1, <1>3, <1>4, <1>5, <1>7, SMTT(20) DEF Own, Rest
<1>9. Own >= 0 /\ Rest >= 0 BY <1>2 DEF Order, Holds
<1>10. Rest <= Used BY <1>3, <1>9 DEF Rest
<1>11. Progress'
  <2>1. decode.frames + n <= decode.length[Now] BY <1>1, <1>3, <1>4 DEF Left, Now
  <2>2. QED BY <1>2, <1>5, <1>6, <2>1 DEF Order, Progress
<1>12. Holds'
  <2>1. ASSUME NEW i \in 1..Used'
        PROVE  /\ i <= Rest => outputbuf'[i] = <<Now - 1, decode.length[Now - 1] - Rest + i>>
               /\ i > Rest => outputbuf'[i] = <<Now, decode'.frames - Used' + i>>
    <3>1. i \in Int /\ decode'.frames - Used' + i = decode.frames - Used + i
          /\ decode'.frames - Used' + i = decode.frames + i - Used
      BY <1>1, <1>3, <1>4, <1>5
    <3>2. CASE i \in 1..Used
      <4>1. outputbuf'[i] = outputbuf[i] BY <1>1, <3>2
      <4>2. QED BY <1>2, <3>1, <3>2, <4>1 DEF Order, Holds
    <3>3. CASE i \in Used + 1..Used + n
      <4>1. outputbuf'[i] = <<Now, decode.frames + i - Used>> BY <1>1, <3>3 DEF Now
      <4>2. ~(i <= Rest) BY <1>3, <1>10, <3>1, <3>3
      <4>3. QED BY <3>1, <4>1, <4>2
    <3>4. QED BY <1>1, <1>3, <1>4, <3>2, <3>3
  <2>2. Rest > 0 => /\ output.flow /\ Now > 1 /\ past.heard[Now] = 0 /\ past.heard[Now - 1] > 0
                    /\ Gone(Now - 1) + Rest = decode.length[Now - 1]
    BY <1>2 DEF Order, Holds
  <2>3. Own' >= 0 /\ Rest' >= 0 BY <1>3, <1>4, <1>8, <1>9
  <2>4. QED BY <1>2, <1>5, <1>6, <1>7, <1>8, <2>1, <2>2, <2>3 DEF Holds
<1>13. Marks' BY <1>2, <1>5, <1>6, <1>8 DEF Order, Marks
<1>14. Crosses'
  <2>1. Used >= FadeLength => Used' >= FadeLength'
    <3>1. FadeLength' = FadeLength /\ FadeLength \in Int BY <1>2, <1>3, Numbers DEF FadeLength, Where
    <3>2. QED BY <1>1, <1>3, <1>4, <3>1
  <2>2. Crossing => Crossing'
    BY <1>2, <1>5, <1>6, <1>8, <2>1 DEF Crossing, FadeLength, FadeDone
  <2>3. QED BY <1>2, <1>6, <2>2 DEF Order, Crosses, NoCross
<1>15. (decode.frames - Used)' = decode.frames - Used BY <1>1, <1>3, <1>4, <1>5
<1>16. QED BY <1>8, <1>11, <1>12, <1>13, <1>14, <1>15 DEF Order

\* The decoder ends, and a fade out may be set up.
LEMMA EndOrder ==
  ASSUME Types, Order, DecodeCompletes \/ DecodeDone
  PROVE  Order' /\ Used' = Used /\ Rest' = Rest
<1>1. /\ UNCHANGED <<outputbuf, readp, output, pulled, past>>
      /\ decode.state \in {"RUNNING", "COMPLETE"}
      /\ \E s \in {"COMPLETE", "DONE"} : decode' = [decode EXCEPT !.state = s]
  BY DEF DecodeCompletes, DecodeDone
<1>2. /\ decode'.state \in {"COMPLETE", "DONE"} /\ Now' = Now /\ decode'.frames = decode.frames
      /\ decode'.length = decode.length
  BY <1>1, Parts DEF Now, Decoders
<1>3. /\ output.wanted = "CROSSFADE" => fade' = fade
      /\ fade.dir # "CROSS" => fade'.dir # "CROSS"
  <2>1. CASE DecodeCompletes BY <2>1 DEF DecodeCompletes
  <2>2. CASE DecodeDone
    <3>1. fade' = CheckFadeEnd BY <2>2 DEF DecodeDone
    <3>2. CASE output.mode \notin {"OUT", "INOUT"} BY <3>1, <3>2 DEF CheckFadeEnd
    <3>3. CASE output.mode \in {"OUT", "INOUT"}
      <4>1. output.wanted # "CROSSFADE" BY <3>3 DEF Order, Crosses
      <4> DEFINE n == Least({FadeFrames, Used})
      <4>2. n \in 0..Used /\ (fade.state = "INACTIVE" => fade' = UpTo(writep, "DOWN", n))
        BY <3>1, <3>3, CheckFadeEndType
      <4>3. n \in 0..Size /\ writep \in Where BY <4>2, Parts, Numbers
      <4> HIDE DEF n
      <4>4. UpTo(writep, "DOWN", n).dir = "DOWN" BY <4>3, UpToType DEF Types
      <4>5. [fade EXCEPT !.writep = writep].dir = fade.dir BY Parts DEF Fades
      <4>6. fade.state # "INACTIVE" => fade' = [fade EXCEPT !.writep = writep]
        BY <3>1, <3>3 DEF CheckFadeEnd
      <4>7. QED BY <4>1, <4>2, <4>4, <4>5, <4>6
    <3>4. QED BY <3>2, <3>3
  <2>3. QED BY <2>1, <2>2
<1>4. Now \in Track /\ decode.length[Now] \in Nat BY <1>1, Parts
<1>5. Gone(Now)' = Gone(Now) /\ Gone(Now - 1)' = Gone(Now - 1)
  <2>1. CASE output.wanted = "CROSSFADE" BY <1>1, <1>2, <1>3, <2>1 DEF Gone
  <2>2. CASE output.wanted # "CROSSFADE"
    <3>1. fade.dir # "CROSS" BY <2>2 DEF Order, Crosses, NoCross
    <3>2. QED BY <1>1, <1>2, <1>3, <3>1 DEF Gone
  <2>3. QED BY <2>1, <2>2
<1>6. Used' = Used /\ Own' = Own /\ Rest' = Rest BY <1>1, <1>2, <1>5 DEF Used, Own, Rest
<1>7. Progress'
  <2>1. decode.frames = decode.length[Now]
    <3>1. CASE DecodeCompletes
      <4>1. Left = 0 /\ decode.frames \in Nat BY <3>1, Parts DEF DecodeCompletes
      <4>2. QED BY <1>4, <4>1 DEF Left, Now
    <3>2. CASE DecodeDone BY <3>2 DEF DecodeDone, Order, Progress
    <3>3. QED BY <3>1, <3>2
  <2>2. QED BY <1>1, <1>2, <1>4, <1>6, <2>1 DEF Order, Progress
<1>8. Holds' BY <1>1, <1>2, <1>5, <1>6 DEF Order, Holds
<1>9. Marks' BY <1>1, <1>2, <1>6 DEF Order, Marks
<1>10. Crosses'
  <2>1. CASE output.wanted = "CROSSFADE"
    <3>1. Crossing => Crossing'
      BY <1>1, <1>2, <1>3, <1>6, <2>1 DEF Crossing, FadeLength, FadeDone
    <3>2. QED BY <1>1, <1>2, <1>3, <2>1, <3>1 DEF Order, Crosses
  <2>2. CASE output.wanted # "CROSSFADE" BY <1>1, <1>3, <2>2 DEF Order, Crosses, NoCross
  <2>3. QED BY <2>1, <2>2
<1>11. QED BY <1>6, <1>7, <1>8, <1>9, <1>10 DEF Order

LEMMA DrainOrder ==
  ASSUME Types, Order, Drain
  PROVE  Order' /\ Used' = Used /\ Rest' = Rest
<1>1. /\ UNCHANGED <<outputbuf, readp, decode, pulled, past>>
      /\ decode.state \in {"COMPLETE", "DONE"} /\ Used = 0 /\ ~output.flow
  BY DEF Drain
<1>2. /\ output'.flow = output.flow /\ output'.wanted = output.wanted /\ output'.mode = output.mode
      /\ output'.track_start = output.track_start /\ output'.replay_gain = output.replay_gain
      /\ output'.next_replay_gain = output.next_replay_gain
  BY Parts DEF Drain, Outputs
<1>3. /\ fade'.state = fade.state /\ fade'.dir = fade.dir /\ fade'.start = fade.start
      /\ fade'.end = fade.end /\ fade'.writep = None
  BY Parts DEF Drain, Fades
<1>4. Used' = Used /\ Own' = Own /\ Rest' = Rest /\ Now' = Now /\ Gone(Now - 1)' = Gone(Now - 1)
  BY <1>1, <1>3 DEF Used, Own, Rest, Now, Gone
<1>5. Progress' BY <1>1, <1>2, <1>4 DEF Order, Progress
<1>6. Holds' BY <1>1, <1>2, <1>4 DEF Order, Holds
<1>7. Marks' BY <1>1, <1>2, <1>4 DEF Order, Marks
<1>8. Crosses'
  <2>1. Crossing => Crossing' BY <1>1, <1>2, <1>3, <1>4 DEF Crossing, FadeLength, FadeDone
  <2>2. QED BY <1>1, <1>2, <1>3, <1>4, <2>1 DEF Order, Crosses, NoCross
<1>9. QED BY <1>4, <1>5, <1>6, <1>7, <1>8 DEF Order

\* A flush that leaves no fade behind leaves nothing.
LEMMA FlushOrder ==
  ASSUME Types, Order, Flush, ~past'.stale
  PROVE  Order'
<1>1. /\ outputbuf' = <<>> /\ readp' = 0 /\ UNCHANGED pulled
      /\ decode.state \notin {"STOPPED", "COMPLETE"}
      /\ output' = [output EXCEPT !.track_start = None]
      /\ fade' = [fade EXCEPT !.writep = None]
      /\ decode' = [decode EXCEPT !.state = "STOPPED"]
  BY DEF Flush
<1>2. /\ output'.flow = output.flow /\ output'.wanted = output.wanted /\ output'.mode = output.mode
      /\ output'.track_start = None /\ output'.next_replay_gain = output.next_replay_gain
      /\ output'.completed = output.completed
  BY <1>1, Parts DEF Outputs
<1>3. /\ decode'.state = "STOPPED" /\ Now' = Now /\ Now \in Track
  BY <1>1, Parts DEF Decoders, Now
<1>4. past \in Pasts BY DEF Types
<1>5. /\ \A t \in Track : t # Now => /\ past'.heard[t] = past.heard[t]
                                     /\ past'.mixed[t] = past.mixed[t]
      /\ past'.mixed[Now] = 0 /\ past'.heard[Now] = 0
      /\ fade.state = "INACTIVE"
  <2> DEFINE h == [past.heard EXCEPT ![decode.track] = 0]
             m == [past.mixed EXCEPT ![decode.track] = 0]
             b == past.stale \/ fade.state # "INACTIVE"
  <2>1. past' = [past EXCEPT !.flushes = @ + 1, !.stale = b, !.heard = h, !.mixed = m]
    BY <1>4 DEF Flush, Pasts
  <2>2. past.heard \in [Track -> Nat] /\ past.mixed \in [Track -> Nat] BY <1>4 DEF Pasts
  <2>3. /\ h[Now] = 0 /\ m[Now] = 0
        /\ \A t \in Track : t # Now => h[t] = past.heard[t] /\ m[t] = past.mixed[t]
    BY <1>3, <2>2 DEF Now
  <2> HIDE DEF h, m, b
  <2>4. past'.heard = h /\ past'.mixed = m /\ past'.stale = b BY <1>4, <2>1 DEF Pasts
  <2>5. ~b BY <2>4
  <2>6. QED BY <2>3, <2>4, <2>5 DEF b
<1>6. Used' = 0 BY <1>1, EmptySeq DEF Used
<1>7. fade'.state = "INACTIVE" /\ fade'.dir = fade.dir /\ fade'.writep = None
  BY <1>1, <1>5, Parts DEF Fades
<1>8. Progress'
  <2>1. \A t \in Track : t > Now => past'.heard[t] = 0 /\ past'.mixed[t] = 0
    BY <1>5 DEF Order, Progress
  <2>2. QED BY <1>3, <1>6, <2>1 DEF Progress
<1>9. Holds' BY <1>3 DEF Holds
<1>10. Marks' BY <1>2, <1>3, <1>6 DEF Order, Marks
<1>11. Crosses'
  <2>1. CASE output.wanted # "CROSSFADE"
    <3>1. NoCross BY <2>1 DEF Order, Crosses
    <3>2. \A t \in Track : past'.mixed[t] = 0 BY <1>5, <3>1 DEF NoCross
    <3>3. QED BY <1>2, <1>7, <2>1, <3>1, <3>2 DEF Crosses, NoCross
  <2>2. CASE output.wanted = "CROSSFADE"
    BY <1>2, <1>3, <1>5, <1>7, <2>2 DEF Order, Crosses
  <2>3. QED BY <2>1, <2>2
<1>12. QED BY <1>8, <1>9, <1>10, <1>11 DEF Order

-----------------------------------------------------------------------------
(* What is pulled, and where the order of the frames leaves it.            *)

\* gain_and_fade at the start of a track.
LEMMA AlignedIs ==
  ASSUME Types, NEW n \in 1..ContRead
  PROVE  LET a == Aligned(n)
         IN  /\ a \in Workings /\ a.fade = fade /\ a.readp = readp /\ a.used = Used
             /\ a.dir = "none" /\ a.frames <= n /\ a.frames >= 1
             /\ a.output.flow = output.flow /\ a.output.wanted = output.wanted
             /\ a.output.mode = output.mode /\ a.output.completed = output.completed
             /\ a.output.next_replay_gain = output.next_replay_gain
             /\ output.track_start = None => a.output = output
             /\ output.track_start = readp =>
                  /\ a.output.track_start = None
                  /\ a.output.replay_gain =
                       IF fade.state = "INACTIVE" \/ output.mode # "CROSSFADE"
                         THEN output.next_replay_gain ELSE output.replay_gain
             /\ output.track_start \notin {None, readp} =>
                  /\ a.output = output
                  /\ output.track_start > readp => a.frames <= output.track_start - readp
<1> DEFINE w == Working(n)
           a == Aligned(n)
<1>1. w \in Workings /\ a \in Workings /\ n \in Nat /\ n >= 1 BY StepsAre
<1>2. w.readp = readp /\ w.used = Used /\ w.dir = "none" /\ w.frames = n
      /\ w.fade = fade /\ w.output = output
  BY DEF Working
<1>3. a = AtTrackStart(w) BY DEF Aligned
<1> HIDE DEF w, a
<1>4. SameBut(w, a) /\ a.frames \in Nat BY <1>1, <1>3, AtTrackStartIs DEF Workings
<1>5. a.readp = readp /\ a.used = Used /\ a.dir = "none" /\ a.frames <= n /\ a.frames >= 1
  BY <1>1, <1>2, <1>4 DEF SameBut
<1>6. QED BY <1>1, <1>2, <1>3, <1>5, AtTrackStartIs DEF a

\* What the output thread takes next is what is left of the track before, up
\* to its end, or the track that is being decoded.
LEMMA FillAligned ==
  ASSUME Types, Order, decode.state # "STOPPED", NEW n \in 1..ContRead
  PROVE  LET a == Aligned(n)
         IN  /\ Rest > 0 => /\ a.output = output /\ a.frames <= Rest
                            /\ output.replay_gain = Now - 1
             /\ Rest = 0 =>
                  /\ decode.state # "NEW" /\ output.track_start \in {None, readp}
                  /\ a.output.track_start = None /\ a.output.next_replay_gain = Now
                  /\ fade.state = "INACTIVE" \/ output.mode # "CROSSFADE" =>
                       a.output.replay_gain = Now
<1> DEFINE a == Aligned(n)
<1>1. n \in Nat /\ n >= 1 /\ n <= Used /\ n <= Size - readp BY StepsAre
<1>2. /\ Used \in Nat /\ Now \in Track /\ Own \in Int /\ Rest \in Int /\ Gone(Now) \in Nat
      /\ readp \in Where /\ output.track_start \in Where \cup {None} /\ decode.frames \in Nat
      /\ None \notin Where
  BY Parts
<1>3. /\ a \in Workings /\ a.frames <= n /\ a.frames >= 1 /\ a.frames \in Nat
      /\ a.output.next_replay_gain = output.next_replay_gain
      /\ output.track_start = None => a.output = output
      /\ output.track_start = readp =>
           /\ a.output.track_start = None
           /\ a.output.replay_gain =
                IF fade.state = "INACTIVE" \/ output.mode # "CROSSFADE"
                  THEN output.next_replay_gain ELSE output.replay_gain
      /\ output.track_start \notin {None, readp} =>
           /\ a.output = output
           /\ output.track_start > readp => a.frames <= output.track_start - readp
  BY AlignedIs DEF Workings
<1>4. output.next_replay_gain = Now BY DEF Order, Marks
<1> HIDE DEF a
<1>5. decode.state = "NEW" => Rest = Used
  <2> SUFFICES ASSUME decode.state = "NEW" PROVE Rest = Used OBVIOUS
  <2>1. decode.frames = 0 /\ Own >= 0 BY DEF Order, Progress, Holds
  <2>2. QED BY <1>2, <2>1 DEF Own, Rest
<1>6. ASSUME Rest > 0
      PROVE  a.output = output /\ a.frames <= Rest /\ output.replay_gain = Now - 1
  <2>1. CASE decode.state = "NEW"
    <3>1. output.track_start = None BY <2>1 DEF Order, Marks
    <3>2. output.replay_gain = Now - 1 BY <1>1, <1>2, <2>1 DEF Order, Marks
    <3>3. QED BY <1>1, <1>2, <1>3, <1>5, <2>1, <3>1, <3>2
  <2>2. CASE decode.state # "NEW"
    <3>1. output.track_start # None BY <1>2, <1>6, <2>2 DEF Order, Marks
    <3>2. Distance(output.track_start, readp) = Rest /\ output.replay_gain = Now - 1
      BY <1>6, <2>2, <3>1 DEF Order, Marks
    <3>3. output.track_start \in Where /\ output.track_start # readp
      BY <1>2, <1>6, <3>1, <3>2, DistanceType
    <3>4. a.output = output
          /\ (output.track_start > readp => a.frames <= output.track_start - readp)
      BY <1>2, <1>3, <3>1, <3>3
    <3>5. a.frames \in 0..Size - readp
      <4>1. Size \in Nat /\ readp \in Nat BY <1>2, Numbers DEF Where
      <4>2. QED BY <1>1, <1>3, <4>1
    <3>6. a.frames <= Distance(output.track_start, readp)
      BY <1>2, <3>3, <3>4, <3>5, Stops
    <3>7. QED BY <3>2, <3>4, <3>6
  <2>3. QED BY <2>1, <2>2
<1>7. ASSUME Rest = 0
      PROVE  /\ decode.state # "NEW" /\ output.track_start \in {None, readp}
             /\ a.output.track_start = None /\ a.output.next_replay_gain = Now
             /\ fade.state = "INACTIVE" \/ output.mode # "CROSSFADE" =>
                  a.output.replay_gain = Now
  <2>1. decode.state # "NEW" BY <1>1, <1>2, <1>5, <1>7
  <2>2. CASE output.track_start = None
    <3>1. output.replay_gain = Now BY <2>1, <2>2 DEF Order, Marks
    <3>2. QED BY <1>3, <1>4, <2>1, <2>2, <3>1
  <2>3. CASE output.track_start # None
    <3>1. Distance(output.track_start, readp) = 0 /\ output.track_start \in Where
      BY <1>2, <1>7, <2>1, <2>3 DEF Order, Marks
    <3>2. output.track_start = readp BY <1>2, <3>1, DistanceType
    <3>3. QED BY <1>3, <1>4, <2>1, <3>2
  <2>4. QED BY <2>2, <2>3
<1>8. QED BY <1>6, <1>7 DEF a

\* What the history is after a step of the output thread.
LEMMA HeardIs ==
  ASSUME Types, NEW g \in Workings, Takes(g), NEW t \in Track,
         \A i \in 1..g.frames : pulled'.frames[i][1] = t,
         \A i \in 1..Len(pulled'.mixed) : pulled'.mixed[i][1] = Now
  PROVE  /\ past'.heard[t] = past.heard[t] + g.frames
         /\ \A u \in Track : u # t => past'.heard[u] = past.heard[u]
         /\ Now \in Track => past'.mixed[Now] = past.mixed[Now] + Len(pulled'.mixed)
         /\ \A u \in Track : u # Now => past'.mixed[u] = past.mixed[u]
<1>1. /\ pulled'.frames \in Seq(Frame) /\ Len(pulled'.frames) = g.frames
      /\ pulled'.mixed \in Seq(Frame)
      /\ past'.heard = [u \in Track |-> past.heard[u] + Of(pulled'.frames, u)]
      /\ past'.mixed = [u \in Track |-> past.mixed[u] + Of(pulled'.mixed, u)]
  BY DEF Takes
<1>2. Of(pulled'.frames, t) = g.frames /\ \A u : u # t => Of(pulled'.frames, u) = 0
  BY <1>1, OfOne
<1>3. /\ Of(pulled'.mixed, Now) = Len(pulled'.mixed)
      /\ \A u : u # Now => Of(pulled'.mixed, u) = 0
  BY <1>1, OfOne, SMTT(20)
<1>4. \A u \in Track : past.heard[u] \in Nat /\ past.mixed[u] \in Nat BY Parts
<1>5. QED BY <1>1, <1>2, <1>3, <1>4

\* Frames of the track before are pulled.
LEMMA PullOld ==
  ASSUME Types, Types', Order, decode.state # "STOPPED", Rest > 0,
         NEW g \in Workings, Takes(g), g.used = Used, g.readp = readp, g.frames <= Rest,
         output' = output, decode' = decode,
         \A i \in 1..Len(pulled'.mixed) : pulled'.mixed[i][1] = Now,
         \/ fade'.state = "ACTIVE" /\ fade'.dir = "CROSS"
         \/ past.mixed[Now] = 0 /\ Len(pulled'.mixed) = 0
  PROVE  /\ Progress' /\ Holds' /\ Marks'
         /\ Rest' = Rest - g.frames /\ Used' = Used - g.frames /\ past'.heard[Now] = 0
         /\ past'.mixed[Now] = past.mixed[Now] + Len(pulled'.mixed)
         /\ \A u \in Track : u # Now => past'.mixed[u] = past.mixed[u]
         /\ \A i \in 1..Len(pulled'.frames) :
              pulled'.frames[i] = <<Now - 1, decode.length[Now - 1] - Rest + i>>
<1> DEFINE f == g.frames
           t == Now - 1
<1>1. /\ Used \in Nat /\ Now \in Track /\ Own \in Int /\ Rest \in Int /\ Gone(Now) \in Nat
      /\ readp \in Where /\ decode.frames \in Nat /\ f \in Nat /\ Size \in Nat
  BY Parts, Numbers DEF Workings
<1>2. Own >= 0 /\ Rest <= Used /\ output.flow /\ Now > 1 /\ past.heard[Now] = 0
      /\ past.heard[t] > 0 /\ Gone(t) + Rest = decode.length[t]
  <2>1. Own >= 0 BY DEF Order, Holds
  <2>2. Rest <= Used BY <1>1, <2>1 DEF Rest
  <2>3. QED BY <2>1, <2>2 DEF Order, Holds
<1>3. t \in Track /\ t # Now /\ t \in Int
  <2>1. Tracks \in Nat BY Numbers
  <2>2. Now \in Int /\ Now <= Tracks /\ Now > 1 BY <1>1, <1>2, <2>1 DEF Track
  <2>3. QED BY <2>1, <2>2 DEF Track
<1>4. /\ readp' = Plus(readp, f) /\ Used' = Used - f
      /\ \A i \in 1..Used' : outputbuf'[i] = outputbuf[Used - Used + f + i]
      /\ Len(pulled'.frames) = f
      /\ \A i \in 1..f : pulled'.frames[i] = outputbuf[Used - Used + i]
  BY DEF Takes
<1>5. decode.length[t] \in Nat /\ past.heard[t] \in Nat /\ past.mixed[t] \in Nat
      /\ past.mixed[Now] \in Nat
  BY <1>1, <1>3, Parts
<1>6. \A i \in 1..Rest : i \in 1..Used /\ outputbuf[i] = <<t, decode.length[t] - Rest + i>>
  BY <1>1, <1>2 DEF Order, Holds
<1>7. \A i \in Rest + 1..Used :
        i \in 1..Used /\ outputbuf[i] = <<Now, decode.frames - Used + i>>
  <2>1. \A i \in Rest + 1..Used : i \in 1..Used /\ i > Rest BY <1>1
  <2>2. QED BY <2>1 DEF Order, Holds
<1>8. \A i \in 1..f : i \in 1..Rest /\ Used - Used + i = i BY <1>1
<1>9. \A i \in 1..f : pulled'.frames[i] = <<t, decode.length[t] - Rest + i>>
  BY <1>4, <1>6, <1>8
<1>10. \A i \in 1..f : pulled'.frames[i][1] = t BY <1>9
<1>11. /\ past'.heard[t] = past.heard[t] + f
       /\ \A u \in Track : u # t => past'.heard[u] = past.heard[u]
       /\ past'.mixed[Now] = past.mixed[Now] + Len(pulled'.mixed)
       /\ \A u \in Track : u # Now => past'.mixed[u] = past.mixed[u]
  BY <1>1, <1>3, <1>10, HeardIs
<1>12. past'.heard[Now] = 0 BY <1>1, <1>2, <1>3, <1>11
<1>13. Now' = Now /\ (Now - 1)' = t BY DEF Now
<1>14. Own' = Own /\ Rest' = Rest - f
  <2> DEFINE m == past'.mixed[Now]
             h == past'.heard[Now]
             b == fade'.state = "ACTIVE" /\ fade'.dir = "CROSS"
  <2>1. b \/ m = 0
    <3>1. past.mixed[Now] = 0 /\ Len(pulled'.mixed) = 0 => m = 0 BY <1>11
    <3>2. QED BY <3>1
  <2>2. Gone(Now)' = h + IF h = 0 /\ b THEN 0 ELSE m
    BY <1>13 DEF Gone
  <2>3. h = 0 BY <1>12
  <2> HIDE DEF h, m, b
  <2>4. Gone(Now)' = 0 BY <2>1, <2>2, <2>3
  <2>5. Gone(Now) = 0 BY <1>1, <1>2, UnheardGone
  <2>6. Own' = Own BY <2>4, <2>5 DEF Own
  <2>7. QED BY <1>1, <1>4, <2>6 DEF Rest
<1>15. Gone(Now - 1)' = Gone(t) + f /\ past'.heard[t] > 0
  <2>1. past'.heard[t] > 0 /\ past'.heard[t] # 0 /\ past.heard[t] # 0
    BY <1>1, <1>2, <1>5, <1>11
  <2>2. Gone(t) = past.heard[t] + past.mixed[t] BY <2>1 DEF Gone
  <2>3. Gone(Now - 1)' = past'.heard[t] + past'.mixed[t] BY <1>13, <2>1 DEF Gone
  <2>4. QED BY <1>1, <1>3, <1>5, <1>11, <2>1, <2>2, <2>3
<1> HIDE DEF f
<1>16. Progress'
  <2>1. \A u \in Track : u > Now => past'.heard[u] = 0 /\ past'.mixed[u] = 0
    <3>1. \A u \in Track : u > Now => u # t /\ u # Now BY <1>1, <1>3 DEF t, Track
    <3>2. QED BY <1>11, <3>1 DEF Order, Progress
  <2>2. QED BY <1>2, <1>13, <2>1 DEF Order, Progress
<1>17. Holds'
  <2>1. ASSUME NEW i \in 1..Used'
        PROVE  /\ i <= Rest' => outputbuf'[i] = <<t, decode.length[t] - Rest' + i>>
               /\ i > Rest' => outputbuf'[i] = <<Now, decode.frames - Used' + i>>
    <3> DEFINE j == f + i
    <3>1. j \in 1..Used /\ Used - Used + f + i = j BY <1>1, <1>4
    <3>2. outputbuf'[i] = outputbuf[j] BY <1>4, <3>1
    <3>3. CASE i <= Rest'
      <4>1. j \in 1..Rest /\ decode.length[t] - Rest + j = decode.length[t] - Rest' + i
        BY <1>1, <1>5, <1>14, <3>1, <3>3
      <4>2. ~(i > Rest') BY <1>1, <1>14, <3>3
      <4> HIDE DEF j
      <4>3. QED BY <1>6, <3>2, <4>1, <4>2
    <3>4. CASE i > Rest'
      <4>1. j \in Rest + 1..Used /\ decode.frames - Used + j = decode.frames - Used' + i
        BY <1>1, <1>4, <1>14, <3>1, <3>4
      <4>2. ~(i <= Rest') BY <1>1, <1>14, <3>4
      <4> HIDE DEF j
      <4>3. QED BY <1>7, <3>2, <4>1, <4>2
    <3>5. i <= Rest' \/ i > Rest' BY <1>1, <1>14, <3>1
    <3>6. QED BY <3>3, <3>4, <3>5
  <2>2. Own' >= 0 /\ Rest' >= 0 BY <1>1, <1>2, <1>14 DEF f
  <2>3. Gone(Now - 1)' + Rest' = decode.length[t]
    <3>1. Gone(t) \in Nat BY <1>3, Parts
    <3>2. QED BY <1>1, <1>2, <1>14, <1>15, <3>1
  <2>4. QED BY <1>2, <1>12, <1>13, <1>15, <2>1, <2>2, <2>3 DEF Holds
<1>18. Marks'
  <2>1. CASE decode.state = "NEW"
    <3>1. Used > 0 BY <1>1, <1>2
    <3>2. QED BY <1>13, <2>1, <3>1 DEF Order, Marks
  <2>2. CASE decode.state # "NEW"
    <3>1. output.track_start # None BY <1>1, <2>2 DEF Order, Marks
    <3>2. Distance(output.track_start, readp) = Rest /\ output.replay_gain = Now - 1
      BY <2>2, <3>1 DEF Order, Marks
    <3>3. output.track_start \in Where BY <3>1, Parts
    <3>4. f \in 0..Rest BY <1>1 DEF f
    <3>5. Distance(output.track_start, readp') = Rest - f
      BY <1>1, <1>4, <3>2, <3>3, <3>4, Closer
    <3>6. QED BY <1>12, <1>13, <1>14, <2>2, <3>1, <3>2, <3>5 DEF Order, Marks
  <2>3. QED BY <2>1, <2>2
<1>19. QED BY <1>4, <1>9, <1>11, <1>12, <1>14, <1>16, <1>17, <1>18 DEF f, t

\* Frames of the track that is being decoded are pulled; k frames of it that
\* were mixed are skipped first.
LEMMA PullNew ==
  ASSUME Types, Types', Order, decode.state \notin {"STOPPED", "NEW"}, Rest = 0,
         NEW g \in Workings, NEW k \in Nat, Takes(g), g.used = Used - k, g.frames >= 1,
         g.dir # "CROSS", past.heard[Now] + past.mixed[Now] = Gone(Now) + k,
         output' = g.output, decode' = decode,
         g.output.flow = output.flow, g.output.completed = output.completed,
         g.output.track_start = None, g.output.replay_gain = Now,
         g.output.next_replay_gain = Now
  PROVE  /\ Progress' /\ Holds' /\ Marks'
         /\ Rest' = 0 /\ Used' = Used - k - g.frames
         /\ past'.heard[Now] = past.heard[Now] + g.frames /\ past'.heard[Now] > 0
         /\ \A u \in Track : past'.mixed[u] = past.mixed[u]
         /\ \A i \in 1..Len(pulled'.frames) :
              pulled'.frames[i] = <<Now, decode.frames - Used + k + i>>
<1> DEFINE f == g.frames
<1>1. /\ Used \in Nat /\ Now \in Track /\ Own \in Int /\ Gone(Now) \in Nat
      /\ decode.frames \in Nat /\ f \in Nat /\ f >= 1
      /\ past.heard[Now] \in Nat /\ past.mixed[Now] \in Nat
  BY Parts DEF Workings
<1>2. Own = Used BY <1>1 DEF Rest
<1>3. /\ f <= Used - k /\ Used' = Used - k - f
      /\ \A i \in 1..Used' : outputbuf'[i] = outputbuf[Used - (Used - k) + f + i]
      /\ Len(pulled'.frames) = f
      /\ \A i \in 1..f : pulled'.frames[i] = outputbuf[Used - (Used - k) + i]
      /\ Len(pulled'.mixed) = 0
  BY DEF Takes
<1>4. \A i \in 1..Used : outputbuf[i] = <<Now, decode.frames - Used + i>>
  BY DEF Order, Holds
<1>5. \A i \in 1..f : /\ Used - (Used - k) + i \in 1..Used
                      /\ decode.frames - Used + (Used - (Used - k) + i) = decode.frames - Used + k + i
  BY <1>1, <1>3, SMTT(20)
<1>6. \A i \in 1..f : pulled'.frames[i] = <<Now, decode.frames - Used + k + i>>
  BY <1>3, <1>4, <1>5
<1>7. \A i \in 1..f : pulled'.frames[i][1] = Now BY <1>6
<1>8. \A i \in 1..Len(pulled'.mixed) : pulled'.mixed[i][1] = Now BY <1>3
<1>9. /\ past'.heard[Now] = past.heard[Now] + f
      /\ \A u \in Track : u # Now => past'.heard[u] = past.heard[u]
      /\ past'.mixed[Now] = past.mixed[Now] + Len(pulled'.mixed)
      /\ \A u \in Track : u # Now => past'.mixed[u] = past.mixed[u]
  BY <1>1, <1>7, <1>8, HeardIs
<1>10. /\ past'.heard[Now] > 0 /\ past'.heard[Now] # 0
       /\ \A u \in Track : past'.mixed[u] = past.mixed[u]
  <2>1. past'.mixed[Now] = past.mixed[Now] BY <1>1, <1>3, <1>9
  <2>2. past'.heard[Now] > 0 /\ past'.heard[Now] # 0 BY <1>1, <1>9
  <2>3. QED BY <1>9, <2>1, <2>2
<1>11. Now' = Now BY DEF Now
<1>12. Own' = Used' /\ Rest' = 0
  <2>1. Gone(Now)' = past'.heard[Now] + past'.mixed[Now] BY <1>10, <1>11 DEF Gone
  <2> DEFINE h == past'.heard[Now]
             m == past'.mixed[Now]
  <2>2. h = past.heard[Now] + f /\ m = past.mixed[Now] BY <1>1, <1>9, <1>10
  <2>3. Gone(Now)' = h + m BY <2>1
  <2> HIDE DEF h, m
  <2>4. h + m = Gone(Now) + k + f BY <1>1, <2>2
  <2>5. Gone(Now)' = Gone(Now) + k + f BY <2>3, <2>4
  <2>6. Own' = Own - k - f BY <1>1, <2>5 DEF Own
  <2>7. QED BY <1>1, <1>2, <1>3, <2>6 DEF Rest
<1> HIDE DEF f
<1>13. Progress'
  <2>1. \A u \in Track : u > Now => past'.heard[u] = 0 /\ past'.mixed[u] = 0
    <3>1. \A u \in Track : u > Now => u # Now BY <1>1 DEF Track
    <3>2. QED BY <1>9, <3>1 DEF Order, Progress
  <2>2. Used # 0 BY <1>1, <1>3
  <2>3. QED BY <1>11, <2>1, <2>2 DEF Order, Progress
<1>14. Holds'
  <2>1. ASSUME NEW i \in 1..Used'
        PROVE  outputbuf'[i] = <<Now, decode.frames - Used' + i>> /\ i > 0 /\ ~(i <= 0)
    <3> DEFINE j == Used - (Used - k) + f + i
    <3>1. /\ j \in 1..Used /\ decode.frames - Used + j = decode.frames - Used' + i
          /\ i > 0 /\ ~(i <= 0)
      BY <1>1, <1>3
    <3>2. outputbuf'[i] = outputbuf[j] BY <1>3
    <3> HIDE DEF j
    <3>3. QED BY <1>4, <3>1, <3>2
  <2>2. Used' >= 0 BY <1>1, <1>3
  <2>3. QED BY <1>11, <1>12, <2>1, <2>2 DEF Holds
<1>15. Marks' BY <1>10, <1>11, <1>12 DEF Marks
<1>16. QED BY <1>3, <1>6, <1>9, <1>10, <1>12, <1>13, <1>14, <1>15 DEF f

\* gain_and_fade while there is no crossfade: it changes what is left of the
\* fade, and how much is pulled, but neither outputbuf nor the output record.
LEMMA PlainIs ==
  ASSUME Types, NEW n \in 1..ContRead, fade.dir # "CROSS", output.mode # "CROSSFADE"
  PROVE  LET g == GainAndFade(n)
         IN  /\ g \in Workings /\ g.output = Aligned(n).output /\ g.readp = readp
             /\ g.used = Used /\ g.fade.dir # "CROSS" /\ g.dir # "CROSS"
             /\ g.frames >= 1 /\ g.frames <= Aligned(n).frames
<1> DEFINE a == Aligned(n)
           s == Started(n)
           e == Ended(n)
           g == GainAndFade(n)
<1>1. /\ a \in Workings /\ s \in Workings /\ e \in Workings /\ g \in Workings
      /\ g = Applied(e) /\ s = AtFadeStart(a) /\ e = AtFadeEnd(s)
  BY StepsAre DEF Started, Ended
<1>2. /\ a.fade = fade /\ a.readp = readp /\ a.used = Used /\ a.dir = "none" /\ a.frames >= 1
      /\ a.output.mode = output.mode
  BY AlignedIs
<1> HIDE DEF a, s, e, g
<1>3. /\ s.output = a.output /\ s.readp = readp /\ s.used = Used /\ s.fade.dir # "CROSS"
      /\ s.frames >= 1 /\ s.frames <= a.frames /\ s.dir = "none"
  BY <1>1, <1>2, AtFadeStartIs DEF SameBut
<1>4. /\ e.output = a.output /\ e.readp = readp /\ e.used = Used /\ e.fade.dir # "CROSS"
      /\ e.frames = s.frames /\ e.dir = "none"
  <2>1. CASE ~Ends(s) BY <1>1, <1>3, <2>1, AtFadeEndIs
  <2>2. CASE Ends(s) /\ s.output.mode = "INOUT" /\ s.fade.dir = "DOWN"
    <3>1. e = UpAgain(s) BY <1>1, <2>2, AtFadeEndIs
    <3>2. QED BY <1>1, <1>3, <3>1, UpAgainIs DEF SameWork
  <2>3. CASE Ends(s) /\ ~(s.output.mode = "INOUT" /\ s.fade.dir = "DOWN")
    <3>1. e = FadeComplete(s) BY <1>1, <1>2, <1>3, <2>3, AtFadeEndIs
    <3>2. QED BY <1>1, <1>3, <3>1, FadeCompleteIs DEF SameWork
  <2>4. QED BY <2>1, <2>2, <2>3
<1>5. g.output = a.output /\ g.readp = readp /\ g.used = Used BY <1>1, <1>4, AppliedIs
<1>6. a.frames \in Nat /\ s.frames \in Nat /\ g.frames \in Nat BY <1>1 DEF Workings
<1>7. CASE e.fade.state = "ACTIVE"
  <2>1. g = InFade(e) BY <1>1, <1>7, AppliedIs
  <2>2. g.fade.dir # "CROSS" /\ g.dir # "CROSS" /\ g.frames >= 1 /\ g.frames <= e.frames
    BY <1>1, <1>3, <1>4, <2>1, InFadeIs
  <2>3. QED BY <1>1, <1>3, <1>4, <1>5, <1>6, <2>2 DEF g, a
<1>8. CASE e.fade.state # "ACTIVE"
  <2>1. g.frames = e.frames /\ g.dir = e.dir /\ g.fade.dir = e.fade.dir
    BY <1>1, <1>8, AppliedIs
  <2>2. QED BY <1>1, <1>3, <1>4, <1>5, <2>1 DEF g, a
<1>9. QED BY <1>7, <1>8

\* The frames of a pull are of the track whose replay gain is applied.
OwnGain == \A i \in DOMAIN pulled.frames : pulled.frames[i][1] = pulled.gain

\* f frames were pulled, of the track before
PulledOld(f) ==
  /\ Rest > 0 /\ f <= Rest /\ Rest' = Rest - f /\ past'.heard[Now] = 0 /\ output' = output
  /\ \A i \in 1..f : pulled'.frames[i] = <<Now - 1, decode.length[Now - 1] - Rest + i>>

\* or of the track that is being decoded.
PulledNew(f) ==
  /\ Rest = 0 /\ Rest' = 0 /\ past'.heard[Now] = past.heard[Now] + f
  /\ decode.state # "NEW" /\ output.track_start \in {None, readp}
  /\ \A i \in 1..f : pulled'.frames[i] = <<Now, decode.frames - Used + i>>

PulledFrom(f) ==
  /\ f \in Nat /\ f >= 1 /\ f <= Used /\ Used' = Used - f
  /\ readp' = Plus(readp, f) /\ DOMAIN pulled'.frames = 1..f
  /\ PulledOld(f) \/ PulledNew(f)

\* A step of the output thread without crossfades.
LEMMA PlainOrder ==
  ASSUME Types, Types', Order, decode.state # "STOPPED", output.wanted # "CROSSFADE",
         NEW n \in 1..ContRead, Takes(GainAndFade(n)),
         output' = GainAndFade(n).output, fade' = GainAndFade(n).fade, decode' = decode
  PROVE  LET g == GainAndFade(n)
         IN  Order' /\ OwnGain' /\ PulledFrom(g.frames) /\ pulled'.dir = g.dir
<1> DEFINE g == GainAndFade(n)
           a == Aligned(n)
<1>1. NoCross BY DEF Order, Crosses
<1>2. /\ g \in Workings /\ g.output = a.output /\ g.readp = readp /\ g.used = Used
      /\ g.fade.dir # "CROSS" /\ g.dir # "CROSS" /\ g.frames >= 1 /\ g.frames <= a.frames
      /\ Takes(g) /\ output' = a.output /\ fade'.dir # "CROSS"
  BY <1>1, PlainIs DEF NoCross
<1>3. a.output.flow = output.flow /\ a.output.wanted = output.wanted
      /\ a.output.mode = output.mode /\ a.output.completed = output.completed
  BY AlignedIs
<1>4. /\ Used \in Nat /\ Now \in Track /\ Rest \in Int /\ Rest >= 0 /\ a.frames \in Nat
      /\ g.frames \in Nat /\ past.heard[Now] \in Nat
  BY <1>2, Parts, StepsAre DEF Workings, Order, Holds
<1>5. Len(pulled'.mixed) = 0 /\ pulled'.gain = g.output.replay_gain
      /\ DOMAIN pulled'.frames = 1..Len(pulled'.frames)
  BY <1>2, LenProperties DEF Takes
<1> HIDE DEF g, a
<1>6. /\ Len(pulled'.frames) = g.frames /\ g.frames <= Used /\ Used' = Used - g.frames
      /\ readp' = Plus(readp, g.frames) /\ pulled'.dir = g.dir
  BY <1>2 DEF Takes
<1>7. CASE Rest > 0
  <2>1. a.output = output /\ a.frames <= Rest /\ output.replay_gain = Now - 1
    BY <1>7, FillAligned DEF a
  <2>2. past.mixed[Now] = 0 BY <1>1, <1>4 DEF NoCross
  <2>3. \A i \in 1..Len(pulled'.mixed) : pulled'.mixed[i][1] = Now BY <1>5
  <2>4. g.frames <= Rest BY <1>2, <1>4, <2>1
  <2>5. /\ Progress' /\ Holds' /\ Marks' /\ Rest' = Rest - g.frames /\ past'.heard[Now] = 0
        /\ past'.mixed[Now] = past.mixed[Now] + Len(pulled'.mixed)
        /\ \A u \in Track : u # Now => past'.mixed[u] = past.mixed[u]
        /\ \A i \in 1..Len(pulled'.frames) :
             pulled'.frames[i] = <<Now - 1, decode.length[Now - 1] - Rest + i>>
    BY <1>2, <1>5, <1>7, <2>1, <2>2, <2>3, <2>4, PullOld
  <2>6. \A i \in 1..Len(pulled'.frames) : pulled'.frames[i][1] = Now - 1 BY <2>5
  <2>7. pulled'.gain = Now - 1 BY <1>2, <1>5, <2>1
  <2>8. Crosses'
    <3>1. \A u \in Track : past'.mixed[u] = 0 BY <1>1, <1>5, <2>5 DEF NoCross
    <3>2. QED BY <1>1, <1>2, <1>3, <3>1 DEF Crosses, NoCross
  <2>9. Order' /\ OwnGain' BY <1>5, <2>5, <2>6, <2>7, <2>8 DEF Order, OwnGain
  <2>10. PulledFrom(g.frames)
    BY <1>2, <1>4, <1>5, <1>6, <1>7, <2>1, <2>4, <2>5 DEF PulledFrom, PulledOld
  <2>11. QED BY <1>6, <2>9, <2>10 DEF g
<1>8. CASE Rest = 0
  <2>1. /\ decode.state # "NEW" /\ a.output.track_start = None
        /\ a.output.next_replay_gain = Now /\ a.output.replay_gain = Now
        /\ output.track_start \in {None, readp}
    BY <1>1, <1>8, FillAligned DEF a, NoCross
  <2>2. past.heard[Now] + past.mixed[Now] = Gone(Now) + 0
    BY <1>1, <1>4, Parts DEF Gone, NoCross
  <2>3. g.used = Used - 0 BY <1>2, <1>4
  <2>4. /\ Progress' /\ Holds' /\ Marks'
        /\ Rest' = 0 /\ past'.heard[Now] = past.heard[Now] + g.frames
        /\ \A u \in Track : past'.mixed[u] = past.mixed[u]
        /\ \A i \in 1..Len(pulled'.frames) :
             pulled'.frames[i] = <<Now, decode.frames - Used + 0 + i>>
    BY <1>2, <1>3, <1>8, <2>1, <2>2, <2>3, PullNew
  <2>5. \A i \in 1..Len(pulled'.frames) : pulled'.frames[i][1] = Now BY <2>4
  <2>6. pulled'.gain = Now BY <1>2, <1>5, <2>1
  <2>7. Crosses' BY <1>1, <1>2, <1>3, <2>4 DEF Crosses, NoCross
  <2>8. Order' /\ OwnGain' BY <1>5, <2>4, <2>5, <2>6, <2>7 DEF Order, OwnGain
  <2>9. \A i \in 1..g.frames : decode.frames - Used + 0 + i = decode.frames - Used + i
    BY <1>4, Parts
  <2>10. PulledFrom(g.frames)
    BY <1>2, <1>4, <1>5, <1>6, <1>8, <2>1, <2>4, <2>9 DEF PulledFrom, PulledNew
  <2>11. QED BY <1>6, <2>8, <2>10 DEF g
<1>9. QED BY <1>4, <1>7, <1>8

\* gain_and_fade when no fade is set up,
LEMMA IdleIs ==
  ASSUME Types, NEW n \in 1..ContRead, fade.state = "INACTIVE"
  PROVE  /\ GainAndFade(n) = Applied(Aligned(n))
         /\ fade.writep = None => GainAndFade(n) = Aligned(n)
<1> DEFINE a == Aligned(n)
<1>1. a \in Workings /\ a.fade = fade BY AlignedIs
<1>2. GainAndFade(n) = Applied(AtFadeEnd(AtFadeStart(a)))
  BY DEF GainAndFade, Aligned
<1> HIDE DEF a
<1>3. AtFadeStart(a) = a BY <1>1, AtFadeStartIs
<1>4. AtFadeEnd(a) = a BY <1>1, AtFadeEndIs DEF Ends
<1>5. GainAndFade(n) = Applied(a) BY <1>2, <1>3, <1>4
<1>6. fade.writep = None => Applied(a) = a BY <1>1, AppliedIs
<1>7. QED BY <1>5, <1>6 DEF a

\* when the start of one is ahead,
LEMMA DueIs ==
  ASSUME Types, NEW n \in 1..ContRead, fade.state = "DUE", fade.start # readp
  PROVE  LET g == GainAndFade(n)
         IN  /\ g \in Workings /\ g.output = Aligned(n).output /\ g.readp = readp
             /\ g.used = Used /\ g.dir = "none"
             /\ g.frames <= Aligned(n).frames /\ g.frames >= 1
             /\ g.frames <= Distance(fade.start, readp)
             /\ g.fade.state = "DUE" /\ g.fade.dir = fade.dir /\ g.fade.start = fade.start
             /\ g.fade.end = fade.end /\ g.fade.writep = fade.writep
<1> DEFINE a == Aligned(n)
           s == Started(n)
           g == GainAndFade(n)
<1>1. /\ a \in Workings /\ a.fade = fade /\ a.readp = readp /\ a.used = Used /\ a.dir = "none"
      /\ a.frames <= n /\ a.frames >= 1
  BY AlignedIs
<1>2. s = AtFadeStart(a) /\ s \in Workings /\ g = Applied(AtFadeEnd(s))
  BY StepsAre DEF Started, Ended
<1>3. n \in Nat /\ n <= Size - readp /\ readp \in Where /\ fade.start \in Where
  BY StepsAre, Parts
<1> HIDE DEF a, s, g
<1>4. /\ s.output = a.output /\ SameBut(a, s) /\ s.fade.state = "DUE"
      /\ s.fade.dir = fade.dir /\ s.fade.start = fade.start
      /\ s.fade.end = fade.end /\ s.fade.writep = fade.writep
      /\ fade.start > readp => s.frames <= fade.start - readp
  BY <1>1, <1>2, AtFadeStartIs
<1>5. AtFadeEnd(s) = s BY <1>2, <1>4, AtFadeEndIs DEF Ends
<1>6. g = s BY <1>2, <1>4, <1>5, AppliedIs
<1>7. s.frames \in Nat /\ a.frames \in Nat BY <1>1, <1>2 DEF Workings
<1>8. s.frames <= a.frames /\ s.frames >= 1 /\ s.readp = readp /\ s.used = Used
      /\ s.dir = "none"
  BY <1>1, <1>4 DEF SameBut
<1>9. s.frames \in 0..Size - readp
  <2>1. Size \in Nat /\ readp \in Nat BY <1>3, Numbers DEF Where
  <2>2. QED BY <1>1, <1>3, <1>7, <1>8, <2>1
<1>10. s.frames <= Distance(fade.start, readp) BY <1>3, <1>4, <1>9, Stops
<1>11. QED BY <1>2, <1>4, <1>6, <1>8, <1>10 DEF g, a

\* and when it was reached.
LEMMA ActiveIs ==
  ASSUME Types, NEW n \in 1..ContRead,
         fade.state = "ACTIVE" \/ (fade.state = "DUE" /\ fade.start = readp)
  PROVE  LET s == Started(n)
         IN  /\ s \in Workings /\ s.output = Aligned(n).output /\ s.readp = readp
             /\ s.used = Used /\ s.dir = "none"
             /\ s.frames <= Aligned(n).frames /\ s.frames >= 1
             /\ s.fade.state = "ACTIVE" /\ s.fade.dir = fade.dir /\ s.fade.start = fade.start
             /\ s.fade.end = fade.end /\ s.fade.writep = fade.writep
             /\ Position(s) = FadeDone /\ Duration(s) = FadeLength
             /\ Ends(s) <=> FadeDone >= FadeLength
             /\ GainAndFade(n) = Applied(AtFadeEnd(s))
<1> DEFINE a == Aligned(n)
           s == Started(n)
<1>1. /\ a \in Workings /\ a.fade = fade /\ a.readp = readp /\ a.used = Used /\ a.dir = "none"
      /\ a.frames >= 1
  BY AlignedIs
<1>2. s = AtFadeStart(a) /\ s \in Workings /\ GainAndFade(n) = Applied(AtFadeEnd(s))
  BY StepsAre DEF Started, Ended
<1> HIDE DEF a, s
<1>3. /\ s.output = a.output /\ SameBut(a, s) /\ s.fade.state = "ACTIVE"
      /\ s.fade.dir = fade.dir /\ s.fade.start = fade.start
      /\ s.fade.end = fade.end /\ s.fade.writep = fade.writep
  BY <1>1, <1>2, AtFadeStartIs
<1>4. s.readp = readp /\ s.used = Used /\ s.frames <= a.frames /\ s.frames >= 1
      /\ s.dir = "none"
  BY <1>1, <1>3 DEF SameBut
<1>5. Position(s) = FadeDone /\ Duration(s) = FadeLength
  BY <1>3, <1>4 DEF Position, Duration, FadeDone, FadeLength
<1>6. QED BY <1>2, <1>3, <1>4, <1>5 DEF Ends, s, a

\* The frames of a pull in a crossfade are in the last of their track, and
\* are mixed with the first of the next.
CrossPull ==
  \A i \in DOMAIN pulled.frames :
    \/ pulled.dir = "none"
    \/ /\ pulled.dir = "CROSS"
       /\ pulled.frames[i][2] > decode.length[pulled.frames[i][1]] - Secs
       /\ pulled.mixed[i][1] = pulled.frames[i][1] + 1 /\ pulled.mixed[i][2] <= Secs

\* A step of the output thread before the crossfade, or after it.
LEMMA CrossIdleOrder ==
  ASSUME Types, Types', Order, decode.state # "STOPPED", output.wanted = "CROSSFADE",
         NEW n \in 1..ContRead, Takes(GainAndFade(n)),
         output' = GainAndFade(n).output, fade' = GainAndFade(n).fade, decode' = decode,
         fade.state = "INACTIVE"
  PROVE  Order' /\ OwnGain' /\ CrossPull'
<1> DEFINE a == Aligned(n)
<1>1. fade.writep = None BY DEF Order, Crosses
<1>2. GainAndFade(n) = a BY <1>1, IdleIs
<1>3. /\ a \in Workings /\ a.fade = fade /\ a.readp = readp /\ a.used = Used
      /\ a.dir = "none" /\ a.frames >= 1
      /\ a.output.flow = output.flow /\ a.output.wanted = output.wanted
      /\ a.output.mode = output.mode /\ a.output.completed = output.completed
  BY AlignedIs
<1>4. Takes(a) /\ output' = a.output /\ fade' = fade BY <1>2, <1>3
<1>5. /\ Used \in Nat /\ Now \in Track /\ Rest \in Int /\ Rest >= 0 /\ a.frames \in Nat
      /\ past.heard[Now] \in Nat
  BY <1>3, Parts DEF Workings, Order, Holds
<1>6. Len(pulled'.mixed) = 0 /\ pulled'.gain = a.output.replay_gain /\ pulled'.dir = "none"
      /\ DOMAIN pulled'.frames = 1..Len(pulled'.frames)
  BY <1>3, <1>4, LenProperties DEF Takes
<1>7. CrossPull' BY <1>6 DEF CrossPull
<1>8. Now' = Now BY DEF Now
<1>9. CASE Rest > 0
  <2>1. a.output = output /\ a.frames <= Rest /\ output.replay_gain = Now - 1
    BY <1>9, FillAligned
  <2>2. past.mixed[Now] = 0
    <3>1. past.heard[Now] = 0 BY <1>9 DEF Order, Holds
    <3>2. QED BY <1>5, <3>1 DEF Order, Crosses
  <2> HIDE DEF a
  <2>3. /\ Progress' /\ Holds' /\ Marks'
        /\ past'.mixed[Now] = past.mixed[Now] + Len(pulled'.mixed)
        /\ \A i \in 1..Len(pulled'.frames) :
             pulled'.frames[i] = <<Now - 1, decode.length[Now - 1] - Rest + i>>
    BY <1>3, <1>4, <1>6, <1>9, <2>1, <2>2, PullOld
  <2>4. \A i \in 1..Len(pulled'.frames) : pulled'.frames[i][1] = Now - 1 BY <2>3
  <2>5. OwnGain' BY <1>6, <2>1, <2>4 DEF OwnGain
  <2>6. past'.mixed[Now] = 0 BY <1>6, <2>2, <2>3
  <2>7. Crosses' BY <1>3, <1>4, <1>8, <2>6 DEF Order, Crosses
  <2>8. QED BY <1>7, <2>3, <2>5, <2>7 DEF Order
<1>10. CASE Rest = 0
  <2>1. /\ decode.state # "NEW" /\ a.output.track_start = None
        /\ a.output.next_replay_gain = Now /\ a.output.replay_gain = Now
    BY <1>10, FillAligned
  <2>2. past.heard[Now] + past.mixed[Now] = Gone(Now) + 0 BY <1>5, Parts DEF Gone
  <2>3. a.used = Used - 0 BY <1>3, <1>5
  <2> HIDE DEF a
  <2>4. /\ Progress' /\ Holds' /\ Marks' /\ past'.heard[Now] > 0
        /\ \A i \in 1..Len(pulled'.frames) :
             pulled'.frames[i] = <<Now, decode.frames - Used + 0 + i>>
    BY <1>3, <1>4, <1>10, <2>1, <2>2, <2>3, PullNew
  <2>5. \A i \in 1..Len(pulled'.frames) : pulled'.frames[i][1] = Now BY <2>4
  <2>6. OwnGain' BY <1>6, <2>1, <2>5 DEF OwnGain
  <2>7. past'.heard[Now] # 0 BY <2>4
  <2>8. Crosses' BY <1>3, <1>4, <1>8, <2>7 DEF Order, Crosses
  <2>9. QED BY <1>7, <2>4, <2>6, <2>8 DEF Order
<1>11. QED BY <1>5, <1>9, <1>10

LEMMA CrossDueOrder ==
  ASSUME Types, Types', Order, decode.state # "STOPPED", output.wanted = "CROSSFADE",
         NEW n \in 1..ContRead, Takes(GainAndFade(n)),
         output' = GainAndFade(n).output, fade' = GainAndFade(n).fade, decode' = decode,
         fade.state = "DUE", fade.start # readp
  PROVE  Order' /\ OwnGain' /\ CrossPull'
<1> DEFINE g == GainAndFade(n)
           f == g.frames
<1>1. Crossing /\ fade.writep = None BY DEF Order, Crosses
<1>2. /\ g \in Workings /\ g.output = Aligned(n).output /\ g.readp = readp
      /\ g.used = Used /\ g.dir = "none"
      /\ g.frames <= Aligned(n).frames /\ g.frames <= Distance(fade.start, readp)
      /\ fade'.state = "DUE" /\ fade'.dir = fade.dir /\ fade'.start = fade.start
      /\ fade'.end = fade.end /\ fade'.writep = fade.writep
  BY DueIs
<1> DEFINE d == Distance(fade.start, readp)
           l == FadeLength
<1>3. d \in Where /\ d # 0 /\ l \in 1..Secs /\ d + l = Rest
  <2>1. fade.start \in Where /\ readp \in Where BY Parts
  <2>2. QED BY <1>1, <2>1, DistanceType DEF Crossing
<1>4. /\ Now \in Track /\ f \in Nat /\ Aligned(n).frames \in Nat /\ d \in Nat /\ l \in Nat
      /\ readp \in Where /\ fade.start \in Where /\ Rest \in Int
  BY <1>2, <1>3, StepsAre, Parts, Numbers DEF Workings, Where
<1>5. Rest > 0 BY <1>3, <1>4
<1>6. /\ Aligned(n).output = output /\ Aligned(n).frames <= Rest
      /\ output.replay_gain = Now - 1
  BY <1>5, FillAligned
<1>7. f <= Rest /\ f \in 0..d BY <1>2, <1>4, <1>6
<1>8. past.mixed[Now] = 0
  <2>1. past.heard[Now] = 0 BY <1>5 DEF Order, Holds
  <2>2. QED BY <1>4, <2>1 DEF Order, Crosses
<1>9. /\ Len(pulled'.mixed) = 0 /\ pulled'.gain = g.output.replay_gain /\ pulled'.dir = "none"
      /\ DOMAIN pulled'.frames = 1..Len(pulled'.frames) /\ readp' = Plus(readp, f)
  BY <1>2, LenProperties DEF Takes
<1> HIDE DEF g
<1>10. /\ Progress' /\ Holds' /\ Marks' /\ Rest' = Rest - f
       /\ past'.mixed[Now] = past.mixed[Now] + Len(pulled'.mixed)
       /\ \A i \in 1..Len(pulled'.frames) :
            pulled'.frames[i] = <<Now - 1, decode.length[Now - 1] - Rest + i>>
  BY <1>2, <1>5, <1>6, <1>7, <1>8, <1>9, PullOld DEF g
<1>11. \A i \in 1..Len(pulled'.frames) : pulled'.frames[i][1] = Now - 1 BY <1>10
<1>12. OwnGain' BY <1>2, <1>6, <1>9, <1>11 DEF OwnGain
<1>13. CrossPull' BY <1>9 DEF CrossPull
<1>14. past'.mixed[Now] = 0 BY <1>8, <1>9, <1>10
<1>15. output' = output BY <1>2, <1>6 DEF g
<1>16. FadeLength' = l BY <1>2 DEF FadeLength
<1>17. Distance(fade.start, readp)' = d - f
  BY <1>2, <1>4, <1>7, <1>9, Closer
<1> HIDE DEF d, l, f
<1>18. Distance(fade.start, readp)' + FadeLength' = Rest'
  BY <1>3, <1>4, <1>10, <1>16, <1>17
<1>19. Crossing' BY <1>1, <1>2, <1>3, <1>15, <1>16, <1>18 DEF Crossing
<1>20. Now' = Now BY DEF Now
<1>21. Crosses' BY <1>1, <1>2, <1>14, <1>15, <1>19, <1>20 DEF Order, Crosses
<1>22. QED BY <1>10, <1>12, <1>13, <1>21 DEF Order

\* The end of a track is mixed with the beginning of the next, which is still
\* in outputbuf behind the end of the crossfade.
LEMMA CrossMixOrder ==
  ASSUME Types, Types', Order, decode.state # "STOPPED", output.wanted = "CROSSFADE",
         NEW n \in 1..ContRead, Takes(GainAndFade(n)),
         output' = GainAndFade(n).output, fade' = GainAndFade(n).fade, decode' = decode,
         fade.state = "ACTIVE" \/ (fade.state = "DUE" /\ fade.start = readp),
         Rest > 0
  PROVE  Order' /\ OwnGain' /\ CrossPull'
<1> DEFINE s == Started(n)
           g == GainAndFade(n)
           f == g.frames
           l == FadeLength
           d == FadeDone
<1>1. Crossing /\ fade.writep = None BY DEF Order, Crosses
<1>2. /\ s \in Workings /\ s.output = Aligned(n).output /\ s.readp = readp
      /\ s.used = Used /\ s.frames <= Aligned(n).frames
      /\ s.fade.state = "ACTIVE" /\ s.fade.dir = fade.dir /\ s.fade.start = fade.start
      /\ s.fade.end = fade.end /\ s.fade.writep = fade.writep
      /\ Duration(s) = l /\ (Ends(s) <=> d >= l) /\ g = Applied(AtFadeEnd(s))
  BY ActiveIs
<1>3. /\ readp \in Where /\ fade.start \in Where /\ fade.end \in Where /\ Now \in Track
      /\ Used \in Nat /\ Rest \in Int /\ past.mixed[Now] \in Nat /\ decode.frames \in Nat
  BY Parts
<1>4. past.heard[Now] = 0 /\ Gone(Now) = 0 /\ Now > 1
  <2>1. past.heard[Now] = 0 /\ Now > 1 BY DEF Order, Holds
  <2>2. QED BY <1>3, <2>1, UnheardGone
<1>5. d + Rest = l /\ past.mixed[Now] = d /\ (d > 0 => Used >= l)
  <2>1. CASE fade.state = "ACTIVE" BY <1>1, <2>1 DEF Crossing
  <2>2. CASE fade.state = "DUE" /\ fade.start = readp
    <3>1. d = 0 /\ Distance(fade.start, readp) = 0
      BY <1>3, <2>2, DistanceType DEF FadeDone
    <3>2. l = Rest
      <4>1. 0 + l = Rest BY <1>1, <2>2, <3>1 DEF Crossing
      <4>2. l \in Int BY <1>1, Numbers DEF Crossing
      <4>3. QED BY <4>1, <4>2
    <3>3. past.mixed[Now] = 0 BY <1>3, <1>4, <2>2 DEF Order, Crosses
    <3>4. QED BY <1>3, <3>1, <3>2, <3>3
  <2>3. QED BY <2>1, <2>2
<1>6. d \in Where /\ d \in Nat /\ l \in Where /\ l \in Nat /\ l <= Secs /\ l < Size /\ Size \in Nat
      /\ Secs \in Nat
  <2>1. d \in Where /\ l \in Where BY <1>3, DistanceType DEF FadeLength, FadeDone
  <2>2. l \in 1..Secs BY <1>1 DEF Crossing
  <2> HIDE DEF d, l
  <2>3. Size \in Nat /\ Secs \in Nat BY Numbers
  <2>4. QED BY <2>1, <2>2, <2>3 DEF Where
<1>7. /\ Aligned(n).output = output /\ Aligned(n).frames <= Rest
      /\ output.replay_gain = Now - 1 /\ Aligned(n).frames \in Nat /\ s.frames \in Nat
  BY <1>2, FillAligned, StepsAre DEF Workings
<1> HIDE DEF d, l, s
<1>8. ~Ends(s) BY <1>2, <1>3, <1>5, <1>6
<1>9. g = InFade(s) BY <1>2, <1>8, AtFadeEndIs, AppliedIs
<1>10. fade.dir = "CROSS" /\ output.mode = "CROSSFADE" BY <1>1 DEF Crossing
<1>11. /\ g \in Workings /\ g.output = output /\ g.fade = s.fade /\ g.readp = readp
       /\ g.used = Used /\ g.dir = "CROSS" /\ g.frames <= s.frames
       /\ g.frames > 0 => g.frames + l <= Used
  BY <1>2, <1>7, <1>9, <1>10, InFadeIs
<1>12. f \in Nat /\ f <= Rest /\ Duration(g) = l
  <2>1. Duration(g) = l BY <1>2, <1>11 DEF Duration
  <2>2. f \in Nat BY <1>11 DEF Workings
  <2>3. QED BY <1>2, <1>3, <1>7, <1>11, <2>1, <2>2
<1>13. Takes(g) /\ output' = output /\ fade' = s.fade BY <1>11
<1> HIDE DEF g
<1>14. /\ Len(pulled'.mixed) = f /\ Len(pulled'.frames) = f
       /\ \A i \in 1..f : pulled'.mixed[i] = outputbuf[Used - Used + l + i]
       /\ pulled'.gain = Now - 1 /\ pulled'.dir = "CROSS"
       /\ DOMAIN pulled'.frames = 1..f /\ readp' = Plus(readp, f)
       /\ Used' = Used - f
  BY <1>7, <1>11, <1>12, <1>13, LenProperties DEF Takes
<1>15. Used = decode.frames + Rest /\ Own = decode.frames BY <1>3, <1>4 DEF Own, Rest
<1>16. \A i \in 1..f : pulled'.mixed[i] = <<Now, d + i>>
  <2> SUFFICES ASSUME NEW i \in 1..f PROVE pulled'.mixed[i] = <<Now, d + i>> OBVIOUS
  <2> DEFINE j == l + i
  <2>1. j \in 1..Used /\ j > Rest /\ Used - Used + l + i = j
        /\ decode.frames - Used + j = d + i
    <3>1. f + l <= Used /\ i \in Nat /\ i >= 1 /\ i <= f BY <1>11, <1>12
    <3>2. l + i <= Used /\ l + i >= 1 /\ l + i > Rest BY <1>3, <1>5, <1>6, <1>12, <3>1
    <3>3. decode.frames - Used + (l + i) = d + i BY <1>3, <1>5, <1>6, <1>15, <3>1
    <3>4. QED BY <1>3, <1>6, <3>1, <3>2, <3>3
  <2>2. pulled'.mixed[i] = outputbuf[j] BY <1>14, <2>1
  <2> HIDE DEF j
  <2>3. outputbuf[j] = <<Now, decode.frames - Used + j>> BY <2>1 DEF Order, Holds
  <2>4. QED BY <2>1, <2>2, <2>3
<1>17. \A i \in 1..Len(pulled'.mixed) : pulled'.mixed[i][1] = Now BY <1>14, <1>16
<1>18. fade'.state = "ACTIVE" /\ fade'.dir = "CROSS" /\ fade'.start = fade.start
       /\ fade'.end = fade.end /\ fade'.writep = None
  BY <1>1, <1>2, <1>10, <1>13
<1>19. /\ Progress' /\ Holds' /\ Marks' /\ Rest' = Rest - f
       /\ past'.mixed[Now] = past.mixed[Now] + Len(pulled'.mixed)
       /\ \A i \in 1..Len(pulled'.frames) :
            pulled'.frames[i] = <<Now - 1, decode.length[Now - 1] - Rest + i>>
  BY <1>11, <1>12, <1>13, <1>17, <1>18, PullOld
<1> HIDE DEF f
<1>20. OwnGain'
  <2>1. \A i \in 1..f : pulled'.frames[i][1] = Now - 1 BY <1>14, <1>19
  <2>2. QED BY <1>14, <2>1 DEF OwnGain
<1>21. CrossPull'
  <2> SUFFICES ASSUME NEW i \in 1..f
               PROVE  /\ pulled'.frames[i][2] > decode.length[pulled'.frames[i][1]] - Secs
                      /\ pulled'.mixed[i][1] = pulled'.frames[i][1] + 1
                      /\ pulled'.mixed[i][2] <= Secs
    BY <1>14 DEF CrossPull
  <2>1. pulled'.frames[i] = <<Now - 1, decode.length[Now - 1] - Rest + i>> BY <1>14, <1>19
  <2>2. pulled'.mixed[i] = <<Now, d + i>> BY <1>16
  <2>3. Now \in Int /\ Now - 1 \in Track BY <1>3, <1>4, Numbers DEF Track
  <2>4. decode.length[Now - 1] \in Nat BY <2>3, Parts
  <2>5. /\ decode.length[Now - 1] - Rest + i > decode.length[Now - 1] - Secs
        /\ Now = Now - 1 + 1 /\ d + i <= Secs
    BY <1>3, <1>5, <1>6, <1>12, <2>3, <2>4 DEF f
  <2>6. QED BY <2>1, <2>2, <2>5
<1>22. Crossing'
  <2>1. FadeLength' = l BY <1>18 DEF FadeLength, l
  <2>2. FadeDone' = d + f
    <3>1. d + f < Size BY <1>3, <1>5, <1>6, <1>12 DEF f
    <3>2. Distance(Plus(readp, f), fade.start) = d + f
      BY <1>3, <1>12, <3>1, Further DEF d, f, FadeDone
    <3>3. QED BY <1>14, <1>18, <3>2 DEF FadeDone
  <2>3. FadeDone' + Rest' = FadeLength' /\ past'.mixed[Now] = FadeDone'
    <3>1. (d + f) + (Rest - f) = l BY <1>3, <1>5, <1>6, <1>12 DEF f
    <3>2. past'.mixed[Now] = d + f BY <1>5, <1>14, <1>19
    <3>3. QED BY <1>19, <2>1, <2>2, <3>1, <3>2
  <2>4. FadeDone' > 0 => Used' >= FadeLength'
    BY <1>3, <1>5, <1>6, <1>11, <1>12, <1>14, <2>1, <2>2, SMTT(20) DEF f
  <2>5. Now' = Now BY DEF Now
  <2>6. QED BY <1>1, <1>13, <1>18, <2>1, <2>3, <2>4, <2>5 DEF Crossing, l
<1>23. Crosses' BY <1>13, <1>18, <1>22 DEF Order, Crosses
<1>24. QED BY <1>19, <1>20, <1>21, <1>23 DEF Order

\* The crossfade is over: the frames that were mixed are skipped.
LEMMA CrossEndOrder ==
  ASSUME Types, Types', Order, decode.state # "STOPPED", output.wanted = "CROSSFADE",
         NEW n \in 1..ContRead, Takes(GainAndFade(n)),
         output' = GainAndFade(n).output, fade' = GainAndFade(n).fade, decode' = decode,
         fade.state = "ACTIVE" \/ (fade.state = "DUE" /\ fade.start = readp),
         Rest = 0
  PROVE  Order' /\ OwnGain' /\ CrossPull'
<1> DEFINE s == Started(n)
           e == CrossComplete(s)
           l == FadeLength
           a == Aligned(n)
<1>1. Crossing /\ fade.writep = None BY DEF Order, Crosses
<1>2. /\ readp \in Where /\ fade.start \in Where /\ fade.end \in Where /\ Now \in Track
      /\ Used \in Nat /\ past.mixed[Now] \in Nat /\ past.heard[Now] \in Nat
      /\ output.track_start \in Where \cup {None} /\ None \notin Where
  BY Parts
<1>3. l \in Nat /\ l >= 1 /\ l \in 1..Secs BY <1>1, Numbers DEF Crossing
<1>4. fade.state = "ACTIVE"
  <2> SUFFICES ASSUME fade.state = "DUE" /\ fade.start = readp PROVE FALSE OBVIOUS
  <2>1. Distance(fade.start, readp) = 0 BY <1>2, DistanceType
  <2>2. 0 + l = Rest BY <1>1, <2>1 DEF Crossing
  <2>3. QED BY <1>3, <2>2
<1>5. FadeDone = l /\ past.mixed[Now] = l /\ Used >= l
  <2>1. FadeDone \in Nat BY <1>2, DistanceType, Numbers DEF FadeDone, Where
  <2>2. FadeDone + 0 = l BY <1>1, <1>4 DEF Crossing
  <2>3. FadeDone = l BY <2>1, <2>2
  <2>4. QED BY <1>1, <1>3, <1>4, <2>3 DEF Crossing
<1>6. past.heard[Now] = 0 /\ Gone(Now) = 0
  <2>1. output.track_start # None BY <1>1, <1>2 DEF Crossing
  <2>2. past.heard[Now] = 0 BY <1>1, <2>1 DEF Crossing, Order, Marks
  <2>3. QED BY <1>2, <2>2, UnheardGone
<1>7. /\ s \in Workings /\ s.output = a.output /\ s.readp = readp
      /\ s.used = Used /\ s.frames >= 1 /\ s.dir = "none"
      /\ s.fade.state = "ACTIVE" /\ s.fade.writep = fade.writep
      /\ Duration(s) = l /\ Ends(s) /\ GainAndFade(n) = Applied(AtFadeEnd(s))
  BY <1>3, <1>4, <1>5, ActiveIs
<1>8. /\ a.output.flow = output.flow /\ a.output.wanted = output.wanted
      /\ a.output.mode = output.mode /\ a.output.completed = output.completed
      /\ a.output \in Outputs
  BY AlignedIs DEF Workings
<1>9. /\ decode.state # "NEW" /\ a.output.track_start = None
      /\ a.output.next_replay_gain = Now
  BY FillAligned
<1>10. output.mode = "CROSSFADE" BY <1>1 DEF Crossing
<1> HIDE DEF s, a, l
<1>11. AtFadeEnd(s) = e BY <1>7, <1>8, <1>10, AtFadeEndIs
<1>12. /\ e \in Workings /\ e.frames = s.frames /\ e.dir = "none" /\ e.used = Used - l
       /\ e.fade.state = "INACTIVE" /\ e.fade.writep = None
       /\ e.output = [a.output EXCEPT !.replay_gain = a.output.next_replay_gain]
  <2>1. s.used >= Duration(s) BY <1>5, <1>7
  <2>2. QED BY <1>1, <1>7, <2>1, CrossCompleteIs
<1> HIDE DEF e
<1>13. GainAndFade(n) = e BY <1>7, <1>11, <1>12, AppliedIs
<1>14. /\ e.output.flow = output.flow /\ e.output.completed = output.completed
       /\ e.output.track_start = None /\ e.output.replay_gain = Now
       /\ e.output.next_replay_gain = Now /\ e.output.wanted = output.wanted
       /\ e.output.mode = output.mode
  BY <1>8, <1>9, <1>12 DEF Outputs
<1>15. Takes(e) /\ output' = e.output /\ fade' = e.fade BY <1>13
<1>16. past.heard[Now] + past.mixed[Now] = Gone(Now) + l BY <1>2, <1>5, <1>6
<1>17. e.frames >= 1 /\ e.dir # "CROSS" BY <1>7, <1>12
<1>18. /\ Progress' /\ Holds' /\ Marks' /\ past'.heard[Now] > 0
       /\ \A i \in 1..Len(pulled'.frames) :
            pulled'.frames[i] = <<Now, decode.frames - Used + l + i>>
  BY <1>3, <1>9, <1>12, <1>14, <1>15, <1>16, <1>17, PullNew
<1>19. pulled'.dir = "none" /\ pulled'.gain = Now
       /\ DOMAIN pulled'.frames = 1..Len(pulled'.frames)
  BY <1>12, <1>14, <1>15, LenProperties DEF Takes
<1>20. OwnGain'
  <2>1. \A i \in 1..Len(pulled'.frames) : pulled'.frames[i][1] = Now BY <1>18
  <2>2. QED BY <1>19, <2>1 DEF OwnGain
<1>21. CrossPull' BY <1>19 DEF CrossPull
<1>22. Now' = Now /\ past'.heard[Now] # 0 BY <1>18 DEF Now
<1>23. Crosses' BY <1>12, <1>14, <1>15, <1>22 DEF Order, Crosses
<1>24. QED BY <1>18, <1>20, <1>21, <1>23 DEF Order

\* gain_and_fade leaves alone what LMS asked for.
LEMMA WantedIs ==
  ASSUME Types, NEW n \in 1..ContRead
  PROVE  GainAndFade(n).output.wanted = output.wanted /\ GainAndFade(n).output.mode = output.mode
<1> DEFINE a == Aligned(n)
           s == Started(n)
           e == Ended(n)
           g == GainAndFade(n)
<1>1. /\ a \in Workings /\ s \in Workings /\ e \in Workings /\ g = Applied(e)
      /\ s = AtFadeStart(a) /\ e = AtFadeEnd(s)
  BY StepsAre DEF Started, Ended
<1>2. a.output.wanted = output.wanted /\ a.output.mode = output.mode BY AlignedIs
<1> HIDE DEF a, s, e, g
<1>3. s.output = a.output /\ s.output \in Outputs BY <1>1, AtFadeStartIs DEF Workings
<1>4. e.output.wanted = s.output.wanted /\ e.output.mode = s.output.mode
  <2>1. CASE ~Ends(s) BY <1>1, <2>1, AtFadeEndIs
  <2>2. CASE Ends(s) /\ s.output.mode = "INOUT" /\ s.fade.dir = "DOWN"
    BY <1>1, <2>2, AtFadeEndIs, UpAgainIs
  <2>3. CASE Ends(s) /\ s.output.mode = "CROSSFADE"
    <3>1. e = CrossComplete(s) BY <1>1, <2>3, AtFadeEndIs
    <3>2. e.output = [s.output EXCEPT !.replay_gain = s.output.next_replay_gain]
      BY <1>1, <3>1, CrossCompleteIs
    <3>3. QED BY <1>3, <3>2 DEF Outputs
  <2>4. CASE Ends(s) /\ s.output.mode # "CROSSFADE"
             /\ ~(s.output.mode = "INOUT" /\ s.fade.dir = "DOWN")
    BY <1>1, <2>4, AtFadeEndIs, FadeCompleteIs
  <2>5. QED BY <2>1, <2>2, <2>3, <2>4
<1>5. g.output = e.output BY <1>1, AppliedIs
<1>6. QED BY <1>2, <1>3, <1>4, <1>5 DEF g

LEMMA FillOrder ==
  ASSUME Types, Order, Fill, ~pulled'.fault
  PROVE  Order' /\ OwnGain' /\ (output.wanted = "CROSSFADE" => CrossPull')
<1>1. Types' /\ decode.state # "STOPPED" BY FillIs DEF Fill
<1>2. PICK n \in 1..ContRead :
        /\ output' = GainAndFade(n).output /\ fade' = GainAndFade(n).fade /\ decode' = decode
        /\ Takes(GainAndFade(n))
  BY FillIs
<1>3. CASE output.wanted # "CROSSFADE" BY <1>1, <1>2, <1>3, PlainOrder
<1>4. CASE output.wanted = "CROSSFADE"
  <2>1. fade.state \in {"INACTIVE", "DUE", "ACTIVE"} BY Parts DEF Fades
  <2>2. Rest \in Int /\ Rest >= 0 BY <1>1, Parts DEF Order, Holds
  <2>3. CASE fade.state = "INACTIVE" BY <1>1, <1>2, <1>4, <2>3, CrossIdleOrder
  <2>4. CASE fade.state = "DUE" /\ fade.start # readp BY <1>1, <1>2, <1>4, <2>4, CrossDueOrder
  <2>5. CASE /\ fade.state = "ACTIVE" \/ (fade.state = "DUE" /\ fade.start = readp)
             /\ Rest > 0
    BY <1>1, <1>2, <1>4, <2>5, CrossMixOrder
  <2>6. CASE /\ fade.state = "ACTIVE" \/ (fade.state = "DUE" /\ fade.start = readp)
             /\ Rest = 0
    BY <1>1, <1>2, <1>4, <2>6, CrossEndOrder
  <2>7. QED BY <2>1, <2>2, <2>3, <2>4, <2>5, <2>6
<1>5. QED BY <1>3, <1>4

-----------------------------------------------------------------------------
(* Where fades are                                                         *)

\* gain_and_fade in the middle of a fade pulls frames up to its end,
LEMMA FadingIs ==
  ASSUME Types, NEW n \in 1..ContRead, fade.dir # "CROSS", FadeDone < FadeLength,
         fade.state = "ACTIVE" \/ (fade.state = "DUE" /\ fade.start = readp)
  PROVE  LET g == GainAndFade(n)
         IN  /\ g.dir = fade.dir /\ g.frames <= FadeLength - FadeDone
             /\ g.fade.state = "ACTIVE" /\ g.fade.dir = fade.dir /\ g.fade.start = fade.start
             /\ g.fade.end = fade.end /\ g.fade.writep = fade.writep
<1> DEFINE s == Started(n)
           g == GainAndFade(n)
           d == FadeDone
           l == FadeLength
<1>1. /\ s \in Workings /\ s.readp = readp /\ s.frames <= Aligned(n).frames
      /\ s.fade.state = "ACTIVE" /\ s.fade.dir = fade.dir /\ s.fade.start = fade.start
      /\ s.fade.end = fade.end /\ s.fade.writep = fade.writep
      /\ (Ends(s) <=> d >= l) /\ g = Applied(AtFadeEnd(s))
  BY ActiveIs
<1>2. readp \in Where /\ fade.start \in Where /\ fade.end \in Where /\ Size \in Nat
      /\ n \in Nat /\ n <= Size - readp /\ readp \in Nat
  BY Parts, Numbers, StepsAre DEF Where
<1>3. d \in Nat /\ l \in Nat
  <2>1. d \in Where /\ l \in Where BY <1>2, DistanceType DEF FadeDone, FadeLength
  <2>2. QED BY <1>2, <2>1 DEF Where
<1>4. Distance(fade.end, readp) = l - d
  <2>1. Distance(readp, fade.start) <= Distance(fade.end, fade.start)
    BY <1>3 DEF FadeDone, FadeLength
  <2>2. QED BY <1>2, <2>1, Between DEF FadeDone, FadeLength
<1> HIDE DEF d, l, s, g
<1>5. d < l BY DEF d, l
<1>6. fade.end # readp
  <2> SUFFICES ASSUME fade.end = readp PROVE FALSE OBVIOUS
  <2>1. Distance(fade.end, readp) = 0 BY <1>2, DistanceType
  <2>2. QED BY <1>3, <1>4, <1>5, <2>1
<1>7. AtFadeEnd(s) = s BY <1>1, <1>3, <1>5, AtFadeEndIs
<1>8. g = InFade(s) BY <1>1, <1>7, AppliedIs
<1>9. /\ g \in Workings /\ g.fade = s.fade /\ g.dir = fade.dir /\ g.frames <= s.frames
      /\ fade.end > readp => g.frames <= fade.end - readp
  BY <1>1, <1>8, InFadeIs
<1>10. g.frames \in 0..Size - readp
  <2>1. Aligned(n).frames \in Nat /\ Aligned(n).frames <= n /\ g.frames \in Nat /\ s.frames \in Nat
    BY <1>1, <1>9, AlignedIs DEF Workings
  <2>2. QED BY <1>1, <1>2, <1>9, <2>1
<1>11. g.frames <= l - d BY <1>2, <1>4, <1>6, <1>9, <1>10, Stops
<1>12. QED BY <1>1, <1>9, <1>11 DEF g, d, l

\* and at its end either forgets it
LEMMA FadedIs ==
  ASSUME Types, NEW n \in 1..ContRead, FadeDone >= FadeLength, fade.writep = None,
         fade.state = "ACTIVE" \/ (fade.state = "DUE" /\ fade.start = readp),
         output.mode # "CROSSFADE", ~(output.mode = "INOUT" /\ fade.dir = "DOWN")
  PROVE  LET g == GainAndFade(n)
         IN  g.dir = "none" /\ g.fade.state = "INACTIVE" /\ g.fade.writep = None
<1> DEFINE s == Started(n)
           e == FadeComplete(s)
<1>1. /\ s \in Workings /\ s.dir = "none" /\ s.fade.dir = fade.dir /\ s.fade.writep = None
      /\ Ends(s) /\ GainAndFade(n) = Applied(AtFadeEnd(s)) /\ s.output = Aligned(n).output
  BY ActiveIs
<1>2. s.output.mode = output.mode BY <1>1, AlignedIs
<1> HIDE DEF s
<1>3. AtFadeEnd(s) = e BY <1>1, <1>2, AtFadeEndIs
<1>4. /\ e \in Workings /\ e.dir = "none" /\ e.fade.state = "INACTIVE" /\ e.fade.writep = None
  BY <1>1, FadeCompleteIs DEF SameWork
<1>5. GainAndFade(n) = e BY <1>1, <1>3, <1>4, AppliedIs
<1>6. QED BY <1>4, <1>5

\* or makes the fade out of one track the fade in of the next.
LEMMA UpAgainDoes ==
  ASSUME Types, NEW n \in 1..ContRead, FadeDone >= FadeLength,
         fade.state = "ACTIVE" \/ (fade.state = "DUE" /\ fade.start = readp),
         output.mode = "INOUT", fade.dir = "DOWN"
  PROVE  LET g == GainAndFade(n)
         IN  /\ g.dir = "UP" /\ Duration(g) = FadeLength
             /\ FadeLength > 0 => g.frames <= FadeLength
             /\ g.fade.state = "ACTIVE" /\ g.fade.dir = "UP" /\ g.fade.start = readp
             /\ g.fade.end \in Where /\ Distance(g.fade.end, readp) = FadeLength
             /\ g.fade.writep = fade.writep
<1> DEFINE s == Started(n)
           e == UpAgain(s)
           g == GainAndFade(n)
           l == FadeLength
<1>1. /\ s \in Workings /\ s.readp = readp /\ s.frames <= Aligned(n).frames
      /\ s.fade.state = "ACTIVE" /\ s.fade.dir = fade.dir /\ s.fade.writep = fade.writep
      /\ Ends(s) /\ g = Applied(AtFadeEnd(s)) /\ s.output = Aligned(n).output
      /\ Duration(s) = l
  BY ActiveIs
<1>2. readp \in Where /\ Size \in Nat /\ n \in Nat /\ n <= Size - readp /\ readp \in Nat
      /\ s.output.mode = output.mode
  BY <1>1, Parts, Numbers, StepsAre, AlignedIs DEF Where
<1> HIDE DEF s, g, l
<1>3. AtFadeEnd(s) = e BY <1>1, <1>2, AtFadeEndIs
<1>4. /\ e \in Workings /\ SameWork(s, e) /\ e.fade.state = "ACTIVE" /\ e.fade.dir = "UP"
      /\ e.fade.start = readp /\ e.fade.writep = fade.writep /\ Duration(e) = l
  BY <1>1, UpAgainIs
<1> HIDE DEF e
<1>5. g = InFade(e) BY <1>1, <1>3, <1>4, AppliedIs
<1>6. /\ g \in Workings /\ g.fade = e.fade /\ g.dir = "UP" /\ g.frames <= e.frames
      /\ e.fade.end > e.readp => g.frames <= e.fade.end - e.readp
  BY <1>4, <1>5, InFadeIs
<1>7. e.readp = readp /\ e.frames = s.frames BY <1>1, <1>4 DEF SameWork
<1>8. e.fade.end \in Where /\ Distance(e.fade.end, readp) = l
  BY <1>4 DEF Workings, Fades, Duration
<1>9. g.frames \in 0..Size - readp
  <2>1. Aligned(n).frames \in Nat /\ Aligned(n).frames <= n /\ g.frames \in Nat /\ s.frames \in Nat
    BY <1>1, <1>6, AlignedIs DEF Workings
  <2>2. QED BY <1>1, <1>2, <1>6, <1>7, <2>1
<1>10. l > 0 => g.frames <= l
  <2> SUFFICES ASSUME l > 0 PROVE g.frames <= l OBVIOUS
  <2>1. e.fade.end # readp
    <3> SUFFICES ASSUME e.fade.end = readp PROVE FALSE OBVIOUS
    <3>1. l = 0 BY <1>2, <1>8, DistanceType
    <3>2. QED BY <3>1
  <2>2. QED BY <1>2, <1>6, <1>7, <1>8, <1>9, <2>1, Stops
<1>11. Duration(g) = l BY <1>4, <1>6 DEF Duration
<1>12. QED BY <1>4, <1>6, <1>8, <1>10, <1>11 DEF g, l

\* The number of frames a fade may last, of those that it fades.
Most == IF output.wanted = "INOUT" THEN Secs \div 2 ELSE Secs

\* The frames of a pull that is faded are in the first or the last of their track.
FadePull ==
  \A i \in DOMAIN pulled.frames :
    \/ pulled.dir = "none"
    \/ pulled.dir = "UP" /\ pulled.frames[i][2] <= Most
    \/ /\ pulled.dir = "DOWN"
       /\ pulled.frames[i][2] > decode.length[pulled.frames[i][1]] - Most

\* The frames that are gone of the track that is pulled next.
First == IF Rest > 0 THEN decode.length[Now - 1] - Rest ELSE decode.frames - Used

\* A fade in starts with its track, and lasts no longer than it may.
FadeIn ==
  /\ fade.writep = None /\ output.mode \in {"IN", "NONE"}
  /\ fade.state # "INACTIVE" =>
       /\ decode.state # "STOPPED" /\ fade.dir = "UP" /\ FadeLength \in 1..Secs
       /\ fade.state = "DUE" => output.track_start # None /\ fade.start = output.track_start
       /\ fade.state = "ACTIVE" => FadeDone <= FadeLength /\ First <= FadeDone

LEMMA FadeInOthers ==
  ASSUME Types, Order, output.wanted = "IN", FadeIn,
         NextTrack \/ Decodes \/ Drain \/ Flush \/ UNCHANGED vars, ~past'.stale
  PROVE  FadeIn'
<1>1. output \in Outputs /\ decode \in Decoders /\ fade \in Fades /\ past \in Pasts
      /\ Used \in Nat /\ decode.frames \in Nat
  BY Parts DEF Types
<1>2. ASSUME NextTrack PROVE FadeIn'
  <2>1. /\ Used' = Used /\ Rest' = Used /\ Now' = Now + 1 /\ Now \in Int
    BY <1>2, NextTrackOrder, Parts DEF Now
  <2>2. PICK mode \in {output.wanted, "NONE"} :
          output' = [output EXCEPT !.mode = mode, !.completed = FALSE,
                                   !.next_replay_gain = decode.track + 1]
    BY <1>2 DEF NextTrack
  <2>3. output'.mode = mode /\ output'.track_start = output.track_start BY <1>1, <2>2 DEF Outputs
  <2>4. /\ decode'.state = "NEW" /\ decode'.frames = 0 /\ decode'.length = decode.length
        /\ UNCHANGED <<readp, fade>> /\ decode.state \in {"STOPPED", "DONE"}
    BY <1>1, <1>2 DEF NextTrack, Decoders
  <2>5. ASSUME fade.state # "INACTIVE"
        PROVE  fade.state = "ACTIVE" /\ First' <= FadeDone
    <3>1. decode.state = "DONE" BY <2>4, <2>5 DEF FadeIn
    <3>2. output.track_start = None /\ Rest = 0 /\ decode.frames = decode.length[Now]
      BY <1>2, <3>1, DoneIs
    <3>3. fade.state = "ACTIVE" BY <1>1, <2>5, <3>2 DEF FadeIn, Fades
    <3>4. decode.frames - Used <= FadeDone BY <3>2, <3>3 DEF FadeIn, First
    <3>5. CASE Used > 0
      <4>1. First' = decode.length[Now] - Used BY <2>1, <2>4, <3>5 DEF First
      <4>2. QED BY <3>2, <3>3, <3>4, <4>1
    <3>6. CASE Used = 0
      <4>1. First' = 0 BY <2>1, <2>4, <3>6 DEF First
      <4>2. FadeDone \in Nat BY Parts, DistanceType, Numbers DEF FadeDone, Where
      <4>3. QED BY <3>3, <4>1, <4>2
    <3>7. QED BY <1>1, <3>5, <3>6
  <2>6. FadeDone' = FadeDone /\ FadeLength' = FadeLength BY <2>4 DEF FadeDone, FadeLength
  <2>7. QED BY <2>3, <2>4, <2>5, <2>6 DEF FadeIn
<1>3. ASSUME NewStream PROVE FadeIn'
  <2>1. /\ Used' = Used /\ Rest = Used /\ Rest' = Used BY <1>3, NewStreamOrder
  <2> DEFINE w == writep
  <2>2. w \in Where /\ w # None BY Parts
  <2>3. output' = [output EXCEPT !.track_start = w] /\ fade' = CheckFadeStart /\ readp' = readp
        /\ decode' = [decode EXCEPT !.state = "RUNNING"] /\ decode.state = "NEW"
    BY <1>3 DEF NewStream
  <2> HIDE DEF w
  <2>4. output'.track_start = w /\ output'.mode = output.mode BY <1>1, <2>3 DEF Outputs
  <2>5. decode'.state = "RUNNING" /\ Now' = Now /\ decode'.frames = decode.frames
        /\ decode'.length = decode.length
    BY <1>1, <2>3 DEF Decoders, Now
  <2>6. output.track_start = None BY <2>3 DEF Order, Marks
  <2>7. CASE output.mode = "IN"
    <3> DEFINE n == Least({FadeFrames, Size - 1})
               f == From(w, "UP", n)
    <3>1. n \in 1..Size - 1 /\ n <= FadeFrames /\ CheckFadeStart = f
      BY <2>7, CheckFadeStartType DEF w
    <3> HIDE DEF n
    <3>2. FadeFrames = Secs BY <2>7 DEF FadeFrames
    <3>3. n \in 0..Size /\ n \in Where /\ n \in 1..Secs BY <3>1, <3>2, Numbers DEF Where
    <3>4. f.state = "DUE" /\ f.dir = "UP" /\ f.start = w /\ f.end = Plus(w, n)
          /\ f.writep = fade.writep
      BY <1>1, <2>2, <3>3, FromType
    <3> HIDE DEF f
    <3>5. Distance(Plus(w, n), w) = n BY <2>2, <3>3, DistanceBy
    <3>6. FadeLength' = n BY <2>3, <3>1, <3>4, <3>5 DEF FadeLength
    <3>7. QED BY <2>2, <2>3, <2>4, <2>5, <2>7, <3>1, <3>3, <3>4, <3>6 DEF FadeIn
  <2>8. CASE output.mode = "NONE"
    <3>1. fade' = fade BY <2>3, <2>8 DEF CheckFadeStart
    <3>2. First' = First BY <2>1, <2>5 DEF First
    <3>3. FadeDone' = FadeDone /\ FadeLength' = FadeLength BY <2>3, <3>1 DEF FadeDone, FadeLength
    <3>4. QED BY <2>4, <2>5, <2>6, <2>8, <3>1, <3>2, <3>3 DEF FadeIn
  <2>9. QED BY <2>7, <2>8 DEF FadeIn
<1>4. ASSUME Decode PROVE FadeIn'
  <2>1. Rest' = Rest /\ (decode.frames - Used)' = decode.frames - Used BY <1>4, DecodeOrder
  <2>2. decode'.state = "RUNNING" /\ Now' = Now /\ decode'.length = decode.length
        /\ UNCHANGED <<readp, output, fade>>
    BY <1>1, <1>4 DEF Decode, Decoders, Now
  <2>3. First' = First BY <2>1, <2>2 DEF First
  <2>4. FadeDone' = FadeDone /\ FadeLength' = FadeLength BY <2>2 DEF FadeDone, FadeLength
  <2>5. QED BY <2>2, <2>3, <2>4 DEF FadeIn
<1>5. ASSUME DecodeCompletes \/ DecodeDone PROVE FadeIn'
  <2>1. Rest' = Rest /\ Used' = Used BY <1>5, EndOrder
  <2>2. decode'.state # "STOPPED" /\ Now' = Now /\ decode'.length = decode.length
        /\ UNCHANGED <<readp, output>> /\ decode'.frames = decode.frames
    BY <1>1, <1>5 DEF DecodeCompletes, DecodeDone, Decoders, Now
  <2>3. fade' = fade BY <1>5 DEF DecodeCompletes, DecodeDone, CheckFadeEnd, FadeIn
  <2>4. First' = First BY <2>1, <2>2 DEF First
  <2>5. FadeDone' = FadeDone /\ FadeLength' = FadeLength BY <2>2, <2>3 DEF FadeDone, FadeLength
  <2>6. QED BY <2>2, <2>3, <2>4, <2>5 DEF FadeIn
<1>6. ASSUME Drain PROVE FadeIn'
  <2>1. Rest' = Rest /\ Used' = Used BY <1>6, DrainOrder
  <2>2. UNCHANGED <<readp, decode>> /\ output'.mode = output.mode
        /\ output'.track_start = output.track_start
    BY <1>1, <1>6 DEF Drain, Outputs
  <2>3. fade' = fade
    <3>1. fade' = [fade EXCEPT !.writep = None] BY <1>6 DEF Drain
    <3>2. fade.writep = None BY DEF FadeIn
    <3>3. QED BY <1>1, <3>1, <3>2 DEF Fades
  <2>4. First' = First BY <2>1, <2>2 DEF First, Now
  <2>5. FadeDone' = FadeDone /\ FadeLength' = FadeLength BY <2>2, <2>3 DEF FadeDone, FadeLength
  <2>6. QED BY <2>2, <2>3, <2>4, <2>5 DEF FadeIn
<1>7. ASSUME Flush PROVE FadeIn'
  <2>1. fade' = [fade EXCEPT !.writep = None] /\ output' = [output EXCEPT !.track_start = None]
    BY <1>7 DEF Flush
  <2>2. fade.state = "INACTIVE" BY <1>1, <1>7 DEF Flush, Pasts
  <2>3. fade'.state = "INACTIVE" /\ fade'.writep = None /\ output'.mode = output.mode
    BY <1>1, <2>1, <2>2 DEF Fades, Outputs
  <2>4. QED BY <2>3 DEF FadeIn
<1>8. ASSUME UNCHANGED vars PROVE FadeIn'
  BY <1>8 DEF vars, FadeIn, First, FadeDone, FadeLength, Rest, Own, Now, Used, Gone
<1>9. QED BY <1>2, <1>3, <1>4, <1>5, <1>6, <1>7, <1>8 DEF Decodes

\* How far the frames of a pull are in their track.
LEMMA PulledFirst ==
  ASSUME Types, Types', Order, Order', decode.state # "STOPPED", decode' = decode,
         output.wanted # "CROSSFADE", NEW f, PulledFrom(f)
  PROVE  /\ First \in Int /\ \A i \in 1..f : pulled'.frames[i][2] = First + i
         /\ First' <= First + f \/ First' = 0
<1>1. Now \in Track /\ Rest \in Int /\ Used \in Nat /\ decode.frames \in Nat
      /\ f \in Nat /\ f <= Used /\ Used' = Used - f
  BY Parts DEF PulledFrom
<1>2. Now' = Now BY DEF Now
<1>3. CASE PulledOld(f)
  <2>1. /\ Rest > 0 /\ f <= Rest /\ Rest' = Rest - f /\ past'.heard[Now] = 0
        /\ \A i \in 1..f : pulled'.frames[i] = <<Now - 1, decode.length[Now - 1] - Rest + i>>
    BY <1>3 DEF PulledOld
  <2>2. Now > 1 BY <2>1 DEF Order, Holds
  <2>3. Now - 1 \in Track BY <1>1, <2>2, Numbers DEF Track
  <2> DEFINE l == decode.length[Now - 1]
  <2>4. l \in Nat BY <2>3, Parts
  <2>5. First = l - Rest BY <2>1 DEF First
  <2>6. \A i \in 1..f : pulled'.frames[i][2] = First + i BY <2>1, <2>5
  <2>7. CASE Rest' > 0
    <3>1. First' = l - Rest' BY <1>2, <2>7 DEF First
    <3> HIDE DEF l
    <3>2. First' <= First + f BY <1>1, <2>1, <2>4, <2>5, <3>1
    <3>3. QED BY <1>1, <2>4, <2>5, <2>6, <3>2
  <2>8. CASE ~(Rest' > 0)
    <3>1. First' = decode.frames - Used' BY <2>8 DEF First
    <3>2. Gone(Now)' = 0
      <4>1. output' = output BY <1>3 DEF PulledOld
      <4>2. past'.mixed[Now] = 0 BY <1>1, <4>1 DEF Order, Crosses, NoCross
      <4>3. QED BY <1>2, <2>1, <4>2 DEF Gone
    <3>3. Own' = decode.frames BY <1>1, <3>2 DEF Own
    <3>4. Rest' = 0 BY <1>1, <2>1, <2>8
    <3>5. Used' = decode.frames
      <4>1. Used' - decode.frames = 0 BY <3>3, <3>4 DEF Rest
      <4>2. QED BY <1>1, <4>1
    <3>6. First' = 0 BY <1>1, <3>1, <3>5
    <3> HIDE DEF l
    <3>7. QED BY <1>1, <2>4, <2>5, <2>6, <3>6
  <2>9. QED BY <2>7, <2>8
<1>4. CASE PulledNew(f)
  <2>1. /\ Rest = 0 /\ Rest' = 0
        /\ \A i \in 1..f : pulled'.frames[i] = <<Now, decode.frames - Used + i>>
    BY <1>4 DEF PulledNew
  <2>2. First = decode.frames - Used /\ First' = decode.frames - Used'
    BY <2>1 DEF First
  <2>3. First' = First + f BY <1>1, <2>2
  <2>4. \A i \in 1..f : pulled'.frames[i][2] = First + i BY <2>1, <2>2
  <2>5. First \in Int BY <1>1, <2>2
  <2>6. QED BY <1>1, <2>3, <2>4, <2>5
<1>5. QED BY <1>3, <1>4 DEF PulledFrom

LEMMA FadeInFill ==
  ASSUME Types, Types', Order, Order', output.wanted = "IN", FadeIn, Fill, ~pulled'.fault
  PROVE  FadeIn' /\ FadePull'
<1>1. decode.state # "STOPPED" BY DEF Fill
<1>2. PICK n \in 1..ContRead :
        /\ output' = GainAndFade(n).output /\ fade' = GainAndFade(n).fade /\ decode' = decode
        /\ Takes(GainAndFade(n))
  BY FillIs
<1> DEFINE g == GainAndFade(n)
           f == g.frames
<1>3. PulledFrom(f) /\ pulled'.dir = g.dir BY <1>1, <1>2, PlainOrder
<1>4. output'.wanted = output.wanted /\ output'.mode = output.mode BY <1>2, WantedIs
<1>5. /\ First \in Int /\ \A i \in 1..f : pulled'.frames[i][2] = First + i
      /\ First' <= First + f \/ First' = 0
  BY <1>1, <1>2, <1>3, PulledFirst
<1>6. /\ readp \in Where /\ fade.start \in Where /\ fade.end \in Where /\ f \in Nat
      /\ DOMAIN pulled'.frames = 1..f /\ readp' = Plus(readp, f) /\ fade \in Fades
      /\ None \notin Where /\ Now \in Track /\ Size \in Nat
  BY <1>1, <1>3, Parts, Numbers DEF PulledFrom
<1>7. FadeDone \in Nat /\ FadeLength \in Nat /\ FadeLength < Size
  <2>1. FadeDone \in Where /\ FadeLength \in Where
    BY <1>6, DistanceType DEF FadeDone, FadeLength
  <2>2. QED BY <1>6, <2>1 DEF Where
<1>8. CASE fade.state = "INACTIVE"
  <2>1. g = Aligned(n) BY <1>8, IdleIs DEF FadeIn
  <2>2. g.fade = fade /\ g.dir = "none" BY <2>1, AlignedIs
  <2>3. QED BY <1>2, <1>3, <1>4, <1>8, <2>2 DEF FadeIn, FadePull
<1>9. CASE fade.state = "DUE" /\ fade.start # readp
  <2>1. /\ g.dir = "none" /\ fade'.state = "DUE" /\ fade'.dir = fade.dir
        /\ fade'.start = fade.start /\ fade'.end = fade.end /\ fade'.writep = fade.writep
    BY <1>2, <1>9, DueIs
  <2>2. output.track_start = fade.start /\ output.track_start \in Where
        /\ output.track_start # None
    BY <1>6, <1>9 DEF FadeIn
  <2>3. output' = output BY <1>3, <1>9, <2>2 DEF PulledFrom, PulledOld, PulledNew
  <2>4. FadeLength' = FadeLength BY <2>1 DEF FadeLength
  <2>5. FadeIn' BY <1>1, <1>2, <1>9, <2>1, <2>2, <2>3, <2>4 DEF FadeIn
  <2>6. FadePull' BY <1>3, <2>1 DEF FadePull
  <2>7. QED BY <2>5, <2>6
<1>10. CASE fade.state = "ACTIVE" \/ (fade.state = "DUE" /\ fade.start = readp)
  <2>1. fade.dir = "UP" /\ fade.dir # "CROSS" /\ FadeLength \in 1..Secs /\ fade.writep = None
        /\ output.mode \in {"IN", "NONE"}
    BY <1>10 DEF FadeIn
  <2>2. FadeDone <= FadeLength /\ First <= FadeDone
    <3>1. CASE fade.state = "ACTIVE" BY <3>1 DEF FadeIn
    <3>2. CASE fade.state = "DUE" /\ fade.start = readp
      <4>1. output.track_start = readp /\ output.track_start # None BY <3>2 DEF FadeIn
      <4>2. FadeDone = 0 /\ Distance(output.track_start, readp) = 0
        BY <1>6, <3>2, <4>1, DistanceType DEF FadeDone
      <4>3. decode.state # "NEW" BY <4>1 DEF Order, Marks
      <4>4. Rest = 0 /\ past.heard[Now] = 0 BY <1>1, <4>1, <4>2, <4>3 DEF Order, Marks
      <4>5. Gone(Now) = 0 BY <1>6, <4>4, UnheardGone
      <4>6. Used \in Nat /\ decode.frames \in Nat BY Parts
      <4>7. Own = decode.frames BY <4>5, <4>6 DEF Own
      <4>8. Used - decode.frames = 0 BY <4>4, <4>7 DEF Rest
      <4>9. First = 0 BY <4>4, <4>6, <4>8 DEF First
      <4>10. QED BY <1>7, <4>2, <4>9
    <3>3. QED BY <1>10, <3>1, <3>2
  <2>3. CASE FadeDone < FadeLength
    <3>1. /\ g.dir = "UP" /\ f <= FadeLength - FadeDone
          /\ fade'.state = "ACTIVE" /\ fade'.dir = "UP" /\ fade'.start = fade.start
          /\ fade'.end = fade.end /\ fade'.writep = None
      BY <1>2, <1>10, <2>1, <2>3, FadingIs
    <3>2. Secs \in Nat /\ Most = Secs /\ Most' = Secs BY <1>4, Numbers DEF Most
    <3> HIDE DEF f
    <3>3. \A i \in 1..f : First + i <= Secs
      <4>1. FadeLength <= Secs BY <2>1
      <4>2. QED BY <1>5, <1>6, <1>7, <2>2, <3>1, <3>2, <4>1
    <3>4. FadePull' BY <1>3, <1>5, <1>6, <3>1, <3>2, <3>3 DEF FadePull
    <3>5. FadeLength' = FadeLength BY <3>1 DEF FadeLength
    <3>6. FadeDone' = FadeDone + f
      <4>1. FadeDone + f < Size BY <1>6, <1>7, <3>1
      <4>2. Distance(Plus(readp, f), fade.start) = FadeDone + f
        BY <1>6, <4>1, Further DEF FadeDone
      <4>3. QED BY <1>6, <3>1, <4>2 DEF FadeDone
    <3>7. FadeDone' <= FadeLength' /\ First' <= FadeDone'
      <4>1. FadeDone + f <= FadeLength BY <1>6, <1>7, <3>1
      <4>2. First + f <= FadeDone + f /\ 0 <= FadeDone + f BY <1>5, <1>6, <1>7, <2>2
      <4>3. First' <= FadeDone + f
        <5>1. CASE First' = 0 BY <4>2, <5>1
        <5>2. CASE First' <= First + f
          <6>1. First' \in Int
            <7>1. Used' \in Nat /\ decode.frames \in Nat /\ Rest' \in Int
              BY <1>1, <1>2, <1>3, Parts DEF PulledFrom, PulledOld, PulledNew
            <7>2. Rest' > 0 => Rest > 0
              BY <1>1, <1>3, Parts DEF PulledFrom, PulledOld, PulledNew
            <7>3. Rest > 0 => Now - 1 \in Track
              <8>1. Rest > 0 => Now > 1 BY <1>1 DEF Order, Holds
              <8>2. QED BY <1>6, <8>1, Numbers DEF Track
            <7>4. Rest > 0 => decode.length[Now - 1] \in Nat BY <7>3, Parts
            <7>5. Now' = Now BY <1>2 DEF Now
            <7>6. QED BY <1>2, <7>1, <7>2, <7>4, <7>5 DEF First
          <6>2. QED BY <1>5, <1>6, <1>7, <4>2, <5>2, <6>1
        <5>3. QED BY <1>5, <5>1, <5>2
      <4>4. QED BY <3>5, <3>6, <4>1, <4>3
    <3>8. FadeIn' BY <1>1, <1>2, <1>4, <2>1, <3>1, <3>5, <3>7 DEF FadeIn
    <3>9. QED BY <3>4, <3>8
  <2>4. CASE FadeDone >= FadeLength
    <3>1. g.dir = "none" /\ fade'.state = "INACTIVE" /\ fade'.writep = None
      BY <1>2, <1>10, <2>1, <2>4, FadedIs
    <3>2. QED BY <1>3, <1>4, <2>1, <3>1 DEF FadeIn, FadePull
  <2>5. QED BY <1>7, <2>3, <2>4
<1>11. fade.state \in {"INACTIVE", "DUE", "ACTIVE"} BY <1>6 DEF Fades
<1>12. QED BY <1>8, <1>9, <1>10, <1>11

\* Without transitions nothing fades.
Calm == output.mode = "NONE" /\ fade.state = "INACTIVE" /\ fade.writep = None

LEMMA CalmOthers ==
  ASSUME Types, output.wanted = "NONE", Calm,
         NextTrack \/ Decodes \/ Drain \/ Flush \/ UNCHANGED vars
  PROVE  Calm'
<1>1. output \in Outputs /\ fade \in Fades BY DEF Types
<1>2. CASE NextTrack BY <1>1, <1>2 DEF NextTrack, Outputs, Calm
<1>3. CASE NewStream
  <2>1. fade' = fade BY <1>3 DEF NewStream, CheckFadeStart, Calm
  <2>2. output'.mode = output.mode BY <1>1, <1>3 DEF NewStream, Outputs
  <2>3. QED BY <2>1, <2>2 DEF Calm
<1>4. CASE Decode \/ DecodeCompletes BY <1>4 DEF Decode, DecodeCompletes, Calm
<1>5. CASE DecodeDone BY <1>5 DEF DecodeDone, CheckFadeEnd, Calm
<1>6. CASE Drain BY <1>1, <1>6 DEF Drain, Outputs, Fades, Calm
<1>7. CASE Flush BY <1>1, <1>7 DEF Flush, Outputs, Fades, Calm
<1>8. CASE UNCHANGED vars BY <1>8 DEF vars, Calm
<1>9. QED BY <1>2, <1>3, <1>4, <1>5, <1>6, <1>7, <1>8 DEF Decodes

LEMMA CalmFill ==
  ASSUME Types, output.wanted = "NONE", Calm, Fill, ~pulled'.fault
  PROVE  Calm' /\ pulled'.dir = "none"
<1>1. PICK n \in 1..ContRead :
        /\ output' = GainAndFade(n).output /\ fade' = GainAndFade(n).fade
        /\ Takes(GainAndFade(n))
  BY FillIs
<1>2. GainAndFade(n) = Aligned(n) BY IdleIs DEF Calm
<1>3. fade' = fade /\ output'.mode = output.mode /\ Aligned(n).dir = "none"
  BY <1>1, <1>2, AlignedIs
<1>4. QED BY <1>1, <1>2, <1>3 DEF Takes, Calm

(***************************************************************************)
(* A fade out is set up when its track has been decoded, over the last     *)
(* frames in outputbuf, and is over before the next one has: a fade that   *)
(* is not makes _checkfade delay it, and a delayed fade is set up from     *)
(* what is left in outputbuf by then.  That needs tracks that outputbuf    *)
(* does not hold whole, with as many frames more as a fade in takes: when  *)
(* the last frame is decoded the first ones have then been pulled, the     *)
(* fade out of the last track and the fade in of this one with them.       *)
(***************************************************************************)

LongTracks == \A l \in Lengths : l >= Size - MinSpace + Secs \div 2

\* The frames ahead of the end of a fade out.
Bound == IF decode.state = "DONE" THEN Used ELSE Rest

FadeDown ==
  /\ decode.state # "DONE" => past.heard[Now] = 0
  /\ fade.state = "DUE" => Distance(fade.start, readp) + FadeLength = Bound
  /\ fade.state = "ACTIVE" => FadeDone + Bound = FadeLength

FadeUp ==
  /\ output.wanted = "INOUT" /\ decode.state = "RUNNING" /\ Rest = 0 /\ FadeLength >= 1
  /\ fade.state = "DUE" => output.track_start # None /\ fade.start = output.track_start
  /\ fade.state = "ACTIVE" => past.heard[Now] = FadeDone /\ FadeDone <= FadeLength

FadeOut ==
  /\ fade.writep = None /\ output.mode \in {output.wanted, "NONE"}
  /\ decode.state \in {"COMPLETE", "DONE"} => past.heard[Now] > 0
  /\ fade.state # "INACTIVE" =>
       /\ decode.state \notin {"STOPPED", "COMPLETE"} /\ FadeLength <= Most
       /\ (fade.dir = "DOWN" /\ FadeDown) \/ (fade.dir = "UP" /\ FadeUp)

\* A decoder that is done with a track has made room by then, for which the
\* first frames of the track were pulled.
LEMMA LongGone ==
  ASSUME Types, Order, LongTracks, output.wanted # "CROSSFADE", DecodeCompletes
  PROVE  past.heard[Now] > Secs \div 2 /\ Now \in Track
<1>1. /\ Now \in Track /\ Used \in Nat /\ Size \in Nat /\ MinSpace \in Nat /\ Own \in Int
      /\ Rest \in Int /\ Rest >= 0 /\ decode.frames \in Nat /\ decode.length[Now] \in Nat
      /\ Secs \div 2 \in Int /\ past.heard[Now] \in Nat
  BY Parts, Numbers DEF DecodeCompletes, Order, Holds
<1>2. Used < Size - MinSpace BY <1>1 DEF DecodeCompletes, HasRoom
<1>3. decode.frames = decode.length[Now]
  <2>1. decode.length[Now] - decode.frames = 0 BY DEF DecodeCompletes, Left, Now
  <2>2. QED BY <1>1, <2>1
<1>4. decode.length[Now] \in Lengths BY <1>1, Parts
<1> DEFINE l == decode.length[Now]
           h == past.heard[Now]
           k == Secs \div 2
<1>5. l >= Size - MinSpace + k BY <1>4 DEF LongTracks
<1>6. Gone(Now) = h BY <1>1 DEF Order, Crosses, NoCross, Gone
<1>7. Own = l - h BY <1>3, <1>6 DEF Own
<1> HIDE DEF l, h, k
<1>8. Own <= Used BY <1>1 DEF Rest
<1>9. l \in Int /\ h \in Int /\ k \in Int BY <1>1 DEF l, h, k
<1>10. h > k BY <1>1, <1>2, <1>5, <1>7, <1>8, <1>9
<1>11. QED BY <1>1, <1>10 DEF h, k

LEMMA FadeOutNext ==
  ASSUME Types, Order, output.wanted \in {"OUT", "INOUT"}, FadeOut, NextTrack
  PROVE  FadeOut'
<1>1. output \in Outputs /\ decode \in Decoders /\ fade \in Fades /\ Used \in Nat BY Parts
<1>2. Used' = Used /\ Rest' = Used /\ past'.heard[Now'] = 0 BY NextTrackOrder
<1>3. PICK mode \in {output.wanted, "NONE"} :
        output' = [output EXCEPT !.mode = mode, !.completed = FALSE,
                                 !.next_replay_gain = decode.track + 1]
  BY DEF NextTrack
<1>4. output'.mode = mode /\ output'.wanted = output.wanted /\ Most' = Most
  BY <1>1, <1>3 DEF Outputs, Most
<1>5. decode'.state = "NEW" /\ UNCHANGED <<readp, fade>> /\ decode.state \in {"STOPPED", "DONE"}
  BY <1>1 DEF NextTrack, Decoders
<1>6. FadeDone' = FadeDone /\ FadeLength' = FadeLength BY <1>5 DEF FadeDone, FadeLength
<1>7. ASSUME fade.state # "INACTIVE"
      PROVE  fade.dir = "DOWN" /\ FadeDown' /\ FadeLength <= Most
  <2>1. decode.state = "DONE" /\ FadeLength <= Most BY <1>5, <1>7 DEF FadeOut
  <2>2. fade.dir = "DOWN" /\ FadeDown BY <1>7, <2>1 DEF FadeOut, FadeUp
  <2>3. Bound' = Bound BY <1>2, <1>5, <2>1 DEF Bound
  <2>4. QED BY <1>2, <1>5, <1>6, <2>1, <2>2, <2>3 DEF FadeDown
<1>8. QED BY <1>4, <1>5, <1>6, <1>7 DEF FadeOut

LEMMA FadeOutStream ==
  ASSUME Types, Order, output.wanted \in {"OUT", "INOUT"}, FadeOut, NewStream
  PROVE  FadeOut'
<1>1. output \in Outputs /\ decode \in Decoders /\ fade \in Fades /\ Used \in Nat BY Parts
<1>2. Used' = Used /\ Rest = Used /\ Rest' = Used /\ past.heard[Now] = 0 BY NewStreamOrder
<1> DEFINE w == writep
<1>3. w \in Where /\ w # None BY Parts
<1>4. output' = [output EXCEPT !.track_start = w] /\ fade' = CheckFadeStart /\ readp' = readp
      /\ decode' = [decode EXCEPT !.state = "RUNNING"] /\ decode.state = "NEW" /\ past' = past
  BY DEF NewStream
<1> HIDE DEF w
<1>5. output'.track_start = w /\ output'.mode = output.mode /\ output'.wanted = output.wanted
      /\ Most' = Most
  BY <1>1, <1>4 DEF Outputs, Most
<1>6. decode'.state = "RUNNING" /\ Now' = Now BY <1>1, <1>4 DEF Decoders, Now
<1>7. CASE output.mode = "INOUT" /\ Used = 0
  <2> DEFINE n == Least({FadeFrames, Size - 1})
             f == From(w, "UP", n)
  <2>1. n \in 1..Size - 1 /\ n <= FadeFrames /\ CheckFadeStart = f
    BY <1>7, CheckFadeStartType DEF w
  <2> HIDE DEF n
  <2>2. output.wanted = "INOUT" /\ FadeFrames = Most BY <1>7 DEF FadeOut, FadeFrames, Most
  <2>3. n \in 0..Size /\ n \in Where /\ n >= 1 /\ n <= Most
    BY <2>1, <2>2, Numbers DEF Where
  <2>4. f.state = "DUE" /\ f.dir = "UP" /\ f.start = w /\ f.end = Plus(w, n)
        /\ f.writep = fade.writep
    BY <1>1, <1>3, <2>3, FromType
  <2> HIDE DEF f
  <2>5. Distance(Plus(w, n), w) = n BY <1>3, <2>3, DistanceBy
  <2>6. FadeLength' = n BY <1>4, <2>1, <2>4, <2>5 DEF FadeLength
  <2>7. Rest' = 0 BY <1>2, <1>7
  <2>8. FadeUp' BY <1>3, <1>4, <1>5, <1>6, <2>1, <2>2, <2>3, <2>4, <2>6, <2>7 DEF FadeUp
  <2>9. QED BY <1>4, <1>5, <1>6, <1>7, <2>1, <2>3, <2>4, <2>6, <2>8 DEF FadeOut
<1>8. CASE ~(output.mode = "INOUT" /\ Used = 0)
  <2>1. output.mode \in {"OUT", "INOUT", "NONE"} BY DEF FadeOut
  <2>2. fade' = fade BY <1>4, <1>8, <2>1 DEF CheckFadeStart
  <2>3. FadeDone' = FadeDone /\ FadeLength' = FadeLength
    BY <1>4, <2>2 DEF FadeDone, FadeLength
  <2>4. Bound' = Bound BY <1>2, <1>4, <1>6 DEF Bound
  <2>5. FadeDown => FadeDown' BY <1>2, <1>4, <1>6, <2>2, <2>3, <2>4 DEF FadeDown
  <2>6. ~FadeUp BY <1>4 DEF FadeUp
  <2>7. QED BY <1>4, <1>5, <1>6, <2>2, <2>3, <2>5, <2>6 DEF FadeOut
<1>9. QED BY <1>7, <1>8

LEMMA FadeOutDecode ==
  ASSUME Types, Order, FadeOut, Decode
  PROVE  FadeOut'
<1>1. Rest' = Rest BY DecodeOrder
<1>2. decode.state = "RUNNING" /\ decode'.state = "RUNNING" /\ Now' = Now
      /\ UNCHANGED <<readp, output, fade, past>>
  BY Parts DEF Decode, Decoders, Now
<1>3. FadeDone' = FadeDone /\ FadeLength' = FadeLength /\ Most' = Most
  BY <1>2 DEF FadeDone, FadeLength, Most
<1>4. Bound' = Bound BY <1>1, <1>2 DEF Bound
<1>5. FadeDown => FadeDown' BY <1>2, <1>3, <1>4 DEF FadeDown
<1>6. FadeUp => FadeUp' BY <1>1, <1>2, <1>3 DEF FadeUp
<1>7. QED BY <1>2, <1>3, <1>5, <1>6 DEF FadeOut

\* No fade is left when the decoder completes a track.
LEMMA FadeOutCompletes ==
  ASSUME Types, Order, LongTracks, output.wanted \in {"OUT", "INOUT"}, FadeOut,
         DecodeCompletes
  PROVE  FadeOut'
<1>1. past.heard[Now] > Secs \div 2 /\ Now \in Track BY LongGone
<1>2. past.heard[Now] \in Nat /\ Secs \div 2 \in Nat /\ FadeLength \in Int /\ FadeDone \in Int
  <2>1. FadeLength \in Where /\ FadeDone \in Where
    BY Parts, DistanceType DEF FadeLength, FadeDone
  <2>2. QED BY <1>1, <2>1, Parts, Numbers DEF Where
<1>3. past.heard[Now] > 0 BY <1>1, <1>2
<1>4. decode.state = "RUNNING" /\ decode'.state = "COMPLETE" /\ Now' = Now
      /\ UNCHANGED <<output, fade, past>>
  BY Parts DEF DecodeCompletes, Decoders, Now
<1>5. fade.state = "INACTIVE"
  <2> SUFFICES ASSUME fade.state # "INACTIVE" PROVE FALSE OBVIOUS
  <2>1. FadeLength <= Most BY DEF FadeOut
  <2>2. ~FadeDown BY <1>2, <1>3, <1>4 DEF FadeDown
  <2>3. FadeUp BY <2>2 DEF FadeOut
  <2>4. Most = Secs \div 2 BY <2>3 DEF FadeUp, Most
  <2>5. output.track_start = None BY <1>2, <1>3, <1>4 DEF Order, Marks
  <2>6. fade.state = "ACTIVE" BY <2>3, <2>5, Parts DEF FadeUp, Fades
  <2>7. past.heard[Now] = FadeDone /\ FadeDone <= FadeLength BY <2>3, <2>6 DEF FadeUp
  <2>8. QED BY <1>1, <1>2, <2>1, <2>4, <2>7
<1>6. QED BY <1>3, <1>4, <1>5 DEF FadeOut

LEMMA FadeOutDone ==
  ASSUME Types, Order, output.wanted \in {"OUT", "INOUT"}, FadeOut, DecodeDone
  PROVE  FadeOut'
<1>1. /\ output \in Outputs /\ decode \in Decoders /\ fade \in Fades /\ Used \in Nat
      /\ Used < Size /\ readp \in Where /\ Size \in Nat
  BY Parts, Numbers
<1>2. fade' = CheckFadeEnd /\ decode.state = "COMPLETE" /\ decode'.state = "DONE"
      /\ UNCHANGED <<outputbuf, readp, output, past>> /\ Now' = Now
  BY <1>1 DEF DecodeDone, Decoders, Now
<1>3. Most' = Most /\ Used' = Used BY <1>2 DEF Most, Used
<1>4. fade.state = "INACTIVE" /\ fade.writep = None /\ past.heard[Now] > 0
  BY <1>2 DEF FadeOut
<1>5. CASE output.mode = "NONE"
  <2>1. fade' = fade BY <1>2, <1>5 DEF CheckFadeEnd
  <2>2. QED BY <1>2, <1>4, <1>5, <2>1 DEF FadeOut
<1>6. CASE output.mode \in {"OUT", "INOUT"}
  <2> DEFINE w == writep
             n == Least({FadeFrames, Used})
             f == UpTo(w, "DOWN", n)
  <2>1. n \in 0..Used /\ n <= FadeFrames /\ fade' = f
    BY <1>2, <1>4, <1>6, CheckFadeEndType DEF w
  <2> HIDE DEF n
  <2>2. FadeFrames = Most BY <1>6 DEF FadeOut, FadeFrames, Most
  <2>3. n \in 0..Size /\ n \in Where /\ n <= Most /\ Used \in Where /\ n \in Nat
    BY <1>1, <2>1, <2>2, Numbers DEF Where
  <2>4. w \in Where /\ w = Plus(readp, Used) BY Parts DEF writep
  <2> HIDE DEF w
  <2>5. f.state = "DUE" /\ f.dir = "DOWN" /\ f.start = Minus(w, n) /\ f.end = w
        /\ f.writep = fade.writep
    BY <1>1, <2>3, <2>4, UpToType
  <2> HIDE DEF f
  <2>6. Distance(w, Minus(w, n)) = n BY <2>3, <2>4, DistanceBy
  <2>7. Distance(Minus(w, n), readp) = Used - n BY <1>1, <2>1, <2>3, <2>4, Back
  <2>8. FadeLength' = n BY <2>1, <2>5, <2>6 DEF FadeLength
  <2>9. Distance(fade.start, readp)' = Used - n BY <1>2, <2>1, <2>5, <2>7
  <2>10. Bound' = Used BY <1>2, <1>3 DEF Bound
  <2>11. (Used - n) + n = Used BY <1>1, <2>3
  <2>12. FadeDown' BY <1>2, <2>1, <2>5, <2>8, <2>9, <2>10, <2>11 DEF FadeDown
  <2>13. QED BY <1>2, <1>3, <1>4, <2>1, <2>3, <2>5, <2>8, <2>12 DEF FadeOut
<1>7. QED BY <1>5, <1>6 DEF FadeOut

LEMMA FadeOutEnds ==
  ASSUME Types, Order, FadeOut, Drain \/ Flush \/ UNCHANGED vars, ~past'.stale
  PROVE  FadeOut'
<1>1. output \in Outputs /\ decode \in Decoders /\ fade \in Fades /\ past \in Pasts
  BY Parts DEF Types
<1>2. CASE Drain
  <2>1. Rest' = Rest /\ Used' = Used BY <1>2, DrainOrder
  <2>2. UNCHANGED <<readp, decode, past>> /\ output'.mode = output.mode
        /\ output'.track_start = output.track_start /\ output'.wanted = output.wanted
    BY <1>1, <1>2 DEF Drain, Outputs
  <2>3. fade' = fade
    <3>1. fade' = [fade EXCEPT !.writep = None] BY <1>2 DEF Drain
    <3>2. fade.writep = None BY DEF FadeOut
    <3>3. QED BY <1>1, <3>1, <3>2 DEF Fades
  <2>4. FadeDone' = FadeDone /\ FadeLength' = FadeLength /\ Most' = Most /\ Now' = Now
        /\ Bound' = Bound
    BY <2>1, <2>2, <2>3 DEF FadeDone, FadeLength, Most, Now, Bound
  <2>5. (FadeDown => FadeDown') /\ (FadeUp => FadeUp')
    BY <2>1, <2>2, <2>3, <2>4 DEF FadeDown, FadeUp
  <2>6. QED BY <2>2, <2>3, <2>4, <2>5 DEF FadeOut
<1>3. CASE Flush
  <2>1. fade' = [fade EXCEPT !.writep = None] /\ output' = [output EXCEPT !.track_start = None]
        /\ decode' = [decode EXCEPT !.state = "STOPPED"]
    BY <1>3 DEF Flush
  <2>2. fade.state = "INACTIVE" BY <1>1, <1>3 DEF Flush, Pasts
  <2>3. fade'.state = "INACTIVE" /\ fade'.writep = None /\ output'.mode = output.mode
        /\ output'.wanted = output.wanted /\ decode'.state = "STOPPED"
    BY <1>1, <2>1, <2>2 DEF Fades, Outputs, Decoders
  <2>4. QED BY <2>3 DEF FadeOut
<1>4. CASE UNCHANGED vars
  BY <1>4 DEF vars, FadeOut, FadeDown, FadeUp, Bound, Most, FadeDone, FadeLength, Rest, Own, Now,
              Used, Gone
<1>5. QED BY <1>2, <1>3, <1>4

\* The frames that are pulled ahead of the end of a fade out are the last of their track.
LEMMA PulledLast ==
  ASSUME Types, Types', Order, FadeOut, FadeDown, decode.state # "STOPPED", decode' = decode,
         Bound > 0, NEW f, PulledFrom(f)
  PROVE  /\ Bound \in Nat /\ Bound' = Bound - f
         /\ decode.state # "DONE" => past'.heard[Now] = 0
         /\ \A i \in 1..f :
              pulled'.frames[i][2] = decode.length[pulled'.frames[i][1]] - Bound + i
<1>1. /\ Now \in Track /\ Rest \in Int /\ Rest >= 0 /\ Used \in Nat /\ f \in Nat
      /\ Used' = Used - f /\ past.heard[Now] \in Nat
  BY Parts DEF PulledFrom, Order, Holds
<1>2. CASE decode.state = "DONE"
  <2>1. output.track_start = None
    <3>1. past.heard[Now] > 0 BY <1>2 DEF FadeOut
    <3>2. QED BY <1>1, <1>2, <3>1 DEF Order, Marks
  <2>2. Rest = 0 BY <1>2, <2>1 DEF Order, Marks
  <2>3. PulledNew(f) BY <2>2 DEF PulledFrom, PulledOld
  <2>4. decode.frames = decode.length[Now] BY <1>2 DEF Order, Progress
  <2>5. \A i \in 1..f : pulled'.frames[i] = <<Now, decode.length[Now] - Used + i>>
    BY <2>3, <2>4 DEF PulledNew
  <2>6. Bound = Used /\ Bound' = Used' BY <1>2 DEF Bound
  <2>7. QED BY <1>1, <1>2, <2>5, <2>6
<1>3. CASE decode.state # "DONE"
  <2>1. Bound = Rest /\ Bound' = Rest' BY <1>3 DEF Bound
  <2>2. PulledOld(f) BY <2>1 DEF PulledFrom, PulledNew
  <2>3. Rest' = Rest - f /\ past'.heard[Now] = 0 BY <2>2 DEF PulledOld
  <2>4. \A i \in 1..f : pulled'.frames[i] = <<Now - 1, decode.length[Now - 1] - Rest + i>>
    BY <2>2 DEF PulledOld
  <2>5. QED BY <1>1, <1>3, <2>1, <2>3, <2>4
<1>4. QED BY <1>2, <1>3

\* And those that are pulled of a track while it fades in are the first.
LEMMA PulledHeard ==
  ASSUME Types, Order, output.wanted # "CROSSFADE", decode.state # "STOPPED", Rest = 0,
         NEW f, PulledFrom(f)
  PROVE  /\ past.heard[Now] \in Nat /\ past'.heard[Now] = past.heard[Now] + f /\ Rest' = 0
         /\ \A i \in 1..f : pulled'.frames[i][2] = past.heard[Now] + i
<1>1. PulledNew(f) BY DEF PulledFrom, PulledOld
<1>2. /\ Now \in Track /\ Used \in Nat /\ Own \in Int /\ decode.frames \in Nat
      /\ past.heard[Now] \in Nat /\ f \in Nat
  BY Parts DEF PulledFrom
<1>3. Gone(Now) = past.heard[Now] BY <1>2 DEF Order, Crosses, NoCross, Gone
<1>4. Own = decode.frames - past.heard[Now] BY <1>3 DEF Own
<1>5. Used - Own = 0 BY DEF Rest
<1>6. decode.frames - Used = past.heard[Now] BY <1>2, <1>4, <1>5
<1>7. \A i \in 1..f : pulled'.frames[i] = <<Now, decode.frames - Used + i>>
  BY <1>1 DEF PulledNew
<1>8. QED BY <1>1, <1>2, <1>6, <1>7 DEF PulledNew

LEMMA FadeOutFill ==
  ASSUME Types, Types', Order, output.wanted \in {"OUT", "INOUT"}, FadeOut, Fill,
         ~pulled'.fault
  PROVE  FadeOut' /\ FadePull'
<1>1. decode.state # "STOPPED" BY DEF Fill
<1>2. PICK n \in 1..ContRead :
        /\ output' = GainAndFade(n).output /\ fade' = GainAndFade(n).fade /\ decode' = decode
        /\ Takes(GainAndFade(n))
  BY FillIs
<1> DEFINE g == GainAndFade(n)
           f == g.frames
<1>3. PulledFrom(f) /\ pulled'.dir = g.dir BY <1>1, <1>2, PlainOrder
<1>4. output'.wanted = output.wanted /\ output'.mode = output.mode /\ Most' = Most
  BY <1>2, WantedIs DEF Most
<1>5. /\ readp \in Where /\ fade.start \in Where /\ fade.end \in Where /\ f \in Nat /\ f >= 1
      /\ DOMAIN pulled'.frames = 1..f /\ readp' = Plus(readp, f) /\ fade \in Fades
      /\ Now \in Track /\ Size \in Nat /\ Rest \in Int /\ Rest >= 0 /\ Used \in Nat /\ Used >= 1
      /\ Used' = Used - f /\ f <= Used /\ past.heard[Now] \in Nat
  BY <1>1, <1>3, Parts, Numbers DEF PulledFrom, Order, Holds
<1>6. Now' = Now BY <1>2 DEF Now
<1>7. FadeDone \in Nat /\ FadeLength \in Nat /\ FadeLength < Size /\ Most \in Nat
  <2>1. FadeDone \in Where /\ FadeLength \in Where
    BY <1>5, DistanceType DEF FadeDone, FadeLength
  <2>2. QED BY <1>5, <2>1, Numbers DEF Where, Most
<1>8. fade.writep = None /\ output.mode \in {output.wanted, "NONE"}
      /\ (fade.state # "INACTIVE" => decode.state \notin {"STOPPED", "COMPLETE"}
                                     /\ FadeLength <= Most)
  BY DEF FadeOut
<1>9. decode'.state \in {"COMPLETE", "DONE"} => past'.heard[Now'] > 0
  <2>1. ASSUME decode.state \in {"COMPLETE", "DONE"} PROVE past'.heard[Now] > 0
    <3>1. past.heard[Now] > 0 BY <2>1 DEF FadeOut
    <3>2. output.track_start = None BY <1>5, <2>1, <3>1 DEF Order, Marks
    <3>3. Rest = 0 BY <2>1, <3>2 DEF Order, Marks
    <3>4. past'.heard[Now] = past.heard[Now] + f BY <1>1, <1>3, <3>3, PulledHeard
    <3>5. QED BY <1>5, <3>1, <3>4
  <2>2. QED BY <1>2, <1>6, <2>1
<1>10. ASSUME fade'.state = "INACTIVE", fade'.writep = None, g.dir = "none"
       PROVE  FadeOut' /\ FadePull'
  BY <1>3, <1>4, <1>8, <1>9, <1>10 DEF FadeOut, FadePull
<1>11. CASE fade.state = "INACTIVE"
  <2>1. g = Aligned(n) BY <1>8, <1>11, IdleIs
  <2>2. g.fade = fade /\ g.dir = "none" BY <2>1, AlignedIs
  <2>3. QED BY <1>2, <1>8, <1>10, <1>11, <2>2
<1>12. CASE fade.state = "DUE" /\ fade.start # readp
  <2>1. /\ g.dir = "none" /\ fade'.state = "DUE" /\ fade'.dir = fade.dir
        /\ fade'.start = fade.start /\ fade'.end = fade.end /\ fade'.writep = fade.writep
        /\ f <= Distance(fade.start, readp)
    BY <1>2, <1>12, DueIs
  <2>2. ~FadeUp
    <3> SUFFICES ASSUME FadeUp PROVE FALSE OBVIOUS
    <3>1. output.track_start = fade.start /\ output.track_start # None /\ Rest = 0
          /\ decode.state = "RUNNING"
      BY <1>12 DEF FadeUp
    <3>2. Distance(output.track_start, readp) = 0 BY <3>1 DEF Order, Marks
    <3>3. QED BY <1>5, <1>12, <3>1, <3>2, DistanceType
  <2>3. fade.dir = "DOWN" /\ FadeDown BY <1>12, <2>2 DEF FadeOut
  <2> DEFINE d == Distance(fade.start, readp)
             l == FadeLength
  <2>4. d + l = Bound BY <1>12, <2>3 DEF FadeDown
  <2>5. d \in Nat /\ d # 0
    <3>1. d \in Where /\ (d = 0 <=> fade.start = readp) BY <1>5, DistanceType
    <3>2. QED BY <1>5, <1>12, <3>1, Numbers DEF Where
  <2>6. l \in Nat BY <1>7
  <2>7. f \in 0..d BY <1>5, <2>1, <2>5
  <2>8. Distance(fade.start, Plus(readp, f)) = d - f BY <1>5, <2>7, Closer
  <2>9. Distance(fade.start, readp)' = d - f BY <1>5, <2>1, <2>8
  <2>10. FadeLength' = l BY <2>1 DEF FadeLength
  <2> HIDE DEF d, l, f
  <2>11. Bound > 0 BY <2>4, <2>5, <2>6
  <2>12. Bound' = Bound - f /\ Bound \in Nat /\ (decode.state # "DONE" => past'.heard[Now] = 0)
    BY <1>1, <1>2, <1>3, <2>3, <2>11, PulledLast
  <2>13. (d - f) + l = Bound - f BY <1>5, <2>4, <2>5, <2>6, <2>12
  <2>14. FadeDown' BY <1>2, <1>6, <2>1, <2>9, <2>10, <2>12, <2>13 DEF FadeDown
  <2>15. FadeOut' BY <1>2, <1>4, <1>8, <1>9, <1>12, <2>1, <2>3, <2>10, <2>14 DEF FadeOut, l
  <2>16. FadePull' BY <1>3, <2>1 DEF FadePull
  <2>17. QED BY <2>15, <2>16
<1>13. CASE fade.state = "ACTIVE" \/ (fade.state = "DUE" /\ fade.start = readp)
  <2>1. fade.state # "INACTIVE" BY <1>13
  <2>2. (FadeDone = 0 /\ Distance(fade.start, readp) = 0) \/ fade.state = "ACTIVE"
    BY <1>5, <1>13, DistanceType DEF FadeDone
  <2>3. CASE fade.dir = "DOWN"
    <3>1. FadeDown BY <2>1, <2>3 DEF FadeOut, FadeUp
    <3>2. Bound \in Int BY <1>5 DEF Bound
    <3>3. FadeDone + Bound = FadeLength
      <4>1. CASE fade.state = "ACTIVE" BY <3>1, <4>1 DEF FadeDown
      <4>2. CASE fade.state # "ACTIVE"
        <5>1. FadeDone = 0 /\ Distance(fade.start, readp) = 0 /\ fade.state = "DUE"
          BY <1>13, <2>2, <4>2
        <5>2. 0 + FadeLength = Bound BY <3>1, <5>1 DEF FadeDown
        <5>3. QED BY <1>7, <3>2, <5>1, <5>2
      <4>3. QED BY <4>1, <4>2
    <3>4. CASE FadeDone < FadeLength
      <4>1. /\ g.dir = "DOWN" /\ f <= FadeLength - FadeDone
            /\ fade'.state = "ACTIVE" /\ fade'.dir = "DOWN" /\ fade'.start = fade.start
            /\ fade'.end = fade.end /\ fade'.writep = None
        BY <1>2, <1>8, <1>13, <2>3, <3>4, FadingIs
      <4> HIDE DEF f
      <4>2. Bound > 0 BY <1>7, <3>2, <3>3, <3>4
      <4>3. /\ Bound' = Bound - f /\ Bound \in Nat
            /\ decode.state # "DONE" => past'.heard[Now] = 0
            /\ \A i \in 1..f :
                 pulled'.frames[i][2] = decode.length[pulled'.frames[i][1]] - Bound + i
        BY <1>1, <1>2, <1>3, <3>1, <4>2, PulledLast
      <4>4. Bound <= Most BY <1>7, <1>8, <2>1, <3>2, <3>3
      <4>5. \A i \in 1..f :
              pulled'.frames[i][2] > decode.length[pulled'.frames[i][1]] - Most
        <5> TAKE i \in 1..f
        <5>1. pulled'.frames[i][1] \in Track
          <6>1. pulled'.frames \in Seq(Frame) /\ Len(pulled'.frames) = f BY <1>2 DEF Takes, f
          <6>2. pulled'.frames[i] \in Frame BY <6>1, ElementOfSeq
          <6>3. QED BY <6>2 DEF Frame
        <5>2. decode.length[pulled'.frames[i][1]] \in Nat BY <5>1, Parts
        <5>3. QED BY <1>5, <1>7, <4>3, <4>4, <5>2, SMTT(20)
      <4>6. FadePull' BY <1>2, <1>3, <1>4, <1>5, <4>1, <4>5 DEF FadePull
      <4>7. FadeLength' = FadeLength BY <4>1 DEF FadeLength
      <4>8. FadeDone' = FadeDone + f
        <5>1. FadeDone + f < Size BY <1>5, <1>7, <4>1
        <5>2. Distance(Plus(readp, f), fade.start) = FadeDone + f
          BY <1>5, <5>1, Further DEF FadeDone
        <5>3. QED BY <1>5, <4>1, <5>2 DEF FadeDone
      <4>9. (FadeDone + f) + (Bound - f) = FadeLength BY <1>5, <1>7, <3>2, <3>3
      <4>10. FadeDown' BY <1>2, <1>6, <4>1, <4>3, <4>7, <4>8, <4>9 DEF FadeDown
      <4>11. FadeOut' BY <1>2, <1>4, <1>8, <1>9, <2>1, <4>1, <4>7, <4>10 DEF FadeOut
      <4>12. QED BY <4>6, <4>11
    <3>5. CASE FadeDone >= FadeLength
      <4>1. Bound = 0
        <5>1. Bound >= 0 BY <1>5 DEF Bound
        <5>2. QED BY <1>7, <3>2, <3>3, <3>5, <5>1
      <4>2. decode.state # "DONE" /\ Rest = 0 BY <1>5, <4>1 DEF Bound
      <4>3. PulledNew(f) BY <1>3, <4>2 DEF PulledFrom, PulledOld
      <4>4. decode.state = "RUNNING"
        BY <1>8, <2>1, <4>2, <4>3, Parts DEF PulledNew, Decoders
      <4>5. past.heard[Now] = 0 BY <3>1, <4>2 DEF FadeDown
      <4>6. CASE output.mode = "INOUT"
        <5>1. /\ g.dir = "UP" /\ Duration(g) = FadeLength
              /\ FadeLength > 0 => f <= FadeLength
              /\ fade'.state = "ACTIVE" /\ fade'.dir = "UP" /\ fade'.start = readp
              /\ Distance(fade'.end, readp) = FadeLength /\ fade'.writep = None
          BY <1>2, <1>8, <1>13, <2>3, <3>5, <4>6, UpAgainDoes
        <5>2. FadeLength >= 1
          <6>1. ~DividesByZero(g) BY <1>2 DEF Takes
          <6>2. FadeLength # 0 BY <5>1, <6>1 DEF DividesByZero
          <6>3. QED BY <1>7, <6>2
        <5> HIDE DEF f, g
        <5>3. f <= FadeLength BY <1>7, <5>1, <5>2
        <5>4. /\ past'.heard[Now] = 0 + f /\ Rest' = 0
              /\ \A i \in 1..f : pulled'.frames[i][2] = 0 + i
          BY <1>1, <1>3, <4>2, <4>5, PulledHeard
        <5>5. \A i \in 1..f : pulled'.frames[i][2] <= Most
          BY <1>5, <1>7, <1>8, <2>1, <5>3, <5>4
        <5>6. FadePull' BY <1>3, <1>4, <1>5, <5>1, <5>5 DEF FadePull
        <5>7. FadeLength' = FadeLength BY <5>1 DEF FadeLength
        <5>8. FadeDone' = f
          <6>1. Distance(readp, readp) = 0 BY <1>5, DistanceType
          <6>2. 0 + f < Size BY <1>5, <1>7, <5>3
          <6>3. Distance(Plus(readp, f), readp) = 0 + f BY <1>5, <6>1, <6>2, Further
          <6>4. QED BY <1>5, <5>1, <6>3 DEF FadeDone
        <5>9. output'.wanted = "INOUT" BY <1>4, <1>8, <4>6
        <5>10. past'.heard[Now'] = f BY <1>5, <1>6, <5>4
        <5>11. FadeUp'
          BY <1>2, <4>4, <5>1, <5>2, <5>3, <5>4, <5>7, <5>8, <5>9, <5>10 DEF FadeUp
        <5>12. FadeOut' BY <1>2, <1>4, <1>8, <1>9, <2>1, <5>1, <5>7, <5>11 DEF FadeOut
        <5>13. QED BY <5>6, <5>12
      <4>7. CASE output.mode # "INOUT"
        <5>1. output.mode # "CROSSFADE" BY <1>8
        <5>2. g.dir = "none" /\ fade'.state = "INACTIVE" /\ fade'.writep = None
          BY <1>2, <1>8, <1>13, <3>5, <4>7, <5>1, FadedIs
        <5>3. QED BY <1>10, <5>2
      <4>8. QED BY <4>6, <4>7
    <3>6. QED BY <1>7, <3>4, <3>5
  <2>4. CASE fade.dir # "DOWN"
    <3>1. fade.dir = "UP" /\ FadeUp BY <2>1, <2>4 DEF FadeOut
    <3>2. /\ output.wanted = "INOUT" /\ decode.state = "RUNNING" /\ Rest = 0
          /\ FadeLength >= 1
      BY <3>1 DEF FadeUp
    <3>3. past.heard[Now] = FadeDone /\ FadeDone <= FadeLength
      <4>1. CASE fade.state = "ACTIVE" BY <3>1, <4>1 DEF FadeUp
      <4>2. CASE fade.state # "ACTIVE"
        <5>1. output.track_start # None BY <1>13, <3>1, <4>2 DEF FadeUp
        <5>2. past.heard[Now] = 0 BY <3>2, <5>1 DEF Order, Marks
        <5>3. QED BY <1>7, <2>2, <4>2, <5>2
      <4>3. QED BY <4>1, <4>2
    <3>4. /\ past'.heard[Now] = past.heard[Now] + f /\ Rest' = 0
          /\ \A i \in 1..f : pulled'.frames[i][2] = past.heard[Now] + i
      BY <1>1, <1>3, <3>2, PulledHeard
    <3>5. CASE FadeDone < FadeLength
      <4>1. /\ g.dir = "UP" /\ f <= FadeLength - FadeDone
            /\ fade'.state = "ACTIVE" /\ fade'.dir = "UP" /\ fade'.start = fade.start
            /\ fade'.end = fade.end /\ fade'.writep = None
        BY <1>2, <1>8, <1>13, <3>1, <3>5, FadingIs
      <4> HIDE DEF f
      <4>2. \A i \in 1..f : pulled'.frames[i][2] <= Most
        BY <1>5, <1>7, <1>8, <2>1, <3>3, <3>4, <4>1, SMTT(20)
      <4>3. FadePull' BY <1>3, <1>4, <1>5, <4>1, <4>2 DEF FadePull
      <4>4. FadeLength' = FadeLength BY <4>1 DEF FadeLength
      <4>5. FadeDone' = FadeDone + f
        <5>1. FadeDone + f < Size BY <1>5, <1>7, <4>1
        <5>2. Distance(Plus(readp, f), fade.start) = FadeDone + f
          BY <1>5, <5>1, Further DEF FadeDone
        <5>3. QED BY <1>5, <4>1, <5>2 DEF FadeDone
      <4>6. FadeDone + f <= FadeLength BY <1>5, <1>7, <4>1
      <4>7. past'.heard[Now'] = FadeDone + f BY <1>6, <3>3, <3>4
      <4>8. FadeUp' BY <1>2, <1>4, <3>2, <3>4, <4>1, <4>4, <4>5, <4>6, <4>7 DEF FadeUp
      <4>9. FadeOut' BY <1>2, <1>4, <1>8, <1>9, <2>1, <4>1, <4>4, <4>8 DEF FadeOut
      <4>10. QED BY <4>3, <4>9
    <3>6. CASE FadeDone >= FadeLength
      <4>1. output.mode # "CROSSFADE" /\ fade.dir # "DOWN" BY <1>8, <2>4
      <4>2. g.dir = "none" /\ fade'.state = "INACTIVE" /\ fade'.writep = None
        BY <1>2, <1>8, <1>13, <3>6, <4>1, FadedIs
      <4>3. QED BY <1>10, <4>2
    <3>7. QED BY <1>7, <3>5, <3>6
  <2>5. QED BY <2>3, <2>4
<1>14. fade.state \in {"INACTIVE", "DUE", "ACTIVE"} BY <1>5 DEF Fades
<1>15. QED BY <1>11, <1>12, <1>13, <1>14

-----------------------------------------------------------------------------
(* The theorems                                                            *)

\* What only the output thread changes.
LEMMA OthersAre ==
  ASSUME Types, NextTrack \/ Decodes \/ Drain \/ Flush \/ UNCHANGED vars
  PROVE  /\ pulled' = pulled /\ decode'.length = decode.length
         /\ output'.wanted = output.wanted /\ (past.stale => past'.stale)
<1>1. output \in Outputs /\ decode \in Decoders /\ past \in Pasts BY DEF Types
<1>2. ASSUME NextTrack
      PROVE  /\ pulled' = pulled /\ decode'.length = decode.length
             /\ output'.wanted = output.wanted /\ past' = past
  BY <1>1, <1>2 DEF NextTrack, Outputs, Decoders
<1>3. ASSUME NewStream
      PROVE  /\ pulled' = pulled /\ decode'.length = decode.length
             /\ output'.wanted = output.wanted /\ past' = past
  BY <1>1, <1>3 DEF NewStream, Outputs, Decoders
<1>4. ASSUME Decode
      PROVE  /\ pulled' = pulled /\ decode'.length = decode.length
             /\ output'.wanted = output.wanted /\ past' = past
  BY <1>1, <1>4 DEF Decode, Outputs, Decoders
<1>5. ASSUME DecodeCompletes \/ DecodeDone
      PROVE  /\ pulled' = pulled /\ decode'.length = decode.length
             /\ output'.wanted = output.wanted /\ past' = past
  BY <1>1, <1>5 DEF DecodeCompletes, DecodeDone, Outputs, Decoders
<1>6. ASSUME Drain
      PROVE  /\ pulled' = pulled /\ decode'.length = decode.length
             /\ output'.wanted = output.wanted /\ past' = past
  BY <1>1, <1>6 DEF Drain, Outputs, Decoders
<1>7. ASSUME Flush
      PROVE  /\ pulled' = pulled /\ decode'.length = decode.length
             /\ output'.wanted = output.wanted /\ (past.stale => past'.stale)
  <2>1. past.stale => past'.stale BY <1>1, <1>7 DEF Flush, Pasts
  <2>2. QED BY <1>1, <1>7, <2>1 DEF Flush, Outputs, Decoders
<1>8. QED BY <1>2, <1>3, <1>4, <1>5, <1>6, <1>7 DEF Decodes, vars

LEMMA OthersOrder ==
  ASSUME Types, Order, NextTrack \/ Decodes \/ Drain \/ Flush \/ UNCHANGED vars, ~past'.stale
  PROVE  Order'
<1>1. CASE UNCHANGED vars
  BY <1>1 DEF vars, Order, Progress, Holds, Marks, Crosses, NoCross, Crossing, Now, Own, Rest,
              Used, Gone, FadeLength, FadeDone
<1>2. QED BY <1>1, NextTrackOrder, NewStreamOrder, DecodeOrder, EndOrder, DrainOrder,
             FlushOrder DEF Decodes

\* The inductive invariant.
Inv ==
  /\ Types
  /\ Sane => Order /\ OwnGain /\ (output.wanted = "CROSSFADE" => CrossPull)

LEMMA InitInv == Init => Inv
<1> SUFFICES ASSUME Init PROVE Inv OBVIOUS
<1>1. DOMAIN pulled.frames = {} BY DEF Init, Nothing
<1>2. OwnGain /\ CrossPull BY <1>1 DEF OwnGain, CrossPull
<1>3. QED BY <1>2, InitTypes, InitOrder DEF Inv

LEMMA NextInv ==
  ASSUME Inv, [Next]_vars
  PROVE  Inv'
<1>1. Types /\ Types' BY NextTypes DEF Inv
<1> SUFFICES ASSUME Sane'
             PROVE  (Order /\ OwnGain /\ (output.wanted = "CROSSFADE" => CrossPull))'
  BY <1>1 DEF Inv
<1>2. CASE Fill
  <2>1. Sane /\ ~pulled'.fault /\ output'.wanted = output.wanted
    <3>1. PICK n \in 1..ContRead :
            /\ output' = GainAndFade(n).output /\ past'.stale = past.stale
            /\ ~pulled'.fault => Takes(GainAndFade(n))
      BY <1>1, <1>2, FillIs
    <3>2. GainAndFade(n).output.wanted = output.wanted
      BY <1>1, WantedIs
    <3>3. QED BY <1>2, <3>1, <3>2 DEF Sane, Fill
  <2>2. Order' /\ OwnGain' /\ (output.wanted = "CROSSFADE" => CrossPull')
    BY <1>1, <1>2, <2>1, FillOrder DEF Inv
  <2>3. QED BY <2>1, <2>2
<1>3. CASE NextTrack \/ Decodes \/ Drain \/ Flush \/ UNCHANGED vars
  <2>1. /\ pulled' = pulled /\ decode'.length = decode.length
        /\ output'.wanted = output.wanted /\ (past.stale => past'.stale)
    BY <1>1, <1>3, OthersAre
  <2>2. Sane /\ ~past'.stale BY <2>1 DEF Sane
  <2>3. Order' BY <1>1, <1>3, <2>2, OthersOrder DEF Inv
  <2>4. OwnGain' /\ (output.wanted = "CROSSFADE" => CrossPull')
    BY <2>1, <2>2 DEF Inv, OwnGain, CrossPull
  <2>5. QED BY <2>1, <2>3, <2>4
<1>4. QED BY <1>2, <1>3 DEF Next

\* A fade in, and a crossfade, may take any track; a fade out only long ones.
FadesHaveRoom == Modes \cap {"OUT", "INOUT"} = {} \/ LongTracks

\* The invariant of the fades, for each transition that LMS may ask for.
Placed ==
  /\ output.wanted \in Modes
  /\ Sane =>
       /\ output.wanted = "NONE" => Calm /\ pulled.dir = "none"
       /\ output.wanted = "IN" => FadeIn /\ FadePull
       /\ output.wanted \in {"OUT", "INOUT"} => FadeOut /\ FadePull

LEMMA InitPlaced == Init => Placed
<1> SUFFICES ASSUME Init PROVE Placed OBVIOUS
<1>1. PICK flow \in BOOLEAN, mode \in Modes, length \in [Track -> Lengths] :
        /\ output = [flow |-> flow, wanted |-> mode, mode |-> "NONE", track_start |-> None,
                     replay_gain |-> 0, next_replay_gain |-> 0, completed |-> TRUE]
        /\ decode = [state |-> "STOPPED", track |-> 0, frames |-> 0, length |-> length]
  BY DEF Init
<1>2. /\ output.wanted \in Modes /\ output.mode = "NONE" /\ decode.state = "STOPPED"
      /\ fade.state = "INACTIVE" /\ fade.writep = None
      /\ pulled.dir = "none" /\ DOMAIN pulled.frames = {}
  BY <1>1 DEF Init, NoFade, Nothing
<1>3. QED BY <1>2 DEF Placed, Calm, FadeIn, FadeOut, FadePull

LEMMA NextPlaced ==
  ASSUME FadesHaveRoom, Inv, Placed, [Next]_vars
  PROVE  Placed'
<1>1. Types /\ Types' /\ Inv' BY NextTypes, NextInv DEF Inv
<1>2. output.wanted \in {"OUT", "INOUT"} => LongTracks BY DEF Placed, FadesHaveRoom
<1>3. CASE Fill
  <2>1. PICK n \in 1..ContRead :
          output' = GainAndFade(n).output /\ past'.stale = past.stale
    BY <1>1, <1>3, FillIs
  <2>2. output'.wanted = output.wanted BY <1>1, <2>1, WantedIs
  <2> SUFFICES ASSUME Sane'
               PROVE  /\ output.wanted = "NONE" => (Calm /\ pulled.dir = "none")'
                      /\ output.wanted = "IN" => (FadeIn /\ FadePull)'
                      /\ output.wanted \in {"OUT", "INOUT"} => (FadeOut /\ FadePull)'
    BY <2>2 DEF Placed
  <2>3. ~pulled'.fault /\ Sane BY <1>3, <2>1 DEF Sane, Fill
  <2>4. Order /\ Order' BY <1>1, <2>3 DEF Inv
  <2>5. output.wanted = "NONE" => (Calm /\ pulled.dir = "none")'
    BY <1>1, <1>3, <2>3, CalmFill DEF Placed
  <2>6. output.wanted = "IN" => (FadeIn /\ FadePull)'
    BY <1>1, <1>3, <2>3, <2>4, FadeInFill DEF Placed
  <2>7. output.wanted \in {"OUT", "INOUT"} => (FadeOut /\ FadePull)'
    BY <1>1, <1>3, <2>3, <2>4, FadeOutFill DEF Placed
  <2>8. QED BY <2>5, <2>6, <2>7
<1>4. CASE NextTrack \/ Decodes \/ Drain \/ Flush \/ UNCHANGED vars
  <2>1. /\ pulled' = pulled /\ decode'.length = decode.length
        /\ output'.wanted = output.wanted /\ (past.stale => past'.stale)
    BY <1>1, <1>4, OthersAre
  <2> SUFFICES ASSUME Sane'
               PROVE  /\ output.wanted = "NONE" => (Calm /\ pulled.dir = "none")'
                      /\ output.wanted = "IN" => (FadeIn /\ FadePull)'
                      /\ output.wanted \in {"OUT", "INOUT"} => (FadeOut /\ FadePull)'
    BY <2>1 DEF Placed
  <2>2. Sane /\ ~past'.stale BY <2>1 DEF Sane
  <2>3. Order BY <2>2 DEF Inv
  <2>4. FadePull => FadePull' BY <2>1 DEF FadePull, Most
  <2>5. output.wanted = "NONE" => (Calm /\ pulled.dir = "none")'
    BY <1>1, <1>4, <2>1, <2>2, CalmOthers DEF Placed
  <2>6. output.wanted = "IN" => (FadeIn /\ FadePull)'
    BY <1>1, <1>4, <2>2, <2>3, <2>4, FadeInOthers DEF Placed
  <2>7. ASSUME output.wanted \in {"OUT", "INOUT"} PROVE (FadeOut /\ FadePull)'
    <3>1. FadeOut /\ FadePull /\ LongTracks BY <1>2, <2>2, <2>7 DEF Placed
    <3>2. FadeOut'
      BY <1>1, <1>4, <2>2, <2>3, <2>7, <3>1, FadeOutNext, FadeOutStream, FadeOutDecode,
         FadeOutCompletes, FadeOutDone, FadeOutEnds DEF Decodes
    <3>3. QED BY <2>4, <3>1, <3>2
  <2>8. QED BY <2>5, <2>6, <2>7
<1>5. QED BY <1>3, <1>4 DEF Next

LEMMA PlacedFades ==
  ASSUME Inv, Placed
  PROVE  FadesInPlace
<1> SUFFICES ASSUME Sane, NEW i \in DOMAIN pulled.frames
             PROVE  LET t == pulled.frames[i][1]
                        n == pulled.frames[i][2]
                        most == IF output.wanted = "INOUT" THEN Secs \div 2 ELSE Secs
                        atEnd == n > decode.length[t] - most
                    IN  CASE pulled.dir = "UP" -> n <= most
                          [] pulled.dir = "DOWN" -> atEnd
                          [] pulled.dir = "CROSS" ->
                               atEnd /\ pulled.mixed[i][1] = t + 1 /\ pulled.mixed[i][2] <= most
                          [] OTHER -> TRUE
  BY DEF FadesInPlace
<1>1. output.wanted \in Kinds BY Parts DEF Inv, Outputs
<1>2. CASE output.wanted = "CROSSFADE"
  <2>1. \/ pulled.dir = "none"
        \/ /\ pulled.dir = "CROSS"
           /\ pulled.frames[i][2] > decode.length[pulled.frames[i][1]] - Secs
           /\ pulled.mixed[i][1] = pulled.frames[i][1] + 1 /\ pulled.mixed[i][2] <= Secs
    BY <1>2 DEF Inv, CrossPull
  <2>2. QED BY <1>2, <2>1
<1>3. CASE output.wanted = "NONE"
  <2>1. pulled.dir = "none" BY <1>3 DEF Placed
  <2>2. QED BY <2>1
<1>4. CASE output.wanted \in {"IN", "OUT", "INOUT"}
  <2>1. \/ pulled.dir = "none"
        \/ pulled.dir = "UP" /\ pulled.frames[i][2] <= Most
        \/ /\ pulled.dir = "DOWN"
           /\ pulled.frames[i][2] > decode.length[pulled.frames[i][1]] - Most
    BY <1>4 DEF Placed, FadePull
  <2>2. QED BY <2>1 DEF Most
<1>5. QED BY <1>1, <1>2, <1>3, <1>4 DEF Kinds

\* Nothing is lost while the frames are in order.
LEMMA OrderKeeps ==
  ASSUME Types, Order
  PROVE  /\ Used > 0 => outputbuf[1][2] = Gone(outputbuf[1][1]) + 1
         /\ Used = 0 /\ decode.state = "DONE" => Gone(decode.track) = decode.length[decode.track]
<1>1. ASSUME Used > 0 PROVE outputbuf[1][2] = Gone(outputbuf[1][1]) + 1
  <2>1. decode.state # "STOPPED" BY <1>1, Parts DEF Order, Progress
  <2>2. Now \in Track /\ Own \in Int /\ Rest \in Int /\ Used \in Nat /\ decode.frames \in Nat
        /\ Rest >= 0 /\ Gone(Now) \in Nat
    BY <2>1, Parts DEF Order, Holds
  <2>3. 1 \in 1..Used BY <1>1, <2>2
  <2>4. CASE Rest > 0
    <3>1. outputbuf[1] = <<Now - 1, decode.length[Now - 1] - Rest + 1>>
      BY <2>1, <2>2, <2>3, <2>4 DEF Order, Holds
    <3>2. Now > 1 /\ Gone(Now - 1) + Rest = decode.length[Now - 1]
      BY <2>1, <2>4 DEF Order, Holds
    <3>3. Now - 1 \in Track BY <2>2, <3>2, Numbers DEF Track
    <3>4. Gone(Now - 1) \in Nat BY <3>3, Parts
    <3>5. decode.length[Now - 1] - Rest + 1 = Gone(Now - 1) + 1 BY <2>2, <3>2, <3>4
    <3>6. QED BY <3>1, <3>5
  <2>5. CASE Rest = 0
    <3>1. outputbuf[1] = <<Now, decode.frames - Used + 1>>
      BY <2>1, <2>3, <2>5 DEF Order, Holds
    <3>2. decode.frames - Used + 1 = Gone(Now) + 1 BY <2>2, <2>5 DEF Own, Rest
    <3>3. QED BY <3>1, <3>2
  <2>6. QED BY <2>2, <2>4, <2>5
<1>2. ASSUME Used = 0, decode.state = "DONE"
      PROVE  Gone(decode.track) = decode.length[decode.track]
  <2>1. Now \in Track /\ Own \in Int /\ Rest \in Int /\ Rest >= 0 /\ Own >= 0
        /\ decode.frames = decode.length[Now] /\ decode.frames \in Nat
    BY <1>2, Parts DEF Order, Holds, Progress
  <2>2. Gone(Now) \in Nat BY <2>1, Parts
  <2>3. Own = 0 BY <1>2, <2>1 DEF Rest
  <2>4. decode.frames - Gone(Now) = 0 BY <2>3 DEF Own
  <2>5. Gone(Now) = decode.length[Now] BY <2>1, <2>2, <2>4
  <2>6. QED BY <2>5 DEF Now
<1>3. QED BY <1>1, <1>2

\* outputbuf never holds more than it may, and whatever is faded every frame of
\* a track leaves it once and in its turn: BufferOK.
THEOREM FadeKeeps == Spec => []BufferOK
<1>1. Inv => BufferOK
  <2> SUFFICES ASSUME Inv PROVE BufferOK OBVIOUS
  <2>1. Types /\ TypeOK BY TypesAreOK DEF Inv
  <2>2. NothingLost
    <3> SUFFICES ASSUME Sane
                 PROVE  /\ Used > 0 => outputbuf[1][2] = Gone(outputbuf[1][1]) + 1
                        /\ Used = 0 /\ decode.state = "DONE" =>
                             Gone(decode.track) = decode.length[decode.track]
      BY DEF NothingLost
    <3>1. Order BY DEF Inv
    <3>2. QED BY <2>1, <3>1, OrderKeeps
  <2>3. QED BY <2>1, <2>2 DEF BufferOK
<1>2. QED BY InitInv, NextInv, <1>1, PTL DEF Spec

\* Whenever the next replay gain was set, the frames of a track are played
\* with their own: GainIsOwn.
THEOREM FadeGain == Spec => []GainIsOwn
<1>1. Inv => GainIsOwn BY DEF Inv, OwnGain, GainIsOwn
<1>2. QED BY InitInv, NextInv, <1>1, PTL DEF Spec

\* A fade in takes the first frames of a track, a fade out its last, and a
\* crossfade mixes the last ones with the first of the next: FadesInPlace, for
\* tracks that outputbuf does not hold whole where LMS asks for fades out.
THEOREM FadesPlaced ==
  ASSUME FadesHaveRoom
  PROVE  Spec => []FadesInPlace
<1>1. Init => Inv /\ Placed BY InitInv, InitPlaced
<1>2. Inv /\ Placed /\ [Next]_vars => (Inv /\ Placed)' BY NextInv, NextPlaced
<1>3. Inv /\ Placed => FadesInPlace BY PlacedFades
<1>4. QED BY <1>1, <1>2, <1>3, PTL DEF Spec
=============================================================================
