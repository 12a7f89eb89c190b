------------------------------- MODULE MCMp4 -------------------------------
(* An instance of Mp4: three files, with chunks apart and together, a first  *)
(* sample the decoder keeps back, a video track, and Apple Lossless.         *)
EXTENDS Mp4

B(type, at, len) == [type |-> type, at |-> at, len |-> len]
Runs(at, runs) == [type |-> "stsc", at |-> at, len |-> 3, runs |-> runs]
Offsets(at, offsets) == [type |-> "stco", at |-> at, len |-> 3, offsets |-> offsets]
Count(at, n) == [type |-> "stts", at |-> at, len |-> 3, count |-> n]
Gap(at, start, end, samples) ==
  [type |-> "----", at |-> at, len |-> 3, start |-> start, end |-> end, samples |-> samples]
BlockSize(at, sizes) == [type |-> "stsz", at |-> at, len |-> 9, sizes |-> sizes]
R(first, samples) == [first |-> first, samples |-> samples]

\* Two samples, one unit of something else, then one sample and another.
Aac == [codec |-> "faad",
        boxes |-> << B("moov", 0, 22), B("trak", 2, 14), B("esds", 4, 3), Count(7, 8),
                     Runs(10, <<R(1, 2), R(2, 1)>>), Offsets(13, <<24, 28, 29>>),
                     B("meta", 16, 6), Gap(19, 3, 1, 4), B("mdat", 22, 9) >>,
        offsets |-> <<24, 25, 28, 29>>, lens |-> <<1, 2, 1, 2>>, length |-> 31,
        primes |-> TRUE, first |-> 4, last |-> 7]

\* A video track comes first, and its data is in front of each chunk.
Video == [codec |-> "faad",
          boxes |-> << B("moov", 0, 24), B("trak", 2, 11), Count(4, 5), Runs(7, <<R(1, 9)>>),
                       Offsets(10, <<31>>), B("trak", 13, 11), B("esds", 15, 3),
                       Runs(18, <<R(1, 1)>>), Offsets(21, <<32, 35>>), B("free", 24, 5),
                       B("mdat", 29, 8) >>,
          offsets |-> <<32, 35>>, lens |-> <<2, 2>>, length |-> 37,
          primes |-> FALSE, first |-> 1, last |-> 4]

\* Apple Lossless, with more frames than stts counts in the gapless entry.
Lossless == [codec |-> "alac",
             boxes |-> << B("moov", 0, 32), B("trak", 2, 27), B("stsd", 4, 7), B("alac", 8, 3),
                          BlockSize(11, <<2, 1, 2>>), Count(20, 6),
                          Runs(23, <<R(1, 2), R(2, 1)>>), Offsets(26, <<34, 38>>),
                          Gap(29, 1, 1, 9), B("mdat", 32, 8) >>,
             offsets |-> <<34, 36, 38>>, lens |-> <<2, 1, 2>>, length |-> 40,
             primes |-> FALSE, first |-> 2, last |-> 5]

MCFiles == <<Aac, Video, Lossless>>
=============================================================================
