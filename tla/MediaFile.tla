----------------------------- MODULE MediaFile ------------------------------
(***************************************************************************)
(* The files a client maps into memory: utility/mapfile.cpp, with          *)
(* containers/wavfile and containers/lightfile on top of it.  Operators on *)
(* a record m that holds a MapFile's pointer, MWAVFile and LightFile:      *)
(*   m.mapped            the addresses the kernel has mapped               *)
(*   m.wav, m.light      MapFile::ptr of the two files                     *)
(*   m.format            formatChunk is loaded (samplesize is not 0)       *)
(*   m.size, m.offset    dataSize and currentOffset of MWAVFile            *)
(*   m.frames, m.length  frameCount and frameLength of the LightHeader     *)
(*   m.extent, m.lightExtent  the data and the frames really in the files, *)
(*                       whatever their headers say                        *)
(*   m.shared            history: the files that are mapped where the      *)
(*                       other one's pointer still points                  *)
(* Sound is counted in samples; a whole number of them is 2^32 bytes.  A   *)
(* video frame is Rate / Scale of them, 44100 * 0.037 in the code, and the *)
(* sound device asks for Asked at a time, 1632 if it takes what it is told *)
(* (mediacontroller.cpp:40, 100).                                          *)
(***************************************************************************)
EXTENDS Integers

CONSTANTS
    Addresses,      \* where the kernel may map a file
    Null,
    Music,          \* for each name what its file is: [kind, size, there]
    Lights,         \* for each name what its file is: [kind, frames, length, there]
    NoName,         \* the empty name
    Rate, Scale,    \* samples in a frame: Rate / Scale
    Asked,          \* samples that the sound device asks for
    Word            \* 2^32

ASSUME NullAssumption == Null \notin Addresses
ASSUME NameAssumption == NoName \notin DOMAIN Music \cup DOMAIN Lights
ASSUME SizeAssumption == {Rate, Scale, Asked, Word} \subseteq Nat \ {0}

\* "tiny" has no more than 12 bytes; what is in the header is the size.
MusicKinds == {"missing", "tiny", "not wav", "bad format", "no data", "ok"}
LightKinds == {"missing", "unsupported", "unknown", "ok"}
ASSUME MusicAssumption == \A name \in DOMAIN Music :
    Music[name] \in [kind : MusicKinds, size : 0 .. Word - 1, there : Nat]
ASSUME LightAssumption == \A name \in DOMAIN Lights :
    Lights[name] \in [kind : LightKinds, frames : Nat \ {0}, length : 1 .. Word - 1, there : Nat]

-----------------------------------------------------------------------------
(* MapFile: file is "wav" or "light". *)

Other(file) == IF file = "wav" THEN "light" ELSE "wav"

\* MapFile::unmap, which leaves ptr where it was, so that isLoaded stays true.
Unmap(m, file) == [m EXCEPT !.mapped = @ \ {m[file]}]
IsLoaded(m, file) == m[file] # Null

\* MapFile::map of a file that exists, for every address that the kernel may
\* choose: any that is not mapped, the one of the other file's stale pointer
\* too.  Null: mmap has failed.
MapAt(m, file) ==
    LET free == Unmap(m, file)
    IN {[free EXCEPT ![file] = Null, !.shared = @ \ {file}]}
       \cup {[free EXCEPT ![file] = a, !.mapped = @ \cup {a},
                          !.shared = IF a = m[Other(file)] THEN @ \cup {file} ELSE @ \ {file}] :
                a \in Addresses \ free.mapped}

-----------------------------------------------------------------------------
(* MWAVFile *)

\* Mutant: the size of the old data is kept.
WavClearKeepsSize(m) == [Unmap(m, "wav") EXCEPT !.format = FALSE, !.extent = 0]

\* clear: the position is not reset, here or in load.
WavClear(m) == [Unmap(m, "wav") EXCEPT !.format = FALSE, !.size = 0, !.extent = 0]

\* What load leaves behind, by what it finds in the file.  A file that is too
\* short for its header throws, and stays mapped.
WavLoad(m, name) ==
    LET clear == WavClear(m)
        kind  == Music[name].kind
    IN IF kind = "missing" THEN {clear}
       ELSE {IF ~IsLoaded(at, "wav") THEN at ELSE
             CASE kind = "tiny"       -> at
               [] kind = "not wav"    -> Unmap(at, "wav")
               [] kind = "bad format" -> [Unmap(at, "wav") EXCEPT !.format = TRUE]
               [] kind = "no data"    -> [at EXCEPT !.format = TRUE]
               [] kind = "ok"         -> [at EXCEPT !.format = TRUE, !.size = Music[name].size,
                                                    !.extent = Music[name].there]
             : at \in MapAt(clear, "wav")}

\* frameCount, rounded
Length(samples) == (2 * Scale * samples + Rate) \div (2 * Rate)
WavFrames(m) == Length(m.size)

\* Mutant: a frame beyond the end is not refused.
InAnyData(m, frame) == m.format

\* setFrame: where a frame begins, rounded, and nothing beyond the end of the
\* data.  2^32 bytes, which a song of 6.8 hours has, are not reached.
Place(frame) == (2 * Rate * frame + Scale) \div (2 * Scale)
InData(m, frame) == Place(frame) < m.size
SetFrame(m, frame) == IF InData(m, frame) THEN [m EXCEPT !.offset = Place(frame)] ELSE m

\* loadBuffer: what it copies.  What is left is computed without a sign.
Buffer(m) ==
    LET asked == IF m.format THEN Asked ELSE 0
    IN IF m.offset + asked >= m.size THEN (m.size - m.offset) % Word ELSE asked

\* Some of it is not in the mapping, or there is none.
BeyondWav(m, samples) == samples > 0 /\ (m.wav \notin m.mapped \/ m.offset + samples > m.extent)

-----------------------------------------------------------------------------
(* LightFile and LightHeader *)

\* Mutant: the header of the unmapped file is kept.
LightClearKeepsHeader(m) == [Unmap(m, "light") EXCEPT !.lightExtent = 0]

\* clear
LightClear(m) == [Unmap(m, "light") EXCEPT !.frames = 0, !.length = 0, !.lightExtent = 0]

\* loadFile: the old format is always "unsupported", and a signature nobody
\* knows is accepted with an empty header.
LightLoad(m, name) ==
    LET clear == IF IsLoaded(m, "light") THEN LightClear(m) ELSE m
        kind  == Lights[name].kind
    IN IF kind = "missing" THEN {clear}
       ELSE {IF ~IsLoaded(at, "light") THEN at ELSE
             CASE kind = "unsupported" -> Unmap(at, "light")
               [] kind = "unknown"     -> at
               [] kind = "ok"          -> [at EXCEPT !.frames = Lights[name].frames, !.length = Lights[name].length,
                                                     !.lightExtent = Lights[name].there]
             : at \in MapAt(clear, "light")}

\* The frame is not in the mapping, or there is none.
BeyondLight(m, frame) == m.light \notin m.mapped \/ frame >= m.lightExtent

\* copy: how much, a signed number, of what it was asked for.  A frame that ends
\* before the offset gives a negative number.
CopyLength(m, offset, length) ==
    LET asked == IF length = 0 THEN m.length ELSE length
    IN IF (offset + asked) % Word > m.length THEN m.length - offset ELSE asked

\* What LightController::sync asks for: no more than the rest of the frame,
\* where the rest is an unsigned number.
SyncLength(m, offset, length) ==
    LET rest == (m.length - offset) % Word
    IN IF length > rest THEN rest ELSE length
=============================================================================
