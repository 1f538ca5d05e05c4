-------------------------- MODULE ClientMediaProofs -------------------------
(***************************************************************************)
(* Theorems about ClientMedia for every client configuration, every set of *)
(* files and every size of a frame of sound.                               *)
(***************************************************************************)
EXTENDS ClientMedia, TLAPS

\* The controllers and their files, with the types that need no bound.
Players == [
    mapped : SUBSET Addresses, wav : Addresses \cup {Null}, light : Addresses \cup {Null},
    shared : SUBSET {"wav", "light"},
    format : BOOLEAN, size : 0 .. Word - 1, offset : Nat, extent : Nat,
    frames : Nat, length : Nat, lightExtent : Nat,
    stream : {"closed", "open", "running"}, current : Nat, sync : Nat,
    inShow : BOOLEAN, isPlaying : BOOLEAN, showAudio : BOOLEAN, useAudio : BOOLEAN,
    showLight : BOOLEAN, useLight : BOOLEAN, endFrame : Nat]

\* What has a size is mapped, at an address that the other file's pointer does
\* not hold, unless the kernel put it where that pointer pointed.
FilesKept(m) ==
    /\ m \in Players
    /\ m.size > 0 => m.format /\ ((m.wav \in m.mapped /\ m.wav # m.light) \/ "wav" \in m.shared)
    /\ m.frames > 0 => (m.light \in m.mapped /\ m.wav # m.light) \/ "light" \in m.shared
    /\ "light" \in m.shared => m.light # Null

\* The files are where they were, with what was loaded from them.
SameFiles(m, n) ==
    /\ n.wav = m.wav /\ n.light = m.light /\ n.mapped = m.mapped /\ n.shared = m.shared
    /\ n.size = m.size /\ n.frames = m.frames /\ n.format = m.format

\* What requestData reads and writes is the same.
SameSound(m, n) ==
    n.size = m.size /\ n.offset = m.offset /\ n.current = m.current /\ n.stream = m.stream

-----------------------------------------------------------------------------
(* MediaFile *)

\* clear of the wav file leaves the light file mapped.
LEMMA WavCleared ==
    ASSUME NEW m, FilesKept(m)
    PROVE  FilesKept(WavClear(m)) /\ WavClear(m).size = 0 /\ WavClear(m).stream = m.stream
<1> DEFINE c == WavClear(m)
<1>1. m \in Players /\ 0 \in 0 .. Word - 1
    BY SizeAssumption DEF FilesKept
<1>2. c \in Players /\ c.size = 0 /\ c.mapped = m.mapped \ {m.wav}
    BY <1>1 DEF Players, WavClear, Unmap
<1>3. /\ c.wav = m.wav /\ c.light = m.light /\ c.shared = m.shared
      /\ c.frames = m.frames /\ c.stream = m.stream
    BY <1>1 DEF Players, WavClear, Unmap
<1>4. ~(0 > 0)
    OBVIOUS
<1> HIDE DEF c
<1>5. FilesKept(c)
    BY <1>2, <1>3, <1>4 DEF FilesKept
<1> QED BY <1>2, <1>3, <1>5 DEF c

\* clear of the light file leaves the wav file mapped, and the sound alone.
LEMMA LightCleared ==
    ASSUME NEW m, FilesKept(m)
    PROVE  FilesKept(LightClear(m)) /\ LightClear(m).frames = 0 /\ SameSound(m, LightClear(m))
<1> DEFINE c == LightClear(m)
<1>1. m \in Players
    BY DEF FilesKept
<1>2. c \in Players /\ c.frames = 0 /\ c.mapped = m.mapped \ {m.light} /\ c.format = m.format
    BY <1>1 DEF Players, LightClear, Unmap
<1>3. c.wav = m.wav /\ c.light = m.light /\ c.shared = m.shared /\ SameSound(m, c)
    BY <1>1 DEF Players, LightClear, Unmap, SameSound
<1>4. ~(0 > 0) /\ c.size = m.size
    BY <1>3 DEF SameSound
<1> HIDE DEF c
<1>5. FilesKept(c)
    BY <1>2, <1>3, <1>4 DEF FilesKept
<1> QED BY <1>2, <1>3, <1>5 DEF c

\* A cleared wav file is mapped where nothing is, or nowhere.
LEMMA WavMapped ==
    ASSUME NEW m, FilesKept(m), m.size = 0, NEW at \in MapAt(m, "wav")
    PROVE  /\ FilesKept(at) /\ at.size = 0 /\ at.stream = m.stream
           /\ IsLoaded(at, "wav") =>
                (at.wav \in at.mapped /\ at.wav # at.light) \/ "wav" \in at.shared
<1>1. m \in Players /\ ~(0 > 0)
    BY DEF FilesKept
<1> DEFINE rest == m.mapped \ {m.wav}
<1>2. CASE at = [Unmap(m, "wav") EXCEPT !["wav"] = Null, !.shared = @ \ {"wav"}]
    <2>1. /\ at \in Players /\ at.wav = Null /\ at.light = m.light /\ at.mapped = rest
          /\ at.shared = m.shared \ {"wav"}
        BY <1>1, <1>2 DEF Players, Unmap
    <2>2. at.size = 0 /\ at.frames = m.frames /\ at.stream = m.stream
        BY <1>1, <1>2 DEF Players, Unmap
    <2>3. rest \subseteq Addresses /\ "light" # "wav"
        BY <1>1 DEF Players
    <2>4. FilesKept(at)
        BY <1>1, <2>1, <2>2, <2>3, NullAssumption DEF FilesKept
    <2> QED BY <2>1, <2>2, <2>4 DEF IsLoaded
<1>3. ASSUME NEW a \in Addresses \ rest,
             at = [Unmap(m, "wav") EXCEPT !["wav"] = a, !.mapped = @ \cup {a},
                      !.shared = IF a = m.light THEN @ \cup {"wav"} ELSE @ \ {"wav"}]
      PROVE  /\ FilesKept(at) /\ at.size = 0 /\ at.stream = m.stream
             /\ (at.wav \in at.mapped /\ at.wav # at.light) \/ "wav" \in at.shared
    <2> DEFINE sh == IF a = m.light THEN m.shared \cup {"wav"} ELSE m.shared \ {"wav"}
    <2>1. sh \subseteq {"wav", "light"} /\ ("light" \in m.shared <=> "light" \in sh) /\ (a = m.light => "wav" \in sh)
        BY <1>1 DEF Players
    <2>2. at = [Unmap(m, "wav") EXCEPT !["wav"] = a, !.mapped = @ \cup {a}, !.shared = sh]
        BY <1>1, <1>3 DEF Players, Unmap
    <2> HIDE DEF sh
    <2>3. at \in Players /\ at.wav = a /\ at.light = m.light /\ at.mapped = rest \cup {a} /\ at.shared = sh
        BY <1>1, <2>1, <2>2 DEF Players, Unmap
    <2>4. at.size = 0 /\ at.frames = m.frames /\ at.stream = m.stream
        BY <1>1, <2>2 DEF Players, Unmap
    <2>5. FilesKept(at)
        BY <1>1, <2>1, <2>3, <2>4, NullAssumption DEF FilesKept
    <2> QED BY <2>1, <2>3, <2>4, <2>5
<1>4. Unmap(m, "wav").mapped = rest /\ Other("wav") = "light"
    BY <1>1 DEF Unmap, Players, Other
<1>5. \/ at = [Unmap(m, "wav") EXCEPT !["wav"] = Null, !.shared = @ \ {"wav"}]
      \/ \E a \in Addresses \ rest :
            at = [Unmap(m, "wav") EXCEPT !["wav"] = a, !.mapped = @ \cup {a},
                     !.shared = IF a = m.light THEN @ \cup {"wav"} ELSE @ \ {"wav"}]
    BY <1>4, Zenon DEF MapAt
<1> QED BY <1>2, <1>3, <1>5

\* So is a cleared light file.
LEMMA LightMapped ==
    ASSUME NEW m, FilesKept(m), m.frames = 0, NEW at \in MapAt(m, "light")
    PROVE  /\ FilesKept(at) /\ at.frames = 0 /\ SameSound(m, at)
           /\ IsLoaded(at, "light") =>
                (at.light \in at.mapped /\ at.wav # at.light) \/ "light" \in at.shared
<1>1. m \in Players /\ ~(0 > 0)
    BY DEF FilesKept
<1> DEFINE rest == m.mapped \ {m.light}
<1>2. CASE at = [Unmap(m, "light") EXCEPT !["light"] = Null, !.shared = @ \ {"light"}]
    <2>1. /\ at \in Players /\ at.light = Null /\ at.wav = m.wav /\ at.mapped = rest
          /\ at.shared = m.shared \ {"light"}
        BY <1>1, <1>2 DEF Players, Unmap
    <2>2. at.frames = 0 /\ at.size = m.size /\ at.format = m.format /\ SameSound(m, at)
        BY <1>1, <1>2 DEF Players, Unmap, SameSound
    <2>3. rest \subseteq Addresses /\ "light" # "wav"
        BY <1>1 DEF Players
    <2>4. FilesKept(at)
        BY <1>1, <2>1, <2>2, <2>3, NullAssumption DEF FilesKept
    <2> QED BY <2>1, <2>2, <2>4 DEF IsLoaded
<1>3. ASSUME NEW a \in Addresses \ rest,
             at = [Unmap(m, "light") EXCEPT !["light"] = a, !.mapped = @ \cup {a},
                      !.shared = IF a = m.wav THEN @ \cup {"light"} ELSE @ \ {"light"}]
      PROVE  /\ FilesKept(at) /\ at.frames = 0 /\ SameSound(m, at)
             /\ (at.light \in at.mapped /\ at.wav # at.light) \/ "light" \in at.shared
    <2> DEFINE sh == IF a = m.wav THEN m.shared \cup {"light"} ELSE m.shared \ {"light"}
    <2>1. sh \subseteq {"wav", "light"} /\ ("wav" \in m.shared => "wav" \in sh) /\ (a = m.wav => "light" \in sh)
        BY <1>1 DEF Players
    <2>2. at = [Unmap(m, "light") EXCEPT !["light"] = a, !.mapped = @ \cup {a}, !.shared = sh]
        BY <1>1, <1>3 DEF Players, Unmap
    <2> HIDE DEF sh
    <2>3. at \in Players /\ at.light = a /\ at.wav = m.wav /\ at.mapped = rest \cup {a} /\ at.shared = sh
        BY <1>1, <2>1, <2>2 DEF Players, Unmap
    <2>4. at.frames = 0 /\ at.size = m.size /\ at.format = m.format /\ SameSound(m, at)
        BY <1>1, <2>2 DEF Players, Unmap, SameSound
    <2>5. FilesKept(at)
        BY <1>1, <2>1, <2>3, <2>4, NullAssumption DEF FilesKept
    <2> QED BY <2>1, <2>3, <2>4, <2>5
<1>4. Unmap(m, "light").mapped = rest /\ Other("light") = "wav"
    BY <1>1 DEF Unmap, Players, Other
<1>5. \/ at = [Unmap(m, "light") EXCEPT !["light"] = Null, !.shared = @ \ {"light"}]
      \/ \E a \in Addresses \ rest :
            at = [Unmap(m, "light") EXCEPT !["light"] = a, !.mapped = @ \cup {a},
                     !.shared = IF a = m.wav THEN @ \cup {"light"} ELSE @ \ {"light"}]
    BY <1>4, Zenon DEF MapAt
<1> QED BY <1>2, <1>3, <1>5

\* Unmapping what has no size keeps what has.
LEMMA WavUnmapped ==
    ASSUME NEW m, FilesKept(m), m.size = 0
    PROVE  FilesKept(Unmap(m, "wav")) /\ Unmap(m, "wav").stream = m.stream /\ Unmap(m, "wav").size = 0
BY DEF FilesKept, Players, Unmap

\* So it is with a light file that has no frame.
LEMMA LightUnmapped ==
    ASSUME NEW m, FilesKept(m), m.frames = 0
    PROVE  FilesKept(Unmap(m, "light")) /\ SameSound(m, Unmap(m, "light"))
BY DEF FilesKept, Players, Unmap, SameSound

\* A format that is loaded takes nothing away.
LEMMA FormatLoaded ==
    ASSUME NEW m, FilesKept(m)
    PROVE  FilesKept([m EXCEPT !.format = TRUE]) /\ [m EXCEPT !.format = TRUE].stream = m.stream
<1> DEFINE c == [m EXCEPT !.format = TRUE]
<1>1. m \in Players
    BY DEF FilesKept
<1>2. c \in Players /\ c.stream = m.stream /\ c.format = TRUE
    BY <1>1 DEF Players
<1>3. /\ c.wav = m.wav /\ c.light = m.light /\ c.mapped = m.mapped /\ c.shared = m.shared
      /\ c.size = m.size /\ c.frames = m.frames
    BY <1>1 DEF Players
<1> HIDE DEF c
<1>4. FilesKept(c)
    BY <1>2, <1>3 DEF FilesKept
<1> QED BY <1>2, <1>4 DEF c

\* MWAVFile::load, whatever it finds in the file.
LEMMA WavLoaded ==
    ASSUME NEW m, FilesKept(m), NEW name \in DOMAIN Music, NEW next \in WavLoad(m, name)
    PROVE  FilesKept(next) /\ next.stream = m.stream
<1> DEFINE clear == WavClear(m)
           kind  == Music[name].kind
<1>1. FilesKept(clear) /\ clear.size = 0 /\ clear.stream = m.stream
    BY WavCleared
<1>2. kind \in MusicKinds /\ Music[name].size \in 0 .. Word - 1 /\ Music[name].there \in Nat
    BY MusicAssumption
<1>3. CASE kind = "missing"
    BY <1>1, <1>3 DEF WavLoad
<1>4. CASE kind # "missing"
    <2>1. PICK at \in MapAt(clear, "wav") :
              \/ next = at
              \/ next = Unmap(at, "wav")
              \/ next = [Unmap(at, "wav") EXCEPT !.format = TRUE]
              \/ next = [at EXCEPT !.format = TRUE]
              \/ /\ IsLoaded(at, "wav")
                 /\ next = [at EXCEPT !.format = TRUE, !.size = Music[name].size, !.extent = Music[name].there]
        BY <1>2, <1>4 DEF WavLoad, MusicKinds
    <2>2. /\ FilesKept(at) /\ at.size = 0 /\ at.stream = m.stream
          /\ IsLoaded(at, "wav") => (at.wav \in at.mapped /\ at.wav # at.light) \/ "wav" \in at.shared
        BY <1>1, WavMapped
    <2>3. FilesKept(Unmap(at, "wav")) /\ Unmap(at, "wav").stream = m.stream
        BY <2>2, WavUnmapped
    <2>4. FilesKept([Unmap(at, "wav") EXCEPT !.format = TRUE])
          /\ [Unmap(at, "wav") EXCEPT !.format = TRUE].stream = m.stream
        BY <2>3, FormatLoaded
    <2> DEFINE full == [at EXCEPT !.format = TRUE, !.size = Music[name].size, !.extent = Music[name].there]
    <2>5. IsLoaded(at, "wav") => FilesKept(full) /\ full.stream = m.stream
        <3>1. at \in Players
            BY <2>2 DEF FilesKept
        <3>2. full \in Players /\ full.format = TRUE /\ full.stream = at.stream
            BY <1>2, <3>1 DEF Players
        <3>3. /\ full.wav = at.wav /\ full.light = at.light /\ full.mapped = at.mapped
              /\ full.shared = at.shared /\ full.frames = at.frames
            BY <3>1 DEF Players
        <3> HIDE DEF full
        <3> QED BY <2>2, <3>2, <3>3 DEF FilesKept
    <2>6. FilesKept([at EXCEPT !.format = TRUE]) /\ [at EXCEPT !.format = TRUE].stream = m.stream
        BY <2>2, FormatLoaded
    <2> QED BY <2>1, <2>2, <2>3, <2>4, <2>5, <2>6
<1> QED BY <1>3, <1>4

\* LightFile::loadFile, whatever it finds in the file.
LEMMA LightLoaded ==
    ASSUME NEW m, FilesKept(m), NEW name \in DOMAIN Lights, NEW next \in LightLoad(m, name)
    PROVE  FilesKept(next) /\ SameSound(m, next)
<1> DEFINE clear == IF IsLoaded(m, "light") THEN LightClear(m) ELSE m
           kind  == Lights[name].kind
<1>1. FilesKept(clear) /\ clear.frames = 0 /\ SameSound(m, clear)
    <2>1. ~IsLoaded(m, "light") => m.frames = 0
        BY NullAssumption DEF IsLoaded, FilesKept, Players
    <2> QED BY <2>1, LightCleared DEF SameSound
<1>2. kind \in LightKinds /\ Lights[name].frames \in Nat /\ Lights[name].length \in Nat /\ Lights[name].there \in Nat
    BY LightAssumption
<1>3. CASE kind = "missing"
    BY <1>1, <1>3 DEF LightLoad
<1>4. CASE kind # "missing"
    <2>1. PICK at \in MapAt(clear, "light") :
              \/ next = at
              \/ next = Unmap(at, "light")
              \/ /\ IsLoaded(at, "light")
                 /\ next = [at EXCEPT !.frames = Lights[name].frames, !.length = Lights[name].length,
                                      !.lightExtent = Lights[name].there]
        BY <1>2, <1>4 DEF LightLoad, LightKinds
    <2>2. /\ FilesKept(at) /\ at.frames = 0 /\ SameSound(m, at)
          /\ IsLoaded(at, "light") => (at.light \in at.mapped /\ at.wav # at.light) \/ "light" \in at.shared
        BY <1>1, LightMapped DEF SameSound
    <2>3. FilesKept(Unmap(at, "light")) /\ SameSound(m, Unmap(at, "light"))
        BY <2>2, LightUnmapped DEF SameSound
    <2> DEFINE full == [at EXCEPT !.frames = Lights[name].frames, !.length = Lights[name].length,
                                  !.lightExtent = Lights[name].there]
    <2>4. IsLoaded(at, "light") => FilesKept(full) /\ SameSound(m, full)
        <3>1. at \in Players
            BY <2>2 DEF FilesKept
        <3>2. full \in Players /\ SameSound(at, full) /\ full.format = at.format
            BY <1>2, <3>1 DEF Players, SameSound
        <3>3. /\ full.wav = at.wav /\ full.light = at.light /\ full.mapped = at.mapped
              /\ full.shared = at.shared /\ full.size = at.size
            BY <3>1 DEF Players
        <3> HIDE DEF full
        <3> QED BY <2>2, <3>2, <3>3 DEF FilesKept, SameSound
    <2> QED BY <2>1, <2>2, <2>3, <2>4
<1> QED BY <1>3, <1>4

-----------------------------------------------------------------------------
(* MediaController *)

\* Stopping the stream touches no file.
LEMMA HaltedKept ==
    ASSUME NEW m, FilesKept(m), NEW to \in {"open", "closed"}
    PROVE  FilesKept(Halted(m, to)) /\ Halted(m, to).stream # "running"
<1> DEFINE c == Halted(m, to)
<1>1. m \in Players
    BY DEF FilesKept
<1>2. c \in Players /\ c.stream # "running"
    BY <1>1 DEF Players, Halted
<1>3. SameFiles(m, c)
    BY <1>1 DEF Players, Halted, SameFiles
<1> HIDE DEF c
<1>4. FilesKept(c)
    BY <1>1, <1>2, <1>3 DEF FilesKept, SameFiles
<1> QED BY <1>2, <1>4 DEF c

\* Fields that no file depends on may take any value of their type.
LEMMA FieldsKept ==
    ASSUME NEW m, FilesKept(m), NEW n \in Players, SameFiles(m, n)
    PROVE  FilesKept(n)
BY DEF FilesKept, SameFiles

\* load leaves the stream halted, and the files in order.
LEMMA MediaLoaded ==
    ASSUME NEW m, FilesKept(m), NEW name \in DOMAIN Music \cup {NoName},
           NEW next \in MediaLoad(m, name)
    PROVE  FilesKept(next) /\ next.stream # "running"
<1> DEFINE h == Halted(m, "open")
           w == IF IsLoaded(m, "wav") THEN WavClear(h) ELSE h
           c == [w EXCEPT !.sync = 0, !.current = 0]
<1>1. FilesKept(h) /\ h.stream # "running"
    BY HaltedKept
<1>2. FilesKept(w) /\ w.stream # "running"
    BY <1>1, WavCleared
<1> HIDE DEF w
<1>3. c \in Players /\ c.stream = w.stream
    BY <1>2 DEF FilesKept, Players
<1>4. SameFiles(w, c)
    BY <1>2 DEF FilesKept, Players, SameFiles
<1>5. FilesKept(c) /\ c.stream # "running"
    BY <1>2, <1>3, <1>4, FieldsKept
<1>6. next \in IF name = NoName THEN {c} ELSE WavLoad(c, name)
    BY DEF MediaLoad, w
<1> HIDE DEF c
<1> QED BY <1>5, <1>6, WavLoaded

\* play starts the stream without touching a file.
LEMMA MediaPlayed ==
    ASSUME NEW m, FilesKept(m), NEW frame \in Nat
    PROVE  FilesKept(MediaPlay(m, frame))
<1> DEFINE c == [m EXCEPT !.current = frame, !.sync = frame, !.stream = "running"]
<1>1. c \in Players
    BY DEF FilesKept, Players
<1>2. SameFiles(m, c)
    BY DEF FilesKept, Players, SameFiles
<1> HIDE DEF c
<1>3. FilesKept(c)
    BY <1>1, <1>2, FieldsKept
<1> QED BY <1>3 DEF MediaPlay, c

\* play(false) leaves the stream halted.
LEMMA MediaStopped ==
    ASSUME NEW m, FilesKept(m)
    PROVE  FilesKept(MediaStop(m)) /\ MediaStop(m).stream # "running"
<1> DEFINE c == [m EXCEPT !.stream = "open"]
<1>1. c \in Players /\ c.stream = "open"
    BY DEF FilesKept, Players
<1>2. SameFiles(m, c)
    BY DEF FilesKept, Players, SameFiles
<1> HIDE DEF c
<1>3. FilesKept(c)
    BY <1>1, <1>2, FieldsKept
<1>4. FilesKept(WavClear(c)) /\ WavClear(c).stream = "open"
    BY <1>1, <1>3, WavCleared
<1> QED BY <1>4 DEF MediaStop, c

\* setShow(false) leaves the stream closed.
LEMMA MediaShownOff ==
    ASSUME NEW m, FilesKept(m)
    PROVE  FilesKept(MediaShowOff(m)) /\ MediaShowOff(m).stream # "running"
<1> DEFINE c == [m EXCEPT !.stream = "closed"]
<1>1. c \in Players /\ c.stream = "closed"
    BY DEF FilesKept, Players
<1>2. SameFiles(m, c)
    BY DEF FilesKept, Players, SameFiles
<1> HIDE DEF c
<1>3. FilesKept(c)
    BY <1>1, <1>2, FieldsKept
<1>4. FilesKept(WavClear(c)) /\ WavClear(c).stream = "closed"
    BY <1>1, <1>3, WavCleared
<1> QED BY <1>1, <1>3, <1>4 DEF MediaShowOff, c

\* What clockStop does to the lights and to the next song leaves the sound.
LEMMA RestStopped ==
    ASSUME NEW m, FilesKept(m)
    PROVE  FilesKept(StopRest(m)) /\ SameSound(m, StopRest(m))
<1> DEFINE l == IF m.useLight THEN LightClear(m) ELSE m
           c == [l EXCEPT !.useAudio = m.showAudio, !.useLight = m.showLight,
                          !.isPlaying = FALSE, !.endFrame = 0]
<1>1. FilesKept(l) /\ SameSound(m, l)
    BY LightCleared DEF SameSound
<1>2. m.showAudio \in BOOLEAN /\ m.showLight \in BOOLEAN
    BY DEF FilesKept, Players
<1> HIDE DEF l
<1>3. c \in Players
    BY <1>1, <1>2 DEF FilesKept, Players
<1>4. SameFiles(l, c)
    BY <1>1 DEF FilesKept, Players, SameFiles
<1>5. c.offset = l.offset /\ c.current = l.current /\ c.stream = l.stream
    BY <1>1 DEF FilesKept, Players
<1>6. StopRest(m) = c
    BY DEF StopRest, l
<1> HIDE DEF c
<1>7. FilesKept(c) /\ SameSound(m, c)
    BY <1>1, <1>3, <1>4, <1>5, FieldsKept DEF SameSound, SameFiles
<1> QED BY <1>6, <1>7

\* From a position within the data, loadBuffer copies no more than a buffer and
\* no more than there is: the unsigned difference does not wrap.
LEMMA BufferFits ==
    ASSUME NEW m \in Players, m.offset <= m.size
    PROVE  Buffer(m) \in 0 .. Asked /\ m.offset + Buffer(m) <= m.size
<1>1. /\ m.offset \in Nat /\ m.size \in 0 .. Word - 1 /\ m.format \in BOOLEAN
      /\ Asked \in Nat /\ Word \in Nat \ {0}
    BY SizeAssumption DEF Players
<1>2. (m.size - m.offset) % Word = m.size - m.offset
    BY <1>1
<1> DEFINE asked == IF m.format THEN Asked ELSE 0
<1>3. asked \in 0 .. Asked
    BY <1>1
<1>4. Buffer(m) = IF m.offset + asked >= m.size THEN m.size - m.offset ELSE asked
    BY <1>2 DEF Buffer
<1> HIDE DEF asked
<1> QED BY <1>1, <1>3, <1>4

\* A buffer of any position has a length.
LEMMA BufferType ==
    ASSUME NEW m \in Players
    PROVE  Buffer(m) \in Nat
<1>1. /\ m.offset \in Nat /\ m.size \in 0 .. Word - 1 /\ m.format \in BOOLEAN
      /\ Asked \in Nat /\ Word \in Nat \ {0}
    BY SizeAssumption DEF Players
<1>2. (m.size - m.offset) % Word \in Nat
    BY <1>1
<1> QED BY <1>1, <1>2 DEF Buffer

\* A frame has a place, which is off it by no more than half a sample.
LEMMA PlaceRounds ==
    ASSUME NEW frame \in Nat
    PROVE  /\ Place(frame) \in Nat
           /\ 2 * (Scale * Place(frame)) - 2 * (Rate * frame) \in -Scale .. Scale
<1> DEFINE n == 2 * Rate * frame + Scale
           d == 2 * Scale
           q == n \div d
<1>1. Rate \in Nat /\ Scale \in Nat \ {0} /\ Rate * frame \in Nat
    BY SizeAssumption
<1>2. n \in Nat /\ n = 2 * (Rate * frame) + Scale /\ d \in Nat \ {0}
    BY <1>1
<1> HIDE DEF n
<1>3. q \in Nat /\ d * q <= n /\ n < d * q + d
    BY <1>2
<1>4. Place(frame) = q
    BY DEF Place, n
<1> HIDE DEF q
<1>5. Scale * q \in Nat /\ d * q = 2 * (Scale * q)
    BY <1>1, <1>3
<1> QED BY <1>1, <1>2, <1>3, <1>4, <1>5

\* Setting the position keeps the files, and puts the position where the frame
\* that is counted begins, when it is in the data.
LEMMA SoughtKept ==
    ASSUME NEW m, FilesKept(m)
    PROVE  /\ FilesKept(Sought(m)) /\ Sought(m).stream = m.stream /\ Sought(m).size = m.size
           /\ ~MustSeek(m) => Sought(m) = m
           /\ MustSeek(m) /\ InData(m, m.sync) =>
                /\ Sought(m).current = m.sync
                /\ Sought(m).offset = Place(m.sync)
                /\ Sought(m).offset <= Sought(m).size
<1>1. m.sync \in Nat /\ m.size \in 0 .. Word - 1 /\ Word \in Nat
    BY SizeAssumption DEF FilesKept, Players
<1>2. Place(m.sync) \in Nat
    BY <1>1, PlaceRounds
<1> DEFINE s == SetFrame(m, m.sync)
           c == [s EXCEPT !.current = m.sync]
<1>3. s \in Players /\ (InData(m, m.sync) => s.offset = Place(m.sync))
    BY <1>2 DEF FilesKept, Players, SetFrame
<1>4. SameFiles(m, s) /\ s.stream = m.stream
    BY DEF FilesKept, Players, SetFrame, SameFiles
<1> HIDE DEF s
<1>5. c \in Players /\ c.current = m.sync
    BY <1>1, <1>3 DEF Players
<1>6. SameFiles(s, c) /\ c.stream = s.stream /\ c.offset = s.offset
    BY <1>3 DEF Players, SameFiles
<1>7. Sought(m) = IF MustSeek(m) THEN c ELSE m
    BY DEF Sought, s
<1> HIDE DEF c
<1>8. FilesKept(c) /\ c.size = m.size
    BY <1>4, <1>5, <1>6, FieldsKept DEF FilesKept, SameFiles
<1>9. InData(m, m.sync) => Place(m.sync) <= m.size
    BY <1>1, <1>2 DEF InData
<1> QED BY <1>3, <1>4, <1>5, <1>6, <1>7, <1>8, <1>9

-----------------------------------------------------------------------------
(* The steps *)

\* What the handlers carry between their steps.
Jobs == {[at |-> "idle"], [at |-> "stop"]} \cup [at : {"load"}, light : DOMAIN Lights \cup {NoName}]
            \cup [at : {"play", "lights", "playing"}, frame : Starts]

\* What every step keeps: the files are in order, and the types.
Kept ==
    /\ FilesKept(me)
    /\ clock \in [phase : {"stopped", "running", "ended"}, frame : Nat, stop : Nat]
    /\ job \in Jobs

\* The position of a song that was sought is the one of the frame it was set to,
\* and all the buffers since, within the data.
Synced ==
    sought # NotSought /\ me.stream = "running" =>
        /\ sought \in Nat /\ me.current - sought \in Nat
        /\ me.offset = Place(sought) + (me.current - sought) * Asked
        /\ me.offset <= me.size

\* What the steps of the handlers leave for the next one.
LEMMA JobTypes ==
    /\ [at |-> "idle"] \in Jobs /\ [at |-> "stop"] \in Jobs
    /\ \A light \in DOMAIN Lights \cup {NoName} : [at |-> "load", light |-> light] \in Jobs
    /\ \A frame \in Starts : [at |-> "play", frame |-> frame] \in Jobs
BY DEF Jobs

\* A step that neither moves the position of a song nor ends in an overrun.
Muted ==
    /\ \/ sought' = NotSought
       \/ sought' = sought /\ (SameSound(me, me') \/ me'.stream # "running")
    /\ fault' = "overrun" => fault = "overrun"

\* Such a step keeps what is said of the position.
LEMMA MutedStep == Synced /\ SoughtFits /\ Muted => Synced' /\ SoughtFits'
BY DEF Synced, SoughtFits, Muted, SameSound

\* The callback of the sound device.
LEMMA CallbackStep == Kept /\ Synced /\ SoughtFits /\ Callback => Kept' /\ Synced' /\ SoughtFits'
<1> SUFFICES ASSUME Kept, Synced, SoughtFits, Callback PROVE Kept' /\ Synced' /\ SoughtFits'
    OBVIOUS
<1> DEFINE m == Sought(me)
           copied == Buffer(m)
           next == [m EXCEPT !.offset = @ + copied, !.current = @ + 1, !.stream = StreamAfter(m, copied)]
<1>1. /\ me.stream = "running" /\ fault = "none"
      /\ sought' = IF ~MustSeek(me) THEN sought ELSE IF InData(me, me.sync) THEN me.sync ELSE NotSought
      /\ \/ copied > Asked /\ fault' = "overrun" /\ me' = m
         \/ copied <= Asked /\ fault' # "overrun" /\ me' = m
         \/ copied <= Asked /\ fault' = fault /\ me' = next
      /\ clock' = clock /\ job' = job
    BY DEF Callback
<1>2. /\ FilesKept(m) /\ m.stream = me.stream /\ m.size = me.size
      /\ ~MustSeek(me) => m = me
      /\ MustSeek(me) /\ InData(me, me.sync) =>
            m.current = me.sync /\ m.offset = Place(me.sync) /\ m.offset <= m.size
    BY SoughtKept DEF Kept
<1>3. m \in Players /\ me.sync \in Nat
    BY <1>2 DEF FilesKept, Kept, Players
<1>4. m.offset \in Nat /\ m.current \in Nat /\ Asked \in Nat /\ m.size \in 0 .. Word - 1 /\ Word \in Nat
    BY <1>3, SizeAssumption DEF Players
<1> HIDE DEF m
<1>5. copied \in Nat /\ (m.offset <= m.size => copied \in 0 .. Asked /\ m.offset + copied <= m.size)
    BY <1>3, BufferFits, BufferType
<1> HIDE DEF copied
<1> DEFINE since == m.current - sought'
<1>6. sought' # NotSought =>
        sought' \in Nat /\ since \in Nat /\ m.offset = Place(sought') + since * Asked /\ m.offset <= m.size
    <2>1. CASE ~MustSeek(me)
        BY <1>1, <1>2, <2>1 DEF Synced
    <2>2. CASE MustSeek(me) /\ InData(me, me.sync)
        <3>1. sought' = me.sync /\ since = 0 /\ 0 * Asked = 0 /\ Place(me.sync) \in Nat
            BY <1>1, <1>2, <1>3, <1>4, <2>2, PlaceRounds
        <3> QED BY <1>2, <1>3, <2>2, <3>1
    <2>3. CASE MustSeek(me) /\ ~InData(me, me.sync)
        BY <1>1, <2>3
    <2> QED BY <2>1, <2>2, <2>3
<1>7. StreamAfter(m, copied) = IF copied < Asked THEN "open" ELSE m.stream
    BY DEF StreamAfter
<1>8. m.offset + copied \in Nat /\ m.current + 1 \in Nat
    BY <1>4, <1>5
<1>9. /\ next \in Players /\ next.offset = m.offset + copied /\ next.current = m.current + 1
      /\ next.stream = StreamAfter(m, copied)
    BY <1>3, <1>7, <1>8 DEF Players
<1>10. SameFiles(m, next)
    BY <1>3 DEF Players, SameFiles
<1> HIDE DEF next
<1>11. FilesKept(next)
    BY <1>2, <1>9, <1>10, FieldsKept
<1>12. Kept'
    BY <1>1, <1>2, <1>11 DEF Kept
<1>13. CASE me' = m
    <2>1. Synced'
        BY <1>6, <1>13 DEF Synced
    <2>2. copied > Asked => sought' = NotSought
        BY <1>4, <1>5, <1>6
    <2>3. fault' = "overrun" => copied > Asked
        BY <1>1
    <2> QED BY <1>12, <2>1, <2>2, <2>3 DEF SoughtFits
<1>14. CASE me' = next /\ fault' = fault
    <2>1. ASSUME sought' # NotSought, next.stream = "running"
          PROVE  /\ sought' \in Nat /\ next.current - sought' \in Nat
                 /\ next.offset = Place(sought') + (next.current - sought') * Asked
                 /\ next.offset <= next.size
        <3>1. copied = Asked
            BY <1>4, <1>5, <1>6, <1>7, <1>9, <2>1
        <3>2. sought' \in Nat /\ since \in Nat /\ next.current - sought' = since + 1
            BY <1>4, <1>6, <1>9, <2>1
        <3>3. Place(sought') \in Nat /\ since * Asked \in Nat
            BY <1>4, <3>2, PlaceRounds
        <3> HIDE DEF since
        <3>4. (since + 1) * Asked = since * Asked + Asked
            BY <1>4, <3>2
        <3>5. next.offset = Place(sought') + (since + 1) * Asked
            BY <1>4, <1>6, <1>9, <2>1, <3>1, <3>3, <3>4
        <3>6. next.size = m.size
            BY <1>10 DEF SameFiles
        <3> QED BY <1>5, <1>6, <1>9, <2>1, <3>2, <3>5, <3>6
    <2>2. fault' # "overrun"
        BY <1>1, <1>14
    <2> QED BY <1>12, <1>14, <2>1, <2>2 DEF Synced, SoughtFits
<1> QED BY <1>1, <1>13, <1>14

\* Handlers that change only ShowClient's own fields, or the stream.
LEMMA FieldStep ==
    ASSUME Kept, NEW m, FilesKept(m), me' \in Players, SameFiles(m, me'),
           UNCHANGED clock, UNCHANGED job \/ job' = [at |-> "idle"]
    PROVE  Kept'
<1>1. FilesKept(me')
    BY FieldsKept
<1> QED BY <1>1, JobTypes DEF Kept

\* The handlers of the network thread that end in one step.
LEMMA HandlerStep ==
    ASSUME Kept,
           \/ \E device \in Devices : ClientShowOn(device)
           \/ ClientShowOff \/ ClientPlayRefused \/ Reconnect \/ ClientPlaying
           \/ \E frame \in Starts : ClientPlayClock(frame)
    PROVE  Kept' /\ Muted
<1>1. FilesKept(me) /\ me \in Players /\ UseAudio \in BOOLEAN /\ UseLights \in BOOLEAN /\ Devices \subseteq BOOLEAN
    BY ConfigAssumption DEF Kept, FilesKept
<1>2. ASSUME NEW device \in Devices, ClientShowOn(device) PROVE Kept' /\ Muted
    <2> DEFINE ready == UseAudio /\ device
               to == IF ready THEN "open" ELSE me.stream
               c == [me EXCEPT !.inShow = TRUE, !.useAudio = UseAudio, !.useLight = UseLights,
                               !.showAudio = ready, !.showLight = UseLights, !.stream = to]
    <2>1. me' = c /\ clock' = clock /\ job' = job /\ fault' = fault /\ sought' = sought
        BY <1>2 DEF ClientShowOn, Rest
    <2>2. ready \in BOOLEAN /\ to \in {"closed", "open", "running"} /\ (to = me.stream \/ to = "open")
        BY <1>1 DEF Players
    <2> HIDE DEF ready, to
    <2>3. c \in Players
        BY <1>1, <2>2 DEF Players
    <2>4. SameFiles(me, c)
        BY <1>1 DEF Players, SameFiles
    <2>5. c.offset = me.offset /\ c.current = me.current /\ (c.stream = me.stream \/ c.stream = "open")
        BY <1>1, <2>2 DEF Players
    <2> HIDE DEF c
    <2>6. Kept'
        BY <1>1, <2>1, <2>3, <2>4, FieldStep
    <2> QED BY <2>1, <2>4, <2>5, <2>6 DEF Muted, SameSound, SameFiles
<1>3. CASE ClientShowOff
    <2> DEFINE m == IF me.showAudio THEN MediaShowOff(me) ELSE me
               c == [m EXCEPT !.inShow = FALSE, !.showAudio = UseAudio, !.useAudio = UseAudio,
                              !.showLight = UseLights, !.useLight = UseLights]
    <2>1. me' = c /\ clock' = clock /\ job' = job /\ fault' = fault /\ sought' = sought
        BY <1>3 DEF ClientShowOff, Rest
    <2>2. FilesKept(m) /\ m \in Players /\ (m = me \/ m.stream # "running")
        BY <1>1, MediaShownOff DEF FilesKept
    <2> HIDE DEF m
    <2>3. c \in Players
        BY <1>1, <2>2, ZenonT(40) DEF Players
    <2>4. SameFiles(m, c)
        BY <2>2 DEF Players, SameFiles
    <2>5. c.offset = m.offset /\ c.current = m.current /\ c.stream = m.stream
        BY <2>2 DEF Players
    <2> HIDE DEF c
    <2>6. Kept'
        BY <2>1, <2>2, <2>3, <2>4, FieldStep
    <2> QED BY <2>1, <2>2, <2>4, <2>5, <2>6 DEF Muted, SameSound, SameFiles
<1>4. CASE ClientPlayRefused
    BY <1>4 DEF ClientPlayRefused, vars, Kept, Muted, SameSound
<1>5. CASE Reconnect
    <2> DEFINE c == [me EXCEPT !.inShow = FALSE]
    <2>1. me' = c /\ clock' = clock /\ job' = job /\ fault' = fault /\ sought' = sought
        BY <1>5 DEF Reconnect, Rest
    <2>2. c \in Players
        BY <1>1 DEF Players
    <2>3. SameFiles(me, c)
        BY <1>1 DEF Players, SameFiles
    <2>4. c.offset = me.offset /\ c.current = me.current /\ c.stream = me.stream
        BY <1>1 DEF Players
    <2> HIDE DEF c
    <2>5. Kept'
        BY <1>1, <2>1, <2>2, <2>3, FieldStep
    <2> QED BY <2>1, <2>3, <2>4, <2>5 DEF Muted, SameSound, SameFiles
<1>6. ASSUME NEW frame \in Starts, ClientPlayClock(frame) PROVE Kept' /\ Muted
    <2>1. frame \in Nat /\ me.endFrame \in Nat
        BY <1>1, ConfigAssumption DEF Players
    <2>2. clock' \in [phase : {"stopped", "running", "ended"}, frame : Nat, stop : Nat]
        BY <1>6, <2>1 DEF ClientPlayClock, Kept
    <2> QED BY <1>6, <2>2, JobTypes DEF ClientPlayClock, Rest, Kept, Muted, SameSound
<1>7. CASE ClientPlaying
    <2> DEFINE c == [me EXCEPT !.isPlaying = TRUE]
    <2>1. me' = c /\ clock' = clock /\ job' = [at |-> "idle"] /\ fault' = fault /\ sought' = sought
        BY <1>7 DEF ClientPlaying, Rest
    <2>2. c \in Players
        BY <1>1 DEF Players
    <2>3. SameFiles(me, c)
        BY <1>1 DEF Players, SameFiles
    <2>4. c.offset = me.offset /\ c.current = me.current /\ c.stream = me.stream
        BY <1>1 DEF Players
    <2> HIDE DEF c
    <2>5. Kept'
        BY <1>1, <2>1, <2>2, <2>3, FieldStep
    <2> QED BY <2>1, <2>3, <2>4, <2>5 DEF Muted, SameSound, SameFiles
<1> QED BY <1>2, <1>3, <1>4, <1>5, <1>6, <1>7

\* clientLoad, in its two steps.
LEMMA LoadStep ==
    ASSUME Kept,
           (\E names \in Loads : ClientLoadMusic(names[1], names[2])) \/ ClientLoadLight
    PROVE  Kept' /\ Muted
<1>1. FilesKept(me) /\ me \in Players
    BY DEF Kept, FilesKept
<1>2. ASSUME NEW names \in Loads, ClientLoadMusic(names[1], names[2]) PROVE Kept' /\ Muted
    <2>1. names[1] \in DOMAIN Music \cup {NoName} /\ names[2] \in DOMAIN Lights \cup {NoName}
        BY ConfigAssumption
    <2>2. PICK m \in (IF me.showAudio THEN MediaLoad(me, names[1]) ELSE {me}) :
              me' = [m EXCEPT !.useAudio = IF me.showAudio THEN WavFrames(m) # 0 ELSE @,
                              !.endFrame = IF me.showAudio THEN WavFrames(m) ELSE 0]
        BY <1>2 DEF ClientLoadMusic
    <2>3. FilesKept(m) /\ m \in Players
        BY <1>1, <2>1, <2>2, MediaLoaded DEF FilesKept
    <2>4. WavFrames(m) \in Nat
        <3>1. m.size \in Nat /\ Scale \in Nat /\ Rate \in Nat \ {0} /\ Scale * m.size \in Nat
            BY <2>3, SizeAssumption DEF Players
        <3> QED BY <3>1 DEF WavFrames, Length
    <2> DEFINE used == IF me.showAudio THEN WavFrames(m) # 0 ELSE m.useAudio
               end == IF me.showAudio THEN WavFrames(m) ELSE 0
    <2>5. used \in BOOLEAN /\ end \in Nat /\ me' = [m EXCEPT !.useAudio = used, !.endFrame = end]
        BY <2>2, <2>3, <2>4 DEF Players
    <2> HIDE DEF used, end
    <2>6. me' \in Players
        BY <2>3, <2>5 DEF Players
    <2>7. SameFiles(m, me')
        BY <2>3, <2>5 DEF Players, SameFiles
    <2>8. FilesKept(me')
        BY <2>3, <2>6, <2>7, FieldsKept
    <2>9. clock' = clock /\ job' = [at |-> "load", light |-> names[2]] /\ fault' = fault /\ sought' = NotSought
        BY <1>2 DEF ClientLoadMusic, Rest
    <2> QED BY <2>1, <2>8, <2>9, JobTypes DEF Kept, Muted
<1>3. CASE ClientLoadLight
    <2>1. job.light \in DOMAIN Lights \cup {NoName}
        <3>1. job \in Jobs /\ job.at = "load"
            BY <1>3 DEF ClientLoadLight, Kept
        <3> QED BY <3>1 DEF Jobs
    <2>2. PICK m \in (IF me.showLight /\ job.light # NoName THEN LightLoad(me, job.light) ELSE {me}) :
              LET frames == IF job.light = NoName THEN 0 ELSE m.frames
              IN me' = IF ~me.showLight THEN me
                       ELSE [m EXCEPT !.useLight = frames # 0,
                                      !.endFrame = IF frames > @ THEN frames ELSE @]
        BY <1>3 DEF ClientLoadLight
    <2>3. FilesKept(m) /\ m \in Players /\ SameSound(me, m)
        BY <1>1, <2>1, <2>2, LightLoaded DEF FilesKept, SameSound
    <2> DEFINE frames == IF job.light = NoName THEN 0 ELSE m.frames
               c == [m EXCEPT !.useLight = frames # 0, !.endFrame = IF frames > @ THEN frames ELSE @]
    <2>4. frames \in Nat
        BY <2>3 DEF Players
    <2>5. me' = me \/ me' = c
        BY <2>2
    <2> HIDE DEF frames
    <2>6. (frames # 0) \in BOOLEAN /\ (frames > m.endFrame) \in BOOLEAN
        OBVIOUS
    <2>7. c \in Players
        BY <2>3, <2>4, <2>6 DEF Players
    <2>8. SameFiles(m, c)
        BY <2>3 DEF Players, SameFiles
    <2>9. c.offset = m.offset /\ c.current = m.current /\ c.stream = m.stream
        BY <2>3 DEF Players
    <2> HIDE DEF c
    <2>10. FilesKept(c)
        BY <2>3, <2>7, <2>8, FieldsKept
    <2>11. SameSound(me, me') /\ FilesKept(me')
        BY <1>1, <2>3, <2>5, <2>8, <2>9, <2>10 DEF SameSound, SameFiles
    <2>12. clock' = clock /\ job' = [at |-> "idle"] /\ fault' = fault /\ sought' = sought
        BY <1>3 DEF ClientLoadLight, Rest
    <2> QED BY <2>11, <2>12, JobTypes DEF Kept, Muted
<1> QED BY <1>2, <1>3

\* The stream of clientPlay(true), for the audio and once more for the lights: a
\* new song, whose position is not set.
LEMMA PlayStep == Kept /\ (ClientPlayAudio \/ ClientPlayLight) => Kept' /\ Muted
<1> SUFFICES ASSUME Kept, ClientPlayAudio \/ ClientPlayLight PROVE Kept' /\ Muted
    OBVIOUS
<1> DEFINE m == MediaPlay(me, job.frame)
           can == CanPlay(me)
           audio == [m EXCEPT !.useAudio = can]
           light == [m EXCEPT !.useLight = can]
<1>1. job \in [at : {"play", "lights"}, frame : Starts] /\ job.frame \in Nat
      /\ FilesKept(me) /\ me \in Players
    BY ConfigAssumption DEF ClientPlayAudio, ClientPlayLight, Kept, FilesKept, Jobs
<1>2. FilesKept(m) /\ m \in Players /\ (~can => m = me)
    <2>1. m \in Players
        BY <1>1, MediaPlayed DEF FilesKept
    <2>2. ~can => m = me
        BY DEF MediaPlay
    <2> QED BY <1>1, <2>1, <2>2, MediaPlayed
<1>3. can \in BOOLEAN
    BY DEF CanPlay
<1>4. PICK use \in BOOLEAN :
          /\ (me' = me /\ ~use) \/ (me' = audio /\ use) \/ (me' = light /\ use)
          /\ sought' = IF use /\ can THEN NotSought ELSE sought
          /\ clock' = clock /\ fault' = fault
          /\ job' = [job EXCEPT !.at = "lights"] \/ job' = [job EXCEPT !.at = "playing"]
    BY <1>1 DEF ClientPlayAudio, ClientPlayLight, StreamStarted, Players
<1> HIDE DEF m, can
<1>5. audio \in Players /\ light \in Players
    BY <1>2, <1>3 DEF Players
<1>6. SameFiles(m, audio) /\ SameFiles(m, light)
    BY <1>2 DEF Players, SameFiles
<1>7. FilesKept(me')
    BY <1>1, <1>2, <1>4, <1>5, <1>6, FieldsKept
<1>8. SameSound(m, audio) /\ SameSound(m, light)
    BY <1>2 DEF Players, SameSound
<1> HIDE DEF audio, light
<1>9. (use /\ can) \/ SameSound(me, me')
    BY <1>2, <1>4, <1>8 DEF SameSound
<1>10. job' \in Jobs
    BY <1>1, <1>4 DEF Jobs
<1>11. Kept'
    BY <1>4, <1>7, <1>10 DEF Kept
<1> QED BY <1>4, <1>9, <1>11 DEF Muted

\* clockStop, on the network thread and on the clock thread.
LEMMA StopStep ==
    Kept /\ (ClientStop \/ ClientStopRest \/ ClockEnd \/ ClockEndRest) => Kept' /\ Muted
<1> SUFFICES ASSUME Kept, ClientStop \/ ClientStopRest \/ ClockEnd \/ ClockEndRest
             PROVE  Kept' /\ Muted
    OBVIOUS
<1>1. FilesKept(me)
    BY DEF Kept
<1>2. FilesKept(StopMusic(me)) /\ (StopMusic(me) = me \/ StopMusic(me).stream # "running")
    BY <1>1, MediaStopped DEF StopMusic
<1>3. FilesKept(StopRest(me)) /\ SameSound(me, StopRest(me))
    BY <1>1, RestStopped
<1>4. CASE ClientStop
    <2>1. clock' \in [phase : {"stopped", "running", "ended"}, frame : Nat, stop : Nat]
        BY <1>4 DEF ClientStop, NotRunning, Kept
    <2> QED BY <1>2, <1>4, <2>1, JobTypes DEF ClientStop, Rest, Kept, Muted, SameSound
<1>5. CASE ClientStopRest
    BY <1>3, <1>5, JobTypes DEF ClientStopRest, Rest, Kept, Muted
<1>6. CASE ClockEnd
    <2>1. clock' \in [phase : {"stopped", "running", "ended"}, frame : Nat, stop : Nat]
        BY <1>6 DEF ClockEnd, NotRunning, Kept
    <2> QED BY <1>2, <1>6, <2>1 DEF ClockEnd, Kept, Muted, SameSound
<1>7. CASE ClockEndRest
    BY <1>3, <1>7 DEF ClockEndRest, Kept, Muted
<1> QED BY <1>4, <1>5, <1>6, <1>7

\* clockUpdate gives the frame to the controllers.
LEMMA UpdateStep == Kept /\ ClockUpdate => Kept' /\ Muted
<1> SUFFICES ASSUME Kept, ClockUpdate PROVE Kept' /\ Muted
    OBVIOUS
<1>1. FilesKept(me) /\ me \in Players
    BY DEF Kept, FilesKept
<1>2. clock.frame + 1 \in Nat
    BY DEF Kept
<1> DEFINE c == [me EXCEPT !.sync = clock.frame + 1]
<1>3. me' = me \/ me' = c
    BY DEF ClockUpdate
<1>4. c \in Players
    BY <1>1, <1>2 DEF Players
<1>5. SameFiles(me, c)
    BY <1>1 DEF Players, SameFiles
<1>6. c.offset = me.offset /\ c.current = me.current /\ c.stream = me.stream
    BY <1>1 DEF Players
<1> HIDE DEF c
<1>7. FilesKept(me') /\ SameSound(me, me')
    BY <1>1, <1>3, <1>4, <1>5, <1>6, FieldsKept DEF SameSound, SameFiles
<1>8. fault' # "overrun"
    BY DEF ClockUpdate, LightSync
<1>9. clock' \in [phase : {"stopped", "running", "ended"}, frame : Nat, stop : Nat]
    BY <1>2 DEF ClockUpdate, Kept
<1> QED BY <1>7, <1>8, <1>9 DEF ClockUpdate, Kept, Muted

\* Together.
LEMMA ClientStep == Kept /\ Synced /\ SoughtFits /\ [Next]_vars => Kept' /\ Synced' /\ SoughtFits'
<1> SUFFICES ASSUME Kept, Synced, SoughtFits, [Next]_vars PROVE Kept' /\ Synced' /\ SoughtFits'
    OBVIOUS
<1>1. CASE Callback
    BY <1>1, CallbackStep
<1>2. CASE Packet
    <2>1. Kept' /\ Muted
        BY <1>2, HandlerStep, LoadStep, StopStep DEF Packet
    <2> QED BY <2>1, MutedStep
<1>3. CASE Network
    <2>1. Kept' /\ Muted
        BY <1>3, HandlerStep, LoadStep, PlayStep, StopStep DEF Network
    <2> QED BY <2>1, MutedStep
<1>4. CASE Clock
    <2>1. Kept' /\ Muted
        BY <1>4, UpdateStep, StopStep DEF Clock
    <2> QED BY <2>1, MutedStep
<1>5. CASE \E p \in Prus : PruStart(p) \/ PruOutput(p)
    BY <1>5 DEF PruStart, PruOutput, Kept, Synced, SoughtFits
<1>6. CASE UNCHANGED vars
    BY <1>6 DEF vars, Kept, Synced, SoughtFits
<1> QED BY <1>1, <1>2, <1>3, <1>4, <1>5, <1>6 DEF Next

\* A client starts without files.
LEMMA ClientInit == Init => Kept /\ Synced /\ SoughtFits
<1> SUFFICES ASSUME Init PROVE Kept /\ Synced /\ SoughtFits
    OBVIOUS
<1>1. 0 \in 0 .. Word - 1
    BY SizeAssumption
<1>2. me \in Players
    BY <1>1 DEF Init, Players
<1>3. FilesKept(me)
    BY <1>2 DEF Init, FilesKept
<1> QED BY <1>3, JobTypes DEF Init, NotRunning, Kept, Synced, SoughtFits

-----------------------------------------------------------------------------
\* Whatever the packets, the files, the threads and the kernel do, sound that is
\* loaded stays mapped, unless the kernel mapped it where the light file's stale
\* pointer pointed.
THEOREM AudioStaysMapped == Spec => []AudioMapped
<1>1. Kept => AudioMapped
    BY DEF Kept, FilesKept, AudioMapped
<1> QED BY <1>1, ClientInit, ClientStep, PTL DEF Spec

\* And so do light frames.
THEOREM LightsStayMapped == Spec => []LightsMapped
<1>1. Kept => LightsMapped
    BY DEF Kept, FilesKept, LightsMapped
<1> QED BY <1>1, ClientInit, ClientStep, PTL DEF Spec

\* The drift of a position is the rounding and what each buffer since is off.
LEMMA Drift ==
    ASSUME NEW start \in Nat, NEW since \in Nat,
           NEW current, current = start + since,
           NEW offset, offset = Place(start) + since * Asked
    PROVE  2 * Distance(Scale * offset, Rate * current)
               <= Scale + 2 * since * Distance(Scale * Asked, Rate)
<1> DEFINE p == Scale * Place(start)
           r == Rate * start
           a == Scale * Asked
           each == Distance(a, Rate)
           diff == Scale * offset - Rate * current
<1>1. Rate \in Nat /\ Scale \in Nat /\ Asked \in Nat /\ Place(start) \in Nat
    BY SizeAssumption, PlaceRounds
<1>2. p \in Nat /\ r \in Nat /\ a \in Nat /\ 2 * p - 2 * r \in -Scale .. Scale
    BY <1>1, PlaceRounds
<1>3. since * a \in Nat /\ since * Rate \in Nat
    BY <1>1, <1>2
<1>4. Scale * offset = p + since * a
    <2>1. Scale * (since * Asked) = since * (Scale * Asked)
        BY <1>1
    <2>2. since * Asked \in Nat
        BY <1>1
    <2>3. Scale * (Place(start) + since * Asked) = Scale * Place(start) + Scale * (since * Asked)
        BY <1>1, <2>2
    <2> QED BY <2>1, <2>3
<1>5. Rate * current = r + since * Rate
    BY <1>1
<1>6. each \in Nat /\ (each = a - Rate \/ each = Rate - a)
    BY <1>1, <1>2 DEF Distance
<1> HIDE DEF p, r, a, each
<1>7. since * each \in Nat /\ (since * each = since * a - since * Rate \/ since * each = since * Rate - since * a)
    <2>1. since * (a - Rate) = since * a - since * Rate /\ since * (Rate - a) = since * Rate - since * a
        BY <1>1, <1>2
    <2> QED BY <1>6, <2>1
<1>8. 2 * since * each = 2 * (since * each)
    BY <1>6
<1>9. 2 * Distance(p + since * a, r + since * Rate) <= Scale + 2 * (since * each)
    <2> DEFINE x == since * a
               y == since * Rate
               z == since * each
    <2>1. x \in Nat /\ y \in Nat /\ z \in Nat /\ (z = x - y \/ z = y - x)
        BY <1>3, <1>7
    <2> HIDE DEF x, y, z
    <2>2. 2 * Distance(p + x, r + y) <= Scale + 2 * z
        BY <1>1, <1>2, <2>1 DEF Distance
    <2> QED BY <2>2 DEF x, y, z
<1> QED BY <1>4, <1>5, <1>8, <1>9 DEF each, a

\* Once the position of a song has been set, it goes with the frame that is
\* counted, off by the rounding and by the drift of the device's buffers.
THEOREM SoundInStep == Spec => []InStep
<1>1. Kept /\ Synced => InStep
    <2> SUFFICES ASSUME Kept, Synced, sought # NotSought, me.stream = "running"
                 PROVE  2 * Distance(Scale * me.offset, Rate * me.current)
                            <= Scale + 2 * (me.current - sought) * Distance(Scale * Asked, Rate)
        BY DEF InStep
    <2>1. /\ sought \in Nat /\ me.current - sought \in Nat /\ me.current \in Nat
          /\ me.offset = Place(sought) + (me.current - sought) * Asked
        BY DEF Synced, Kept, FilesKept, Players
    <2>2. me.current = sought + (me.current - sought)
        BY <2>1
    <2> QED BY <2>1, <2>2, Drift
<1> QED BY <1>1, ClientInit, ClientStep, PTL DEF Spec

\* And then no buffer is overrun.
THEOREM SoughtSongsFit == Spec => []SoughtFits
BY ClientInit, ClientStep, PTL DEF Spec

-----------------------------------------------------------------------------
\* The memory of the PRUs has its type, and wakes them only with pixels.
Woken ==
    /\ pru \in [Prus -> [header : [Header -> {"initial", "pixels"}], ready : BOOLEAN,
                         state : {"start", "output"}]]
    /\ DarkUntilFrame

\* A frame of lights that is long enough to reach the word covers it.
LEMMA FrameCopied ==
    ASSUME Woken, NEW ready \in [Prus -> BOOLEAN], pru' = [p \in Prus |-> Copied(p, ready[p])]
    PROVE  Woken'
<1> DEFINE covered(p) == ReadyWord < LightLength(p)
           header(p) == [w \in Header |-> IF w < LightLength(p) THEN "pixels" ELSE pru[p].header[w]]
           flag(p) == IF covered(p) THEN ready[p] ELSE pru[p].ready
           copy(p) == [pru[p] EXCEPT !.header = header(p), !.ready = flag(p)]
<1>1. ASSUME NEW p \in Prus
      PROVE  /\ pru'[p] \in [header : [Header -> {"initial", "pixels"}], ready : BOOLEAN,
                             state : {"start", "output"}]
             /\ pru'[p].ready \/ pru'[p].state = "output" => pru'[p].header[ReadyWord] = "pixels"
    <2>1. /\ pru[p] \in [header : [Header -> {"initial", "pixels"}], ready : BOOLEAN, state : {"start", "output"}]
          /\ pru[p].ready \/ pru[p].state = "output" => pru[p].header[ReadyWord] = "pixels"
        BY DEF Woken, DarkUntilFrame
    <2>2. pru[p].header \in [Header -> {"initial", "pixels"}] /\ ready[p] \in BOOLEAN /\ pru[p].ready \in BOOLEAN
        BY <2>1
    <2>3. header(p) \in [Header -> {"initial", "pixels"}]
        BY <2>2
    <2>4. flag(p) \in BOOLEAN
        BY <2>2
    <2>5. ReadyWord \in Header
        BY DEF ReadyWord, Header
    <2>6. /\ covered(p) => header(p)[ReadyWord] = "pixels"
          /\ ~covered(p) => header(p)[ReadyWord] = pru[p].header[ReadyWord] /\ flag(p) = pru[p].ready
        BY <2>5
    <2>7. pru'[p] = copy(p)
        BY <2>1 DEF Copied
    <2> HIDE DEF header, flag, covered
    <2>8. /\ copy(p) \in [header : [Header -> {"initial", "pixels"}], ready : BOOLEAN, state : {"start", "output"}]
          /\ copy(p).header = header(p) /\ copy(p).ready = flag(p) /\ copy(p).state = pru[p].state
        BY <2>1, <2>3, <2>4
    <2> QED BY <2>1, <2>6, <2>7, <2>8
<1>2. pru' \in [Prus -> [header : [Header -> {"initial", "pixels"}], ready : BOOLEAN, state : {"start", "output"}]]
    BY <1>1
<1> QED BY <1>1, <1>2 DEF Woken, DarkUntilFrame

\* Only a frame of lights and the microcode touch that memory.
LEMMA WokenStep == Woken /\ [Next]_vars => Woken'
<1> SUFFICES ASSUME Woken, [Next]_vars PROVE Woken'
    OBVIOUS
<1>1. ASSUME pru' = pru PROVE Woken'
    BY <1>1 DEF Woken, DarkUntilFrame
<1>2. CASE ClockUpdate
    <2>1. CASE pru' = pru
        BY <1>1, <2>1
    <2>2. CASE pru' # pru
        <3>1. LightSync(clock.frame + 1)
            BY <1>2, <2>2 DEF ClockUpdate
        <3>2. PICK ready \in [Prus -> BOOLEAN] : pru' = [p \in Prus |-> Copied(p, ready[p])]
            BY <2>2, <3>1 DEF LightSync
        <3> QED BY <3>2, FrameCopied
    <2> QED BY <2>1, <2>2
<1>3. ASSUME NEW p \in Prus, PruStart(p) PROVE Woken'
    <2>1. PICK state \in {"start", "output"} : pru' = [pru EXCEPT ![p].ready = FALSE, ![p].state = state]
        BY <1>3 DEF PruStart
    <2>2. pru[p].header[ReadyWord] = "pixels"
        BY <1>3 DEF PruStart, Woken, DarkUntilFrame
    <2>3. Woken
        OBVIOUS
    <2>4. pru'[p].header = pru[p].header /\ \A q \in Prus \ {p} : pru'[q] = pru[q]
        BY <2>1, <2>3 DEF Woken
    <2>5. DarkUntilFrame'
        BY <2>2, <2>3, <2>4 DEF Woken, DarkUntilFrame
    <2> QED BY <2>1, <2>3, <2>5 DEF Woken
<1>4. ASSUME NEW p \in Prus, PruOutput(p) PROVE Woken'
    BY <1>4 DEF PruOutput, Woken, DarkUntilFrame
<1>5. CASE Packet
    BY <1>1, <1>5
    DEF Packet, ClientShowOn, ClientShowOff, ClientPlayRefused, ClientStop, Reconnect,
        ClientLoadMusic, ClientPlayClock, Rest, vars
<1>6. CASE Network \/ ClockEnd \/ ClockEndRest \/ Callback
    BY <1>1, <1>6
    DEF Network, ClientLoadLight, ClientPlayAudio, ClientPlayLight, ClientPlaying, StreamStarted,
        ClientStopRest, ClockEnd, ClockEndRest, Callback, Rest
<1>7. CASE UNCHANGED vars
    BY <1>1, <1>7 DEF vars
<1> QED BY <1>2, <1>3, <1>4, <1>5, <1>6, <1>7 DEF Next, Clock

\* A PRU shows nothing until the word that wakes it is one of the pixels that
\* were copied over it: initPRU clears it, and nothing else sets it.
THEOREM PrusDarkUntilFrame == Spec => []DarkUntilFrame
<1>1. Init => Woken
    BY DEF Init, InitPRU, Woken, DarkUntilFrame, Header, ReadyWord
<1>2. Woken => DarkUntilFrame
    BY DEF Woken
<1> QED BY <1>1, <1>2, WokenStep, PTL DEF Spec

-----------------------------------------------------------------------------
(* Types.  What counts frames is bounded by the longest of the songs and   *)
(* the last of the frames a PLAY may start with, if there is one.          *)

Counts == {Lights[name].frames : name \in DOMAIN Lights}
              \cup {Length(n) : n \in Sizes} \cup Starts
Bounded == \E n \in Counts : \A k \in Counts : k <= n

\* The length of so many samples in frames.
LEMMA LengthType ==
    ASSUME NEW n \in Nat
    PROVE  Length(n) \in Nat /\ Length(0) = 0
<1>1. Scale \in Nat \ {0} /\ Rate \in Nat \ {0} /\ Scale * n \in Nat
    BY SizeAssumption
<1>2. 2 * Scale * n = 2 * (Scale * n)
    BY <1>1
<1>3. (2 * (Scale * n) + Rate) \div (2 * Rate) \in Nat
    BY <1>1
<1>4. 2 * Scale * 0 = 0 /\ Rate \div (2 * Rate) = 0
    BY <1>1
<1> QED BY <1>1, <1>2, <1>3, <1>4 DEF Length

\* MostFrames is that bound.
LEMMA MostFramesBounds ==
    ASSUME Bounded
    PROVE  /\ MostFrames \in Nat
           /\ 0 \in 0 .. MostFrames /\ 0 \in 0 .. MostFrames + 2
           /\ \A k \in Counts : k \in 0 .. MostFrames
<1>1. MostFrames = MaxFrame(Counts)
    BY DEF MostFrames, Counts
<1>2. MostFrames \in Counts /\ \A k \in Counts : k <= MostFrames
    BY <1>1 DEF Bounded, MaxFrame
<1>3. ASSUME NEW n \in Sizes PROVE Length(n) \in Nat
    <2>1. n \in Nat
        BY MusicAssumption DEF Sizes
    <2> QED BY <2>1, LengthType
<1>4. ASSUME NEW k \in Counts PROVE k \in Nat
    <2>1. CASE k \in {Lights[name].frames : name \in DOMAIN Lights}
        BY <2>1, LightAssumption
    <2>2. CASE k \in Starts
        BY <2>2, ConfigAssumption
    <2> QED BY <1>3, <1>4, <2>1, <2>2 DEF Counts
<1> QED BY <1>2, <1>4

\* frameCount of what is loaded is one of those counts, or 0.
LEMMA WavFramesBound ==
    ASSUME Bounded, NEW m \in Me
    PROVE  WavFrames(m) \in 0 .. MostFrames
<1>1. m.size \in {0} \cup Sizes
    BY DEF Me
<1>2. CASE m.size \in Sizes
    BY <1>2, MostFramesBounds DEF WavFrames, Counts
<1>3. CASE m.size = 0
    <2>1. Length(0) = 0
        BY LengthType
    <2> QED BY <1>3, <2>1, MostFramesBounds DEF WavFrames
<1> QED BY <1>1, <1>2, <1>3

\* The handling of the files keeps the types.
LEMMA FilesTyped ==
    ASSUME NEW m \in Me
    PROVE  /\ Unmap(m, "wav") \in Me /\ Unmap(m, "light") \in Me
           /\ MapAt(m, "wav") \subseteq Me /\ MapAt(m, "light") \subseteq Me
<1>1. Unmap(m, "wav") \in Me /\ Unmap(m, "light") \in Me
    BY DEF Me, Unmap
<1>2. ASSUME NEW free \in Me, NEW a \in Addresses, NEW sh \in SUBSET {"wav", "light"}
      PROVE  /\ [free EXCEPT !["wav"] = a, !.mapped = @ \cup {a}, !.shared = sh] \in Me
             /\ [free EXCEPT !["light"] = a, !.mapped = @ \cup {a}, !.shared = sh] \in Me
    BY <1>2, ZenonT(40) DEF Me
<1>3. ASSUME NEW file \in {"wav", "light"}, NEW at \in MapAt(m, file) PROVE at \in Me
    <2> DEFINE free == Unmap(m, file)
               less == free.shared \ {file}
    <2>1. free \in Me
        BY <1>1
    <2> HIDE DEF free
    <2>2. less \in SUBSET {"wav", "light"} /\ free.shared \cup {file} \in SUBSET {"wav", "light"}
        BY <2>1 DEF Me
    <2>3. CASE at = [free EXCEPT ![file] = Null, !.shared = @ \ {file}]
        <3>1. at = [free EXCEPT ![file] = Null, !.shared = less]
            BY <2>1, <2>3 DEF Me
        <3> HIDE DEF less
        <3>2. /\ [free EXCEPT !["wav"] = Null, !.shared = less] \in Me
              /\ [free EXCEPT !["light"] = Null, !.shared = less] \in Me
            BY <2>1, <2>2, ZenonT(40) DEF Me
        <3> QED BY <1>3, <3>1, <3>2
    <2>4. ASSUME NEW a \in Addresses,
                 at = [free EXCEPT ![file] = a, !.mapped = @ \cup {a},
                          !.shared = IF a = m[Other(file)] THEN @ \cup {file} ELSE @ \ {file}]
          PROVE  at \in Me
        <3> DEFINE sh == IF a = m[Other(file)] THEN free.shared \cup {file} ELSE less
        <3>1. sh \in SUBSET {"wav", "light"}
            BY <2>2
        <3>2. at = [free EXCEPT ![file] = a, !.mapped = @ \cup {a}, !.shared = sh]
            BY <2>1, <2>4 DEF Me
        <3> HIDE DEF sh
        <3> QED BY <1>2, <2>1, <3>1, <3>2
    <2> QED BY <1>3, <2>3, <2>4 DEF MapAt, free
<1> QED BY <1>1, <1>3

\* MWAVFile keeps them.
LEMMA WavTyped ==
    ASSUME Bounded, NEW m \in Me
    PROVE  WavClear(m) \in Me /\ \A name \in DOMAIN Music : WavLoad(m, name) \subseteq Me
<1>1. WavClear(m) \in Me
    <2>1. Unmap(m, "wav") \in Me
        BY FilesTyped
    <2> QED BY <2>1 DEF WavClear, Me
<1>2. ASSUME NEW name \in DOMAIN Music, NEW next \in WavLoad(m, name) PROVE next \in Me
    <2> DEFINE kind == Music[name].kind
    <2>1. kind \in MusicKinds /\ Music[name].size \in Sizes /\ Music[name].there \in Nat
        BY MusicAssumption DEF Sizes
    <2>2. CASE kind = "missing"
        BY <1>1, <1>2, <2>2 DEF WavLoad
    <2>3. CASE kind # "missing"
        <3>1. PICK at \in MapAt(WavClear(m), "wav") :
                  \/ next = at
                  \/ next = Unmap(at, "wav")
                  \/ next = [Unmap(at, "wav") EXCEPT !.format = TRUE]
                  \/ next = [at EXCEPT !.format = TRUE]
                  \/ next = [at EXCEPT !.format = TRUE, !.size = Music[name].size, !.extent = Music[name].there]
            BY <1>2, <2>1, <2>3 DEF WavLoad, MusicKinds
        <3>2. at \in Me
            BY <1>1, FilesTyped
        <3>3. Unmap(at, "wav") \in Me
            BY <3>2, FilesTyped
        <3>4. [Unmap(at, "wav") EXCEPT !.format = TRUE] \in Me
            BY <3>3 DEF Me
        <3>5. [at EXCEPT !.format = TRUE, !.size = Music[name].size, !.extent = Music[name].there] \in Me
            BY <2>1, <3>2 DEF Me
        <3>6. [at EXCEPT !.format = TRUE] \in Me
            BY <3>2 DEF Me
        <3> QED BY <3>1, <3>2, <3>3, <3>4, <3>5, <3>6
    <2> QED BY <2>2, <2>3
<1> QED BY <1>1, <1>2

\* So does LightFile.
LEMMA LightTyped ==
    ASSUME Bounded, NEW m \in Me
    PROVE  LightClear(m) \in Me /\ \A name \in DOMAIN Lights : LightLoad(m, name) \subseteq Me
<1>0. MostFrames \in Nat /\ 0 \in 0 .. MostFrames /\ 0 \in 0 .. MostFrames + 2
    BY MostFramesBounds
<1>1. LightClear(m) \in Me
    <2>1. Unmap(m, "light") \in Me
        BY FilesTyped
    <2> QED BY <1>0, <2>1 DEF LightClear, Me
<1>2. ASSUME NEW name \in DOMAIN Lights, NEW next \in LightLoad(m, name) PROVE next \in Me
    <2> DEFINE kind  == Lights[name].kind
               clear == IF IsLoaded(m, "light") THEN LightClear(m) ELSE m
    <2>1. /\ kind \in LightKinds /\ Lights[name].frames \in 0 .. MostFrames
          /\ Lights[name].length \in Nat /\ Lights[name].there \in Nat
        <3>1. Lights[name].frames \in Counts
            BY DEF Counts
        <3> QED BY <3>1, LightAssumption, MostFramesBounds
    <2>2. clear \in Me
        BY <1>1
    <2>3. CASE kind = "missing"
        BY <1>2, <2>2, <2>3 DEF LightLoad
    <2>4. CASE kind # "missing"
        <3>1. PICK at \in MapAt(clear, "light") :
                  \/ next = Unmap(at, "light")
                  \/ next = at
                  \/ next = [at EXCEPT !.frames = Lights[name].frames, !.length = Lights[name].length,
                                       !.lightExtent = Lights[name].there]
            BY <1>2, <2>1, <2>4 DEF LightLoad, LightKinds
        <3>2. at \in Me
            BY <2>2, FilesTyped
        <3>3. Unmap(at, "light") \in Me
            BY <3>2, FilesTyped
        <3>4. [at EXCEPT !.frames = Lights[name].frames, !.length = Lights[name].length,
                         !.lightExtent = Lights[name].there] \in Me
            BY <2>1, <3>2 DEF Me
        <3> QED BY <3>1, <3>2, <3>3, <3>4
    <2> QED BY <2>3, <2>4
<1> QED BY <1>1, <1>2

\* And so do MediaController and what clockStop does after it.
LEMMA MediaTyped ==
    ASSUME Bounded, NEW m \in Me
    PROVE  /\ \A name \in DOMAIN Music \cup {NoName} : MediaLoad(m, name) \subseteq Me
           /\ \A frame \in Starts : MediaPlay(m, frame) \in Me
           /\ MediaStop(m) \in Me /\ MediaShowOff(m) \in Me
           /\ StopMusic(m) \in Me /\ StopRest(m) \in Me
<1>0. MostFrames \in Nat /\ 0 \in 0 .. MostFrames /\ 0 \in 0 .. MostFrames + 2
    BY MostFramesBounds
<1>1. ASSUME NEW to \in {"open", "closed"} PROVE Halted(m, to) \in Me /\ [m EXCEPT !.stream = to] \in Me
    BY <1>1 DEF Halted, Me
<1>2. ASSUME NEW name \in DOMAIN Music \cup {NoName} PROVE MediaLoad(m, name) \subseteq Me
    <2> DEFINE h == Halted(m, "open")
               w == IF IsLoaded(m, "wav") THEN WavClear(h) ELSE h
               c == [w EXCEPT !.sync = 0, !.current = 0]
    <2>1. w \in Me
        BY <1>1, WavTyped
    <2>2. MediaLoad(m, name) = IF name = NoName THEN {c} ELSE WavLoad(c, name)
        BY DEF MediaLoad
    <2> HIDE DEF w
    <2>3. c \in Me
        BY <1>0, <2>1 DEF Me
    <2> HIDE DEF c
    <2> QED BY <2>2, <2>3, WavTyped
<1>3. ASSUME NEW frame \in Starts PROVE MediaPlay(m, frame) \in Me
    <2>1. frame \in 0 .. MostFrames
        BY MostFramesBounds DEF Counts
    <2>2. frame \in 0 .. MostFrames + 2
        BY <1>0, <2>1
    <2> DEFINE c == [m EXCEPT !.current = frame, !.sync = frame, !.stream = "running"]
    <2>3. c \in Me
        BY <2>1, <2>2 DEF Me
    <2> HIDE DEF c
    <2> QED BY <2>3 DEF MediaPlay, c
<1>4. MediaStop(m) \in Me /\ MediaShowOff(m) \in Me /\ StopMusic(m) \in Me
    BY <1>1, WavTyped DEF MediaStop, MediaShowOff, StopMusic
<1>5. StopRest(m) \in Me
    <2> DEFINE l == IF m.useLight THEN LightClear(m) ELSE m
    <2>1. l \in Me /\ m.showAudio \in BOOLEAN /\ m.showLight \in BOOLEAN
        BY LightTyped DEF Me
    <2>2. StopRest(m) = [l EXCEPT !.useAudio = m.showAudio, !.useLight = m.showLight,
                                  !.isPlaying = FALSE, !.endFrame = 0]
        BY DEF StopRest
    <2> HIDE DEF l
    <2> DEFINE k == [l EXCEPT !.useAudio = m.showAudio, !.useLight = m.showLight]
    <2>3. k \in Me
        BY <2>1 DEF Me
    <2>4. StopRest(m) = [k EXCEPT !.isPlaying = FALSE, !.endFrame = 0]
        BY <2>1, <2>2 DEF Me
    <2> HIDE DEF k
    <2>5. [k EXCEPT !.isPlaying = FALSE, !.endFrame = 0] \in Me
        BY <1>0, <2>3 DEF Me
    <2> QED BY <2>4, <2>5
<1> QED BY <1>2, <1>3, <1>4, <1>5

\* The clock counts no further than the longest song.
Clocks == [phase : {"stopped", "running", "ended"}, frame : 0 .. MostFrames, stop : 0 .. MostFrames]
Ranged ==
    /\ me \in Me
    /\ clock \in Clocks
    /\ job \in Jobs
    /\ clockJob \in BOOLEAN /\ astray \in BOOLEAN
    /\ sought \in {NotSought} \cup 0 .. MostFrames
    /\ fault \in {"none", "overrun", "division", "unmapped", "lights"}

\* requestData: the frame that is counted is never more than two ahead of the
\* clock, since one that is two ahead is set back before it goes on.
LEMMA CallbackRanged == ASSUME Bounded PROVE Ranged /\ Callback => Ranged'
<1> SUFFICES ASSUME Ranged, Callback PROVE Ranged'
    OBVIOUS
<1> DEFINE m      == Sought(me)
           copied == Buffer(m)
           stream == StreamAfter(m, copied)
           next   == [m EXCEPT !.offset = @ + copied, !.current = @ + 1, !.stream = stream]
<1>1. MostFrames \in Nat /\ Asked \in Nat \ {0} /\ Word \in Nat \ {0}
    BY MostFramesBounds, SizeAssumption
<1>2. me \in Me /\ me.current \in 0 .. MostFrames + 2 /\ me.sync \in 0 .. MostFrames
    BY DEF Ranged, Me
<1>3. m \in Me /\ m.current <= MostFrames + 1
    <2>1. CASE MustSeek(me)
        <3> DEFINE s == SetFrame(me, me.sync)
        <3>1. Place(me.sync) \in Nat /\ me.sync \in 0 .. MostFrames + 2
            BY <1>1, <1>2, PlaceRounds
        <3>2. s \in Me
            BY <1>2, <3>1 DEF SetFrame, Me
        <3>3. m = [s EXCEPT !.current = me.sync]
            BY <2>1 DEF Sought
        <3> HIDE DEF s, m
        <3>4. m \in Me /\ m.current = me.sync
            BY <3>1, <3>2, <3>3 DEF Me
        <3> QED BY <1>1, <1>2, <3>4
    <2>2. CASE ~MustSeek(me)
        <3>1. m = me
            BY <2>2 DEF Sought
        <3>2. me.current <= MostFrames + 1
            BY <1>1, <1>2, <2>2 DEF MustSeek, Distance
        <3> QED BY <1>2, <3>1, <3>2
    <2> QED BY <2>1, <2>2
<1>4. /\ me' = m \/ me' = next
      /\ fault' \in {"none", "overrun", "division", "unmapped", "lights"}
      /\ sought' \in {sought, me.sync, NotSought}
      /\ astray' \in BOOLEAN /\ UNCHANGED <<clock, job, clockJob>>
    BY DEF Callback, StillAstray, Ranged
<1>5. sought' \in {NotSought} \cup 0 .. MostFrames
    BY <1>2, <1>4 DEF Ranged
<1> HIDE DEF m
<1>6. copied \in Nat /\ stream \in {"closed", "open", "running"}
    <2>1. m.size \in Nat /\ m.offset \in Nat /\ m.stream \in {"closed", "open", "running"}
        BY <1>3, MusicAssumption DEF Me, Sizes
    <2>2. (m.size - m.offset) % Word \in Nat
        BY <1>1, <2>1
    <2> QED BY <1>1, <2>1, <2>2 DEF Buffer, StreamAfter
<1> HIDE DEF copied, stream
<1>7. m.offset + copied \in Nat /\ m.current + 1 \in 0 .. MostFrames + 2
    BY <1>1, <1>3, <1>6 DEF Me
<1>8. next \in Me
    BY <1>3, <1>6, <1>7 DEF Me
<1> QED BY <1>3, <1>4, <1>5, <1>8 DEF Ranged

\* The handlers of the network thread.
LEMMA NetworkRanged == ASSUME Bounded PROVE Ranged /\ (Packet \/ Network) => Ranged'
<1> SUFFICES ASSUME Ranged, Packet \/ Network PROVE Ranged'
    OBVIOUS
<1> USE DEF Rest
<1>0. /\ MostFrames \in Nat /\ 0 \in 0 .. MostFrames
      /\ me \in Me /\ UseAudio \in BOOLEAN /\ UseLights \in BOOLEAN /\ Devices \subseteq BOOLEAN
    BY MostFramesBounds, ConfigAssumption DEF Ranged
<1>1. [at |-> "idle"] \in Jobs /\ [at |-> "stop"] \in Jobs
    BY DEF Jobs
<1>2. ASSUME NEW device \in Devices, ClientShowOn(device) PROVE Ranged'
    <2> DEFINE ready == UseAudio /\ device
               to == IF ready THEN "open" ELSE me.stream
               c == [me EXCEPT !.inShow = TRUE, !.useAudio = UseAudio, !.useLight = UseLights,
                               !.showAudio = ready, !.showLight = UseLights, !.stream = to]
    <2>1. me' = c
        BY <1>2 DEF ClientShowOn
    <2>2. ready \in BOOLEAN /\ to \in {"closed", "open", "running"}
        BY <1>0 DEF Me
    <2> HIDE DEF ready, to
    <2>3. c \in Me
        BY <1>0, <2>2, ZenonT(40) DEF Me
    <2> HIDE DEF c
    <2> QED BY <1>2, <2>1, <2>3 DEF ClientShowOn, Ranged
<1>3. CASE ClientShowOff
    <2> DEFINE m == IF me.showAudio THEN MediaShowOff(me) ELSE me
               c == [m EXCEPT !.inShow = FALSE, !.showAudio = UseAudio, !.useAudio = UseAudio,
                              !.showLight = UseLights, !.useLight = UseLights]
    <2>1. m \in Me
        BY <1>0, MediaTyped
    <2>2. me' = c
        BY <1>3 DEF ClientShowOff
    <2> HIDE DEF m
    <2>3. c \in Me
        BY <1>0, <2>1, ZenonT(40) DEF Me
    <2> HIDE DEF c
    <2> QED BY <1>3, <2>2, <2>3 DEF ClientShowOff, StillAstray, Ranged
<1>4. ASSUME NEW names \in Loads, ClientLoadMusic(names[1], names[2]) PROVE Ranged'
    <2>1. names[1] \in DOMAIN Music \cup {NoName} /\ names[2] \in DOMAIN Lights \cup {NoName}
        BY ConfigAssumption
    <2>2. PICK m \in (IF me.showAudio THEN MediaLoad(me, names[1]) ELSE {me}) :
              me' = [m EXCEPT !.useAudio = IF me.showAudio THEN WavFrames(m) # 0 ELSE @,
                              !.endFrame = IF me.showAudio THEN WavFrames(m) ELSE 0]
        BY <1>4 DEF ClientLoadMusic
    <2>3. m \in Me
        BY <1>0, <2>1, <2>2, MediaTyped
    <2> DEFINE used == IF me.showAudio THEN WavFrames(m) # 0 ELSE m.useAudio
               end == IF me.showAudio THEN WavFrames(m) ELSE 0
    <2>4. used \in BOOLEAN /\ end \in 0 .. MostFrames /\ me' = [m EXCEPT !.useAudio = used, !.endFrame = end]
        BY <1>0, <2>2, <2>3, WavFramesBound DEF Me
    <2> HIDE DEF used, end
    <2>5. me' \in Me
        BY <2>3, <2>4 DEF Me
    <2>6. job' \in Jobs /\ sought' = NotSought /\ astray' \in BOOLEAN /\ UNCHANGED <<clock, clockJob, fault>>
        BY <1>4, <2>1 DEF ClientLoadMusic, StillAstray, Ranged, Jobs
    <2> QED BY <2>5, <2>6 DEF Ranged
<1>5. CASE ClientLoadLight
    <2>1. job.light \in DOMAIN Lights \cup {NoName}
        BY <1>5 DEF ClientLoadLight, Ranged, Jobs
    <2>2. PICK m \in (IF me.showLight /\ job.light # NoName THEN LightLoad(me, job.light) ELSE {me}) :
              LET frames == IF job.light = NoName THEN 0 ELSE m.frames
              IN me' = IF ~me.showLight THEN me
                       ELSE [m EXCEPT !.useLight = frames # 0,
                                      !.endFrame = IF frames > @ THEN frames ELSE @]
        BY <1>5 DEF ClientLoadLight
    <2> DEFINE frames == IF job.light = NoName THEN 0 ELSE m.frames
               last == IF frames > m.endFrame THEN frames ELSE m.endFrame
               used == frames # 0
               c == [m EXCEPT !.useLight = used, !.endFrame = last]
    <2>3. m \in Me
        BY <1>0, <2>1, <2>2, LightTyped
    <2>4. frames \in 0 .. MostFrames /\ last \in 0 .. MostFrames /\ used \in BOOLEAN
        BY <1>0, <2>3 DEF Me
    <2>5. me' = me \/ me' = c
        BY <2>2, <2>3 DEF Me
    <2> HIDE DEF frames, last, used
    <2>6. c \in Me
        BY <2>3, <2>4 DEF Me
    <2> HIDE DEF c
    <2>7. me' \in Me
        BY <1>0, <2>5, <2>6
    <2> QED BY <1>1, <1>5, <2>7 DEF ClientLoadLight, Ranged
<1>6. ASSUME NEW frame \in Starts, ClientPlayClock(frame) PROVE Ranged'
    <2>1. frame \in 0 .. MostFrames /\ me.endFrame \in 0 .. MostFrames
        BY <1>0, MostFramesBounds DEF Counts, Me
    <2>2. frame \in 0 .. MostFrames + 1 /\ frame <= MostFrames
        BY <1>0, <2>1
    <2>3. clock' \in Clocks
        BY <1>6, <2>1, <2>2 DEF ClientPlayClock, Clocks, Ranged
    <2>4. job' \in Jobs
        BY <1>6 DEF ClientPlayClock, Jobs
    <2> QED BY <1>6, <2>3, <2>4 DEF ClientPlayClock, Ranged
<1>7. CASE ClientPlayAudio \/ ClientPlayLight
    <2> DEFINE m == MediaPlay(me, job.frame)
               can == CanPlay(me)
    <2>1. job \in [at : {"play", "lights"}, frame : Starts]
        BY <1>7 DEF ClientPlayAudio, ClientPlayLight, Ranged, Jobs
    <2>2. m \in Me
        BY <1>0, <2>1, MediaTyped
    <2>3. can \in BOOLEAN
        BY DEF CanPlay
    <2>4. me' \in {me, [m EXCEPT !.useAudio = can], [m EXCEPT !.useLight = can]}
        BY <1>7 DEF ClientPlayAudio, ClientPlayLight
    <2> HIDE DEF m, can
    <2>5. me' \in Me
        BY <1>0, <2>2, <2>3, <2>4 DEF Me
    <2>6. job' \in Jobs
        BY <1>7, <2>1 DEF ClientPlayAudio, ClientPlayLight, Jobs
    <2>7. astray' \in BOOLEAN /\ sought' \in {sought, NotSought} /\ UNCHANGED <<clock, clockJob, fault>>
        BY <1>7 DEF ClientPlayAudio, ClientPlayLight, StreamStarted, Ranged
    <2> QED BY <2>5, <2>6, <2>7 DEF Ranged
<1>12. CASE ClientPlaying
    <2>1. me' \in Me
        BY <1>0, <1>12 DEF ClientPlaying, Me
    <2> QED BY <1>1, <1>12, <2>1 DEF ClientPlaying, Ranged
<1>8. CASE ClientStop
    <2>1. clock' \in Clocks
        BY <1>8, MostFramesBounds DEF ClientStop, NotRunning, Ranged, Clocks
    <2> QED BY <1>0, <1>1, <1>8, <2>1, MediaTyped DEF ClientStop, StillAstray, Ranged
<1>9. CASE ClientStopRest
    BY <1>0, <1>1, <1>9, MediaTyped DEF ClientStopRest, Ranged
<1>10. CASE Reconnect
    <2>1. me' \in Me
        BY <1>0, <1>10 DEF Reconnect, Me
    <2> QED BY <1>10, <2>1 DEF Reconnect, Ranged
<1>11. CASE ClientPlayRefused
    BY <1>11 DEF ClientPlayRefused, vars, Ranged
<1> QED BY <1>2, <1>3, <1>4, <1>5, <1>6, <1>7, <1>8, <1>9, <1>10, <1>11, <1>12 DEF Packet, Network

\* The clock thread: only a frame before the end goes to the controllers.
LEMMA ClockRanged == ASSUME Bounded PROVE Ranged /\ Clock => Ranged'
<1> SUFFICES ASSUME Ranged, Clock PROVE Ranged'
    OBVIOUS
<1>0. MostFrames \in Nat /\ me \in Me /\ clock.frame \in Nat /\ clock.stop \in 0 .. MostFrames
    BY MostFramesBounds DEF Ranged, Clocks
<1>1. CASE ClockUpdate
    <2>1. clock.frame + 1 \in 0 .. MostFrames
        BY <1>0, <1>1 DEF ClockUpdate, SongEnds
    <2>2. clock' \in Clocks
        BY <1>0, <1>1, <2>1 DEF ClockUpdate, Ranged, Clocks
    <2>3. me' \in Me
        BY <1>0, <1>1, <2>1 DEF ClockUpdate, Me
    <2>4. fault' \in {"none", "overrun", "division", "unmapped", "lights"}
        BY <1>1 DEF ClockUpdate, LightSync, Ranged
    <2> QED BY <1>1, <2>2, <2>3, <2>4 DEF ClockUpdate, Ranged
<1>2. CASE ClockEnd
    <2>1. clock' \in Clocks
        BY <1>2, <1>0 DEF ClockEnd, NotRunning, Ranged, Clocks
    <2> QED BY <1>0, <1>2, <2>1, MediaTyped DEF ClockEnd, StillAstray, Ranged
<1>3. CASE ClockEndRest
    BY <1>0, <1>3, MediaTyped DEF ClockEndRest, Ranged
<1> QED BY <1>1, <1>2, <1>3 DEF Clock

\* Every step keeps the ranges.
LEMMA RangedStep == ASSUME Bounded PROVE Ranged /\ [Next]_vars => Ranged'
<1> SUFFICES ASSUME Ranged, [Next]_vars PROVE Ranged'
    OBVIOUS
<1>1. CASE \E p \in Prus : PruStart(p) \/ PruOutput(p)
    BY <1>1 DEF PruStart, PruOutput, Ranged
<1>2. CASE UNCHANGED vars
    BY <1>2 DEF vars, Ranged
<1> QED BY <1>1, <1>2, CallbackRanged, NetworkRanged, ClockRanged DEF Next

\* No frame that the client counts goes beyond its longest song, but for the two
\* that the sound device may be ahead; whatever the packets, files and threads
\* do, and wherever the kernel maps a file.
THEOREM ClientTypes ==
    ASSUME Bounded
    PROVE  Spec => []TypeOK
<1>1. Init => Ranged /\ Woken
    <2> SUFFICES ASSUME Init PROVE Ranged /\ Woken
        OBVIOUS
    <2>1. MostFrames \in Nat
        BY MostFramesBounds
    <2>2. me \in Me
        BY <2>1 DEF Init, Me
    <2>3. clock \in Clocks /\ job \in Jobs
        BY <2>1 DEF Init, NotRunning, Clocks, Jobs
    <2> QED BY <2>2, <2>3 DEF Init, InitPRU, Ranged, Woken, DarkUntilFrame, Header, ReadyWord
<1>2. Ranged /\ Woken => TypeOK
    BY DEF Ranged, Woken, TypeOK, Clocks, Jobs
<1> QED BY <1>1, <1>2, RangedStep, WokenStep, PTL DEF Spec

-----------------------------------------------------------------------------
\* LightFile::copy: what LightController::sync asks for fits the frame, when the
\* PRU's offset does and the frame is less than half of what its field can say.
THEOREM CopyFits ==
    ASSUME NEW m, m.length \in Nat \ {0}, 2 * m.length < Word,
           NEW offset \in 0 .. m.length, NEW length \in 0 .. Word - 1
    PROVE  LET n == CopyLength(m, offset, SyncLength(m, offset, length))
           IN 0 <= n /\ offset + n <= m.length
<1> DEFINE rest == m.length - offset
           asked == SyncLength(m, offset, length)
<1>1. Word \in Nat \ {0}
    BY SizeAssumption
<1>2. rest \in 0 .. Word - 1 /\ rest % Word = rest
    BY <1>1
<1>3. asked \in Nat /\ asked <= rest
    BY <1>1, <1>2 DEF SyncLength
<1> HIDE DEF asked
<1>4. ASSUME asked # 0 PROVE (offset + asked) % Word = offset + asked
    BY <1>1, <1>3
<1>5. (offset + m.length) % Word = offset + m.length
    BY <1>1
<1> QED BY <1>1, <1>3, <1>4, <1>5 DEF CopyLength, asked
=============================================================================
