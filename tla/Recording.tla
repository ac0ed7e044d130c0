------------------------------ MODULE Recording ------------------------------
(***************************************************************************)
(* A recording of the analogue worker: the command thread starts and stops    *)
(* it, its sink thread takes blocks of audio and writes WAV files of limited  *)
(* size, under names that no file on disk has.                                *)
(*                                                                            *)
(* A frame is its rank among those written. A name is the second in it, its   *)
(* sequence number and the index that makes it unique; a file is its frames   *)
(* and whether closeFile has set the sizes in its header.                     *)
(***************************************************************************)
EXTENDS Integers, SequencesExt

CONSTANTS Capacity,             \* samples that fit in a file
          Blocks,               \* the blocks: their channels, the samples of both
          MaxSeconds, MaxBlocks \* bounds: the clock, the blocks taken

ASSUME RecordingAssumption ==
  /\ Blocks \subseteq [channels : {1, 2}, samples : 1 .. Capacity]
  /\ \A b \in Blocks : b.samples % b.channels = 0
  /\ {Capacity, MaxSeconds, MaxBlocks} \subseteq Nat

VARIABLES disk,     \* the files of the recording path
          control,  \* the command thread
          sink,     \* AudioSinkFileThread and its AudioFileWAV
          stopping, \* IOThread::stopping of the sink thread
          now,      \* the clock
          blocks,   \* blocks taken
          home      \* history: the file of each frame, and whether its block was cut in stereo

recording == <<disk, control, sink, stopping, now, blocks, home>>

Names == [second : 0 .. MaxSeconds, seq : 0 .. MaxBlocks, idx : 0 .. 2 * MaxBlocks]
NoName == [second |-> -1, seq |-> 0, idx |-> 0]
NoSink == [pc |-> "ended", file |-> NoName, size |-> 0, second |-> 0, seq |-> 0,
           since |-> 0, channels |-> 0, block |-> 0, room |-> 0]

RecordingInit ==
  /\ disk = << >>
  /\ control = "idle"
  /\ sink = NoSink
  /\ stopping = TRUE
  /\ now = 0
  /\ blocks = 0
  /\ home = << >>

IsOpen(n) == n = sink.file

-----------------------------------------------------------------------------
(* The file: AudioFileWAV. A file that was removed while open is no longer    *)
(* on disk, and what is written to it is gone.                                *)

\* Mutant of NextName: no search for a name that is free.
NextNameFixed(second, seq) == [second |-> second, seq |-> seq, idx |-> 0]

\* getOutputFileName: the first index that no file has.
NextName(second, seq) ==
  LET name(i) == [second |-> second, seq |-> seq, idx |-> i]
      taken == {i \in 0 .. 2 * MaxBlocks : name(i) \in DOMAIN disk}
  IN  name(CHOOSE i \in 0 .. 2 * MaxBlocks : i \notin taken /\ 0 .. i - 1 \subseteq taken)

\* The file that writeToFile writes into, opened if none is; with its header.
Output == IF sink.file = NoName THEN NextName(sink.second, sink.seq) ELSE sink.file
Opened == IF sink.file # NoName THEN disk
          ELSE [n \in DOMAIN disk \cup {Output} |->
                  IF n = Output THEN [data |-> << >>, closed |-> FALSE] ELSE disk[n]]

\* The files after writePayloadToFileStream has written the next k frames.
Written(k) == [n \in DOMAIN Opened |->
                 IF n = Output
                 THEN [Opened[n] EXCEPT !.data = @ \o [i \in 1 .. k |-> Len(home) + i]]
                 ELSE Opened[n]]

\* The files after closeFile.
Closed(files) == [n \in DOMAIN files |->
                    IF n = Output THEN [files[n] EXCEPT !.closed = TRUE] ELSE files[n]]

Homes(k, cut) == [i \in 1 .. k |-> [file |-> Output, cut |-> cut]]

\* getMaxWritableNumberOfSamples, which counts frames.
Room == (Capacity - sink.size) \div sink.channels
Frames(samples) == samples \div sink.channels

\* Of a block that does not fit, the frames that go into the file, and into the
\* next one: room is the end of the first loop in samples, in frames the start
\* of the second.
FramesBefore(room) == Frames(room)
FramesAfter(room) == IF room < Frames(sink.block) THEN Frames(sink.block) - room ELSE 0

-----------------------------------------------------------------------------

Tick ==
  /\ now < MaxSeconds
  /\ now' = now + 1
  /\ UNCHANGED <<disk, control, sink, stopping, blocks, home>>

StartRecording ==
  /\ control = "idle"
  /\ control' = "recording"
  /\ sink' = [NoSink EXCEPT !.pc = "new", !.second = now, !.since = now]
  /\ stopping' = FALSE
  /\ UNCHANGED <<disk, now, blocks, home>>

\* stopRecording until the join: no queue, terminate(), the queue is flushed.
StopRecording ==
  /\ control = "recording"
  /\ control' = "joining"
  /\ stopping' = TRUE
  /\ UNCHANGED <<disk, sink, now, blocks, home>>

\* The rest of stopRecording; the destructor closes the file.
JoinRecording ==
  /\ control = "joining" /\ sink.pc = "ended"
  /\ control' = "idle"
  /\ disk' = Closed(disk)
  /\ sink' = NoSink
  /\ UNCHANGED <<stopping, now, blocks, home>>

\* The worker leaves or dies: the open file keeps its header, and lacks what the
\* stream has not passed on.
WorkerEnds ==
  /\ control # "ended"
  /\ control' = "ended"
  /\ \E lost \in {0, 1} :
       disk' = [n \in DOMAIN disk |->
                  IF IsOpen(n) THEN [disk[n] EXCEPT !.data = SubSeq(@, 1, Len(@) - lost)]
                  ELSE disk[n]]
  /\ sink' = NoSink
  /\ stopping' = TRUE
  /\ UNCHANGED <<now, blocks, home>>

-----------------------------------------------------------------------------

\* threadMain.
SinkStart ==
  /\ sink.pc = "new"
  /\ sink' = [sink EXCEPT !.pc = "top"]
  /\ stopping' = FALSE
  /\ UNCHANGED <<disk, control, now, blocks, home>>

\* A block comes. Other properties than the block before close the file, and
\* so does the time limit, which takes a new name too.
SinkTake ==
  /\ sink.pc = "top" /\ ~stopping
  /\ control = "recording" /\ blocks < MaxBlocks
  /\ blocks' = blocks + 1
  /\ \E b \in Blocks :
       \/ /\ b.channels = sink.channels
          /\ sink' = [sink EXCEPT !.pc = "write", !.block = b.samples]
          /\ UNCHANGED disk
       \/ /\ sink' = [sink EXCEPT !.pc = "write", !.block = b.samples,
                                  !.channels = b.channels, !.since = now,
                                  !.file = NoName, !.size = 0]
          /\ disk' = Closed(disk)
       \/ /\ b.channels = sink.channels /\ now > sink.since
          /\ sink' = [sink EXCEPT !.pc = "write", !.block = b.samples,
                                  !.second = now, !.seq = 0, !.since = now,
                                  !.file = NoName, !.size = 0]
          /\ disk' = Closed(disk)
  /\ UNCHANGED <<control, stopping, now, home>>

\* writeToFile, when the block fits.
SinkWrite ==
  /\ sink.pc = "write"
  /\ Room >= sink.block
  /\ disk' = Written(Frames(sink.block))
  /\ home' = home \o Homes(Frames(sink.block), FALSE)
  /\ sink' = [sink EXCEPT !.pc = "top", !.file = Output, !.block = 0,
                          !.size = @ + sink.block]
  /\ UNCHANGED <<control, stopping, now, blocks>>

\* writeToFile, when it does not: the file is completed and closed.
SinkCut ==
  /\ sink.pc = "write"
  /\ Room < sink.block
  /\ LET before == FramesBefore(Room)
         lost == Frames(sink.block) - before - FramesAfter(Room)
     IN  /\ disk' = Closed(Written(before))
         /\ home' = home \o Homes(before, FALSE) \o Homes(lost, TRUE)
  /\ sink' = [sink EXCEPT !.pc = "rest", !.room = Room, !.file = NoName, !.size = 0,
                          !.seq = @ + 1]
  /\ UNCHANGED <<control, stopping, now, blocks>>

\* The rest of writeToFile, in the next file.
SinkRest ==
  /\ sink.pc = "rest"
  /\ LET after == FramesAfter(sink.room)
     IN  /\ disk' = Written(after)
         /\ home' = home \o Homes(after, FALSE)
         /\ sink' = [sink EXCEPT !.pc = "top", !.file = Output, !.block = 0,
                                 !.size = after * sink.channels, !.room = 0]
  /\ UNCHANGED <<control, stopping, now, blocks>>

\* run returns.
SinkEnd ==
  /\ sink.pc = "top" /\ stopping
  /\ sink' = [sink EXCEPT !.pc = "ended"]
  /\ UNCHANGED <<disk, control, stopping, now, blocks, home>>

SinkStep == SinkStart \/ SinkWrite \/ SinkCut \/ SinkRest \/ SinkEnd

RecordingNext == \/ Tick \/ StartRecording \/ StopRecording \/ JoinRecording
                 \/ WorkerEnds \/ SinkTake \/ SinkStep

-----------------------------------------------------------------------------

MaxFrames == MaxBlocks * Capacity
Files == [data : Seq(1 .. MaxFrames), closed : BOOLEAN]

RecordingTypeOK ==
  /\ DOMAIN disk \subseteq Names
  /\ \A n \in DOMAIN disk : disk[n] \in Files
  /\ control \in {"idle", "recording", "joining", "ended"}
  /\ sink \in [pc : {"new", "top", "write", "rest", "ended"}, file : Names \cup {NoName},
               size : 0 .. Capacity, second : 0 .. MaxSeconds, seq : 0 .. MaxBlocks,
               since : 0 .. MaxSeconds, channels : 0 .. 2, block : 0 .. Capacity,
               room : 0 .. Capacity]
  /\ stopping \in BOOLEAN
  /\ now \in 0 .. MaxSeconds
  /\ blocks \in 0 .. MaxBlocks
  /\ home \in Seq([file : Names, cut : BOOLEAN])
=============================================================================
