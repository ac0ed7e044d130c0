------------------------------- MODULE Upload -------------------------------
(***************************************************************************)
(* The upload process beside a worker that records: it goes through the      *)
(* recording path, sends every file that no process has open to the FTP      *)
(* server, resuming a transfer that breaks off, and removes it.              *)
(*                                                                            *)
(* A file on the server has the name it had on disk. A transfer carries a     *)
(* number of frames; what the server holds is a file as Recording has them.   *)
(***************************************************************************)
EXTENDS Recording

CONSTANT MaxFaults \* bound: how often a process ends or an open file is not seen

ASSUME UploadAssumption == MaxFaults \in Nat

VARIABLES upload,  \* sdr_traverse_upload and FtpUpload
          server,  \* the files of the FTP server
          spoilt,  \* history: files with the reason why the server may lack some of them
          faults   \* counter of MaxFaults

vars == <<recording, upload, server, spoilt, faults>>

Tries == 3
NoTransfer == [pc |-> "sleep", todo |-> {}, file |-> NoName, try |-> 0, from |-> 0]

Init == /\ RecordingInit
        /\ upload = NoTransfer
        /\ server = << >>
        /\ spoilt = {}
        /\ faults = 0

Spoilt(n) == \E cause \in {"reused", "unseen", "unclosed"} : <<cause, n>> \in spoilt

\* A step of the worker. The name of a file it opens may be that of a file which
\* has left the disk; a file it had open when it ended remains unclosed.
Worker ==
  /\ RecordingNext
  /\ spoilt' = spoilt
       \cup {<<"reused", n>> : n \in (DOMAIN disk' \ DOMAIN disk) \cap DOMAIN server}
       \cup {<<"unclosed", n>> : n \in {m \in {sink.file} :
                                        control' = "ended" /\ m \in DOMAIN disk}}
  /\ faults' = IF control' # "ended" \/ control = "ended" THEN faults ELSE faults + 1
  /\ faults' <= MaxFaults
  /\ UNCHANGED <<upload, server>>

-----------------------------------------------------------------------------
(* sdr_traverse_upload.                                                       *)

\* sleep(1) is over and the directory is read: the upload is switched on, and a
\* directory that cannot be opened, which is tried again, is left out.
UpTraverse ==
  /\ upload.pc = "sleep"
  /\ upload' = [upload EXCEPT !.pc = "next", !.todo = DOMAIN disk]
  /\ UNCHANGED <<recording, server, spoilt, faults>>

UpDone ==
  /\ upload.pc = "next" /\ upload.todo = {}
  /\ upload' = NoTransfer
  /\ UNCHANGED <<recording, server, spoilt, faults>>

Take(n) == [upload EXCEPT !.pc = "store", !.todo = @ \ {n}, !.file = n, !.try = 1]

\* Mutant of UpTest: a file without sizes in its header counts as open.
UpTestHeader ==
  /\ upload.pc = "next"
  /\ \E n \in upload.todo :
       upload' = IF disk[n].closed THEN Take(n) ELSE [upload EXCEPT !.todo = @ \ {n}]
  /\ UNCHANGED <<recording, server, spoilt, faults>>

\* is_file_open: a file that the worker has open is left for the next time.
UpTest ==
  /\ upload.pc = "next"
  /\ \E n \in upload.todo :
       upload' = IF IsOpen(n) THEN [upload EXCEPT !.todo = @ \ {n}] ELSE Take(n)
  /\ UNCHANGED <<recording, server, spoilt, faults>>

\* is_file_open does not see that the file is open: popen fails, lsof is missing or
\* ends early, fgets is interrupted, or the name is cut by the length of the buffer.
UpTestBlind ==
  /\ upload.pc = "next" /\ faults < MaxFaults
  /\ \E n \in upload.todo :
       /\ IsOpen(n)
       /\ upload' = Take(n)
       /\ spoilt' = spoilt \cup {<<"unseen", n>>}
  /\ faults' = faults + 1
  /\ UNCHANGED <<recording, server>>

-----------------------------------------------------------------------------
(* FtpUpload: STOR, then up to two times SIZE and APPE.                       *)

Local == disk[upload.file]
OnServer == upload.file \in DOMAIN server
Remote == IF OnServer THEN server[upload.file] ELSE [data |-> << >>, closed |-> FALSE]

\* A transfer of k frames from the one at "from" on, onto what the server has.
Transferred(held, from, k) ==
  [n \in DOMAIN server \cup {upload.file} |->
     IF n = upload.file
     THEN [data |-> held \o SubSeq(Local.data, from + 1, from + k),
           closed |-> IF held = << >> THEN Local.closed ELSE Remote.closed]
     ELSE server[n]]

Left(from) == IF from < Len(Local.data) THEN Len(Local.data) - from ELSE 0

NextFile == [NoTransfer EXCEPT !.pc = "next", !.todo = upload.todo]
Succeeded == [upload EXCEPT !.pc = "remove"]
\* Mutant of Failed: the tries are not counted up to their limit.
FailedAgain(from) == [upload EXCEPT !.pc = "resume", !.try = @ + 1, !.from = from]

Failed(from) == IF upload.try < Tries
                THEN [upload EXCEPT !.pc = "resume", !.try = @ + 1, !.from = from]
                ELSE NextFile

\* The transfer succeeds, or it breaks off on its way, or when all is sent but
\* the answer.
Perform(held, from) ==
  \/ /\ server' = Transferred(held, from, Left(from))
     /\ upload' = Succeeded
  \/ \E k \in {1, Left(from)} :
       /\ k <= Left(from)
       /\ server' = Transferred(held, from, k)
       /\ upload' = Failed(from)

\* No connection.
UpFail ==
  /\ upload.pc \in {"store", "resume"}
  /\ upload' = Failed(upload.from)
  /\ UNCHANGED <<recording, server, spoilt, faults>>

\* STOR, which does not keep what the server has.
UpStore ==
  /\ upload.pc = "store"
  /\ Perform(<< >>, 0)
  /\ UNCHANGED <<recording, spoilt, faults>>

\* Mutant of UpResume: the file is sent from its start on.
UpResumeWhole ==
  /\ upload.pc = "resume"
  /\ Perform(Remote.data, 0)
  /\ UNCHANGED <<recording, spoilt, faults>>

\* SIZE, and APPE from the length it answers; without a file it answers nothing
\* and uploaded_len stays what it was.
UpResume ==
  /\ upload.pc = "resume"
  /\ Perform(Remote.data, IF OnServer THEN Len(Remote.data) ELSE upload.from)
  /\ UNCHANGED <<recording, spoilt, faults>>

\* The file is removed, or cannot be.
UpRemove ==
  /\ upload.pc = "remove"
  /\ \/ disk' = [n \in DOMAIN disk \ {upload.file} |-> disk[n]]
     \/ UNCHANGED disk
  /\ upload' = NextFile
  /\ UNCHANGED <<control, sink, stopping, now, blocks, home, server, spoilt, faults>>

-----------------------------------------------------------------------------

\* bExit is seen: the worker has ended.
UpLeave ==
  /\ upload.pc = "sleep" /\ control = "ended"
  /\ upload' = [upload EXCEPT !.pc = "ended"]
  /\ UNCHANGED <<recording, server, spoilt, faults>>

\* The process dies.
UploadDies ==
  /\ upload.pc # "ended" /\ faults < MaxFaults
  /\ upload' = [NoTransfer EXCEPT !.pc = "ended"]
  /\ faults' = faults + 1
  /\ UNCHANGED <<recording, server, spoilt>>

\* The program is started again.
Restart ==
  /\ upload.pc = "ended" /\ control = "ended"
  /\ control' = "idle"
  /\ upload' = NoTransfer
  /\ UNCHANGED <<disk, sink, stopping, now, blocks, home, server, spoilt, faults>>

UploadStep == UpTraverse \/ UpDone \/ UpTest \/ UpFail \/ UpStore \/ UpResume \/ UpRemove

Next == Worker \/ UploadStep \/ UpTestBlind \/ UpLeave \/ UploadDies \/ Restart

(***************************************************************************)
(* The upload process runs; a transfer that is tried again and again succeeds *)
(* at last, and so does the removal of a file. The worker may do nothing.      *)
(***************************************************************************)
Fairness ==
  /\ WF_vars(UploadStep)
  /\ SF_vars((UpStore \/ UpResume) /\ upload'.pc = "remove")
  /\ SF_vars(UpRemove /\ disk' # disk)

Spec == Init /\ [][Next]_vars /\ Fairness

-----------------------------------------------------------------------------

TypeOK ==
  /\ RecordingTypeOK
  /\ upload \in [pc : {"sleep", "next", "store", "resume", "remove", "ended"},
                 todo : SUBSET Names, file : Names \cup {NoName},
                 try : 0 .. Tries, from : 0 .. Len(home)]
  /\ DOMAIN server \subseteq Names /\ \A n \in DOMAIN server : server[n] \in Files
  /\ spoilt \subseteq {"reused", "unseen", "unclosed"} \X Names
  /\ faults \in 0 .. MaxFaults

FramesOf(files) == UNION {ToSet(files[n].data) : n \in DOMAIN files}

(***************************************************************************)
(* A file leaves the disk only when it was closed and the server has exactly  *)
(* what it held: whatever the tries that broke off left behind, no frame is   *)
(* missing, twice or out of order. Excepted are a file whose name was used     *)
(* before, one whose test did not see that it was open, and one whose writer *)
(* ended before it closed it.                                                 *)
(***************************************************************************)
RemovedIsOnServer ==
  [][\A n \in DOMAIN disk \ DOMAIN disk' :
       Spoilt(n) \/ (disk[n].closed /\ n \in DOMAIN server /\ server[n] = disk[n])]_vars

(***************************************************************************)
(* Every frame that the sink thread has written is on disk or on the server,  *)
(* over changes of file at a size, a time limit or a change of input, over    *)
(* interrupted uploads and restarts. Excepted are the same files, and what a   *)
(* stereo block loses when it is cut at the end of a file.                    *)
(***************************************************************************)
EveryFrameIsKept ==
  \A f \in DOMAIN home : \/ home[f].cut \/ Spoilt(home[f].file)
                         \/ f \in FramesOf(disk) \/ f \in FramesOf(server)

(***************************************************************************)
(* The disk does not fill up: again and again it has no file but the one that *)
(* is written, if the upload process lives on and the server answers now and  *)
(* then; a file that stayed, after failed tries or because it was created or  *)
(* closed behind the traversal's back, would refute it. The bounds end the    *)
(* recording: audio that comes faster than it can be sent is not considered.  *)
(***************************************************************************)
EveryFileLeaves ==
  []<>(upload.pc = "ended" \/ \A n \in DOMAIN disk : IsOpen(n))
=============================================================================
