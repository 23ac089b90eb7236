------------------------------- MODULE Media -------------------------------
(***************************************************************************)
(* The media service: the table media_uploads, the bucket, and InitUpload, *)
(* CompleteUpload and GetDownloadURL.  A client uploads to the bucket with *)
(* the URL it was given, and may do so again while the URL is valid.       *)
(*                                                                         *)
(* s3_url is NULL until an upload is completed, and GetByStreamID scans it *)
(* into a string, which pgx refuses.                                       *)
(***************************************************************************)
EXTENDS Naturals

CONSTANTS
  Streams,     \* stream IDs
  Completions, \* calls of CompleteUpload
  Sizes        \* sizes of uploads and objects, not 0

VARIABLES
  uploads,   \* the rows of media_uploads
  presigned, \* the streams whose PUT URL a client has
  objects,   \* the size of each object in the bucket, 0 for none
  call       \* the calls of CompleteUpload

media == <<uploads, presigned, objects, call>>

NoRow == [status |-> "none"]
Row(total) == [status |-> "uploading", total |-> total, url |-> FALSE]
NoStream == "none"

MediaInit ==
  /\ uploads = [s \in Streams |-> NoRow]
  /\ presigned = {}
  /\ objects = [s \in Streams |-> 0]
  /\ call = [c \in Completions |-> [pc |-> "new", stream |-> NoStream]]

\* InitUpload: the row is inserted before the URL is made, and stays if that
\* fails.
InitUpload(s, total) ==
  /\ uploads[s] = NoRow
  /\ uploads' = [uploads EXCEPT ![s] = Row(total)]
  /\ presigned' \in {presigned, presigned \cup {s}}
  /\ UNCHANGED <<objects, call>>

\* The client puts the object.
Put(s, size) ==
  /\ s \in presigned
  /\ objects' = [objects EXCEPT ![s] = size]
  /\ UNCHANGED <<uploads, presigned, call>>

At(c, pc) == call' = [call EXCEPT ![c].pc = pc]

\* GetByStreamID returns the row.
Scans(s) == uploads[s] # NoRow /\ uploads[s].url

\* CompleteUpload: the row and its status.
CompleteUpload(c, s) ==
  /\ call[c].pc = "new"
  /\ call' = [call EXCEPT ![c] =
       [stream |-> s,
        pc |-> IF ~ Scans(s) THEN "not found"
               ELSE IF uploads[s].status = "uploading" THEN "stat" ELSE "failed"]]
  /\ UNCHANGED <<uploads, presigned, objects>>

\* CompleteUpload: ObjectExists and the size.
CheckObject(c) ==
  LET s == call[c].stream
  IN /\ call[c].pc = "stat"
     /\ At(c, IF objects[s] = uploads[s].total THEN "mark" ELSE "failed")
     /\ UNCHANGED <<uploads, presigned, objects>>

\* CompleteUpload: MarkCompleted, whatever the status is by now.
MarkCompleted(c) ==
  /\ call[c].pc = "mark"
  /\ uploads' = [uploads EXCEPT ![call[c].stream] =
                   [@ EXCEPT !.status = "completed", !.url = TRUE]]
  /\ At(c, "done")
  /\ UNCHANGED <<presigned, objects>>

\* GetDownloadURL returns a URL.
Downloadable(s) == Scans(s) /\ uploads[s].status = "completed"

MediaNext ==
  \/ \E s \in Streams :
       \/ \E n \in Sizes : InitUpload(s, n) \/ Put(s, n)
       \/ \E c \in Completions : CompleteUpload(c, s)
  \/ \E c \in Completions : CheckObject(c) \/ MarkCompleted(c)

MediaSpec == MediaInit /\ [][MediaNext]_media

\* "media upload not found" is said of streams that were never begun.
NotFoundMeansMissing ==
  \A c \in Completions : call[c].pc = "not found" => uploads[call[c].stream] = NoRow
=============================================================================
