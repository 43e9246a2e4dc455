---------------------------- MODULE ChannelExport ----------------------------
(***************************************************************************)
(* The export of one channel: what a worker of ChannelMonitor does between  *)
(* its start and the status it ends with.  Messages come one by one; a      *)
(* medium is skipped, fetched, or removed again.  Telegram states a size    *)
(* beforehand (0: it does not), and the file has one.  The disk may be full *)
(* at every look at it, and every call to Telegram may fail.                *)
(***************************************************************************)
EXTENDS Naturals

CONSTANTS
    Limit,      \* messages of one job
    MaxFile,    \* max_file_mb
    MaxVideo,   \* max_video_mb of the request; 0: videos are off
    MaxJob,     \* max_job_gb
    MaxSize     \* bound: sizes of media

ASSUME LimitsAssumption ==
    {Limit, MaxJob} \subseteq Nat \ {0} /\ {MaxFile, MaxVideo, MaxSize} \subseteq Nat

VARIABLES
    exportAt,       \* where the export is
    results,        \* messages read
    medium,         \* the medium of the current message
    mediaBytes,     \* media_bytes: of the files the report points at
    mediaOff,       \* media_off
    diskLow,        \* stopped = "disk"
    ending,         \* the status; stopped: an error, but what was read is saved
    understated     \* history: bytes by which kept files were larger than stated

counts == <<mediaBytes, understated>>
exportVars == <<exportAt, results, medium, mediaBytes, mediaOff, diskLow, ending, understated>>

Sizes == 0..MaxSize
Caps == {MaxFile} \cup ({MaxVideo} \ {0})
NoMedium == [cap |-> 0, stated |-> 0, size |-> 0]

ExportTypeOK ==
    /\ exportAt \in {"connects", "reads", "fetches", "downloads", "weighs", "notes", "saves",
                     "ended"}
    /\ results \in 0..Limit
    /\ medium \in [cap : Caps \cup {0}, stated : Sizes, size : Sizes]
    /\ mediaBytes \in Nat /\ understated \in Nat
    /\ mediaOff \in BOOLEAN /\ diskLow \in BOOLEAN
    /\ ending \in {"none", "completed", "stopped", "failed"}

ExportInit ==
    /\ exportAt = "connects" /\ results = 0 /\ medium = NoMedium
    /\ mediaBytes = 0 /\ understated = 0
    /\ mediaOff = FALSE /\ diskLow = FALSE /\ ending = "none"

GoesTo(place) == exportAt' = place

\* The job ends as an error.
Fails ==
    /\ GoesTo("ended") /\ ending' = "failed"
    /\ UNCHANGED <<counts, results, medium, mediaOff, diskLow>>

\* No session file, no connection, not signed in, not a public channel.
Connect ==
    /\ exportAt = "connects"
    /\ \/ Fails
       \/ GoesTo("reads") /\ UNCHANGED <<counts, results, medium, mediaOff, diskLow, ending>>

\* The messages are at an end, the limit or the date is reached, or Telegram fails:
\* then what was read is not saved.
NoMore ==
    /\ exportAt = "reads"
    /\ \/ Fails
       \/ GoesTo("saves") /\ UNCHANGED <<counts, results, medium, mediaOff, diskLow, ending>>

\* The look at the disk before a message.
DiskIsLow ==
    /\ exportAt = "reads" /\ results < Limit
    /\ GoesTo("saves") /\ diskLow' = TRUE
    /\ UNCHANGED <<counts, results, medium, mediaOff, ending>>

\* A message without media, one with media that are never fetched, a video while videos
\* are off; or a photo, an image or a video.
ReadMessage ==
    /\ exportAt = "reads" /\ results < Limit
    /\ \/ GoesTo("notes") /\ UNCHANGED medium
       \/ /\ GoesTo("fetches")
          /\ \E cap \in Caps, stated \in Sizes :
                medium' = [cap |-> cap, stated |-> stated, size |-> 0]
    /\ UNCHANGED <<counts, results, mediaOff, diskLow, ending>>

BugFull(i) == mediaBytes >= MaxJob
Full(i) == mediaBytes >= MaxJob \/ mediaBytes + i.stated > MaxJob

\* fetch: the limits come first; a full job has no more media.
Skip ==
    /\ exportAt = "fetches"
    /\ mediaOff \/ medium.stated > medium.cap \/ Full(medium)
    /\ mediaOff' = (mediaOff \/ (medium.stated <= medium.cap /\ Full(medium)))
    /\ GoesTo("notes") /\ medium' = NoMedium
    /\ UNCHANGED <<counts, results, diskLow, ending>>

Fetch ==
    /\ exportAt = "fetches"
    /\ ~mediaOff /\ medium.stated <= medium.cap /\ ~Full(medium)
    /\ \/ GoesTo("downloads") /\ UNCHANGED <<medium, diskLow>>
       \/ GoesTo("notes") /\ medium' = NoMedium /\ diskLow' = TRUE
    /\ UNCHANGED <<counts, results, mediaOff, ending>>

\* _save_media: the file is on disk, or nothing was saved, or the download failed.  What a
\* failed download leaves on disk is counted neither here nor in the code.
Download ==
    /\ exportAt = "downloads"
    /\ \/ GoesTo("weighs") /\ \E size \in Sizes : medium' = [medium EXCEPT !.size = size]
       \/ GoesTo("notes") /\ medium' = NoMedium
    /\ UNCHANGED <<counts, results, mediaOff, diskLow, ending>>

TooLarge(i) == i.size > i.cap

\* A file larger than its limit is removed again.
Remove ==
    /\ exportAt = "weighs" /\ TooLarge(medium)
    /\ GoesTo("notes") /\ medium' = NoMedium
    /\ UNCHANGED <<counts, results, mediaOff, diskLow, ending>>

Keep ==
    /\ exportAt = "weighs" /\ ~TooLarge(medium)
    /\ mediaBytes' = mediaBytes + medium.size
    /\ understated' = understated +
           (IF medium.size > medium.stated THEN medium.size - medium.stated ELSE 0)
    /\ GoesTo("notes") /\ medium' = NoMedium
    /\ UNCHANGED <<results, mediaOff, diskLow, ending>>

\* The message joins the results.
Note ==
    /\ exportAt = "notes"
    /\ results' = results + 1
    /\ GoesTo(IF diskLow THEN "saves" ELSE "reads")
    /\ UNCHANGED <<counts, medium, mediaOff, diskLow, ending>>

\* messages.json and messages.html are written; a run cut short by the disk is an error.
Save ==
    /\ exportAt = "saves"
    /\ \/ Fails
       \/ /\ GoesTo("ended")
          /\ ending' = IF diskLow THEN "stopped" ELSE "completed"
          /\ UNCHANGED <<counts, results, medium, mediaOff, diskLow>>

ExportNext ==
    \/ Connect \/ NoMore \/ DiskIsLow \/ ReadMessage \/ Skip \/ Fetch \/ Download
    \/ Remove \/ Keep \/ Note \/ Save

ExportSpec == ExportInit /\ [][ExportNext]_exportVars
-----------------------------------------------------------------------------
\* "Media of one job. Past it the job goes on without media": the media of a job stay
\* within its limit but for what Telegram understated, and that is never a whole file of
\* the largest size allowed, whatever order sizes, failures and removals come in.
MediaWithinLimit ==
    /\ mediaBytes <= MaxJob + understated
    /\ mediaBytes < MaxJob + (IF MaxFile > MaxVideo THEN MaxFile ELSE MaxVideo)
=============================================================================
