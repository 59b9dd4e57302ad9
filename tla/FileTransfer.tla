---------------------------- MODULE FileTransfer ----------------------------
(* Files of the web's users: file-upload-handler.ts writes the chunks of an   *)
(* upload to a stream and announces the file once the stream has ended,       *)
(* file-download-handler.ts streams one back. Only uploads to one name are    *)
(* modelled, whose free variants are numbered: the file itself is 0. A stream *)
(* opens its file some time after it was created.                             *)
EXTENDS Naturals, Sequences

CONSTANTS
  Uploads,        \* uploads, all of files with one name
  Downloads,      \* downloads
  Chunks,         \* chunks of a file
  MaxVariants     \* bound: numbers after the name

ASSUME FileTransferAssumption == Chunks \in Nat \ {0} /\ MaxVariants \in Nat

VARIABLES
  disk,         \* contents of the files: who wrote which chunk, <<>> if there is none
  exists,       \* numbers of the files there are
  upload,       \* each upload: its entry in activeUploads, its stream, its answer
  linked,       \* uploads whose stream has the file open that the name still stands for
  download,     \* each download
  shared,       \* history: files that two uploads wrote at once
  torn          \* history: uploads with a chunk that came after their completion

fileVars == <<disk, exists, upload, linked, download, shared, torn>>

Variants == 0..MaxVariants
NoUpload == [entry |-> "none", file |-> 0, overwrite |-> FALSE, sent |-> 0, got |-> <<>>,
             stream |-> "none", put |-> 0, told |-> "none"]
Original == << <<"original", 1>> >>

FileTypeOK ==
  /\ exists \subseteq Variants /\ DOMAIN disk = Variants
  /\ linked \subseteq Uploads /\ shared \subseteq Variants /\ torn \subseteq Uploads
  /\ \A u \in Uploads :
       /\ upload[u].entry \in {"none", "active", "ending", "over"} /\ upload[u].file \in Variants
       /\ upload[u].stream \in {"none", "opening", "open", "closed"}
       /\ upload[u].told \in {"none", "ready", "error"}
       /\ Len(upload[u].got) <= upload[u].sent /\ upload[u].put <= Len(upload[u].got)
  /\ download \in [Downloads -> [phase : {"none", "streaming", "complete", "cancelled"},
                                 chunks : 0..Chunks]]

FileInit ==
  /\ \E there \in BOOLEAN :
       /\ exists = IF there THEN {0} ELSE {}
       /\ disk = [f \in Variants |-> IF there /\ f = 0 THEN Original ELSE <<>>]
  /\ upload = [u \in Uploads |-> NoUpload]
  /\ download = [d \in Downloads |-> [phase |-> "none", chunks |-> 0]]
  /\ linked = {} /\ shared = {} /\ torn = {}

\* resolveFileTreeTarget and resolveAttachmentTarget: the first free name, or
\* the name itself if it is to be overwritten.
FinalNames(overwrite) ==
  IF overwrite THEN {0}
  ELSE {f \in Variants \ exists : \A g \in Variants \ exists : f <= g}

Writes(u, f) == upload[u].file = f /\ upload[u].entry \in {"active", "ending"}
Opens(u, f) == upload[u].file = f /\ upload[u].stream = "opening"

\* handleUploadStart: nothing but the directory is asked for the name, where a file
\* is that its stream has opened.
UploadStart(u, overwrite) ==
  /\ upload[u].entry = "none" /\ Variants \ exists # {}
  /\ \E f \in FinalNames(overwrite) :
       /\ upload' = [upload EXCEPT ![u] =
            [NoUpload EXCEPT !.entry = "active", !.file = f, !.overwrite = overwrite,
                             !.stream = "opening"]]
       /\ shared' = IF \E v \in Uploads : Writes(v, f) \/ Opens(v, f)
                     THEN shared \cup {f} ELSE shared
  /\ UNCHANGED <<disk, exists, linked, download, torn>>

\* The stream's file is opened, which empties it or makes it, even for a stream
\* that was destroyed meanwhile.
FileOpens(u) ==
  /\ upload[u].stream = "opening"
  /\ upload' = [upload EXCEPT ![u].stream = IF upload[u].entry = "over" THEN "closed" ELSE "open"]
  /\ disk' = [disk EXCEPT ![upload[u].file] = <<>>]
  /\ exists' = exists \cup {upload[u].file}
  /\ linked' = IF upload[u].entry = "over" THEN linked ELSE linked \cup {u}
  /\ UNCHANGED <<download, shared, torn>>

\* handleUploadChunk; the chunks come in order, and their numbers are not read.
UploadChunk(u) ==
  /\ upload[u].sent < Chunks /\ upload[u].entry = "active"
  /\ upload' = [upload EXCEPT ![u].sent = @ + 1, ![u].got = Append(@, upload[u].sent + 1)]
  /\ UNCHANGED <<disk, exists, linked, download, shared, torn>>

\* What is left of an upload whose stream was destroyed.
Dropped(r, told) ==
  [NoUpload EXCEPT !.entry = "over", !.file = r.file, !.told = told,
                   !.stream = IF r.stream = "opening" THEN "opening" ELSE "closed"]

\* A chunk for a stream that ends: the write fails and destroys the stream, whose
\* callback goes by the file it finds.
LateChunk(u) ==
  /\ upload[u].entry = "ending"
  /\ upload' = [upload EXCEPT ![u] =
       Dropped(upload[u], IF upload[u].file \in exists THEN "ready" ELSE "error")]
  /\ torn' = torn \cup {u} /\ linked' = linked \ {u}
  /\ UNCHANGED <<disk, exists, download, shared>>

\* The stream writes its next chunk at its own position, into the file it opened,
\* which may have lost its name.
StreamWrites(u) ==
  /\ upload[u].stream = "open" /\ upload[u].put < Len(upload[u].got)
  /\ LET at == upload[u].put + 1
         old == disk[upload[u].file]
         chunk == <<u, upload[u].got[at]>>
         new == [i \in 1..(IF at > Len(old) THEN at ELSE Len(old)) |->
                   IF i = at THEN chunk ELSE IF i <= Len(old) THEN old[i] ELSE <<>>]
     IN disk' = IF u \in linked THEN [disk EXCEPT ![upload[u].file] = new] ELSE disk
  /\ upload' = [upload EXCEPT ![u].put = @ + 1]
  /\ UNCHANGED <<exists, linked, download, shared, torn>>

\* handleUploadComplete, whenever the web says so: the chunks are not counted. The
\* answer waits for the end of the stream.
UploadComplete(u) ==
  /\ upload[u].entry = "active"
  /\ upload' = [upload EXCEPT ![u].entry = "ending"]
  /\ UNCHANGED <<disk, exists, linked, download, shared, torn>>

StreamDone(u) == upload[u].stream = "open" /\ upload[u].put = Len(upload[u].got)

\* The callback of end(): the file is looked for, and announced.
UploadEnds(u) ==
  /\ upload[u].entry = "ending" /\ StreamDone(u)
  /\ upload' = [upload EXCEPT
       ![u].entry = "over", ![u].stream = "closed",
       ![u].told = IF upload[u].file \in exists THEN "ready" ELSE "error"]
  /\ linked' = linked \ {u}
  /\ UNCHANGED <<disk, exists, download, shared, torn>>

\* cancelUpload: by the web, by cleanupStaleUploads after two idle minutes, or
\* by destroy() when the last web leaves. The file goes, whoever else has it. A
\* stream that was ending still calls back.
UploadCancel(u) ==
  /\ upload[u].entry \in {"active", "ending"}
  /\ upload' = [upload EXCEPT ![u] =
       Dropped(upload[u], IF upload[u].entry = "ending" THEN "error" ELSE "none")]
  /\ exists' = exists \ {upload[u].file}
  /\ disk' = [disk EXCEPT ![upload[u].file] = <<>>]
  /\ linked' = {v \in linked : upload[v].file # upload[u].file}
  /\ UNCHANGED <<download, shared, torn>>

\* handleDownloadStart; the chunks of the stream; its end.
DownloadStart(d) ==
  /\ download[d].phase = "none" /\ 0 \in exists
  /\ download' = [download EXCEPT ![d] =
       [phase |-> "streaming", chunks |-> 0]]
  /\ UNCHANGED <<disk, exists, upload, linked, shared, torn>>
DownloadChunk(d) ==
  /\ download[d].phase = "streaming" /\ download[d].chunks < Len(disk[0])
  /\ download' = [download EXCEPT ![d].chunks = @ + 1]
  /\ UNCHANGED <<disk, exists, upload, linked, shared, torn>>
DownloadEnds(d) ==
  /\ download[d].phase = "streaming" /\ download[d].chunks >= Len(disk[0])
  /\ download' = [download EXCEPT ![d] = [phase |-> "complete", chunks |-> 0]]
  /\ UNCHANGED <<disk, exists, upload, linked, shared, torn>>

\* handleDownloadCancel, and cleanupStale or destroy() like for uploads.
DownloadCancel(d) ==
  /\ download[d].phase = "streaming"
  /\ download' = [download EXCEPT ![d] = [phase |-> "cancelled", chunks |-> 0]]
  /\ UNCHANGED <<disk, exists, upload, linked, shared, torn>>

FileNext ==
  \/ \E u \in Uploads :
       \/ \E overwrite \in BOOLEAN : UploadStart(u, overwrite)
       \/ FileOpens(u) \/ UploadChunk(u) \/ LateChunk(u) \/ StreamWrites(u)
       \/ UploadComplete(u) \/ UploadEnds(u) \/ UploadCancel(u)
  \/ \E d \in Downloads :
       DownloadStart(d) \/ DownloadChunk(d) \/ DownloadEnds(d) \/ DownloadCancel(d)

\* Files open and are written, and an upload or download that ends, or that
\* nobody goes on with for two minutes, is taken away.
FileFairness ==
  /\ \A u \in Uploads :
       WF_fileVars(FileOpens(u)) /\ WF_fileVars(StreamWrites(u))
       /\ WF_fileVars(UploadEnds(u)) /\ WF_fileVars(UploadCancel(u))
  /\ \A d \in Downloads : WF_fileVars(DownloadCancel(d))

FileSpec == FileInit /\ [][FileNext]_fileVars /\ FileFairness
-----------------------------------------------------------------------------
\* What stands under a name that nobody writes, and that no two uploads wrote at once,
\* is the file that was there or all that an announced upload had received, whatever was
\* cancelled in which phase, unless a chunk came after its completion; what an upload
\* announced stands until another takes the name; and a file that was there is touched
\* only by an upload that may overwrite it.
Received(u) == [i \in 1..Len(upload[u].got) |-> <<u, upload[u].got[i]>>]
UploadsIntact ==
  /\ \A f \in Variants \ shared :
       disk[f] \notin {<<>>, Original} /\ (\A u \in Uploads : ~ Writes(u, f))
       => f \in exists /\ \E u \in Uploads :
            /\ upload[u].told = "ready" /\ upload[u].file = f
            /\ u \in torn \/ disk[f] = Received(u)
  /\ \A u \in Uploads \ torn :
       upload[u].told = "ready"
       /\ (\A v \in Uploads \ {u} : upload[v].entry # "none" => upload[v].file # upload[u].file)
       => upload[u].file \in exists /\ disk[upload[u].file] = Received(u)
  /\ disk[0] = Original => \A u \in Uploads : Writes(u, 0) => upload[u].overwrite

\* Every transfer comes to an end.
TransfersEnd ==
  /\ \A u \in Uploads : upload[u].entry \in {"active", "ending"} ~> upload[u].entry = "over"
  /\ \A d \in Downloads : download[d].phase = "streaming" ~> download[d].phase # "streaming"
=============================================================================
