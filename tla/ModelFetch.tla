------------------------------ MODULE ModelFetch ------------------------------
(***************************************************************************)
(* One app's folder of models (files/models), the threads that download    *)
(* into it (share/Download.kt, and the download() of Models, SummaryModel  *)
(* and TranslateModel around it), and the readers that open what is there  *)
(* (share/ModelFiles.kt, share/ModelProvider.kt).                          *)
(*                                                                         *)
(* Files are modelled down to the inode, because the code relies on it: a  *)
(* rename moves a name and not the bytes, an open descriptor outlives the  *)
(* name it was opened by, and two writers of one name may or may not be    *)
(* writing the same bytes.  A byte is <<file, version, position>>; one     *)
(* unit stands for what one read of the connection returns.                *)
(*                                                                         *)
(* The process may be killed at any step.  What was written stays; what    *)
(* was running, and the descriptors it had, are gone.                      *)
(***************************************************************************)
EXTENDS Integers, Sequences, FiniteSets

CONSTANTS
    Files,          \* the names of the models
    Flows,          \* the progress figures: one MutableStateFlow per object
    FlowOf,         \* FlowOf[file]: Models.downloading serves two files
    Fetchers,       \* threads of this app that call download()
    FileOf,         \* FileOf[fetcher]: the file it asks for
    Readers,        \* whoever opens a model
    Siblings,       \* those of Readers that are other apps
    Versions,       \* what the server may publish under one URL
    Size,           \* length of a model
    MinBytes,       \* below this length a file is not a model
    Inodes,         \* enough for every name and every descriptor
    NoInode, NoFile,
    MayOmitLength,  \* whether the server may answer without a Content-Length
    MayIgnoreRange, \* whether it may answer a Range request with all of it
    MayRefuse       \* whether the folder may refuse to rename or to delete

ASSUME FetchAssumption ==
    /\ FlowOf \in [Files -> Flows]
    /\ FileOf \in [Fetchers -> Files]
    /\ Siblings \subseteq Readers
    /\ Size \in Nat \ {0}
    /\ MinBytes \in 1..Size
    /\ NoInode \notin Inodes
    /\ NoFile \notin Files
    /\ MayOmitLength \in BOOLEAN
    /\ MayIgnoreRange \in BOOLEAN
    /\ MayRefuse \in BOOLEAN

VARIABLES
    part,           \* part[file]: the inode named <file>.part
    target,         \* target[file]: the inode named <file>
    data,           \* data[inode]: its bytes
    published,      \* published[file]: the version the server gives out
    pc,             \* where each fetcher is
    have,           \* bytes of .part when the request was made, 0 if refused
    total,          \* length announced for the whole file, -1 unknown
    done,           \* bytes of it so far, those already there included
    resuming,       \* the answer was 206
    out,            \* the inode the fetcher's FileOutputStream writes to
    sent,           \* the version the server is sending
    downloading,    \* downloading[flow]: 0..100, -1 when nothing runs
    path,           \* path[reader]: the file it asked for
    handle          \* handle[reader]: the inode it has open

names    == <<part, target>>
request  == <<have, total, done, resuming, sent>>
reading  == <<path, handle>>
vars     == <<part, target, data, published, pc, have, total, done, resuming,
              out, sent, downloading, path, handle>>

Byte == Files \X Versions \X (1..Size)
Unwritten == <<>>                   \* what a hole in a file reads as
Prefix(f, v, n) == [i \in 1..n |-> <<f, v, i>>]
Whole(f, v) == Prefix(f, v, Size)
Wholes(f) == {Whole(f, v) : v \in Versions}

Length(inode) == IF inode = NoInode THEN 0 ELSE Len(data[inode])

\* A write past the end leaves a hole, as a stream opened without O_APPEND
\* does when somebody truncated the file under it.
WriteAt(bytes, pos, b) ==
    [i \in 1..(IF pos >= Len(bytes) THEN pos + 1 ELSE Len(bytes)) |->
        IF i = pos + 1 THEN b
        ELSE IF i <= Len(bytes) THEN bytes[i] ELSE Unwritten]

\* An inode nobody names and nobody has open.
Free(i) ==
    /\ \A f \in Files : part[f] # i /\ target[f] # i
    /\ \A t \in Fetchers : out[t] # i
    /\ \A r \in Readers : handle[r] # i

\* isDownloaded: the siblings' answers are the business of ModelHolder.
Readable(f) == target[f] # NoInode /\ Length(target[f]) >= MinBytes

Percent(d, t) == IF t > 0 THEN (d * 100) \div t ELSE 0

\* Variant: `have` kept although the server sends everything again.
Kept_Always(partial, onDisk) == onDisk

\* What of .part the answer lets us keep: nothing, unless it is a 206.
Kept(partial, onDisk) == IF partial THEN onDisk ELSE 0

\* Variant: Content-Length taken for the length of the file.
Announced_Rest(contentLength, from) ==
    IF contentLength > 0 THEN contentLength ELSE -1

\* Content-Length counts what is being sent, total counts the whole file.
Announced(contentLength, from) ==
    IF contentLength > 0 THEN contentLength + from ELSE -1

\* Variant: FileOutputStream(tmp), which always starts over.
Opened_Anew(bytes, append) == <<>>

\* What is left of a file by FileOutputStream(file, append).
Opened(bytes, append) == IF append THEN bytes ELSE <<>>

\* Variant: the end of the stream is believed to be the end of the file.
CutShort_Never(t) == FALSE

\* Whether the body ended before the length that was announced.
CutShort(t) == total[t] > 0 /\ done[t] # total[t]

Init ==
    /\ part = [f \in Files |-> NoInode]
    /\ target = [f \in Files |-> NoInode]
    /\ data = [i \in Inodes |-> <<>>]
    /\ published \in [Files -> Versions]
    /\ pc = [t \in Fetchers |-> "idle"]
    /\ have = [t \in Fetchers |-> 0]
    /\ total = [t \in Fetchers |-> -1]
    /\ done = [t \in Fetchers |-> 0]
    /\ resuming = [t \in Fetchers |-> FALSE]
    /\ out = [t \in Fetchers |-> NoInode]
    /\ sent = [t \in Fetchers |-> published[FileOf[t]]]
    /\ downloading = [w \in Flows |-> -1]
    /\ path = [r \in Readers |-> NoFile]
    /\ handle = [r \in Readers |-> NoInode]

-------------------------------------------------------------------------------
(* The fetch, step by step.                                                  *)

\* Variant: the figure is put back after the fetch, not in a finally.
Hide_AfterSuccess(t) ==
    IF pc[t] = "complete"
    THEN downloading' = [downloading EXCEPT ![FlowOf[FileOf[t]]] = -1]
    ELSE UNCHANGED downloading

\* The finally of download().
Hide(t) == downloading' = [downloading EXCEPT ![FlowOf[FileOf[t]]] = -1]

\* The way out of download(), however it is left: the streams are closed by
\* use {}, and the finally puts the figure back.
Leave(t) ==
    /\ pc' = [pc EXCEPT ![t] = "idle"]
    /\ out' = [out EXCEPT ![t] = NoInode]
    /\ have' = [have EXCEPT ![t] = 0]
    /\ total' = [total EXCEPT ![t] = -1]
    /\ done' = [done EXCEPT ![t] = 0]
    /\ resuming' = [resuming EXCEPT ![t] = FALSE]
    /\ sent' = [sent EXCEPT ![t] = published[FileOf[t]]]
    /\ Hide(t)
    /\ UNCHANGED <<published, reading>>

\* download(): nothing to do when the model is there already.
Begin(t) ==
    /\ pc[t] = "idle"
    /\ ~Readable(FileOf[t])
    /\ pc' = [pc EXCEPT ![t] = "started"]
    /\ downloading' = [downloading EXCEPT ![FlowOf[FileOf[t]]] = 0]
    /\ UNCHANGED <<names, data, published, request, out, reading>>

\* The length of .part, the request and its answer.  A server that honours
\* Range answers 206 when there is something left to send after `have`.
Accepted(t) ==
    LET f      == FileOf[t]
        onDisk == Length(part[f])
    IN
    /\ pc[t] = "started"
    /\ \E partial \in BOOLEAN, known \in BOOLEAN :
        /\ partial => onDisk > 0 /\ onDisk < Size
        /\ ~partial => onDisk = 0 \/ MayIgnoreRange
        /\ ~known => MayOmitLength
        /\ LET from          == Kept(partial, onDisk)
               contentLength == IF ~known THEN -1
                                ELSE IF partial THEN Size - onDisk ELSE Size
           IN
           /\ resuming' = [resuming EXCEPT ![t] = partial]
           /\ have' = [have EXCEPT ![t] = from]
           /\ done' = [done EXCEPT ![t] = from]
           /\ total' = [total EXCEPT ![t] = Announced(contentLength, from)]
    /\ sent' = [sent EXCEPT ![t] = published[f]]
    /\ pc' = [pc EXCEPT ![t] = "answered"]
    /\ UNCHANGED <<names, data, published, out, downloading, reading>>

\* No connection, or a status of 400 and above: an exception.  A Range that
\* starts at the end of the file is such a status, 416.
Refused(t) ==
    /\ pc[t] = "started"
    /\ Leave(t)
    /\ UNCHANGED <<names, data>>

\* FileOutputStream(tmp, resuming): creates the file, or appends, or truncates.
OpenPart(t) ==
    LET f == FileOf[t]
    IN
    /\ pc[t] = "answered"
    /\ IF part[f] = NoInode
       THEN \E i \in Inodes :
                /\ Free(i)
                /\ part' = [part EXCEPT ![f] = i]
                /\ out' = [out EXCEPT ![t] = i]
                /\ data' = [data EXCEPT ![i] = <<>>]
       ELSE /\ out' = [out EXCEPT ![t] = part[f]]
            /\ data' = [data EXCEPT ![part[f]] = Opened(@, resuming[t])]
            /\ UNCHANGED part
    /\ pc' = [pc EXCEPT ![t] = "copying"]
    /\ UNCHANGED <<target, published, request, downloading, reading>>

\* One turn of the loop: read, write, count, show.  A stream opened to append
\* writes at the end whatever it is; the other writes where it has got to,
\* which is `done`.  So is the place in the server's file: have, then on.
Copy(t) ==
    LET f   == FileOf[t]
        i   == out[t]
        pos == IF resuming[t] THEN Len(data[i]) ELSE done[t]
        last == IF done[t] = have[t] THEN -1 ELSE Percent(done[t], total[t])
        pct == Percent(done[t] + 1, total[t])
    IN
    /\ pc[t] = "copying"
    /\ done[t] < Size
    /\ data' = [data EXCEPT ![i] = WriteAt(@, pos, <<f, sent[t], done[t] + 1>>)]
    /\ done' = [done EXCEPT ![t] = @ + 1]
    /\ downloading' = IF pct = last THEN downloading
                      ELSE [downloading EXCEPT ![FlowOf[f]] = pct]
    /\ UNCHANGED <<names, published, pc, have, total, resuming, out, sent, reading>>

\* The loop starts its turn and finds the fetch cancelled: a plain return.
Cancelled(t) ==
    /\ pc[t] = "copying"
    /\ Leave(t)
    /\ UNCHANGED <<names, data>>

\* Variant: an attempt that failed tidies up after itself.
Broken_Tidy(t) ==
    /\ pc[t] \in {"answered", "copying"}
    /\ Leave(t)
    /\ part' = [part EXCEPT ![FileOf[t]] = NoInode]
    /\ UNCHANGED <<target, data>>

\* The file cannot be opened or written, or the connection breaks or times
\* out: an exception through both streams.
Broken(t) ==
    /\ pc[t] \in {"answered", "copying"}
    /\ Leave(t)
    /\ UNCHANGED <<names, data>>

\* read() returns -1: the body is finished, or was cut short without an
\* error.  The length, when it was announced, tells the two apart.
StreamEnds(t) ==
    /\ pc[t] = "copying"
    /\ IF CutShort(t)
       THEN Leave(t)
       ELSE /\ pc' = [pc EXCEPT ![t] = "complete"]
            /\ out' = [out EXCEPT ![t] = NoInode]
            /\ UNCHANGED <<published, request, downloading, reading>>
    /\ UNCHANGED <<names, data>>

MovePart(f) ==
    /\ part[f] # NoInode
    /\ target' = [target EXCEPT ![f] = part[f]]
    /\ part' = [part EXCEPT ![f] = NoInode]

\* renameTo fails when .part is no longer there, and may fail though it is.
MayFailToMove(f) == part[f] = NoInode \/ MayRefuse

\* tmp.renameTo(target).
Rename(t) ==
    /\ pc[t] = "complete"
    /\ \/ MovePart(FileOf[t]) /\ Leave(t)
       \/ /\ MayFailToMove(FileOf[t])
          /\ pc' = [pc EXCEPT ![t] = "replacing"]
          /\ UNCHANGED <<names, published, request, out, downloading, reading>>
    /\ UNCHANGED data

\* After a rename that failed: target.delete(), its result ignored ...
DeleteTarget(t) ==
    /\ pc[t] = "replacing"
    /\ \/ target' = [target EXCEPT ![FileOf[t]] = NoInode]
       \/ MayRefuse /\ UNCHANGED target
    /\ pc' = [pc EXCEPT ![t] = "again"]
    /\ UNCHANGED <<part, data, published, request, out, downloading, reading>>

\* Variant: the rename is tried until it works.
RenameAgain_Insisting(t) ==
    /\ pc[t] = "again"
    /\ MovePart(FileOf[t])
    /\ Leave(t)
    /\ UNCHANGED data

\* ... and tmp.renameTo(target) once more, its result ignored as well: the fetch
\* may return as if all were well, .part still there and the target gone.
RenameAgain(t) ==
    /\ pc[t] = "again"
    /\ MovePart(FileOf[t]) \/ (MayFailToMove(FileOf[t]) /\ UNCHANGED names)
    /\ Leave(t)
    /\ UNCHANGED data

FetchStep(t) ==
    \/ Accepted(t) \/ Refused(t)
    \/ OpenPart(t) \/ Copy(t) \/ Cancelled(t) \/ Broken(t) \/ StreamEnds(t)
    \/ Rename(t) \/ DeleteTarget(t) \/ RenameAgain(t)

-------------------------------------------------------------------------------
(* The readers, and what happens around the fetch.                           *)

\* ModelFiles.open on our own copy: only the path is handed over.
OpenOwn(r, f) ==
    /\ r \notin Siblings
    /\ path[r] = NoFile
    /\ Readable(f)
    /\ path' = [path EXCEPT ![r] = f]
    /\ UNCHANGED <<names, data, published, pc, request, out, downloading, handle>>

\* initContext opens that path, later, and does not look at the length; when
\* nothing is there any more the session is not loaded.
Load(r) ==
    /\ r \notin Siblings
    /\ path[r] # NoFile
    /\ handle[r] = NoInode
    /\ handle' = [handle EXCEPT ![r] = target[path[r]]]
    /\ path' = IF target[path[r]] # NoInode THEN path
               ELSE [path EXCEPT ![r] = NoFile]
    /\ UNCHANGED <<names, data, published, pc, request, out, downloading>>

\* A sibling asks our ModelProvider: a descriptor, kept if it is long enough.
OpenShared(r, f) ==
    /\ r \in Siblings
    /\ path[r] = NoFile
    /\ Readable(f)
    /\ path' = [path EXCEPT ![r] = f]
    /\ handle' = [handle EXCEPT ![r] = target[f]]
    /\ UNCHANGED <<names, data, published, pc, request, out, downloading>>

Close(r) ==
    /\ path[r] # NoFile
    /\ path' = [path EXCEPT ![r] = NoFile]
    /\ handle' = [handle EXCEPT ![r] = NoInode]
    /\ UNCHANGED <<names, data, published, pc, request, out, downloading>>

\* Variant: the file is emptied, so that the space comes back at once.
Remove_Emptying(f) ==
    /\ target[f] # NoInode
    /\ data' = [data EXCEPT ![target[f]] = <<>>]
    /\ target' = [target EXCEPT ![f] = NoInode]
    /\ UNCHANGED <<part, published, pc, request, out, downloading, reading>>

\* remove(): the user wants the space back.
Remove(f) ==
    /\ target[f] # NoInode
    /\ target' = [target EXCEPT ![f] = NoInode]
    /\ UNCHANGED <<part, data, published, pc, request, out, downloading, reading>>

\* The process is killed.  Our own readers go with it, the siblings stay.
Crash ==
    /\ pc' = [t \in Fetchers |-> "idle"]
    /\ out' = [t \in Fetchers |-> NoInode]
    /\ have' = [t \in Fetchers |-> 0]
    /\ total' = [t \in Fetchers |-> -1]
    /\ done' = [t \in Fetchers |-> 0]
    /\ resuming' = [t \in Fetchers |-> FALSE]
    /\ sent' = [t \in Fetchers |-> published[FileOf[t]]]
    /\ downloading' = [w \in Flows |-> -1]
    /\ path' = [r \in Readers |-> IF r \in Siblings THEN path[r] ELSE NoFile]
    /\ handle' = [r \in Readers |-> IF r \in Siblings THEN handle[r] ELSE NoInode]
    /\ UNCHANGED <<names, data, published>>

\* The repository on the server moves to another revision of the file.
Republish(f) ==
    /\ \E v \in Versions \ {published[f]} : published' = [published EXCEPT ![f] = v]
    /\ UNCHANGED <<names, data, pc, request, out, downloading, reading>>

Next ==
    \/ \E t \in Fetchers : Begin(t) \/ FetchStep(t)
    \/ \E r \in Readers, f \in Files : OpenOwn(r, f) \/ OpenShared(r, f)
    \/ \E r \in Readers : Load(r) \/ Close(r)
    \/ \E f \in Files : Remove(f) \/ Republish(f)
    \/ Crash

Spec == Init /\ [][Next]_vars

-------------------------------------------------------------------------------
(* Properties.                                                               *)

\* What the environment is allowed when the promises below are made: no two
\* threads fetch one file, and the server has one version of it and says how
\* long it is.
OneFetcherEach == \A t, u \in Fetchers : FileOf[t] = FileOf[u] => t = u
OneVersion == \A v, w \in Versions : v = w
WellUsed == OneFetcherEach /\ OneVersion /\ ~MayOmitLength

InodeOrNone == Inodes \cup {NoInode}

TypeOK ==
    /\ part \in [Files -> InodeOrNone]
    /\ target \in [Files -> InodeOrNone]
    /\ data \in [Inodes -> Seq(Byte \cup {Unwritten})]
    /\ published \in [Files -> Versions]
    /\ pc \in [Fetchers -> {"idle", "started", "answered", "copying",
                            "complete", "replacing", "again"}]
    /\ have \in [Fetchers -> 0..Size]
    /\ total \in [Fetchers -> {-1, Size}]
    /\ done \in [Fetchers -> 0..Size]
    /\ resuming \in [Fetchers -> BOOLEAN]
    /\ out \in [Fetchers -> InodeOrNone]
    /\ sent \in [Fetchers -> Versions]
    /\ downloading \in [Flows -> -1..100]
    /\ path \in [Readers -> Files \cup {NoFile}]
    /\ handle \in [Readers -> InodeOrNone]

\* Download's promise: "Only a complete file is renamed into place."  However
\* a fetch is cut, cancelled, killed and resumed, what stands under the name
\* of a model is all of one version of it.
TargetIsWhole ==
    \A f \in Files : target[f] # NoInode => data[target[f]] \in Wholes(f)

\* What resuming rests on: .part holds the first bytes of the file and no
\* others, so the server's bytes from its length on are the ones missing.
PartIsPrefix ==
    \A f \in Files : part[f] # NoInode =>
        \E v \in Versions :
            data[part[f]] = Prefix(f, v, Length(part[f]))

\* .part holds the first n bytes of f.
Filled(f, n) == \E v \in Versions : data[part[f]] = Prefix(f, v, n)

\* No model, and no reader, is on the inode that is being filled.
PartApart ==
    \A f \in Files : part[f] # NoInode =>
        /\ \A g \in Files : part[f] # target[g] /\ (g # f => part[f] # part[g])
        /\ \A r \in Readers : part[f] # handle[r]

PartFilled ==
    \A f \in Files : part[f] # NoInode => \E n \in 0..Size : Filled(f, n)

\* What a fetch knows agrees with what is on disk.
FetchAgrees(t) ==
    LET f == FileOf[t]
    IN
    /\ out[t] = IF pc[t] = "copying" THEN part[f] ELSE NoInode
    /\ pc[t] \in {"answered", "copying"} => total[t] = Size
    /\ pc[t] = "answered" =>
          /\ done[t] = have[t]
          /\ resuming[t] => part[f] # NoInode /\ Filled(f, have[t])
          /\ ~resuming[t] => have[t] = 0
          /\ ~resuming[t] /\ ~MayIgnoreRange => part[f] = NoInode \/ Filled(f, 0)
    /\ pc[t] = "copying" => part[f] # NoInode /\ Filled(f, done[t])
    /\ pc[t] \in {"complete", "replacing", "again"} =>
          part[f] # NoInode /\ Filled(f, Size)

\* Why the promises hold, among them that a target is deleted to make room only
\* while the whole of what replaces it stands in .part: inductive, where the
\* environment is as WellUsed says.
FetchInv ==
    /\ PartApart
    /\ PartFilled
    /\ \A t \in Fetchers : FetchAgrees(t)
    /\ TargetIsWhole
    /\ \A r \in Readers : path[r] = NoFile => handle[r] = NoInode

\* The models as the rest of the app sees them.
Content(i) == IF i = NoInode THEN <<>> ELSE data[i]
Slot == INSTANCE ModelSlot WITH
            Complete <- [f \in Files |-> Wholes(f)],
            Absent   <- <<>>,
            model    <- [f \in Files |-> Content(target[f])],
            reading  <- [r \in Readers |-> Content(handle[r])]

\* The folder, the fetches and the readers implement the abstract store: a
\* model appears whole, and nobody's open model changes under them.
SlotSpec == Slot!Spec

\* "What an interrupted attempt already brought down is kept": with a server
\* that honours Range no step, the kill included, loses a byte of .part; it
\* stops being .part only by becoming the model.
KeptBytes ==
    [][\A f \in Files :
         \/ Length(part[f])' >= Length(part[f])
         \/ target'[f] = part[f]]_vars

\* downloading is "0-100 while a download runs, -1 otherwise".
DownloadingShown ==
    \A w \in Flows :
        downloading[w] # -1 <=> \E t \in Fetchers : FlowOf[FileOf[t]] = w /\ pc[t] # "idle"

\* The figure never claims more than the bytes already on disk, which a kill
\* leaves there and the next attempt starts from.
FigureOnDisk ==
    \A t \in Fetchers :
        LET f == FileOf[t]
        IN  pc[t] # "idle" => downloading[FlowOf[f]] * Size <= 100 * Length(part[f])

\* Whoever else fetches through the same figure, when they have all left, by
\* any way out, the screens stop showing a download.
QuietWhenIdle ==
    \A w \in Flows :
        (\A t \in Fetchers : FlowOf[FileOf[t]] = w => pc[t] = "idle") => downloading[w] = -1

\* The threads are scheduled, and connections time out: a fetch that has
\* begun goes on to its end.
Scheduled == \A t \in Fetchers : WF_vars(FetchStep(t))
ScheduledSpec == Spec /\ Scheduled

\* A fetch always ends, even when another one of the same file takes its
\* .part away.
FetchEnds == \A t \in Fetchers : pc[t] # "idle" ~> pc[t] = "idle"

\* Somebody keeps asking for the model, the server keeps answering, and an
\* attempt that got that far now and then gets a little further before it is
\* cut.  Nothing is said about how often it is cut, cancelled or killed.
Persistent ==
    \A t \in Fetchers :
        /\ WF_vars(Begin(t))
        /\ SF_vars(Accepted(t)) /\ SF_vars(OpenPart(t)) /\ SF_vars(Copy(t))
        /\ SF_vars(StreamEnds(t)) /\ SF_vars(Rename(t))
PersistentSpec == Spec /\ Persistent

\* A download that is cut every time still gets all of its bytes.
AllBytesArrive ==
    \A t \in Fetchers :
        LET f == FileOf[t]
        IN  []<>(Readable(f) \/ Length(part[f]) = Size)

\* "An interrupted download carries on where it stopped" - and ends with the
\* model in place.
EventuallyInstalled == \A t \in Fetchers : <>Readable(FileOf[t])
===============================================================================
