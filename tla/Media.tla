------------------------------- MODULE Media -------------------------------
(***************************************************************************)
(* One upload, from the signed URL to its derivatives.  media-service      *)
(* (services/media-service/main.go) authorises the upload and queues a     *)
(* job; mediaproc (services/consumers/mediaproc/main.go) downloads the     *)
(* object, scans it (pkg/mediaproc/scan.go) and derives thumbnails and     *)
(* renditions.  The URL stays valid for a while, so the object can be      *)
(* uploaded again under a running job; jobs are delivered at least once,   *)
(* and two processors may hold the same one after a rebalance.             *)
(***************************************************************************)
EXTENDS FiniteSets, Naturals, Sequences

CONSTANTS Procs,            \* processor pods
          MaxPuts,          \* bound: uploads to the signed URL
          MaxJobs,          \* bound: jobs the completion call publishes
          MaxMediaRetries,  \* retries before the dead-letter queue (3 in the code)
          MaxMediaFaults    \* bound: failed calls, crashes and rebalances

ASSUME MediaAssumption ==
  MaxPuts \in Nat /\ MaxJobs \in Nat /\ MaxMediaRetries \in Nat /\ MaxMediaFaults \in Nat

VARIABLES upload,     \* what the pending record says was authorised
          file,       \* the version stored in the media bucket, 0 when there is none
          puts,       \* what each uploaded version is
          completer,  \* the completion call between reading the size and deleting
          jobs,       \* the records of media.processing
          proc,       \* the processors
          variants, promoted, \* versions the stored derivatives were made from
          announced,  \* media.processed: the derivatives each event names
          due,        \* versions stored when a job for them was published
          deletions,  \* [seen, gone]: the version looked at, the version deleted
          mediaFaults

mediaVars == <<upload, file, puts, completer, jobs, proc, variants, promoted, announced,
               due, deletions, mediaFaults>>
stores == <<variants, promoted, announced>>

UploadKinds == {"photo", "avatar", "video", "file"}
\* Scannable; past ClamAV's 256 MB; past the processor's 512 MB.
SizeClasses == {"small", "unscannable", "huge"}
\* What the bytes are: infected, undecodable, media that needs few or all
\* derivatives, or not of the length declared.
Contents == {"infected", "broken", "little", "large", "mismatched"}
Versions == 1..Len(puts)
Variants == {"_s", "_m", "_l", "_poster", "_720p"}

MediaTypeOK ==
  /\ upload.kind \in UploadKinds \union {"none"} /\ upload.size \in SizeClasses
  /\ Len(puts) <= MaxPuts /\ file \in Versions \union {0} /\ due \subseteq Versions
  /\ \A w \in Procs : /\ proc[w].tries \in 0..MaxMediaRetries /\ proc[w].job \in 0..MaxJobs
                      /\ proc[w].ver \in Versions \union {0}
  /\ Len(jobs) <= MaxJobs /\ \A j \in DOMAIN jobs : jobs[j] \in {"queued", "done", "dlq"}
  /\ variants \in [Variants -> Versions \union {0}] /\ promoted \in [Variants -> Versions \union {0}]
  /\ mediaFaults \in 0..MaxMediaFaults

ProcIdle == [pc |-> "idle", job |-> 0, tries |-> 0, ver |-> 0, left |-> <<>>, made |-> {}]

MediaInit ==
  /\ upload = [kind |-> "none", size |-> "small"]
  /\ file = 0 /\ puts = <<>> /\ completer = 0 /\ jobs = <<>>
  /\ proc = [w \in Procs |-> ProcIdle]
  /\ variants = [n \in Variants |-> 0] /\ promoted = [n \in Variants |-> 0]
  /\ announced = {} /\ due = {} /\ deletions = {} /\ mediaFaults = 0

MediaFault == mediaFaults < MaxMediaFaults /\ mediaFaults' = mediaFaults + 1
NoMediaFault == UNCHANGED mediaFaults

(***************************************************************************)
(* media-service.                                                          *)
(***************************************************************************)
\* handleInitUpload: a profile image is a small image.  A failed write leaves no URL
\* to upload to; a URL or a record that expires only ends the calls that need it.
handleInitUpload ==
  /\ upload.kind = "none"
  /\ \E kind \in UploadKinds, size \in SizeClasses :
       /\ kind = "avatar" => size = "small"
       /\ upload' = [kind |-> kind, size |-> size]
  /\ UNCHANGED <<file, puts, completer, jobs, proc, stores, due, deletions, mediaFaults>>

\* The client PUTs its bytes, as often as it likes while the URL is valid.  The
\* signature binds the length; the completion call checks it again, so the model
\* lets a length slip through.
Put ==
  /\ upload.kind # "none" /\ Len(puts) < MaxPuts
  /\ \E bytes \in Contents : puts' = Append(puts, bytes)
  /\ file' = Len(puts) + 1
  /\ UNCHANGED <<upload, completer, jobs, proc, stores, due, deletions, mediaFaults>>

\* handleCompleteUpload, by the owner, as often as it likes: what is stored is
\* measured against the record.  A publish that fails is not reported.
handleCompleteUpload ==
  /\ file # 0 /\ completer = 0
  /\ IF puts[file] = "mismatched"
     THEN completer' = file /\ NoMediaFault /\ UNCHANGED <<jobs, due>>
     ELSE /\ Len(jobs) < MaxJobs /\ UNCHANGED completer
          /\ \/ NoMediaFault /\ jobs' = Append(jobs, "queued") /\ due' = due \union {file}
             \/ MediaFault /\ UNCHANGED <<jobs, due>>
  /\ UNCHANGED <<upload, file, puts, proc, stores, deletions>>

\* Client.Delete; an object that is gone already is no error.
DeleteObject(seen) ==
  /\ file' = 0
  /\ deletions' = IF file = 0 THEN deletions
                  ELSE deletions \union {[seen |-> seen, gone |-> file]}

\* The mismatched upload is removed; whatever is stored by now goes.
RemoveMismatched ==
  /\ completer # 0 /\ completer' = 0
  /\ \/ NoMediaFault /\ DeleteObject(completer)
     \/ MediaFault /\ UNCHANGED <<file, deletions>>
  /\ UNCHANGED <<upload, puts, jobs, proc, stores, due>>

(***************************************************************************)
(* mediaproc.                                                              *)
(***************************************************************************)
ProcStep(w, r) == proc' = [proc EXCEPT ![w] = r]
ProcGo(w, pc) == ProcStep(w, [proc[w] EXCEPT !.pc = pc])

\* The handler returned: nil and ErrSkip alike commit the record.
Finish(w, outcome) ==
  /\ jobs' = [jobs EXCEPT ![proc[w].job] = outcome] /\ ProcStep(w, ProcIdle)

\* The handler failed: a retry starts over, the last one parks the record.
ProcError(w) ==
  IF proc[w].tries < MaxMediaRetries
  THEN /\ ProcStep(w, [ProcIdle EXCEPT !.pc = "attrs", !.job = proc[w].job,
                                       !.tries = proc[w].tries + 1])
       /\ UNCHANGED jobs
  ELSE Finish(w, "dlq")

\* A queued record is delivered; to a second processor only after a rebalance.
TakeJob(w) ==
  /\ proc[w].pc = "idle"
  /\ \E j \in DOMAIN jobs :
       /\ jobs[j] = "queued"
       /\ IF \E v \in Procs : proc[v].job = j THEN MediaFault ELSE NoMediaFault
       /\ ProcStep(w, [ProcIdle EXCEPT !.pc = "attrs", !.job = j])
  /\ UNCHANGED <<upload, file, puts, completer, jobs, stores, due, deletions>>

\* The pod dies; its record is delivered again.
ProcCrash(w) ==
  /\ proc[w].pc # "idle" /\ MediaFault /\ ProcStep(w, ProcIdle)
  /\ UNCHANGED <<upload, file, puts, completer, jobs, stores, due, deletions>>

\* Attrs: a job whose object is gone, or is too large to process, is dropped.
ReadAttrs(w) ==
  /\ proc[w].pc = "attrs"
  /\ \/ /\ NoMediaFault
        /\ IF file = 0 \/ upload.size = "huge" THEN Finish(w, "done")
                                               ELSE ProcGo(w, "download") /\ UNCHANGED jobs
     \/ MediaFault /\ ProcError(w)
  /\ UNCHANGED <<upload, file, puts, completer, stores, due, deletions>>

\* download copies the object to local disk; one deleted meanwhile is an error here.
download(w) ==
  /\ proc[w].pc = "download"
  /\ \/ /\ NoMediaFault /\ file # 0 /\ UNCHANGED jobs
        /\ ProcStep(w, [proc[w] EXCEPT !.pc = "scan", !.ver = file])
     \/ NoMediaFault /\ file = 0 /\ ProcError(w)
     \/ MediaFault /\ ProcError(w)
  /\ UNCHANGED <<upload, file, puts, completer, stores, due, deletions>>

\* ClamAV.Scan of the local copy: too large, unreachable or unreadable is an error.
Scan(w) ==
  /\ proc[w].pc = "scan"
  /\ \/ /\ NoMediaFault /\ upload.size = "small" /\ UNCHANGED jobs
        /\ ProcGo(w, IF puts[proc[w].ver] = "infected" THEN "delete" ELSE "derive")
     \/ NoMediaFault /\ upload.size # "small" /\ ProcError(w)
     \/ MediaFault /\ ProcError(w)
  /\ UNCHANGED <<upload, file, puts, completer, stores, due, deletions>>

\* The infected object is deleted, whatever is stored by now; the quarantine event
\* and the audit record that follow are best effort.
DeleteInfected(w) ==
  /\ proc[w].pc = "delete"
  /\ \/ NoMediaFault /\ DeleteObject(proc[w].ver) /\ Finish(w, "done")
     \/ MediaFault /\ ProcError(w) /\ UNCHANGED <<file, deletions>>
  /\ UNCHANGED <<upload, puts, completer, stores, due>>

\* The derivatives a decoded file gets, in order; none is an upscale.
Derivatives(kind, bytes) ==
  IF kind = "video" THEN IF bytes = "large" THEN <<"_poster", "_720p">> ELSE <<"_poster">>
  ELSE IF bytes = "large" THEN <<"_s", "_m", "_l">> ELSE <<"_s">>

\* The probe of processImage and processVideo: what does not decode is skipped, as
\* is a video where there is no ffmpeg; other files have no derivatives.  The probe
\* of an image reads its header alone, which a broken one may have.
Probe(w) ==
  /\ proc[w].pc = "derive" /\ NoMediaFault
  /\ \/ Finish(w, "done") /\ (upload.kind \in {"file", "video"} \/ puts[proc[w].ver] = "broken")
     \/ /\ upload.kind # "file" /\ UNCHANGED jobs
        /\ puts[proc[w].ver] = "broken" => upload.kind # "video"
        /\ ProcStep(w, [proc[w] EXCEPT !.pc = "upload",
                          !.left = Derivatives(upload.kind, puts[proc[w].ver])])
  /\ UNCHANGED <<upload, file, puts, completer, stores, due, deletions>>

\* Mutant of UploadVariant: made from the object as it is stored by now.
UploadVariantStored(w) ==
  /\ proc[w].pc = "upload" /\ proc[w].left # <<>> /\ NoMediaFault /\ file # 0
  /\ variants' = [variants EXCEPT ![Head(proc[w].left)] = file]
  /\ ProcStep(w, [proc[w] EXCEPT !.left = Tail(@), !.made = @ \union {Head(proc[w].left)}])
  /\ UNCHANGED <<upload, file, puts, completer, jobs, promoted, announced, due, deletions>>

\* One derivative is made from the local copy and written to the media bucket.  A
\* poster frame that cannot be extracted is left out; an image that cannot be
\* scaled is skipped.
UploadVariant(w) ==
  /\ proc[w].pc = "upload" /\ proc[w].left # <<>>
  /\ LET n == Head(proc[w].left)
         broken == puts[proc[w].ver] = "broken"
     IN \/ broken /\ NoMediaFault /\ Finish(w, "done") /\ UNCHANGED variants
        \/ /\ ~broken /\ NoMediaFault /\ UNCHANGED jobs
           /\ variants' = [variants EXCEPT ![n] = proc[w].ver]
           /\ ProcStep(w, [proc[w] EXCEPT !.left = Tail(@), !.made = @ \union {n}])
        \/ /\ n = "_poster" /\ MediaFault /\ UNCHANGED <<variants, jobs>>
           /\ ProcStep(w, [proc[w] EXCEPT !.left = Tail(@)])
        \/ MediaFault /\ ProcError(w) /\ UNCHANGED variants
  /\ UNCHANGED <<upload, file, puts, completer, promoted, announced, due, deletions>>

\* opsFor: avatars and chat photos are published (a public bucket is configured).
PublishesPublic == upload.kind = "avatar"

\* Client.Copy of the derivatives as they are stored now.
Copied(names) == [n \in Variants |-> IF n \in names THEN variants[n] ELSE promoted[n]]

\* Profile images are copied to the public bucket from the stored derivatives; a
\* copy that fails leaves those before it.
Promote(w) ==
  /\ proc[w].pc = "upload" /\ proc[w].left = <<>> /\ PublishesPublic
  /\ \/ /\ NoMediaFault /\ ProcGo(w, "announce") /\ UNCHANGED jobs
        /\ promoted' = Copied(proc[w].made)
     \/ /\ MediaFault /\ ProcError(w)
        /\ \E some \in SUBSET proc[w].made : promoted' = Copied(some)
  /\ UNCHANGED <<upload, file, puts, completer, variants, announced, due, deletions>>

\* publishComplete; its failure fails the job.
publishComplete(w) ==
  /\ \/ proc[w].pc = "announce"
     \/ proc[w].pc = "upload" /\ proc[w].left = <<>> /\ ~PublishesPublic
  /\ \/ NoMediaFault /\ announced' = announced \union {proc[w].made} /\ Finish(w, "done")
     \/ MediaFault /\ ProcError(w) /\ UNCHANGED announced
  /\ UNCHANGED <<upload, file, puts, completer, variants, promoted, due, deletions>>

(***************************************************************************)
(* The specification.                                                      *)
(***************************************************************************)
ProcRuns(w) ==
  \/ ReadAttrs(w) \/ download(w) \/ Scan(w) \/ DeleteInfected(w) \/ Probe(w)
  \/ UploadVariant(w) \/ Promote(w) \/ publishComplete(w)

ProcsRun == \E w \in Procs : ProcRuns(w)
JobsDelivered == \E w \in Procs : TakeJob(w)

MediaNext ==
  \/ handleInitUpload \/ Put \/ handleCompleteUpload \/ RemoveMismatched
  \/ ProcsRun \/ JobsDelivered
  \/ \E w \in Procs : ProcCrash(w)

MediaSpec == MediaInit /\ [][MediaNext]_mediaVars

(***************************************************************************)
(* Properties.                                                             *)
(***************************************************************************)
\* No derivative, private or public, is made from bytes the scanner has not
\* cleared, though the object may be uploaded again between the scan and the
\* derivatives, retried halfway, or processed by two pods at once ("Publishing a
\* thumbnail of a file that turns out to be malware ...", mediaproc's handle).
DerivedOnlyFromClean ==
  \A n \in Variants : \A v \in {variants[n], promoted[n]} \ {0} :
     puts[v] # "infected" /\ upload.size = "small"

\* What media.processed names is stored, and for a profile image it is in the
\* public bucket too, whichever of several attempts announced it.
AnnouncedAreStored ==
  \A made \in announced : \A n \in made :
     variants[n] # 0 /\ (upload.kind = "avatar" => promoted[n] # 0)

\* An object is deleted for what the deleter saw, an infected file or a length
\* that does not match; the only other way to lose one is to upload it between
\* that look and the delete.
DeletesExplained ==
  \A d \in deletions : \/ puts[d.gone] = "infected" \/ puts[d.gone] = "mismatched"
                       \/ d.gone > d.seen

\* An infected object for which a job was queued does not outlive its jobs: it is
\* gone when they are done, however often they were retried or delivered, unless
\* one is parked, the object is past the processing limit, or what is stored was
\* uploaded after the jobs were queued.
InfectedIsRemoved ==
  (file \in due /\ puts[file] = "infected" /\ upload.size # "huge") =>
     \E j \in DOMAIN jobs : jobs[j] \in {"queued", "dlq"}

\* What mediaproc derives, announces and deletes is what it should.
MediaTreatedRight ==
  /\ MediaTypeOK /\ DerivedOnlyFromClean /\ AnnouncedAreStored
  /\ DeletesExplained /\ InfectedIsRemoved
=============================================================================
