---------------------------- MODULE DownloadJob ----------------------------
(***************************************************************************)
(* The Library download of apps/daemon/src/library/download: one durable   *)
(* job document, the hidden staging directory its payload is assembled in, *)
(* the published model directory, the background task that takes a job     *)
(* from preflight to publication, and the REST commands that start,        *)
(* resume, pause and cancel it.                                            *)
(*                                                                         *)
(* A command stops the task by asking it to pause, waiting a second, and   *)
(* then aborting it.  An abort drops the task but not the blocking         *)
(* operation it was waiting for: that one is a straggler, which runs on    *)
(* beside whatever the next commands do.  The store's lock makes each      *)
(* operation on the document atomic to the others; a crash is not stopped  *)
(* by it.  Every operation of the task is such a closure, and nothing in   *)
(* the code bounds how late it lands or how many there are: Lingering and  *)
(* Overlap say which of that an instance allows.  Failures are the errors  *)
(* it allows, besides those of the network.                                *)
(***************************************************************************)
EXTENDS Naturals, Sequences, FiniteSetsExt, Functions

CONSTANTS
    Models,         \* the catalog
    Files,          \* the files of a model's manifest
    Size,           \* the segments of each file; a file is not empty
    Width,          \* MAXIMUM_CONCURRENT_PAYLOAD_TRANSFERS
    Lingering,      \* the blocking operations that may outlast an abort
    Overlap,        \* may one outlast an abort while an earlier one still runs?
    Failures,       \* the failures of the host that may happen
    MaxCommands,    \* pauses and cancellations
    MaxCrashes,
    MaxFaults,      \* failures, and corrupt bytes
    None

\* The blocking closures of a task, and the writes behind its assemblers.
Operations ==
    {"recover", "create", "replace", "open", "truncate", "intent",
     "pause", "fail", "preFail", "publish", "write"}

ASSUME DownloadAssumption ==
    /\ IsFiniteSet(Files)
    /\ Lingering \subseteq Operations /\ Overlap \in BOOLEAN
    /\ Failures \subseteq {"store", "removal", "report", "disconnect"}
    /\ Size \in [Files -> Nat \ {0}] /\ Width \in Nat \ {0}
    /\ MaxCommands \in Nat /\ MaxCrashes \in Nat /\ MaxFaults \in Nat

VARIABLES
    job,        \* the job document, or None
    staged,     \* the staged files: the segments on disk, TRUE when intact
    staging,    \* the models that have a staging directory
    published,  \* the models directory: "none", "intact", "broken" or "foreign"
    writes,     \* writes to staged files whose assembler was dropped
    lock,       \* the store operation under way between two of its steps
    task,       \* the background task, or None
    stragglers, \* operations whose task was aborted
    command,    \* the pause or cancellation under way
    clock,      \* the seconds that commands have waited
    held,       \* the last pause or cancellation acknowledged, if still in force
    spent       \* commands, crashes and faults so far

diskVars == <<job, staged, staging, published, writes>>
vars == <<diskVars, lock, task, stragglers, command, clock, held, spent>>

-----------------------------------------------------------------------------
(* The job document *)

Nothing == [f \in Files |-> 0]

JobStates ==
    {"CheckingDisk", "FetchingManifest", "Downloading", "Paused", "Verifying", "Publishing", "Failed"}

\* is_interrupted_by_restart
Interrupted == {"CheckingDisk", "FetchingManifest", "Downloading", "Verifying"}

\* DownloadJobState::can_replace_with
CanReplace ==
    {"CheckingDisk"} \X {"CheckingDisk", "FetchingManifest", "Failed"}
      \cup {"FetchingManifest"} \X {"FetchingManifest", "Paused", "Failed"}
      \cup {"Downloading"} \X {"Downloading", "Paused", "Verifying", "Failed"}
      \cup {"Paused"} \X {"Paused", "FetchingManifest", "Downloading", "Failed"}
      \cup {"Verifying"} \X {"Verifying", "Paused", "Publishing", "Failed"}
      \cup {"Failed"} \X {"Failed", "FetchingManifest", "Downloading"}

\* DownloadJob::validate: exact says the manifest is known.
Valid(j) ==
    /\ j.state \in {"CheckingDisk", "FetchingManifest"} => ~j.exact
    /\ j.state \in {"Downloading", "Verifying", "Publishing"} => j.exact
    /\ j.state \in {"Verifying", "Publishing"} => j.done = Size
    /\ ~j.exact => j.done = Nothing
    /\ (j.state = "Failed") = (j.error # "none")

Segments == UNION {{f} \X (1..Size[f]) : f \in Files}

\* bytes_completed: all segments have the same length.
BytesOf(done) == Cardinality({s \in Segments : s[2] <= done[s[1]]})

\* read_staged_file_lengths
Lengths(m) == [f \in Files |-> Len(staged[m][f])]

\* reconcile_file_progress, pausing interrupted states
Recovered(j, stamp) ==
    [j EXCEPT !.done = IF j.exact THEN Lengths(j.of) ELSE Nothing,
              !.stamp = stamp,
              !.state = IF @ \in Interrupted THEN "Paused" ELSE @]

\* Mutant: the failure code of a failed job survives its pause.
PausedWithError(j, stamp) ==
    [j EXCEPT !.done = IF j.exact THEN Lengths(j.of) ELSE Nothing,
              !.stamp = stamp, !.state = "Paused"]

\* reconcile_file_progress, then force_paused
Paused(j, stamp) ==
    [j EXCEPT !.done = IF j.exact THEN Lengths(j.of) ELSE Nothing,
              !.stamp = stamp, !.state = "Paused", !.error = "none"]

Failed(j, code) == [j EXCEPT !.state = "Failed", !.error = code]

\* Mutant: the age of the replacement is not looked at.
ReplaceableAtAnyAge(r) ==
    /\ job # None /\ job.of = r.of
    /\ BytesOf(r.done) >= BytesOf(job.done) \/ (job.state = "Verifying" /\ r.error = "checksum")
    /\ job.exact => r.exact
    /\ <<job.state, r.state>> \in CanReplace

\* Mutant: a document that is gone is written again.
ReplaceableIfGone(r) ==
    \/ job = None
    \/ /\ job.of = r.of
       /\ r.stamp >= job.stamp
       /\ BytesOf(r.done) >= BytesOf(job.done) \/ (job.state = "Verifying" /\ r.error = "checksum")
       /\ job.exact => r.exact
       /\ <<job.state, r.state>> \in CanReplace

\* replace_current: a publishing job is replaced by nothing.
Replaceable(r) ==
    /\ job # None /\ job.of = r.of
    /\ r.stamp >= job.stamp
    /\ BytesOf(r.done) >= BytesOf(job.done) \/ (job.state = "Verifying" /\ r.error = "checksum")
    /\ job.exact => r.exact
    /\ <<job.state, r.state>> \in CanReplace

\* load_recovering_interrupted_job, pause_current_job and cancel_current_job
\* leave a publishing job alone.
Settled == job # None /\ job.state # "Publishing"

-----------------------------------------------------------------------------
(* The files *)

\* Mutant: verification looks at the lengths of the files only.
IntactInLength(m, f) == Len(staged[m][f]) = Size[f]

\* A staged file has its length and its digest.
Intact(m, f) == staged[m][f] = [i \in 1..Size[f] |-> TRUE]

AllIntact(m) == \A f \in Files : staged[m][f] = [i \in 1..Size[f] |-> TRUE]

\* verify_download_job_at_directory
Verified(m) == m \in staging /\ \A f \in Files : Intact(m, f)

\* What a rename of the staging directory publishes.
Publication(m) == IF AllIntact(m) THEN "intact" ELSE "broken"

NoFiles == [f \in Files |-> <<>>]

\* drain_buffered_chunks: the prefix takes the parked segments that follow it.
Assembled(f, prefix, parked) ==
    LET ends == {n \in Len(prefix)..Size[f] : \A i \in (Len(prefix) + 1)..n : i \in DOMAIN parked}
    IN  [i \in 1..Max(ends) |-> IF i <= Len(prefix) THEN prefix[i] ELSE parked[i]]

\* A file after bytes were written to it from an offset on; what was skipped
\* reads as zeros.
Overlaid(file, from, bytes) ==
    IF Len(bytes) <= from THEN file
    ELSE [i \in 1..(IF Len(file) > Len(bytes) THEN Len(file) ELSE Len(bytes)) |->
             IF i \in (from + 1)..Len(bytes) THEN bytes[i] ELSE i <= Len(file) /\ file[i]]

-----------------------------------------------------------------------------

NewJob(m, stamp) ==
    [of |-> m, state |-> "CheckingDisk", stamp |-> stamp, exact |-> FALSE,
     done |-> Nothing, error |-> "none"]

\* A task at position p; its window is empty until it downloads.
NewTask(m, p) ==
    [at |-> p, of |-> m, stamp |-> clock, job |-> None, segment |-> None,
     queue |-> {}, flying |-> {}, selected |-> {},
     prefix |-> NoFiles, parked |-> NoFiles, written |-> Nothing,
     erred |-> FALSE, pausing |-> FALSE, detached |-> FALSE]

JobRecords ==
    [of : Models, state : JobStates, stamp : Nat, exact : BOOLEAN,
     done : [Files -> Nat], error : {"none", "checksum", "failed"}]

\* The segments an assembler holds out of order.
Parcels == UNION {[S -> BOOLEAN] : S \in SUBSET UNION {1..Size[f] : f \in Files}}

Positions ==
    {"recover", "create", "disk", "fetching", "manifest", "exact", "reconcile", "capacity",
     "load", "mark", "window", "select", "open", "record", "verifying", "verify", "truncate",
     "retry", "intent", "publish", "refresh", "pause", "fail", "failed", "preFail", "preFailed"}

TaskRecords ==
    [at : Positions, of : Models, stamp : Nat, job : JobRecords \cup {None},
     segment : Segments \cup {None}, queue : SUBSET Segments, flying : SUBSET Segments,
     selected : SUBSET Files, prefix : [Files -> Seq(BOOLEAN)], parked : [Files -> Parcels],
     written : [Files -> Nat], erred : BOOLEAN, pausing : BOOLEAN, detached : BOOLEAN]

StragglerRecords ==
    [at : Positions, op : Operations, of : Models, stamp : Nat, job : JobRecords \cup {None},
     segment : Segments \cup {None}]

\* moved: the file was published before its last write.
WriteRecords ==
    [of : Models, file : Files, from : Nat, bytes : Seq(BOOLEAN), moved : BOOLEAN]

ASSUME NoneAssumption == None \notin JobRecords \cup TaskRecords

\* The variables have their shapes.
Types ==
    /\ job # None => job \in JobRecords
    /\ staged \in [Models -> [Files -> Seq(BOOLEAN)]]
    /\ \A m \in Models, f \in Files : Len(staged[m][f]) <= Size[f]
    /\ staging \subseteq Models
    /\ published \in [Models -> {"none", "intact", "broken", "foreign"}]
    /\ lock \in {"free", "cancel", "publish"}
    /\ task # None =>
         /\ task \in TaskRecords
         /\ \A f \in Files : Len(task.prefix[f]) <= Size[f]
    /\ stragglers \subseteq StragglerRecords
    /\ writes \subseteq WriteRecords
    /\ \A w \in writes : Len(w.bytes) <= Size[w.file]
    /\ command \in {"none", "pause", "cancel"} \X {"idle", "waiting", "acting"}
    /\ clock \in Nat
    /\ held \in {"none", "paused", "cancelled"}
    /\ spent \in [commands : Nat, crashes : Nat, faults : Nat]

(***************************************************************************)
(* The type of every variable; the document is valid, as                   *)
(* DownloadJob::validate demands of everything that is saved.              *)
(***************************************************************************)
TypeOK == Types /\ (job # None => Valid(job))

Init ==
    /\ job = None
    /\ staged = [m \in Models |-> NoFiles]
    /\ staging = {}
    /\ published \in [Models -> {"none", "intact", "foreign"}]
    /\ lock = "free"
    /\ task = None /\ stragglers = {} /\ writes = {}
    /\ command = <<"none", "idle">>
    /\ clock = 0
    /\ held = "none"
    /\ spent = [commands |-> 0, crashes |-> 0, faults |-> 0]

Free == lock = "free"

FaultHappens ==
    /\ spent.faults < MaxFaults
    /\ spent' = [spent EXCEPT !.faults = @ + 1]

filesUnchanged == UNCHANGED <<staged, staging, published, writes>>
restUnchanged == UNCHANGED <<stragglers, command, clock, held>>

-----------------------------------------------------------------------------
(* Preflight: DownloadManifestPreflight::prepare *)

Go(p) == [task EXCEPT !.at = p]

\* load_recovering_interrupted_job, at the start of the preflight, once the
\* manifest is known, and at the start of the transfer.
TaskRecovers ==
    /\ task # None /\ task.at \in {"recover", "reconcile", "load"}
    /\ Free
    /\ IF Settled
       THEN LET j == Recovered(job, task.stamp)
                next == CASE task.at = "recover" /\ j.of # task.of -> "preFail"
                          [] task.at = "recover" /\ j.of = task.of /\ ~j.exact -> "disk"
                          [] OTHER -> "capacity"
            IN  /\ job' = j
                \* A transfer starts from an exact document that is at rest,
                \* and is of the model that document names.
                /\ task' = IF task.at = "load"
                           THEN IF j.exact THEN [Go("mark") EXCEPT !.job = j, !.of = j.of] ELSE None
                           ELSE [Go(next) EXCEPT !.job = j]
       ELSE /\ task' = CASE task.at = "recover" /\ job = None -> Go("create")
                         [] task.at # "load" -> Go("preFail")
                         [] OTHER -> None
            /\ UNCHANGED job
    /\ filesUnchanged /\ restUnchanged
    /\ UNCHANGED <<lock, spent>>

\* create: an existing document is not replaced.
TaskCreates ==
    /\ task # None /\ task.at = "create"
    /\ Free
    /\ LET j == NewJob(task.of, task.stamp)
       IN  IF job = None THEN job' = j /\ task' = [Go("disk") EXCEPT !.job = j]
           ELSE UNCHANGED job /\ task' = Go("preFail")
    /\ filesUnchanged /\ restUnchanged
    /\ UNCHANGED <<lock, spent>>

\* Disk capacity before and after the manifest, and the manifest itself.  The
\* transfer takes the time anew.
PreflightPasses ==
    /\ task # None /\ task.at \in {"disk", "manifest", "capacity"}
    /\ task' = CASE task.at = "disk" -> Go("fetching")
                 [] task.at = "manifest" -> Go("exact")
                 [] task.at = "capacity" -> [Go("load") EXCEPT !.stamp = clock]
    /\ UNCHANGED <<diskVars, lock, spent>> /\ restUnchanged

PreflightFails ==
    /\ task # None /\ task.at \in {"disk", "manifest", "capacity"}
    /\ FaultHappens
    /\ task' = Go("preFail")
    /\ UNCHANGED <<diskVars, lock>> /\ restUnchanged

-----------------------------------------------------------------------------
(* The documents a task writes with replace_current *)

ReplacePositions ==
    {"fetching", "exact", "mark", "select", "record", "verifying", "retry", "failed", "preFailed"}

\* mark_fetching_manifest, from_manifest, mark_downloading,
\* select_download_file, record_file_progress, mark_verifying,
\* mark_checksum_failed_for_retry and mark_failed.
Replacement(t) ==
    LET now == [t.job EXCEPT !.stamp = t.stamp, !.error = "none"]
        f == t.segment[1]
    IN  CASE t.at = "fetching" -> [now EXCEPT !.state = "FetchingManifest"]
          [] t.at = "exact" -> [now EXCEPT !.state = "Paused", !.exact = TRUE, !.done = Nothing]
          [] t.at = "mark" -> [now EXCEPT !.state = "Downloading"]
          [] t.at = "select" -> now
          [] t.at = "record" -> [now EXCEPT !.done[f] = Size[f]]
          [] t.at = "verifying" -> [now EXCEPT !.state = "Verifying"]
          [] t.at = "retry" -> Failed([now EXCEPT !.done[f] = 0], "checksum")
          [] OTHER -> t.job

Pending(j) == {s \in Segments : s[2] > j.done[s[1]]}

\* The two writes of the marked document at the start of resume are one here.
Replaced(t, r) ==
    CASE t.at = "fetching" -> [t EXCEPT !.at = "manifest", !.job = r]
      [] t.at = "exact" -> [t EXCEPT !.at = "reconcile", !.job = r]
      [] t.at = "mark" -> [t EXCEPT !.at = "window", !.job = r, !.queue = Pending(r)]
      [] t.at = "select" -> [t EXCEPT !.at = "open"]
      [] t.at = "record" -> [t EXCEPT !.at = "window", !.job = r, !.segment = None]
      [] t.at = "verifying" -> [t EXCEPT !.at = "verify", !.job = r]
      [] OTHER -> None

Rejected(t) ==
    CASE t.at \in {"fetching", "exact"} -> [t EXCEPT !.at = "preFail"]
      [] t.at \in {"select", "record"} -> [t EXCEPT !.at = "fail"]
      [] OTHER -> None

TaskReplaces ==
    /\ task # None /\ task.at \in ReplacePositions
    /\ Free
    /\ LET r == Replacement(task)
       IN  IF Replaceable(r) THEN job' = r /\ task' = Replaced(task, r)
           ELSE UNCHANGED job /\ task' = Rejected(task)
    /\ filesUnchanged /\ restUnchanged
    /\ UNCHANGED <<lock, spent>>

-----------------------------------------------------------------------------
(* The transfer window: download_pending_files_within_bounded_window *)

\* A segment is launched while there is room; the first one of a file selects
\* the file and opens its assembler.  The order of the queue is left open.
Launch ==
    /\ task # None /\ task.at = "window"
    /\ ~task.erred /\ ~task.pausing
    /\ Cardinality(task.flying) < Width
    /\ \E s \in task.queue :
         task' = IF s[1] \in task.selected
                 THEN [task EXCEPT !.queue = @ \ {s}, !.flying = @ \cup {s}]
                 ELSE [task EXCEPT !.queue = @ \ {s}, !.segment = s, !.at = "select"]
    /\ UNCHANGED <<diskVars, lock, spent>> /\ restUnchanged

\* open_staged_file_for_append: the file must be as long as the document says.
TaskOpens ==
    /\ task # None /\ task.at = "open"
    /\ LET f == task.segment[1]
       IN  IF Len(staged[task.of][f]) = task.job.done[f]
           THEN task' = [Go("window") EXCEPT !.segment = None,
                                             !.selected = @ \cup {f},
                                             !.flying = @ \cup {task.segment},
                                             !.prefix[f] = staged[task.of][f],
                                             !.written[f] = Len(staged[task.of][f])]
           ELSE task' = Go("fail")
    /\ staging' = staging \cup {task.of}
    /\ UNCHANGED <<job, staged, published, writes, lock, spent>> /\ restUnchanged

\* The assemblers of the selected files are on disk, from their offsets on.
Flushed(t) ==
    [staged EXCEPT ![t.of] =
        [f \in Files |-> IF f \in t.selected THEN Overlaid(@[f], t.written[f], t.prefix[f]) ELSE @[f]]]

\* The offsets they are at then.
Written(t) == [f \in Files |-> IF f \in t.selected THEN Len(t.prefix[f]) ELSE t.written[f]]

\* write_chunk, out of order at need; the segment that completes its file has
\* the file synchronized and recorded.
SegmentArrives(intact) ==
    /\ task # None /\ task.at = "window"
    /\ \E s \in task.flying :
         LET f == s[1]
             parked == [i \in DOMAIN task.parked[f] \cup {s[2]} |->
                          IF i = s[2] THEN intact ELSE task.parked[f][i]]
             prefix == Assembled(f, task.prefix[f], parked)
             t == [task EXCEPT !.flying = @ \ {s}, !.prefix[f] = prefix,
                               !.parked[f] = Restrict(parked, DOMAIN parked \ (1..Len(prefix)))]
         IN  IF Len(prefix) = Size[f] /\ ~task.pausing /\ task.job.done[f] < Size[f]
             THEN /\ task' = [t EXCEPT !.at = "record", !.segment = s, !.written[f] = Size[f]]
                  /\ staged' = [staged EXCEPT ![task.of][f] = Overlaid(@, task.written[f], prefix)]
             ELSE task' = t /\ UNCHANGED staged
    /\ IF intact THEN UNCHANGED spent ELSE FaultHappens
    /\ UNCHANGED <<job, staging, published, writes, lock>> /\ restUnchanged

\* A response that is refused, framed wrongly or cut short: what is in flight
\* is drained, and nothing more is launched.
SegmentFails ==
    /\ task # None /\ task.at = "window"
    /\ FaultHappens
    /\ \E s \in task.flying :
         task' = [task EXCEPT !.flying = @ \ {s}, !.erred = TRUE, !.pausing = TRUE]
    /\ UNCHANGED <<diskVars, lock>> /\ restUnchanged

\* A segment under a pause stops short: what it leaves is kept by granules of
\* a whole segment.
SegmentStops ==
    /\ task # None /\ task.at = "window" /\ task.pausing
    /\ \E s \in task.flying : task' = [task EXCEPT !.flying = @ \ {s}]
    /\ UNCHANGED <<diskVars, lock, spent>> /\ restUnchanged

\* The files write behind the assemblers.
WriteBehind ==
    /\ task # None /\ task.at = "window"
    /\ Written(task) # task.written
    /\ staged' = Flushed(task)
    /\ task' = [task EXCEPT !.written = Written(task)]
    /\ UNCHANGED <<job, staging, published, writes, lock, spent>> /\ restUnchanged

\* finalize_open_assemblers and transfer_window_stop
WindowEnds ==
    /\ task # None /\ task.at = "window" /\ task.flying = {}
    /\ task.queue = {} \/ task.pausing
    /\ staged' = Flushed(task)
    /\ task' = [task EXCEPT !.at = CASE task.erred -> "fail"
                                     [] ~task.erred /\ task.pausing -> "pause"
                                     [] OTHER -> "verifying",
                            !.queue = {}, !.selected = {}, !.prefix = NoFiles,
                            !.parked = NoFiles, !.written = Nothing, !.segment = None]
    /\ UNCHANGED <<job, staging, published, writes, lock, spent>> /\ restUnchanged

\* verify_download_job names a file that does not have its digest.
TaskVerifies ==
    /\ task # None /\ task.at = "verify"
    /\ \/ Verified(task.of) /\ task' = [Go("intent") EXCEPT !.job.state = "Publishing"]
       \/ \E f \in Files :
            ~Intact(task.of, f) /\ task' = [Go("truncate") EXCEPT !.segment = <<f, 1>>]
    /\ UNCHANGED <<diskVars, lock, spent>> /\ restUnchanged

\* open_staged_file_for_append, then set_len: only a file of its full length
\* is emptied.
Truncated(m, f) ==
    IF Len(staged[m][f]) = Size[f] THEN [staged EXCEPT ![m][f] = <<>>] ELSE staged

\* prepare_checksum_retry: the file goes before the document.
TaskTruncates ==
    /\ task # None /\ task.at = "truncate"
    /\ LET f == task.segment[1]
       IN  /\ staged' = Truncated(task.of, f)
           /\ task' = IF Len(staged[task.of][f]) = Size[f] THEN Go("retry") ELSE None
    /\ staging' = staging \cup {task.of}
    /\ UNCHANGED <<job, published, writes, lock, spent>> /\ restUnchanged

-----------------------------------------------------------------------------
(* Publication *)

\* replace_current_for_publication: an earlier publication with the digests of
\* this one is adopted, any other directory in its place is left alone.
IntentAllowed(r) ==
    /\ job # None /\ job.state = "Verifying" /\ job.of = r.of
    /\ r.stamp >= job.stamp /\ r.done = job.done
    /\ r.of \in staging
    /\ published[r.of] \in {"none", "intact"}

TaskIntends ==
    /\ task # None /\ task.at = "intent"
    /\ Free
    /\ IF IntentAllowed(task.job)
       THEN job' = task.job /\ task' = Go("publish")
       ELSE UNCHANGED job /\ task' = Go("fail")
    /\ filesUnchanged /\ restUnchanged
    /\ UNCHANGED <<lock, spent>>

Publishing == job # None /\ job.state = "Publishing"

\* The writes to a staging directory that is removed go nowhere.
WritesWithout(m) == {w \in writes : w.of # m \/ w.moved}

\* publish_current_job up to the refresh: staging is renamed, or was before a
\* restart, or gives way to the publication adopted.
Rename ==
    LET m == job.of
    IN  /\ published' = [published EXCEPT ![m] = IF @ = "none" THEN Publication(m) ELSE @]
        /\ staged' = [staged EXCEPT ![m] = NoFiles]
        /\ staging' = staging \ {m}
        \* A file keeps its writers when it is renamed.
        /\ writes' = IF published[m] = "none"
                     THEN {IF w.of = m THEN [w EXCEPT !.moved = TRUE] ELSE w : w \in writes}
                     ELSE WritesWithout(m)
        /\ lock' = "publish"
        /\ UNCHANGED job

Renamable ==
    /\ Publishing
    /\ IF job.of \in staging THEN published[job.of] \in {"none", "intact"}
       ELSE published[job.of] # "none"

\* The rest of it: the document goes once discovery has seen the model.
Refreshed(ok) ==
    /\ lock = "publish" /\ lock' = "free"
    /\ IF ok THEN job' = None /\ UNCHANGED spent ELSE UNCHANGED job /\ FaultHappens
    /\ filesUnchanged

TaskPublishes ==
    /\ task # None /\ task.at = "publish"
    /\ Free
    /\ IF Renamable THEN Rename /\ task' = Go("refresh")
       ELSE task' = None /\ UNCHANGED <<diskVars, lock>>
    /\ UNCHANGED spent /\ restUnchanged

TaskRefreshes ==
    /\ task # None /\ task.at = "refresh"
    /\ \E ok \in BOOLEAN : Refreshed(ok)
    /\ task' = None
    /\ restUnchanged

-----------------------------------------------------------------------------
(* The end of a task *)

TaskPauses ==
    /\ task # None /\ task.at = "pause"
    /\ Free
    /\ job' = IF Settled THEN Paused(job, task.stamp) ELSE job
    /\ task' = None
    /\ filesUnchanged /\ restUnchanged
    /\ UNCHANGED <<lock, spent>>

\* Mutant: a failed preflight is not written down.
TaskFailsSilently ==
    /\ task # None /\ task.at \in {"fail", "preFail"}
    /\ Free
    /\ IF Settled /\ task.at = "fail"
       THEN /\ job' = Paused(job, task.stamp)
            /\ task' = [Go("failed") EXCEPT !.job = Failed(job', "failed")]
       ELSE UNCHANGED job /\ task' = None
    /\ filesUnchanged /\ restUnchanged
    /\ UNCHANGED <<lock, spent>>

\* A file that cannot be verified is a checksum failure.
Code(t) == IF t.at = "fail" /\ t.job.state = "Verifying" THEN "checksum" ELSE "failed"

\* persist_failure and persist_preflight_failure: the document is paused, and
\* a second operation marks it failed.
TaskFails ==
    /\ task # None /\ task.at \in {"fail", "preFail"}
    /\ Free
    /\ IF Settled
       THEN /\ job' = Paused(job, IF task.at = "fail" THEN task.stamp ELSE clock)
            /\ task' = [Go("failed") EXCEPT !.job = Failed(job', Code(task))]
       ELSE UNCHANGED job /\ task' = None
    /\ filesUnchanged /\ restUnchanged
    /\ UNCHANGED <<lock, spent>>

-----------------------------------------------------------------------------
(* Stragglers *)

OperationAt(p) ==
    CASE p \in {"recover", "reconcile", "load"} -> "recover"
      [] p \in ReplacePositions -> "replace"
      [] p = "refresh" -> "publish"
      [] OTHER -> p

\* What the task is waiting for, with the document it writes.
Straggler(t) ==
    [at |-> t.at, op |-> OperationAt(t.at), of |-> t.of, stamp |-> t.stamp,
     job |-> CASE t.at \in ReplacePositions -> Replacement(t)
               [] t.at = "create" -> NewJob(t.of, t.stamp)
               [] t.at \in {"intent", "fail"} -> t.job
               [] OTHER -> None,
     segment |-> IF t.at \in {"open", "truncate"} THEN t.segment ELSE None]

\* The operation writes the document, or is refused.
Writes(o) ==
    CASE o.op = "recover" /\ Settled -> Recovered(job, o.stamp)
      [] o.op = "create" /\ job = None -> o.job
      [] o.op \in {"pause", "fail"} /\ Settled -> Paused(job, o.stamp)
      [] o.op = "preFail" /\ Settled -> Paused(job, clock)
      [] o.op = "replace" /\ Replaceable(o.job) -> o.job
      [] o.op = "intent" /\ IntentAllowed(o.job) -> o.job
      [] OTHER -> job

\* What the operation does; opening a file makes its directories.
Effect(o) ==
    /\ Free \/ o.op \in {"open", "truncate"}
    /\ job' = Writes(o)
    /\ staged' = IF o.op = "truncate" THEN Truncated(o.of, o.segment[1]) ELSE staged
    /\ staging' = IF o.op \in {"open", "truncate"} THEN staging \cup {o.of} ELSE staging
    /\ UNCHANGED <<published, writes, lock>>

StragglerWrites(o) ==
    /\ o.op \in {"recover", "create", "pause", "replace", "intent", "open", "truncate"}
    /\ Effect(o)
    /\ stragglers' = stragglers \ {o}
    /\ UNCHANGED spent

\* Both halves of a failure outlast the abort.
StragglerFails(o) ==
    /\ o.op \in {"fail", "preFail"}
    /\ Effect(o)
    /\ stragglers' = (stragglers \ {o}) \cup
         IF Settled THEN {[o EXCEPT !.at = "failed", !.op = "replace", !.job = Failed(job', Code(o))]}
         ELSE {}
    /\ UNCHANGED spent

\* The store fails it, before it writes or between the halves of a failure.
StragglerErrs(o) ==
    /\ "store" \in Failures /\ FaultHappens
    /\ Free /\ o.at # "refresh"
    /\ UNCHANGED diskVars \/ (o.op \in {"fail", "preFail"} /\ Effect(o))
    /\ stragglers' = stragglers \ {o}
    /\ UNCHANGED lock

StragglerPublishes(o) ==
    \/ /\ o.at = "publish" /\ Free
       /\ IF Renamable
          THEN Rename /\ stragglers' = (stragglers \ {o}) \cup {[o EXCEPT !.at = "refresh"]}
          ELSE stragglers' = stragglers \ {o} /\ UNCHANGED <<diskVars, lock>>
       /\ UNCHANGED spent
    \/ /\ o.at = "refresh"
       /\ \E ok \in BOOLEAN : Refreshed(ok)
       /\ stragglers' = stragglers \ {o}

StragglerEnds ==
    /\ \E o \in stragglers :
         StragglerWrites(o) \/ StragglerFails(o) \/ StragglerErrs(o) \/ StragglerPublishes(o)
    /\ UNCHANGED <<task, command, clock, held>>

\* A write whose assembler was dropped lands, in the published file when that
\* was its file.
WriteLands ==
    /\ \E w \in writes :
         /\ writes' = writes \ {w}
         /\ IF w.moved
            THEN /\ published' = [published EXCEPT ![w.of] =
                        IF \A i \in (w.from + 1)..Len(w.bytes) : w.bytes[i] THEN @ ELSE "broken"]
                 /\ UNCHANGED staged
            ELSE /\ staged' = [staged EXCEPT ![w.of][w.file] = Overlaid(@, w.from, w.bytes)]
                 /\ UNCHANGED published
    /\ UNCHANGED <<job, staging, lock, task, spent>> /\ restUnchanged

-----------------------------------------------------------------------------
(* Errors of the host *)

\* Where an error of the store or of a file leaves the task.  It ends, with the
\* document as it is, when the error is passed on to the log.
AfterError ==
    CASE task.at \in {"recover", "create", "fetching", "exact", "reconcile"} -> Go("preFail")
      [] task.at \in {"select", "open", "record", "verify", "intent"} -> Go("fail")
      [] OTHER -> None

\* The operation the task waits for fails, with or without its effect: the
\* directory is synchronized after the document is in place.  The attribution
\* log fails around the verification and the intent.
TaskErrs ==
    /\ task # None
    /\ \/ "store" \in Failures /\ (OperationAt(task.at) \in Operations \/ task.at = "verify")
          /\ task.at # "refresh" /\ task' = AfterError
       \/ "report" \in Failures /\ task.at \in {"verify", "intent"} /\ task' = None
    /\ UNCHANGED <<diskVars, lock>> \/ Effect(Straggler(task))
    /\ FaultHappens
    /\ restUnchanged

-----------------------------------------------------------------------------
(* Commands: the coordinator runs one at a time, under its command lock. *)

Idle == command = <<"none", "idle">>

Start(m) ==
    /\ Idle /\ Free
    /\ task = None /\ job = None
    /\ task' = NewTask(m, "recover")
    /\ held' = "none"
    /\ UNCHANGED <<diskVars, lock, stragglers, command, clock, spent>>

\* A publishing job is published again, one at rest is downloaded on.
Resume ==
    /\ Idle /\ Free
    /\ task = None /\ job # None
    /\ job.state \in {"Publishing", "Paused", "Failed"}
    /\ task' = NewTask(job.of, IF Publishing THEN "publish" ELSE "recover")
    /\ held' = "none"
    /\ UNCHANGED <<diskVars, lock, stragglers, command, clock, spent>>

\* pause and cancel begin with abort_active_task, which asks first; a detached
\* task is no longer theirs to ask, and the model has no cancellation beside it.
Ask(kind) ==
    /\ Idle
    /\ kind = "cancel" /\ task # None => ~task.detached
    /\ spent.commands < MaxCommands
    /\ spent' = [spent EXCEPT !.commands = @ + 1]
    /\ command' = <<kind, "waiting">>
    /\ task' = IF task = None \/ task.detached THEN task ELSE [task EXCEPT !.pausing = TRUE]
    /\ UNCHANGED <<diskVars, lock, stragglers, clock, held>>

TaskStopped ==
    /\ command[2] = "waiting"
    /\ task # None => task.detached
    /\ command' = [command EXCEPT ![2] = "acting"]
    /\ UNCHANGED <<diskVars, lock, task, stragglers, clock, held, spent>>

\* The client of a command that waits is gone, and with it the handle of the
\* task, which runs on.  No second task is started beside it in this model.
CommandDropped ==
    /\ "disconnect" \in Failures /\ FaultHappens
    /\ command[2] = "waiting" /\ task # None
    /\ task' = [task EXCEPT !.detached = TRUE]
    /\ command' = <<"none", "idle">>
    /\ clock' = clock + 1
    /\ UNCHANGED <<diskVars, lock, stragglers, held>>

\* The positions at which a task waits for the network, or for an operation
\* that only reads.
Droppable == {"disk", "manifest", "capacity", "window", "verify"}

\* The unwritten bytes of an assembler are written by a closure too.
LateWrites(t) ==
    {[of |-> t.of, file |-> f, from |-> t.written[f], bytes |-> t.prefix[f], moved |-> FALSE] :
        f \in {g \in t.selected : "write" \in Lingering /\ t.written[g] < Len(t.prefix[g])}}

\* Mutant: only a task that waits for a blocking operation is aborted.
AbortBlocked ==
    /\ command[2] = "waiting" /\ task # None
    /\ OperationAt(task.at) \in Lingering
    /\ stragglers' = stragglers \cup {Straggler(task)}
    /\ task' = None
    /\ clock' = clock + 1
    /\ command' = [command EXCEPT ![2] = "acting"]
    /\ UNCHANGED <<diskVars, lock, held, spent>>

\* The second is over.  The task is dropped, with what its assemblers hold;
\* the blocking operation it waits for runs on, and so do some of the writes.
Abort ==
    /\ command[2] = "waiting" /\ task # None /\ ~task.detached
    /\ \/ task.at \in Droppable /\ UNCHANGED stragglers
       \/ /\ OperationAt(task.at) \in Lingering
          /\ Overlap \/ stragglers = {}
          /\ stragglers' = stragglers \cup {Straggler(task)}
    /\ \E late \in SUBSET LateWrites(task) : writes' = writes \cup late
    /\ task' = None
    /\ clock' = clock + 1
    /\ command' = [command EXCEPT ![2] = "acting"]
    /\ UNCHANGED <<job, staged, staging, published, lock, held, spent>>

\* pause_current_job: nothing to pause and a publishing job are errors.
ActPause ==
    /\ command = <<"pause", "acting">> /\ Free
    /\ IF Settled THEN job' = Paused(job, clock) /\ held' = "paused"
       ELSE UNCHANGED <<job, held>>
    /\ command' = <<"none", "idle">>
    /\ filesUnchanged
    /\ UNCHANGED <<lock, task, stragglers, clock, spent>>

\* cancel_current_job removes the staging directory, ...
ActCancel ==
    /\ command = <<"cancel", "acting">> /\ Free
    /\ IF Settled
       THEN /\ staged' = [staged EXCEPT ![job.of] = NoFiles]
            /\ staging' = staging \ {job.of}
            /\ writes' = WritesWithout(job.of)
            /\ lock' = "cancel"
            /\ UNCHANGED <<command, held>>
       ELSE /\ UNCHANGED <<staged, staging, writes, lock>>
            /\ held' = IF job = None THEN "cancelled" ELSE held
            /\ command' = <<"none", "idle">>
    /\ UNCHANGED <<job, published, task, stragglers, clock, spent>>

\* ... and then the document.
CancelEnds ==
    /\ lock = "cancel"
    /\ job' = None /\ lock' = "free"
    /\ held' = "cancelled"
    /\ command' = <<"none", "idle">>
    /\ filesUnchanged
    /\ UNCHANGED <<task, stragglers, clock, spent>>

\* pause_current_job fails, before its document is in place or after.
PauseErrs ==
    /\ command = <<"pause", "acting">> /\ Free
    /\ "store" \in Failures /\ FaultHappens
    /\ UNCHANGED job \/ (Settled /\ job' = Paused(job, clock))
    /\ command' = <<"none", "idle">>
    /\ filesUnchanged
    /\ UNCHANGED <<lock, task, stragglers, clock, held>>

\* cancel_current_job fails: with some of the files removed, or before or after
\* the removal of the document.
CancelErrs ==
    /\ \/ /\ command = <<"cancel", "acting">> /\ Free /\ Settled
          /\ \E gone \in SUBSET Files :
               /\ (IF gone = {} THEN "store" ELSE "removal") \in Failures
               /\ staged' = [staged EXCEPT ![job.of] = [f \in Files |-> IF f \in gone THEN <<>> ELSE @[f]]]
               /\ writes' = {w \in writes : w \in WritesWithout(job.of) \/ w.file \notin gone}
          /\ UNCHANGED <<job, held, lock>>
       \/ /\ lock = "cancel" /\ lock' = "free"
          /\ "store" \in Failures
          /\ UNCHANGED <<job, held>> \/ (job' = None /\ held' = "none")
          /\ UNCHANGED <<staged, writes>>
    /\ FaultHappens
    /\ command' = <<"none", "idle">>
    /\ UNCHANGED <<staging, published, task, stragglers, clock>>

\* The daemon dies and recover_startup_state runs: what was interrupted is
\* paused, what was publishing goes on.
Crash ==
    /\ spent.crashes < MaxCrashes
    /\ spent' = [spent EXCEPT !.crashes = @ + 1]
    /\ job' = IF Settled THEN Recovered(job, clock) ELSE job
    /\ task' = IF Publishing THEN NewTask(job.of, "publish") ELSE None
    /\ stragglers' = {} /\ writes' = {}
    /\ command' = <<"none", "idle">>
    /\ lock' = "free"
    /\ UNCHANGED <<staged, staging, published>>
    /\ UNCHANGED <<clock, held>>

-----------------------------------------------------------------------------

Network ==
    PreflightPasses \/ PreflightFails \/ SegmentArrives(TRUE) \/ SegmentArrives(FALSE)
      \/ SegmentFails \/ SegmentStops

TaskStep ==
    \/ TaskRecovers \/ TaskCreates \/ TaskReplaces
    \/ Launch \/ TaskOpens \/ WindowEnds \/ TaskVerifies \/ TaskTruncates
    \/ TaskIntends \/ TaskPublishes \/ TaskRefreshes
    \/ TaskPauses \/ TaskFails

CommandStep == TaskStopped \/ Abort \/ ActPause \/ ActCancel \/ CancelEnds

Errors == TaskErrs \/ PauseErrs \/ CancelErrs \/ CommandDropped

Next ==
    \/ Network \/ TaskStep \/ WriteBehind \/ StragglerEnds \/ WriteLands \/ CommandStep \/ Errors
    \/ \E m \in Models : Start(m)
    \/ Resume
    \/ \E kind \in {"pause", "cancel"} : Ask(kind)
    \/ Crash

(***************************************************************************)
(* Blocking operations end, the task's own steps are run, and the timeout  *)
(* of a command fires.  Nothing is assumed of the network.                 *)
(***************************************************************************)
Fairness == WF_vars(TaskStep) /\ WF_vars(StragglerEnds) /\ WF_vars(CommandStep)

Spec == Init /\ [][Next]_vars /\ Fairness

-----------------------------------------------------------------------------

\* Nothing is published that was not verified, and a durable publication intent
\* is always backed by intact files, in staging or already renamed, so that
\* recovery can finish it: whatever a segment out of order, a corrupt byte, an
\* abort with unwritten bytes, a cancellation or a crash between two steps does
\* (verify_download_job, replace_current_for_publication, publish_current_job).
\* The code keeps it only as long as no truncation and no write outlasts its
\* task, one other operation at a time does, and no cancellation is left half
\* done: publish_current_job trusts the verification of an earlier moment.
PublicationIsVerified ==
    /\ \A m \in Models : published[m] # "broken"
    /\ Publishing => (job.of \in staging /\ AllIntact(job.of)) \/ published[job.of] = "intact"

\* An acknowledged pause stays in force until a start or a resume, across a
\* restart too, although operations of the aborted task may still write: the
\* document's time stamps keep them out (replace_current).  Two of them get past
\* the stamps when the one sets the stamp back without comparing it (recover,
\* pause, fail: save_current) and the other comes after it; and a task whose
\* command was dropped with its client runs on beside later commands.
PauseHolds == held = "paused" => job # None /\ job.state \in {"Paused", "Failed"}

\* An acknowledged cancellation leaves no document, and none comes back
\* (cancel_current_job, replace_current), unless the operation that outlasts the
\* task is its creation (create), or the command of an earlier client was dropped.
CancelHolds == held = "cancelled" => job = None

\* When nothing is under way, the document is one that a resume accepts, however
\* the task ended: paused, failed, aborted, overtaken by a command or a restart.
\* Errors of the host are excluded: those met while a document is attributed or
\* replaced end the task and are written nowhere (run_download).
IdleIsResumable ==
    task = None /\ stragglers = {} /\ Idle /\ job # None
      => job.state \in {"Paused", "Failed", "Publishing"}

\* Every pause and every cancellation is answered, whatever the transport does:
\* "an unresponsive transport cannot block controls" (abort_active_task).
ControlReturns == ~Idle ~> Idle

=============================================================================
