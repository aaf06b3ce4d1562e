------------------------ MODULE DownloadJobProofs ------------------------
(***************************************************************************)
(* Proofs about DownloadJob, for every catalog, manifest, window and       *)
(* number of commands, crashes and faults.                                 *)
(*                                                                         *)
(* Two invariants are needed.  The first, PublicationInv, is about time    *)
(* stamps: an abort takes a second, so what a straggler would write is     *)
(* older than what the command writes, and replace_current refuses it.     *)
(* The second, DocumentInv, is about the transfer window: every segment    *)
(* of a file that is not recorded is queued, in flight, parked or          *)
(* assembled, so that a window that runs dry has every byte and the        *)
(* document that says so is accepted.                                      *)
(***************************************************************************)
EXTENDS DownloadJob, FiniteSetTheorems, WellFoundedInduction, TLAPS

-----------------------------------------------------------------------------
(* What an instance allows *)

\* No handler of a command is dropped by its client.
Attached == "disconnect" \notin Failures

\* The operations that stamp the document without comparing stamps.
Rewinding == {"recover", "pause", "fail"}

\* No operation that outlasts its task can set the clock of the document back for
\* another one.
Monotonic == ~Overlap \/ Lingering \cap Rewinding = {}

\* One operation at a time outlasts its task; it creates nothing and writes no
\* files, and a cancellation removes all of the files or none.
Calm ==
    /\ ~Overlap
    /\ Lingering \cap {"create", "truncate", "write"} = {}
    /\ Failures \cap {"removal", "disconnect"} = {}

-----------------------------------------------------------------------------
(* The first invariant: who may write what, and when *)

\* The positions at which a task holds the document it works on.
Fetching == {"disk", "fetching", "manifest", "exact"}
Filling == {"window", "select", "open", "record"}
Checking == {"verify", "truncate", "retry"}
Holding == Fetching \cup {"mark"} \cup Filling \cup {"verifying"} \cup Checking \cup {"intent"}

\* No pause and no cancellation is in force that this instance would keep.
NotHeld ==
    /\ Monotonic => held # "paused"
    /\ "create" \notin Lingering => held # "cancelled"

\* A command acts when the task is gone, its lock is its own, and it is acknowledged
\* until the next task; the document is never stamped in the future.
CommandIsExclusive ==
    /\ command[2] = "acting" => task = None
    /\ lock = "cancel" => command = <<"cancel", "acting">>
    /\ lock = "publish" => Publishing
    /\ task # None => NotHeld
    /\ job # None => job.stamp <= clock

\* A task is stamped with the present second, and holds the document and the segment
\* its position calls for.
TaskIsEquipped ==
    task # None =>
        /\ task.stamp = clock /\ task.at # "preFailed" /\ ~task.detached
        /\ task.job # None => task.job.stamp <= clock
        /\ task.at \in Holding \cup {"failed", "fail"} => task.job # None
        /\ task.at \in {"select", "open", "record", "truncate", "retry"} => task.segment \in Segments
        /\ task.at \in Filling \cup {"verifying"} => task.job.state = "Downloading"
        /\ task.at = "intent" => task.job.state = "Publishing"
        /\ task.at = "failed" => task.job.state = "Failed"

\* A straggler is an operation that may linger, or the second half of a failure; it
\* carries what it needs, and what it would write was stamped before its abort.
StragglersAreShaped ==
    /\ ~Overlap => \A o1, o2 \in stragglers : o1 = o2
    /\ "write" \notin Lingering => writes = {}
    /\ \A o \in stragglers :
         /\ o.op = "replace" \/ o.op \in Lingering
         /\ o.stamp <= clock
         /\ o.at \in {"publish", "refresh"} => o.op = "publish"
         /\ o.op \in {"open", "truncate"} => o.segment \in Segments
         /\ o.at = "fail" => o.job # None
         /\ o.op \in {"create", "replace", "intent"} => o.job # None /\ o.job.stamp <= clock
         /\ o.op \in {"create", "replace", "intent"} => (o.op = "intent") = (o.job.state = "Publishing")
         /\ o.op \in {"replace", "intent"} /\ o.job.state # "Failed" => o.job.stamp < clock

\* After an acknowledged pause every straggler comes too late to set the job going.
PauseIsKept ==
    Monotonic /\ held = "paused" =>
        /\ job # None /\ job.state \in {"Paused", "Failed"}
        /\ \A o \in stragglers :
             o.op \in {"replace", "intent"} /\ o.job.state # "Failed" => o.job.stamp < job.stamp

\* Without a creation that lingers an acknowledged cancellation holds.
CancelIsKept == "create" \notin Lingering => CancelHolds

\* A publication runs beside no task but one that gives up, the document is of the
\* task's model, and only files that are intact are on their way to an intent.
TaskIsAlone ==
    task # None =>
        /\ Publishing => task.at \in {"publish", "refresh", "fail", "recover", "preFail"}
        /\ task.at \in {"publish", "refresh"} => job = None \/ Publishing
        /\ task.at \in Holding => task.job.of = task.of
        /\ task.at \in Holding \cup {"reconcile", "capacity", "load"} /\ job # None => job.of = task.of
        /\ task.at = "intent" => AllIntact(task.of)

\* The document has been stamped after what the straggler would write.
Late(o) == job # None => o.job.stamp < job.stamp

\* The command that aborted the straggler's task has not acted yet, or failed, and
\* no task has touched the document since.
Unanswered ==
    /\ task # None => task.at \in {"recover", "preFail"}
    /\ Failures = {} => command[2] = "acting"

\* What a straggler would write is refused because the document is younger or is
\* being published, or it comes before anything else; a failure may always come.
\* An intent that is not refused finds the files that were verified, or none.
StragglersAreLate ==
    \A o \in stragglers :
        /\ o.op \in {"replace", "intent"} /\ o.job.state # "Failed" =>
              Late(o) \/ Publishing \/ Unanswered
        /\ o.op = "intent" =>
              Late(o) \/ Publishing \/ AllIntact(o.job.of) \/ o.job.of \notin staging

\* What the first invariant says of the task, and of everything else.
TaskInv == TaskIsEquipped /\ (Calm => TaskIsAlone)

OthersInv ==
    /\ Types /\ CommandIsExclusive /\ StragglersAreShaped
    /\ PauseIsKept /\ CancelIsKept
    /\ Calm => StragglersAreLate /\ PublicationIsVerified

\* The first invariant, of instances in which no handler is dropped; the parts about
\* what is alone, late and verified are for calm ones.
PublicationInv == TaskInv /\ OthersInv

-----------------------------------------------------------------------------
(* The second invariant: what is written down is valid, and is never forgotten *)

\* Everything that is saved, or that a straggler or a task will save, is valid; what
\* a task holds agrees with the files.
DocumentsAreValid ==
    /\ job # None => Valid(job)
    /\ \A o \in stragglers : o.op \in {"replace", "intent"} => Valid(o.job)
    /\ task # None =>
         /\ task.at \in Fetching => ~task.job.exact /\ task.job.done = Nothing
         /\ task.at \in {"mark", "verifying", "intent"} \cup Filling \cup Checking => task.job.exact
         /\ task.at = "mark" => task.job.done = Lengths(task.of)
         /\ task.at \in Checking => task.job.state = "Verifying"
         /\ task.at \in Filling \cup Checking \cup {"verifying", "intent"} =>
                task.job.error = "none" /\ task.job.stamp = task.stamp
         /\ task.at \in Checking \cup {"verifying", "intent"} => task.job.done = Size
         /\ task.at \in {"truncate", "verify", "verifying"} =>
                \A f \in Files : Len(staged[task.of][f]) = Size[f]
         /\ task.at = "failed" => Valid(task.job)

\* A document that is being worked on is the one the task holds, and if nothing
\* fails there is a task or a command to work on it.
DocumentIsFollowed ==
    /\ task # None /\ job # None /\ job.state \in Interrupted =>
         /\ task.at \notin {"mark", "failed"}
         /\ task.at \in Filling \cup Checking \cup {"verifying"} => job = task.job
         /\ task.at = "intent" => job = [task.job EXCEPT !.state = "Verifying"]
    /\ Failures = {} /\ task = None /\ command[2] # "acting" /\ job # None =>
         job.state \notin Interrupted

\* Segment s is queued, in flight, parked or assembled.
Covered(s) ==
    \/ s \in task.queue \cup task.flying
    \/ task.at \in {"select", "open"} /\ s = task.segment
    \/ s[2] \in DOMAIN task.parked[s[1]]
    \/ s[1] \in task.selected /\ s[2] <= Len(task.prefix[s[1]])

\* The positions before the window.
Preparing == Fetching \cup {"recover", "create", "reconcile", "capacity", "load", "mark"}

\* Before the window nothing is selected, in flight or parked.
WindowIsEmpty ==
    task # None /\ task.at \in Preparing =>
        task.selected = {} /\ task.flying = {} /\ task.parked = NoFiles

\* The assemblers of the window: what is parked does not follow the prefix, what is
\* written is on the disk, a file that is recorded is complete there, and a file is
\* selected once.
WindowIsSound ==
    task # None /\ task.at \in Filling =>
        /\ \A s \in task.flying : s[1] \in task.selected
        /\ \A f \in Files :
             /\ task.job.done[f] <= Size[f]
             /\ task.job.done[f] = Size[f] => Len(staged[task.of][f]) = Size[f]
             /\ DOMAIN task.parked[f] \subseteq 1..Size[f]
             /\ f \in task.selected => Len(task.prefix[f]) >= task.job.done[f]
             /\ f \in task.selected => task.written[f] <= Len(staged[task.of][f])
             /\ f \notin task.selected => DOMAIN task.parked[f] = {}
             /\ \A i \in DOMAIN task.parked[f] : i > Len(task.prefix[f]) + 1
        /\ task.at \in {"select", "open"} => task.segment[1] \notin task.selected
        /\ task.at = "record" =>
             LET f == task.segment[1]
             IN  f \in task.selected /\ Len(task.prefix[f]) = Size[f] /\ Len(staged[task.of][f]) = Size[f]

\* Unless it is pausing, the window loses no segment, and the file that is complete
\* is recorded or about to be.
WindowIsComplete ==
    task # None /\ task.at \in Filling /\ ~task.pausing =>
        /\ \A s \in Segments : s[2] > task.job.done[s[1]] => Covered(s)
        /\ \A f \in task.selected : Len(task.prefix[f]) = Size[f] =>
              task.job.done[f] = Size[f] \/ (task.at = "record" /\ task.segment[1] = f)

\* The second invariant, of calm instances.  It is preserved given the first.
DocumentInv ==
    /\ DocumentsAreValid /\ DocumentIsFollowed
    /\ WindowIsEmpty /\ WindowIsSound /\ WindowIsComplete

-----------------------------------------------------------------------------

\* A task that has not read the document yet, or gives up, stamps it with the present
\* second, finds nothing to stamp, or gives up.
Stamps ==
    task.at \in {"recover", "preFail"} /\ job' # None /\ ~Publishing' =>
        job'.stamp = clock \/ task' = None \/ task'.at = "preFail"

\* The document is left as it is, or written and not made older.
NotOlder ==
    job' = job \/ (~Publishing /\ job' \in JobRecords /\ job'.stamp <= clock
                   /\ (job = None => job'.stamp = clock) /\ (job # None => job'.stamp >= job.stamp))

\* A task that steps leaves stragglers as late as they were.
LEMMA TaskLeavesLate ==
    ASSUME PublicationInv, Calm, task # None, Stamps, NotOlder,
           UNCHANGED <<stragglers, command, clock>>,
           UNCHANGED <<staged, staging>> \/ task.at \notin {"recover", "preFail"}
    PROVE  StragglersAreLate'
<1> USE DEF PublicationInv, OthersInv
<1>1. /\ Types /\ CommandIsExclusive /\ StragglersAreShaped /\ StragglersAreLate
      /\ clock \in Nat /\ (job # None => job.stamp \in Nat) /\ (job' # None => job'.stamp \in Nat)
      /\ command[2] # "acting"
  BY DEF Types, JobRecords, NotOlder, CommandIsExclusive
<1> SUFFICES ASSUME NEW o \in stragglers, o.op \in {"replace", "intent"}, o.job.state # "Failed" \/ o.op = "intent"
             PROVE  /\ o.job.state # "Failed" => Late(o)' \/ Publishing' \/ Unanswered'
                    /\ o.op = "intent" =>
                          Late(o)' \/ Publishing' \/ AllIntact(o.job.of)' \/ (o.job.of \notin staging)'
  BY DEF StragglersAreLate
<1>2. /\ o.job \in JobRecords /\ o.job.stamp \in Nat /\ o.job.state # "Failed" /\ o.job.stamp < clock
  <2>1. o.job # None /\ o.job.state # "Failed"
    BY <1>1 DEF StragglersAreShaped
  <2>2. o.job \in JobRecords \cup {None}
    BY <1>1 DEF Types, StragglerRecords
  <2> QED
    BY <1>1, <2>1, <2>2 DEF StragglersAreShaped, JobRecords
<1>3. CASE Publishing
  BY <1>3 DEF NotOlder, Publishing
<1>4. CASE Late(o)
  BY <1>1, <1>2, <1>4 DEF Late, NotOlder
<1>5. CASE ~Publishing /\ ~Late(o)
  <2>1. /\ Unanswered /\ task.at \in {"recover", "preFail"}
        /\ o.op = "intent" => AllIntact(o.job.of) \/ o.job.of \notin staging
    BY <1>1, <1>2, <1>5 DEF StragglersAreLate, Unanswered
  <2>2. AllIntact(o.job.of)' = AllIntact(o.job.of) /\ staging' = staging
    BY <2>1 DEF AllIntact
  <2>3. CASE job' = None \/ Publishing'
    BY <2>3 DEF Late
  <2>4. CASE job' # None /\ job'.stamp = clock
    BY <2>4, <1>1, <1>2 DEF Late
  <2>5. CASE task' = None \/ task'.at = "preFail"
    <3>1. Unanswered'
      BY <1>1, <2>1, <2>5 DEF Unanswered
    <3> QED
      BY <2>1, <2>2, <3>1
  <2> QED
    BY <2>1, <2>3, <2>4, <2>5 DEF Stamps
<1> QED
  BY <1>3, <1>4, <1>5

\* A fault is counted, and nothing else is.
LEMMA FaultIsCounted ==
    ASSUME Types, FaultHappens
    PROVE  spent' \in [commands : Nat, crashes : Nat, faults : Nat]
BY DEF Types, FaultHappens

\* A task's own step, one that does not touch the document, is seen by nobody else.
LEMMA TaskLocal ==
    ASSUME PublicationInv, task # None,
           UNCHANGED <<job, published, writes, lock, stragglers, command, clock, held>>,
           staged' \in [Models -> [Files -> Seq(BOOLEAN)]],
           \A m \in Models, f \in Files : Len(staged'[m][f]) <= Size[f],
           staging' \subseteq Models,
           UNCHANGED <<staged, staging>> \/ task.at \in Filling \cup {"truncate"},
           spent' \in [commands : Nat, crashes : Nat, faults : Nat],
           task' # None => task' \in TaskRecords /\ \A f \in Files : Len(task'.prefix[f]) <= Size[f],
           Stamps
    PROVE  OthersInv'
<1> USE DEF PublicationInv, OthersInv
<1>0. NotHeld /\ command[2] # "acting"
  BY DEF CommandIsExclusive, Types
<1>1. Types'
  BY DEF Types
<1>2. CommandIsExclusive'
  BY <1>0 DEF CommandIsExclusive, NotHeld, Publishing
<1>3. StragglersAreShaped'
  BY DEF StragglersAreShaped
<1>4. PauseIsKept' /\ CancelIsKept'
  BY <1>0 DEF NotHeld, PauseIsKept, CancelIsKept, CancelHolds
<1>5. ASSUME Calm
      PROVE  StragglersAreLate'
  <2>1. NotOlder
    BY DEF NotOlder
  <2>2. UNCHANGED <<staged, staging>> \/ task.at \notin {"recover", "preFail"}
    BY DEF Filling
  <2> QED
    BY <1>5, <2>1, <2>2, TaskLeavesLate
<1>6. ASSUME Calm
      PROVE  PublicationIsVerified'
  <2>1. CASE UNCHANGED <<staged, staging>>
    BY <1>6, <2>1 DEF PublicationIsVerified, Publishing, AllIntact
  <2>2. CASE task.at \in Filling \cup {"truncate"}
    <3>1. ~Publishing
      BY <1>6, <2>2 DEF TaskInv, TaskIsAlone, Filling
    <3> QED
      BY <1>6, <3>1 DEF PublicationIsVerified, Publishing
  <2> QED
    BY <2>1, <2>2
<1> QED
  BY <1>1, <1>2, <1>3, <1>4, <1>5, <1>6

\* The task writes the document: it never turns the clock back.
LEMMA TaskWrites ==
    ASSUME PublicationInv, task # None, Free,
           UNCHANGED <<staged, staging, published, writes, lock, stragglers, command, clock, held>>,
           UNCHANGED spent \/ FaultHappens,
           NotOlder, Stamps,
           Calm /\ job' # job /\ job'.state = "Publishing" => job'.of \in staging /\ AllIntact(job'.of),
           task' # None => task' \in TaskRecords /\ \A f \in Files : Len(task'.prefix[f]) <= Size[f]
    PROVE  OthersInv'
<1> USE DEF PublicationInv, OthersInv
<1>0. NotHeld /\ lock = "free" /\ command[2] # "acting"
  BY DEF CommandIsExclusive, Free, Types
<1>1. Types'
  <2>1. spent' \in [commands : Nat, crashes : Nat, faults : Nat]
    BY FaultIsCounted DEF Types
  <2> QED
    BY <2>1 DEF Types, NotOlder
<1>2. CommandIsExclusive'
  BY <1>0 DEF CommandIsExclusive, NotHeld, Types, NotOlder
<1>3. StragglersAreShaped'
  BY DEF StragglersAreShaped
<1>4. PauseIsKept' /\ CancelIsKept'
  BY <1>0 DEF NotHeld, PauseIsKept, CancelIsKept, CancelHolds
<1>5. ASSUME Calm
      PROVE  StragglersAreLate'
  BY <1>5, TaskLeavesLate
<1>6. ASSUME Calm
      PROVE  PublicationIsVerified'
  BY <1>6 DEF PublicationIsVerified, Publishing, AllIntact, NotOlder
<1> QED
  BY <1>1, <1>2, <1>3, <1>4, <1>5, <1>6

\* What is known of a task that is not publishing.
LEMMA Working ==
    ASSUME PublicationInv, task # None
    PROVE  /\ task \in TaskRecords /\ task.at \in Positions
           /\ \A f \in Files : Len(task.prefix[f]) <= Size[f]
           /\ ~task.detached /\ task.stamp = clock /\ clock \in Nat
           /\ Calm /\ task.at \notin {"publish", "refresh", "fail", "recover", "preFail"} => ~Publishing
BY DEF PublicationInv, TaskInv, OthersInv, Types, TaskRecords, TaskIsAlone, TaskIsEquipped

\* A preflight that passes or fails moves the task only.
LEMMA PreflightSafe ==
    ASSUME PublicationInv, PreflightPasses \/ PreflightFails
    PROVE  PublicationInv'
<1> DEFINE Preflight == {"disk", "manifest", "capacity"}
<1> USE DEF PublicationInv, TaskInv, OthersInv
<1>1. /\ task # None /\ task.at \in Preflight
      /\ UNCHANGED <<diskVars, lock, stragglers, command, clock, held>>
      /\ spent' \in [commands : Nat, crashes : Nat, faults : Nat]
      /\ \/ task.at = "disk" /\ task' = Go("fetching")
         \/ task.at = "manifest" /\ task' = Go("exact")
         \/ task.at = "capacity" /\ task' = [Go("load") EXCEPT !.stamp = clock]
         \/ task' = Go("preFail")
  <2>1. spent' \in [commands : Nat, crashes : Nat, faults : Nat]
    BY FaultIsCounted DEF PreflightPasses, PreflightFails, Types
  <2> QED
    BY <2>1 DEF PreflightPasses, PreflightFails, restUnchanged
<1>2. /\ task' \in TaskRecords /\ task'.of = task.of /\ task'.stamp = task.stamp /\ ~task'.detached
      /\ task'.job = task.job /\ task'.segment = task.segment /\ task'.prefix = task.prefix
      /\ \/ task.at = "disk" /\ task'.at = "fetching"
         \/ task.at = "manifest" /\ task'.at = "exact"
         \/ task.at = "capacity" /\ task'.at = "load"
         \/ task'.at = "preFail"
  BY <1>1, Working DEF Go, Positions, TaskRecords
<1>3. OthersInv'
  BY <1>1, <1>2, Working, TaskLocal DEF Types, diskVars, Stamps, Filling
<1>4. TaskInv'
  BY <1>1, <1>2, Working
  DEF TaskIsEquipped, TaskIsAlone, Holding, Fetching, Filling, Checking, diskVars, Publishing, AllIntact
<1> QED
  BY <1>3, <1>4

\* A set of numbers up to a bound has a greatest one.
LEMMA Greatest ==
    ASSUME NEW S, NEW n \in Nat, S \subseteq 0..n, S # {}
    PROVE  Max(S) \in S /\ \A y \in S : y <= Max(S)
<1> DEFINE T == {k \in Nat : n - k \in S}
<1>1. T # {}
  <2>1. PICK x \in S : TRUE
    OBVIOUS
  <2>2. n - x \in Nat /\ n - (n - x) = x
    OBVIOUS
  <2> QED
    BY <2>1, <2>2
<1>2. PICK k \in T : \A j \in T : ~ (<<j, k>> \in {ss \in Nat \X Nat : ss[1] < ss[2]})
  <2>1. IsWellFoundedOn({ss \in Nat \X Nat : ss[1] < ss[2]}, Nat)
    BY NatLessThanWellFounded DEF OpToRel
  <2> HIDE DEF T
  <2>2. T \subseteq Nat
    BY DEF T
  <2> QED
    BY <1>1, <2>1, <2>2, WFMin
<1>3. ASSUME NEW j \in T
      PROVE  j >= k
  <2>1. j \in Nat /\ k \in Nat
    OBVIOUS
  <2>2. ~ (<<j, k>>[1] < <<j, k>>[2])
    BY <1>2, <2>1
  <2> QED
    BY <2>1, <2>2
<1>4. n - k \in S /\ \A y \in S : n - k >= y
  <2>1. ASSUME NEW y \in S
        PROVE  n - k >= y
    <3>1. n - y \in Nat /\ n - (n - y) = y
      OBVIOUS
    <3>2. n - y >= k
      BY <3>1, <1>3
    <3> QED
      BY <3>2
  <2> QED
    BY <2>1
<1>5. \E x \in S : \A y \in S : x >= y
  BY <1>4
<1>6. Max(S) \in S /\ \A y \in S : Max(S) >= y
  BY <1>5 DEF Max
<1> QED
  BY <1>6

\* drain_buffered_chunks takes what is contiguous, and all of it.
LEMMA Assembly ==
    ASSUME NEW f \in Files, NEW prefix \in Seq(BOOLEAN), Len(prefix) <= Size[f],
           NEW S, NEW parked \in [S -> BOOLEAN]
    PROVE  /\ Assembled(f, prefix, parked) \in Seq(BOOLEAN)
           /\ Len(Assembled(f, prefix, parked)) \in Len(prefix)..Size[f]
           /\ \A i \in (Len(prefix) + 1)..Len(Assembled(f, prefix, parked)) : i \in S
           /\ Len(Assembled(f, prefix, parked)) < Size[f] =>
                 Len(Assembled(f, prefix, parked)) + 1 \notin S
<1> DEFINE ends == {n \in Len(prefix)..Size[f] : \A i \in (Len(prefix) + 1)..n : i \in DOMAIN parked}
           a == Assembled(f, prefix, parked)
<1>1. Size[f] \in Nat /\ Len(prefix) \in Nat /\ DOMAIN parked = S
  BY DownloadAssumption
<1>2. Len(prefix) \in ends /\ ends \subseteq 0..Size[f]
  BY <1>1
<1>3. Max(ends) \in ends /\ \A y \in ends : y <= Max(ends)
  <2> HIDE DEF ends
  <2> QED
    BY <1>1, <1>2, Greatest
<1>4. Max(ends) \in Len(prefix)..Size[f] /\ \A i \in (Len(prefix) + 1)..Max(ends) : i \in S
  BY <1>1, <1>3
<1>5. a = [i \in 1..Max(ends) |-> IF i <= Len(prefix) THEN prefix[i] ELSE parked[i]]
  BY DEF Assembled
<1>6. \A i \in 1..Max(ends) : (IF i <= Len(prefix) THEN prefix[i] ELSE parked[i]) \in BOOLEAN
  <2> DEFINE n == Max(ends)
  <2>1. n \in Nat /\ \A i \in (Len(prefix) + 1)..n : i \in S
    BY <1>1, <1>4
  <2> HIDE DEF n
  <2>2. \A i \in 1..n : (IF i <= Len(prefix) THEN prefix[i] ELSE parked[i]) \in BOOLEAN
    <3> TAKE i \in 1..n
    <3>1. CASE i <= Len(prefix)
      BY <3>1, <1>1, <2>1
    <3>2. CASE ~(i <= Len(prefix))
      BY <3>2, <1>1, <2>1
    <3> QED
      BY <3>1, <3>2
  <2> QED
    BY <2>2 DEF n
<1>7. a \in Seq(BOOLEAN) /\ Len(a) = Max(ends)
  <2> DEFINE n == Max(ends)
             e(i) == IF i <= Len(prefix) THEN prefix[i] ELSE parked[i]
  <2>1. n \in Nat /\ a = [i \in 1..n |-> e(i)] /\ \A i \in 1..n : e(i) \in BOOLEAN
    BY <1>1, <1>4, <1>5, <1>6
  <2> HIDE DEF n, a, e
  <2>2. a \in [1..n -> BOOLEAN] /\ DOMAIN a = 1..n
    BY <2>1
  <2>3. a \in Seq(BOOLEAN) /\ Len(a) = n
    BY <2>1, <2>2
  <2> QED
    BY <2>3 DEF n
<1>8. Max(ends) < Size[f] => Max(ends) + 1 \notin S
  <2> SUFFICES ASSUME Max(ends) < Size[f], Max(ends) + 1 \in S
               PROVE  FALSE
    OBVIOUS
  <2> DEFINE n == Max(ends)
  <2>1. n \in Len(prefix)..Size[f] /\ n < Size[f] /\ n + 1 \in S
        /\ (\A i \in (Len(prefix) + 1)..n : i \in S) /\ (\A y \in ends : y <= n)
    BY <1>3, <1>4
  <2> HIDE DEF n
  <2>2. n + 1 \in ends
    BY <1>1, <2>1
  <2> QED
    BY <1>1, <2>1, <2>2
<1> QED
  BY <1>4, <1>7, <1>8

\* A segment is one of its file's.
LEMMA SegmentParts ==
    ASSUME NEW s \in Segments
    PROVE  /\ s[1] \in Files /\ s[2] \in 1..Size[s[1]] /\ s = <<s[1], s[2]>>
           /\ s[2] \in Nat \ {0} /\ Size[s[1]] \in Nat
BY DownloadAssumption DEF Segments

\* What a parcel is.
LEMMA ParcelParts ==
    ASSUME NEW p
    PROVE  /\ p \in Parcels => /\ DOMAIN p \subseteq UNION {1..Size[f] : f \in Files}
                               /\ p \in [DOMAIN p -> BOOLEAN]
           /\ \A S \in SUBSET UNION {1..Size[f] : f \in Files} :
                p \in [S -> BOOLEAN] => p \in Parcels
BY DEF Parcels

\* Empty assemblers.
LEMMA NothingHeld == NoFiles \in [Files -> Seq(BOOLEAN)] /\ NoFiles \in [Files -> Parcels]
                     /\ (\A f \in Files : NoFiles[f] = <<>> /\ Len(NoFiles[f]) = 0 /\ DOMAIN NoFiles[f] = {})
<1>1. <<>> \in Seq(BOOLEAN) /\ Len(<<>>) = 0 /\ DOMAIN <<>> = {}
  OBVIOUS
<1>2. <<>> \in [{} -> BOOLEAN]
  BY <1>1
<1>3. <<>> \in Parcels
  BY <1>2, ParcelParts
<1> QED
  BY <1>1, <1>3 DEF NoFiles

\* A launch moves segments inside the window.
LEMMA LaunchSafe ==
    ASSUME PublicationInv, Launch
    PROVE  PublicationInv'
<1> USE DEF PublicationInv, TaskInv, OthersInv
<1>1. /\ task # None /\ task.at = "window"
      /\ UNCHANGED <<diskVars, lock, stragglers, command, clock, held, spent>>
  BY DEF Launch, restUnchanged
<1>2. PICK s \in task.queue :
         task' = IF s[1] \in task.selected
                 THEN [task EXCEPT !.queue = @ \ {s}, !.flying = @ \cup {s}]
                 ELSE [task EXCEPT !.queue = @ \ {s}, !.segment = s, !.at = "select"]
  BY DEF Launch
<1>3. /\ task' \in TaskRecords /\ task'.of = task.of /\ task'.stamp = task.stamp /\ ~task'.detached
      /\ task'.job = task.job /\ task'.prefix = task.prefix
      /\ task'.at \in {"window", "select"}
      /\ task'.at = "select" => task'.segment \in Segments
  <2>1. task \in TaskRecords /\ ~task.detached
    BY <1>1, Working
  <2> HIDE DEF PublicationInv, TaskInv, OthersInv
  <2>2. CASE s[1] \in task.selected
    <3> DEFINE q == task.queue \ {s}
               w == task.flying \cup {s}
    <3>1. task' = [task EXCEPT !.queue = q, !.flying = w]
      BY <1>2, <2>2
    <3>2. q \in SUBSET Segments /\ w \in SUBSET Segments
      BY <1>2, <2>1 DEF TaskRecords
    <3> HIDE DEF q, w
    <3>3. /\ task' \in TaskRecords /\ task'.at = task.at /\ task'.of = task.of
          /\ task'.stamp = task.stamp /\ task'.job = task.job /\ task'.prefix = task.prefix
          /\ task'.parked = task.parked /\ task'.selected = task.selected
          /\ task'.pausing = task.pausing /\ task'.detached = task.detached /\ task'.queue = q /\ task'.flying = w
      BY <2>1, <3>1, <3>2 DEF TaskRecords
    <3> QED
      BY <1>1, <2>1, <2>2, <3>3 DEF q, w
  <2>3. CASE s[1] \notin task.selected
    <3> DEFINE q == task.queue \ {s}
    <3>1. task' = [task EXCEPT !.queue = q, !.segment = s, !.at = "select"]
      BY <1>2, <2>3
    <3>2. q \in SUBSET Segments /\ s \in Segments /\ "select" \in Positions
      BY <1>2, <2>1 DEF TaskRecords, Positions
    <3> HIDE DEF q
    <3>3. /\ task' \in TaskRecords /\ task'.at = "select" /\ task'.of = task.of
          /\ task'.stamp = task.stamp /\ task'.job = task.job /\ task'.prefix = task.prefix
          /\ task'.parked = task.parked /\ task'.selected = task.selected
          /\ task'.pausing = task.pausing /\ task'.detached = task.detached /\ task'.queue = q /\ task'.flying = task.flying
          /\ task'.segment = s
      BY <2>1, <3>1, <3>2 DEF TaskRecords
    <3> QED
      BY <2>1, <2>3, <3>2, <3>3 DEF q
  <2> QED
    BY <2>2, <2>3
<1>4. OthersInv'
  BY <1>1, <1>3, Working, TaskLocal DEF Types, diskVars, Stamps, Filling
<1>5. TaskInv'
  BY <1>1, <1>3, Working
  DEF TaskIsEquipped, TaskIsAlone, Holding, Fetching, Filling, Checking, diskVars, Publishing
<1> QED
  BY <1>4, <1>5

\* A response cut short takes its segment out of the window.
LEMMA SegmentEndsSafe ==
    ASSUME PublicationInv, SegmentFails \/ SegmentStops
    PROVE  PublicationInv'
<1> USE DEF PublicationInv, TaskInv, OthersInv
<1>1. /\ task # None /\ task.at = "window"
      /\ UNCHANGED <<diskVars, lock, stragglers, command, clock, held>>
      /\ spent' \in [commands : Nat, crashes : Nat, faults : Nat]
  BY FaultIsCounted DEF SegmentFails, SegmentStops, restUnchanged, Types
<1>2. PICK s \in task.flying :
         \/ task' = [task EXCEPT !.flying = @ \ {s}, !.erred = TRUE, !.pausing = TRUE]
         \/ task' = [task EXCEPT !.flying = @ \ {s}]
  BY DEF SegmentFails, SegmentStops
<1>3. /\ task' \in TaskRecords /\ task'.of = task.of /\ task'.stamp = task.stamp /\ ~task'.detached
      /\ task'.job = task.job /\ task'.prefix = task.prefix /\ task'.at = "window"
  <2>1. task \in TaskRecords /\ ~task.detached
    BY <1>1, Working
  <2> HIDE DEF PublicationInv, TaskInv, OthersInv
  <2>2. CASE task' = [task EXCEPT !.flying = @ \ {s}, !.erred = TRUE, !.pausing = TRUE]
    BY <1>1, <2>1, <2>2 DEF TaskRecords
  <2>3. CASE task' = [task EXCEPT !.flying = @ \ {s}]
    BY <1>1, <2>1, <2>3 DEF TaskRecords
  <2> QED
    BY <1>2, <2>2, <2>3
<1>4. OthersInv'
  BY <1>1, <1>3, Working, TaskLocal DEF Types, diskVars, Stamps, Filling
<1>5. TaskInv'
  BY <1>1, <1>3, Working
  DEF TaskIsEquipped, TaskIsAlone, Holding, Fetching, Filling, Checking, diskVars, Publishing
<1> QED
  BY <1>4, <1>5

\* open_staged_file_for_append creates the staging directory and reads a file.
LEMMA TaskOpensSafe ==
    ASSUME PublicationInv, TaskOpens
    PROVE  PublicationInv'
<1> USE DEF PublicationInv, TaskInv, OthersInv
<1> DEFINE f == task.segment[1]
<1>1. /\ task # None /\ task.at = "open"
      /\ UNCHANGED <<job, staged, published, writes, lock, stragglers, command, clock, held, spent>>
      /\ staging' = staging \cup {task.of}
      /\ \/ task' = [Go("window") EXCEPT !.segment = None,
                                         !.selected = @ \cup {f},
                                         !.flying = @ \cup {task.segment},
                                         !.prefix[f] = staged[task.of][f],
                                         !.written[f] = Len(staged[task.of][f])]
         \/ task' = Go("fail")
  BY DEF TaskOpens, restUnchanged
<1>2. /\ task.segment \in Segments /\ f \in Files /\ task.of \in Models
      /\ staged[task.of][f] \in Seq(BOOLEAN) /\ Len(staged[task.of][f]) <= Size[f]
  BY <1>1, Working, SegmentParts DEF TaskIsEquipped, Types, TaskRecords
<1> HIDE DEF f
<1>3. /\ task' \in TaskRecords /\ task'.of = task.of /\ task'.stamp = task.stamp /\ ~task'.detached
      /\ task'.job = task.job /\ task'.at \in {"window", "fail"}
      /\ task'.prefix \in {task.prefix, [task.prefix EXCEPT ![f] = staged[task.of][f]]}
  <2>1. task \in TaskRecords /\ ~task.detached /\ "window" \in Positions /\ "fail" \in Positions
    BY <1>1, Working DEF Positions
  <2>2. CASE task' = Go("fail")
    BY <2>1, <2>2 DEF TaskRecords, Go
  <2>3. CASE task' = [Go("window") EXCEPT !.segment = None,
                                          !.selected = @ \cup {f},
                                          !.flying = @ \cup {task.segment},
                                          !.prefix[f] = staged[task.of][f],
                                          !.written[f] = Len(staged[task.of][f])]
    <3>1. task' = [task EXCEPT !.at = "window", !.segment = None,
                               !.selected = @ \cup {f}, !.flying = @ \cup {task.segment},
                               !.prefix = [@ EXCEPT ![f] = staged[task.of][f]],
                               !.written = [@ EXCEPT ![f] = Len(staged[task.of][f])]]
      BY <2>1, <2>3 DEF TaskRecords, Go
    <3>2. /\ [task.prefix EXCEPT ![f] = staged[task.of][f]] \in [Files -> Seq(BOOLEAN)]
          /\ [task.written EXCEPT ![f] = Len(staged[task.of][f])] \in [Files -> Nat]
      BY <2>1, <1>2 DEF TaskRecords
    <3> QED
      BY <2>1, <3>1, <3>2, <1>2 DEF TaskRecords
  <2> QED
    BY <1>1, <2>2, <2>3
<1>4. \A g \in Files : Len(task'.prefix[g]) <= Size[g]
  BY <1>1, <1>2, <1>3, Working DEF TaskRecords
<1>5. OthersInv'
  BY <1>1, <1>2, <1>3, <1>4, Working, TaskLocal DEF Types, Stamps, Filling
<1>6. TaskInv'
  BY <1>1, <1>3, Working
  DEF TaskIsEquipped, TaskIsAlone, Holding, Fetching, Filling, Checking, Publishing
<1> QED
  BY <1>5, <1>6

\* A file that is written over is a file, and as long as the longer of the two.
LEMMA OverlaidIsFile ==
    ASSUME NEW file \in Seq(BOOLEAN), NEW from \in Nat, NEW bytes \in Seq(BOOLEAN)
    PROVE  /\ Overlaid(file, from, bytes) \in Seq(BOOLEAN)
           /\ Len(bytes) <= from => Overlaid(file, from, bytes) = file
           /\ Len(bytes) > from =>
                Len(Overlaid(file, from, bytes)) = IF Len(file) > Len(bytes) THEN Len(file) ELSE Len(bytes)
<1> DEFINE n == IF Len(file) > Len(bytes) THEN Len(file) ELSE Len(bytes)
           e(i) == IF i \in (from + 1)..Len(bytes) THEN bytes[i] ELSE i <= Len(file) /\ file[i]
<1>1. CASE Len(bytes) <= from
  BY <1>1 DEF Overlaid
<1>2. CASE ~(Len(bytes) <= from)
  <2>1. Overlaid(file, from, bytes) = [i \in 1..n |-> e(i)]
    BY <1>2 DEF Overlaid
  <2>2. n \in Nat
    OBVIOUS
  <2>3. ASSUME NEW i \in 1..n
        PROVE  e(i) \in BOOLEAN
    <3>1. CASE i \in (from + 1)..Len(bytes)
      BY <3>1
    <3>2. CASE i \notin (from + 1)..Len(bytes)
      <4>1. (i <= Len(file) /\ file[i]) \in BOOLEAN
        OBVIOUS
      <4> QED
        BY <3>2, <4>1
    <3> QED
      BY <3>1, <3>2
  <2> HIDE DEF n, e
  <2>4. [i \in 1..n |-> e(i)] \in Seq(BOOLEAN) /\ Len([i \in 1..n |-> e(i)]) = n
    <3>1. [i \in 1..n |-> e(i)] \in [1..n -> BOOLEAN]
      BY <2>3
    <3> QED
      BY <2>2, <3>1
  <2> QED
    BY <1>2, <2>1, <2>4 DEF n
<1> QED
  BY <1>1, <1>2

\* The assemblers on disk are files, and the assembled part of a selected one is there.
LEMMA FlushedIsStaged ==
    ASSUME Types, task # None
    PROVE  /\ Flushed(task) \in [Models -> [Files -> Seq(BOOLEAN)]]
           /\ \A m \in Models, f \in Files : Len(Flushed(task)[m][f]) <= Size[f]
           /\ \A f \in Files : Flushed(task)[task.of][f] =
                 IF f \in task.selected THEN Overlaid(staged[task.of][f], task.written[f], task.prefix[f])
                 ELSE staged[task.of][f]
           /\ Written(task) \in [Files -> Nat]
<1>1. /\ task.of \in Models /\ task.prefix \in [Files -> Seq(BOOLEAN)] /\ task.written \in [Files -> Nat]
      /\ \A f \in Files : Len(task.prefix[f]) <= Size[f]
      /\ staged \in [Models -> [Files -> Seq(BOOLEAN)]]
      /\ \A m \in Models, f \in Files : Len(staged[m][f]) <= Size[f]
      /\ \A f \in Files : Size[f] \in Nat
  BY DownloadAssumption DEF Types, TaskRecords
<1> DEFINE files == [f \in Files |-> IF f \in task.selected
                                     THEN Overlaid(staged[task.of][f], task.written[f], task.prefix[f])
                                     ELSE staged[task.of][f]]
<1>2. ASSUME NEW f \in Files
      PROVE  files[f] \in Seq(BOOLEAN) /\ Len(files[f]) <= Size[f]
  <2>1. /\ staged[task.of][f] \in Seq(BOOLEAN) /\ task.written[f] \in Nat /\ task.prefix[f] \in Seq(BOOLEAN)
        /\ Len(staged[task.of][f]) <= Size[f] /\ Len(task.prefix[f]) <= Size[f] /\ Size[f] \in Nat
    BY <1>1
  <2> DEFINE o == Overlaid(staged[task.of][f], task.written[f], task.prefix[f])
  <2>2. /\ o \in Seq(BOOLEAN)
        /\ Len(task.prefix[f]) <= task.written[f] => o = staged[task.of][f]
        /\ Len(task.prefix[f]) > task.written[f] =>
             Len(o) = IF Len(staged[task.of][f]) > Len(task.prefix[f])
                      THEN Len(staged[task.of][f]) ELSE Len(task.prefix[f])
    BY <2>1, OverlaidIsFile
  <2>3. o \in Seq(BOOLEAN) /\ Len(o) <= Size[f]
    <3> HIDE DEF o
    <3> QED
      BY <2>1, <2>2
  <2>4. files[f] = IF f \in task.selected THEN o ELSE staged[task.of][f]
    OBVIOUS
  <2> HIDE DEF o, files
  <2> QED
    BY <2>1, <2>3, <2>4
<1>3. files \in [Files -> Seq(BOOLEAN)]
  <2> HIDE DEF files
  <2>1. files = [f \in Files |-> files[f]]
    BY DEF files
  <2> QED
    BY <1>2, <2>1
<1>4. \A f \in Files : files[f] = IF f \in task.selected
                                  THEN Overlaid(staged[task.of][f], task.written[f], task.prefix[f])
                                  ELSE staged[task.of][f]
  OBVIOUS
<1>5. Flushed(task) = [staged EXCEPT ![task.of] = files]
  BY <1>1 DEF Flushed
<1>6. Written(task) \in [Files -> Nat]
  <2>1. \A f \in Files : Len(task.prefix[f]) \in Nat
    BY <1>1
  <2> QED
    BY <1>1, <2>1 DEF Written
<1> HIDE DEF files
<1>7. Flushed(task) \in [Models -> [Files -> Seq(BOOLEAN)]]
  BY <1>1, <1>3, <1>5
<1>8. \A m \in Models : Flushed(task)[m] = IF m = task.of THEN files ELSE staged[m]
  BY <1>1, <1>5
<1> QED
  BY <1>1, <1>2, <1>4, <1>6, <1>7, <1>8

\* Writing behind lengthens staged files that no publication needs.
LEMMA WriteBehindSafe ==
    ASSUME PublicationInv, WriteBehind
    PROVE  PublicationInv'
<1> USE DEF PublicationInv, TaskInv, OthersInv
<1>1. /\ task # None /\ task.at = "window" /\ staged' = Flushed(task)
      /\ UNCHANGED <<job, staging, published, writes, lock, stragglers, command, clock, held, spent>>
      /\ task' = [task EXCEPT !.written = Written(task)]
  BY DEF WriteBehind, restUnchanged
<1>2. /\ task' \in TaskRecords /\ task'.of = task.of /\ task'.stamp = task.stamp /\ ~task'.detached
      /\ task'.job = task.job /\ task'.prefix = task.prefix /\ task'.at = "window"
  <2>1. task \in TaskRecords /\ Written(task) \in [Files -> Nat] /\ ~task.detached
    BY <1>1, Working, FlushedIsStaged
  <2> HIDE DEF PublicationInv, TaskInv, OthersInv
  <2> QED
    BY <1>1, <2>1 DEF TaskRecords
<1>3. OthersInv'
  BY <1>1, <1>2, Working, FlushedIsStaged, TaskLocal DEF Types, Stamps, Filling
<1>4. TaskInv'
  BY <1>1, <1>2, Working
  DEF TaskIsEquipped, TaskIsAlone, Holding, Fetching, Filling, Checking, Publishing
<1> QED
  BY <1>3, <1>4

\* finalize_open_assemblers writes what is assembled.
LEMMA WindowEndsSafe ==
    ASSUME PublicationInv, WindowEnds
    PROVE  PublicationInv'
<1> USE DEF PublicationInv, TaskInv, OthersInv
<1>1. /\ task # None /\ task.at = "window" /\ staged' = Flushed(task)
      /\ UNCHANGED <<job, staging, published, writes, lock, stragglers, command, clock, held, spent>>
  BY DEF WindowEnds, restUnchanged
<1>2. PICK p \in {"fail", "pause", "verifying"} :
         task' = [task EXCEPT !.at = p, !.queue = {}, !.selected = {}, !.prefix = NoFiles,
                              !.parked = NoFiles, !.written = Nothing, !.segment = None]
  BY <1>1 DEF WindowEnds
<1>3. /\ task' \in TaskRecords /\ task'.of = task.of /\ task'.stamp = task.stamp /\ ~task'.detached
      /\ task'.job = task.job /\ task'.at = p /\ task'.prefix = NoFiles
  <2>1. task \in TaskRecords /\ ~task.detached /\ Nothing \in [Files -> Nat] /\ p \in Positions
    BY <1>1, <1>2, Working DEF Nothing, Positions
  <2> HIDE DEF PublicationInv, TaskInv, OthersInv
  <2> QED
    BY <1>1, <1>2, <2>1, NothingHeld DEF TaskRecords
<1>4. \A f \in Files : Len(task'.prefix[f]) <= Size[f]
  BY <1>3, NothingHeld, DownloadAssumption
<1>5. OthersInv'
  BY <1>1, <1>3, <1>4, Working, FlushedIsStaged, TaskLocal DEF Types, Stamps, Filling
<1>6. TaskInv'
  BY <1>1, <1>3, Working
  DEF TaskIsEquipped, TaskIsAlone, Holding, Fetching, Filling, Checking, Publishing
<1> QED
  BY <1>5, <1>6

\* The staged files once one of them is replaced.
WithFile(m, f, q) == [staged EXCEPT ![m][f] = q]

\* It is as typed, and only that file differs.
LEMMA OneFileStaged ==
    ASSUME Types, NEW m \in Models, NEW f \in Files, NEW q \in Seq(BOOLEAN), Len(q) <= Size[f]
    PROVE  /\ WithFile(m, f, q) \in [Models -> [Files -> Seq(BOOLEAN)]]
           /\ \A n \in Models, g \in Files :
                /\ Len(WithFile(m, f, q)[n][g]) <= Size[g]
                /\ WithFile(m, f, q)[n][g] = IF n = m /\ g = f THEN q ELSE staged[n][g]
<1>1. /\ staged \in [Models -> [Files -> Seq(BOOLEAN)]]
      /\ \A n \in Models, g \in Files : Len(staged[n][g]) <= Size[g]
  BY DEF Types
<1>2. WithFile(m, f, q) \in [Models -> [Files -> Seq(BOOLEAN)]]
  BY <1>1 DEF WithFile
<1>3. \A n \in Models, g \in Files :
        WithFile(m, f, q)[n][g] = IF n = m /\ g = f THEN q ELSE staged[n][g]
  BY <1>1 DEF WithFile
<1>4. \A n \in Models, g \in Files : Len(WithFile(m, f, q)[n][g]) <= Size[g]
  BY <1>1, <1>3
<1> QED
  BY <1>2, <1>3, <1>4

\* So it is when a file is emptied.
LEMMA TruncatedIsStaged ==
    ASSUME Types, NEW m \in Models, NEW f \in Files
    PROVE  /\ Truncated(m, f) \in [Models -> [Files -> Seq(BOOLEAN)]]
           /\ \A n \in Models, g \in Files : Len(Truncated(m, f)[n][g]) <= Size[g]
<1>1. <<>> \in Seq(BOOLEAN) /\ Len(<<>>) <= Size[f]
  BY DownloadAssumption
<1>2. Truncated(m, f) = staged \/ Truncated(m, f) = WithFile(m, f, <<>>)
  BY DEF Truncated, WithFile
<1>3. CASE Truncated(m, f) = staged
  BY <1>3 DEF Types
<1>4. CASE Truncated(m, f) = WithFile(m, f, <<>>)
  <2>1. /\ WithFile(m, f, <<>>) \in [Models -> [Files -> Seq(BOOLEAN)]]
        /\ \A n \in Models, g \in Files : Len(WithFile(m, f, <<>>)[n][g]) <= Size[g]
    BY <1>1, OneFileStaged
  <2> QED
    BY <1>4, <2>1
<1> QED
  BY <1>2, <1>3, <1>4

\* What the arrival of segment s leaves: `assembled' on the way to the disk, and
\* everything else of its file parked.
ArrivalOf(s, assembled) ==
    LET f == s[1]
        arrived == DOMAIN task.parked[f] \cup {s[2]}
    IN  /\ assembled \in Seq(BOOLEAN)
        /\ Len(assembled) \in Len(task.prefix[f])..Size[f]
        /\ Len(assembled) < Size[f] => Len(assembled) + 1 \notin arrived
        /\ task' \in TaskRecords
        /\ task'.of = task.of /\ task'.stamp = task.stamp /\ task'.job = task.job
        /\ task'.queue = task.queue /\ task'.flying = task.flying \ {s}
        /\ task'.selected = task.selected /\ task'.pausing = task.pausing
        /\ ~task'.detached
        /\ task'.prefix = [task.prefix EXCEPT ![f] = assembled]
        /\ \A g \in Files :
             DOMAIN task'.parked[g] = IF g = f THEN arrived \ (1..Len(assembled))
                                      ELSE DOMAIN task.parked[g]
        /\ IF Len(assembled) = Size[f] /\ ~task.pausing /\ task.job.done[f] < Size[f]
           THEN /\ task'.at = "record" /\ task'.segment = s
                /\ task'.written = [task.written EXCEPT ![f] = Size[f]]
                /\ staged' = WithFile(task.of, f, Overlaid(staged[task.of][f], task.written[f], assembled))
           ELSE task'.at = "window" /\ task'.written = task.written /\ staged' = staged

\* A segment that arrives is assembled with what is parked, or is parked.
LEMMA Arrival ==
    ASSUME PublicationInv, NEW intact \in BOOLEAN, SegmentArrives(intact)
    PROVE  \E s \in task.flying : \E assembled : ArrivalOf(s, assembled)
<1>1. /\ task # None /\ task.at = "window" /\ task \in TaskRecords /\ ~task.detached
      /\ \A f \in Files : Len(task.prefix[f]) <= Size[f]
  BY Working DEF SegmentArrives
<1>2. PICK s \in task.flying :
        LET f == s[1]
            parked == [i \in DOMAIN task.parked[f] \cup {s[2]} |->
                         IF i = s[2] THEN intact ELSE task.parked[f][i]]
            prefix == Assembled(f, task.prefix[f], parked)
            t == [task EXCEPT !.flying = @ \ {s}, !.prefix[f] = prefix,
                              !.parked[f] = Restrict(parked, DOMAIN parked \ (1..Len(prefix)))]
        IN  IF Len(prefix) = Size[f] /\ ~task.pausing /\ task.job.done[f] < Size[f]
            THEN /\ task' = [t EXCEPT !.at = "record", !.segment = s, !.written[f] = Size[f]]
                 /\ staged' = [staged EXCEPT ![task.of][f] = Overlaid(@, task.written[f], prefix)]
            ELSE task' = t /\ UNCHANGED staged
  BY DEF SegmentArrives
<1> DEFINE f == s[1]
           arrived == DOMAIN task.parked[f] \cup {s[2]}
           parked == [i \in arrived |-> IF i = s[2] THEN intact ELSE task.parked[f][i]]
           prefix == Assembled(f, task.prefix[f], parked)
           kept == Restrict(parked, DOMAIN parked \ (1..Len(prefix)))
           waiting == [task.parked EXCEPT ![f] = kept]
<1>3. /\ s \in Segments /\ f \in Files /\ s[2] \in 1..Size[f]
      /\ task.prefix[f] \in Seq(BOOLEAN) /\ Len(task.prefix[f]) <= Size[f]
      /\ task.parked[f] \in Parcels
  BY <1>1, SegmentParts DEF TaskRecords
<1>4. /\ task.parked[f] \in [DOMAIN task.parked[f] -> BOOLEAN]
      /\ DOMAIN task.parked[f] \subseteq UNION {1..Size[g] : g \in Files}
  BY <1>3, ParcelParts
<1>5. parked \in [arrived -> BOOLEAN] /\ arrived \subseteq UNION {1..Size[g] : g \in Files}
  BY <1>3, <1>4
<1>6. /\ prefix \in Seq(BOOLEAN) /\ Len(prefix) \in Len(task.prefix[f])..Size[f]
      /\ Len(prefix) < Size[f] => Len(prefix) + 1 \notin arrived
  <2> HIDE DEF parked, arrived, f
  <2> QED
    BY <1>3, <1>5, Assembly
<1>7. kept \in Parcels /\ DOMAIN kept = arrived \ (1..Len(prefix))
  <2> DEFINE rest == arrived \ (1..Len(prefix))
  <2>1. DOMAIN parked = arrived
    OBVIOUS
  <2> HIDE DEF parked, arrived, prefix
  <2>2. kept = [x \in rest |-> parked[x]]
    BY <2>1 DEF Restrict
  <2>3. kept \in [rest -> BOOLEAN] /\ rest \subseteq UNION {1..Size[g] : g \in Files}
    BY <1>5, <2>2
  <2> HIDE DEF kept, rest
  <2>4. kept \in Parcels /\ DOMAIN kept = rest
    BY <2>3, ParcelParts
  <2> QED
    BY <2>4 DEF rest
<1>8. /\ [task.prefix EXCEPT ![f] = prefix] \in [Files -> Seq(BOOLEAN)]
      /\ waiting \in [Files -> Parcels]
      /\ \A g \in Files : DOMAIN waiting[g] =
            IF g = f THEN arrived \ (1..Len(prefix)) ELSE DOMAIN task.parked[g]
  <2> HIDE DEF parked, arrived, prefix, kept, f
  <2>1. task.prefix \in [Files -> Seq(BOOLEAN)] /\ task.parked \in [Files -> Parcels]
    BY <1>1 DEF TaskRecords
  <2> QED
    BY <2>1, <1>3, <1>6, <1>7
<1> DEFINE t == [task EXCEPT !.flying = @ \ {s}, !.prefix[f] = prefix, !.parked[f] = kept]
<1>9. /\ t \in TaskRecords /\ t.at = "window"
      /\ t.of = task.of /\ t.stamp = task.stamp /\ t.job = task.job
      /\ t.queue = task.queue /\ t.flying = task.flying \ {s}
      /\ t.selected = task.selected /\ t.pausing = task.pausing
      /\ t.written = task.written /\ ~t.detached
      /\ t.prefix = [task.prefix EXCEPT ![f] = prefix]
      /\ t.parked = waiting
  <2> HIDE DEF parked, arrived, prefix, kept, f
  <2> QED
    BY <1>1, <1>8 DEF TaskRecords
<1>10. IF Len(prefix) = Size[f] /\ ~task.pausing /\ task.job.done[f] < Size[f]
       THEN /\ task' = [t EXCEPT !.at = "record", !.segment = s, !.written[f] = Size[f]]
            /\ staged' = [staged EXCEPT ![task.of][f] = Overlaid(@, task.written[f], prefix)]
       ELSE task' = t /\ UNCHANGED staged
  BY <1>2
<1>11. ArrivalOf(s, prefix)
  <2> HIDE DEF parked, prefix, kept, t, waiting
  <2>1. CASE Len(prefix) = Size[f] /\ ~task.pausing /\ task.job.done[f] < Size[f]
    <3>1. /\ task' = [t EXCEPT !.at = "record", !.segment = s, !.written[f] = Size[f]]
          /\ staged' = [staged EXCEPT ![task.of][f] = Overlaid(@, task.written[f], prefix)]
      BY <1>10, <2>1
    <3>2. /\ task' \in TaskRecords /\ task'.at = "record" /\ task'.segment = s
          /\ task'.of = t.of /\ task'.stamp = t.stamp /\ task'.job = t.job
          /\ task'.queue = t.queue /\ task'.flying = t.flying
          /\ task'.selected = t.selected /\ task'.pausing = t.pausing
          /\ task'.prefix = t.prefix /\ task'.parked = t.parked
          /\ task'.detached = t.detached /\ task'.written = [t.written EXCEPT ![f] = Size[f]]
      <4>1. t \in TaskRecords /\ s \in Segments /\ "record" \in Positions /\ Size[f] \in Nat
        BY <1>3, <1>9, DownloadAssumption DEF Positions
      <4>2. task' = [t EXCEPT !.at = "record", !.segment = s, !.written = [@ EXCEPT ![f] = Size[f]]]
        BY <3>1, <4>1 DEF TaskRecords
      <4>3. [t.written EXCEPT ![f] = Size[f]] \in [Files -> Nat]
        BY <4>1 DEF TaskRecords
      <4> HIDE DEF f, arrived
      <4> QED
        BY <4>1, <4>2, <4>3 DEF TaskRecords
    <3>3. \A g \in Files : DOMAIN task'.parked[g] =
             IF g = f THEN arrived \ (1..Len(prefix)) ELSE DOMAIN task.parked[g]
      <4>1. task'.parked = waiting
        BY <3>2, <1>9
      <4> HIDE DEF f, arrived
      <4> QED
        BY <1>8, <4>1
    <3>4. /\ task'.of = task.of /\ task'.stamp = task.stamp /\ task'.job = task.job
          /\ task'.queue = task.queue /\ task'.flying = task.flying \ {s}
          /\ task'.selected = task.selected /\ task'.pausing = task.pausing
          /\ task'.prefix = [task.prefix EXCEPT ![f] = prefix]
          /\ ~task'.detached /\ task'.written = [task.written EXCEPT ![f] = Size[f]]
      BY <3>2, <1>9
    <3> HIDE DEF arrived
    <3>5. /\ task'.at = "record" /\ task'.segment = s
          /\ staged' = WithFile(task.of, f, Overlaid(staged[task.of][f], task.written[f], prefix))
      BY <3>1, <3>2, <1>1, <1>3 DEF WithFile, Types, TaskRecords, PublicationInv, OthersInv
    <3> QED
      BY <2>1, <3>2, <3>3, <3>4, <3>5, <1>6 DEF ArrivalOf, arrived
  <2>2. CASE ~(Len(prefix) = Size[f] /\ ~task.pausing /\ task.job.done[f] < Size[f])
    <3>1. task' = t /\ staged' = staged
      BY <1>10, <2>2
    <3> QED
      BY <2>2, <3>1, <1>6, <1>8, <1>9 DEF ArrivalOf
  <2> QED
    BY <2>1, <2>2
<1> QED
  BY <1>11

\* write_chunk touches the files of the task only.
LEMMA SegmentArrivesSafe ==
    ASSUME PublicationInv, NEW intact \in BOOLEAN, SegmentArrives(intact)
    PROVE  PublicationInv'
<1> USE DEF PublicationInv, TaskInv, OthersInv
<1>1. /\ task # None /\ task.at = "window" /\ task \in TaskRecords
      /\ UNCHANGED <<job, staging, published, writes, lock, stragglers, command, clock, held>>
      /\ spent' \in [commands : Nat, crashes : Nat, faults : Nat]
  BY Working, FaultIsCounted DEF SegmentArrives, restUnchanged, Types
<1>2. PICK s \in task.flying : \E assembled : ArrivalOf(s, assembled)
  BY Arrival
<1>3. PICK assembled : ArrivalOf(s, assembled)
  BY <1>2
<1>4. /\ s \in Segments /\ s[1] \in Files /\ task.of \in Models
      /\ task.prefix \in [Files -> Seq(BOOLEAN)] /\ Size[s[1]] \in Nat
  BY <1>1, SegmentParts DEF TaskRecords
<1>5. /\ task' \in TaskRecords /\ task'.of = task.of /\ task'.stamp = task.stamp /\ ~task'.detached
      /\ task'.job = task.job /\ task'.at \in {"window", "record"}
      /\ task'.at = "record" => task'.segment \in Segments
  BY <1>3, <1>4 DEF ArrivalOf
<1>6. assembled \in Seq(BOOLEAN) /\ Len(assembled) <= Size[s[1]]
  BY <1>3, <1>4 DEF ArrivalOf
<1>7. \A g \in Files : Len(task'.prefix[g]) <= Size[g]
  <2>1. task'.prefix = [task.prefix EXCEPT ![s[1]] = assembled]
    BY <1>3 DEF ArrivalOf
  <2> QED
    BY <1>1, <1>4, <1>6, <2>1, Working
<1>8. /\ staged' \in [Models -> [Files -> Seq(BOOLEAN)]]
      /\ \A m \in Models, g \in Files : Len(staged'[m][g]) <= Size[g]
  <2> DEFINE whole == Overlaid(staged[task.of][s[1]], task.written[s[1]], assembled)
  <2>1. staged' = staged \/ staged' = WithFile(task.of, s[1], whole)
    BY <1>3 DEF ArrivalOf
  <2>2. CASE staged' = staged
    BY <2>2 DEF Types
  <2>4. whole \in Seq(BOOLEAN) /\ Len(whole) <= Size[s[1]]
    <3>1. /\ staged[task.of][s[1]] \in Seq(BOOLEAN) /\ Len(staged[task.of][s[1]]) <= Size[s[1]]
          /\ task.written[s[1]] \in Nat
      BY <1>1, <1>4 DEF Types, TaskRecords
    <3>2. /\ whole \in Seq(BOOLEAN)
          /\ Len(assembled) <= task.written[s[1]] => whole = staged[task.of][s[1]]
          /\ Len(assembled) > task.written[s[1]] =>
               Len(whole) = IF Len(staged[task.of][s[1]]) > Len(assembled)
                            THEN Len(staged[task.of][s[1]]) ELSE Len(assembled)
      BY <3>1, <1>6, OverlaidIsFile
    <3> HIDE DEF whole
    <3> QED
      BY <3>1, <3>2, <1>4, <1>6
  <2>3. CASE staged' = WithFile(task.of, s[1], whole)
    <3> HIDE DEF whole
    <3> QED
      BY <1>4, <2>3, <2>4, OneFileStaged
  <2> QED
    BY <2>1, <2>2, <2>3
<1>9. OthersInv'
  BY <1>1, <1>5, <1>7, <1>8, Working, TaskLocal DEF Types, Stamps, Filling
<1>10. TaskInv'
  BY <1>1, <1>5, Working
  DEF TaskIsEquipped, TaskIsAlone, Holding, Fetching, Filling, Checking, Publishing
<1> QED
  BY <1>9, <1>10

\* Verification sends a job whose files are intact on to its publication.
LEMMA TaskVerifiesSafe ==
    ASSUME PublicationInv, TaskVerifies
    PROVE  PublicationInv'
<1> USE DEF PublicationInv, TaskInv, OthersInv
<1>1. /\ task # None /\ task.at = "verify" /\ task \in TaskRecords /\ ~task.detached
      /\ UNCHANGED <<diskVars, lock, stragglers, command, clock, held, spent>>
  BY Working DEF TaskVerifies, restUnchanged
<1>2. task.job \in JobRecords
  BY <1>1 DEF TaskIsEquipped, TaskRecords, Holding, Checking
<1>3. CASE Verified(task.of) /\ task' = [Go("intent") EXCEPT !.job.state = "Publishing"]
  <2>1. [task.job EXCEPT !.state = "Publishing"] \in JobRecords
    BY <1>2 DEF JobRecords, JobStates
  <2>2. task' = [task EXCEPT !.at = "intent", !.job = [task.job EXCEPT !.state = "Publishing"]]
    BY <1>1, <1>3 DEF TaskRecords, Go
  <2>3. /\ task' \in TaskRecords /\ task'.of = task.of /\ task'.stamp = task.stamp /\ ~task'.detached
        /\ task'.job = [task.job EXCEPT !.state = "Publishing"] /\ task'.at = "intent"
        /\ task'.prefix = task.prefix
    BY <1>1, <2>1, <2>2 DEF TaskRecords, Positions
  <2>4. task'.job.of = task.job.of /\ task'.job.stamp = task.job.stamp /\ task'.job.state = "Publishing"
    BY <2>3, <1>2 DEF JobRecords
  <2>5. OthersInv'
    BY <1>1, <2>3, Working, TaskLocal DEF Types, diskVars, Stamps, Filling
  <2>6. AllIntact(task.of)'
    BY <1>1, <1>3, <2>3 DEF Verified, Intact, AllIntact, diskVars
  <2>a. task'.job \in JobRecords
    BY <2>1, <2>3
  <2>7. TaskInv'
    BY <1>1, <1>2, <2>3, <2>4, <2>6, <2>a, Working, NoneAssumption
    DEF TaskIsEquipped, TaskIsAlone, Holding, Fetching, Filling, Checking, Publishing, diskVars
  <2> QED
    BY <2>5, <2>7
<1>4. CASE \E f \in Files : task' = [Go("truncate") EXCEPT !.segment = <<f, 1>>]
  <2>1. PICK f \in Files : task' = [Go("truncate") EXCEPT !.segment = <<f, 1>>]
    BY <1>4
  <2>2. <<f, 1>> \in Segments
    BY DownloadAssumption DEF Segments
  <2>3. /\ task' \in TaskRecords /\ task'.of = task.of /\ task'.stamp = task.stamp /\ ~task'.detached
        /\ task'.job = task.job /\ task'.at = "truncate" /\ task'.segment \in Segments
        /\ task'.prefix = task.prefix
    BY <1>1, <2>1, <2>2 DEF TaskRecords, Positions, Go
  <2>5. OthersInv'
    BY <1>1, <2>3, Working, TaskLocal DEF Types, diskVars, Stamps, Filling
  <2>7. TaskInv'
    BY <1>1, <2>3, Working
    DEF TaskIsEquipped, TaskIsAlone, Holding, Fetching, Filling, Checking, Publishing, diskVars
  <2> QED
    BY <2>5, <2>7
<1> QED
  BY <1>3, <1>4 DEF TaskVerifies

\* A file that failed its digest is truncated.
LEMMA TaskTruncatesSafe ==
    ASSUME PublicationInv, TaskTruncates
    PROVE  PublicationInv'
<1> USE DEF PublicationInv, TaskInv, OthersInv
<1> DEFINE f == task.segment[1]
<1>1. /\ task # None /\ task.at = "truncate" /\ task \in TaskRecords /\ ~task.detached
      /\ UNCHANGED <<job, published, writes, lock, stragglers, command, clock, held, spent>>
      /\ staging' = staging \cup {task.of}
      /\ staged' = Truncated(task.of, f)
      /\ task' = Go("retry") \/ task' = None
  BY Working DEF TaskTruncates, restUnchanged
<1>2. f \in Files /\ task.of \in Models /\ Size[f] \in Nat /\ task.segment \in Segments
  BY <1>1, SegmentParts DEF TaskIsEquipped, TaskRecords
<1> HIDE DEF f
<1>3. /\ staged' \in [Models -> [Files -> Seq(BOOLEAN)]]
      /\ \A m \in Models, g \in Files : Len(staged'[m][g]) <= Size[g]
      /\ staging' \subseteq Models
  BY <1>1, <1>2, TruncatedIsStaged DEF Types
<1>4. task' # None =>
        /\ task' \in TaskRecords /\ task'.of = task.of /\ task'.stamp = task.stamp /\ ~task'.detached
        /\ task'.job = task.job /\ task'.at = "retry" /\ task'.prefix = task.prefix
        /\ task'.segment = task.segment
  <2> SUFFICES ASSUME task' = Go("retry")
               PROVE  /\ task' \in TaskRecords /\ task'.of = task.of /\ task'.stamp = task.stamp /\ ~task'.detached
                      /\ task'.job = task.job /\ task'.at = "retry" /\ task'.prefix = task.prefix
                      /\ task'.segment = task.segment
    BY <1>1
  <2>1. task \in TaskRecords /\ ~task.detached /\ "retry" \in Positions
    BY <1>1 DEF Positions
  <2> HIDE DEF PublicationInv, TaskInv, OthersInv
  <2> QED
    BY <2>1 DEF TaskRecords, Go
<1>5. OthersInv'
  BY <1>1, <1>3, <1>4, Working, TaskLocal DEF Types, Stamps, Filling
<1>6. TaskInv'
  BY <1>1, <1>2, <1>4, Working
  DEF TaskIsEquipped, TaskIsAlone, Holding, Fetching, Filling, Checking, Publishing
<1> QED
  BY <1>5, <1>6

-----------------------------------------------------------------------------
(* The documents that are written *)

\* What reconciliation, a pause and a failure make of a document.
LEMMA RecoveredParts ==
    ASSUME Types, NEW j \in JobRecords, NEW stamp \in Nat
    PROVE  /\ Recovered(j, stamp) \in JobRecords /\ Recovered(j, stamp).of = j.of
           /\ Recovered(j, stamp).stamp = stamp /\ Recovered(j, stamp).exact = j.exact
           /\ Recovered(j, stamp).error = j.error
           /\ Recovered(j, stamp).done = IF j.exact THEN Lengths(j.of) ELSE Nothing
           /\ Recovered(j, stamp).state = IF j.state \in Interrupted THEN "Paused" ELSE j.state
<1>1. Lengths(j.of) \in [Files -> Nat] /\ Nothing \in [Files -> Nat]
  <2>1. \A f \in Files : Len(staged[j.of][f]) \in Nat
    BY DEF Types, JobRecords
  <2> QED
    BY <2>1 DEF Lengths, Nothing
<1> DEFINE d == IF j.exact THEN Lengths(j.of) ELSE Nothing
<1>2. d \in [Files -> Nat]
  BY <1>1
<1>3. Recovered(j, stamp) = [j EXCEPT !.done = d, !.stamp = stamp,
                                      !.state = IF @ \in Interrupted THEN "Paused" ELSE @]
  BY DEF Recovered
<1> HIDE DEF d
<1>4. /\ Recovered(j, stamp) \in JobRecords /\ Recovered(j, stamp).of = j.of
      /\ Recovered(j, stamp).stamp = stamp /\ Recovered(j, stamp).exact = j.exact
      /\ Recovered(j, stamp).error = j.error
      /\ Recovered(j, stamp).done = d
      /\ Recovered(j, stamp).state = IF j.state \in Interrupted THEN "Paused" ELSE j.state
  BY <1>2, <1>3 DEF JobRecords, JobStates
<1> QED
  BY <1>4 DEF d

\* What force_paused writes.
LEMMA PausedParts ==
    ASSUME Types, NEW j \in JobRecords, NEW stamp \in Nat
    PROVE  /\ Paused(j, stamp) \in JobRecords /\ Paused(j, stamp).of = j.of
           /\ Paused(j, stamp).stamp = stamp /\ Paused(j, stamp).exact = j.exact
           /\ Paused(j, stamp).error = "none" /\ Paused(j, stamp).state = "Paused"
           /\ Paused(j, stamp).done = IF j.exact THEN Lengths(j.of) ELSE Nothing
<1>1. Lengths(j.of) \in [Files -> Nat] /\ Nothing \in [Files -> Nat]
  <2>1. \A f \in Files : Len(staged[j.of][f]) \in Nat
    BY DEF Types, JobRecords
  <2> QED
    BY <2>1 DEF Lengths, Nothing
<1> DEFINE d == IF j.exact THEN Lengths(j.of) ELSE Nothing
<1>2. d \in [Files -> Nat]
  BY <1>1
<1>3. Paused(j, stamp) = [j EXCEPT !.done = d, !.stamp = stamp, !.state = "Paused", !.error = "none"]
  BY DEF Paused
<1> HIDE DEF d
<1>4. /\ Paused(j, stamp) \in JobRecords /\ Paused(j, stamp).of = j.of
      /\ Paused(j, stamp).stamp = stamp /\ Paused(j, stamp).exact = j.exact
      /\ Paused(j, stamp).error = "none" /\ Paused(j, stamp).state = "Paused"
      /\ Paused(j, stamp).done = d
  BY <1>2, <1>3 DEF JobRecords, JobStates
<1> QED
  BY <1>4 DEF d

\* What a failure writes.
LEMMA FailedParts ==
    ASSUME NEW j \in JobRecords, NEW code \in {"checksum", "failed"}
    PROVE  /\ Failed(j, code) \in JobRecords /\ Failed(j, code).of = j.of
           /\ Failed(j, code).stamp = j.stamp /\ Failed(j, code).exact = j.exact
           /\ Failed(j, code).error = code /\ Failed(j, code).state = "Failed"
           /\ Failed(j, code).done = j.done
BY DEF Failed, JobRecords, JobStates

\* The document a task asks the store to write, position by position.
LEMMA ReplacementParts ==
    ASSUME NEW t \in TaskRecords, t.at \in ReplacePositions, t.job \in JobRecords,
           t.at \in {"record", "retry"} => t.segment \in Segments
    PROVE  LET r == Replacement(t)
               f == t.segment[1]
           IN  /\ r \in JobRecords /\ r.of = t.job.of
               /\ t.at \in {"failed", "preFailed"} => r = t.job
               /\ t.at \notin {"failed", "preFailed"} =>
                     /\ r.stamp = t.stamp
                     /\ r.error = IF t.at = "retry" THEN "checksum" ELSE "none"
                     /\ r.exact = (t.at = "exact" \/ t.job.exact)
                     /\ r.state = CASE t.at = "fetching" -> "FetchingManifest"
                                    [] t.at = "exact" -> "Paused"
                                    [] t.at = "mark" -> "Downloading"
                                    [] t.at \in {"select", "record"} -> t.job.state
                                    [] t.at = "verifying" -> "Verifying"
                                    [] t.at = "retry" -> "Failed"
                     /\ r.done = CASE t.at = "exact" -> Nothing
                                   [] t.at = "record" -> [t.job.done EXCEPT ![f] = Size[f]]
                                   [] t.at = "retry" -> [t.job.done EXCEPT ![f] = 0]
                                   [] OTHER -> t.job.done
<1> DEFINE r == Replacement(t)
           f == t.segment[1]
           now == [t.job EXCEPT !.stamp = t.stamp, !.error = "none"]
<1>1. /\ now \in JobRecords /\ now.of = t.job.of /\ now.stamp = t.stamp /\ now.error = "none"
      /\ now.exact = t.job.exact /\ now.done = t.job.done /\ now.state = t.job.state
      /\ t.job.exact \in BOOLEAN
  BY DEF JobRecords, TaskRecords
<1>2. Nothing \in [Files -> Nat]
  BY DEF Nothing
<1>3. CASE t.at = "fetching"
  <2>1. r = [now EXCEPT !.state = "FetchingManifest"]
    BY <1>3 DEF Replacement
  <2> HIDE DEF r, now
  <2>2. /\ r \in JobRecords /\ r.of = now.of /\ r.stamp = now.stamp /\ r.error = now.error
        /\ r.exact = now.exact /\ r.done = now.done /\ r.state = "FetchingManifest"
    BY <1>1, <2>1 DEF JobRecords, JobStates
  <2> QED
    BY <1>1, <1>3, <2>2 DEF r
<1>4. CASE t.at = "exact"
  <2>1. r = [now EXCEPT !.state = "Paused", !.exact = TRUE, !.done = Nothing]
    BY <1>4 DEF Replacement
  <2> HIDE DEF r, now
  <2>2. /\ r \in JobRecords /\ r.of = now.of /\ r.stamp = now.stamp /\ r.error = now.error
        /\ r.exact = TRUE /\ r.done = Nothing /\ r.state = "Paused"
    BY <1>1, <1>2, <2>1 DEF JobRecords, JobStates
  <2> QED
    BY <1>1, <1>4, <2>2 DEF r
<1>5. CASE t.at = "mark"
  <2>1. r = [now EXCEPT !.state = "Downloading"]
    BY <1>5 DEF Replacement
  <2> HIDE DEF r, now
  <2>2. /\ r \in JobRecords /\ r.of = now.of /\ r.stamp = now.stamp /\ r.error = now.error
        /\ r.exact = now.exact /\ r.done = now.done /\ r.state = "Downloading"
    BY <1>1, <2>1 DEF JobRecords, JobStates
  <2> QED
    BY <1>1, <1>5, <2>2 DEF r
<1>6. CASE t.at = "select"
  <2>1. r = now
    BY <1>6 DEF Replacement
  <2> HIDE DEF now
  <2> QED
    BY <1>1, <1>6, <2>1
<1>7. CASE t.at = "record"
  <2>1. f \in Files /\ Size[f] \in Nat
    BY <1>7, SegmentParts
  <2>2. r = [now EXCEPT !.done = [@ EXCEPT ![f] = Size[f]]]
    BY <1>1, <1>7 DEF Replacement, JobRecords
  <2> HIDE DEF r, now, f
  <2>3. [now.done EXCEPT ![f] = Size[f]] \in [Files -> Nat]
    BY <1>1, <2>1 DEF JobRecords
  <2>4. /\ r \in JobRecords /\ r.of = now.of /\ r.stamp = now.stamp /\ r.error = now.error
        /\ r.exact = now.exact /\ r.done = [now.done EXCEPT ![f] = Size[f]] /\ r.state = now.state
    BY <1>1, <2>2, <2>3 DEF JobRecords
  <2> QED
    BY <1>1, <1>7, <2>4 DEF r, f
<1>8. CASE t.at = "verifying"
  <2>1. r = [now EXCEPT !.state = "Verifying"]
    BY <1>8 DEF Replacement
  <2> HIDE DEF r, now
  <2>2. /\ r \in JobRecords /\ r.of = now.of /\ r.stamp = now.stamp /\ r.error = now.error
        /\ r.exact = now.exact /\ r.done = now.done /\ r.state = "Verifying"
    BY <1>1, <2>1 DEF JobRecords, JobStates
  <2> QED
    BY <1>1, <1>8, <2>2 DEF r
<1>9. CASE t.at = "retry"
  <2>1. f \in Files /\ Size[f] \in Nat
    BY <1>9, SegmentParts
  <2> DEFINE emptied == [now EXCEPT !.done = [@ EXCEPT ![f] = 0]]
  <2>2. r = Failed(emptied, "checksum")
    BY <1>1, <1>9 DEF Replacement, JobRecords
  <2> HIDE DEF r, now, f
  <2>3. [now.done EXCEPT ![f] = 0] \in [Files -> Nat]
    BY <1>1, <2>1 DEF JobRecords
  <2>4. /\ emptied \in JobRecords /\ emptied.of = now.of /\ emptied.stamp = now.stamp
        /\ emptied.exact = now.exact /\ emptied.done = [now.done EXCEPT ![f] = 0]
    BY <1>1, <2>3 DEF JobRecords
  <2> HIDE DEF emptied
  <2>5. /\ r \in JobRecords /\ r.of = now.of /\ r.stamp = now.stamp /\ r.error = "checksum"
        /\ r.exact = now.exact /\ r.done = [now.done EXCEPT ![f] = 0] /\ r.state = "Failed"
    BY <2>2, <2>4, FailedParts
  <2> QED
    BY <1>1, <1>9, <2>5 DEF r, f
<1>10. CASE t.at \in {"failed", "preFailed"}
  BY <1>10 DEF Replacement
<1> QED
  BY <1>3, <1>4, <1>5, <1>6, <1>7, <1>8, <1>9, <1>10 DEF ReplacePositions

-----------------------------------------------------------------------------
(* The task and the document *)

\* load_recovering_interrupted_job writes a document at rest, of the time of the
\* task.
LEMMA TaskRecoversSafe ==
    ASSUME PublicationInv, TaskRecovers
    PROVE  PublicationInv'
<1> USE DEF PublicationInv, TaskInv, OthersInv
<1>1. /\ task # None /\ task.at \in {"recover", "reconcile", "load"} /\ task \in TaskRecords /\ ~task.detached
      /\ Free /\ task.stamp = clock /\ clock \in Nat
      /\ UNCHANGED <<staged, staging, published, writes, lock, stragglers, command, clock, held, spent>>
  BY Working DEF TaskRecovers, filesUnchanged, restUnchanged, TaskIsEquipped, Types
<1>2. CASE Settled
  <2> DEFINE j == Recovered(job, task.stamp)
  <2>1. job # None /\ job \in JobRecords /\ job.stamp <= clock /\ job.state # "Publishing"
    BY <1>2 DEF Settled, Types, CommandIsExclusive
  <2>2. /\ j \in JobRecords /\ j.of = job.of /\ j.stamp = clock /\ j.state # "Publishing"
    BY <1>1, <2>1, RecoveredParts
  <2>3. /\ job' = j
        /\ \/ task' = None
           \/ \E p \in {"preFail", "disk", "capacity"} :
                /\ task.at \in {"recover", "reconcile"}
                /\ task' = [task EXCEPT !.at = p, !.job = j]
                /\ task.at = "recover" /\ p # "preFail" => j.of = task.of
           \/ task.at = "load" /\ task' = [task EXCEPT !.at = "mark", !.job = j, !.of = j.of]
    <3>1. /\ \A p : [Go(p) EXCEPT !.job = j] = [task EXCEPT !.at = p, !.job = j]
          /\ [Go("mark") EXCEPT !.job = j, !.of = j.of] = [task EXCEPT !.at = "mark", !.job = j, !.of = j.of]
      BY <1>1 DEF Go, TaskRecords
    <3> HIDE DEF j
    <3> QED
      BY <1>1, <1>2, <3>1 DEF TaskRecovers, j
  <2> HIDE DEF j
  <2>4. CASE task' = None
    <3>1. OthersInv'
      BY <1>1, <2>1, <2>2, <2>3, <2>4, TaskWrites DEF JobRecords, NotOlder, Stamps, Publishing
    <3> QED
      BY <2>4, <3>1 DEF TaskIsEquipped, TaskIsAlone
  <2>5. ASSUME NEW p \in {"preFail", "disk", "capacity"},
               task.at \in {"recover", "reconcile"},
               task' = [task EXCEPT !.at = p, !.job = j],
               task.at = "recover" /\ p # "preFail" => j.of = task.of
        PROVE  PublicationInv'
    <3>2. /\ task' \in TaskRecords /\ task'.of = task.of /\ task'.stamp = task.stamp /\ ~task'.detached
          /\ task'.job = j /\ task'.at = p /\ task'.prefix = task.prefix
      BY <1>1, <2>2, <2>5 DEF TaskRecords, Positions
    <3>3. Calm /\ p # "preFail" => j.of = task.of
      BY <1>1, <2>1, <2>2, <2>5 DEF TaskIsAlone
    <3>4. OthersInv'
      BY <1>1, <2>1, <2>2, <2>3, <3>2, Working, TaskWrites DEF JobRecords, NotOlder, Stamps, Publishing
    <3>5. TaskInv'
      BY <1>1, <2>2, <2>3, <3>2, <3>3, NoneAssumption
      DEF TaskIsEquipped, TaskIsAlone, Holding, Fetching, Filling, Checking, Publishing
    <3> QED
      BY <3>4, <3>5
  <2>6. CASE task.at = "load" /\ task' = [task EXCEPT !.at = "mark", !.job = j, !.of = j.of]
    <3>2. /\ task' \in TaskRecords /\ task'.of = j.of /\ task'.stamp = task.stamp /\ ~task'.detached
          /\ task'.job = j /\ task'.at = "mark" /\ task'.prefix = task.prefix
      <4>1. j \in JobRecords /\ j.of \in Models /\ "mark" \in Positions
        BY <2>2 DEF JobRecords, Positions
      <4> QED
        BY <1>1, <2>6, <4>1 DEF TaskRecords
    <3>4. OthersInv'
      BY <1>1, <2>1, <2>2, <2>3, <2>6, <3>2, Working, TaskWrites DEF JobRecords, NotOlder, Stamps, Publishing
    <3>5. TaskInv'
      BY <1>1, <2>2, <2>3, <3>2, NoneAssumption
      DEF TaskIsEquipped, TaskIsAlone, Holding, Fetching, Filling, Checking, Publishing
    <3> QED
      BY <3>4, <3>5
  <2> QED
    BY <2>3, <2>4, <2>5, <2>6
<1>3. CASE ~Settled
  <2>1. /\ job' = job
        /\ task' = None \/ \E p \in {"create", "preFail"} : task' = Go(p) /\ (p = "create" => job = None)
    BY <1>1, <1>3 DEF TaskRecovers
  <2>2. task' # None =>
          /\ task' \in TaskRecords /\ task'.of = task.of /\ task'.stamp = task.stamp /\ ~task'.detached
          /\ task'.job = task.job /\ task'.at \in {"create", "preFail"} /\ task'.prefix = task.prefix
          /\ task'.at = "create" => job = None
    <3> SUFFICES ASSUME NEW p \in {"create", "preFail"}, task' = Go(p), p = "create" => job = None
                 PROVE  /\ task' \in TaskRecords /\ task'.of = task.of /\ task'.stamp = task.stamp /\ ~task'.detached
                        /\ task'.job = task.job /\ task'.at = p /\ task'.prefix = task.prefix
      BY <2>1
    <3>1. p \in Positions
      BY DEF Positions
    <3> QED
      BY <1>1, <3>1 DEF Go, TaskRecords
  <2>3. OthersInv'
    BY <1>1, <1>3, <2>1, <2>2, Working, TaskWrites DEF NotOlder, Stamps, Publishing, Settled
  <2>4. TaskInv'
    BY <1>1, <2>1, <2>2
    DEF TaskIsEquipped, TaskIsAlone, Holding, Fetching, Filling, Checking, Publishing
  <2> QED
    BY <2>3, <2>4
<1> QED
  BY <1>2, <1>3

\* create writes a document where there is none.
LEMMA TaskCreatesSafe ==
    ASSUME PublicationInv, TaskCreates
    PROVE  PublicationInv'
<1> USE DEF PublicationInv, TaskInv, OthersInv
<1> DEFINE j == NewJob(task.of, task.stamp)
<1>1. /\ task # None /\ task.at = "create" /\ task \in TaskRecords /\ ~task.detached
      /\ Free /\ task.stamp = clock /\ clock \in Nat
      /\ UNCHANGED <<staged, staging, published, writes, lock, stragglers, command, clock, held, spent>>
  BY Working DEF TaskCreates, filesUnchanged, restUnchanged, TaskIsEquipped, Types
<1>2. j \in JobRecords /\ j.of = task.of /\ j.stamp = clock /\ j.state = "CheckingDisk"
  BY <1>1 DEF NewJob, JobRecords, JobStates, TaskRecords, Nothing
<1>3. \/ job = None /\ job' = j /\ task' = [Go("disk") EXCEPT !.job = j]
      \/ job' = job /\ task' = Go("preFail")
  BY DEF TaskCreates
<1> HIDE DEF j
<1>4. CASE job = None /\ job' = j /\ task' = [Go("disk") EXCEPT !.job = j]
  <2>1. /\ task' \in TaskRecords /\ task'.of = task.of /\ task'.stamp = task.stamp /\ ~task'.detached
        /\ task'.job = j /\ task'.at = "disk" /\ task'.prefix = task.prefix
    BY <1>1, <1>2, <1>4 DEF TaskRecords, Positions, Go
  <2>2. OthersInv'
    BY <1>1, <1>2, <1>4, <2>1, Working, TaskWrites DEF NotOlder, Stamps, Publishing
  <2>3. TaskInv'
    BY <1>1, <1>2, <1>4, <2>1, NoneAssumption
    DEF TaskIsEquipped, TaskIsAlone, Holding, Fetching, Filling, Checking, Publishing
  <2> QED
    BY <2>2, <2>3
<1>5. CASE job' = job /\ task' = Go("preFail")
  <2>1. /\ task' \in TaskRecords /\ task'.of = task.of /\ task'.stamp = task.stamp /\ ~task'.detached
        /\ task'.job = task.job /\ task'.at = "preFail" /\ task'.prefix = task.prefix
    BY <1>1, <1>5 DEF TaskRecords, Positions, Go
  <2>2. OthersInv'
    BY <1>1, <1>5, <2>1, Working, TaskWrites DEF NotOlder, Stamps, Publishing
  <2>3. TaskInv'
    BY <1>1, <1>5, <2>1
    DEF TaskIsEquipped, TaskIsAlone, Holding, Fetching, Filling, Checking, Publishing
  <2> QED
    BY <2>2, <2>3
<1> QED
  BY <1>3, <1>4, <1>5

\* A document at which a task asks for a replacement.
LEMMA TaskReplacement ==
    ASSUME PublicationInv, task # None, task.at \in ReplacePositions
    PROVE  /\ task.job \in JobRecords
           /\ task.at \in {"record", "retry"} => task.segment \in Segments
           /\ Replacement(task) \in JobRecords /\ Replacement(task).of = task.job.of
           /\ Replacement(task).stamp <= clock /\ Replacement(task).state # "Publishing"
<1> USE DEF PublicationInv, TaskInv, OthersInv
<1>1. task \in TaskRecords /\ clock \in Nat /\ task.stamp = clock /\ task.at # "preFailed"
  BY Working DEF Types, TaskIsEquipped
<1>2. task.job \in JobRecords /\ task.job.stamp <= clock
  BY <1>1 DEF ReplacePositions, TaskIsEquipped, TaskRecords, Holding, Fetching, Filling, Checking
<1>3. task.at \in {"record", "retry"} => task.segment \in Segments
  BY DEF TaskIsEquipped
<1>4. Replacement(task) \in JobRecords /\ Replacement(task).of = task.job.of
  BY <1>1, <1>2, <1>3, ReplacementParts
<1>5. Replacement(task).stamp <= clock
  <2>1. task.at \in {"failed", "preFailed"} => Replacement(task) = task.job
    BY <1>1, <1>2, <1>3, ReplacementParts
  <2>2. task.at \notin {"failed", "preFailed"} => Replacement(task).stamp = task.stamp
    BY <1>1, <1>2, <1>3, ReplacementParts
  <2> QED
    BY <1>1, <1>2, <2>1, <2>2
<1>6. Replacement(task).state # "Publishing"
  <2>1. CASE task.at = "failed"
    BY <1>1, <1>2, <2>1, ReplacementParts DEF TaskIsEquipped
  <2>2. CASE task.at # "failed"
    <3>1. task.at \in {"select", "record"} => task.job.state # "Publishing"
      BY DEF TaskIsEquipped, Filling
    <3> QED
      BY <1>1, <1>2, <1>3, <2>2, <3>1, ReplacementParts DEF ReplacePositions
  <2> QED
    BY <2>1, <2>2
<1> QED
  BY <1>2, <1>3, <1>4, <1>5, <1>6

\* replace_current never takes the document back in time.
LEMMA TaskReplacesSafe ==
    ASSUME PublicationInv, TaskReplaces
    PROVE  PublicationInv'
<1> USE DEF PublicationInv, TaskInv, OthersInv
<1> DEFINE r == Replacement(task)
<1>1. /\ task # None /\ task.at \in ReplacePositions /\ task \in TaskRecords /\ ~task.detached
      /\ Free /\ task.stamp = clock /\ clock \in Nat
      /\ UNCHANGED <<staged, staging, published, writes, lock, stragglers, command, clock, held, spent>>
      /\ \/ Replaceable(r) /\ job' = r /\ task' = Replaced(task, r)
         \/ job' = job /\ task' = Rejected(task)
  BY Working DEF TaskReplaces, filesUnchanged, restUnchanged, TaskIsEquipped, Types
<1>2. /\ r \in JobRecords /\ r.of = task.job.of /\ r.stamp <= clock /\ r.state # "Publishing"
      /\ task.at \notin {"failed", "preFailed"} => task.at \in Holding
      /\ Calm => ~Publishing
  BY <1>1, TaskReplacement, Working DEF ReplacePositions, Holding, Fetching, Filling, Checking
<1> HIDE DEF r
<1>3. CASE Replaceable(r) /\ job' = r /\ task' = Replaced(task, r)
  <2>1. job # None /\ job.of = r.of /\ r.stamp >= job.stamp
    BY <1>3 DEF Replaceable
  <2>a. ~Publishing
    BY <1>3 DEF Replaceable, Publishing, CanReplace
  <2>2. /\ task' \in TaskRecords /\ task'.of = task.of /\ task'.stamp = task.stamp /\ ~task'.detached
        /\ task'.job \in {r, task.job} /\ task'.prefix = task.prefix
        /\ task'.at \in {"manifest", "reconcile", "window", "open", "verify"}
        /\ task.at \in Holding
        /\ task'.at = "window" => task'.job = r /\ r.state = "Downloading"
        /\ task'.at = "open" => task'.job = task.job /\ task'.segment = task.segment /\ task.at = "select"
        \/ task' = None
    <3>1. Pending(r) \subseteq Segments
      BY DEF Pending
    <3>2. CASE task.at = "fetching"
      BY <1>1, <1>2, <1>3, <3>2 DEF Replaced, TaskRecords, Positions
    <3>3. CASE task.at = "exact"
      BY <1>1, <1>2, <1>3, <3>3 DEF Replaced, TaskRecords, Positions
    <3>4. CASE task.at = "mark"
      <4>1. r.state = "Downloading"
        BY <1>1, <3>4, TaskReplacement, ReplacementParts DEF r
      <4>2. task' = [task EXCEPT !.at = "window", !.job = r, !.queue = Pending(r)]
        BY <1>3, <3>4 DEF Replaced
      <4> QED
        BY <1>1, <1>2, <3>1, <3>4, <4>1, <4>2 DEF TaskRecords, Positions
    <3>5. CASE task.at = "select"
      BY <1>1, <1>2, <1>3, <3>5 DEF Replaced, TaskRecords, Positions
    <3>6. CASE task.at = "record"
      <4>1. r.state = "Downloading"
        BY <1>1, <3>6, TaskReplacement, ReplacementParts DEF r, TaskIsEquipped, Filling
      <4> QED
        BY <1>1, <1>2, <1>3, <3>6, <4>1 DEF Replaced, TaskRecords, Positions
    <3>7. CASE task.at = "verifying"
      BY <1>1, <1>2, <1>3, <3>7 DEF Replaced, TaskRecords, Positions
    <3>8. CASE task.at \in {"retry", "failed", "preFailed"}
      BY <1>3, <3>8 DEF Replaced
    <3> QED
      BY <1>1, <3>2, <3>3, <3>4, <3>5, <3>6, <3>7, <3>8 DEF ReplacePositions
  <2>3. OthersInv'
    BY <1>1, <1>2, <1>3, <2>1, <2>2, <2>a, Working, TaskWrites DEF NotOlder, Stamps, Publishing, ReplacePositions
  <2>4. CASE task' = None
    BY <2>3, <2>4 DEF TaskIsEquipped, TaskIsAlone
  <2>5. CASE task' # None
    <3>1. (Calm => task.job.of = task.of) /\ task.job \in JobRecords /\ task.job.stamp <= clock
      BY <1>1, <2>2, <2>5, TaskReplacement, NoneAssumption DEF TaskIsEquipped, TaskIsAlone
    <3>2. /\ task'.job \in JobRecords /\ task'.job.stamp <= clock
          /\ Calm => task'.job.of = task.of /\ job'.of = task.of
      BY <1>2, <1>3, <2>2, <2>5, <3>1
    <3>3. task'.at \in {"window", "open"} => task'.job.state = "Downloading"
      BY <2>2, <2>5, <1>1 DEF TaskIsEquipped, Filling
    <3>4. task'.at = "open" => task'.segment \in Segments
      BY <1>1, <2>2, <2>5 DEF TaskIsEquipped
    <3>5. TaskInv'
      BY <1>1, <1>2, <1>3, <2>2, <2>5, <3>1, <3>2, <3>3, <3>4, NoneAssumption
      DEF TaskIsEquipped, TaskIsAlone, Holding, Fetching, Filling, Checking, Publishing
    <3> QED
      BY <2>3, <3>5
  <2> QED
    BY <2>4, <2>5
<1>4. CASE job' = job /\ task' = Rejected(task)
  <2>1. /\ task' \in TaskRecords /\ task'.of = task.of /\ task'.stamp = task.stamp /\ ~task'.detached
        /\ task'.job = task.job /\ task'.prefix = task.prefix
        /\ task'.at \in {"preFail", "fail"}
        \/ task' = None
    <3>1. CASE task.at \in {"fetching", "exact"}
      BY <1>1, <1>4, <3>1 DEF Rejected, TaskRecords, Positions
    <3>2. CASE task.at \in {"select", "record"}
      BY <1>1, <1>4, <3>2 DEF Rejected, TaskRecords, Positions
    <3>3. CASE task.at \notin {"fetching", "exact", "select", "record"}
      BY <1>4, <3>3 DEF Rejected
    <3> QED
      BY <3>1, <3>2, <3>3
  <2>2. OthersInv'
    BY <1>1, <1>4, <2>1, Working, TaskWrites DEF NotOlder, Stamps, Publishing, ReplacePositions
  <2>3. TaskInv'
    BY <1>1, <1>2, <1>4, <2>1
    DEF TaskIsEquipped, TaskIsAlone, Holding, Fetching, Filling, Checking, Publishing
  <2> QED
    BY <2>2, <2>3
<1> QED
  BY <1>1, <1>3, <1>4

\* replace_current_for_publication marks a job whose files are intact.
LEMMA TaskIntendsSafe ==
    ASSUME PublicationInv, TaskIntends
    PROVE  PublicationInv'
<1> USE DEF PublicationInv, TaskInv, OthersInv
<1>1. /\ task # None /\ task.at = "intent" /\ task \in TaskRecords /\ ~task.detached
      /\ Free /\ task.stamp = clock /\ clock \in Nat
      /\ UNCHANGED <<staged, staging, published, writes, lock, stragglers, command, clock, held, spent>>
      /\ \/ IntentAllowed(task.job) /\ job' = task.job /\ task' = Go("publish")
         \/ job' = job /\ task' = Go("fail")
  BY Working DEF TaskIntends, filesUnchanged, restUnchanged, TaskIsEquipped, Types
<1>2. /\ task.job \in JobRecords /\ task.job.stamp <= clock
      /\ task.job.state = "Publishing"
      /\ Calm => task.job.of = task.of /\ AllIntact(task.of) /\ ~Publishing
  BY <1>1, Working DEF TaskIsEquipped, TaskIsAlone, TaskRecords, Holding
<1>3. /\ task' \in TaskRecords /\ task'.of = task.of /\ task'.stamp = task.stamp /\ ~task'.detached
      /\ task'.job = task.job /\ task'.prefix = task.prefix
      /\ \/ task'.at = "publish" /\ job' = task.job
         \/ task'.at = "fail" /\ job' = job
      /\ job' = task.job /\ job' # job => IntentAllowed(task.job)
  <2>1. task' = Go("publish") \/ task' = Go("fail")
    BY <1>1
  <2>2. "publish" \in Positions /\ "fail" \in Positions
    BY DEF Positions
  <2> QED
    BY <1>1, <2>1, <2>2 DEF TaskRecords, Go
<1>4. IntentAllowed(task.job) =>
        job # None /\ ~Publishing /\ task.job.stamp >= job.stamp /\ task.job.of \in staging
  BY <1>2 DEF IntentAllowed, Publishing
<1>5. OthersInv'
  BY <1>1, <1>2, <1>3, <1>4, Working, TaskWrites DEF NotOlder, Stamps
<1>6. TaskInv'
  BY <1>1, <1>2, <1>3, NoneAssumption
  DEF TaskIsEquipped, TaskIsAlone, Holding, Fetching, Filling, Checking, Publishing
<1> QED
  BY <1>5, <1>6

\* A task that pauses leaves a paused document.
LEMMA TaskPausesSafe ==
    ASSUME PublicationInv, TaskPauses
    PROVE  PublicationInv'
<1> USE DEF PublicationInv, TaskInv, OthersInv
<1>1. /\ task # None /\ task.at = "pause" /\ task.stamp = clock /\ clock \in Nat
      /\ Free /\ task' = None
      /\ UNCHANGED <<staged, staging, published, writes, lock, stragglers, command, clock, held, spent>>
      /\ job' = IF Settled THEN Paused(job, task.stamp) ELSE job
  BY Working DEF TaskPauses, filesUnchanged, restUnchanged, TaskIsEquipped, Types
<1>2. job' = job \/ (job # None /\ ~Publishing /\ job \in JobRecords /\ job' = Paused(job, clock))
  BY <1>1 DEF Settled, Types, Publishing
<1>3. job' = job \/ (/\ job # None /\ ~Publishing /\ job' \in JobRecords /\ job'.stamp = clock /\ clock >= job.stamp
                     /\ job'.state # "Publishing")
  BY <1>1, <1>2, PausedParts DEF CommandIsExclusive, JobRecords
<1>4. OthersInv'
  BY <1>1, <1>3, TaskWrites DEF NotOlder, Stamps
<1> QED
  BY <1>1, <1>4 DEF TaskIsEquipped, TaskIsAlone

\* A task that fails leaves a paused document, then marks it failed.
LEMMA TaskFailsSafe ==
    ASSUME PublicationInv, TaskFails
    PROVE  PublicationInv'
<1> USE DEF PublicationInv, TaskInv, OthersInv
<1>1. /\ task # None /\ task.at \in {"fail", "preFail"} /\ task \in TaskRecords /\ ~task.detached
      /\ task.stamp = clock /\ clock \in Nat /\ Free
      /\ UNCHANGED <<staged, staging, published, writes, lock, stragglers, command, clock, held, spent>>
  BY Working DEF TaskFails, filesUnchanged, restUnchanged, TaskIsEquipped, Types
<1>2. CASE Settled
  <2>1. /\ job # None /\ ~Publishing /\ job \in JobRecords /\ job' = Paused(job, clock)
        /\ task' = [Go("failed") EXCEPT !.job = Failed(job', Code(task))]
    BY <1>1, <1>2 DEF TaskFails, Settled, Types, Publishing
  <2>2. /\ job' \in JobRecords /\ job'.stamp = clock /\ job'.state = "Paused"
        /\ clock >= job.stamp
    BY <1>1, <2>1, PausedParts DEF CommandIsExclusive, JobRecords
  <2> DEFINE j == Failed(job', Code(task))
  <2>3. j \in JobRecords /\ j.stamp = clock /\ j.state = "Failed"
    BY <2>2, FailedParts DEF Code
  <2>4. task' = [task EXCEPT !.at = "failed", !.job = j]
    BY <1>1, <2>1 DEF Go, TaskRecords
  <2> HIDE DEF j
  <2>5. /\ task' \in TaskRecords /\ task'.of = task.of /\ task'.stamp = task.stamp /\ ~task'.detached
        /\ task'.job = j /\ task'.at = "failed" /\ task'.prefix = task.prefix
    BY <1>1, <2>3, <2>4 DEF TaskRecords, Positions
  <2>6. OthersInv'
    BY <1>1, <2>1, <2>2, <2>5, Working, TaskWrites DEF NotOlder, Stamps, Publishing
  <2>7. TaskInv'
    BY <1>1, <2>2, <2>3, <2>5, NoneAssumption
    DEF TaskIsEquipped, TaskIsAlone, Holding, Fetching, Filling, Checking, Publishing
  <2> QED
    BY <2>6, <2>7
<1>3. CASE ~Settled
  <2>1. job' = job /\ task' = None
    BY <1>3 DEF TaskFails
  <2>2. OthersInv'
    BY <1>1, <2>1, TaskWrites DEF NotOlder, Stamps, Publishing
  <2> QED
    BY <2>1, <2>2 DEF TaskIsEquipped, TaskIsAlone
<1> QED
  BY <1>2, <1>3

-----------------------------------------------------------------------------
(* Publication *)

\* A rename takes the staging directory away, and the writers of its files with it.
LEMMA RenameParts ==
    ASSUME PublicationInv, Renamable, Rename
    PROVE  /\ job' = job /\ Publishing /\ lock' = "publish"
           /\ staged' \in [Models -> [Files -> Seq(BOOLEAN)]]
           /\ \A m \in Models, f \in Files : Len(staged'[m][f]) <= Size[f]
           /\ staging' \subseteq Models
           /\ published' \in [Models -> {"none", "intact", "broken", "foreign"}]
           /\ writes' \subseteq WriteRecords
           /\ \A w \in writes' : Len(w.bytes) <= Size[w.file]
           /\ writes = {} => writes' = {}
<1> USE DEF PublicationInv, TaskInv, OthersInv
<1> DEFINE m == job.of
           moved == {IF w.of = m THEN [w EXCEPT !.moved = TRUE] ELSE w : w \in writes}
<1>1. job' = job /\ Publishing /\ job \in JobRecords /\ m \in Models /\ lock' = "publish"
  BY DEF Rename, Renamable, Publishing, Types, JobRecords
<1>2. /\ staged' = [staged EXCEPT ![m] = NoFiles] /\ staging' = staging \ {m}
      /\ published' = [published EXCEPT ![m] = IF @ = "none" THEN Publication(m) ELSE @]
      /\ writes' = IF published[m] = "none" THEN moved ELSE WritesWithout(m)
  BY DEF Rename
<1>3. /\ staged \in [Models -> [Files -> Seq(BOOLEAN)]]
      /\ \A n \in Models, f \in Files : Len(staged[n][f]) <= Size[f]
      /\ staging \subseteq Models
      /\ published \in [Models -> {"none", "intact", "broken", "foreign"}]
      /\ writes \subseteq WriteRecords
      /\ \A w \in writes : Len(w.bytes) <= Size[w.file]
  BY DEF Types
<1> HIDE DEF m
<1>4. staged' \in [Models -> [Files -> Seq(BOOLEAN)]]
  BY <1>1, <1>2, <1>3, NothingHeld
<1>5. \A n \in Models, f \in Files : Len(staged'[n][f]) <= Size[f]
  BY <1>1, <1>2, <1>3, NothingHeld, DownloadAssumption
<1>6. published' \in [Models -> {"none", "intact", "broken", "foreign"}]
  <2>1. Publication(m) \in {"intact", "broken"}
    BY DEF Publication
  <2> QED
    BY <1>1, <1>2, <1>3, <2>1
<1>7. /\ moved \subseteq WriteRecords
      /\ \A w \in moved : Len(w.bytes) <= Size[w.file]
      /\ writes = {} => moved = {}
  <2>1. ASSUME NEW w \in writes
        PROVE  /\ [w EXCEPT !.moved = TRUE] \in WriteRecords
               /\ [w EXCEPT !.moved = TRUE].bytes = w.bytes /\ [w EXCEPT !.moved = TRUE].file = w.file
    BY <1>3 DEF WriteRecords
  <2> QED
    BY <1>3, <2>1
<1>8. WritesWithout(m) \subseteq writes
  BY DEF WritesWithout
<1> HIDE DEF moved
<1> QED
  BY <1>1, <1>2, <1>3, <1>4, <1>5, <1>6, <1>7, <1>8

\* In a calm instance it publishes what was verified, or finds it published.
LEMMA RenameIsVerified ==
    ASSUME PublicationInv, Calm, Renamable, Rename
    PROVE  PublicationIsVerified'
<1> USE DEF PublicationInv, TaskInv, OthersInv
<1> DEFINE m == job.of
<1>1. /\ job' = job /\ Publishing /\ m \in Models
      /\ published' = [published EXCEPT ![m] = IF @ = "none" THEN Publication(m) ELSE @]
      /\ published \in [Models -> {"none", "intact", "broken", "foreign"}]
  BY DEF Rename, Renamable, Publishing, Types, JobRecords
<1> HIDE DEF m
<1>2. (m \in staging /\ AllIntact(m)) \/ published[m] = "intact"
  BY <1>1 DEF PublicationIsVerified, m
<1>3. published[m] = "none" => Publication(m) = "intact"
  BY <1>2 DEF Publication
<1>4. published[m] \in {"none", "intact"}
  BY <1>2 DEF Renamable, m
<1>5. published' = [published EXCEPT ![m] = "intact"]
  BY <1>1, <1>3, <1>4
<1>6. published'[m] = "intact" /\ \A n \in Models : published'[n] # "broken"
  BY <1>1, <1>5 DEF PublicationIsVerified
<1> QED
  BY <1>1, <1>6 DEF PublicationIsVerified, m

\* While a publication holds the lock, no pause and no cancellation that holds is in force.
LEMMA RefreshedParts ==
    ASSUME PublicationInv, NEW ok \in BOOLEAN, Refreshed(ok)
    PROVE  /\ Publishing /\ lock' = "free" /\ job' \in {job, None}
           /\ Monotonic => held # "paused"
           /\ "create" \notin Lingering => held # "cancelled"
           /\ UNCHANGED <<staged, staging, published, writes>>
           /\ spent' \in [commands : Nat, crashes : Nat, faults : Nat]
<1> USE DEF PublicationInv, TaskInv, OthersInv
<1>1. /\ Publishing /\ lock' = "free" /\ job' \in {job, None}
      /\ UNCHANGED <<staged, staging, published, writes>>
  BY DEF Refreshed, CommandIsExclusive, filesUnchanged
<1>2. (Monotonic => held # "paused") /\ ("create" \notin Lingering => held # "cancelled")
  BY <1>1 DEF NotHeld, PauseIsKept, CancelIsKept, CancelHolds, Publishing
<1>3. spent' \in [commands : Nat, crashes : Nat, faults : Nat]
  BY FaultIsCounted DEF Refreshed, Types
<1> QED
  BY <1>1, <1>2, <1>3

\* publish_current_job up to the refresh, in a task.
LEMMA TaskPublishesSafe ==
    ASSUME PublicationInv, TaskPublishes
    PROVE  PublicationInv'
<1> USE DEF PublicationInv, TaskInv, OthersInv
<1>1. /\ task # None /\ task.at = "publish" /\ task \in TaskRecords /\ ~task.detached
      /\ UNCHANGED <<stragglers, command, clock, held, spent>>
      /\ command[2] # "acting" /\ NotHeld /\ lock = "free"
      /\ \A f \in Files : Len(task.prefix[f]) <= Size[f]
  BY Working DEF TaskPublishes, restUnchanged, CommandIsExclusive, Free
<1>2. CASE Renamable /\ Rename /\ task' = Go("refresh")
  <2>1. /\ job' = job /\ Publishing /\ lock' = "publish"
        /\ staged' \in [Models -> [Files -> Seq(BOOLEAN)]]
        /\ \A m \in Models, f \in Files : Len(staged'[m][f]) <= Size[f]
        /\ staging' \subseteq Models
        /\ published' \in [Models -> {"none", "intact", "broken", "foreign"}]
        /\ writes' \subseteq WriteRecords
        /\ \A w \in writes' : Len(w.bytes) <= Size[w.file]
        /\ writes = {} => writes' = {}
    BY <1>2, RenameParts
  <2>a. Calm => PublicationIsVerified'
    BY <1>2, RenameIsVerified
  <2>2. /\ task' \in TaskRecords /\ task'.of = task.of /\ task'.stamp = task.stamp /\ ~task'.detached
        /\ task'.job = task.job /\ task'.at = "refresh" /\ task'.prefix = task.prefix
    <3>1. task \in TaskRecords /\ ~task.detached /\ "refresh" \in Positions
      BY <1>1 DEF Positions
    <3> HIDE DEF PublicationInv, TaskInv, OthersInv
    <3> QED
      BY <1>2, <3>1 DEF TaskRecords, Go
  <2>3. Types'
    BY <1>1, <2>1, <2>2 DEF Types
  <2>4. CommandIsExclusive' /\ PauseIsKept' /\ CancelIsKept'
    BY <1>1, <2>1 DEF CommandIsExclusive, NotHeld, PauseIsKept, CancelIsKept, CancelHolds, Publishing
  <2>b. StragglersAreShaped'
    BY <1>1, <2>1 DEF StragglersAreShaped
  <2>5. Calm => StragglersAreLate'
    BY <1>1, <2>1 DEF StragglersAreLate, Publishing, Late
  <2>6. TaskInv'
    BY <1>1, <2>1, <2>2
    DEF TaskIsEquipped, TaskIsAlone, Holding, Fetching, Filling, Checking, Publishing
  <2> QED
    BY <2>a, <2>b, <2>3, <2>4, <2>5, <2>6
<1>3. CASE task' = None /\ UNCHANGED <<diskVars, lock>>
  <2>1. OthersInv'
    BY <1>1, <1>3, TaskWrites DEF diskVars, Free, NotOlder, Stamps
  <2> QED
    BY <1>3, <2>1 DEF TaskIsEquipped, TaskIsAlone
<1> QED
  BY <1>2, <1>3 DEF TaskPublishes

\* publish_current_job from the refresh on, in a task.
LEMMA TaskRefreshesSafe ==
    ASSUME PublicationInv, TaskRefreshes
    PROVE  PublicationInv'
<1> USE DEF PublicationInv, TaskInv, OthersInv
<1>1. PICK ok \in BOOLEAN : Refreshed(ok)
  BY DEF TaskRefreshes
<1>2. /\ Publishing /\ lock' = "free" /\ job' \in {job, None}
      /\ UNCHANGED <<staged, staging, published, writes>>
      /\ spent' \in [commands : Nat, crashes : Nat, faults : Nat]
  BY <1>1, RefreshedParts
<1>3. /\ task # None /\ NotHeld /\ task' = None /\ UNCHANGED <<stragglers, command, clock, held>>
  BY DEF TaskRefreshes, restUnchanged, CommandIsExclusive
<1>4. Types'
  BY <1>2, <1>3 DEF Types
<1>5. CommandIsExclusive' /\ PauseIsKept' /\ CancelIsKept'
  BY <1>2, <1>3 DEF CommandIsExclusive, NotHeld, PauseIsKept, CancelIsKept, CancelHolds
<1>6. StragglersAreShaped' /\ (Calm => StragglersAreLate')
  BY <1>2, <1>3 DEF StragglersAreShaped, StragglersAreLate, Publishing, Late
<1>7. Calm => PublicationIsVerified'
  BY <1>2, <1>3 DEF PublicationIsVerified, Publishing, AllIntact
<1> QED
  BY <1>3, <1>4, <1>5, <1>6, <1>7 DEF TaskIsEquipped, TaskIsAlone

-----------------------------------------------------------------------------
(* Stragglers *)

\* What is known of a straggler; without an overlap it is the only one.
LEMMA StragglerParts ==
    ASSUME PublicationInv, NEW o \in stragglers
    PROVE  /\ o \in StragglerRecords /\ o.of \in Models /\ o.stamp \in Nat /\ o.stamp <= clock
           /\ clock \in Nat /\ (job # None => job \in JobRecords /\ job.stamp \in Nat /\ job.stamp <= clock)
           /\ o.op = "replace" \/ o.op \in Lingering
           /\ o.op \in {"create", "replace", "intent"} =>
                o.job \in JobRecords /\ o.job.stamp \in Nat /\ o.job.stamp <= clock
           /\ o.op \in {"create", "replace"} => o.job.state # "Publishing"
           /\ o.op \in {"open", "truncate"} => o.segment \in Segments
           /\ ~Overlap => stragglers = {o}
<1> USE DEF PublicationInv, OthersInv
<1>1. o \in StragglerRecords /\ clock \in Nat /\ (job # None => job \in JobRecords)
  BY DEF Types
<1>2. o.job \in JobRecords \cup {None} /\ o.of \in Models /\ o.stamp \in Nat
  BY <1>1 DEF StragglerRecords
<1>3. job # None => job.stamp \in Nat /\ job.stamp <= clock
  BY <1>1 DEF JobRecords, CommandIsExclusive
<1>4. o.op \in {"create", "replace", "intent"} => o.job \in JobRecords /\ o.job.stamp \in Nat
  BY <1>2 DEF StragglersAreShaped, JobRecords
<1> QED
  BY <1>1, <1>2, <1>3, <1>4 DEF StragglersAreShaped

\* What a straggler writes, if it is not refused.
LEMMA StragglerWritten ==
    ASSUME PublicationInv, NEW o \in stragglers, NEW w, w = Writes(o)
    PROVE  /\ w = job \/ (w \in JobRecords /\ w.stamp <= clock /\ ~Publishing)
           /\ job # None => w # None /\ w.of = job.of
           /\ job = None /\ w # job => o.op = "create"
           /\ job # None /\ job.state \in {"Paused", "Failed"} =>
                 \/ w.state \in {"Paused", "Failed"}
                 \/ o.op = "replace" /\ o.job.state # "Failed" /\ o.job.stamp >= job.stamp
           /\ w # job /\ w.state = "Publishing" => o.op = "intent" /\ IntentAllowed(o.job) /\ w = o.job
           /\ job # None /\ o.op \notin Rewinding => w.stamp >= job.stamp
           /\ o.op \in {"open", "truncate"} => w = job
<1> USE DEF PublicationInv, OthersInv
<1>0. /\ Types /\ o.stamp \in Nat /\ o.stamp <= clock /\ clock \in Nat
      /\ job # None => job \in JobRecords /\ job.stamp \in Nat /\ job.stamp <= clock
      /\ o.op \in {"create", "replace", "intent"} =>
           o.job \in JobRecords /\ o.job.stamp \in Nat /\ o.job.stamp <= clock
      /\ o.op \in {"create", "replace"} => o.job.state # "Publishing"
  BY StragglerParts
<1> HIDE DEF PublicationInv, OthersInv
<1>1. CASE w = job
  BY <1>0, <1>1, NoneAssumption
<1>2. CASE o.op = "recover" /\ Settled /\ w = Recovered(job, o.stamp)
  <2>1. /\ w \in JobRecords /\ w.of = job.of /\ w.stamp = o.stamp
        /\ w.state = IF job.state \in Interrupted THEN "Paused" ELSE job.state
    BY <1>0, <1>2, RecoveredParts DEF Settled
  <2> QED
    BY <1>0, <1>2, <2>1, NoneAssumption DEF Settled, Publishing, Rewinding
<1>3. CASE /\ o.op \in {"pause", "fail", "preFail"} /\ Settled
           /\ w = Paused(job, IF o.op = "preFail" THEN clock ELSE o.stamp)
  <2> DEFINE s == IF o.op = "preFail" THEN clock ELSE o.stamp
  <2>0. s \in Nat /\ s <= clock /\ (o.op = "preFail" => s = clock)
    BY <1>0
  <2>a. w = Paused(job, s) /\ job # None /\ job \in JobRecords
    BY <1>0, <1>3 DEF Settled
  <2> HIDE DEF s
  <2>c. Types
    BY <1>0
  <2>b. /\ Paused(job, s) \in JobRecords /\ Paused(job, s).of = job.of
        /\ Paused(job, s).stamp = s /\ Paused(job, s).state = "Paused"
    BY <2>c, <2>0, <2>a, PausedParts
  <2>1. w \in JobRecords /\ w.of = job.of /\ w.stamp = s /\ w.state = "Paused"
    BY <2>a, <2>b
  <2> QED
    BY <1>0, <1>3, <2>0, <2>1, NoneAssumption DEF Settled, Publishing, Rewinding
<1>4. CASE o.op = "create" /\ job = None /\ w = o.job
  <2> QED
    BY <1>0, <1>4 DEF Publishing
<1>5. CASE o.op = "replace" /\ Replaceable(o.job) /\ w = o.job
  <2>1. job # None /\ job.of = o.job.of /\ o.job.stamp >= job.stamp /\ ~Publishing
    BY <1>5 DEF Replaceable, Publishing, CanReplace
  <2>2. job.state \in {"Paused", "Failed"} /\ o.job.state = "Failed" => w.state \in {"Paused", "Failed"}
    BY <1>5
  <2> QED
    BY <1>0, <1>5, <2>1, <2>2, NoneAssumption DEF Rewinding
<1>6. CASE o.op = "intent" /\ IntentAllowed(o.job) /\ w = o.job
  <2>1. job # None /\ job.of = o.job.of /\ o.job.stamp >= job.stamp /\ ~Publishing /\ job.state = "Verifying"
    BY <1>6 DEF IntentAllowed, Publishing
  <2> QED
    BY <1>0, <1>6, <2>1, NoneAssumption DEF Rewinding
<1>7. \/ w = job
      \/ o.op = "recover" /\ Settled /\ w = Recovered(job, o.stamp)
      \/ /\ o.op \in {"pause", "fail", "preFail"} /\ Settled
         /\ w = Paused(job, IF o.op = "preFail" THEN clock ELSE o.stamp)
      \/ o.op = "create" /\ job = None /\ w = o.job
      \/ o.op = "replace" /\ Replaceable(o.job) /\ w = o.job
      \/ o.op = "intent" /\ IntentAllowed(o.job) /\ w = o.job
  BY DEF Writes
<1> QED
  BY <1>1, <1>2, <1>3, <1>4, <1>5, <1>6, <1>7

\* The second half of a failure, which is all that may be left of a straggler.
SecondHalf(l) ==
    /\ l \in StragglerRecords /\ l.op = "replace" /\ l.at = "failed" /\ l.stamp <= clock
    /\ l.job # None /\ l.job.stamp <= clock /\ l.job.state = "Failed"

\* A straggler that is done, with or without its effect, keeps the invariant.
LEMMA StragglerDone ==
    ASSUME PublicationInv, NEW o \in stragglers,
           Effect(o) \/ UNCHANGED <<diskVars, lock>>,
           stragglers' = stragglers \ {o}
             \/ \E l : SecondHalf(l) /\ stragglers' = (stragglers \ {o}) \cup {l},
           UNCHANGED spent \/ FaultHappens,
           UNCHANGED <<task, command, clock, held>>
    PROVE  PublicationInv'
<1> USE DEF PublicationInv, TaskInv, OthersInv
<1>1. /\ UNCHANGED <<published, writes, lock>>
      /\ job' = job \/ (Free /\ job' = Writes(o))
      /\ \/ staged' = staged
         \/ o.op = "truncate" /\ staged' = Truncated(o.of, o.segment[1])
      /\ staging' = staging \/ staging' = staging \cup {o.of}
      /\ o.op = "intent" => UNCHANGED <<staged, staging>>
      /\ o.op \in {"open", "truncate"} => job' = job
  BY StragglerWritten DEF Effect, diskVars
<1>2. /\ job' = job \/ (job' \in JobRecords /\ job'.stamp <= clock /\ ~Publishing /\ Free)
      /\ job # None => job' # None /\ job'.of = job.of
      /\ job = None /\ job' # job => o.op = "create"
      /\ job # None /\ job.state \in {"Paused", "Failed"} =>
            \/ job'.state \in {"Paused", "Failed"}
            \/ o.op = "replace" /\ o.job.state # "Failed" /\ o.job.stamp >= job.stamp
      /\ job' # job /\ job'.state = "Publishing" => o.op = "intent" /\ IntentAllowed(o.job) /\ job' = o.job
      /\ job # None /\ o.op \notin Rewinding => job'.stamp >= job.stamp
  <2>1. CASE job' = job
    BY <2>1, StragglerParts
  <2>2. CASE Free /\ job' = Writes(o)
    BY <2>2, StragglerWritten
  <2> QED
    BY <1>1, <2>1, <2>2
<1>3. \A s \in stragglers' : (s \in stragglers /\ s # o) \/ SecondHalf(s)
  OBVIOUS
<1>4. Types'
  <2>1. stragglers' \subseteq StragglerRecords
    BY <1>3 DEF Types, SecondHalf
  <2>2. spent' \in [commands : Nat, crashes : Nat, faults : Nat]
    BY FaultIsCounted DEF Types
  <2>3. /\ staged' \in [Models -> [Files -> Seq(BOOLEAN)]]
        /\ \A m \in Models, f \in Files : Len(staged'[m][f]) <= Size[f]
    <3>1. CASE staged' = staged
      BY <3>1 DEF Types
    <3>2. CASE o.op = "truncate" /\ staged' = Truncated(o.of, o.segment[1])
      BY <3>2, StragglerParts, SegmentParts, TruncatedIsStaged
    <3> QED
      BY <1>1, <3>1, <3>2
  <2>4. staging' \subseteq Models
    BY <1>1, StragglerParts DEF Types
  <2> QED
    BY <1>1, <1>2, <2>1, <2>2, <2>3, <2>4 DEF Types
<1>5. CommandIsExclusive' /\ TaskIsEquipped'
  BY <1>1, <1>2 DEF CommandIsExclusive, NotHeld, TaskIsEquipped, Free, Publishing
<1>6. StragglersAreShaped'
  <2>1. ~Overlap => \A s1, s2 \in stragglers' : s1 = s2
    BY StragglerParts
  <2>2. ASSUME NEW s \in stragglers'
        PROVE  /\ s.op = "replace" \/ s.op \in Lingering
               /\ s.stamp <= clock
               /\ s.at \in {"publish", "refresh"} => s.op = "publish"
               /\ s.op \in {"open", "truncate"} => s.segment \in Segments
               /\ s.at = "fail" => s.job # None
               /\ s.op \in {"create", "replace", "intent"} => s.job # None /\ s.job.stamp <= clock
               /\ s.op \in {"create", "replace", "intent"} => (s.op = "intent") = (s.job.state = "Publishing")
               /\ s.op \in {"replace", "intent"} /\ s.job.state # "Failed" => s.job.stamp < clock
    <3>1. CASE s \in stragglers
      BY <3>1 DEF StragglersAreShaped
    <3>2. CASE SecondHalf(s)
      BY <3>2 DEF SecondHalf
    <3> QED
      BY <1>3, <3>1, <3>2
  <2> QED
    BY <1>1, <2>1, <2>2 DEF StragglersAreShaped
<1>7. PauseIsKept'
  <2> SUFFICES ASSUME Monotonic, held = "paused"
               PROVE  /\ job' # None /\ job'.state \in {"Paused", "Failed"}
                      /\ \A s \in stragglers' :
                           s.op \in {"replace", "intent"} /\ s.job.state # "Failed" => s.job.stamp < job'.stamp
    BY DEF PauseIsKept
  <2>1. /\ job # None /\ job.state \in {"Paused", "Failed"}
        /\ \A s \in stragglers :
             s.op \in {"replace", "intent"} /\ s.job.state # "Failed" => s.job.stamp < job.stamp
    BY DEF PauseIsKept
  <2>2. job' # None /\ job'.state \in {"Paused", "Failed"}
    BY <1>2, <2>1, StragglerParts
  <2>3. ASSUME NEW s \in stragglers', s.op \in {"replace", "intent"}, s.job.state # "Failed"
        PROVE  s.job.stamp < job'.stamp
    <3>1. s \in stragglers /\ s # o
      BY <1>3, <2>3 DEF SecondHalf
    <3>2. o.op \notin Rewinding
      BY <3>1, StragglerParts DEF Monotonic, Rewinding
    <3>3. s.job.stamp \in Nat /\ job.stamp \in Nat /\ s.job.stamp < job.stamp
      BY <2>1, <2>3, <3>1, StragglerParts
    <3>4. job'.stamp >= job.stamp /\ job'.stamp \in Nat
      BY <1>2, <1>4, <2>1, <2>2, <3>2 DEF Types, JobRecords
    <3> QED
      BY <3>3, <3>4
  <2> QED
    BY <2>2, <2>3
<1>8. CancelIsKept'
  BY <1>2, StragglerParts DEF CancelIsKept, CancelHolds
<1>9. ASSUME Calm
      PROVE  TaskIsAlone' /\ StragglersAreLate' /\ PublicationIsVerified'
  <2>1. /\ o.op \notin {"create", "truncate"} /\ stragglers = {o} /\ staged' = staged
        /\ TaskIsAlone /\ StragglersAreLate /\ PublicationIsVerified
    BY <1>1, <1>9, StragglerParts DEF Calm
  <2>2. \A s \in stragglers' : SecondHalf(s)
    BY <1>3, <2>1
  <2>3. StragglersAreLate'
    BY <2>2 DEF StragglersAreLate, SecondHalf
  <2>4. ASSUME job' # job, job'.state = "Publishing"
        PROVE  /\ task # None => task.at \in {"recover", "preFail"}
               /\ job'.of \in staging' /\ AllIntact(job.of)'
    <3>1. /\ o.op = "intent" /\ IntentAllowed(o.job) /\ job' = o.job
          /\ o.job.state # "Failed" /\ UNCHANGED <<staged, staging>>
      BY <1>1, <1>2, <2>4
    <3>2. job # None /\ o.job.stamp >= job.stamp /\ job.state = "Verifying" /\ o.job.of \in staging
      BY <3>1 DEF IntentAllowed
    <3>3. ~Late(o) /\ ~Publishing
      BY <3>1, <3>2, StragglerParts DEF Late, Publishing
    <3>4. Unanswered /\ AllIntact(o.job.of)
      BY <2>1, <3>1, <3>2, <3>3 DEF StragglersAreLate
    <3>5. AllIntact(job.of)'
      BY <3>1, <3>4 DEF AllIntact
    <3> QED
      BY <3>1, <3>2, <3>4, <3>5 DEF Unanswered
  <2>5. TaskIsAlone'
    BY <1>2, <2>1, <2>4 DEF TaskIsAlone, Publishing, AllIntact, Holding, Fetching, Filling, Checking
  <2>6. PublicationIsVerified'
    <3>1. CASE job' = job
      BY <1>1, <2>1, <3>1 DEF PublicationIsVerified, Publishing, AllIntact
    <3>2. CASE job' # job
      BY <1>1, <2>1, <2>4, <3>2 DEF PublicationIsVerified, Publishing
    <3> QED
      BY <3>1, <3>2
  <2> QED
    BY <2>3, <2>5, <2>6
<1> QED
  BY <1>4, <1>5, <1>6, <1>7, <1>8, <1>9

\* A straggler that writes is done.
LEMMA StragglerWritesSafe ==
    ASSUME PublicationInv, NEW o \in stragglers, StragglerWrites(o),
           UNCHANGED <<task, command, clock, held>>
    PROVE  PublicationInv'
BY StragglerDone DEF StragglerWrites

\* So is one that the store fails.
LEMMA StragglerErrsSafe ==
    ASSUME PublicationInv, NEW o \in stragglers, StragglerErrs(o),
           UNCHANGED <<task, command, clock, held>>
    PROVE  PublicationInv'
BY StragglerDone DEF StragglerErrs

\* A straggling failure pauses the document and is left with marking it failed.
LEMMA StragglerFailsSafe ==
    ASSUME PublicationInv, NEW o \in stragglers, StragglerFails(o),
           UNCHANGED <<task, command, clock, held>>
    PROVE  PublicationInv'
<1>1. o.op \in {"fail", "preFail"} /\ Effect(o) /\ UNCHANGED spent
  BY DEF StragglerFails
<1>2. CASE Settled
  <2> DEFINE code == Code(o)
             j == Failed(job', code)
             late == [o EXCEPT !.at = "failed", !.op = "replace", !.job = j]
             s == IF o.op = "fail" THEN o.stamp ELSE clock
  <2>1. /\ Types /\ job # None /\ job \in JobRecords /\ o \in StragglerRecords
        /\ s \in Nat /\ s <= clock /\ o.stamp <= clock
    BY <1>2, StragglerParts DEF Settled, PublicationInv, OthersInv
  <2>2. job' = Paused(job, s)
    BY <1>1, <1>2 DEF Effect, Writes
  <2> HIDE DEF s
  <2>3. job' \in JobRecords /\ job'.stamp = s
    BY <2>1, <2>2, PausedParts
  <2>4. code \in {"checksum", "failed"}
    BY DEF Code
  <2> HIDE DEF code
  <2>5. j \in JobRecords /\ j.stamp = s /\ j.state = "Failed"
    BY <2>3, <2>4, FailedParts
  <2> HIDE DEF j
  <2>6. SecondHalf(late)
    <3>1. late \in StragglerRecords
      BY <2>1, <2>5 DEF StragglerRecords, Positions, Operations
    <3>2. /\ late.op = "replace" /\ late.at = "failed" /\ late.job = j /\ late.stamp = o.stamp
      BY <2>1 DEF StragglerRecords
    <3> QED
      BY <2>1, <2>5, <3>1, <3>2, NoneAssumption DEF SecondHalf
  <2>7. stragglers' = (stragglers \ {o}) \cup {late}
    BY <1>2 DEF StragglerFails, j, code
  <2> HIDE DEF late
  <2> QED
    BY <1>1, <2>6, <2>7, StragglerDone
<1>3. CASE ~Settled
  <2>1. stragglers' = stragglers \ {o}
    BY <1>3 DEF StragglerFails
  <2> QED
    BY <1>1, <2>1, StragglerDone
<1> QED
  BY <1>2, <1>3

\* A straggling publication goes on as a task's does.
LEMMA StragglerPublishesSafe ==
    ASSUME PublicationInv, NEW o \in stragglers, StragglerPublishes(o),
           UNCHANGED <<task, command, clock, held>>
    PROVE  PublicationInv'
<1> USE DEF PublicationInv, TaskInv, OthersInv
<1>1. CASE /\ o.at = "publish" /\ Free /\ UNCHANGED spent /\ Renamable /\ Rename
           /\ stragglers' = (stragglers \ {o}) \cup {[o EXCEPT !.at = "refresh"]}
  <2> DEFINE late == [o EXCEPT !.at = "refresh"]
  <2>1. /\ job' = job /\ Publishing /\ lock' = "publish"
        /\ staged' \in [Models -> [Files -> Seq(BOOLEAN)]]
        /\ \A m \in Models, f \in Files : Len(staged'[m][f]) <= Size[f]
        /\ staging' \subseteq Models
        /\ published' \in [Models -> {"none", "intact", "broken", "foreign"}]
        /\ writes' \subseteq WriteRecords
        /\ \A w \in writes' : Len(w.bytes) <= Size[w.file]
        /\ writes = {} => writes' = {}
    BY <1>1, RenameParts
  <2>a. Calm => PublicationIsVerified'
    BY <1>1, RenameIsVerified
  <2>2. stragglers' = (stragglers \ {o}) \cup {late} /\ lock = "free"
    BY <1>1 DEF Free
  <2>3. /\ late \in StragglerRecords /\ late.op = "publish" /\ late.at = "refresh" /\ late.stamp <= clock
        /\ "publish" \in Lingering /\ (~Overlap => stragglers = {o})
    <3>1. o \in StragglerRecords /\ o.op = "publish" /\ o.stamp <= clock /\ "publish" \in Lingering
      BY <1>1, StragglerParts DEF StragglersAreShaped
    <3> HIDE DEF PublicationInv, TaskInv, OthersInv
    <3>2. late \in StragglerRecords /\ late.op = "publish" /\ late.at = "refresh" /\ late.stamp <= clock
      BY <3>1 DEF StragglerRecords, Positions
    <3> QED
      BY <3>1, <3>2, StragglerParts
  <2> HIDE DEF late
  <2>4. StragglersAreShaped'
    BY <2>1, <2>2, <2>3 DEF StragglersAreShaped
  <2>5. Types'
    BY <1>1, <2>1, <2>2, <2>3 DEF Types
  <2>6. CommandIsExclusive' /\ PauseIsKept' /\ CancelIsKept'
    BY <2>1 DEF CommandIsExclusive, NotHeld, PauseIsKept, CancelIsKept, CancelHolds, Publishing
  <2>7. TaskInv'
    BY <2>1 DEF TaskIsEquipped, TaskIsAlone, Publishing, AllIntact
  <2>8. Calm => StragglersAreLate'
    BY <2>2, <2>3 DEF StragglersAreLate, Calm
  <2> QED
    BY <2>a, <2>1, <2>4, <2>5, <2>6, <2>7, <2>8
<1>2. CASE stragglers' = stragglers \ {o} /\ UNCHANGED <<diskVars, lock, spent>>
  BY <1>2, StragglerDone
<1>3. CASE (\E ok \in BOOLEAN : Refreshed(ok)) /\ stragglers' = stragglers \ {o}
  <2>1. PICK ok \in BOOLEAN : Refreshed(ok)
    BY <1>3
  <2>2. /\ Publishing /\ lock' = "free" /\ job' \in {job, None}
        /\ Monotonic => held # "paused"
        /\ "create" \notin Lingering => held # "cancelled"
        /\ UNCHANGED <<staged, staging, published, writes>>
        /\ spent' \in [commands : Nat, crashes : Nat, faults : Nat]
    BY <2>1, RefreshedParts
  <2>3. stragglers' \subseteq stragglers /\ (~Overlap => stragglers' = {})
    BY <1>3, StragglerParts
  <2>4. Types'
    BY <2>2, <2>3 DEF Types
  <2>5. CommandIsExclusive' /\ PauseIsKept' /\ CancelIsKept'
    BY <2>2 DEF CommandIsExclusive, NotHeld, PauseIsKept, CancelIsKept, CancelHolds
  <2>6. StragglersAreShaped' /\ (Calm => StragglersAreLate')
    BY <2>2, <2>3 DEF StragglersAreShaped, StragglersAreLate, Calm
  <2>7. Calm => PublicationIsVerified'
    BY <2>2 DEF PublicationIsVerified, Publishing, AllIntact
  <2>8. TaskInv'
    BY <2>2 DEF TaskIsEquipped, TaskIsAlone, Publishing, AllIntact
  <2> QED
    BY <2>4, <2>5, <2>6, <2>7, <2>8
<1> QED
  BY <1>1, <1>2, <1>3 DEF StragglerPublishes

\* A write that comes late changes no instance in which writes do not linger.
LEMMA WriteLandsSafe ==
    ASSUME PublicationInv, WriteLands
    PROVE  PublicationInv'
<1> USE DEF PublicationInv, TaskInv, OthersInv
<1>1. PICK w \in writes :
         /\ writes' = writes \ {w}
         /\ \/ /\ published' = [published EXCEPT ![w.of] =
                      IF \A i \in (w.from + 1)..Len(w.bytes) : w.bytes[i] THEN @ ELSE "broken"]
               /\ staged' = staged
            \/ /\ staged' = [staged EXCEPT ![w.of][w.file] = Overlaid(@, w.from, w.bytes)]
               /\ published' = published
  BY DEF WriteLands
<1>2. UNCHANGED <<job, staging, lock, task, spent, stragglers, command, clock, held>>
  BY DEF WriteLands, restUnchanged
<1>3. /\ w.of \in Models /\ w.file \in Files /\ w.from \in Nat /\ w.bytes \in Seq(BOOLEAN)
      /\ Len(w.bytes) <= Size[w.file]
      /\ published \in [Models -> {"none", "intact", "broken", "foreign"}]
      /\ staged \in [Models -> [Files -> Seq(BOOLEAN)]]
      /\ \A m \in Models, f \in Files : Len(staged[m][f]) <= Size[f]
  BY DEF Types, WriteRecords
<1>4. published' \in [Models -> {"none", "intact", "broken", "foreign"}]
  <2> DEFINE p == IF \A i \in (w.from + 1)..Len(w.bytes) : w.bytes[i] THEN published[w.of] ELSE "broken"
  <2>1. published' = published \/ published' = [published EXCEPT ![w.of] = p]
    BY <1>1
  <2>2. p \in {"none", "intact", "broken", "foreign"}
    BY <1>3
  <2> HIDE DEF p
  <2> QED
    BY <1>3, <2>1, <2>2
<1>5. /\ staged' \in [Models -> [Files -> Seq(BOOLEAN)]]
      /\ \A m \in Models, f \in Files : Len(staged'[m][f]) <= Size[f]
  <2> DEFINE old == staged[w.of][w.file]
             o == Overlaid(old, w.from, w.bytes)
  <2>1. staged' = staged \/ staged' = WithFile(w.of, w.file, o)
    BY <1>1, <1>3 DEF WithFile
  <2>2. old \in Seq(BOOLEAN) /\ Len(old) <= Size[w.file] /\ Size[w.file] \in Nat
    BY <1>3, DownloadAssumption
  <2>3. /\ o \in Seq(BOOLEAN)
        /\ Len(w.bytes) <= w.from => o = old
        /\ Len(w.bytes) > w.from => Len(o) = IF Len(old) > Len(w.bytes) THEN Len(old) ELSE Len(w.bytes)
    BY <1>3, <2>2, OverlaidIsFile
  <2> HIDE DEF o, old
  <2>4. o \in Seq(BOOLEAN) /\ Len(o) <= Size[w.file]
    BY <1>3, <2>2, <2>3
  <2>5. /\ WithFile(w.of, w.file, o) \in [Models -> [Files -> Seq(BOOLEAN)]]
        /\ \A n \in Models, g \in Files : Len(WithFile(w.of, w.file, o)[n][g]) <= Size[g]
    BY <1>3, <2>4, OneFileStaged
  <2> QED
    BY <1>3, <2>1, <2>5
<1>6. Types'
  BY <1>1, <1>2, <1>4, <1>5 DEF Types
<1>7. CommandIsExclusive' /\ TaskIsEquipped' /\ PauseIsKept' /\ CancelIsKept'
  BY <1>2 DEF CommandIsExclusive, NotHeld, TaskIsEquipped, PauseIsKept, CancelIsKept, CancelHolds, Publishing
<1>8. ~Calm
  BY <1>1 DEF StragglersAreShaped, Calm
<1>9. StragglersAreShaped'
  BY <1>1, <1>2 DEF StragglersAreShaped
<1> QED
  BY <1>6, <1>7, <1>8, <1>9

-----------------------------------------------------------------------------
(* Commands and crashes *)

\* What a new task is.
LEMMA NewTaskParts ==
    ASSUME PublicationInv, NEW m \in Models, NEW p \in {"recover", "publish"}
    PROVE  /\ NewTask(m, p) \in TaskRecords /\ NewTask(m, p).at = p /\ NewTask(m, p).of = m
           /\ NewTask(m, p).stamp = clock /\ NewTask(m, p).job = None /\ ~NewTask(m, p).detached
           /\ NewTask(m, p).selected = {} /\ NewTask(m, p).flying = {}
           /\ NewTask(m, p).parked = NoFiles
           /\ \A f \in Files : Len(NewTask(m, p).prefix[f]) <= Size[f]
<1>1. /\ NoFiles \in [Files -> Seq(BOOLEAN)] /\ NoFiles \in [Files -> Parcels] /\ clock \in Nat
      /\ Nothing \in [Files -> Nat]
  BY NothingHeld DEF PublicationInv, OthersInv, Types, Nothing
<1>2. \A f \in Files : Len(NoFiles[f]) <= Size[f]
  BY NothingHeld, DownloadAssumption
<1> HIDE DEF NoFiles, Nothing
<1>3. NewTask(m, p) \in TaskRecords
  BY <1>1 DEF NewTask, TaskRecords, Positions
<1> QED
  BY <1>2, <1>3 DEF NewTask

\* A start finds no document and no task.
LEMMA StartSafe ==
    ASSUME PublicationInv, NEW m \in Models, Start(m)
    PROVE  PublicationInv'
<1> USE DEF PublicationInv, TaskInv, OthersInv
<1>1. /\ task = None /\ job = None /\ task' = NewTask(m, "recover") /\ held' = "none"
      /\ command[2] # "acting"
      /\ UNCHANGED <<diskVars, lock, stragglers, command, clock, spent>>
  BY DEF Start, Idle
<1>2. /\ task' \in TaskRecords /\ task'.at = "recover" /\ task'.of = m
      /\ task'.stamp = clock /\ task'.job = None /\ ~task'.detached
      /\ \A f \in Files : Len(task'.prefix[f]) <= Size[f]
  BY <1>1, NewTaskParts
<1>3. Types'
  BY <1>1, <1>2 DEF Types, diskVars
<1>4. CommandIsExclusive' /\ StragglersAreShaped' /\ PauseIsKept' /\ CancelIsKept'
  BY <1>1
  DEF CommandIsExclusive, NotHeld, StragglersAreShaped, PauseIsKept, CancelIsKept, CancelHolds,
      Publishing, diskVars
<1>5. Calm => StragglersAreLate'
  BY <1>1, <1>2 DEF StragglersAreLate, Unanswered, Publishing, Late, AllIntact, diskVars
<1>6. TaskInv'
  BY <1>1, <1>2
  DEF TaskIsEquipped, TaskIsAlone, Holding, Fetching, Filling, Checking, Publishing, diskVars
<1>7. Calm => PublicationIsVerified'
  BY <1>1 DEF PublicationIsVerified, Publishing, AllIntact, diskVars
<1> QED
  BY <1>3, <1>4, <1>5, <1>6, <1>7

\* A resume finds a document at rest, or one to publish.
LEMMA ResumeSafe ==
    ASSUME PublicationInv, Resume
    PROVE  PublicationInv'
<1> USE DEF PublicationInv, TaskInv, OthersInv
<1> DEFINE p == IF Publishing THEN "publish" ELSE "recover"
<1>1. /\ task = None /\ job # None /\ task' = NewTask(job.of, p) /\ held' = "none"
      /\ command[2] # "acting" /\ job \in JobRecords /\ job.of \in Models
      /\ UNCHANGED <<diskVars, lock, stragglers, command, clock, spent>>
  BY DEF Resume, Idle, Types, JobRecords
<1>2. /\ task' \in TaskRecords /\ task'.at = p /\ task'.of = job.of
      /\ task'.stamp = clock /\ task'.job = None /\ ~task'.detached
      /\ \A f \in Files : Len(task'.prefix[f]) <= Size[f]
  BY <1>1, NewTaskParts
<1>3. Types'
  BY <1>1, <1>2 DEF Types, diskVars
<1>4. CommandIsExclusive' /\ StragglersAreShaped' /\ PauseIsKept' /\ CancelIsKept'
  BY <1>1
  DEF CommandIsExclusive, NotHeld, StragglersAreShaped, PauseIsKept, CancelIsKept, CancelHolds,
      Publishing, diskVars
<1>5. Calm => StragglersAreLate'
  BY <1>1, <1>2 DEF StragglersAreLate, Unanswered, Publishing, Late, AllIntact, diskVars
<1>6. TaskInv'
  BY <1>1, <1>2
  DEF TaskIsEquipped, TaskIsAlone, Holding, Fetching, Filling, Checking, Publishing, diskVars
<1>7. Calm => PublicationIsVerified'
  BY <1>1 DEF PublicationIsVerified, Publishing, AllIntact, diskVars
<1> QED
  BY <1>3, <1>4, <1>5, <1>6, <1>7

\* Asking a task to pause changes nothing else.
LEMMA AskSafe ==
    ASSUME PublicationInv, NEW kind \in {"pause", "cancel"}, Ask(kind)
    PROVE  PublicationInv'
<1> USE DEF PublicationInv, TaskInv, OthersInv
<1>1. /\ command' = <<kind, "waiting">> /\ lock # "cancel" /\ command[2] # "acting"
      /\ task' = IF task = None THEN None ELSE [task EXCEPT !.pausing = TRUE]
      /\ UNCHANGED <<diskVars, lock, stragglers, clock, held>>
  BY DEF Ask, Idle, CommandIsExclusive, TaskIsEquipped
<1>2. spent' \in [commands : Nat, crashes : Nat, faults : Nat]
  BY DEF Ask, Types
<1>3. (task' = None) = (task = None)
  <2>1. task # None => [task EXCEPT !.pausing = TRUE] \in TaskRecords
    BY DEF Types, TaskRecords
  <2> QED
    BY <1>1, <2>1, NoneAssumption
<1>4. task # None =>
        /\ task' \in TaskRecords /\ task'.at = task.at /\ task'.of = task.of
        /\ task'.stamp = task.stamp /\ task'.job = task.job /\ task'.segment = task.segment
        /\ task'.prefix = task.prefix /\ ~task'.detached
  BY <1>1, Working DEF TaskRecords
<1>5. Types'
  BY <1>1, <1>2, <1>3, <1>4 DEF Types, diskVars
<1>6. CommandIsExclusive' /\ StragglersAreShaped' /\ PauseIsKept' /\ CancelIsKept'
  BY <1>1, <1>3
  DEF CommandIsExclusive, NotHeld, StragglersAreShaped, PauseIsKept, CancelIsKept, CancelHolds,
      Publishing, diskVars
<1>7. Calm => StragglersAreLate'
  BY <1>1, <1>3, <1>4 DEF StragglersAreLate, Unanswered, Publishing, Late, AllIntact, diskVars
<1>8. TaskInv'
  BY <1>1, <1>3, <1>4 DEF TaskIsEquipped, TaskIsAlone, Publishing, AllIntact, diskVars
<1>9. Calm => PublicationIsVerified'
  BY <1>1 DEF PublicationIsVerified, Publishing, AllIntact, diskVars
<1> QED
  BY <1>5, <1>6, <1>7, <1>8, <1>9

\* A task that stopped of itself leaves the command to act.
LEMMA TaskStoppedSafe ==
    ASSUME PublicationInv, TaskStopped
    PROVE  PublicationInv'
<1> USE DEF PublicationInv, TaskInv, OthersInv
<1>1. /\ task = None /\ lock # "cancel"
      /\ UNCHANGED <<diskVars, lock, task, stragglers, clock, held, spent>>
  BY DEF TaskStopped, CommandIsExclusive, TaskIsEquipped
<1>2. /\ command' \in {"none", "pause", "cancel"} \X {"idle", "waiting", "acting"}
      /\ command'[2] = "acting"
  BY DEF TaskStopped, Types
<1>3. Types'
  BY <1>1, <1>2 DEF Types, diskVars
<1>4. /\ CommandIsExclusive' /\ StragglersAreShaped' /\ PauseIsKept' /\ CancelIsKept'
      /\ PublicationIsVerified = PublicationIsVerified' /\ TaskInv'
  BY <1>1
  DEF CommandIsExclusive, NotHeld, TaskIsEquipped, TaskIsAlone, PublicationIsVerified, PauseIsKept,
      CancelIsKept, CancelHolds, StragglersAreShaped, Publishing, AllIntact, diskVars
<1>5. Calm => StragglersAreLate'
  BY <1>1, <1>2 DEF StragglersAreLate, Unanswered, Publishing, Late, AllIntact, diskVars
<1> QED
  BY <1>3, <1>4, <1>5

\* The document a task creates.
LEMMA NewJobParts ==
    ASSUME NEW m \in Models, NEW stamp \in Nat
    PROVE  /\ NewJob(m, stamp) \in JobRecords /\ NewJob(m, stamp).stamp = stamp
           /\ NewJob(m, stamp).of = m /\ NewJob(m, stamp).state = "CheckingDisk"
BY DEF NewJob, JobRecords, JobStates, Nothing

\* What a task waits for, as its abort leaves it behind.
LEMMA StragglerOf ==
    ASSUME PublicationInv, task # None, NEW o, o = Straggler(task)
    PROVE  /\ o.at = task.at /\ o.op = OperationAt(task.at) /\ o.of = task.of /\ o.stamp = clock
           /\ o.op \in Operations => o \in StragglerRecords
           /\ o.op = "recover" => task.at \in {"recover", "reconcile", "load"}
           /\ o.op \in {"create", "pause", "fail", "preFail", "open", "truncate"} => task.at = o.op
           /\ o.op \in {"open", "truncate"} => o.segment \in Segments
           /\ o.op = "create" => /\ o.job \in JobRecords /\ o.job.stamp = clock
                                 /\ o.job.state = "CheckingDisk"
           /\ o.op = "replace" => /\ task.at \in ReplacePositions
                                  /\ o.job \in JobRecords /\ o.job.stamp <= clock
                                  /\ o.job.state # "Publishing"
           /\ o.op = "intent" => /\ task.at = "intent" /\ o.job = task.job
                                 /\ o.job \in JobRecords /\ o.job.stamp <= clock
                                 /\ o.job.state = "Publishing"
           /\ o.at = "fail" => o.job # None
           /\ o.at \in {"publish", "refresh"} => o.op = "publish"
<1> USE DEF PublicationInv, TaskInv, OthersInv
<1>1. /\ task \in TaskRecords /\ task.at \in Positions /\ task.at # "preFailed" /\ task.stamp = clock
      /\ clock \in Nat /\ task.of \in Models /\ task.job \in JobRecords \cup {None}
  BY Working DEF TaskIsEquipped, TaskRecords
<1>2. /\ o.at = task.at /\ o.op = OperationAt(task.at) /\ o.of = task.of /\ o.stamp = clock
      /\ o.job = CASE task.at \in ReplacePositions -> Replacement(task)
                   [] task.at = "create" -> NewJob(task.of, task.stamp)
                   [] task.at \in {"intent", "fail"} -> task.job
                   [] OTHER -> None
      /\ o.segment = IF task.at \in {"open", "truncate"} THEN task.segment ELSE None
      /\ o = [at |-> o.at, op |-> o.op, of |-> o.of, stamp |-> o.stamp, job |-> o.job,
              segment |-> o.segment]
  BY <1>1 DEF Straggler
<1>3. /\ (o.op = "replace") = (task.at \in ReplacePositions)
      /\ o.op = "recover" => task.at \in {"recover", "reconcile", "load"}
      /\ o.op \in {"create", "pause", "fail", "preFail", "open", "truncate", "intent"} => task.at = o.op
      /\ o.at \in {"publish", "refresh"} => o.op = "publish"
  BY <1>1, <1>2 DEF OperationAt, Positions, ReplacePositions
<1>4. /\ task.at \in {"open", "truncate"} => task.segment \in Segments
      /\ task.at \in {"intent", "fail"} =>
            task.job # None /\ task.job \in JobRecords /\ task.job.stamp <= clock
      /\ task.at = "intent" => task.job.state = "Publishing"
  BY <1>1 DEF TaskIsEquipped, Holding
<1>5. o.op = "replace" => /\ o.job \in JobRecords /\ o.job.stamp <= clock
                          /\ o.job.state # "Publishing"
  <2>1. task.at \in ReplacePositions => o.job = Replacement(task)
    BY <1>2 DEF ReplacePositions
  <2> QED
    BY <1>3, <2>1, TaskReplacement
<1>6. task.at = "create" => /\ o.job \in JobRecords /\ o.job.stamp = clock
                            /\ o.job.state = "CheckingDisk"
  BY <1>1, <1>2, NewJobParts DEF ReplacePositions
<1>7. task.at \in {"intent", "fail"} => o.job = task.job
  BY <1>2 DEF ReplacePositions
<1>8. o.segment \in Segments \cup {None} /\ o.job \in JobRecords \cup {None}
  BY <1>2, <1>3, <1>4, <1>5, <1>6, <1>7
<1>9. o.op \in Operations => o \in StragglerRecords
  <2>1. /\ o.at \in Positions /\ o.of \in Models /\ o.stamp \in Nat
    BY <1>1, <1>2
  <2> QED
    BY <1>2, <1>8, <2>1 DEF StragglerRecords
<1> HIDE DEF PublicationInv, TaskInv, OthersInv
<1>10. o.op \in {"open", "truncate"} => o.segment \in Segments
  BY <1>2, <1>3, <1>4
<1> QED
  BY <1>2, <1>3, <1>4, <1>5, <1>6, <1>7, <1>9, <1>10

\* What an abort leaves behind is stamped before the command's own time.
LEMMA AbortSafe ==
    ASSUME PublicationInv, Abort
    PROVE  PublicationInv'
<1> USE DEF PublicationInv, TaskInv, OthersInv
<1>1. /\ command[2] = "waiting" /\ task # None /\ task' = None /\ clock' = clock + 1
      /\ NotHeld /\ lock # "cancel" /\ clock \in Nat /\ task \in TaskRecords
      /\ command' \in {"none", "pause", "cancel"} \X {"idle", "waiting", "acting"}
      /\ command'[2] = "acting" /\ task.stamp = clock
      /\ UNCHANGED <<job, staged, staging, published, lock, held, spent>>
  BY DEF Abort, CommandIsExclusive, Types, TaskIsEquipped
<1>2. PICK late \in SUBSET LateWrites(task) : writes' = writes \cup late
  BY DEF Abort
<1>3. PICK o : o = Straggler(task)
  OBVIOUS
<1>4. \/ stragglers' = stragglers
      \/ /\ o.op \in Lingering
         /\ Overlap \/ stragglers = {}
         /\ stragglers' = stragglers \cup {o}
  BY <1>1, <1>3, StragglerOf DEF Abort
<1>5. o.op \in Lingering => o.op \in Operations /\ o \in StragglerRecords
  BY <1>1, <1>3, StragglerOf, DownloadAssumption
<1>6. writes' \subseteq WriteRecords /\ \A w \in writes' : Len(w.bytes) <= Size[w.file]
  <2>1. \A w \in LateWrites(task) : w \in WriteRecords /\ Len(w.bytes) <= Size[w.file]
    <3> SUFFICES ASSUME NEW w \in LateWrites(task)
                 PROVE  w \in WriteRecords /\ Len(w.bytes) <= Size[w.file]
      OBVIOUS
    <3>0. PICK f \in Files :
            w = [of |-> task.of, file |-> f, from |-> task.written[f],
                 bytes |-> task.prefix[f], moved |-> FALSE]
      BY <1>1 DEF LateWrites, TaskRecords
    <3>1. /\ task.of \in Models /\ task.written[f] \in Nat /\ task.prefix[f] \in Seq(BOOLEAN)
          /\ Len(task.prefix[f]) <= Size[f]
      BY <1>1, Working DEF TaskRecords
    <3> QED
      BY <3>0, <3>1 DEF WriteRecords
  <2> QED
    BY <1>2, <2>1 DEF Types
<1>7. "write" \notin Lingering => writes' = {}
  BY <1>2 DEF StragglersAreShaped, LateWrites
<1>8. Types'
  <2>1. stragglers' \subseteq StragglerRecords
    BY <1>4, <1>5 DEF Types
  <2> QED
    BY <1>1, <1>6, <2>1 DEF Types
<1>9. CommandIsExclusive'
  BY <1>1 DEF CommandIsExclusive, Publishing, Types, JobRecords
<1>10. PauseIsKept' /\ CancelIsKept'
  BY <1>1 DEF NotHeld, PauseIsKept, CancelIsKept, CancelHolds
<1>11. TaskInv'
  BY <1>1 DEF TaskIsEquipped, TaskIsAlone
<1>12. StragglersAreShaped'
  <2>1. ~Overlap => \A o1, o2 \in stragglers' : o1 = o2
    BY <1>4 DEF StragglersAreShaped
  <2>2. ASSUME NEW s \in stragglers'
        PROVE  /\ s.op = "replace" \/ s.op \in Lingering
               /\ s.stamp <= clock'
               /\ s.at \in {"publish", "refresh"} => s.op = "publish"
               /\ s.op \in {"open", "truncate"} => s.segment \in Segments
               /\ s.at = "fail" => s.job # None
               /\ s.op \in {"create", "replace", "intent"} => s.job # None /\ s.job.stamp <= clock'
               /\ s.op \in {"create", "replace", "intent"} => (s.op = "intent") = (s.job.state = "Publishing")
               /\ s.op \in {"replace", "intent"} /\ s.job.state # "Failed" => s.job.stamp < clock'
    <3>1. CASE s \in stragglers
      <4>1. /\ s.stamp \in Nat
            /\ s.op \in {"create", "replace", "intent"} => s.job \in JobRecords /\ s.job.stamp \in Nat
        BY <3>1, StragglerParts
      <4> QED
        BY <1>1, <3>1, <4>1 DEF StragglersAreShaped
    <3>2. CASE s = o /\ o.op \in Lingering
      <4>1. o.job \in JobRecords => o.job # None /\ o.job.stamp \in Nat
        BY NoneAssumption DEF JobRecords
      <4>2. /\ o.stamp = clock
            /\ o.op \in {"open", "truncate"} => o.segment \in Segments
            /\ o.op = "create" => /\ o.job \in JobRecords /\ o.job.stamp = clock
                                  /\ o.job.state = "CheckingDisk"
            /\ o.op = "replace" => /\ o.job \in JobRecords /\ o.job.stamp <= clock
                                   /\ o.job.state # "Publishing"
            /\ o.op = "intent" => /\ o.job \in JobRecords /\ o.job.stamp <= clock
                                  /\ o.job.state = "Publishing"
            /\ o.at = "fail" => o.job # None
            /\ o.at \in {"publish", "refresh"} => o.op = "publish"
        BY <1>1, <1>3, StragglerOf
      <4>3. clock \in Nat /\ clock' = clock + 1
        BY <1>1
      <4> HIDE DEF PublicationInv, TaskInv, OthersInv
      <4> QED
        BY <3>2, <4>1, <4>2, <4>3
    <3> QED
      BY <1>4, <3>1, <3>2
  <2> QED
    BY <1>7, <2>1, <2>2 DEF StragglersAreShaped
<1>13. ASSUME Calm
       PROVE  StragglersAreLate' /\ PublicationIsVerified'
  <2>1. Unanswered'
    BY <1>1 DEF Unanswered
  <2>2. ASSUME NEW s \in stragglers', s.op = "intent"
        PROVE  Late(s)' \/ Publishing' \/ AllIntact(s.job.of)' \/ (s.job.of \notin staging)'
    <3>1. CASE s \in stragglers
      BY <1>1, <1>13, <2>2, <3>1 DEF StragglersAreLate, Late, Publishing, AllIntact
    <3>2. CASE s = o
      <4>1. task.at = "intent" /\ s.job = task.job
        BY <1>1, <1>3, <2>2, <3>2, StragglerOf
      <4>2. AllIntact(s.job.of)
        BY <1>1, <1>13, <4>1 DEF TaskIsAlone, Holding
      <4> QED
        BY <1>1, <4>2 DEF AllIntact
    <3> QED
      BY <1>4, <3>1, <3>2
  <2>3. PublicationIsVerified'
    BY <1>1, <1>13 DEF PublicationIsVerified, Publishing, AllIntact
  <2> QED
    BY <2>1, <2>2, <2>3 DEF StragglersAreLate
<1> QED
  BY <1>8, <1>9, <1>10, <1>11, <1>12, <1>13

\* What the operation a task waits for writes, if it is not refused.
LEMMA TaskWritten ==
    ASSUME PublicationInv, task # None, NEW o, o = Straggler(task), NEW w, w = Writes(o)
    PROVE  /\ w = job \/ (/\ w \in JobRecords /\ w.stamp <= clock /\ ~Publishing
                          /\ job = None => w.stamp = clock
                          /\ job # None => w.stamp >= job.stamp)
           /\ w # job /\ w.state = "Publishing" => task.at = "intent" /\ IntentAllowed(task.job) /\ w = task.job
           /\ o.op \in {"open", "truncate"} => w = job
<1> USE DEF PublicationInv, TaskInv, OthersInv
<1>0. /\ Types /\ clock \in Nat /\ o.stamp = clock
      /\ job # None => job \in JobRecords /\ job.stamp \in Nat /\ job.stamp <= clock
      /\ o.op = "create" => /\ o.job \in JobRecords /\ o.job.stamp = clock
                            /\ o.job.state = "CheckingDisk"
      /\ o.op = "replace" => /\ o.job \in JobRecords /\ o.job.stamp <= clock
                             /\ o.job.state # "Publishing"
      /\ o.op = "intent" => /\ task.at = "intent" /\ o.job = task.job
                            /\ o.job \in JobRecords /\ o.job.stamp <= clock
                            /\ o.job.state = "Publishing"
  BY StragglerOf DEF Types, CommandIsExclusive, JobRecords
<1> HIDE DEF PublicationInv, TaskInv, OthersInv
<1>1. CASE w = job
  BY <1>1, <1>0
<1>2. CASE o.op = "recover" /\ Settled /\ w = Recovered(job, o.stamp)
  <2>1. /\ w \in JobRecords /\ w.stamp = clock
        /\ w.state = IF job.state \in Interrupted THEN "Paused" ELSE job.state
    BY <1>0, <1>2, RecoveredParts DEF Settled
  <2> QED
    BY <1>0, <1>2, <2>1, NoneAssumption DEF Settled, Publishing
<1>3. CASE o.op \in {"pause", "fail", "preFail"} /\ Settled /\ w = Paused(job, clock)
  <2>0. Types
    BY <1>0
  <2>a. job # None /\ job \in JobRecords /\ clock \in Nat /\ ~Publishing
    BY <1>0, <1>3 DEF Settled, Publishing
  <2>b. /\ Paused(job, clock) \in JobRecords /\ Paused(job, clock).stamp = clock
        /\ Paused(job, clock).state = "Paused"
    BY <2>0, <2>a, PausedParts
  <2>1. w \in JobRecords /\ w.stamp = clock /\ w.state = "Paused"
    BY <1>3, <2>b
  <2> QED
    BY <1>0, <1>3, <2>a, <2>1
<1>4. CASE o.op = "create" /\ job = None /\ w = o.job
  BY <1>0, <1>4 DEF Publishing
<1>5. CASE o.op = "replace" /\ Replaceable(o.job) /\ w = o.job
  <2>1. job # None /\ o.job.stamp >= job.stamp /\ ~Publishing
    BY <1>5 DEF Replaceable, Publishing, CanReplace
  <2> QED
    BY <1>0, <1>5, <2>1
<1>6. CASE o.op = "intent" /\ IntentAllowed(o.job) /\ w = o.job
  <2>1. job # None /\ o.job.stamp >= job.stamp /\ ~Publishing
    BY <1>6 DEF IntentAllowed, Publishing
  <2> QED
    BY <1>0, <1>6, <2>1
<1>7. \/ w = job
      \/ o.op = "recover" /\ Settled /\ w = Recovered(job, o.stamp)
      \/ o.op \in {"pause", "fail", "preFail"} /\ Settled /\ w = Paused(job, clock)
      \/ o.op = "create" /\ job = None /\ w = o.job
      \/ o.op = "replace" /\ Replaceable(o.job) /\ w = o.job
      \/ o.op = "intent" /\ IntentAllowed(o.job) /\ w = o.job
  BY <1>0 DEF Writes
<1> QED
  BY <1>1, <1>2, <1>3, <1>4, <1>5, <1>6, <1>7

\* A task that the host fails gives up, with or without the effect of what it
\* waited for.
LEMMA TaskErrsSafe ==
    ASSUME PublicationInv, TaskErrs
    PROVE  PublicationInv'
<1> USE DEF PublicationInv, TaskInv, OthersInv
<1>1. /\ task # None /\ FaultHappens
      /\ UNCHANGED <<stragglers, command, clock, held>>
      /\ UNCHANGED <<diskVars, lock>> \/ Effect(Straggler(task))
      /\ task' = None \/ task' = AfterError
      /\ spent' \in [commands : Nat, crashes : Nat, faults : Nat]
  BY FaultIsCounted DEF TaskErrs, restUnchanged
<1>2. /\ task \in TaskRecords /\ ~task.detached /\ task.stamp = clock /\ clock \in Nat
      /\ \A f \in Files : Len(task.prefix[f]) <= Size[f]
      /\ task.of \in Models
      /\ Calm /\ task.at \in Holding => ~Publishing
  BY <1>1, Working DEF TaskRecords, Holding, Fetching, Filling, Checking
<1>3. \/ task' = None
      \/ /\ task' \in TaskRecords /\ task'.of = task.of /\ task'.stamp = task.stamp /\ ~task'.detached
         /\ task'.job = task.job /\ task'.prefix = task.prefix
         /\ \/ task'.at = "preFail"
            \/ task'.at = "fail" /\ task.at \in Holding \ {"recover"}
  <2>1. CASE task' = Go("preFail")
    <3>1. task \in TaskRecords /\ ~task.detached /\ "preFail" \in Positions
      BY <1>2 DEF Positions
    <3> HIDE DEF PublicationInv, TaskInv, OthersInv
    <3> QED
      BY <2>1, <3>1 DEF TaskRecords, Go
  <2>2. CASE task' = Go("fail") /\ task.at \in {"select", "open", "record", "verify", "intent"}
    <3>1. task \in TaskRecords /\ ~task.detached /\ "fail" \in Positions
      BY <1>2 DEF Positions
    <3> HIDE DEF PublicationInv, TaskInv, OthersInv
    <3> QED
      BY <2>2, <3>1 DEF TaskRecords, Go, Holding, Filling, Checking
  <2> QED
    BY <1>1, <2>1, <2>2 DEF AfterError
<1>4. TaskInv'
  <2>1. task.at \in Holding => task.job # None
    BY <1>1 DEF TaskIsEquipped
  <2>2. task.job # None => task.job.stamp <= clock
    BY <1>1 DEF TaskIsEquipped
  <2> QED
    BY <1>1, <1>2, <1>3, <2>1, <2>2 DEF TaskIsEquipped, TaskIsAlone, Holding, Fetching, Filling, Checking
<1>a. task.at \in {"recover", "preFail"} => task' = None \/ task'.at = "preFail"
  BY <1>1, <1>2, <1>3 DEF Holding, Fetching, Filling, Checking
<1>b. Stamps
  BY <1>a DEF Stamps
<1>5. CASE UNCHANGED <<diskVars, lock>>
  <2>1. OthersInv'
    BY <1>1, <1>2, <1>3, <1>5, <1>b, TaskLocal DEF diskVars, Types
  <2> QED
    BY <1>4, <2>1
<1>6. CASE Effect(Straggler(task))
  <2>1. PICK o : o = Straggler(task)
    OBVIOUS
  <2>2. /\ UNCHANGED <<published, writes, lock>>
        /\ Free \/ o.op \in {"open", "truncate"}
        /\ job' = Writes(o)
        /\ staged' = IF o.op = "truncate" THEN Truncated(o.of, o.segment[1]) ELSE staged
        /\ staging' = IF o.op \in {"open", "truncate"} THEN staging \cup {o.of} ELSE staging
    BY <1>6, <2>1 DEF Effect
  <2>3. CASE o.op \in {"open", "truncate"}
    <3>1. job' = job /\ task.at \in Filling \cup {"truncate"} /\ o.of = task.of /\ o.segment \in Segments
      BY <1>1, <2>1, <2>2, <2>3, TaskWritten, StragglerOf DEF Filling
    <3>2. /\ staged' \in [Models -> [Files -> Seq(BOOLEAN)]]
          /\ \A m \in Models, g \in Files : Len(staged'[m][g]) <= Size[g]
      BY <1>2, <2>2, <3>1, SegmentParts, TruncatedIsStaged DEF Types
    <3>3. staging' \subseteq Models
      BY <1>2, <2>2, <3>1 DEF Types
    <3>4. OthersInv'
      BY <1>1, <1>2, <1>3, <1>b, <2>2, <3>1, <3>2, <3>3, TaskLocal
    <3> QED
      BY <1>4, <3>4
  <2>4. CASE o.op \notin {"open", "truncate"}
    <3>1. Free /\ UNCHANGED <<staged, staging>>
      BY <2>2, <2>4
    <3>2. /\ NotOlder
          /\ job' # job /\ job'.state = "Publishing" =>
                task.at = "intent" /\ IntentAllowed(task.job) /\ job' = task.job
      BY <1>1, <2>1, <2>2, TaskWritten DEF NotOlder
    <3>3. Calm /\ job' # job /\ job'.state = "Publishing" => job'.of \in staging /\ AllIntact(job'.of)
      BY <1>1, <3>2 DEF IntentAllowed, TaskIsAlone, Holding
    <3>4. OthersInv'
      BY <1>1, <1>2, <1>3, <1>b, <2>2, <3>1, <3>2, <3>3, TaskWrites
    <3> QED
      BY <1>4, <3>4
  <2> QED
    BY <2>3, <2>4
<1> QED
  BY <1>1, <1>5, <1>6


\* pause_current_job stamps the document after everything a straggler carries; when
\* it fails the document may be paused all the same.
LEMMA ActPauseSafe ==
    ASSUME PublicationInv, ActPause \/ PauseErrs
    PROVE  PublicationInv'
<1> USE DEF PublicationInv, TaskInv, OthersInv
<1>1. /\ command = <<"pause", "acting">> /\ command[2] = "acting" /\ Free /\ task = None
      /\ command' = <<"none", "idle">> /\ clock \in Nat
      /\ UNCHANGED <<staged, staging, published, writes, lock, task, stragglers, clock>>
      /\ spent' \in [commands : Nat, crashes : Nat, faults : Nat]
      /\ held' \in {held, "paused"}
  BY FaultIsCounted DEF ActPause, PauseErrs, filesUnchanged, CommandIsExclusive, Types
<1>2. CASE job' = Paused(job, clock) /\ Settled
  <2>1. job # None /\ job \in JobRecords /\ ~Publishing
    BY <1>2 DEF Settled, Publishing, Types
  <2>2. job' \in JobRecords /\ job'.of = job.of /\ job'.stamp = clock /\ job'.state = "Paused"
    <3>1. Types /\ clock \in Nat /\ job \in JobRecords
      BY <1>1, <2>1
    <3> HIDE DEF PublicationInv, TaskInv, OthersInv
    <3>2. /\ Paused(job, clock) \in JobRecords /\ Paused(job, clock).of = job.of
          /\ Paused(job, clock).stamp = clock /\ Paused(job, clock).state = "Paused"
      BY <3>1, PausedParts
    <3> QED
      BY <1>2, <3>2
  <2>3. \A o \in stragglers : o.op \in {"replace", "intent"} /\ o.job.state # "Failed" => o.job.stamp < clock
    BY DEF StragglersAreShaped
  <2>4. Calm => StragglersAreLate'
    <3>1. \A o \in stragglers : o.op \in {"replace", "intent"} /\ o.job.state # "Failed" => Late(o)'
      BY <1>1, <2>2, <2>3 DEF Late
    <3>2. \A o \in stragglers : o.op = "intent" => o.job.state # "Failed"
      BY DEF StragglersAreShaped
    <3> QED
      BY <1>1, <3>1, <3>2 DEF StragglersAreLate
  <2>5. Types'
    BY <1>1, <2>2 DEF Types
  <2>6. PauseIsKept'
    BY <1>1, <2>2, <2>3, NoneAssumption DEF PauseIsKept
  <2>7. CommandIsExclusive' /\ StragglersAreShaped' /\ CancelIsKept' /\ TaskInv'
    BY <1>1, <2>1, <2>2, NoneAssumption
    DEF CommandIsExclusive, StragglersAreShaped, CancelIsKept, CancelHolds, TaskIsEquipped, TaskIsAlone, Free
  <2>8. Calm => PublicationIsVerified'
    BY <1>1, <2>2 DEF PublicationIsVerified, Publishing
  <2> QED
    BY <2>4, <2>5, <2>6, <2>7, <2>8
<1>3. CASE job' = job /\ held' = held /\ (job = None \/ Publishing \/ "store" \in Failures)
  <2>1. Types'
    BY <1>1, <1>3 DEF Types
  <2>2. /\ CommandIsExclusive' /\ StragglersAreShaped' /\ PauseIsKept' /\ CancelIsKept' /\ TaskInv'
        /\ PublicationIsVerified' = PublicationIsVerified
    BY <1>1, <1>3
    DEF CommandIsExclusive, StragglersAreShaped, PauseIsKept, CancelIsKept, CancelHolds, TaskIsEquipped,
        TaskIsAlone, Free, PublicationIsVerified, Publishing, AllIntact
  <2>3. Calm => StragglersAreLate'
    BY <1>1, <1>3 DEF StragglersAreLate, Unanswered, Publishing, Late, AllIntact
  <2> QED
    BY <2>1, <2>2, <2>3
<1>4. \/ job' = Paused(job, clock) /\ Settled
      \/ job' = job /\ held' = held /\ (job = None \/ Publishing \/ "store" \in Failures)
  BY DEF ActPause, PauseErrs, Settled, Publishing
<1> QED
  BY <1>2, <1>3, <1>4

\* cancel_current_job keeps the lock from removing staging to removing the document;
\* when it fails some of the files may be gone.
LEMMA ActCancelSafe ==
    ASSUME PublicationInv, ActCancel
    PROVE  PublicationInv'
<1> USE DEF PublicationInv, TaskInv, OthersInv
<1>1. /\ command = <<"cancel", "acting">> /\ command[2] = "acting" /\ Free /\ task = None
      /\ UNCHANGED <<job, published, task, stragglers, clock, spent>>
  BY DEF ActCancel, CommandIsExclusive
<1>2. CASE Settled
  <2>1. /\ job # None /\ job \in JobRecords /\ job.of \in Models /\ ~Publishing
        /\ staged' = [staged EXCEPT ![job.of] = NoFiles] /\ staging' = staging \ {job.of}
        /\ writes' \subseteq writes
        /\ lock' = "cancel" /\ command' = command /\ held' = held
    BY <1>2 DEF ActCancel, Settled, Publishing, Types, JobRecords, WritesWithout
  <2>2. /\ staged' \in [Models -> [Files -> Seq(BOOLEAN)]]
        /\ \A m \in Models, f \in Files : Len(staged'[m][f]) <= Size[f]
    <3>1. \A m \in Models : staged'[m] = IF m = job.of THEN NoFiles ELSE staged[m]
      BY <2>1 DEF Types
    <3>2. staged' \in [Models -> [Files -> Seq(BOOLEAN)]]
      BY <2>1, NothingHeld DEF Types
    <3>3. \A f \in Files : Len(NoFiles[f]) <= Size[f]
      BY NothingHeld, DownloadAssumption
    <3> QED
      BY <3>1, <3>2, <3>3 DEF Types
  <2>3. Types'
    BY <1>1, <2>1, <2>2 DEF Types
  <2>4. CommandIsExclusive' /\ StragglersAreShaped' /\ PauseIsKept' /\ CancelIsKept' /\ TaskInv'
    BY <1>1, <2>1
    DEF CommandIsExclusive, StragglersAreShaped, PauseIsKept, CancelIsKept, CancelHolds, TaskIsEquipped,
        TaskIsAlone
  <2>5. Calm => StragglersAreLate' /\ PublicationIsVerified'
    <3>1. Calm => PublicationIsVerified'
      BY <1>1, <2>1 DEF PublicationIsVerified, Publishing
    <3>2. Calm => StragglersAreLate'
      <4> SUFFICES ASSUME Calm, NEW o \in stragglers, o.op = "intent"
                   PROVE  Late(o)' \/ Publishing' \/ AllIntact(o.job.of)' \/ (o.job.of \notin staging)'
        BY <1>1, <2>1 DEF StragglersAreLate, Unanswered, Late, Publishing
      <4>1. CASE o.job.of = job.of
        BY <2>1, <4>1
      <4>2. CASE o.job.of # job.of
        <5>1. o.job.of \in Models => staged'[o.job.of] = staged[o.job.of]
          BY <2>1, <4>2 DEF Types
        <5>2. o.job.of \in Models
          BY StragglerParts DEF JobRecords
        <5> QED
          BY <1>1, <2>1, <5>1, <5>2 DEF StragglersAreLate, Late, Publishing, AllIntact
      <4> QED
        BY <4>1, <4>2
    <3> QED
      BY <3>1, <3>2
  <2> QED
    BY <2>3, <2>4, <2>5
<1>3. CASE ~Settled
  <2>1. /\ UNCHANGED <<staged, staging, writes, lock>> /\ (job = None \/ Publishing)
        /\ held' = IF job = None THEN "cancelled" ELSE held
        /\ command' = <<"none", "idle">>
    BY <1>3 DEF ActCancel, Settled, Publishing
  <2>2. Types'
    BY <1>1, <2>1 DEF Types
  <2>3. /\ CommandIsExclusive' /\ StragglersAreShaped' /\ PauseIsKept' /\ CancelIsKept' /\ TaskInv'
        /\ PublicationIsVerified' = PublicationIsVerified
    BY <1>1, <2>1
    DEF CommandIsExclusive, StragglersAreShaped, PauseIsKept, CancelIsKept, CancelHolds, TaskIsEquipped,
        TaskIsAlone, Free, PublicationIsVerified, Publishing, AllIntact
  <2>4. Calm => StragglersAreLate'
    BY <1>1, <2>1 DEF StragglersAreLate, Unanswered, Publishing, Late, AllIntact
  <2> QED
    BY <2>2, <2>3, <2>4
<1> QED
  BY <1>2, <1>3

\* The document goes: nothing is left to replace.
LEMMA CancelEndsSafe ==
    ASSUME PublicationInv, CancelEnds
    PROVE  PublicationInv'
<1> USE DEF PublicationInv, TaskInv, OthersInv
<1>1. /\ command = <<"cancel", "acting">> /\ command[2] = "acting" /\ task = None
      /\ job' = None /\ lock' = "free" /\ held' = "cancelled" /\ command' = <<"none", "idle">>
      /\ UNCHANGED <<staged, staging, published, writes, task, stragglers, clock, spent>>
  BY DEF CancelEnds, CommandIsExclusive, filesUnchanged
<1>2. Types'
  BY <1>1 DEF Types
<1>3. /\ CommandIsExclusive' /\ StragglersAreShaped' /\ PauseIsKept' /\ CancelIsKept' /\ TaskInv'
      /\ Calm => PublicationIsVerified'
  BY <1>1
  DEF CommandIsExclusive, StragglersAreShaped, PauseIsKept, CancelIsKept, CancelHolds, TaskIsEquipped,
      TaskIsAlone, PublicationIsVerified, Publishing
<1>4. StragglersAreLate'
  BY <1>1 DEF StragglersAreLate, Late
<1> QED
  BY <1>2, <1>3, <1>4

\* A cancellation that fails leaves all of the files in an instance that is calm,
\* and the document or nothing.
LEMMA CancelErrsSafe ==
    ASSUME PublicationInv, CancelErrs
    PROVE  PublicationInv'
<1> USE DEF PublicationInv, TaskInv, OthersInv
<1>1. /\ command[2] = "acting" /\ task = None
      /\ command' = <<"none", "idle">>
      /\ UNCHANGED <<staging, published, task, stragglers, clock>>
      /\ spent' \in [commands : Nat, crashes : Nat, faults : Nat]
  BY FaultIsCounted DEF CancelErrs, CommandIsExclusive
<1>2. CASE /\ Free /\ Settled
           /\ \E gone \in SUBSET Files :
                /\ (IF gone = {} THEN "store" ELSE "removal") \in Failures
                /\ staged' = [staged EXCEPT ![job.of] = [f \in Files |-> IF f \in gone THEN <<>> ELSE @[f]]]
                /\ writes' = {w \in writes : w \in WritesWithout(job.of) \/ w.file \notin gone}
           /\ UNCHANGED <<job, held, lock>>
  <2>1. PICK gone \in SUBSET Files :
          /\ (IF gone = {} THEN "store" ELSE "removal") \in Failures
          /\ staged' = [staged EXCEPT ![job.of] = [f \in Files |-> IF f \in gone THEN <<>> ELSE @[f]]]
          /\ writes' = {w \in writes : w \in WritesWithout(job.of) \/ w.file \notin gone}
    BY <1>2
  <2>2. job # None /\ job \in JobRecords /\ job.of \in Models /\ ~Publishing
    BY <1>2 DEF Settled, Publishing, Types, JobRecords
  <2> DEFINE rest == [f \in Files |-> IF f \in gone THEN <<>> ELSE staged[job.of][f]]
  <2>3. rest \in [Files -> Seq(BOOLEAN)] /\ \A f \in Files : Len(rest[f]) <= Size[f]
    <3>1. \A f \in Files : /\ staged[job.of][f] \in Seq(BOOLEAN) /\ Len(staged[job.of][f]) <= Size[f]
                          /\ Size[f] \in Nat
      BY <2>2, DownloadAssumption DEF Types
    <3>2. <<>> \in Seq(BOOLEAN) /\ Len(<<>>) = 0
      OBVIOUS
    <3>3. \A f \in Files : rest[f] = <<>> \/ rest[f] = staged[job.of][f]
      OBVIOUS
    <3>5. rest = [f \in Files |-> rest[f]]
      OBVIOUS
    <3> HIDE DEF rest, PublicationInv, TaskInv, OthersInv
    <3>4. \A f \in Files : rest[f] \in Seq(BOOLEAN) /\ Len(rest[f]) <= Size[f]
      <4> SUFFICES ASSUME NEW f \in Files PROVE rest[f] \in Seq(BOOLEAN) /\ Len(rest[f]) <= Size[f]
        OBVIOUS
      <4>1. CASE rest[f] = <<>>
        BY <3>1, <3>2, <4>1
      <4>2. CASE rest[f] = staged[job.of][f]
        BY <3>1, <4>2
      <4> QED
        BY <3>3, <4>1, <4>2
    <3> QED
      BY <3>4, <3>5
  <2>4. staged' = [staged EXCEPT ![job.of] = rest]
    BY <2>1, <2>2 DEF Types
  <2>a. gone = {} => rest = staged[job.of]
    BY <2>2 DEF Types
  <2> HIDE DEF rest
  <2>5. /\ staged' \in [Models -> [Files -> Seq(BOOLEAN)]]
        /\ \A m \in Models, f \in Files : Len(staged'[m][f]) <= Size[f]
        /\ gone = {} => staged' = staged
    <3>1. \A m \in Models : staged'[m] = IF m = job.of THEN rest ELSE staged[m]
      BY <2>2, <2>4 DEF Types
    <3>2. staged' \in [Models -> [Files -> Seq(BOOLEAN)]]
      BY <2>2, <2>3, <2>4 DEF Types
    <3>3. gone = {} => staged' = staged
      BY <2>2, <2>4, <2>a DEF Types
    <3> QED
      BY <2>3, <3>1, <3>2, <3>3 DEF Types
  <2>6. Types'
    BY <1>1, <1>2, <2>1, <2>5 DEF Types
  <2>7. CommandIsExclusive' /\ StragglersAreShaped' /\ PauseIsKept' /\ CancelIsKept' /\ TaskInv'
    BY <1>1, <1>2, <2>1
    DEF CommandIsExclusive, StragglersAreShaped, PauseIsKept, CancelIsKept, CancelHolds, TaskIsEquipped,
        TaskIsAlone, Free, Publishing
  <2>8. ASSUME Calm
        PROVE  StragglersAreLate' /\ PublicationIsVerified'
    <3>1. gone = {} /\ Failures # {} /\ staged' = staged
      BY <2>1, <2>5, <2>8 DEF Calm
    <3> QED
      BY <1>1, <1>2, <2>8, <3>1
      DEF StragglersAreLate, Unanswered, Publishing, Late, AllIntact, PublicationIsVerified
  <2> QED
    BY <2>6, <2>7, <2>8
<1>3. CASE /\ lock = "cancel" /\ lock' = "free"
           /\ "store" \in Failures
           /\ UNCHANGED <<job, held>> \/ (job' = None /\ held' = "none")
           /\ UNCHANGED <<staged, writes>>
  <2>1. Types'
    BY <1>1, <1>3 DEF Types
  <2>2. CommandIsExclusive' /\ StragglersAreShaped' /\ PauseIsKept' /\ CancelIsKept' /\ TaskInv'
    BY <1>1, <1>3
    DEF CommandIsExclusive, StragglersAreShaped, PauseIsKept, CancelIsKept, CancelHolds, TaskIsEquipped,
        TaskIsAlone, Publishing
  <2>3. Calm => StragglersAreLate' /\ PublicationIsVerified'
    BY <1>1, <1>3 DEF StragglersAreLate, Unanswered, Publishing, Late, AllIntact, PublicationIsVerified
  <2> QED
    BY <2>1, <2>2, <2>3
<1> QED
  BY <1>2, <1>3 DEF CancelErrs

\* recover_startup_state keeps a pause, and takes an intended publication up again.
LEMMA CrashSafe ==
    ASSUME PublicationInv, Crash
    PROVE  PublicationInv'
<1> USE DEF PublicationInv, TaskInv, OthersInv
<1>1. /\ stragglers' = {} /\ writes' = {} /\ command' = <<"none", "idle">> /\ lock' = "free" /\ clock \in Nat
      /\ UNCHANGED <<staged, staging, published, clock, held>>
      /\ job' = IF Settled THEN Recovered(job, clock) ELSE job
      /\ task' = IF Publishing THEN NewTask(job.of, "publish") ELSE None
      /\ job # None => job \in JobRecords /\ job.of \in Models
      /\ spent' \in [commands : Nat, crashes : Nat, faults : Nat]
  BY DEF Crash, Types, JobRecords
<1>2. /\ Publishing => NotHeld /\ job' = job
      /\ job = None => job' = None
      /\ job # None => job' \in JobRecords /\ job'.of = job.of /\ job'.stamp <= clock
      /\ job # None /\ ~Publishing => job'.state # "Publishing"
      /\ job # None /\ job.state \in {"Paused", "Failed"} => job'.state \in {"Paused", "Failed"}
  <2>1. Publishing => NotHeld /\ job' = job
    BY <1>1 DEF Publishing, Settled, NotHeld, PauseIsKept, CancelIsKept, CancelHolds
  <2>2. CASE Settled
    <3>1. job # None /\ job \in JobRecords /\ ~Publishing /\ job.state # "Publishing"
      BY <1>1, <2>2 DEF Settled, Publishing
    <3>2. job' = Recovered(job, clock)
      BY <1>1, <2>2
    <3>3. /\ job' \in JobRecords /\ job'.of = job.of /\ job'.stamp = clock
          /\ job'.state = IF job.state \in Interrupted THEN "Paused" ELSE job.state
      <4>1. clock \in Nat
        BY <1>1
      <4> QED
        BY <3>1, <3>2, <4>1, RecoveredParts
    <3> QED
      BY <1>1, <3>1, <3>3
  <2>3. CASE ~Settled
    BY <1>1, <2>1, <2>3 DEF Settled, Publishing, CommandIsExclusive
  <2> QED
    BY <2>1, <2>2, <2>3
<1>3. task' # None =>
        /\ Publishing /\ task' \in TaskRecords /\ task'.at = "publish" /\ task'.stamp = clock
        /\ ~task'.detached
        /\ task'.job = None /\ \A f \in Files : Len(task'.prefix[f]) <= Size[f]
  BY <1>1, NewTaskParts DEF Publishing
<1>4. Types'
  BY <1>1, <1>2, <1>3 DEF Types
<1>5. CommandIsExclusive' /\ StragglersAreShaped' /\ PauseIsKept' /\ CancelIsKept'
  BY <1>1, <1>2, <1>3, NoneAssumption
  DEF CommandIsExclusive, NotHeld, StragglersAreShaped, PauseIsKept, CancelIsKept, CancelHolds
<1>6. TaskInv'
  BY <1>1, <1>2, <1>3
  DEF TaskIsEquipped, TaskIsAlone, Holding, Fetching, Filling, Checking, Publishing
<1>7. Calm => PublicationIsVerified'
  BY <1>1, <1>2 DEF PublicationIsVerified, Publishing, AllIntact
<1>8. StragglersAreLate'
  BY <1>1 DEF StragglersAreLate
<1> QED
  BY <1>4, <1>5, <1>6, <1>7, <1>8

-----------------------------------------------------------------------------
(* The first invariant *)

\* The first invariant holds at the start ...
LEMMA InitSafe == Init => PublicationInv
<1> SUFFICES ASSUME Init PROVE PublicationInv
  OBVIOUS
<1>1. staged \in [Models -> [Files -> Seq(BOOLEAN)]]
  BY NothingHeld DEF Init
<1>2. \A m \in Models, f \in Files : Len(staged[m][f]) <= Size[f]
  BY NothingHeld, DownloadAssumption DEF Init
<1>3. Types
  BY <1>1, <1>2 DEF Init, Types
<1>4. PublicationIsVerified
  BY DEF Init, PublicationIsVerified, Publishing
<1> QED
  BY <1>3, <1>4
  DEF Init, PublicationInv, TaskInv, OthersInv, CommandIsExclusive, TaskIsEquipped, TaskIsAlone,
      StragglersAreShaped, StragglersAreLate, PauseIsKept, CancelIsKept, CancelHolds, Publishing

\* ... and every step keeps it.
LEMMA NextSafe == Attached /\ PublicationInv /\ [Next]_vars => PublicationInv'
<1> SUFFICES ASSUME Attached, PublicationInv, [Next]_vars PROVE PublicationInv'
  OBVIOUS
<1>1. CASE Network
  BY <1>1, PreflightSafe, SegmentArrivesSafe, SegmentEndsSafe DEF Network
<1>2. CASE TaskStep
  BY <1>2, TaskRecoversSafe, TaskCreatesSafe, TaskReplacesSafe, LaunchSafe, TaskOpensSafe,
     WindowEndsSafe, TaskVerifiesSafe, TaskTruncatesSafe, TaskIntendsSafe, TaskPublishesSafe,
     TaskRefreshesSafe, TaskPausesSafe, TaskFailsSafe DEF TaskStep
<1>3. CASE WriteBehind
  BY <1>3, WriteBehindSafe
<1>4. CASE StragglerEnds
  BY <1>4, StragglerWritesSafe, StragglerFailsSafe, StragglerErrsSafe, StragglerPublishesSafe DEF StragglerEnds
<1>5. CASE CommandStep
  BY <1>5, TaskStoppedSafe, AbortSafe, ActPauseSafe, ActCancelSafe, CancelEndsSafe DEF CommandStep
<1>6. CASE (\E m \in Models : Start(m)) \/ Resume
  BY <1>6, StartSafe, ResumeSafe
<1>7. CASE (\E kind \in {"pause", "cancel"} : Ask(kind)) \/ Crash
  BY <1>7, AskSafe, CrashSafe
<1>8. CASE UNCHANGED vars
  BY <1>8
  DEF vars, diskVars, PublicationInv, TaskInv, OthersInv, Types, CommandIsExclusive, NotHeld, TaskIsEquipped,
      TaskIsAlone, StragglersAreShaped, StragglersAreLate, PublicationIsVerified, PauseIsKept, CancelIsKept,
      CancelHolds, Unanswered, Publishing, Late, AllIntact
<1>9. CASE WriteLands
  BY <1>9, WriteLandsSafe
<1>10. CASE Errors
  BY <1>10, TaskErrsSafe, ActPauseSafe, CancelErrsSafe DEF Errors, CommandDropped, Attached
<1> QED
  BY <1>1, <1>2, <1>3, <1>4, <1>5, <1>6, <1>7, <1>8, <1>9, <1>10 DEF Next

-----------------------------------------------------------------------------
(* Valid documents *)

\* What is written down stays valid.
LEMMA ValidAfterwards ==
    ASSUME Types, NEW j \in JobRecords, Valid(j), NEW stamp \in Nat, j.state # "Publishing",
           NEW code \in {"checksum", "failed"}
    PROVE  /\ Valid(Recovered(j, stamp)) /\ Recovered(j, stamp).state \notin Interrupted
           /\ Valid(Paused(j, stamp)) /\ Paused(j, stamp).state \notin Interrupted
           /\ Valid(Failed(Paused(j, stamp), code))
<1>1. j.state \in JobStates /\ j.exact \in BOOLEAN
  BY DEF JobRecords
<1>2. Valid(Recovered(j, stamp)) /\ Recovered(j, stamp).state \notin Interrupted
  BY <1>1, RecoveredParts DEF Valid, Interrupted, JobStates
<1>3. Valid(Paused(j, stamp)) /\ Paused(j, stamp).state \notin Interrupted
  BY <1>1, PausedParts DEF Valid, Interrupted
<1>4. Valid(Failed(Paused(j, stamp), code))
  <2> DEFINE p == Paused(j, stamp)
  <2>1. p \in JobRecords /\ (~p.exact => p.done = Nothing)
    BY <1>1, PausedParts
  <2> HIDE DEF p
  <2>2. Valid(Failed(p, code))
    BY <2>1, FailedParts DEF Valid
  <2> QED
    BY <2>2 DEF p
<1> QED
  BY <1>2, <1>3, <1>4

\* Every document a task writes with replace_current is valid.
LEMMA ReplacementIsValid ==
    ASSUME Calm, PublicationInv, DocumentInv, task # None, task.at \in ReplacePositions
    PROVE  Valid(Replacement(task))
<1> DEFINE r == Replacement(task)
<1>1. /\ task \in TaskRecords /\ task.job \in JobRecords /\ task.at # "preFailed"
      /\ task.at \in {"record", "retry"} => task.segment \in Segments
  BY Working, TaskReplacement DEF PublicationInv, TaskInv, OthersInv, TaskIsEquipped
<1>2. CASE task.at = "failed"
  <2>1. r = task.job
    BY <1>1, <1>2, ReplacementParts
  <2> QED
    BY <1>2, <2>1 DEF DocumentInv, DocumentsAreValid
<1>3. CASE task.at # "failed"
  <2>1. /\ r.error = IF task.at = "retry" THEN "checksum" ELSE "none"
        /\ r.exact = (task.at = "exact" \/ task.job.exact)
        /\ r.state = CASE task.at = "fetching" -> "FetchingManifest"
                       [] task.at = "exact" -> "Paused"
                       [] task.at = "mark" -> "Downloading"
                       [] task.at \in {"select", "record"} -> task.job.state
                       [] task.at = "verifying" -> "Verifying"
                       [] task.at = "retry" -> "Failed"
        /\ task.at = "exact" => r.done = Nothing
        /\ task.at \in {"fetching", "verifying"} => r.done = task.job.done
    BY <1>1, <1>3, ReplacementParts
  <2>2. /\ task.at = "fetching" => ~task.job.exact /\ task.job.done = Nothing
        /\ task.at \in {"mark", "select", "record", "verifying", "retry"} => task.job.exact
        /\ task.at \in {"select", "record"} => task.job.state = "Downloading"
        /\ task.at = "verifying" => task.job.done = Size
    BY DEF PublicationInv, TaskInv, OthersInv, TaskIsEquipped, DocumentInv, DocumentsAreValid, Filling, Checking, Fetching
  <2> HIDE DEF r
  <2> QED
    BY <1>1, <1>3, <2>1, <2>2 DEF Valid, ReplacePositions, r
<1> QED
  BY <1>2, <1>3

\* bytes_completed is a number.
LEMMA BytesAreCounted == \A done : BytesOf(done) \in Nat
<1>1. IsFiniteSet(Segments)
  <2>1. \A f \in Files : IsFiniteSet({f} \X (1..Size[f]))
    <3> TAKE f \in Files
    <3>1. IsFiniteSet({f}) /\ IsFiniteSet(1..Size[f])
      <4>1. Size[f] \in Int /\ 1 \in Int
        BY DownloadAssumption
      <4> QED
        BY <4>1, FS_Singleton, FS_Interval
    <3> QED
      BY <3>1, FS_Product
  <2>2. IsFiniteSet({{f} \X (1..Size[f]) : f \in Files})
    <3> DEFINE T == {{f} \X (1..Size[f]) : f \in Files}
               image == [f \in Files |-> {f} \X (1..Size[f])]
    <3>1. image \in Surjection(Files, T)
      BY DEF Surjection
    <3> HIDE DEF T, image
    <3>2. IsFiniteSet(T)
      BY <3>1, DownloadAssumption, FS_Surjection
    <3> QED
      BY <3>2 DEF T
  <2> QED
    BY <2>1, <2>2, FS_UNION DEF Segments
<1> TAKE done
<1>2. IsFiniteSet({s \in Segments : s[2] <= done[s[1]]})
  BY <1>1, FS_Subset
<1> QED
  BY <1>2, FS_CardinalityType DEF BytesOf

-----------------------------------------------------------------------------
(* Every action keeps the documents valid and the window complete *)

\* Without a task before or in its window, the window is as it should be.
LEMMA NoWindow ==
    ASSUME task' # None => task'.at \notin Preparing \cup Filling
    PROVE  WindowIsEmpty' /\ WindowIsSound' /\ WindowIsComplete'
BY DEF WindowIsEmpty, WindowIsSound, WindowIsComplete

\* A preflight keeps the document it holds.
LEMMA PreflightKept ==
    ASSUME Calm, PublicationInv, DocumentInv, PreflightPasses \/ PreflightFails
    PROVE  DocumentInv'
<1> USE DEF PublicationInv, TaskInv, OthersInv, DocumentInv
<1>1. /\ task # None /\ task.at \in {"disk", "manifest", "capacity"}
      /\ UNCHANGED <<diskVars, lock, stragglers, command, clock, held>>
      /\ \/ task.at = "disk" /\ task' = Go("fetching")
         \/ task.at = "manifest" /\ task' = Go("exact")
         \/ task.at = "capacity" /\ task' = [Go("load") EXCEPT !.stamp = clock]
         \/ task' = Go("preFail")
  BY DEF PreflightPasses, PreflightFails, restUnchanged
<1>2. /\ task' \in TaskRecords /\ task'.of = task.of /\ task'.stamp = task.stamp /\ ~task'.detached
      /\ task'.job = task.job /\ task'.selected = task.selected /\ task'.flying = task.flying
      /\ task'.parked = task.parked
      /\ \/ task.at = "disk" /\ task'.at = "fetching"
         \/ task.at = "manifest" /\ task'.at = "exact"
         \/ task.at = "capacity" /\ task'.at = "load"
         \/ task'.at = "preFail"
  BY <1>1, Working DEF Go, Positions, TaskRecords
<1>3. DocumentsAreValid'
  BY <1>1, <1>2 DEF DocumentsAreValid, Fetching, Filling, Checking, diskVars
<1>4. DocumentIsFollowed'
  BY <1>1, <1>2, NoneAssumption DEF DocumentIsFollowed, Filling, Checking, diskVars
<1>5. WindowIsEmpty' /\ WindowIsSound' /\ WindowIsComplete'
  BY <1>1, <1>2 DEF WindowIsEmpty, WindowIsSound, WindowIsComplete, Preparing, Fetching, Filling
<1> QED
  BY <1>3, <1>4, <1>5

\* load_recovering_interrupted_job counts what is staged.
LEMMA TaskRecoversKept ==
    ASSUME Calm, PublicationInv, DocumentInv, TaskRecovers
    PROVE  DocumentInv'
<1> USE DEF PublicationInv, TaskInv, OthersInv, DocumentInv
<1>1. /\ task # None /\ task.at \in {"recover", "reconcile", "load"} /\ task \in TaskRecords
      /\ task.stamp \in Nat
      /\ UNCHANGED <<staged, staging, published, writes, lock, stragglers, command, clock, held, spent>>
  BY Working DEF TaskRecovers, filesUnchanged, restUnchanged, TaskRecords
<1>2. CASE Settled
  <2> DEFINE j == Recovered(job, task.stamp)
  <2>1. job # None /\ job \in JobRecords /\ job.state # "Publishing" /\ Valid(job)
    BY <1>2 DEF Settled, Types, DocumentsAreValid
  <2>2. /\ j \in JobRecords /\ j.of = job.of /\ Valid(j) /\ j.state \notin Interrupted
        /\ j.exact => j.done = Lengths(job.of)
        /\ ~j.exact => j.done = Nothing
    BY <1>1, <2>1, RecoveredParts, ValidAfterwards
  <2>3. /\ job' = j
        /\ \/ task' = None
           \/ \E p \in {"preFail", "disk", "mark", "capacity"} :
                /\ task' = [task EXCEPT !.at = p, !.job = j]
                /\ p = "disk" => ~j.exact
                /\ p = "mark" => j.exact /\ task.at = "load"
    <3>1. \A p : [Go(p) EXCEPT !.job = j] = [task EXCEPT !.at = p, !.job = j]
      BY <1>1 DEF Go, TaskRecords
    <3>2. CASE task.at = "load"
      <4>1. task' = None \/ (j.exact /\ task' = [Go("mark") EXCEPT !.job = j, !.of = j.of])
        BY <1>2, <3>2 DEF TaskRecovers
      <4>2. j.of = task.of
        <5>1. job.of = task.of
          BY <1>1, <2>1, <3>2 DEF TaskIsAlone
        <5> HIDE DEF j, PublicationInv, TaskInv, OthersInv, DocumentInv
        <5> QED
          BY <2>2, <5>1
      <4> HIDE DEF j, PublicationInv, TaskInv, OthersInv, DocumentInv
      <4>3. [Go("mark") EXCEPT !.job = j, !.of = j.of] = [task EXCEPT !.at = "mark", !.job = j]
        BY <1>1, <4>2 DEF Go, TaskRecords
      <4>4. job' = j
        BY <1>2 DEF TaskRecovers, j
      <4> QED
        BY <3>2, <4>1, <4>3, <4>4
    <3>3. CASE task.at = "reconcile"
      BY <1>2, <3>1, <3>3 DEF TaskRecovers
    <3>4. CASE task.at = "recover"
      BY <1>2, <3>1, <3>4 DEF TaskRecovers
    <3> QED
      BY <1>1, <3>2, <3>3, <3>4
  <2> HIDE DEF j
  <2>4. CASE task' = None
    BY <1>1, <2>2, <2>3, <2>4, NoWindow DEF DocumentsAreValid, DocumentIsFollowed
  <2>5. CASE \E p \in {"preFail", "disk", "mark", "capacity"} :
                /\ task' = [task EXCEPT !.at = p, !.job = j]
                /\ p = "disk" => ~j.exact
                /\ p = "mark" => j.exact /\ task.at = "load"
    <3>1. PICK p \in {"preFail", "disk", "mark", "capacity"} :
                /\ task' = [task EXCEPT !.at = p, !.job = j]
                /\ p = "disk" => ~j.exact
                /\ p = "mark" => j.exact /\ task.at = "load"
      BY <2>5
    <3>2. /\ task' \in TaskRecords /\ task'.of = task.of
          /\ task'.job = j /\ task'.at = p /\ task'.selected = task.selected
          /\ task'.flying = task.flying /\ task'.parked = task.parked
      BY <1>1, <2>2, <3>1 DEF TaskRecords, Positions
    <3>3. p = "mark" => j.done = Lengths(task.of)'
      <4>1. p = "mark" => job.of = task.of
        BY <1>1, <2>1, <3>1 DEF TaskIsAlone
      <4> QED
        BY <1>1, <2>2, <3>1, <3>2, <4>1 DEF Lengths
    <3>4. DocumentsAreValid'
      BY <1>1, <2>2, <2>3, <3>1, <3>2, <3>3 DEF DocumentsAreValid, Fetching, Filling, Checking
    <3>5. DocumentIsFollowed'
      BY <2>2, <2>3 DEF DocumentIsFollowed
    <3>6. WindowIsEmpty' /\ WindowIsSound' /\ WindowIsComplete'
      BY <1>1, <3>2 DEF WindowIsEmpty, WindowIsSound, WindowIsComplete, Preparing, Fetching, Filling
    <3> QED
      BY <3>4, <3>5, <3>6
  <2> QED
    BY <2>3, <2>4, <2>5
<1>3. CASE ~Settled
  <2>1. job' = job /\ (task' = None \/ \E p \in {"create", "preFail"} : task' = Go(p))
    BY <1>1, <1>3 DEF TaskRecovers
  <2>2. task' # None => /\ task'.at \in {"create", "preFail"} /\ task'.selected = task.selected
                        /\ task'.flying = task.flying /\ task'.parked = task.parked
    BY <1>1, <2>1 DEF Go, TaskRecords
  <2>3. DocumentsAreValid'
    BY <1>1, <2>1, <2>2 DEF DocumentsAreValid, Fetching, Filling, Checking
  <2>4. DocumentIsFollowed'
    BY <1>1, <1>3, <2>1, <2>2 DEF DocumentIsFollowed, Settled, Interrupted, Filling, Checking
  <2>5. WindowIsEmpty' /\ WindowIsSound' /\ WindowIsComplete'
    BY <1>1, <2>2 DEF WindowIsEmpty, WindowIsSound, WindowIsComplete, Preparing, Fetching, Filling
  <2> QED
    BY <2>3, <2>4, <2>5
<1> QED
  BY <1>2, <1>3

\* A new document is valid.
LEMMA TaskCreatesKept ==
    ASSUME Calm, PublicationInv, DocumentInv, TaskCreates
    PROVE  DocumentInv'
<1> USE DEF PublicationInv, TaskInv, OthersInv, DocumentInv
<1> DEFINE j == NewJob(task.of, task.stamp)
<1>1. /\ task # None /\ task.at = "create" /\ task \in TaskRecords
      /\ UNCHANGED <<staged, staging, published, writes, lock, stragglers, command, clock, held, spent>>
  BY Working DEF TaskCreates, filesUnchanged, restUnchanged
<1>2. j \in JobRecords /\ Valid(j) /\ ~j.exact /\ j.done = Nothing
  BY <1>1 DEF NewJob, JobRecords, JobStates, TaskRecords, Nothing, Valid
<1>3. \/ job' = j /\ task' = [Go("disk") EXCEPT !.job = j]
      \/ job' = job /\ task' = Go("preFail")
  BY DEF TaskCreates
<1> HIDE DEF j
<1>4. /\ task' \in TaskRecords /\ task'.selected = task.selected
      /\ task'.flying = task.flying /\ task'.parked = task.parked
      /\ \/ job' = j /\ task'.at = "disk" /\ task'.job = j
         \/ job' = job /\ task'.at = "preFail"
  <2> HIDE DEF PublicationInv, TaskInv, OthersInv, DocumentInv
  <2>1. CASE job' = j /\ task' = [Go("disk") EXCEPT !.job = j]
    <3>1. task' = [task EXCEPT !.at = "disk", !.job = j] /\ "disk" \in Positions
      BY <1>1, <2>1 DEF Go, TaskRecords, Positions
    <3> QED
      BY <1>1, <1>2, <2>1, <3>1 DEF TaskRecords
  <2>2. CASE job' = job /\ task' = Go("preFail")
    <3>1. task' = [task EXCEPT !.at = "preFail"] /\ "preFail" \in Positions
      BY <2>2 DEF Go, Positions
    <3> QED
      BY <1>1, <2>2, <3>1 DEF TaskRecords
  <2> QED
    BY <1>3, <2>1, <2>2
<1>5. DocumentsAreValid'
  BY <1>1, <1>2, <1>4 DEF DocumentsAreValid, Fetching, Filling, Checking
<1>6. DocumentIsFollowed'
  BY <1>1, <1>4, NoneAssumption DEF DocumentIsFollowed, Filling, Checking
<1>7. WindowIsEmpty' /\ WindowIsSound' /\ WindowIsComplete'
  BY <1>1, <1>4 DEF WindowIsEmpty, WindowIsSound, WindowIsComplete, Preparing, Fetching, Filling
<1> QED
  BY <1>5, <1>6, <1>7

\* A task that ends leaves a valid document at rest.
LEMMA TaskEndsKept ==
    ASSUME Calm, PublicationInv, DocumentInv, TaskPauses \/ TaskFails
    PROVE  DocumentInv'
<1> USE DEF PublicationInv, TaskInv, OthersInv, DocumentInv
<1>1. /\ task # None /\ task \in TaskRecords /\ task.stamp \in Nat /\ clock \in Nat
      /\ UNCHANGED <<staged, staging, published, writes, lock, stragglers, command, clock, held, spent>>
  BY Working DEF TaskPauses, TaskFails, filesUnchanged, restUnchanged, TaskRecords, Types
<1>2. CASE Settled
  <2>1. job # None /\ job \in JobRecords /\ job.state # "Publishing" /\ Valid(job)
    BY <1>2 DEF Settled, Types, DocumentsAreValid
  <2>2. PICK stamp \in Nat :
          /\ job' = Paused(job, stamp)
          /\ \/ task' = None
             \/ \E code \in {"checksum", "failed"} : task' = [Go("failed") EXCEPT !.job = Failed(job', code)]
    <3> HIDE DEF PublicationInv, TaskInv, OthersInv, DocumentInv
    <3>1. CASE TaskPauses
      BY <1>1, <1>2, <3>1 DEF TaskPauses
    <3>2. CASE TaskFails
      <4>1. Code(task) \in {"checksum", "failed"}
        BY DEF Code
      <4>2. (IF task.at = "fail" THEN task.stamp ELSE clock) \in Nat
        BY <1>1
      <4> QED
        BY <1>2, <3>2, <4>1, <4>2 DEF TaskFails
    <3> QED
      BY <3>1, <3>2
  <2>3. /\ job' \in JobRecords /\ Valid(job') /\ job'.state \notin Interrupted
        /\ \A code \in {"checksum", "failed"} : Valid(Failed(job', code))
    <3>1. \A code \in {"checksum", "failed"} :
            /\ Valid(Paused(job, stamp)) /\ Paused(job, stamp).state \notin Interrupted
            /\ Valid(Failed(Paused(job, stamp), code))
      BY <2>1, <2>2, ValidAfterwards
    <3>2. Paused(job, stamp) \in JobRecords
      BY <1>1, <2>1, <2>2, PausedParts
    <3> QED
      BY <2>2, <3>1, <3>2
  <2>4. task' # None => task'.at = "failed" /\ Valid(task'.job)
    <3> HIDE DEF PublicationInv, TaskInv, OthersInv, DocumentInv
    <3> SUFFICES ASSUME NEW code \in {"checksum", "failed"}, task' = [Go("failed") EXCEPT !.job = Failed(job', code)]
                 PROVE  task'.at = "failed" /\ task'.job = Failed(job', code)
      BY <2>2, <2>3
    <3> QED
      BY <1>1 DEF Go, TaskRecords
  <2>5. DocumentsAreValid'
    BY <1>1, <2>3, <2>4 DEF DocumentsAreValid, Fetching, Filling, Checking
  <2>6. DocumentIsFollowed'
    BY <2>3 DEF DocumentIsFollowed
  <2> QED
    BY <2>4, <2>5, <2>6, NoWindow DEF Preparing, Fetching, Filling
<1>3. CASE ~Settled
  <2>1. job' = job /\ task' = None
    BY <1>3 DEF TaskPauses, TaskFails
  <2>2. DocumentsAreValid' /\ DocumentIsFollowed'
    BY <1>1, <1>3, <2>1 DEF DocumentsAreValid, DocumentIsFollowed, Settled, Interrupted
  <2> QED
    BY <2>1, <2>2, NoWindow
<1> QED
  BY <1>2, <1>3

\* A document is its fields.
LEMMA SameJob ==
    ASSUME NEW j \in JobRecords, NEW k \in JobRecords, j.of = k.of, j.state = k.state,
           j.stamp = k.stamp, j.exact = k.exact, j.done = k.done, j.error = k.error
    PROVE  j = k
BY DEF JobRecords

\* A document that is still being worked on takes the task's next version.
LEMMA NeverRejected ==
    ASSUME Calm, PublicationInv, DocumentInv, task # None, task.at \in {"verifying", "retry"},
           job # None, job.state \in Interrupted
    PROVE  Replaceable(Replacement(task))
<1> USE DEF PublicationInv, TaskInv, OthersInv, DocumentInv
<1> DEFINE r == Replacement(task)
<1>1. job = task.job
  BY DEF DocumentIsFollowed, Checking
<1>2. /\ task \in TaskRecords /\ task.job \in JobRecords /\ task.at \in ReplacePositions
      /\ task.at = "retry" => task.segment \in Segments
      /\ task.stamp \in Nat /\ task.job.stamp = task.stamp
  BY <1>1, Working DEF Types, ReplacePositions, TaskIsEquipped, TaskRecords, DocumentsAreValid, Checking
<1>3. /\ task.at = "verifying" => task.job.state = "Downloading" /\ task.job.exact
      /\ task.at = "retry" => task.job.state = "Verifying" /\ task.job.exact
  BY DEF TaskIsEquipped, DocumentsAreValid, Checking
<1>4. /\ r.of = task.job.of /\ r.stamp = task.stamp
      /\ r.exact = (task.at = "exact" \/ task.job.exact)
  BY <1>2, ReplacementParts
<1>5. task.at = "verifying" => r.state = "Verifying" /\ r.done = task.job.done
  BY <1>2, ReplacementParts
<1>6. task.at = "retry" => r.state = "Failed" /\ r.error = "checksum"
  BY <1>2, ReplacementParts
<1>7. BytesOf(r.done) >= BytesOf(job.done) \/ (job.state = "Verifying" /\ r.error = "checksum")
  <2>1. BytesOf(job.done) \in Nat
    BY BytesAreCounted
  <2> QED
    BY <2>1, <1>1, <1>3, <1>5, <1>6
<1>8. <<job.state, r.state>> \in CanReplace
  BY <1>1, <1>3, <1>5, <1>6 DEF CanReplace
<1>9. job.of = r.of /\ r.stamp >= job.stamp /\ r.exact
  <2> HIDE DEF r
  <2>1. task.job.exact
    BY <1>3
  <2>2. r.exact
    BY <1>4, <2>1
  <2>3. job.of = r.of
    BY <1>1, <1>4
  <2>4. r.stamp >= job.stamp
    BY <1>1, <1>2, <1>4
  <2> QED
    BY <2>2, <2>3, <2>4
<1> HIDE DEF r
<1>10. Replaceable(r)
  BY <1>7, <1>8, <1>9 DEF Replaceable
<1> QED
  BY <1>10 DEF r

\* The window opens on what the document has not completed.
LEMMA WindowOpens ==
    ASSUME Calm, PublicationInv, DocumentInv, task # None, task.at = "mark", NEW r \in JobRecords,
           r.done = task.job.done, staged' = staged,
           task' = [task EXCEPT !.at = "window", !.job = r, !.queue = Pending(r)]
    PROVE  WindowIsEmpty' /\ WindowIsSound' /\ WindowIsComplete'
<1> USE DEF PublicationInv, TaskInv, OthersInv, DocumentInv
<1>1. task \in TaskRecords /\ task.of \in Models
  BY Working DEF TaskRecords
<1>2. /\ task'.at = "window" /\ task'.job = r /\ task'.queue = Pending(r) /\ task'.of = task.of
      /\ task'.selected = {} /\ task'.flying = {} /\ task'.parked = NoFiles
  BY <1>1 DEF WindowIsEmpty, Preparing, TaskRecords
<1>3. \A f \in Files : r.done[f] = Len(staged[task.of][f]) /\ r.done[f] <= Size[f]
  BY <1>1 DEF DocumentsAreValid, Lengths, Types
<1>4. WindowIsSound'
  BY <1>2, <1>3, NothingHeld DEF WindowIsSound
<1>5. WindowIsComplete'
  <2>1. \A s \in Segments : s[2] > r.done[s[1]] => s \in Pending(r)
    BY DEF Pending
  <2> QED
    BY <1>2, <2>1 DEF WindowIsComplete, Covered
<1>6. WindowIsEmpty'
  BY <1>2 DEF WindowIsEmpty, Preparing, Fetching
<1> QED
  BY <1>4, <1>5, <1>6

\* A file that is recorded is complete.
LEMMA FileRecorded ==
    ASSUME Calm, PublicationInv, DocumentInv, task # None, task.at = "record", NEW r \in JobRecords,
           r.done = [task.job.done EXCEPT ![task.segment[1]] = Size[task.segment[1]]],
           staged' = staged,
           task' = [task EXCEPT !.at = "window", !.job = r, !.segment = None]
    PROVE  WindowIsEmpty' /\ WindowIsSound' /\ WindowIsComplete'
<1> USE DEF PublicationInv, TaskInv, OthersInv, DocumentInv
<1> DEFINE f == task.segment[1]
<1>1. task \in TaskRecords /\ task.segment \in Segments /\ f \in Files
  BY Working, SegmentParts DEF TaskIsEquipped
<1>2. /\ task'.at = "window" /\ task'.job = r /\ task'.of = task.of
      /\ task'.selected = task.selected /\ task'.flying = task.flying /\ task'.queue = task.queue
      /\ task'.parked = task.parked /\ task'.prefix = task.prefix /\ task'.pausing = task.pausing
      /\ task'.written = task.written
  BY <1>1 DEF TaskRecords
<1>3. task.job \in JobRecords /\ task.job.done \in [Files -> Nat]
  BY <1>1 DEF TaskIsEquipped, Holding, Filling, TaskRecords, JobRecords
<1>4. \A g \in Files : r.done[g] = IF g = f THEN Size[g] ELSE task.job.done[g]
  BY <1>1, <1>3
<1>5. /\ f \in task.selected /\ Len(task.prefix[f]) = Size[f] /\ Len(staged[task.of][f]) = Size[f]
      /\ Size[f] \in Nat
  BY <1>1, DownloadAssumption DEF WindowIsSound, Filling
<1> HIDE DEF f
<1>6. WindowIsSound'
  <2>1. ASSUME NEW g \in Files
        PROVE  /\ r.done[g] <= Size[g]
               /\ r.done[g] = Size[g] => Len(staged[task.of][g]) = Size[g]
               /\ g \in task.selected => Len(task.prefix[g]) >= r.done[g]
    <3>1. CASE g = f
      BY <1>4, <1>5, <3>1
    <3>2. CASE g # f
      BY <1>4, <3>2 DEF WindowIsSound, Filling
    <3> QED
      BY <3>1, <3>2
  <2>2. /\ \A s \in task.flying : s[1] \in task.selected
        /\ \A g \in Files : /\ DOMAIN task.parked[g] \subseteq 1..Size[g]
                            /\ g \in task.selected => task.written[g] <= Len(staged[task.of][g])
                            /\ g \notin task.selected => DOMAIN task.parked[g] = {}
                            /\ \A i \in DOMAIN task.parked[g] : i > Len(task.prefix[g]) + 1
    BY DEF WindowIsSound, Filling
  <2> QED
    BY <1>2, <2>1, <2>2, ZenonT(40) DEF WindowIsSound
<1>7. WindowIsComplete'
  <2> SUFFICES ASSUME ~task.pausing PROVE WindowIsComplete'
    BY <1>2 DEF WindowIsComplete
  <2>1. ASSUME NEW s \in Segments, s[2] > r.done[s[1]]
        PROVE  Covered(s)'
    <3>1. s[1] \in Files /\ s[2] \in 1..Size[s[1]] /\ Size[s[1]] \in Nat
      BY SegmentParts
    <3>2. s[1] # f /\ s[2] > task.job.done[s[1]]
      BY <1>4, <2>1, <3>1
    <3>3. Covered(s)
      BY <3>2 DEF WindowIsComplete, Filling
    <3> QED
      BY <1>2, <3>3 DEF Covered
  <2>2. \A g \in task.selected : Len(task.prefix[g]) = Size[g] => r.done[g] = Size[g]
    BY <1>1, <1>4 DEF WindowIsComplete, Filling, TaskRecords, f
  <2> HIDE DEF PublicationInv, TaskInv, OthersInv, DocumentInv
  <2>3. \A s \in Segments : s[2] > task'.job.done[s[1]] => Covered(s)'
    BY <1>2, <2>1
  <2>4. \A g \in task'.selected : Len(task'.prefix[g]) = Size[g] => task'.job.done[g] = Size[g]
    <3>1. task'.selected = task.selected /\ task'.prefix = task.prefix /\ task'.job = r
      BY <1>2
    <3> QED
      BY <2>2, <3>1
  <2> QED
    BY <2>3, <2>4 DEF WindowIsComplete
<1>8. WindowIsEmpty'
  BY <1>2 DEF WindowIsEmpty, Preparing, Fetching
<1> QED
  BY <1>6, <1>7, <1>8

\* What replace_current accepts the task goes on with; what it refuses ends the task,
\* and leaves no document that is being worked on.
LEMMA TaskReplacesKept ==
    ASSUME Calm, PublicationInv, DocumentInv, TaskReplaces
    PROVE  DocumentInv'
<1> USE DEF PublicationInv, TaskInv, OthersInv, DocumentInv
<1> DEFINE r == Replacement(task)
           f == task.segment[1]
<1>1. /\ task # None /\ task.at \in ReplacePositions /\ task \in TaskRecords
      /\ UNCHANGED <<staged, staging, published, writes, lock, stragglers, command, clock, held, spent>>
      /\ \/ Replaceable(r) /\ job' = r /\ task' = Replaced(task, r)
         \/ ~Replaceable(r) /\ job' = job /\ task' = Rejected(task)
  BY Working DEF TaskReplaces, filesUnchanged, restUnchanged
<1>2. /\ r \in JobRecords /\ Valid(r) /\ task.job \in JobRecords /\ task.at # "preFailed"
      /\ task.at \in {"record", "retry"} => task.segment \in Segments
  BY <1>1, TaskReplacement, ReplacementIsValid DEF TaskIsEquipped
<1>3. /\ task.at \notin {"failed", "preFailed"} =>
            /\ r.stamp = task.stamp
            /\ r.error = IF task.at = "retry" THEN "checksum" ELSE "none"
            /\ r.exact = (task.at = "exact" \/ task.job.exact)
      /\ task.at \in {"failed", "preFailed"} => r = task.job
      /\ r.of = task.job.of
  BY <1>1, <1>2, ReplacementParts
<1>4. CASE Replaceable(r) /\ job' = r /\ task' = Replaced(task, r)
  <2>1. (job # None => Valid(job))' /\ \A o \in stragglers' : o.op \in {"replace", "intent"} => Valid(o.job)
    BY <1>1, <1>2, <1>4 DEF DocumentsAreValid
  <2>2. CASE task.at = "fetching"
    <3>1. r.done = task.job.done
      BY <1>1, <1>2, <2>2, ReplacementParts
    <3>2. task' = [task EXCEPT !.at = "manifest", !.job = r]
      BY <1>4, <2>2 DEF Replaced
    <3> HIDE DEF r
    <3>3. /\ task'.at = "manifest" /\ task'.job = r /\ task'.selected = task.selected
          /\ task'.flying = task.flying /\ task'.parked = task.parked /\ task' \in TaskRecords
      BY <1>1, <1>2, <3>2 DEF TaskRecords, Positions
    <3>4. DocumentsAreValid'
      BY <1>1, <1>3, <2>1, <2>2, <3>1, <3>3 DEF DocumentsAreValid, Fetching, Filling, Checking
    <3>5. DocumentIsFollowed'
      BY <3>3, NoneAssumption DEF DocumentIsFollowed, Filling, Checking
    <3>6. WindowIsEmpty' /\ WindowIsSound' /\ WindowIsComplete'
      BY <1>1, <2>2, <3>3 DEF WindowIsEmpty, WindowIsSound, WindowIsComplete, Preparing, Fetching, Filling
    <3> QED
      BY <3>4, <3>5, <3>6
  <2>3. CASE task.at = "exact"
    <3>2. task' = [task EXCEPT !.at = "reconcile", !.job = r]
      BY <1>4, <2>3 DEF Replaced
    <3> HIDE DEF r
    <3>3. /\ task'.at = "reconcile" /\ task'.job = r /\ task'.selected = task.selected
          /\ task'.flying = task.flying /\ task'.parked = task.parked /\ task' \in TaskRecords
      BY <1>1, <1>2, <3>2 DEF TaskRecords, Positions
    <3>4. DocumentsAreValid'
      BY <2>1, <3>3 DEF DocumentsAreValid, Fetching, Filling, Checking
    <3>5. DocumentIsFollowed'
      BY <3>3, NoneAssumption DEF DocumentIsFollowed, Filling, Checking
    <3>6. WindowIsEmpty' /\ WindowIsSound' /\ WindowIsComplete'
      BY <1>1, <2>3, <3>3 DEF WindowIsEmpty, WindowIsSound, WindowIsComplete, Preparing, Fetching, Filling
    <3> QED
      BY <3>4, <3>5, <3>6
  <2>4. CASE task.at = "mark"
    <3>1. r.done = task.job.done /\ r.state = "Downloading"
      BY <1>1, <1>2, <2>4, ReplacementParts
    <3>2. task' = [task EXCEPT !.at = "window", !.job = r, !.queue = Pending(r)]
      BY <1>4, <2>4 DEF Replaced
    <3> HIDE DEF r
    <3>3. /\ task'.at = "window" /\ task'.job = r /\ task'.stamp = task.stamp /\ task' # None
      <4>1. Pending(r) \subseteq Segments
        BY DEF Pending
      <4>2. task' \in TaskRecords /\ task'.at = "window" /\ task'.job = r /\ task'.stamp = task.stamp
        BY <1>1, <1>2, <3>2, <4>1 DEF TaskRecords, Positions
      <4> QED
        BY <4>2, NoneAssumption
    <3>4. DocumentsAreValid'
      BY <1>1, <1>3, <2>1, <2>4, <3>1, <3>3 DEF DocumentsAreValid, Fetching, Filling, Checking
    <3>5. DocumentIsFollowed'
      BY <1>4, <3>3 DEF DocumentIsFollowed, Filling, Checking
    <3>6. WindowIsEmpty' /\ WindowIsSound' /\ WindowIsComplete'
      BY <1>1, <1>2, <2>4, <3>1, <3>2, WindowOpens
    <3> QED
      BY <3>4, <3>5, <3>6
  <2>5. CASE task.at = "select"
    <3>1. r = task.job
      <4>1. r.done = task.job.done /\ r.state = task.job.state
        BY <1>1, <1>2, <2>5, ReplacementParts
      <4>2. task.job.exact /\ task.job.error = "none" /\ task.job.stamp = task.stamp
        BY <1>1, <2>5 DEF DocumentsAreValid, Filling
      <4>3. r.exact = task.job.exact
        BY <1>3, <2>5, <4>2
      <4> HIDE DEF r
      <4> QED
        BY <1>2, <1>3, <2>5, <4>1, <4>2, <4>3, SameJob
    <3>2. task' = [task EXCEPT !.at = "open"]
      BY <1>4, <2>5 DEF Replaced
    <3> HIDE DEF r
    <3>3. /\ task' \in TaskRecords /\ task'.at = "open" /\ task'.of = task.of /\ task'.stamp = task.stamp
          /\ task'.job = task.job /\ task'.segment = task.segment /\ task'.queue = task.queue
          /\ task'.selected = task.selected /\ task'.flying = task.flying
          /\ task'.parked = task.parked /\ task'.prefix = task.prefix /\ task'.pausing = task.pausing
          /\ task'.written = task.written
      BY <1>1, <3>2 DEF TaskRecords, Positions
    <3>4. DocumentsAreValid'
      BY <1>1, <2>1, <2>5, <3>3 DEF DocumentsAreValid, Fetching, Filling, Checking
    <3>5. DocumentIsFollowed'
      BY <1>4, <3>1, <3>3, NoneAssumption DEF DocumentIsFollowed, Filling, Checking
    <3>6. WindowIsSound'
      BY <1>1, <2>5, <3>3 DEF WindowIsSound, Filling
    <3>7. WindowIsComplete' /\ WindowIsEmpty'
      BY <1>1, <2>5, <3>3 DEF WindowIsComplete, WindowIsEmpty, Covered, Filling, Preparing, Fetching
    <3> QED
      BY <3>4, <3>5, <3>6, <3>7
  <2>6. CASE task.at = "record"
    <3>1. r.done = [task.job.done EXCEPT ![f] = Size[f]]
      BY <1>1, <1>2, <2>6, ReplacementParts
    <3>2. task' = [task EXCEPT !.at = "window", !.job = r, !.segment = None]
      BY <1>4, <2>6 DEF Replaced
    <3> HIDE DEF r
    <3>3. /\ task' \in TaskRecords /\ task'.at = "window" /\ task'.job = r /\ task'.stamp = task.stamp
      BY <1>1, <1>2, <3>2 DEF TaskRecords, Positions
    <3>4. DocumentsAreValid'
      BY <1>1, <1>3, <2>1, <2>6, <3>3 DEF DocumentsAreValid, Fetching, Filling, Checking
    <3>5. DocumentIsFollowed'
      BY <1>4, <3>3, NoneAssumption DEF DocumentIsFollowed, Filling, Checking
    <3>6. WindowIsEmpty' /\ WindowIsSound' /\ WindowIsComplete'
      BY <1>1, <1>2, <2>6, <3>1, <3>2, FileRecorded
    <3> QED
      BY <3>4, <3>5, <3>6
  <2>7. CASE task.at = "verifying"
    <3>1. r.done = task.job.done /\ r.state = "Verifying"
      BY <1>1, <1>2, <2>7, ReplacementParts
    <3>2. task' = [task EXCEPT !.at = "verify", !.job = r]
      BY <1>4, <2>7 DEF Replaced
    <3> HIDE DEF r
    <3>3. /\ task' \in TaskRecords /\ task'.at = "verify" /\ task'.job = r
          /\ task'.stamp = task.stamp /\ task'.of = task.of
      BY <1>1, <1>2, <3>2 DEF TaskRecords, Positions
    <3>4. DocumentsAreValid'
      BY <1>1, <1>3, <2>1, <2>7, <3>1, <3>3 DEF DocumentsAreValid, Fetching, Filling, Checking
    <3>5. DocumentIsFollowed'
      BY <1>4, <3>3, NoneAssumption DEF DocumentIsFollowed, Filling, Checking
    <3> QED
      BY <3>3, <3>4, <3>5, NoWindow DEF Preparing, Fetching, Filling
  <2>8. CASE task.at \in {"retry", "failed"}
    <3>1. task' = None
      BY <1>4, <2>8 DEF Replaced
    <3>2. r.state = "Failed"
      <4>1. task.at = "retry" => r.state = "Failed"
        BY <1>1, <1>2, ReplacementParts
      <4>2. task.at = "failed" => r.state = "Failed"
        BY <1>1, <1>3 DEF TaskIsEquipped
      <4> QED
        BY <2>8, <4>1, <4>2
    <3> HIDE DEF r
    <3>3. DocumentsAreValid' /\ DocumentIsFollowed'
      BY <1>4, <2>1, <3>1, <3>2 DEF DocumentsAreValid, DocumentIsFollowed, Interrupted
    <3> QED
      BY <3>1, <3>3, NoWindow
  <2> QED
    BY <1>1, <1>2, <2>2, <2>3, <2>4, <2>5, <2>6, <2>7, <2>8 DEF ReplacePositions
<1>5. CASE ~Replaceable(r) /\ job' = job /\ task' = Rejected(task)
  <2>1. task' # None => task'.at \in {"preFail", "fail"}
    BY <1>1, <1>5 DEF Rejected, TaskRecords
  <2>2. task' = None => task.at \in {"mark", "verifying", "retry", "failed"}
    <3>1. task.at \in {"fetching", "exact"} => task' = [task EXCEPT !.at = "preFail"]
      BY <1>5 DEF Rejected
    <3>2. task.at \in {"select", "record"} => task' = [task EXCEPT !.at = "fail"]
      BY <1>5 DEF Rejected
    <3>3. [task EXCEPT !.at = "preFail"] \in TaskRecords /\ [task EXCEPT !.at = "fail"] \in TaskRecords
      BY <1>1 DEF TaskRecords, Positions
    <3>4. task.at \in {"fetching", "exact", "select", "record"} => task' # None
      BY <3>1, <3>2, <3>3, NoneAssumption
    <3> QED
      BY <1>1, <1>2, <3>4 DEF ReplacePositions
  <2>3. DocumentsAreValid'
    BY <1>1, <1>5, <2>1 DEF DocumentsAreValid, Fetching, Filling, Checking
  <2>4. task' = None /\ job # None => job.state \notin Interrupted
    <3> SUFFICES ASSUME task' = None, job # None, job.state \in Interrupted PROVE FALSE
      OBVIOUS
    <3>1. task.at \in {"verifying", "retry"}
      BY <1>1, <2>2 DEF DocumentIsFollowed
    <3> QED
      BY <1>1, <1>5, <3>1, NeverRejected
  <2>5. DocumentIsFollowed'
    BY <1>5, <2>1, <2>4 DEF DocumentIsFollowed, Filling, Checking
  <2> QED
    BY <2>1, <2>3, <2>5, NoWindow DEF Preparing, Fetching, Filling
<1> QED
  BY <1>1, <1>4, <1>5

-----------------------------------------------------------------------------
(* The transfer window *)

\* A step of the window leaves the document alone.
LEMMA TransferGoesOn ==
    ASSUME Calm, PublicationInv, DocumentInv, task # None, task.at \in Filling,
           UNCHANGED <<job, stragglers, command>>,
           task' # None, task'.at \in Filling, task'.job = task.job, task'.stamp = task.stamp
    PROVE  DocumentsAreValid' /\ DocumentIsFollowed' /\ WindowIsEmpty'
<1> USE DEF PublicationInv, TaskInv, OthersInv, DocumentInv
<1>1. DocumentsAreValid'
  BY DEF DocumentsAreValid, Fetching, Filling, Checking
<1>2. DocumentIsFollowed'
  BY DEF DocumentIsFollowed, Filling, Checking
<1>3. WindowIsEmpty'
  BY DEF WindowIsEmpty, Preparing, Fetching, Filling
<1> QED
  BY <1>1, <1>2, <1>3

\* A task that gives up leaves the document alone too.
LEMMA TransferStops ==
    ASSUME Calm, PublicationInv, DocumentInv, task # None,
           UNCHANGED <<job, stragglers, command>>,
           task' # None, task'.at \in {"fail", "pause", "preFail"}
    PROVE  DocumentInv'
<1> USE DEF PublicationInv, TaskInv, OthersInv, DocumentInv
<1>1. DocumentsAreValid'
  BY DEF DocumentsAreValid, Fetching, Filling, Checking
<1>2. DocumentIsFollowed'
  BY DEF DocumentIsFollowed, Filling, Checking
<1> QED
  BY <1>1, <1>2, NoWindow DEF Preparing, Fetching, Filling

\* Launch takes a segment from the queue into flight, or into a selection.
LEMMA LaunchKept ==
    ASSUME Calm, PublicationInv, DocumentInv, Launch
    PROVE  DocumentInv'
<1> USE DEF PublicationInv, TaskInv, OthersInv, DocumentInv
<1>1. /\ task # None /\ task.at = "window" /\ task \in TaskRecords
      /\ UNCHANGED <<job, staged, stragglers, command>>
  BY Working DEF Launch, restUnchanged, diskVars
<1>2. PICK s \in task.queue :
         task' = IF s[1] \in task.selected
                 THEN [task EXCEPT !.queue = @ \ {s}, !.flying = @ \cup {s}]
                 ELSE [task EXCEPT !.queue = @ \ {s}, !.segment = s, !.at = "select"]
  BY DEF Launch
<1>3. /\ task' \in TaskRecords /\ task'.of = task.of /\ task'.stamp = task.stamp
      /\ task'.job = task.job /\ task'.prefix = task.prefix /\ task'.parked = task.parked
      /\ task'.selected = task.selected /\ task'.pausing = task.pausing
      /\ task'.queue = task.queue \ {s} /\ task'.written = task.written
      /\ \/ task'.at = "window" /\ s[1] \in task.selected /\ task'.flying = task.flying \cup {s}
         \/ /\ task'.at = "select" /\ s[1] \notin task.selected
            /\ task'.flying = task.flying /\ task'.segment = s
  <2> HIDE DEF PublicationInv, TaskInv, OthersInv, DocumentInv
  <2>1. CASE s[1] \in task.selected
    <3> DEFINE q == task.queue \ {s}
               w == task.flying \cup {s}
    <3>1. task' = [task EXCEPT !.queue = q, !.flying = w]
      BY <1>2, <2>1
    <3>2. q \in SUBSET Segments /\ w \in SUBSET Segments
      BY <1>1, <1>2 DEF TaskRecords
    <3> HIDE DEF q, w
    <3>3. /\ task' \in TaskRecords /\ task'.at = task.at /\ task'.of = task.of
          /\ task'.stamp = task.stamp /\ task'.job = task.job /\ task'.prefix = task.prefix
          /\ task'.parked = task.parked /\ task'.selected = task.selected
          /\ task'.pausing = task.pausing /\ task'.queue = q /\ task'.flying = w
          /\ task'.written = task.written
      BY <1>1, <3>1, <3>2 DEF TaskRecords
    <3> QED
      BY <1>1, <2>1, <3>3 DEF q, w
  <2>2. CASE s[1] \notin task.selected
    <3> DEFINE q == task.queue \ {s}
    <3>1. task' = [task EXCEPT !.queue = q, !.segment = s, !.at = "select"]
      BY <1>2, <2>2
    <3>2. q \in SUBSET Segments /\ s \in Segments /\ "select" \in Positions
      BY <1>1, <1>2 DEF TaskRecords, Positions
    <3> HIDE DEF q
    <3>3. /\ task' \in TaskRecords /\ task'.at = "select" /\ task'.of = task.of
          /\ task'.stamp = task.stamp /\ task'.job = task.job /\ task'.prefix = task.prefix
          /\ task'.parked = task.parked /\ task'.selected = task.selected
          /\ task'.pausing = task.pausing /\ task'.queue = q /\ task'.flying = task.flying
          /\ task'.segment = s /\ task'.written = task.written
      BY <1>1, <3>1, <3>2 DEF TaskRecords
    <3> QED
      BY <2>2, <3>2, <3>3 DEF q
  <2> QED
    BY <2>1, <2>2
<1>4. task' # None
  BY <1>3, NoneAssumption
<1>5. DocumentsAreValid' /\ DocumentIsFollowed' /\ WindowIsEmpty'
  BY <1>1, <1>3, <1>4, TransferGoesOn DEF Filling
<1>6. WindowIsSound'
  BY <1>1, <1>3 DEF WindowIsSound, Filling
<1>7. WindowIsComplete'
  <2>1. ASSUME NEW x \in Segments, Covered(x)
        PROVE  Covered(x)'
    BY <1>1, <1>3, <2>1 DEF Covered
  <2> QED
    BY <1>1, <1>3, <2>1 DEF WindowIsComplete, Filling
<1> QED
  BY <1>5, <1>6, <1>7

\* A response that ends short sets the pause that excuses what is missing, or
\* finds it set.
LEMMA SegmentEndsKept ==
    ASSUME Calm, PublicationInv, DocumentInv, SegmentFails \/ SegmentStops
    PROVE  DocumentInv'
<1> USE DEF PublicationInv, TaskInv, OthersInv, DocumentInv
<1>1. /\ task # None /\ task.at = "window" /\ task \in TaskRecords
      /\ UNCHANGED <<job, staged, stragglers, command>>
  BY Working DEF SegmentFails, SegmentStops, restUnchanged, diskVars
<1>2. PICK s \in task.flying :
         \/ task' = [task EXCEPT !.flying = @ \ {s}, !.erred = TRUE, !.pausing = TRUE]
         \/ task.pausing /\ task' = [task EXCEPT !.flying = @ \ {s}]
  BY DEF SegmentFails, SegmentStops
<1>3. /\ task' \in TaskRecords /\ task'.of = task.of /\ task'.stamp = task.stamp
      /\ task'.job = task.job /\ task'.prefix = task.prefix /\ task'.parked = task.parked
      /\ task'.selected = task.selected /\ task'.at = "window"
      /\ task'.flying = task.flying \ {s} /\ task'.written = task.written
  <2> HIDE DEF PublicationInv, TaskInv, OthersInv, DocumentInv
  <2>1. CASE task' = [task EXCEPT !.flying = @ \ {s}, !.erred = TRUE, !.pausing = TRUE]
    BY <1>1, <2>1 DEF TaskRecords
  <2>2. CASE task' = [task EXCEPT !.flying = @ \ {s}]
    BY <1>1, <2>2 DEF TaskRecords
  <2> QED
    BY <1>2, <2>1, <2>2
<1>4. task'.pausing
  BY <1>1, <1>2 DEF TaskRecords
<1>5. task' # None
  BY <1>3, NoneAssumption
<1>6. DocumentsAreValid' /\ DocumentIsFollowed' /\ WindowIsEmpty'
  BY <1>1, <1>3, <1>5, TransferGoesOn DEF Filling
<1>7. WindowIsSound'
  BY <1>1, <1>3 DEF WindowIsSound, Filling
<1>8. WindowIsComplete'
  BY <1>4 DEF WindowIsComplete
<1> QED
  BY <1>6, <1>7, <1>8

\* A file is opened once, at the length the document gives.
LEMMA TaskOpensKept ==
    ASSUME Calm, PublicationInv, DocumentInv, TaskOpens
    PROVE  DocumentInv'
<1> USE DEF PublicationInv, TaskInv, OthersInv, DocumentInv
<1> DEFINE f == task.segment[1]
           q == staged[task.of][f]
           opened == [task.prefix EXCEPT ![f] = q]
           offsets == [task.written EXCEPT ![f] = Len(q)]
<1>1. /\ task # None /\ task.at = "open" /\ task \in TaskRecords
      /\ UNCHANGED <<job, staged, stragglers, command>>
      /\ \/ /\ Len(q) = task.job.done[f]
            /\ task' = [Go("window") EXCEPT !.segment = None,
                                            !.selected = @ \cup {f},
                                            !.flying = @ \cup {task.segment},
                                            !.prefix[f] = q,
                                            !.written[f] = Len(q)]
         \/ task' = Go("fail")
  BY Working DEF TaskOpens, restUnchanged
<1>2. /\ task.segment \in Segments /\ f \in Files /\ task.of \in Models
      /\ q \in Seq(BOOLEAN) /\ Len(q) <= Size[f] /\ Len(q) \in Nat
      /\ f \notin task.selected
  BY <1>1, SegmentParts DEF TaskIsEquipped, Types, TaskRecords, WindowIsSound, Filling
<1> HIDE DEF f, q
<1>3. CASE task' = Go("fail")
  <2>1. task' \in TaskRecords /\ task'.at = "fail"
    BY <1>1, <1>3 DEF TaskRecords, Positions, Go
  <2>2. task' # None
    BY <2>1, NoneAssumption
  <2> QED
    BY <1>1, <2>1, <2>2, TransferStops
<1>4. CASE /\ Len(q) = task.job.done[f]
           /\ task' = [Go("window") EXCEPT !.segment = None,
                                           !.selected = @ \cup {f},
                                           !.flying = @ \cup {task.segment},
                                           !.prefix[f] = q,
                                           !.written[f] = Len(q)]
  <2>1. task' = [task EXCEPT !.at = "window", !.segment = None,
                             !.selected = @ \cup {f}, !.flying = @ \cup {task.segment},
                             !.prefix = opened, !.written = offsets]
    <3> HIDE DEF PublicationInv, TaskInv, OthersInv, DocumentInv
    <3> QED
      BY <1>1, <1>4 DEF TaskRecords, Go
  <2>2. /\ opened \in [Files -> Seq(BOOLEAN)] /\ \A g \in Files : opened[g] = IF g = f THEN q ELSE task.prefix[g]
        /\ offsets \in [Files -> Nat] /\ \A g \in Files : offsets[g] = IF g = f THEN Len(q) ELSE task.written[g]
    BY <1>1, <1>2 DEF TaskRecords
  <2> HIDE DEF opened, offsets
  <2>3. /\ task' \in TaskRecords /\ task'.of = task.of /\ task'.stamp = task.stamp
        /\ task'.job = task.job /\ task'.prefix = opened /\ task'.parked = task.parked
        /\ task'.selected = task.selected \cup {f} /\ task'.pausing = task.pausing
        /\ task'.queue = task.queue /\ task'.flying = task.flying \cup {task.segment}
        /\ task'.at = "window" /\ task'.written = offsets
    <3> HIDE DEF PublicationInv, TaskInv, OthersInv, DocumentInv
    <3>1. /\ task.selected \cup {f} \in SUBSET Files /\ task.flying \cup {task.segment} \in SUBSET Segments
          /\ "window" \in Positions
      BY <1>1, <1>2 DEF TaskRecords, Positions
    <3> QED
      BY <1>1, <2>1, <2>2, <3>1 DEF TaskRecords
  <2>4. task' # None
    BY <2>3, NoneAssumption
  <2>5. DocumentsAreValid' /\ DocumentIsFollowed' /\ WindowIsEmpty'
    BY <1>1, <2>3, <2>4, TransferGoesOn DEF Filling
  <2>6. DOMAIN task.parked[f] = {}
    BY <1>1, <1>2 DEF WindowIsSound, Filling
  <2>7. WindowIsSound'
    <3>1. \A s \in task'.flying : s[1] \in task'.selected
      BY <1>1, <2>3 DEF WindowIsSound, Filling, f
    <3>2. ASSUME NEW g \in Files
          PROVE  /\ task'.job.done[g] <= Size[g]
                 /\ task'.job.done[g] = Size[g] => Len(staged'[task'.of][g]) = Size[g]
                 /\ DOMAIN task'.parked[g] \subseteq 1..Size[g]
                 /\ g \in task'.selected => Len(task'.prefix[g]) >= task'.job.done[g]
                 /\ g \in task'.selected => task'.written[g] <= Len(staged'[task'.of][g])
                 /\ g \notin task'.selected => DOMAIN task'.parked[g] = {}
                 /\ \A i \in DOMAIN task'.parked[g] : i > Len(task'.prefix[g]) + 1
      <4>1. CASE g = f
        <5>1. Len(q) <= Len(staged[task.of][f])
          BY <1>2 DEF q
        <5> QED
          BY <1>1, <1>2, <1>4, <2>2, <2>3, <2>6, <4>1, <5>1 DEF WindowIsSound, Filling
      <4>2. CASE g # f
        BY <1>1, <2>2, <2>3, <4>2 DEF WindowIsSound, Filling
      <4> QED
        BY <4>1, <4>2
    <3> QED
      BY <2>3, <3>1, <3>2 DEF WindowIsSound
  <2>8. WindowIsComplete'
    <3> SUFFICES ASSUME ~task.pausing PROVE WindowIsComplete'
      BY <2>3 DEF WindowIsComplete
    <3>1. ASSUME NEW x \in Segments, Covered(x)
          PROVE  Covered(x)'
      <4>1. x[1] \in Files
        BY SegmentParts
      <4> QED
        BY <1>1, <1>2, <2>2, <2>3, <3>1, <4>1 DEF Covered
    <3>2. \A x \in Segments : x[2] > task'.job.done[x[1]] => Covered(x)'
      BY <1>1, <2>3, <3>1 DEF WindowIsComplete, Filling
    <3>3. \A g \in task'.selected : Len(task'.prefix[g]) = Size[g] => task'.job.done[g] = Size[g]
      <4> TAKE g \in task'.selected
      <4>1. CASE g = f
        BY <1>2, <1>4, <2>2, <2>3, <4>1
      <4>2. CASE g # f
        <5>1. g \in task.selected /\ g \in Files
          BY <1>1, <2>3, <4>2 DEF TaskRecords
        <5> QED
          BY <1>1, <2>2, <2>3, <4>2, <5>1 DEF WindowIsComplete, Filling
      <4> QED
        BY <4>1, <4>2
    <3> QED
      BY <3>2, <3>3 DEF WindowIsComplete
  <2> QED
    BY <2>5, <2>7, <2>8
<1> QED
  BY <1>1, <1>3, <1>4

\* A segment that arrives is on the way to the disk or parked, and the one that
\* completes its file has the file recorded.
LEMMA SegmentArrivesKept ==
    ASSUME Calm, PublicationInv, DocumentInv, NEW intact \in BOOLEAN, SegmentArrives(intact)
    PROVE  DocumentInv'
<1> USE DEF PublicationInv, TaskInv, OthersInv, DocumentInv
<1>1. /\ task # None /\ task.at = "window" /\ task \in TaskRecords
      /\ UNCHANGED <<job, stragglers, command>>
  BY Working DEF SegmentArrives, restUnchanged
<1>2. PICK s \in task.flying : \E assembled : ArrivalOf(s, assembled)
  BY Arrival
<1>3. PICK assembled : ArrivalOf(s, assembled)
  BY <1>2
<1>4. PICK f : f = s[1]
  OBVIOUS
<1>5. PICK n : n = Len(assembled)
  OBVIOUS
<1>6. PICK arrived : arrived = DOMAIN task.parked[f] \cup {s[2]}
  OBVIOUS
<1>7. /\ s \in Segments /\ f \in Files /\ s[2] \in 1..Size[f] /\ Size[f] \in Nat
      /\ task.of \in Models /\ task.prefix \in [Files -> Seq(BOOLEAN)]
      /\ f \in task.selected /\ Len(task.prefix[f]) \in Nat
  BY <1>1, <1>4, SegmentParts DEF TaskRecords, WindowIsSound, Filling
<1>8. /\ task'.of = task.of /\ task'.stamp = task.stamp /\ task'.job = task.job
      /\ task'.queue = task.queue /\ task'.flying = task.flying \ {s}
      /\ task'.selected = task.selected /\ task'.pausing = task.pausing
      /\ task' \in TaskRecords
  BY <1>3 DEF ArrivalOf
<1>9. /\ assembled \in Seq(BOOLEAN) /\ n \in Nat /\ n >= Len(task.prefix[f]) /\ n <= Size[f]
      /\ n < Size[f] => n + 1 \notin arrived
  BY <1>3, <1>4, <1>5, <1>6, <1>7 DEF ArrivalOf
<1>10. \A g \in Files : Len(task'.prefix[g]) = IF g = f THEN n ELSE Len(task.prefix[g])
  <2>1. task'.prefix = [task.prefix EXCEPT ![f] = assembled]
    BY <1>3, <1>4 DEF ArrivalOf
  <2> QED
    BY <1>5, <1>7, <2>1
<1>11. \A g \in Files : DOMAIN task'.parked[g] = IF g = f THEN arrived \ (1..n) ELSE DOMAIN task.parked[g]
  BY <1>3, <1>4, <1>5, <1>6 DEF ArrivalOf
<1>a. PICK file : file = Overlaid(staged[task.of][f], task.written[f], assembled)
  OBVIOUS
<1>12. \/ /\ n = Size[f] /\ ~task.pausing /\ task'.at = "record" /\ task'.segment = s
          /\ staged' = WithFile(task.of, f, file) /\ task'.written = [task.written EXCEPT ![f] = Size[f]]
       \/ /\ ~(n = Size[f] /\ ~task.pausing /\ task.job.done[f] < Size[f])
          /\ task'.at = "window" /\ staged' = staged /\ task'.written = task.written
  <2> HIDE DEF PublicationInv, TaskInv, OthersInv, DocumentInv
  <2> QED
    BY <1>3, <1>4, <1>5, <1>a DEF ArrivalOf
<1>b. n = Size[f] => file \in Seq(BOOLEAN) /\ Len(file) = Size[f]
  <2>1. /\ staged[task.of][f] \in Seq(BOOLEAN) /\ Len(staged[task.of][f]) <= Size[f]
        /\ Len(staged[task.of][f]) \in Nat
        /\ task.written[f] \in Nat /\ task.written[f] <= Len(staged[task.of][f])
    BY <1>1, <1>7 DEF Types, TaskRecords, WindowIsSound, Filling
  <2> HIDE DEF PublicationInv, TaskInv, OthersInv, DocumentInv
  <2>2. /\ file \in Seq(BOOLEAN)
        /\ Len(assembled) <= task.written[f] => file = staged[task.of][f]
        /\ Len(assembled) > task.written[f] =>
             Len(file) = IF Len(staged[task.of][f]) > Len(assembled)
                         THEN Len(staged[task.of][f]) ELSE Len(assembled)
    BY <1>9, <1>a, <2>1, OverlaidIsFile
  <2> QED
    BY <1>5, <1>7, <2>1, <2>2
<1>c. \A g \in Files : task'.written[g] = IF g = f /\ task'.at = "record" THEN Size[g] ELSE task.written[g]
  <2>1. task.written \in [Files -> Nat]
    BY <1>1 DEF TaskRecords
  <2> QED
    BY <1>7, <1>12, <2>1
<1>13. arrived \subseteq 1..Size[f] /\ \A i \in arrived \ (1..n) : i > n + 1
  <2>1. arrived \subseteq 1..Size[f]
    BY <1>1, <1>6, <1>7 DEF WindowIsSound, Filling
  <2>2. ASSUME NEW i \in arrived, i \notin 1..n
        PROVE  i > n + 1
    <3>1. i \in 1..Size[f]
      BY <2>1
    <3>2. i # n + 1
      BY <1>7, <1>9, <3>1
    <3> QED
      BY <1>7, <1>9, <2>2, <3>1, <3>2
  <2> QED
    BY <2>1, <2>2
<1>14. \A g \in Files : Len(staged'[task.of][g]) = Len(staged[task.of][g])
                        \/ (g = f /\ n = Size[f] /\ Len(staged'[task.of][g]) = Size[g])
  <2>1. CASE staged' = staged
    BY <2>1
  <2>2. CASE n = Size[f] /\ staged' = WithFile(task.of, f, file)
    <3>0. Types /\ Len(file) <= Size[f] /\ Len(file) = Size[f] /\ file \in Seq(BOOLEAN)
      BY <1>7, <1>b, <2>2
    <3>1. \A g \in Files : staged'[task.of][g] = IF g = f THEN file ELSE staged[task.of][g]
      <4>1. \A m \in Models, g \in Files : WithFile(task.of, f, file)[m][g] =
               IF m = task.of /\ g = f THEN file ELSE staged[m][g]
        <5>1. task.of \in Models /\ f \in Files
          BY <1>7
        <5> HIDE DEF PublicationInv, TaskInv, OthersInv, DocumentInv
        <5> QED
          BY <3>0, <5>1, OneFileStaged, SMTT(30)
      <4> QED
        BY <1>7, <2>2, <4>1
    <3> QED
      BY <2>2, <3>0, <3>1
  <2> QED
    BY <1>12, <2>1, <2>2
<1>15. task' # None
  BY <1>8, NoneAssumption
<1>16. DocumentsAreValid' /\ DocumentIsFollowed' /\ WindowIsEmpty'
  BY <1>1, <1>8, <1>12, <1>15, TransferGoesOn DEF Filling
<1>17. WindowIsSound'
  <2>1. \A x \in task'.flying : x[1] \in task'.selected
    BY <1>1, <1>8 DEF WindowIsSound, Filling
  <2>2. ASSUME NEW g \in Files
        PROVE  /\ task'.job.done[g] <= Size[g]
               /\ task'.job.done[g] = Size[g] => Len(staged'[task'.of][g]) = Size[g]
               /\ DOMAIN task'.parked[g] \subseteq 1..Size[g]
               /\ g \in task'.selected => Len(task'.prefix[g]) >= task'.job.done[g]
               /\ g \in task'.selected => task'.written[g] <= Len(staged'[task'.of][g])
               /\ g \notin task'.selected => DOMAIN task'.parked[g] = {}
               /\ \A i \in DOMAIN task'.parked[g] : i > Len(task'.prefix[g]) + 1
    <3>1. /\ task.job.done[g] <= Size[g]
          /\ task.job.done[g] = Size[g] => Len(staged[task.of][g]) = Size[g]
          /\ DOMAIN task.parked[g] \subseteq 1..Size[g]
          /\ g \in task.selected => Len(task.prefix[g]) >= task.job.done[g]
          /\ g \in task.selected => task.written[g] <= Len(staged[task.of][g])
          /\ Len(staged[task.of][g]) <= Size[g] /\ Len(staged[task.of][g]) \in Nat /\ task.written[g] \in Nat
          /\ g \notin task.selected => DOMAIN task.parked[g] = {}
          /\ \A i \in DOMAIN task.parked[g] : i > Len(task.prefix[g]) + 1
      <4>1. /\ Len(staged[task.of][g]) <= Size[g] /\ Len(staged[task.of][g]) \in Nat
            /\ task.written[g] \in Nat
        BY <1>1, <1>7 DEF Types, TaskRecords
      <4> QED
        BY <1>1, <4>1 DEF WindowIsSound, Filling
    <3>2. task.job.done[g] = Size[g] => Len(staged'[task.of][g]) = Size[g]
      BY <1>14, <3>1
    <3>5. g \in task.selected => task'.written[g] <= Len(staged'[task.of][g])
      <4>1. CASE task'.at = "record" /\ g = f
        <5>1. n = Size[f] /\ staged' = WithFile(task.of, f, file)
          BY <1>12, <4>1
        <5>2. Types /\ Len(file) <= Size[f] /\ file \in Seq(BOOLEAN) /\ Len(file) = Size[f]
          BY <1>7, <1>b, <5>1
        <5> HIDE DEF PublicationInv, TaskInv, OthersInv, DocumentInv
        <5>3. WithFile(task.of, f, file)[task.of][f] = file
          BY <1>7, <5>2, OneFileStaged
        <5> QED
          BY <1>7, <1>c, <4>1, <5>1, <5>2, <5>3
      <4>2. CASE ~(task'.at = "record" /\ g = f)
        <5>1. task'.written[g] = task.written[g]
          BY <1>c, <4>2
        <5> HIDE DEF PublicationInv, TaskInv, OthersInv, DocumentInv
        <5>2. Len(staged'[task.of][g]) >= Len(staged[task.of][g])
          BY <1>14, <3>1
        <5>3. Len(staged'[task.of][g]) \in Nat
          BY <1>7, <1>14, <3>1
        <5> QED
          BY <3>1, <5>1, <5>2, <5>3
      <4> QED
        BY <4>1, <4>2
    <3>3. CASE g = f
      <4>1. task.job.done[g] \in Nat
        <5>1. task.job \in JobRecords
          BY <1>1 DEF TaskIsEquipped, Holding, Filling, TaskRecords
        <5> QED
          BY <5>1 DEF JobRecords
      <4>2. Len(task'.prefix[g]) = n /\ DOMAIN task'.parked[g] = arrived \ (1..n)
        BY <1>10, <1>11, <3>3
      <4>3. n >= task.job.done[g]
        BY <1>7, <1>9, <3>1, <3>3, <4>1
      <4> QED
        BY <1>7, <1>8, <1>13, <3>1, <3>2, <3>3, <3>5, <4>2, <4>3
    <3>4. CASE g # f
      BY <1>8, <1>10, <1>11, <3>1, <3>2, <3>4, <3>5
    <3> QED
      BY <3>3, <3>4
  <2>3. task'.at = "record" => /\ task'.segment[1] = f /\ f \in task'.selected
                               /\ Len(task'.prefix[f]) = Size[f] /\ Len(staged'[task'.of][f]) = Size[f]
    <3>1. task'.at = "record" => n = Size[f] /\ task'.segment = s /\ staged' = WithFile(task.of, f, file)
      BY <1>12
    <3>2. task'.at = "record" => Len(staged'[task.of][f]) = Size[f]
      <4> SUFFICES ASSUME task'.at = "record" PROVE Len(staged'[task.of][f]) = Size[f]
        OBVIOUS
      <4>1. Types /\ Len(file) <= Size[f] /\ file \in Seq(BOOLEAN) /\ Len(file) = Size[f]
        BY <1>7, <1>b, <3>1
      <4> HIDE DEF PublicationInv, TaskInv, OthersInv, DocumentInv
      <4>2. WithFile(task.of, f, file)[task.of][f] = file
        BY <1>7, <4>1, OneFileStaged
      <4> QED
        BY <3>1, <4>1, <4>2
    <3> QED
      BY <1>4, <1>7, <1>8, <1>10, <3>1, <3>2
  <2>4. task'.at \in {"window", "record"}
    BY <1>12
  <2> QED
    BY <2>1, <2>2, <2>3, <2>4 DEF WindowIsSound
<1>18. WindowIsComplete'
  <2> SUFFICES ASSUME ~task.pausing PROVE WindowIsComplete'
    BY <1>8 DEF WindowIsComplete
  <2>1. ASSUME NEW x \in Segments, Covered(x)
        PROVE  Covered(x)'
    <3>1. x[1] \in Files /\ x[2] \in Nat \ {0}
      BY SegmentParts
    <3>2. x[1] = f /\ x[2] \in arrived => Covered(x)'
      <4> SUFFICES ASSUME x[1] = f, x[2] \in arrived PROVE Covered(x)'
        OBVIOUS
      <4>1. CASE x[2] <= n
        BY <1>7, <1>8, <1>10, <4>1 DEF Covered
      <4>2. CASE x[2] > n
        BY <1>7, <1>9, <1>11, <3>1, <4>2 DEF Covered
      <4> QED
        BY <1>9, <3>1, <4>1, <4>2
    <3>3. CASE x \in task.queue \cup task.flying
      <4>1. x = s => x[1] = f /\ x[2] \in arrived
        BY <1>4, <1>6
      <4>2. x # s => x \in task'.queue \cup task'.flying
        BY <1>8, <3>3
      <4> QED
        BY <3>2, <4>1, <4>2 DEF Covered
    <3>4. CASE x[2] \in DOMAIN task.parked[x[1]]
      <4>1. CASE x[1] = f
        BY <1>6, <3>2, <3>4, <4>1
      <4>2. CASE x[1] # f
        BY <1>11, <3>1, <3>4, <4>2 DEF Covered
      <4> QED
        BY <4>1, <4>2
    <3>5. CASE x[1] \in task.selected /\ x[2] <= Len(task.prefix[x[1]])
      <4>1. Len(task'.prefix[x[1]]) >= Len(task.prefix[x[1]])
        <5>1. Len(task.prefix[x[1]]) \in Nat
          BY <1>7, <3>1
        <5> QED
          BY <1>9, <1>10, <3>1, <5>1, SMTT(30)
      <4>2. Len(task'.prefix[x[1]]) \in Nat /\ Len(task.prefix[x[1]]) \in Nat
        BY <1>7, <1>9, <1>10, <3>1, SMTT(30)
      <4> QED
        BY <1>8, <3>1, <3>5, <4>1, <4>2, SMTT(30) DEF Covered
    <3> QED
      BY <1>1, <2>1, <3>3, <3>4, <3>5 DEF Covered
  <2>2. \A x \in Segments : x[2] > task'.job.done[x[1]] => Covered(x)'
    BY <1>1, <1>8, <2>1 DEF WindowIsComplete, Filling
  <2>3. ASSUME NEW g \in task'.selected, Len(task'.prefix[g]) = Size[g]
        PROVE  task'.job.done[g] = Size[g] \/ (task'.at = "record" /\ task'.segment[1] = g)
    <3>1. g \in task.selected /\ g \in Files
      BY <1>1, <1>8 DEF TaskRecords
    <3>2. CASE g = f
      <4>1. task.job \in JobRecords /\ task.job.done[f] <= Size[f]
        BY <1>1, <1>7 DEF TaskIsEquipped, Holding, Filling, TaskRecords, WindowIsSound
      <4>2. task.job.done[f] \in Nat
        BY <1>7, <4>1 DEF JobRecords
      <4>3. n = Size[f]
        BY <1>10, <2>3, <3>1, <3>2
      <4> QED
        BY <1>4, <1>7, <1>8, <1>12, <3>2, <4>1, <4>2, <4>3
    <3>3. CASE g # f
      <4>1. Len(task.prefix[g]) = Size[g]
        BY <1>10, <2>3, <3>1, <3>3
      <4> QED
        BY <1>1, <1>8, <3>1, <4>1 DEF WindowIsComplete, Filling
    <3> QED
      BY <3>2, <3>3
  <2> QED
    BY <2>2, <2>3 DEF WindowIsComplete
<1> QED
  BY <1>16, <1>17, <1>18

\* What is assembled is on the disk afterwards, and no file is shorter than it was.
LEMMA FlushedGrows ==
    ASSUME Types, task # None, task.of \in Models, staged' = Flushed(task), NEW f \in Files,
           f \in task.selected => task.written[f] <= Len(staged[task.of][f])
    PROVE  /\ f \in task.selected => /\ Len(task.prefix[f]) <= Len(staged'[task.of][f])
                                     /\ Len(staged[task.of][f]) <= Len(staged'[task.of][f])
           /\ f \notin task.selected => staged'[task.of][f] = staged[task.of][f]
           /\ Len(staged'[task.of][f]) \in Nat /\ Len(staged'[task.of][f]) <= Size[f]
<1>1. /\ staged[task.of][f] \in Seq(BOOLEAN) /\ task.written[f] \in Nat /\ task.prefix[f] \in Seq(BOOLEAN)
      /\ Len(staged[task.of][f]) \in Nat /\ Len(task.prefix[f]) \in Nat
  BY DEF Types, TaskRecords
<1> DEFINE o == Overlaid(staged[task.of][f], task.written[f], task.prefix[f])
<1>2. /\ staged'[task.of][f] = IF f \in task.selected THEN o ELSE staged[task.of][f]
      /\ staged'[task.of][f] \in Seq(BOOLEAN) /\ Len(staged'[task.of][f]) <= Size[f]
  BY FlushedIsStaged
<1>3. /\ o \in Seq(BOOLEAN)
      /\ Len(task.prefix[f]) <= task.written[f] => o = staged[task.of][f]
      /\ Len(task.prefix[f]) > task.written[f] =>
           Len(o) = IF Len(staged[task.of][f]) > Len(task.prefix[f])
                    THEN Len(staged[task.of][f]) ELSE Len(task.prefix[f])
  BY <1>1, OverlaidIsFile
<1> HIDE DEF o
<1> QED
  BY <1>1, <1>2, <1>3

\* Writing behind the assemblers shortens no file that is complete.
LEMMA WriteBehindKept ==
    ASSUME Calm, PublicationInv, DocumentInv, WriteBehind
    PROVE  DocumentInv'
<1> USE DEF PublicationInv, TaskInv, OthersInv, DocumentInv
<1>1. /\ task # None /\ task.at = "window" /\ staged' = Flushed(task) /\ task \in TaskRecords
      /\ task' = [task EXCEPT !.written = Written(task)] /\ task.job \in JobRecords
      /\ UNCHANGED <<job, stragglers, command>>
  BY Working DEF WriteBehind, restUnchanged, TaskIsEquipped, Holding, Filling, TaskRecords
<1>a. /\ task' # None /\ task'.at = "window" /\ task'.of = task.of /\ task'.job = task.job
      /\ task'.stamp = task.stamp /\ task'.queue = task.queue /\ task'.flying = task.flying
      /\ task'.selected = task.selected /\ task'.prefix = task.prefix /\ task'.parked = task.parked
      /\ task'.pausing = task.pausing /\ task'.written = Written(task)
  <2>1. Written(task) \in [Files -> Nat]
    BY <1>1, FlushedIsStaged
  <2> HIDE DEF PublicationInv, TaskInv, OthersInv, DocumentInv
  <2>2. /\ task' \in TaskRecords /\ task'.at = "window" /\ task'.of = task.of /\ task'.job = task.job
        /\ task'.stamp = task.stamp /\ task'.queue = task.queue /\ task'.flying = task.flying
        /\ task'.selected = task.selected /\ task'.prefix = task.prefix /\ task'.parked = task.parked
        /\ task'.pausing = task.pausing /\ task'.written = Written(task)
    BY <1>1, <2>1 DEF TaskRecords
  <2> QED
    BY <2>2, NoneAssumption
<1>2. DocumentsAreValid' /\ DocumentIsFollowed' /\ WindowIsEmpty'
  BY <1>1, <1>a, TransferGoesOn DEF Filling
<1>3. \A f \in Files : Len(task.prefix[f]) \in Nat /\ Len(task.prefix[f]) <= Size[f] /\ Size[f] \in Nat
  BY <1>1, Working, DownloadAssumption DEF TaskRecords
<1>4. ASSUME NEW f \in Files
      PROVE  /\ task.job.done[f] = Size[f] => Len(staged'[task.of][f]) = Size[f]
             /\ f \in task.selected => Written(task)[f] <= Len(staged'[task.of][f])
  <2>1. /\ f \in task.selected => /\ Len(task.prefix[f]) <= Len(staged'[task.of][f])
                                  /\ Len(staged[task.of][f]) <= Len(staged'[task.of][f])
        /\ f \notin task.selected => staged'[task.of][f] = staged[task.of][f]
        /\ Len(staged'[task.of][f]) \in Nat /\ Len(staged'[task.of][f]) <= Size[f]
    <3>1. task.of \in Models /\ (f \in task.selected => task.written[f] <= Len(staged[task.of][f]))
      BY <1>1 DEF TaskRecords, WindowIsSound, Filling
    <3> QED
      BY <1>1, <3>1, FlushedGrows
  <2>2. Written(task)[f] = IF f \in task.selected THEN Len(task.prefix[f]) ELSE task.written[f]
    BY DEF Written
  <2>3. task.job.done[f] = Size[f] => Len(staged[task.of][f]) = Size[f]
    BY <1>1 DEF WindowIsSound, Filling
  <2> HIDE DEF PublicationInv, TaskInv, OthersInv, DocumentInv
  <2> QED
    BY <1>3, <2>1, <2>2, <2>3
<1>5. WindowIsSound'
  <2>1. /\ \A s \in task.flying : s[1] \in task.selected
        /\ \A f \in Files :
             /\ task.job.done[f] <= Size[f]
             /\ DOMAIN task.parked[f] \subseteq 1..Size[f]
             /\ f \in task.selected => Len(task.prefix[f]) >= task.job.done[f]
             /\ f \notin task.selected => DOMAIN task.parked[f] = {}
             /\ \A i \in DOMAIN task.parked[f] : i > Len(task.prefix[f]) + 1
    BY <1>1 DEF WindowIsSound, Filling
  <2> HIDE DEF PublicationInv, TaskInv, OthersInv, DocumentInv
  <2> QED
    BY <1>a, <1>4, <2>1, ZenonT(40) DEF WindowIsSound
<1>6. WindowIsComplete'
  <2>1. ASSUME NEW x \in Segments, Covered(x)
        PROVE  Covered(x)'
    BY <1>1, <1>a, <2>1 DEF Covered
  <2>2. ~task.pausing => /\ \A s \in Segments : s[2] > task.job.done[s[1]] => Covered(s)
                         /\ \A f \in task.selected : Len(task.prefix[f]) = Size[f] => task.job.done[f] = Size[f]
    BY <1>1 DEF WindowIsComplete, Filling
  <2> HIDE DEF PublicationInv, TaskInv, OthersInv, DocumentInv
  <2> QED
    BY <1>a, <2>1, <2>2, ZenonT(40) DEF WindowIsComplete
<1> QED
  BY <1>2, <1>5, <1>6

\* A window that ends of itself has every segment: none is queued or in flight, and
\* the first one missing from a file could not be parked.
LEMMA WindowIsFilled ==
    ASSUME Calm, PublicationInv, DocumentInv, task # None, task.at = "window", ~task.pausing,
           task.queue = {}, task.flying = {}, NEW f \in Files
    PROVE  task.job.done[f] = Size[f]
<1> USE DEF PublicationInv, TaskInv, OthersInv, DocumentInv
<1>1. /\ task \in TaskRecords /\ task.job \in JobRecords
      /\ Len(task.prefix[f]) \in Nat /\ Len(task.prefix[f]) <= Size[f] /\ Size[f] \in Nat \ {0}
  BY Working, DownloadAssumption DEF TaskIsEquipped, Holding, Filling, TaskRecords
<1>2. task.job.done[f] \in Nat /\ task.job.done[f] <= Size[f]
  BY <1>1 DEF JobRecords, WindowIsSound, Filling
<1> SUFFICES ASSUME task.job.done[f] < Size[f] PROVE FALSE
  BY <1>1, <1>2
<1>3. \A i \in 1..Size[f] : i > task.job.done[f] =>
         i \in DOMAIN task.parked[f] \/ (f \in task.selected /\ i <= Len(task.prefix[f]))
  <2> TAKE i \in 1..Size[f]
  <2>1. <<f, i>> \in Segments /\ <<f, i>>[1] = f /\ <<f, i>>[2] = i
    BY DEF Segments
  <2>2. i > task.job.done[f] => Covered(<<f, i>>)
    BY <2>1 DEF WindowIsComplete, Filling
  <2> QED
    BY <2>1, <2>2 DEF Covered
<1>4. f \in task.selected
  <2>1. f \notin task.selected => DOMAIN task.parked[f] = {}
    BY DEF WindowIsSound, Filling
  <2> QED
    BY <1>1, <1>2, <1>3, <2>1
<1>5. Len(task.prefix[f]) >= task.job.done[f] /\ \A i \in DOMAIN task.parked[f] : i > Len(task.prefix[f]) + 1
  BY <1>4 DEF WindowIsSound, Filling
<1>6. Len(task.prefix[f]) # Size[f]
  BY <1>2, <1>4 DEF WindowIsComplete, Filling
<1>7. PICK i : i = Len(task.prefix[f]) + 1
  OBVIOUS
<1>8. i \in 1..Size[f] /\ i > task.job.done[f] /\ ~(i <= Len(task.prefix[f]))
  BY <1>1, <1>2, <1>5, <1>6, <1>7
<1>9. i \notin DOMAIN task.parked[f]
  BY <1>5, <1>7, <1>8
<1> QED
  BY <1>3, <1>8, <1>9

\* The files a filled window leaves have their lengths, and the document says so.
LEMMA WindowEndsKept ==
    ASSUME Calm, PublicationInv, DocumentInv, WindowEnds
    PROVE  DocumentInv'
<1> USE DEF PublicationInv, TaskInv, OthersInv, DocumentInv
<1>1. /\ task # None /\ task.at = "window" /\ staged' = Flushed(task) /\ task \in TaskRecords
      /\ task.flying = {} /\ (task.queue = {} \/ task.pausing)
      /\ UNCHANGED <<job, stragglers, command>>
  BY Working DEF WindowEnds, restUnchanged
<1>2. PICK p \in {"fail", "pause", "verifying"} :
         /\ task' = [task EXCEPT !.at = p, !.queue = {}, !.selected = {}, !.prefix = NoFiles,
                                 !.parked = NoFiles, !.written = Nothing, !.segment = None]
         /\ p = "verifying" => ~task.pausing
  BY <1>1 DEF WindowEnds
<1>3. /\ task' \in TaskRecords /\ task'.of = task.of /\ task'.stamp = task.stamp
      /\ task'.job = task.job /\ task'.at = p
  <2>1. Nothing \in [Files -> Nat] /\ p \in Positions
    BY DEF Nothing, Positions
  <2> HIDE DEF PublicationInv, TaskInv, OthersInv, DocumentInv
  <2> QED
    BY <1>1, <1>2, <2>1, NothingHeld DEF TaskRecords
<1>4. task' # None
  BY <1>3, NoneAssumption
<1>5. CASE p # "verifying"
  BY <1>1, <1>3, <1>4, <1>5, TransferStops
<1>6. CASE p = "verifying"
  <2>1. \A f \in Files : task.job.done[f] = Size[f]
    BY <1>1, <1>2, <1>6, WindowIsFilled
  <2>2. task.job.done = Size
    <3>1. task.job \in JobRecords
      BY <1>1 DEF TaskIsEquipped, Holding, Filling, TaskRecords
    <3>2. task.job.done \in [Files -> Nat] /\ Size \in [Files -> Nat \ {0}]
      BY <3>1, DownloadAssumption DEF JobRecords
    <3> QED
      BY <2>1, <3>2
  <2>3. \A f \in Files : Len(staged'[task.of][f]) = Size[f]
    <3> TAKE f \in Files
    <3>1. /\ Len(staged[task.of][f]) = Size[f]
          /\ f \in task.selected => task.written[f] <= Len(staged[task.of][f])
      BY <1>1, <2>1 DEF WindowIsSound, Filling
    <3>2. /\ f \in task.selected => Len(staged[task.of][f]) <= Len(staged'[task.of][f])
          /\ f \notin task.selected => staged'[task.of][f] = staged[task.of][f]
          /\ Len(staged'[task.of][f]) \in Nat /\ Len(staged'[task.of][f]) <= Size[f]
      <4>1. task.of \in Models
        BY <1>1 DEF TaskRecords
      <4> QED
        BY <1>1, <3>1, <4>1, FlushedGrows
    <3> HIDE DEF PublicationInv, TaskInv, OthersInv, DocumentInv
    <3> QED
      BY <3>1, <3>2, DownloadAssumption
  <2>4. DocumentsAreValid'
    BY <1>1, <1>3, <1>6, <2>2, <2>3 DEF DocumentsAreValid, Fetching, Filling, Checking
  <2>5. DocumentIsFollowed'
    BY <1>1, <1>3, <1>4, <1>6 DEF DocumentIsFollowed, Filling, Checking
  <2> QED
    BY <1>3, <1>6, <2>4, <2>5, NoWindow DEF Preparing, Fetching, Filling
<1> QED
  BY <1>5, <1>6

-----------------------------------------------------------------------------
(* Verification and publication *)

\* The intent is the document verified, marked Publishing.
LEMMA TaskVerifiesKept ==
    ASSUME Calm, PublicationInv, DocumentInv, TaskVerifies
    PROVE  DocumentInv'
<1> USE DEF PublicationInv, TaskInv, OthersInv, DocumentInv
<1>1. /\ task # None /\ task.at = "verify" /\ task \in TaskRecords
      /\ UNCHANGED <<job, staged, stragglers, command>>
  BY Working DEF TaskVerifies, restUnchanged, diskVars
<1>2. /\ task.job \in JobRecords /\ task.job.state = "Verifying" /\ task.job.exact
      /\ task.job.error = "none" /\ task.job.stamp = task.stamp /\ task.job.done = Size
  BY <1>1 DEF TaskIsEquipped, TaskRecords, Holding, Checking, DocumentsAreValid
<1>3. CASE task' = [Go("intent") EXCEPT !.job.state = "Publishing"]
  <2> DEFINE j == [task.job EXCEPT !.state = "Publishing"]
  <2>1. j \in JobRecords
    BY <1>2 DEF JobRecords, JobStates
  <2>2. task' = [task EXCEPT !.at = "intent", !.job = j]
    BY <1>1, <1>3 DEF TaskRecords, Go
  <2>3. /\ j.of = task.job.of /\ j.stamp = task.job.stamp /\ j.exact = task.job.exact
        /\ j.done = task.job.done /\ j.error = task.job.error /\ j.state = "Publishing"
    BY <1>2 DEF JobRecords
  <2>4. [j EXCEPT !.state = "Verifying"] = task.job
    <3>1. [j EXCEPT !.state = "Verifying"] \in JobRecords
      BY <2>1 DEF JobRecords, JobStates
    <3>2. [j EXCEPT !.state = "Verifying"] = [task.job EXCEPT !.state = "Verifying"]
      BY <1>2 DEF JobRecords
    <3>3. [task.job EXCEPT !.state = "Verifying"] = task.job
      BY <1>2 DEF JobRecords
    <3> QED
      BY <3>2, <3>3
  <2> HIDE DEF j
  <2>5. task' \in TaskRecords /\ task'.stamp = task.stamp /\ task'.job = j /\ task'.at = "intent"
    BY <1>1, <2>1, <2>2 DEF TaskRecords, Positions
  <2>6. task' # None
    BY <2>5, NoneAssumption
  <2>7. DocumentsAreValid'
    <3>1. j.exact
      BY <1>2, <2>3
    <3> QED
      BY <1>1, <1>2, <2>3, <2>5, <3>1 DEF DocumentsAreValid, Fetching, Filling, Checking
  <2>8. DocumentIsFollowed'
    BY <1>1, <2>4, <2>5, <2>6 DEF DocumentIsFollowed, Filling, Checking
  <2> QED
    BY <2>5, <2>7, <2>8, NoWindow DEF Preparing, Fetching, Filling
<1>4. CASE \E f \in Files : task' = [Go("truncate") EXCEPT !.segment = <<f, 1>>]
  <2>1. PICK f \in Files : task' = [Go("truncate") EXCEPT !.segment = <<f, 1>>]
    BY <1>4
  <2>2. <<f, 1>> \in Segments
    BY DownloadAssumption DEF Segments
  <2>3. /\ task' \in TaskRecords /\ task'.of = task.of /\ task'.stamp = task.stamp
        /\ task'.job = task.job /\ task'.at = "truncate"
    BY <1>1, <2>1, <2>2 DEF TaskRecords, Positions, Go
  <2>4. task' # None
    BY <2>3, NoneAssumption
  <2>5. DocumentsAreValid'
    BY <1>1, <1>2, <2>3 DEF DocumentsAreValid, Fetching, Filling, Checking
  <2>6. DocumentIsFollowed'
    BY <1>1, <2>3, <2>4 DEF DocumentIsFollowed, Filling, Checking
  <2> QED
    BY <2>3, <2>5, <2>6, NoWindow DEF Preparing, Fetching, Filling
<1> QED
  BY <1>3, <1>4 DEF TaskVerifies

\* The file that failed its digest has its length, so it is truncated.
LEMMA TaskTruncatesKept ==
    ASSUME Calm, PublicationInv, DocumentInv, TaskTruncates
    PROVE  DocumentInv'
<1> USE DEF PublicationInv, TaskInv, OthersInv, DocumentInv
<1>1. /\ task # None /\ task.at = "truncate" /\ task \in TaskRecords
      /\ UNCHANGED <<job, stragglers, command>>
  BY Working DEF TaskTruncates, restUnchanged
<1>2. task.segment[1] \in Files /\ Len(staged[task.of][task.segment[1]]) = Size[task.segment[1]]
  BY <1>1, SegmentParts DEF TaskIsEquipped, DocumentsAreValid
<1>3. task' = Go("retry")
  BY <1>2 DEF TaskTruncates
<1>4. /\ task' \in TaskRecords /\ task'.stamp = task.stamp
      /\ task'.job = task.job /\ task'.at = "retry"
  BY <1>1, <1>3 DEF TaskRecords, Positions, Go
<1>5. task' # None
  BY <1>4, NoneAssumption
<1>6. DocumentsAreValid'
  BY <1>1, <1>4 DEF DocumentsAreValid, Fetching, Filling, Checking
<1>7. DocumentIsFollowed'
  BY <1>1, <1>4, <1>5 DEF DocumentIsFollowed, Filling, Checking
<1> QED
  BY <1>4, <1>6, <1>7, NoWindow DEF Preparing, Fetching, Filling

\* The intent that is written down is valid.
LEMMA TaskIntendsKept ==
    ASSUME Calm, PublicationInv, DocumentInv, TaskIntends
    PROVE  DocumentInv'
<1> USE DEF PublicationInv, TaskInv, OthersInv, DocumentInv
<1>1. /\ task # None /\ task.at = "intent" /\ task \in TaskRecords
      /\ UNCHANGED <<staged, stragglers, command>>
  BY Working DEF TaskIntends, restUnchanged, filesUnchanged
<1>2. CASE job' = task.job /\ task' = Go("publish")
  <2>1. task' \in TaskRecords /\ task'.at = "publish"
    BY <1>1, <1>2 DEF TaskRecords, Positions, Go
  <2>2. task' # None
    BY <2>1, NoneAssumption
  <2>3. task.job.state = "Publishing" /\ task.job.exact /\ task.job.error = "none" /\ task.job.done = Size
    BY <1>1 DEF TaskIsEquipped, DocumentsAreValid
  <2>4. Valid(task.job)
    BY <2>3 DEF Valid
  <2>5. DocumentsAreValid'
    BY <1>1, <1>2, <2>1, <2>4 DEF DocumentsAreValid, Fetching, Filling, Checking
  <2>6. DocumentIsFollowed'
    BY <1>2, <2>2, <2>3 DEF DocumentIsFollowed, Interrupted
  <2> QED
    BY <2>1, <2>5, <2>6, NoWindow DEF Preparing, Fetching, Filling
<1>3. CASE job' = job /\ task' = Go("fail")
  <2>1. task' \in TaskRecords /\ task'.at = "fail"
    BY <1>1, <1>3 DEF TaskRecords, Positions, Go
  <2>2. task' # None
    BY <2>1, NoneAssumption
  <2> QED
    BY <1>1, <1>3, <2>1, <2>2, TransferStops
<1> QED
  BY <1>2, <1>3 DEF TaskIntends

\* Publication leaves the document alone, or has it removed.
LEMMA PublicationKept ==
    ASSUME Calm, PublicationInv, DocumentInv, Publishing \/ job = None,
           job' = job \/ job' = None,
           UNCHANGED command,
           task' = None \/ (task # None /\ task'.at = "refresh"),
           \A o \in stragglers' : o.op \in {"replace", "intent"} => o \in stragglers
    PROVE  DocumentInv'
<1> USE DEF PublicationInv, TaskInv, OthersInv, DocumentInv
<1>1. DocumentsAreValid'
  BY DEF DocumentsAreValid, Fetching, Filling, Checking
<1>2. DocumentIsFollowed'
  BY DEF DocumentIsFollowed, Publishing, Interrupted
<1> QED
  BY <1>1, <1>2, NoWindow DEF Preparing, Fetching, Filling

\* A task that publishes keeps its document or removes it.
LEMMA TaskPublishesKept ==
    ASSUME Calm, PublicationInv, DocumentInv, TaskPublishes \/ TaskRefreshes
    PROVE  DocumentInv'
<1> USE DEF PublicationInv, TaskInv, OthersInv
<1>1. /\ task # None /\ task \in TaskRecords /\ task.at \in {"publish", "refresh"}
      /\ UNCHANGED <<stragglers, command>>
  BY Working DEF TaskPublishes, TaskRefreshes, restUnchanged
<1>2. Publishing \/ job = None
  BY <1>1 DEF TaskIsAlone
<1>3. job' = job \/ job' = None
  BY DEF TaskPublishes, TaskRefreshes, Rename, Refreshed, diskVars
<1>4. task' = None \/ task'.at = "refresh"
  BY <1>1 DEF TaskPublishes, TaskRefreshes, Go, TaskRecords
<1> QED
  BY <1>1, <1>2, <1>3, <1>4, PublicationKept

-----------------------------------------------------------------------------
(* Stragglers, commands and crashes *)

\* A straggler that is done has written a valid document, or none; the task, if there
\* is one, holds a document at rest.
LEMMA StragglerDoneKept ==
    ASSUME Calm, PublicationInv, DocumentInv, NEW o \in stragglers,
           Effect(o) \/ UNCHANGED <<diskVars, lock>>,
           stragglers' = stragglers \ {o}
             \/ \E l : SecondHalf(l) /\ Valid(l.job) /\ stragglers' = (stragglers \ {o}) \cup {l},
           UNCHANGED <<task, command, clock, held>>
    PROVE  DocumentInv'
<1> USE DEF PublicationInv, TaskInv, OthersInv, DocumentInv
<1>1. /\ job' = job \/ job' = Writes(o)
      /\ o.op \notin {"create", "truncate"} /\ staged' = staged
      /\ \A s \in stragglers' : s.op \in {"replace", "intent"} => Valid(s.job)
  <2>1. o.op \notin {"create", "truncate"}
    BY StragglerParts DEF Calm
  <2>2. staged' = staged /\ (job' = job \/ job' = Writes(o))
    BY <2>1 DEF Effect, diskVars
  <2>3. \A s \in stragglers' : s \in stragglers \/ Valid(s.job)
    OBVIOUS
  <2> QED
    BY <2>1, <2>2, <2>3 DEF DocumentsAreValid
<1>2. WindowIsEmpty' /\ WindowIsSound' /\ WindowIsComplete'
  BY <1>1 DEF WindowIsEmpty, WindowIsSound, WindowIsComplete, Covered
<1>3. (job' # None => Valid(job')) => DocumentsAreValid'
  BY <1>1 DEF DocumentsAreValid, Lengths
<1>4. CASE job' = job
  BY <1>1, <1>2, <1>3, <1>4 DEF DocumentsAreValid, DocumentIsFollowed
<1>5. CASE /\ Settled
           /\ \/ o.op = "recover" /\ job' = Recovered(job, o.stamp)
              \/ job' = Paused(job, IF o.op = "preFail" THEN clock ELSE o.stamp)
  <2>1. job # None /\ job \in JobRecords /\ job.state # "Publishing" /\ Valid(job)
    BY <1>5 DEF Settled, Types, DocumentsAreValid
  <2>2. o.stamp \in Nat /\ clock \in Nat
    BY StragglerParts
  <2>3. Valid(job') /\ job'.state \notin Interrupted
    BY <1>5, <2>1, <2>2, ValidAfterwards
  <2> QED
    BY <1>2, <1>3, <2>3 DEF DocumentIsFollowed
<1>6. CASE o.op \in {"replace", "intent"} /\ job' = o.job /\ job # None /\ ~Publishing
           /\ o.job.stamp >= job.stamp
  <2>1. Valid(job') /\ o.job \in JobRecords /\ job \in JobRecords
    BY <1>6, StragglerParts DEF DocumentsAreValid, Types
  <2>2. ~Late(o)
    BY <1>6, <2>1 DEF Late, JobRecords
  <2>3. o.job.state # "Failed" => Unanswered
    BY <1>6, <2>2 DEF StragglersAreLate
  <2>4. DocumentIsFollowed'
    BY <1>1, <1>6, <2>3 DEF DocumentIsFollowed, Unanswered, Interrupted, Filling, Checking
  <2> QED
    BY <1>2, <1>3, <2>1, <2>4
<1>7. Replaceable(o.job) => job # None /\ ~Publishing /\ o.job.stamp >= job.stamp
  BY DEF Replaceable, CanReplace, Publishing
<1>8. IntentAllowed(o.job) => job # None /\ ~Publishing /\ o.job.stamp >= job.stamp
  BY DEF IntentAllowed, Publishing
<1> HIDE DEF PublicationInv, TaskInv, OthersInv, DocumentInv
<1>9. \/ job' = job
      \/ o.op = "recover" /\ Settled /\ job' = Recovered(job, o.stamp)
      \/ o.op \in {"pause", "fail"} /\ Settled /\ job' = Paused(job, o.stamp)
      \/ o.op = "preFail" /\ Settled /\ job' = Paused(job, clock)
      \/ o.op = "replace" /\ Replaceable(o.job) /\ job' = o.job
      \/ o.op = "intent" /\ IntentAllowed(o.job) /\ job' = o.job
  BY <1>1 DEF Writes
<1> QED
  BY <1>4, <1>5, <1>6, <1>7, <1>8, <1>9

\* A straggler that writes, or that the store fails, is done.
LEMMA StragglerWritesKept ==
    ASSUME Calm, PublicationInv, DocumentInv, NEW o \in stragglers,
           StragglerWrites(o) \/ StragglerErrs(o),
           UNCHANGED <<task, command, clock, held>>
    PROVE  DocumentInv'
BY StragglerDoneKept DEF StragglerWrites, StragglerErrs

\* A straggling failure writes valid documents.
LEMMA StragglerFailsKept ==
    ASSUME Calm, PublicationInv, DocumentInv, NEW o \in stragglers, StragglerFails(o),
           UNCHANGED <<task, command, clock, held>>
    PROVE  DocumentInv'
<1>1. o.op \in {"fail", "preFail"} /\ Effect(o)
  BY DEF StragglerFails
<1>2. CASE Settled
  <2> DEFINE code == Code(o)
             j == Failed(job', code)
             late == [o EXCEPT !.at = "failed", !.op = "replace", !.job = j]
             s == IF o.op = "fail" THEN o.stamp ELSE clock
  <2>1. /\ Types /\ job # None /\ job \in JobRecords /\ o \in StragglerRecords
        /\ job.state # "Publishing" /\ Valid(job)
        /\ s \in Nat /\ s <= clock /\ o.stamp <= clock
    BY <1>2, StragglerParts DEF Settled, PublicationInv, OthersInv, DocumentInv, DocumentsAreValid
  <2>2. job' = Paused(job, s)
    BY <1>1, <1>2 DEF Effect, Writes
  <2> HIDE DEF s
  <2>3. job' \in JobRecords /\ job'.stamp = s
    BY <2>1, <2>2, PausedParts
  <2>4. code \in {"checksum", "failed"}
    BY DEF Code
  <2> HIDE DEF code
  <2>5. j \in JobRecords /\ j.stamp = s /\ j.state = "Failed" /\ Valid(j)
    <3>1. Valid(Failed(Paused(job, s), code))
      BY <2>1, <2>4, ValidAfterwards
    <3>2. Valid(Failed(job', code))
      BY <2>2, <3>1
    <3> QED
      BY <2>3, <2>4, <3>2, FailedParts
  <2> HIDE DEF j
  <2>6. SecondHalf(late) /\ Valid(late.job)
    <3>1. late \in StragglerRecords
      BY <2>1, <2>5 DEF StragglerRecords, Positions, Operations
    <3>2. late.op = "replace" /\ late.at = "failed" /\ late.job = j /\ late.stamp = o.stamp
      BY <2>1 DEF StragglerRecords
    <3> QED
      BY <2>1, <2>5, <3>1, <3>2, NoneAssumption DEF SecondHalf
  <2>7. stragglers' = (stragglers \ {o}) \cup {late}
    BY <1>2 DEF StragglerFails, j, code
  <2> HIDE DEF late
  <2> QED
    BY <1>1, <2>6, <2>7, StragglerDoneKept
<1>3. CASE ~Settled
  <2>1. stragglers' = stragglers \ {o}
    BY <1>3 DEF StragglerFails
  <2> QED
    BY <1>1, <2>1, StragglerDoneKept
<1> QED
  BY <1>2, <1>3

\* A straggling publication keeps the document or removes it.
LEMMA StragglerPublishesKept ==
    ASSUME Calm, PublicationInv, DocumentInv, NEW o \in stragglers, StragglerPublishes(o),
           UNCHANGED <<task, command, clock, held>>
    PROVE  DocumentInv'
<1> USE DEF PublicationInv, TaskInv, OthersInv
<1>1. o \in StragglerRecords /\ o.op = "publish"
  <2>1. o.at \in {"publish", "refresh"}
    BY DEF StragglerPublishes
  <2> QED
    BY <2>1, StragglerParts DEF StragglersAreShaped
<1>2. CASE UNCHANGED diskVars /\ stragglers' = stragglers \ {o}
  BY <1>2
  DEF DocumentInv, DocumentsAreValid, DocumentIsFollowed, WindowIsEmpty, WindowIsSound,
      WindowIsComplete, Covered, Lengths, diskVars
<1>3. CASE Publishing /\ (job' = job \/ job' = None)
           /\ (stragglers' = stragglers \ {o} \/ stragglers' = (stragglers \ {o}) \cup {[o EXCEPT !.at = "refresh"]})
  <2>1. task # None => task.at \in {"publish", "refresh", "fail", "recover", "preFail"}
    BY <1>3 DEF TaskIsAlone
  <2>2. \A x \in stragglers' : x.op \in {"replace", "intent"} => x \in stragglers
    <3>1. [o EXCEPT !.at = "refresh"].op = "publish"
      BY <1>1 DEF StragglerRecords
    <3> QED
      BY <1>3, <3>1
  <2>3. DocumentsAreValid'
    BY <1>3, <2>1, <2>2 DEF DocumentInv, DocumentsAreValid, Fetching, Filling, Checking
  <2>4. DocumentIsFollowed'
    BY <1>3 DEF DocumentIsFollowed, Publishing, Interrupted
  <2>5. WindowIsEmpty' /\ WindowIsSound' /\ WindowIsComplete'
    BY <2>1 DEF DocumentInv, WindowIsEmpty, WindowIsSound, WindowIsComplete, Filling
  <2> QED
    BY <2>3, <2>4, <2>5 DEF DocumentInv
<1>4. CASE (\E ok \in BOOLEAN : Refreshed(ok)) /\ stragglers' = stragglers \ {o}
  <2>1. PICK ok \in BOOLEAN : Refreshed(ok)
    BY <1>4
  <2>2. Publishing /\ job' \in {job, None}
    BY <2>1, RefreshedParts
  <2> QED
    BY <1>3, <1>4, <2>2
<1>5. CASE Renamable /\ Rename /\ stragglers' = (stragglers \ {o}) \cup {[o EXCEPT !.at = "refresh"]}
  BY <1>3, <1>5 DEF Renamable, Rename
<1> QED
  BY <1>2, <1>4, <1>5 DEF StragglerPublishes

\* A start and a resume begin with an empty window.
LEMMA BeginKept ==
    ASSUME Calm, PublicationInv, DocumentInv, (\E m \in Models : Start(m)) \/ Resume
    PROVE  DocumentInv'
<1> USE DEF PublicationInv, TaskInv, OthersInv, DocumentInv
<1>1. /\ task = None /\ command[2] # "acting" /\ UNCHANGED <<job, staged, stragglers, command>>
      /\ job # None => job.state \notin Interrupted
  BY DEF Start, Resume, Idle, diskVars, Interrupted
<1>2. PICK m \in Models, p \in {"recover", "publish"} : task' = NewTask(m, p)
  <2>1. job # None => job.of \in Models
    BY DEF Types, JobRecords
  <2> QED
    BY <2>1 DEF Start, Resume
<1>3. /\ task' \in TaskRecords /\ task'.at = p /\ task'.job = None
      /\ task'.selected = {} /\ task'.flying = {} /\ task'.parked = NoFiles
  BY <1>2, NewTaskParts
<1>4. DocumentsAreValid'
  BY <1>1, <1>3 DEF DocumentsAreValid, Fetching, Filling, Checking
<1>5. DocumentIsFollowed'
  BY <1>1 DEF DocumentIsFollowed
<1>6. WindowIsEmpty' /\ WindowIsSound' /\ WindowIsComplete'
  BY <1>3 DEF WindowIsEmpty, WindowIsSound, WindowIsComplete, Preparing, Fetching, Filling
<1> QED
  BY <1>4, <1>5, <1>6

\* A task that is asked to pause need not complete its window.
LEMMA AskKept ==
    ASSUME Calm, PublicationInv, DocumentInv, NEW kind \in {"pause", "cancel"}, Ask(kind)
    PROVE  DocumentInv'
<1> USE DEF PublicationInv, TaskInv, OthersInv, DocumentInv
<1>1. /\ command' = <<kind, "waiting">> /\ command[2] # "acting"
      /\ task' = IF task = None THEN None ELSE [task EXCEPT !.pausing = TRUE]
      /\ UNCHANGED <<job, staged, stragglers>>
  BY Working DEF Ask, Idle, diskVars
<1>2. (task' = None) = (task = None)
  <2>1. task # None => [task EXCEPT !.pausing = TRUE] \in TaskRecords
    BY DEF Types, TaskRecords
  <2> QED
    BY <1>1, <2>1, NoneAssumption
<1>3. task # None =>
        /\ task'.at = task.at /\ task'.of = task.of /\ task'.stamp = task.stamp
        /\ task'.job = task.job /\ task'.segment = task.segment /\ task'.prefix = task.prefix
        /\ task'.selected = task.selected /\ task'.flying = task.flying
        /\ task'.parked = task.parked /\ task'.written = task.written
  BY <1>1, Working DEF TaskRecords
<1>4. task # None => task'.pausing
  BY <1>1, Working DEF TaskRecords
<1>5. DocumentsAreValid'
  BY <1>1, <1>2, <1>3 DEF DocumentsAreValid, Lengths
<1>6. DocumentIsFollowed'
  BY <1>1, <1>2, <1>3 DEF DocumentIsFollowed
<1>7. WindowIsEmpty' /\ WindowIsSound'
  BY <1>1, <1>2, <1>3 DEF WindowIsEmpty, WindowIsSound
<1>8. WindowIsComplete'
  BY <1>2, <1>4 DEF WindowIsComplete
<1> QED
  BY <1>5, <1>6, <1>7, <1>8

\* What an abort leaves behind is a valid document.
LEMMA AbortKept ==
    ASSUME Calm, PublicationInv, DocumentInv, Abort \/ TaskStopped
    PROVE  DocumentInv'
<1> USE DEF PublicationInv, TaskInv, OthersInv, DocumentInv
<1>1. task' = None /\ command'[2] = "acting" /\ job' = job
  BY Working DEF Abort, TaskStopped, diskVars, Types
<1>2. DocumentIsFollowed'
  BY <1>1 DEF DocumentIsFollowed
<1>3. CASE stragglers' = stragglers
  <2>1. DocumentsAreValid'
    BY <1>1, <1>3 DEF DocumentsAreValid
  <2> QED
    BY <1>1, <1>2, <2>1, NoWindow
<1>4. CASE task # None /\ stragglers' = stragglers \cup {Straggler(task)}
  <2>0. PICK o : o = Straggler(task)
    OBVIOUS
  <2>1. /\ o.op = OperationAt(task.at) /\ task.at \in Positions
        /\ task.at \in ReplacePositions => o.job = Replacement(task)
        /\ task.at = "intent" => o.job = task.job
    <3>1. task.at \in ReplacePositions => o.job = Replacement(task)
      BY <2>0 DEF Straggler, ReplacePositions
    <3>2. task.at = "intent" => o.job = task.job
      BY <2>0 DEF Straggler, ReplacePositions
    <3> QED
      BY <1>4, <2>0, <3>1, <3>2, Working DEF Straggler, TaskRecords
  <2>2. /\ o.op = "replace" => task.at \in ReplacePositions
        /\ o.op = "intent" => task.at = "intent"
    BY <2>1 DEF OperationAt, Positions, ReplacePositions
  <2>3. o.op = "replace" => Valid(o.job)
    BY <1>4, <2>1, <2>2, ReplacementIsValid
  <2>4. o.op = "intent" => Valid(o.job)
    <3>1. task.at = "intent" => /\ task.job.state = "Publishing" /\ task.job.exact
                                /\ task.job.error = "none" /\ task.job.done = Size
      BY <1>4 DEF TaskIsEquipped, DocumentsAreValid
    <3>2. task.at = "intent" => Valid(task.job)
      BY <3>1 DEF Valid
    <3> QED
      BY <2>1, <2>2, <3>2
  <2>5. DocumentsAreValid'
    BY <1>1, <1>4, <2>0, <2>3, <2>4 DEF DocumentsAreValid
  <2> QED
    BY <1>1, <1>2, <2>5, NoWindow
<1> QED
  BY <1>3, <1>4 DEF Abort, TaskStopped

\* What a command leaves is at rest.
LEMMA ActKept ==
    ASSUME Calm, PublicationInv, DocumentInv, ActPause \/ ActCancel \/ CancelEnds
    PROVE  DocumentInv'
<1> USE DEF PublicationInv, TaskInv, OthersInv, DocumentInv
<1>1. task = None /\ task' = None /\ stragglers' = stragglers /\ clock \in Nat
  BY DEF ActPause, ActCancel, CancelEnds, CommandIsExclusive, Types
<1>2. CASE Settled /\ job' = Paused(job, clock)
  <2>1. job # None /\ job \in JobRecords /\ job.state # "Publishing" /\ Valid(job)
    BY <1>2 DEF Settled, Types, DocumentsAreValid
  <2>2. Valid(job') /\ job'.state \notin Interrupted
    BY <1>1, <1>2, <2>1, ValidAfterwards
  <2>3. DocumentsAreValid' /\ DocumentIsFollowed'
    BY <1>1, <2>2 DEF DocumentsAreValid, DocumentIsFollowed
  <2> QED
    BY <1>1, <2>3, NoWindow
<1>3. CASE job' = job /\ (command' = command \/ ~Settled)
  <2>1. DocumentsAreValid'
    BY <1>1, <1>3 DEF DocumentsAreValid
  <2>2. DocumentIsFollowed'
    BY <1>1, <1>3 DEF DocumentIsFollowed, Settled, Interrupted
  <2> QED
    BY <1>1, <2>1, <2>2, NoWindow
<1>4. CASE job' = None
  <2>1. DocumentsAreValid' /\ DocumentIsFollowed'
    BY <1>1, <1>4 DEF DocumentsAreValid, DocumentIsFollowed
  <2> QED
    BY <1>1, <2>1, NoWindow
<1> QED
  BY <1>2, <1>3, <1>4 DEF ActPause, ActCancel, CancelEnds

\* What a command leaves that the host fails is valid.
LEMMA ActErrsKept ==
    ASSUME Calm, PublicationInv, DocumentInv, PauseErrs \/ CancelErrs
    PROVE  DocumentInv'
<1> USE DEF PublicationInv, TaskInv, OthersInv, DocumentInv
<1>1. task = None /\ task' = None /\ stragglers' = stragglers /\ clock \in Nat /\ Failures # {}
  <2>1. CASE PauseErrs
    BY <2>1 DEF PauseErrs, CommandIsExclusive, Types
  <2>2. CASE CancelErrs
    <3>1. Failures # {}
      BY <2>2 DEF CancelErrs
    <3> QED
      BY <2>2, <3>1 DEF CancelErrs, CommandIsExclusive, Types
  <2> QED
    BY <2>1, <2>2
<1>2. job' \in {job, None} \/ (Settled /\ job' = Paused(job, clock))
  BY DEF PauseErrs, CancelErrs
<1>3. job' # None => Valid(job')
  <2>1. CASE job' = job
    BY <2>1 DEF DocumentsAreValid
  <2>2. CASE Settled /\ job' = Paused(job, clock)
    <3>1. job # None /\ job \in JobRecords /\ job.state # "Publishing" /\ Valid(job)
      BY <2>2 DEF Settled, Types, DocumentsAreValid
    <3> QED
      BY <1>1, <2>2, <3>1, ValidAfterwards
  <2> QED
    BY <1>2, <2>1, <2>2
<1>4. DocumentsAreValid' /\ DocumentIsFollowed'
  BY <1>1, <1>3 DEF DocumentsAreValid, DocumentIsFollowed
<1> QED
  BY <1>1, <1>4, NoWindow

\* A task that the host fails leaves a valid document.
LEMMA TaskErrsKept ==
    ASSUME Calm, PublicationInv, DocumentInv, TaskErrs
    PROVE  DocumentInv'
<1> USE DEF PublicationInv, TaskInv, OthersInv, DocumentInv
<1> DEFINE o == Straggler(task)
<1>1. /\ task # None /\ task \in TaskRecords /\ task.at \in Positions /\ clock \in Nat
      /\ UNCHANGED stragglers /\ Failures # {}
  BY Working DEF TaskErrs, restUnchanged
<1>2. task' = None \/ task'.at \in {"fail", "preFail"}
  <2>1. \A p : Go(p).at = p
    BY <1>1 DEF Go, TaskRecords
  <2> HIDE DEF PublicationInv, TaskInv, OthersInv, DocumentInv
  <2>2. task' \in {None, Go("fail"), Go("preFail")}
    BY DEF TaskErrs, AfterError
  <2> QED
    BY <2>1, <2>2
<1>3. job' = job \/ job' = Writes(o)
  BY DEF TaskErrs, Effect, diskVars
<1>4. /\ o.op = OperationAt(task.at) /\ o.stamp = clock
      /\ o.op = "replace" => task.at \in ReplacePositions /\ o.job = Replacement(task)
      /\ o.op = "intent" => task.at = "intent" /\ o.job = task.job
      /\ o.op = "create" => o.job = NewJob(task.of, task.stamp)
  <2>1. /\ o.op = OperationAt(task.at) /\ o.stamp = clock
        /\ o.op = "replace" => task.at \in ReplacePositions
        /\ o.op = "intent" => task.at = "intent" /\ o.job = task.job
        /\ o.op = "create" => task.at = "create"
    BY <1>1, StragglerOf
  <2>2. task.at \in ReplacePositions => o.job = Replacement(task)
    <3> HIDE DEF PublicationInv, TaskInv, OthersInv, DocumentInv
    <3> QED
      BY DEF Straggler, ReplacePositions
  <2>3. task.at = "create" => o.job = NewJob(task.of, task.stamp)
    BY DEF Straggler, ReplacePositions
  <2> QED
    BY <2>1, <2>2, <2>3
<1>5. o.op = "replace" => Valid(o.job)
  BY <1>1, <1>4, ReplacementIsValid
<1>6. o.op = "intent" => Valid(o.job)
  <2>1. task.at = "intent" => /\ task.job.state = "Publishing" /\ task.job.exact
                              /\ task.job.error = "none" /\ task.job.done = Size
    BY <1>1 DEF TaskIsEquipped, DocumentsAreValid
  <2>2. task.at = "intent" => Valid(task.job)
    BY <2>1 DEF Valid
  <2> QED
    BY <1>4, <2>2
<1>7. o.op = "create" => Valid(o.job)
  BY <1>4 DEF NewJob, Valid
<1> HIDE DEF o
<1>8. job' # None => Valid(job')
  <2>1. CASE job' = job
    BY <2>1 DEF DocumentsAreValid
  <2>2. CASE /\ Settled
             /\ job' = Recovered(job, clock) \/ job' = Paused(job, clock)
    <3>1. job # None /\ job \in JobRecords /\ job.state # "Publishing" /\ Valid(job)
      BY <2>2 DEF Settled, Types, DocumentsAreValid
    <3> QED
      BY <1>1, <2>2, <3>1, ValidAfterwards
  <2>3. CASE o.op \in {"create", "replace", "intent"} /\ job' = o.job
    BY <1>5, <1>6, <1>7, <2>3
  <2> HIDE DEF PublicationInv, TaskInv, OthersInv, DocumentInv
  <2>4. \/ job' = job
        \/ Settled /\ job' \in {Recovered(job, clock), Paused(job, clock)}
        \/ o.op \in {"create", "replace", "intent"} /\ job' = o.job
    BY <1>3, <1>4 DEF Writes
  <2> QED
    BY <2>1, <2>2, <2>3, <2>4
<1>9. DocumentsAreValid'
  BY <1>1, <1>2, <1>8 DEF DocumentsAreValid, Fetching, Filling, Checking
<1>10. DocumentIsFollowed'
  BY <1>1, <1>2 DEF DocumentIsFollowed, Filling, Checking
<1> QED
  BY <1>2, <1>9, <1>10, NoWindow DEF Preparing, Fetching, Filling

\* What a restart leaves is at rest, or is being published.
LEMMA CrashKept ==
    ASSUME Calm, PublicationInv, DocumentInv, Crash
    PROVE  DocumentInv'
<1> USE DEF PublicationInv, TaskInv, OthersInv, DocumentInv
<1>1. /\ stragglers' = {} /\ command' = <<"none", "idle">> /\ clock \in Nat
      /\ job' = IF Settled THEN Recovered(job, clock) ELSE job
      /\ task' = IF Publishing THEN NewTask(job.of, "publish") ELSE None
      /\ job # None => job \in JobRecords /\ job.of \in Models /\ Valid(job)
  BY DEF Crash, Types, JobRecords, DocumentsAreValid
<1>2. task' # None => task'.at = "publish"
  BY <1>1, NewTaskParts DEF Publishing
<1>3. job' # None => Valid(job') /\ job'.state \notin Interrupted
  <2>1. CASE Settled
    BY <1>1, <2>1, ValidAfterwards DEF Settled
  <2>2. CASE ~Settled
    BY <1>1, <2>2 DEF Settled, Interrupted
  <2> QED
    BY <2>1, <2>2
<1>4. DocumentsAreValid'
  BY <1>1, <1>2, <1>3 DEF DocumentsAreValid, Fetching, Filling, Checking
<1>5. DocumentIsFollowed'
  BY <1>3 DEF DocumentIsFollowed
<1> QED
  BY <1>2, <1>4, <1>5, NoWindow DEF Preparing, Fetching, Filling

-----------------------------------------------------------------------------
(* The second invariant *)

\* The second invariant holds at the start ...
LEMMA InitKept == Init => DocumentInv
BY DEF Init, DocumentInv, DocumentsAreValid, DocumentIsFollowed, WindowIsEmpty, WindowIsSound,
       WindowIsComplete

\* ... and every step keeps it, given the first.
LEMMA NextKept == Calm /\ PublicationInv /\ DocumentInv /\ [Next]_vars => DocumentInv'
<1> SUFFICES ASSUME Calm, PublicationInv, DocumentInv, [Next]_vars PROVE DocumentInv'
  OBVIOUS
<1>1. CASE Network
  BY <1>1, PreflightKept, SegmentArrivesKept, SegmentEndsKept DEF Network
<1>2. CASE TaskStep
  BY <1>2, TaskRecoversKept, TaskCreatesKept, TaskReplacesKept, LaunchKept, TaskOpensKept,
     WindowEndsKept, TaskVerifiesKept, TaskTruncatesKept, TaskIntendsKept, TaskPublishesKept,
     TaskEndsKept DEF TaskStep
<1>3. CASE WriteBehind
  BY <1>3, WriteBehindKept
<1>4. CASE StragglerEnds
  BY <1>4, StragglerWritesKept, StragglerFailsKept, StragglerPublishesKept DEF StragglerEnds
<1>5. CASE CommandStep
  BY <1>5, AbortKept, ActKept DEF CommandStep
<1>6. CASE (\E m \in Models : Start(m)) \/ Resume
  BY <1>6, BeginKept
<1>7. CASE (\E kind \in {"pause", "cancel"} : Ask(kind)) \/ Crash
  BY <1>7, AskKept, CrashKept
<1>8. CASE WriteLands
  <2>1. writes = {}
    BY DEF Calm, PublicationInv, OthersInv, StragglersAreShaped
  <2> QED
    BY <1>8, <2>1 DEF WriteLands
<1>9. CASE Errors
  <2>1. ~CommandDropped
    BY DEF CommandDropped, Calm
  <2> QED
    BY <1>9, <2>1, TaskErrsKept, ActErrsKept DEF Errors
<1>10. CASE UNCHANGED vars
  BY <1>10
  DEF vars, diskVars, DocumentInv, DocumentsAreValid, DocumentIsFollowed, WindowIsEmpty,
      WindowIsSound, WindowIsComplete, Covered, Lengths
<1> QED
  BY <1>1, <1>2, <1>3, <1>4, <1>5, <1>6, <1>7, <1>8, <1>9, <1>10 DEF Next

-----------------------------------------------------------------------------
(* The theorems *)

\* The first invariant holds as long as no handler of a command is dropped, whatever
\* outlasts an abort, overlaps or fails.
THEOREM Safe == Attached => (Spec => []PublicationInv)
<1> SUFFICES ASSUME Attached PROVE Spec => []PublicationInv
  OBVIOUS
<1>1. Init => PublicationInv
  BY InitSafe
<1>2. PublicationInv /\ [Next]_vars => PublicationInv'
  BY NextSafe
<1> QED
  BY <1>1, <1>2, PTL DEF Spec

\* Both invariants hold of a calm instance, for every catalog, every manifest, and
\* any number of commands, crashes and faults.
THEOREM Inductive == Calm => (Spec => [](PublicationInv /\ DocumentInv))
<1> SUFFICES ASSUME Calm PROVE Spec => [](PublicationInv /\ DocumentInv)
  OBVIOUS
<1>0. Attached
  BY DEF Calm, Attached
<1>1. Init => PublicationInv /\ DocumentInv
  BY InitSafe, InitKept
<1>2. PublicationInv /\ DocumentInv /\ [Next]_vars => (PublicationInv /\ DocumentInv)'
  BY <1>0, NextSafe, NextKept
<1> QED
  BY <1>1, <1>2, PTL DEF Spec

\* TypeOK, of a calm instance: the variables keep their shapes and
\* DownloadJob::validate accepts every document that is saved, by the task, by a
\* straggler, by a command or at startup.
THEOREM TypeCorrect == Calm => (Spec => []TypeOK)
<1> SUFFICES ASSUME Calm PROVE Spec => []TypeOK
  OBVIOUS
<1>1. PublicationInv /\ DocumentInv => TypeOK
  BY DEF PublicationInv, OthersInv, DocumentInv, DocumentsAreValid, TypeOK
<1> QED
  BY <1>1, Inductive, PTL

\* PublicationIsVerified, of a calm instance: verify_download_job,
\* replace_current_for_publication and publish_current_job never publish bytes that
\* were not verified, and recovery can always finish a publication that was intended.
\* It is false of the code when a truncation or a write outlasts its task, or a
\* cancellation removes some of the files.
THEOREM PublicationsAreVerified == Calm => (Spec => []PublicationIsVerified)
<1> SUFFICES ASSUME Calm PROVE Spec => []PublicationIsVerified
  OBVIOUS
<1>0. Attached
  BY DEF Calm, Attached
<1>1. PublicationInv => PublicationIsVerified
  BY DEF PublicationInv, OthersInv
<1> QED
  BY <1>0, <1>1, Safe, PTL

\* PauseHolds: after pause_current_job has answered, no operation of an aborted task,
\* no error and no restart sets the job going again.  Any operation may outlast its
\* task, but of those that stamp the document without comparing stamps only one at a
\* time; the code has no such bound.
THEOREM PausesHold == Attached /\ Monotonic => (Spec => []PauseHolds)
<1> SUFFICES ASSUME Attached, Monotonic PROVE Spec => []PauseHolds
  OBVIOUS
<1>1. PublicationInv => PauseHolds
  BY DEF PublicationInv, OthersInv, PauseIsKept, PauseHolds
<1> QED
  BY <1>1, Safe, PTL

\* CancelHolds: after cancel_current_job has answered, no operation of an aborted
\* task brings the document back, any number of them, unless it is a creation.
THEOREM CancellationsHold ==
    Attached /\ "create" \notin Lingering => (Spec => []CancelHolds)
<1> SUFFICES ASSUME Attached, "create" \notin Lingering PROVE Spec => []CancelHolds
  OBVIOUS
<1>1. PublicationInv => CancelHolds
  BY DEF PublicationInv, OthersInv, CancelIsKept
<1> QED
  BY <1>1, Safe, PTL

\* IdleIsResumable, of a calm instance without failures of the host: however a task
\* ended, the document it leaves is one that resume accepts; replace_current never
\* refuses the last document of a task.
THEOREM IdleJobsAreResumable == Calm /\ Failures = {} => (Spec => []IdleIsResumable)
<1> SUFFICES ASSUME Calm, Failures = {} PROVE Spec => []IdleIsResumable
  OBVIOUS
<1>1. PublicationInv /\ DocumentInv => IdleIsResumable
  <2> SUFFICES ASSUME PublicationInv, DocumentInv, task = None, Idle, job # None
               PROVE  job.state \in {"Paused", "Failed", "Publishing"}
    BY DEF IdleIsResumable
  <2>1. job.state \in JobStates
    BY DEF PublicationInv, OthersInv, Types, JobRecords
  <2>2. job.state \notin Interrupted
    BY DEF DocumentInv, DocumentIsFollowed, Idle
  <2> QED
    BY <2>1, <2>2 DEF JobStates, Interrupted
<1> QED
  BY <1>1, Inductive, PTL

=============================================================================
