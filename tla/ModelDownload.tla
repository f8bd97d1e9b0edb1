--------------------------- MODULE ModelDownload ---------------------------
(***************************************************************************)
(* The acoustic model on disk: the big file, which comes down in pieces    *)
(* through `<file>.part`, and the small files beside it; the job that      *)
(* fetches them, whose attempts may overlap when one was slow and its      *)
(* lease ran out; the administrator, who may remove the files at any time; *)
(* and the alignments that failed because the model was not there.         *)
(*                                                                         *)
(* The models directory belongs to all worker processes.  Each has one     *)
(* slot for downloads.  A file is how many pieces it holds and whether     *)
(* they are the first pieces of the model, in order.                       *)
(***************************************************************************)
EXTENDS Integers, FiniteSets

CONSTANTS Processes,     \* worker processes
          Alignments,    \* align jobs, each of a pair of its own
          Size,          \* pieces of the big file
          Enough,        \* the fewest pieces that pass for the whole (sizeBytes * 0.9)
          MaxAttempts,   \* MAX_ATTEMPTS of the job queue
          MaxRequests, MaxRemovals, MaxFailures, MaxCrashes, MaxStalls,  \* bounds
          NoOne, NoFile

VARIABLES job,       \* the download job of the model
          try,       \* what each process is doing for it
          part, dest, \* `<file>.part` and the file itself
          extra,     \* the small files are there
          align,     \* the alignments; a process that has found no model for one
          crossed,   \* an attempt that had lost the job touched the part file
          cut,       \* the part file was removed while a request to resume it was under way
          budget     \* what is left of each bound

vars == <<job, try, part, dest, extra, align, crossed, cut, budget>>

Files == [len : Nat, good : BOOLEAN]
Idle == [pc |-> "idle", have |-> 0, at |-> 0, mode |-> "w", fd |-> "none", lost |-> FALSE]

TypeOK ==
    /\ job \in [state : {"none", "queued", "running", "failed", "done"},
                owner : Processes \cup {NoOne}, tries : 0..MaxAttempts]
    /\ try \in [Processes -> [pc : {"idle", "extra", "asked", "reading"}, have : Nat,
                              at : 0..Size, mode : {"a", "w"},
                              fd : {"none", "part", "dest", "orphan"}, lost : BOOLEAN]]
    /\ {part, dest} \subseteq Files \cup {NoFile}
    /\ extra \in BOOLEAN /\ crossed \in BOOLEAN /\ cut \in BOOLEAN
    /\ align \in [Alignments -> {"queued", "failed", "started"} \cup Processes]
    /\ budget \in [{"requests", "removals", "failures", "crashes", "stalls"} -> Nat]

Init ==
    /\ job = [state |-> "none", owner |-> NoOne, tries |-> 0]
    /\ try = [w \in Processes |-> Idle]
    /\ part = NoFile /\ dest = NoFile /\ extra = FALSE
    /\ align = [j \in Alignments |-> "queued"]
    /\ crossed = FALSE /\ cut = FALSE
    /\ budget = [requests |-> MaxRequests, removals |-> MaxRemovals, failures |-> MaxFailures,
                 crashes |-> MaxCrashes, stalls |-> MaxStalls]

-----------------------------------------------------------------------------
(* The files.                                                              *)

Length(f) == IF f = NoFile THEN 0 ELSE f.len

Installed == extra /\ Length(dest) >= Enough

\* A piece written to the file an attempt opened: appended to it, or put where
\* the attempt has got to.
Written(f, t) ==
    IF t.mode = "a"
    THEN [len |-> f.len + 1, good |-> f.good /\ f.len = t.at]
    ELSE [len |-> IF t.at < f.len THEN f.len ELSE t.at + 1, good |-> f.good /\ t.at <= f.len]

\* Where the attempts' open files are once the name is removed or changed.
Unlinked(t, from, to) == [w \in Processes |-> [t[w] EXCEPT !.fd = IF @ = from THEN to ELSE @]]

Spend(what) == budget[what] > 0 /\ budget' = [budget EXCEPT ![what] = @ - 1]

\* A process between refusing an alignment and failing its job does nothing else.
Free(w) == \A j \in Alignments : align[j] # w

Superseded(w) == job.state # "running" \/ job.owner # w

-----------------------------------------------------------------------------
(* The job.                                                                *)

\* Seeded fault: nobody is told that the model is there.
WakeNobody == align

\* requeueAlignmentsWaitingFor
WakeWaiting == [j \in Alignments |-> IF align[j] = "failed" THEN "queued" ELSE align[j]]

Ended(state) == [job EXCEPT !.state = state, !.owner = NoOne]

\* done(error): the row is failed if it is still this attempt's.
Fail(w) ==
    /\ job' = IF try[w].lost \/ Superseded(w) THEN job ELSE Ended("failed")
    /\ try' = [try EXCEPT ![w] = Idle]

\* POST /api/models/:id/download
Request ==
    /\ ~Installed /\ job.state \notin {"queued", "running"}
    /\ Spend("requests")
    /\ job' = [state |-> "queued", owner |-> NoOne, tries |-> 0]
    /\ UNCHANGED <<try, part, dest, extra, align, crossed, cut>>

\* Once the small files are there: how much of the big one is, and ask for the rest.
Measured(w) == [Idle EXCEPT !.pc = "asked", !.have = Length(part)]

Start(w) ==
    /\ job.state = "queued" /\ try[w].pc = "idle" /\ Free(w)
    /\ LET claimed == [state |-> "running", owner |-> w, tries |-> job.tries + 1] IN
       IF Installed
       THEN /\ job' = [claimed EXCEPT !.state = "done", !.owner = NoOne]
            /\ align' = WakeWaiting
            /\ UNCHANGED try
       ELSE /\ job' = claimed
            /\ try' = [try EXCEPT ![w] = IF extra THEN Measured(w) ELSE [Idle EXCEPT !.pc = "extra"]]
            /\ UNCHANGED align
    /\ UNCHANGED <<part, dest, extra, crossed, cut, budget>>

\* A small file is written as it arrives; only then is the lease asserted.
ExtraArrives(w) ==
    /\ try[w].pc = "extra" /\ Free(w)
    /\ extra' = TRUE
    /\ try' = [try EXCEPT ![w] = IF Superseded(w) THEN Idle ELSE Measured(w)]
    /\ UNCHANGED <<job, part, dest, align, crossed, cut, budget>>

\* Seeded fault: the whole file is sent and appended to what is there.
ResponseAppended(w) ==
    /\ try[w].pc = "asked" /\ Free(w)
    /\ \E from \in {0, try[w].have} :
          /\ from < Size
          /\ try' = [try EXCEPT ![w] = [@ EXCEPT !.pc = "reading", !.at = from,
                                                 !.mode = "a", !.fd = "part"]]
    /\ part' = IF part = NoFile THEN [len |-> 0, good |-> TRUE] ELSE part
    /\ crossed' = (crossed \/ Superseded(w))
    /\ UNCHANGED <<job, dest, extra, align, cut, budget>>

\* The server resumes, or sends the whole file anyhow.
Response(w) ==
    /\ try[w].pc = "asked" /\ Free(w)
    /\ \/ /\ try[w].have > 0 /\ try[w].have < Size
          /\ try' = [try EXCEPT ![w] = [@ EXCEPT !.pc = "reading", !.at = try[w].have,
                                                 !.mode = "a", !.fd = "part"]]
          /\ part' = IF part = NoFile THEN [len |-> 0, good |-> TRUE] ELSE part
       \/ /\ try' = [try EXCEPT ![w] = [@ EXCEPT !.pc = "reading", !.at = 0, !.have = 0,
                                                 !.mode = "w", !.fd = "part"]]
          /\ part' = [len |-> 0, good |-> TRUE]
    /\ crossed' = (crossed \/ Superseded(w))
    /\ UNCHANGED <<job, dest, extra, align, cut, budget>>

\* 416: there is nothing after what is here; start over, from the beginning.
NothingToResume(w) ==
    /\ try[w].pc = "asked" /\ try[w].have >= Size /\ Free(w)
    /\ part' = NoFile
    /\ crossed' = (crossed \/ Superseded(w))
    /\ LET kept == Unlinked(try, "part", "orphan") IN
       IF Installed
       THEN /\ IF Superseded(w) THEN UNCHANGED <<job, align>>
               ELSE job' = Ended("done") /\ align' = WakeWaiting
            /\ try' = [kept EXCEPT ![w] = Idle]
       ELSE /\ try' = [kept EXCEPT ![w] = IF extra THEN [Idle EXCEPT !.pc = "asked"]
                                          ELSE [Idle EXCEPT !.pc = "extra"]]
            /\ UNCHANGED <<job, align>>
    /\ UNCHANGED <<dest, extra, cut, budget>>

\* A piece arrives.  The first one, and one every two seconds, is followed by a
\* look whether the part file is still there and by a report, which needs the job.
Chunk(w) ==
    LET t == try[w] IN
    /\ t.pc = "reading" /\ ~t.lost /\ t.at < Size /\ Free(w)
    /\ part' = IF t.fd = "part" THEN Written(part, t) ELSE part
    /\ dest' = IF t.fd = "dest" THEN Written(dest, t) ELSE dest
    /\ crossed' = (crossed \/ Superseded(w))
    /\ \/ /\ t.at > t.have
          /\ try' = [try EXCEPT ![w].at = @ + 1]
          /\ UNCHANGED job
       \/ IF part' = NoFile THEN Fail(w)
          ELSE /\ try' = [try EXCEPT ![w] = IF Superseded(w) THEN Idle ELSE [t EXCEPT !.at = @ + 1]]
               /\ UNCHANGED job
    /\ UNCHANGED <<extra, align, cut, budget>>

\* All of it has been written: the size at the name of the part file decides.
End(w) ==
    LET t == try[w] IN
    /\ t.pc = "reading" /\ t.at = Size /\ Free(w)
    /\ IF Length(part) < Enough
       THEN Fail(w) /\ UNCHANGED <<part, dest, align>>
       ELSE IF Superseded(w)
       THEN try' = [try EXCEPT ![w] = Idle] /\ UNCHANGED <<job, part, dest, align>>
       ELSE /\ dest' = part /\ part' = NoFile
            /\ try' = [Unlinked(Unlinked(try, "dest", "orphan"), "part", "dest") EXCEPT ![w] = Idle]
            /\ job' = Ended("done")
            /\ align' = WakeWaiting
    /\ UNCHANGED <<extra, crossed, cut, budget>>

\* The heartbeat tells an attempt that its job is somebody else's; the next piece ends it.
Heartbeat(w) ==
    /\ try[w].pc # "idle" /\ Superseded(w)
    /\ try' = [try EXCEPT ![w] = IF @.pc = "reading" /\ @.at < Size THEN Idle ELSE [@ EXCEPT !.lost = TRUE]]
    /\ try' # try
    /\ UNCHANGED <<job, part, dest, extra, align, crossed, cut, budget>>

\* The network fails under a request or a body.
Breaks(w) ==
    /\ try[w].pc # "idle" /\ Free(w)
    /\ Spend("failures")
    /\ Fail(w)
    /\ UNCHANGED <<part, dest, extra, align, crossed, cut>>

Crash(w) ==
    /\ try[w].pc # "idle"
    /\ Spend("crashes")
    /\ try' = [try EXCEPT ![w] = Idle]
    /\ UNCHANGED <<job, part, dest, extra, align, crossed, cut>>

\* The sweep takes a job whose lease ran out: its process died, or was slow.
Reclaimed == IF job.tries < MaxAttempts THEN Ended("queued") ELSE Ended("failed")

SweepDead ==
    /\ job.state = "running" /\ try[job.owner].pc = "idle"
    /\ job' = Reclaimed
    /\ UNCHANGED <<try, part, dest, extra, align, crossed, cut, budget>>

SweepSlow ==
    /\ job.state = "running" /\ try[job.owner].pc # "idle"
    /\ Spend("stalls")
    /\ job' = Reclaimed
    /\ UNCHANGED <<try, part, dest, extra, align, crossed, cut>>

\* DELETE /api/models/:id
Remove ==
    /\ Spend("removals")
    /\ part' = NoFile /\ dest' = NoFile /\ extra' = FALSE
    /\ try' = Unlinked(Unlinked(try, "part", "orphan"), "dest", "orphan")
    /\ cut' = (cut \/ \E w \in Processes : try[w].pc = "asked" /\ try[w].have > 0)
    /\ UNCHANGED <<job, align, crossed>>

-----------------------------------------------------------------------------
(* The alignments.                                                         *)

\* runAlign up to the model: it starts, or finds that there is none ...
StartAlign(j, w) ==
    /\ align[j] = "queued" /\ Free(w)
    /\ align' = [align EXCEPT ![j] = IF Installed THEN "started" ELSE w]
    /\ UNCHANGED <<job, try, part, dest, extra, crossed, cut, budget>>

\* ... and its job fails, waiting for one.
RefuseAlign(j) ==
    /\ align[j] \in Processes
    /\ align' = [align EXCEPT ![j] = "failed"]
    /\ UNCHANGED <<job, try, part, dest, extra, crossed, cut, budget>>

\* GET /api/models
LookAtModels ==
    /\ Installed /\ align' = WakeWaiting /\ align' # align
    /\ UNCHANGED <<job, try, part, dest, extra, crossed, cut, budget>>

Work(w) == Start(w) \/ ExtraArrives(w) \/ Response(w) \/ NothingToResume(w) \/ Chunk(w) \/ End(w)

Next ==
    \/ Request \/ Remove \/ SweepDead \/ SweepSlow \/ LookAtModels
    \/ \E w \in Processes : Work(w) \/ Heartbeat(w) \/ Breaks(w) \/ Crash(w)
    \/ \E j \in Alignments : RefuseAlign(j) \/ \E w \in Processes : StartAlign(j, w)

\* Downloads proceed and end, heartbeats fire, a job nobody works on is swept.
Fairness ==
    /\ \A w \in Processes : WF_vars(Work(w)) /\ WF_vars(Heartbeat(w))
    /\ \A j \in Alignments : WF_vars(RefuseAlign(j))
    /\ WF_vars(SweepDead)

Spec == Init /\ [][Next]_vars
FairSpec == Spec /\ Fairness

-----------------------------------------------------------------------------
(* Properties.                                                             *)

\* What counts as installed is the whole model, piece by piece in order, although
\* the only check is that it is large enough: unless the part file was removed
\* while a request to resume it was under way, or two attempts met in it.
HalfIsNoModel ==
    Installed => (dest.good /\ dest.len = Size) \/ crossed \/ cut

\* An alignment that waits for the model goes again when a download that was
\* asked for ends, whatever dies or is slow on the way: unless the network fails,
\* the model is removed meanwhile, or two attempts met in the part file.
WaitersGoAgain ==
    \A j \in Alignments :
        (align[j] = "failed" /\ job.state = "queued") ~>
            (align[j] # "failed" \/ crossed
             \/ budget.failures < MaxFailures \/ budget.removals < MaxRemovals)
=============================================================================
