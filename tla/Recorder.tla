------------------------------ MODULE Recorder ------------------------------
(***************************************************************************)
(* The profile recorder controller (package profilerecorder) composed with *)
(* the enricher it reads from and the pods it watches.                     *)
(*                                                                         *)
(* controller-runtime runs Reconcile for one queued pod at a time (one     *)
(* worker); a Reconcile that returns an error puts the pod back in the     *)
(* queue.  A Reconcile that collects log profiles is a sequence of steps   *)
(* that interleave with the enricher: per profile, the Syscalls / Avcs RPC *)
(* (fetch), CreateOrUpdate of the cluster object (write), and the          *)
(* ResetSyscalls / ResetAvcs RPC (reset).                                  *)
(*                                                                         *)
(* The model assumes, as the code does, that every log annotation of a pod *)
(* carries the pod's recordProfile id, so a pod has one profile name and   *)
(* one or two kinds.                                                       *)
(***************************************************************************)
EXTENDS Enricher, SequencesExt

CONSTANTS
    HookAnn,           \* pod -> "none", "invalid", "outside" or a hook id
    LogAnn,            \* pod -> kinds that have a log annotation
    HookFile,          \* hook id -> content of the file the hook wrote
    HookBroken,        \* hook ids whose file is missing or is not valid JSON
    Names,             \* names of profile objects in the cluster
    ProfileName,       \* id -> extractProfileName(id), None when it has no "-"
    Malformed,         \* AVCs whose tcontext has fewer than three parts
    EnableLogEnricher, \* spod.Spec.EnableLogEnricher
    MaxFail            \* bound on transient API and RPC errors

Phases == {"Pending", "Running", "Succeeded", "Failed", "Deleted"}

ASSUME RecorderAssumption ==
    /\ HookAnn \in [Pods -> {"none", "invalid", "outside"} \cup Ids]
    /\ LogAnn \in [Pods -> SUBSET Kinds]
    /\ HookFile \in [Ids -> SUBSET Obs]
    /\ HookBroken \subseteq Ids
    /\ ProfileName \in [Ids -> Names \cup {None}]
    /\ None \notin Names
    /\ Malformed \subseteq Obs
    /\ EnableLogEnricher \in BOOLEAN
    /\ MaxFail \in Nat

\* A podsToWatch entry: the recorder and the profiles to collect, in the
\* order parseLogAnnotations produced them (Go map order: any order); an
\* entry is stored only with at least one profile.
WatchEntry == [recorder: {"hook", "logs"}, kinds: Seq(Kinds) \ {<< >>}, name: Ids]

\* The reconcile worker: idle, or collecting profile i of rec.pod.
RecState == [pc: {"idle", "collect", "hook", "fetch", "write", "reset"},
             pod: Pods \cup {None}, i: Nat, snap: SUBSET Obs]

VARIABLES
    phase,     \* pod phase as the API server reports it ("Deleted": gone)
    queue,     \* the controller's work queue of pod keys
    watch,     \* podsToWatch: pod -> WatchEntry or None
    rec,       \* the reconcile worker
    cluster,   \* cluster[k][n]: the SeccompProfile / SelinuxProfile spec
    fails,     \* transient errors spent
    published, \* history: every observation ever written from the set of id
    raced,     \* history: observations inserted between fetch and reset
    recorded   \* history: observations inserted since the enricher started

rvars == <<phase, queue, watch, rec, cluster, fails>>
gvars == <<published, raced, recorded>>
vars == <<evars, rvars, gvars>>

RecIdle == [pc |-> "idle", pod |-> None, i |-> 1, snap |-> {}]

NoProfiles == [k \in Kinds |-> [id \in Ids |-> {}]]

NoObjects == [k \in Kinds |-> [n \in Names |-> {}]]

TypeOK ==
    /\ EnricherTypeOK
    /\ phase \in [Pods -> Phases]
    /\ queue \subseteq Pods
    /\ watch \in [Pods -> WatchEntry \cup {None}]
    /\ rec \in RecState
    /\ rec.pc \notin {"idle", "collect"} =>
           /\ rec.pod \in Pods
           /\ watch[rec.pod] \in WatchEntry
           /\ rec.i \in 1..Len(watch[rec.pod].kinds)
    /\ rec.pc = "collect" => rec.pod \in Pods
    /\ cluster \in [Kinds -> [Names -> SUBSET Obs]]
    /\ fails \in 0..MaxFail
    /\ published \in [Kinds -> [Ids -> SUBSET Obs]]
    /\ raced \in [Kinds -> [Ids -> SUBSET Obs]]
    /\ recorded \in [Kinds -> [Ids -> SUBSET Obs]]

\* isPodWithTraceAnnotation: the event filter of the controller.
Traced(p) == HookAnn[p] # "none" \/ LogAnn[p] # {}

Init ==
    /\ EnricherInit
    /\ phase = [p \in Pods |-> "Pending"]
    /\ queue = {p \in Pods : Traced(p)}
    /\ watch = [p \in Pods |-> None]
    /\ rec = RecIdle
    /\ cluster = NoObjects
    /\ fails = 0
    /\ published = NoProfiles
    /\ raced = NoProfiles
    /\ recorded = NoProfiles

\* The profile rec is collecting.
Cur == watch[rec.pod]
CurKind == Cur.kinds[rec.i]
CurId == Cur.name

(***************************************************************************)
(* Pods.  A pod event passes the filter and queues the pod's key.          *)
(***************************************************************************)
Enqueue(p) == queue' = IF Traced(p) THEN queue \cup {p} ELSE queue

PodMove(p, from, to) ==
    /\ phase[p] \in from
    /\ phase' = [phase EXCEPT ![p] = to]
    /\ Enqueue(p)
    /\ UNCHANGED <<evars, watch, rec, cluster, fails, gvars>>

\* Lines of containers that record no profile are read and dropped by the
\* enricher with no effect; only recording pods are given lines.
Emit(p, k, o) ==
    /\ phase[p] = "Running"
    /\ RecordProfile[p] # None
    /\ AppendLine([pod |-> p, kind |-> k, obs |-> o])
    /\ UNCHANGED <<rvars, gvars>>

(***************************************************************************)
(* Ingest steps of the enricher, with the history variables.               *)
(***************************************************************************)
InWindow(k, id) ==
    rec.pc \in {"write", "reset"} /\ CurKind = k /\ CurId = id

IngestRead == ReadLine /\ UNCHANGED <<rvars, gvars>>

IngestBegin == BeginInsert /\ UNCHANGED <<rvars, gvars>>

IngestEnd ==
    /\ EndInsert
    /\ recorded' = IF ing.live
                   THEN [recorded EXCEPT ![ing.kind][ing.id] = @ \cup {ing.obs}]
                   ELSE recorded
    /\ raced' = IF ing.live /\ InWindow(ing.kind, ing.id)
                THEN [raced EXCEPT ![ing.kind][ing.id] = @ \cup {ing.obs}]
                ELSE raced
    /\ UNCHANGED <<rvars, published>>

EnricherRestart ==
    /\ Restart
    /\ recorded' = NoProfiles
    /\ UNCHANGED <<rvars, published, raced>>

(***************************************************************************)
(* Outcomes of a reconcile step.                                           *)
(***************************************************************************)
\* A transient error: API timeout, conflict, RPC deadline.
Transient == fails < MaxFail /\ fails' = fails + 1

\* Mutant of Requeue: the error is logged and Reconcile returns nil.
RequeueDropped(p) == rec' = RecIdle /\ queue' = queue

\* Reconcile returns an error: the pod is queued again.
Requeue(p) == rec' = RecIdle /\ queue' = queue \cup {p}

\* collectProfile succeeded: podsToWatch.Delete.
Finish(p) ==
    /\ watch' = [watch EXCEPT ![p] = None]
    /\ rec' = RecIdle
    /\ UNCHANGED queue

\* Mutant of Advance: the loop bound is off by one.
AdvancePastEnd ==
    IF rec.i <= Len(Cur.kinds)
    THEN rec' = [rec EXCEPT !.pc = IF Cur.recorder = "hook" THEN "hook" ELSE "fetch",
                            !.i = @ + 1]
         /\ UNCHANGED <<watch, queue>>
    ELSE Finish(rec.pod)

\* After profile i: the next one, or the end of collectProfile.
Advance ==
    IF rec.i < Len(Cur.kinds)
    THEN rec' = [rec EXCEPT !.pc = IF Cur.recorder = "hook" THEN "hook" ELSE "fetch",
                            !.i = @ + 1]
         /\ UNCHANGED <<watch, queue>>
    ELSE Finish(rec.pod)

(***************************************************************************)
(* Reconcile up to collectProfile: the Get of the pod, and the Pending     *)
(* branch that parses the annotations and stores the podsToWatch entry.    *)
(***************************************************************************)
LogInvalid(p) == LogAnn[p] # {} /\ RecordProfile[p] = None

\* No entry is stored: already tracked, a parse error, or no profile.
NoTracking(p) ==
    \/ watch[p] # None
    \/ HookAnn[p] = "invalid"
    \/ LogInvalid(p)
    \/ HookAnn[p] \notin Ids /\ LogAnn[p] = {}

Track(p) ==
    /\ ~NoTracking(p)
    /\ \/ /\ HookAnn[p] \in Ids
          /\ watch' = [watch EXCEPT ![p] = [recorder |-> "hook",
                          kinds |-> <<"seccomp">>, name |-> HookAnn[p]]]
       \/ /\ HookAnn[p] \notin Ids
          /\ \E ks \in SetToSeqs(LogAnn[p]) :
                watch' = [watch EXCEPT ![p] = [recorder |-> "logs",
                             kinds |-> ks, name |-> RecordProfile[p]]]

Reconcile(p) ==
    /\ rec.pc = "idle"
    /\ p \in queue
    /\ \/ /\ Transient
          /\ UNCHANGED <<queue, watch, rec>>
       \/ /\ queue' = queue \ {p}
          /\ UNCHANGED fails
          /\ \/ /\ phase[p] \in {"Succeeded", "Deleted"}
                /\ rec' = [rec EXCEPT !.pc = "collect", !.pod = p]
                /\ UNCHANGED watch
             \/ /\ phase[p] = "Pending"
                /\ \/ NoTracking(p) /\ UNCHANGED watch
                   \/ Track(p)
                /\ UNCHANGED rec
             \/ /\ phase[p] \in {"Running", "Failed"}
                /\ UNCHANGED <<watch, rec>>
    /\ UNCHANGED <<evars, phase, cluster, gvars>>

\* extractProfileName: the object name is the id up to its last "-".
ObjectName(id) == ProfileName[id]

(***************************************************************************)
(* collectLogProfiles up to its loop: getSPOD, the EnableLogEnricher check *)
(* and Dial (a non-blocking dial, which does not fail).                    *)
(***************************************************************************)
CollectLogs(p) ==
    \/ Transient /\ Requeue(p)
    \/ ~EnableLogEnricher /\ Requeue(p) /\ UNCHANGED fails
    \/ /\ EnableLogEnricher
       /\ rec' = [rec EXCEPT !.pc = "fetch", !.i = 1]
       /\ UNCHANGED <<queue, fails>>

(***************************************************************************)
(* collectProfile: load the podsToWatch entry and collect by its recorder. *)
(***************************************************************************)
Collect ==
    /\ rec.pc = "collect"
    /\ LET p == rec.pod IN
       \/ /\ watch[p] = None
          /\ rec' = RecIdle
          /\ UNCHANGED <<queue, fails>>
       \/ /\ watch[p] # None
          /\ watch[p].recorder = "hook"
          /\ rec' = [rec EXCEPT !.pc = "hook", !.i = 1]
          /\ UNCHANGED <<queue, fails>>
       \/ /\ watch[p] # None
          /\ watch[p].recorder = "logs"
          /\ CollectLogs(p)
    /\ UNCHANGED <<evars, phase, watch, cluster, gvars>>

(***************************************************************************)
(* collectLocalProfiles, one profile: ReadFile, extractProfileName of the  *)
(* base name, and CreateOrUpdate, whose mutate function unmarshals the     *)
(* file's JSON into the spec.  A missing file or bad JSON fails the same   *)
(* way on every retry; a CreateOrUpdate that fails may or may not have     *)
(* been applied.                                                           *)
(***************************************************************************)
\* CreateOrUpdate writes the content of the hook file of id to object n.
ApplyHook(id, n) ==
    /\ cluster' = [cluster EXCEPT !["seccomp"][n] = HookFile[id]]
    /\ published' = [published EXCEPT !["seccomp"][id] = @ \cup HookFile[id]]

CollectHook ==
    /\ rec.pc = "hook"
    /\ LET n == ObjectName(CurId) IN
       \/ /\ CurId \in HookBroken \/ n = None
          /\ Requeue(rec.pod)
          /\ UNCHANGED <<watch, cluster, published, fails>>
       \/ /\ CurId \notin HookBroken /\ n # None
          /\ \/ /\ Transient /\ Requeue(rec.pod)
                /\ ApplyHook(CurId, n) \/ UNCHANGED <<cluster, published>>
                /\ UNCHANGED watch
             \/ ApplyHook(CurId, n) /\ Advance /\ UNCHANGED fails
    /\ UNCHANGED <<evars, phase, raced, recorded>>

\* formatSelinuxProfile fails on an AVC whose tcontext has too few parts.
FormatFails(snap) == snap \cap Malformed # {}

(***************************************************************************)
(* collectLogProfiles, one profile, first part: extractProfileName, then   *)
(* the Syscalls / Avcs RPC and, for SELinux, formatSelinuxProfile.  A read *)
(* of the set while the ingest goroutine writes it aborts the enricher.    *)
(***************************************************************************)
Fetch ==
    /\ rec.pc = "fetch"
    /\ LET k == CurKind
           id == CurId
       IN  \/ ObjectName(id) = None /\ Requeue(rec.pod) /\ UNCHANGED <<fails, up>>
           \/ ObjectName(id) # None /\ ~up /\ Requeue(rec.pod) /\ UNCHANGED <<fails, up>>
           \/ /\ ObjectName(id) # None /\ up
              /\ \/ Transient /\ Requeue(rec.pod) /\ UNCHANGED up
                 \/ InsertInFlight(k, id) /\ up' = FALSE /\ Requeue(rec.pod)
                    /\ UNCHANGED fails
                 \/ /\ k = "selinux" /\ FormatFails(Snapshot(k, id))
                    /\ Requeue(rec.pod)
                    /\ UNCHANGED <<fails, up>>
                 \/ /\ k = "selinux" => ~FormatFails(Snapshot(k, id))
                    /\ rec' = [rec EXCEPT !.pc = "write", !.snap = Snapshot(k, id)]
                    /\ UNCHANGED <<queue, fails, up>>
    /\ UNCHANGED <<log, ing, agg, phase, watch, cluster, gvars>>

\* The object of (k, id) gets the fetched set; the history records it.
Apply(k, id) ==
    /\ cluster' = [cluster EXCEPT ![k][ObjectName(id)] = rec.snap]
    /\ published' = [published EXCEPT ![k][id] = @ \cup rec.snap]

\* Mutant of Write: the CreateOrUpdate error is logged and the reset runs.
WriteIgnoringError ==
    /\ rec.pc = "write"
    /\ \/ /\ Transient
          /\ Apply(CurKind, CurId) \/ UNCHANGED <<cluster, published>>
       \/ Apply(CurKind, CurId) /\ UNCHANGED fails
    /\ rec' = [rec EXCEPT !.pc = "reset"]
    /\ UNCHANGED <<evars, phase, queue, watch, raced, recorded>>

(***************************************************************************)
(* CreateOrUpdate of the profile object with the fetched set.  A failed    *)
(* call may or may not have been applied.                                  *)
(***************************************************************************)
Write ==
    /\ rec.pc = "write"
    /\ \/ /\ Transient /\ Requeue(rec.pod)
          /\ Apply(CurKind, CurId) \/ UNCHANGED <<cluster, published>>
       \/ /\ Apply(CurKind, CurId)
          /\ rec' = [rec EXCEPT !.pc = "reset"]
          /\ UNCHANGED <<queue, fails>>
    /\ UNCHANGED <<evars, phase, watch, raced, recorded>>

(***************************************************************************)
(* The ResetSyscalls / ResetAvcs RPC.  A call that fails on a deadline may *)
(* or may not have run on the server.                                      *)
(***************************************************************************)
Reset ==
    /\ rec.pc = "reset"
    /\ LET k == CurKind
           id == CurId
       IN  \/ ~up /\ Requeue(rec.pod) /\ UNCHANGED <<fails, ing, agg, watch>>
           \/ /\ up /\ Transient /\ Requeue(rec.pod)
              /\ ResetProfile(k, id) \/ UNCHANGED <<ing, agg>>
              /\ UNCHANGED watch
           \/ /\ up /\ ResetProfile(k, id)
              /\ Advance
              /\ UNCHANGED fails
    /\ UNCHANGED <<log, up, phase, cluster, gvars>>

(***************************************************************************)
(* The system.                                                             *)
(***************************************************************************)
Next ==
    \/ IngestRead
    \/ IngestBegin
    \/ IngestEnd
    \/ EnricherRestart
    \/ \E p \in Pods : Reconcile(p)
    \/ Collect
    \/ CollectHook
    \/ Fetch
    \/ Write
    \/ Reset
    \/ \E p \in Pods :
          \/ PodMove(p, {"Pending"}, "Running")
          \/ PodMove(p, {"Running"}, "Succeeded")
          \/ PodMove(p, {"Running"}, "Failed")
          \/ PodMove(p, Phases \ {"Deleted"}, "Deleted")
    \/ \E p \in Pods, k \in Kinds, o \in Obs : Emit(p, k, o)

Spec == Init /\ [][Next]_vars

(***************************************************************************)
(* The controller works its queue, the tail follows the file and the      *)
(* kubelet restarts a dead container; pods and their processes need not    *)
(* do anything.                                                            *)
(***************************************************************************)
Fairness ==
    /\ WF_vars(IngestRead)
    /\ WF_vars(IngestBegin)
    /\ WF_vars(IngestEnd)
    /\ WF_vars(EnricherRestart)
    /\ WF_vars(\E p \in Pods : Reconcile(p))
    /\ WF_vars(Collect)
    /\ WF_vars(CollectHook)
    /\ WF_vars(Fetch)
    /\ WF_vars(Write)
    /\ WF_vars(Reset)

FairSpec == Spec /\ Fairness

(***************************************************************************)
(* Properties.                                                             *)
(***************************************************************************)

(***************************************************************************)
(* The aggregator never drops an observation that was not published.      *)
(* Every observation the enricher inserted into the set of (k, id) since  *)
(* it started is still in the set, or has been written to the cluster     *)
(* profile of (k, id), or arrived between the recorder's fetch of that    *)
(* profile and its reset (the race the spec allows).  This is what the    *)
(* order fetch, CreateOrUpdate, Reset in collectLogSeccompProfile and     *)
(* collectLogSelinuxProfile is for, and what a reset of the wrong map or  *)
(* a reset after a failed write would break.                              *)
(***************************************************************************)
RecordedNotLost ==
    \A k \in Kinds, id \in Ids :
        recorded[k][id] \subseteq agg[k][id] \cup published[k][id] \cup raced[k][id]

(***************************************************************************)
(* Once a recorded pod has succeeded or is gone, its podsToWatch entry is  *)
(* eventually removed: collectProfile eventually runs to the end, through  *)
(* transient API and RPC errors (Reconcile requeues) and enricher          *)
(* restarts.                                                               *)
(***************************************************************************)
CollectionCompletes ==
    \A p \in Pods :
        (watch[p] # None /\ phase[p] \in {"Succeeded", "Deleted"})
            ~> watch[p] = None

(***************************************************************************)
(* A profile object written to the cluster is never replaced by one with  *)
(* fewer observations: the spec says the reset comes after the write "so a *)
(* crash between snapshot and reset replays rather than losing             *)
(* observations".                                                          *)
(***************************************************************************)
ProfileNeverShrinks ==
    [][\A k \in Kinds, n \in Names : cluster[k][n] \subseteq cluster'[k][n]]_cluster

(***************************************************************************)
(* The enricher process never dies: Syscalls / Avcs snapshots are          *)
(* consistent reads of the set that the ingest goroutine inserts into      *)
(* (spec: "readers must not observe partially inserted entries").          *)
(***************************************************************************)
EnricherAlive == up

=============================================================================
