------------------------------ MODULE Enricher ------------------------------
(***************************************************************************)
(* The log enricher of the security-profiles-operator node daemon          *)
(* (package enricher).  One ingest goroutine (Run) tails the audit log,    *)
(* attributes each line to a pod and records the observation into one of  *)
(* two sync.Maps, syscalls and avcs, that map a profile id to a            *)
(* sets.String.  The gRPC server goroutines read those sets (Syscalls,     *)
(* Avcs) and delete them (ResetSyscalls, ResetAvcs).                       *)
(*                                                                         *)
(* A sets.String is a plain Go map: the ingest goroutine writes it with no *)
(* lock while a handler may iterate it.  The write is therefore split in   *)
(* two steps (BeginInsert, EndInsert) so that a read overlapping the write *)
(* is visible.  Syscall names and AVC records are abstracted to the model  *)
(* values of Obs; the two maps are agg["seccomp"] and agg["selinux"].      *)
(***************************************************************************)
EXTENDS Naturals, Sequences

CONSTANTS
    Pods,            \* pods on this node whose processes produce audit lines
    Ids,             \* profile ids, the values of the recording annotations
    Obs,             \* observations: syscall names and AVC records
    UnknownSyscalls, \* observations whose syscall id has no name in the table
    RecordProfile,   \* pod -> recordProfile of its containerInfo, None for ""
    MaxLog,          \* bound on the lines written and not yet read
    None             \* the absent value: "" profile, no pod, no entry

Kinds == {"seccomp", "selinux"}

ASSUME EnricherAssumption ==
    /\ UnknownSyscalls \subseteq Obs
    /\ RecordProfile \in [Pods -> Ids \cup {None}]
    /\ MaxLog \in Nat
    /\ None \notin Ids \cup Obs \cup Pods

\* An audit line after parsing: who produced it, which record type, what.
Line == [pod: Pods, kind: Kinds, obs: Obs]

\* Where the ingest goroutine is in one iteration of the Run loop.
\*   "next"    : reading the next line
\*   "loaded"  : LoadOrStore returned the set for (kind, id)
\*   "writing" : inside sets.String.Insert, the Go map write
\* live is FALSE once a Reset deleted the set the goroutine holds.
IngestState == [pc: {"next", "loaded", "writing"}, kind: Kinds,
                id: Ids \cup {None}, obs: Obs \cup {None}, live: BOOLEAN]

VARIABLES
    log,     \* the lines of the audit log the tail has not read yet
    up,      \* the enricher process is running
    ing,     \* the ingest goroutine
    agg      \* agg[k][id]: the set stored under id in the map of kind k

evars == <<log, up, ing, agg>>

NoIngest == [pc |-> "next", kind |-> "seccomp", id |-> None, obs |-> None,
             live |-> FALSE]

EmptyAgg == [k \in Kinds |-> [id \in Ids |-> {}]]

EnricherTypeOK ==
    /\ log \in Seq(Line)
    /\ Len(log) <= MaxLog
    /\ up \in BOOLEAN
    /\ ing \in IngestState
    /\ ing.pc # "next" => ing.id \in Ids /\ ing.obs \in Obs
    /\ agg \in [Kinds -> [Ids -> SUBSET Obs]]

EnricherInit ==
    /\ log = << >>
    /\ up = TRUE
    /\ ing = NoIngest
    /\ agg = EmptyAgg

(***************************************************************************)
(* A process of a container triggers a seccomp or SELinux audit record.    *)
(***************************************************************************)
AppendLine(l) ==
    /\ Len(log) < MaxLog
    /\ log' = Append(log, l)
    /\ UNCHANGED <<up, ing, agg>>

(***************************************************************************)
(* One iteration of the Run loop, from the tail up to LoadOrStore.  The    *)
(* line is dropped when getContainerID or getContainerInfo fails (process  *)
(* gone, runtime error, pod not found), or when a seccomp line names an    *)
(* unknown syscall.  Otherwise, when the container records a profile, the *)
(* goroutine loads or stores the set of that profile.  The metric a        *)
(* seccomp line sends (SendMetric, best effort) goes to a sink outside     *)
(* the node daemon and is left out.                                        *)
(***************************************************************************)
\* Mutant of ReadLine: an unknown syscall is not skipped.
ReadLineAnySyscall ==
    /\ up
    /\ ing.pc = "next"
    /\ log # << >>
    /\ log' = Tail(log)
    /\ LET l  == Head(log)
           id == RecordProfile[l.pod]
       IN  \/ UNCHANGED ing
           \/ ing' = IF id = None THEN ing
                     ELSE [pc |-> "loaded", kind |-> l.kind, id |-> id,
                           obs |-> l.obs, live |-> TRUE]
    /\ UNCHANGED <<up, agg>>

ReadLine ==
    /\ up
    /\ ing.pc = "next"
    /\ log # << >>
    /\ log' = Tail(log)
    /\ LET l  == Head(log)
           id == RecordProfile[l.pod]
       IN  \/ UNCHANGED ing
           \/ /\ l.kind = "seccomp" => l.obs \notin UnknownSyscalls
              /\ ing' = IF id = None THEN ing
                        ELSE [pc |-> "loaded", kind |-> l.kind, id |-> id,
                              obs |-> l.obs, live |-> TRUE]
    /\ UNCHANGED <<up, agg>>

\* sets.String.Insert starts writing the Go map.
BeginInsert ==
    /\ up
    /\ ing.pc = "loaded"
    /\ ing' = [ing EXCEPT !.pc = "writing"]
    /\ UNCHANGED <<log, up, agg>>

\* The write ends.  A set deleted by a Reset meanwhile is garbage: the
\* observation is lost.
EndInsert ==
    /\ up
    /\ ing.pc = "writing"
    /\ agg' = IF ing.live
              THEN [agg EXCEPT ![ing.kind][ing.id] = @ \cup {ing.obs}]
              ELSE agg
    /\ ing' = NoIngest
    /\ UNCHANGED <<log, up>>

(***************************************************************************)
(* The gRPC handlers.  Syscalls / Avcs return the set stored under the id, *)
(* empty when there is none; ResetSyscalls / ResetAvcs delete it.  A read  *)
(* of the set while the ingest goroutine writes it is a concurrent Go map  *)
(* read and write.                                                         *)
(***************************************************************************)
Snapshot(k, id) == agg[k][id]

InsertInFlight(k, id) ==
    /\ ing.pc = "writing"
    /\ ing.live
    /\ ing.kind = k
    /\ ing.id = id

ResetProfile(k, id) ==
    /\ agg' = [agg EXCEPT ![k][id] = {}]
    /\ ing' = IF ing.pc # "next" /\ ing.kind = k /\ ing.id = id
              THEN [ing EXCEPT !.live = FALSE]
              ELSE ing

(***************************************************************************)
(* The runtime aborts the process ("concurrent map read and map write");   *)
(* the kubelet restarts the container.  Run starts from New(): empty maps, *)
(* and the tail seeks to the end of the file.                              *)
(***************************************************************************)
Restart ==
    /\ ~up
    /\ up' = TRUE
    /\ log' = << >>
    /\ ing' = NoIngest
    /\ agg' = EmptyAgg

=============================================================================
