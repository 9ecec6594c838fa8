--------------------------- MODULE RecorderProofs ---------------------------
(***************************************************************************)
(* Proofs about the recorder composed with the enricher, for every value  *)
(* of the constants that satisfies EnricherAssumption and                 *)
(* RecorderAssumption.                                                     *)
(***************************************************************************)
EXTENDS Recorder, FiniteSetTheorems, SequenceTheorems, TLAPS

\* The two profile kinds form a finite set.
LEMMA KindsFinite == IsFiniteSet(Kinds)
<1>1. IsFiniteSet({"seccomp"})
  BY FS_Singleton
<1>2. Kinds = {"seccomp"} \cup {"selinux"}
  BY DEF Kinds
<1>. QED
  BY <1>1, <1>2, FS_AddElement

\* Updating one entry of a two-level function keeps its type, also when the
\* inner key is outside the inner domain (then nothing changes).
LEMMA NestedExceptType ==
  ASSUME NEW S, NEW T, NEW U, NEW f \in [S -> [T -> U]], NEW a \in S, NEW b, NEW v \in U
  PROVE  [f EXCEPT ![a][b] = v] \in [S -> [T -> U]]
<1>1. [f[a] EXCEPT ![b] = v] \in [T -> U]
  OBVIOUS
<1>. QED
  BY <1>1

\* ResetProfile marking the set the ingest goroutine holds as deleted.
LEMMA OrphanType ==
  ASSUME NEW r \in IngestState
  PROVE  /\ [r EXCEPT !.live = FALSE] \in IngestState
         /\ [r EXCEPT !.live = FALSE].pc = r.pc
         /\ [r EXCEPT !.live = FALSE].id = r.id
         /\ [r EXCEPT !.live = FALSE].obs = r.obs
<1>1. r = [pc |-> r.pc, kind |-> r.kind, id |-> r.id, obs |-> r.obs, live |-> r.live]
  BY DEF IngestState
<1>2. [r EXCEPT !.live = FALSE] \in IngestState
  BY DEF IngestState
<1>. QED
  BY <1>1, <1>2

(***************************************************************************)
(* Every order parseLogAnnotations may produce for a non-empty set of log *)
(* annotations is a non-empty sequence of kinds.                           *)
(***************************************************************************)
LEMMA SetToSeqsType ==
  ASSUME NEW S \in SUBSET Kinds, S # {}, NEW ks \in SetToSeqs(S)
  PROVE  ks \in Seq(Kinds) \ {<< >>}
<1>1. IsFiniteSet(S) /\ Cardinality(S) \in Nat
  BY KindsFinite, FS_Subset, FS_CardinalityType
<1>2. Cardinality(S) # 0
  BY <1>1, FS_EmptySet
<1>3. ks \in [1..Cardinality(S) -> S]
  BY DEF SetToSeqs
<1>. QED
  BY <1>1, <1>2, <1>3

(***************************************************************************)
(* The typing facts of the reconcile worker after Advance: the next        *)
(* profile of the entry being collected, or the entry removed and the      *)
(* worker idle.                                                            *)
(***************************************************************************)
RecOK(r, w) ==
    /\ r \in RecState
    /\ r.pc \notin {"idle", "collect"} =>
           /\ r.pod \in Pods
           /\ w[r.pod] \in WatchEntry
           /\ r.i \in 1..Len(w[r.pod].kinds)
    /\ r.pc = "collect" => r.pod \in Pods

LEMMA AdvanceType ==
  ASSUME TypeOK, rec.pc \in {"hook", "reset"}, Advance
  PROVE  /\ RecOK(rec', watch')
         /\ watch' \in [Pods -> WatchEntry \cup {None}]
         /\ queue' = queue
<1> USE RecorderAssumption DEF TypeOK, RecState, WatchEntry, RecOK
<1>1. rec.pod \in Pods /\ watch[rec.pod] \in WatchEntry /\ rec.i \in 1..Len(watch[rec.pod].kinds)
  OBVIOUS
<1>2. CASE rec.i < Len(watch[rec.pod].kinds)
  <2>1. /\ rec' = [rec EXCEPT !.pc = IF watch[rec.pod].recorder = "hook" THEN "hook" ELSE "fetch",
                              !.i = @ + 1]
        /\ UNCHANGED <<watch, queue>>
    BY <1>2 DEF Advance, Cur
  <2>2. rec' = [pc |-> IF watch[rec.pod].recorder = "hook" THEN "hook" ELSE "fetch",
                 pod |-> rec.pod, i |-> rec.i + 1, snap |-> rec.snap]
    BY <2>1, Zenon
  <2>3. rec' \in RecState
    BY <2>2
  <2>. QED
    BY <1>1, <1>2, <2>1, <2>2, <2>3
<1>3. CASE ~(rec.i < Len(watch[rec.pod].kinds))
  <2>1. /\ watch' = [watch EXCEPT ![rec.pod] = None]
        /\ rec' = RecIdle
        /\ queue' = queue
    BY <1>3 DEF Advance, Cur, Finish
  <2>. QED
    BY <1>1, <2>1 DEF RecIdle
<1>. QED
  BY <1>2, <1>3

(***************************************************************************)
(* Type correctness: TypeOK holds in every reachable state.  It is        *)
(* inductive as it stands: the conjuncts that tie rec to the podsToWatch  *)
(* entry it is collecting (the entry exists and rec.i indexes its         *)
(* profiles) are the ones Advance, Finish and Track have to preserve.     *)
(***************************************************************************)
THEOREM TypeCorrect == Spec => []TypeOK
<1>1. Init => TypeOK
  BY EnricherAssumption, RecorderAssumption
  DEF Init, EnricherInit, TypeOK, EnricherTypeOK, NoIngest, IngestState, EmptyAgg,
      RecIdle, RecState, NoProfiles, NoObjects, Kinds, Phases, WatchEntry, Line
<1>2. TypeOK /\ [Next]_vars => TypeOK'
  <2> SUFFICES ASSUME TypeOK, [Next]_vars PROVE TypeOK'
    OBVIOUS
  <2> USE EnricherAssumption, RecorderAssumption
      DEF TypeOK, EnricherTypeOK, IngestState, RecState, WatchEntry, Line, Kinds, Phases,
          evars, rvars, gvars
  <2>1. CASE IngestRead
    <3>1. /\ log # << >>
          /\ log' = Tail(log)
          /\ UNCHANGED <<up, agg, rvars, gvars>>
      BY <2>1 DEF IngestRead, ReadLine
    <3>2. Head(log) \in Line /\ RecordProfile[Head(log).pod] \in Ids \cup {None}
      <4>1. Head(log) \in Line
        BY <3>1, HeadTailProperties
      <4>. QED
        BY <4>1
    <3>3. ing' \in IngestState /\ (ing'.pc # "next" => ing'.id \in Ids /\ ing'.obs \in Obs)
      <4> DEFINE l == Head(log)
                 id == RecordProfile[l.pod]
      <4>1. /\ ing.pc = "next"
            /\ \/ ing' = ing
               \/ id # None /\ ing' = [pc |-> "loaded", kind |-> l.kind, id |-> id,
                                      obs |-> l.obs, live |-> TRUE]
        BY <2>1 DEF IngestRead, ReadLine
      <4>2. CASE ing' = ing
        BY <4>1, <4>2
      <4>3. CASE id # None /\ ing' = [pc |-> "loaded", kind |-> l.kind, id |-> id,
                                       obs |-> l.obs, live |-> TRUE]
        <5>1. l.kind \in Kinds /\ l.obs \in Obs /\ id \in Ids
          BY <3>2, <4>3
        <5>. QED
          BY <4>3, <5>1
      <4>. QED
        BY <4>1, <4>2, <4>3
    <3>4. log' \in Seq(Line) /\ Len(log') <= MaxLog
      BY <3>1
    <3>. QED
      BY <3>1, <3>3, <3>4
  <2>2. CASE IngestBegin
    BY <2>2 DEF IngestBegin, BeginInsert
  <2>3. CASE IngestEnd
    BY <2>3 DEF IngestEnd, EndInsert, NoIngest
  <2>4. CASE EnricherRestart
    BY <2>4 DEF EnricherRestart, Restart, NoIngest, EmptyAgg, NoProfiles
  <2>5. CASE \E p \in Pods : Reconcile(p)
    <3>1. PICK p \in Pods : Reconcile(p)
      BY <2>5
    <3>2. /\ rec.pc = "idle"
          /\ UNCHANGED <<evars, phase, cluster, gvars>>
      BY <3>1 DEF Reconcile
    <3>3. CASE Transient /\ UNCHANGED <<queue, watch, rec>>
      BY <3>2, <3>3 DEF Transient
    <3>4. CASE /\ queue' = queue \ {p}
               /\ rec' = [rec EXCEPT !.pc = "collect", !.pod = p]
               /\ UNCHANGED <<watch, fails>>
      <4>1. rec' \in RecState /\ rec'.pc = "collect" /\ rec'.pod = p
        BY <3>4
      <4>. QED
        BY <3>2, <3>4, <4>1
    <3>5. CASE /\ queue' = queue \ {p}
               /\ UNCHANGED <<rec, fails>>
               /\ \/ UNCHANGED watch
                  \/ Track(p)
      <4>1. Track(p) => watch' \in [Pods -> WatchEntry \cup {None}]
        <5> SUFFICES ASSUME Track(p) PROVE watch' \in [Pods -> WatchEntry \cup {None}]
          OBVIOUS
        <5>1. CASE HookAnn[p] \in Ids
          <6>1. watch' = [watch EXCEPT ![p] = [recorder |-> "hook", kinds |-> <<"seccomp">>,
                                               name |-> HookAnn[p]]]
            BY <5>1 DEF Track
          <6>2. <<"seccomp">> \in Seq(Kinds) \ {<< >>}
            OBVIOUS
          <6>. QED
            BY <5>1, <6>1, <6>2
        <5>2. CASE HookAnn[p] \notin Ids
          <6>1. LogAnn[p] \in SUBSET Kinds /\ LogAnn[p] # {} /\ RecordProfile[p] \in Ids
            BY <5>2 DEF Track, NoTracking, LogInvalid
          <6>2. PICK ks \in SetToSeqs(LogAnn[p]) :
                   watch' = [watch EXCEPT ![p] = [recorder |-> "logs", kinds |-> ks,
                                                  name |-> RecordProfile[p]]]
            BY <5>2 DEF Track
          <6>3. ks \in Seq(Kinds) \ {<< >>}
            BY <6>1, SetToSeqsType
          <6>. QED
            BY <6>1, <6>2, <6>3
        <5>. QED
          BY <5>1, <5>2
      <4>2. rec.pc \notin {"idle", "collect"} => FALSE
        BY <3>2
      <4>. QED
        BY <3>2, <3>5, <4>1, <4>2
    <3>. QED
      BY <3>1, <3>3, <3>4, <3>5 DEF Reconcile
  <2>6. CASE Collect
    <3> DEFINE p == rec.pod
    <3>1. /\ rec.pc = "collect"
          /\ p \in Pods
          /\ UNCHANGED <<evars, phase, watch, cluster, gvars>>
      BY <2>6 DEF Collect
    <3>2. CASE watch[p] = None /\ rec' = RecIdle /\ UNCHANGED <<queue, fails>>
      BY <3>1, <3>2 DEF RecIdle
    <3>3. CASE /\ watch[p] # None
               /\ rec' = [rec EXCEPT !.pc = "hook", !.i = 1]
               /\ UNCHANGED <<queue, fails>>
      <4>1. rec' \in RecState /\ rec'.pc = "hook" /\ rec'.pod = p /\ rec'.i = 1
        BY <3>3
      <4>2. watch[p] \in WatchEntry /\ 1 \in 1..Len(watch[p].kinds)
        BY <3>1, <3>3
      <4>. QED
        BY <3>1, <3>3, <4>1, <4>2
    <3>4. CASE watch[p] # None /\ CollectLogs(p)
      <4>1. CASE Transient /\ Requeue(p)
        BY <3>1, <4>1 DEF Transient, Requeue, RecIdle
      <4>2. CASE Requeue(p) /\ UNCHANGED fails
        BY <3>1, <4>2 DEF Requeue, RecIdle
      <4>3. CASE rec' = [rec EXCEPT !.pc = "fetch", !.i = 1] /\ UNCHANGED <<queue, fails>>
        <5>1. rec' \in RecState /\ rec'.pc = "fetch" /\ rec'.pod = p /\ rec'.i = 1
          BY <4>3
        <5>2. watch[p] \in WatchEntry /\ 1 \in 1..Len(watch[p].kinds)
          BY <3>1, <3>4
        <5>. QED
          BY <3>1, <4>3, <5>1, <5>2
      <4>. QED
        BY <3>4, <4>1, <4>2, <4>3 DEF CollectLogs
    <3>. QED
      BY <2>6, <3>1, <3>2, <3>3, <3>4 DEF Collect
  <2>7. CASE CollectHook
    <3> DEFINE id == watch[rec.pod].name
               n == ProfileName[id]
    <3>1. /\ rec.pc = "hook"
          /\ rec.pod \in Pods
          /\ id \in Ids
          /\ n \in Names \cup {None}
          /\ UNCHANGED <<evars, phase, raced, recorded>>
      BY <2>7 DEF CollectHook
    <3>2. CASE Requeue(rec.pod) /\ UNCHANGED <<watch, cluster, published, fails>>
      BY <3>1, <3>2 DEF Requeue, RecIdle
    <3>3. CASE /\ n # None
               /\ Transient /\ Requeue(rec.pod)
               /\ ApplyHook(id, n) \/ UNCHANGED <<cluster, published>>
               /\ UNCHANGED watch
      <4>1. /\ cluster' \in [Kinds -> [Names -> SUBSET Obs]]
            /\ published' \in [Kinds -> [Ids -> SUBSET Obs]]
        <5>1. CASE ApplyHook(id, n)
          BY <3>1, <3>3, <5>1 DEF ApplyHook
        <5>2. CASE UNCHANGED <<cluster, published>>
          BY <5>2
        <5>. QED
          BY <3>3, <5>1, <5>2
      <4>. QED
        BY <3>1, <3>3, <4>1 DEF Transient, Requeue, RecIdle
    <3>4. CASE /\ n # None
               /\ ApplyHook(id, n)
               /\ Advance
               /\ UNCHANGED fails
      <4>1. RecOK(rec', watch') /\ watch' \in [Pods -> WatchEntry \cup {None}] /\ queue' = queue
        BY <3>1, <3>4, AdvanceType
      <4>2. /\ cluster' \in [Kinds -> [Names -> SUBSET Obs]]
            /\ published' \in [Kinds -> [Ids -> SUBSET Obs]]
        BY <3>1, <3>4 DEF ApplyHook
      <4>. QED
        BY <3>1, <3>4, <4>1, <4>2 DEF RecOK
    <3>. QED
      BY <2>7, <3>1, <3>2, <3>3, <3>4 DEF CollectHook, CurId, Cur, ObjectName
  <2>8. CASE Fetch
    <3> DEFINE k == watch[rec.pod].kinds[rec.i]
               id == watch[rec.pod].name
    <3>1. /\ rec.pc = "fetch"
          /\ rec.pod \in Pods
          /\ watch[rec.pod] \in WatchEntry
          /\ k \in Kinds
          /\ id \in Ids
          /\ UNCHANGED <<log, ing, agg, phase, watch, cluster, gvars>>
      BY <2>8 DEF Fetch
    <3>2. CASE Requeue(rec.pod) /\ UNCHANGED <<fails, up>>
      BY <3>1, <3>2 DEF Requeue, RecIdle
    <3>3. CASE Transient /\ Requeue(rec.pod) /\ UNCHANGED up
      BY <3>1, <3>3 DEF Transient, Requeue, RecIdle
    <3>4. CASE up' = FALSE /\ Requeue(rec.pod) /\ UNCHANGED fails
      BY <3>1, <3>4 DEF Requeue, RecIdle
    <3>5. CASE /\ rec' = [rec EXCEPT !.pc = "write", !.snap = agg[k][id]]
               /\ UNCHANGED <<queue, fails, up>>
      <4>1. agg[k][id] \subseteq Obs
        BY <3>1
      <4>2. rec' \in RecState /\ rec'.pc = "write" /\ rec'.pod = rec.pod /\ rec'.i = rec.i
        BY <3>5, <4>1
      <4>. QED
        BY <3>1, <3>5, <4>2
    <3>. QED
      BY <2>8, <3>1, <3>2, <3>3, <3>4, <3>5
      DEF Fetch, CurKind, CurId, Cur, Snapshot
  <2>9. CASE Write
    <3> DEFINE k == watch[rec.pod].kinds[rec.i]
               id == watch[rec.pod].name
    <3>1. /\ rec.pc = "write"
          /\ rec.pod \in Pods
          /\ watch[rec.pod] \in WatchEntry
          /\ k \in Kinds
          /\ id \in Ids
          /\ UNCHANGED <<evars, phase, watch, raced, recorded>>
      BY <2>9 DEF Write
    <3>2. Apply(k, id) => /\ cluster' \in [Kinds -> [Names -> SUBSET Obs]]
                         /\ published' \in [Kinds -> [Ids -> SUBSET Obs]]
      <4> SUFFICES ASSUME Apply(k, id)
                   PROVE  /\ cluster' \in [Kinds -> [Names -> SUBSET Obs]]
                          /\ published' \in [Kinds -> [Ids -> SUBSET Obs]]
        OBVIOUS
      <4>1. rec.snap \subseteq Obs /\ ProfileName[id] \in Names \cup {None}
        BY <3>1
      <4>2. /\ cluster' = [cluster EXCEPT ![k][ProfileName[id]] = rec.snap]
            /\ published' = [published EXCEPT ![k][id] = @ \cup rec.snap]
        BY DEF Apply, ObjectName
      <4>3. cluster' \in [Kinds -> [Names -> SUBSET Obs]]
        BY <3>1, <4>1, <4>2, NestedExceptType
      <4>4. published[k][id] \cup rec.snap \in SUBSET Obs
        BY <3>1, <4>1
      <4>5. published' = [published EXCEPT ![k][id] = published[k][id] \cup rec.snap]
        BY <4>2
      <4>. QED
        BY <3>1, <4>3, <4>4, <4>5, NestedExceptType
    <3>3. CASE /\ Transient /\ Requeue(rec.pod)
               /\ Apply(k, id) \/ UNCHANGED <<cluster, published>>
      BY <3>1, <3>2, <3>3 DEF Transient, Requeue, RecIdle
    <3>4. CASE Apply(k, id) /\ rec' = [rec EXCEPT !.pc = "reset"] /\ UNCHANGED <<queue, fails>>
      <4>1. rec' \in RecState /\ rec'.pc = "reset" /\ rec'.pod = rec.pod /\ rec'.i = rec.i
        BY <3>4
      <4>. QED
        BY <3>1, <3>2, <3>4, <4>1
    <3>. QED
      BY <2>9, <3>1, <3>3, <3>4 DEF Write, CurKind, CurId, Cur
  <2>10. CASE Reset
    <3> DEFINE k == watch[rec.pod].kinds[rec.i]
               id == watch[rec.pod].name
    <3>1. /\ rec.pc = "reset"
          /\ rec.pod \in Pods
          /\ k \in Kinds
          /\ id \in Ids
          /\ UNCHANGED <<log, up, phase, cluster, gvars>>
      BY <2>10 DEF Reset
    <3>2. ResetProfile(k, id) => EnricherTypeOK'
      <4> SUFFICES ASSUME ResetProfile(k, id) PROVE EnricherTypeOK'
        OBVIOUS
      <4>1. agg' \in [Kinds -> [Ids -> SUBSET Obs]]
        BY <3>1 DEF ResetProfile
      <4>2. ing' = ing \/ ing' = [ing EXCEPT !.live = FALSE]
        BY DEF ResetProfile
      <4>3. /\ [ing EXCEPT !.live = FALSE] \in IngestState
            /\ [ing EXCEPT !.live = FALSE].pc = ing.pc
            /\ [ing EXCEPT !.live = FALSE].id = ing.id
            /\ [ing EXCEPT !.live = FALSE].obs = ing.obs
        BY OrphanType
      <4>. QED
        BY <3>1, <4>1, <4>2, <4>3
    <3>3. CASE Requeue(rec.pod) /\ UNCHANGED <<fails, ing, agg, watch>>
      BY <3>1, <3>3 DEF Requeue, RecIdle
    <3>4. CASE /\ Transient /\ Requeue(rec.pod)
               /\ ResetProfile(k, id) \/ UNCHANGED <<ing, agg>>
               /\ UNCHANGED watch
      BY <3>1, <3>2, <3>4 DEF Transient, Requeue, RecIdle
    <3>5. CASE ResetProfile(k, id) /\ Advance /\ UNCHANGED fails
      <4>1. RecOK(rec', watch') /\ watch' \in [Pods -> WatchEntry \cup {None}] /\ queue' = queue
        BY <3>1, <3>5, AdvanceType
      <4>. QED
        BY <3>1, <3>2, <3>5, <4>1 DEF RecOK
    <3>. QED
      BY <2>10, <3>1, <3>3, <3>4, <3>5 DEF Reset, CurKind, CurId, Cur
  <2>11. CASE \E p \in Pods : \/ PodMove(p, {"Pending"}, "Running")
                              \/ PodMove(p, {"Running"}, "Succeeded")
                              \/ PodMove(p, {"Running"}, "Failed")
                              \/ PodMove(p, Phases \ {"Deleted"}, "Deleted")
    <3>1. PICK p \in Pods, from \in SUBSET Phases, to \in Phases :
             /\ phase' = [phase EXCEPT ![p] = to]
             /\ queue' \in {queue, queue \cup {p}}
             /\ UNCHANGED <<evars, watch, rec, cluster, fails, gvars>>
      BY <2>11 DEF PodMove, Enqueue
    <3>. QED
      BY <3>1
  <2>12. CASE \E p \in Pods, k \in Kinds, o \in Obs : Emit(p, k, o)
    <3>1. PICK p \in Pods, k \in Kinds, o \in Obs : Emit(p, k, o)
      BY <2>12
    <3>2. [pod |-> p, kind |-> k, obs |-> o] \in Line
      OBVIOUS
    <3>3. /\ Len(log) < MaxLog
          /\ log' = Append(log, [pod |-> p, kind |-> k, obs |-> o])
          /\ UNCHANGED <<up, ing, agg, rvars, gvars>>
      BY <3>1 DEF Emit, AppendLine
    <3>. QED
      BY <3>2, <3>3
  <2>13. CASE UNCHANGED vars
    BY <2>13 DEF vars, evars, rvars, gvars
  <2>. QED
    BY <2>1, <2>2, <2>3, <2>4, <2>5, <2>6, <2>7, <2>8, <2>9, <2>10, <2>11, <2>12, <2>13
    DEF Next
<1>. QED
  BY <1>1, <1>2, PTL DEF Spec


(***************************************************************************)
(* RecordedNotLost.                                                        *)
(***************************************************************************)

\* The fields of the worker's record after the updates Fetch and Write make.
LEMMA RecFields ==
  ASSUME NEW r \in RecState, NEW c, NEW s
  PROVE  /\ [r EXCEPT !.pc = c, !.snap = s].pc = c
         /\ [r EXCEPT !.pc = c, !.snap = s].pod = r.pod
         /\ [r EXCEPT !.pc = c, !.snap = s].i = r.i
         /\ [r EXCEPT !.pc = c, !.snap = s].snap = s
         /\ [r EXCEPT !.pc = c].pc = c
         /\ [r EXCEPT !.pc = c].pod = r.pod
         /\ [r EXCEPT !.pc = c].i = r.i
         /\ [r EXCEPT !.pc = c].snap = r.snap
         /\ [r EXCEPT !.pc = c, !.pod = s].pc = c
         /\ [r EXCEPT !.pc = c, !.i = s].pc = c
  BY DEF RecState

\* Past collect, the worker's profile has a kind and an id.
LEMMA CurType ==
  ASSUME TypeOK, rec.pc \notin {"idle", "collect"}
  PROVE  CurKind \in Kinds /\ CurId \in Ids
  BY DEF TypeOK, WatchEntry, CurKind, CurId, Cur

\* Advance never leaves the worker between a fetch and a reset.
LEMMA AdvancePc ==
  ASSUME TypeOK, rec.pc \in {"hook", "reset"}, Advance
  PROVE  rec'.pc \in {"hook", "fetch", "idle"}
<1>1. CASE rec.i < Len(Cur.kinds)
  <2>1. rec' = [rec EXCEPT !.pc = IF Cur.recorder = "hook" THEN "hook" ELSE "fetch",
                           !.i = @ + 1]
    BY <1>1 DEF Advance
  <2>. QED
    BY <2>1 DEF TypeOK, RecState
<1>2. CASE ~(rec.i < Len(Cur.kinds))
  BY <1>2 DEF Advance, Finish, RecIdle
<1>. QED
  BY <1>1, <1>2

(***************************************************************************)
(* The facts RecordedNotLost rests on.  While the worker is between the    *)
(* fetch of a profile and its reset, the set of that profile holds only    *)
(* what the fetch returned and what the ingest goroutine inserted since;   *)
(* once the write succeeded, what the fetch returned is published.  A      *)
(* Reset of the set then loses nothing that is not published or raced.     *)
(***************************************************************************)
WindowOK ==
    /\ rec.pc \in {"write", "reset"} =>
           agg[CurKind][CurId] \subseteq rec.snap \cup raced[CurKind][CurId]
    /\ rec.pc = "reset" => rec.snap \subseteq published[CurKind][CurId]

\* Emptying the set of a profile in the reset state keeps every recording.
LEMMA EmptyingKeeps ==
  ASSUME NEW R, NEW A, NEW P, NEW Q, NEW S,
         R \subseteq A \cup P \cup Q, A \subseteq S \cup Q, S \subseteq P
  PROVE  R \subseteq P \cup Q
  OBVIOUS

\* Adding to one set of a history variable keeps every set it held.
LEMMA GrowKeeps ==
  ASSUME NEW f \in [Kinds -> [Ids -> SUBSET Obs]], NEW a \in Kinds, NEW b \in Ids, NEW S
  PROVE  \A k \in Kinds, id \in Ids : f[k][id] \subseteq [f EXCEPT ![a][b] = @ \cup S][k][id]
  OBVIOUS

(***************************************************************************)
(* Between two well-typed states, a step keeps RecordedNotLost and         *)
(* WindowOK.  The steps that change the sets are the insert (IngestEnd),   *)
(* the restart, the write (which publishes) and the reset (which empties); *)
(* every other step leaves the sets alone and the worker outside the       *)
(* window, or leaves both the sets and the worker alone.                   *)
(***************************************************************************)
LEMMA WindowStep ==
  ASSUME TypeOK, TypeOK', RecordedNotLost, WindowOK, [Next]_vars
  PROVE  RecordedNotLost' /\ WindowOK'
<1>1. CASE UNCHANGED <<agg, rec, watch, published, raced, recorded>>
  BY <1>1 DEF RecordedNotLost, WindowOK, CurKind, CurId, Cur
<1>2. CASE /\ UNCHANGED <<agg, published, raced, recorded>>
           /\ rec'.pc \notin {"write", "reset"}
  BY <1>2 DEF RecordedNotLost, WindowOK
<1>3. CASE IngestEnd
  <2>1. /\ ing.pc = "writing"
        /\ ing.kind \in Kinds /\ ing.id \in Ids /\ ing.obs \in Obs
        /\ UNCHANGED <<rec, watch, published>>
    BY <1>3 DEF IngestEnd, EndInsert, TypeOK, EnricherTypeOK, IngestState, rvars
  <2>2. CASE ~ing.live
    BY <1>1, <2>1, <2>2, <1>3 DEF IngestEnd, EndInsert
  <2>3. CASE ing.live
    <3> DEFINE k0 == ing.kind
               i0 == ing.id
               o == ing.obs
    <3>1. /\ agg' = [agg EXCEPT ![k0][i0] = @ \cup {o}]
          /\ recorded' = [recorded EXCEPT ![k0][i0] = @ \cup {o}]
          /\ raced' = IF InWindow(k0, i0)
                      THEN [raced EXCEPT ![k0][i0] = @ \cup {o}]
                      ELSE raced
      BY <1>3, <2>3 DEF IngestEnd, EndInsert
    <3>2. RecordedNotLost'
      <4> SUFFICES ASSUME NEW k \in Kinds, NEW id \in Ids
                   PROVE  recorded'[k][id] \subseteq agg'[k][id] \cup published'[k][id] \cup raced'[k][id]
        BY DEF RecordedNotLost
      <4>1. raced[k][id] \subseteq raced'[k][id]
        BY <2>1, <3>1, GrowKeeps DEF TypeOK
      <4>2. CASE k = k0 /\ id = i0
        <5>1. recorded \in [Kinds -> [Ids -> SUBSET Obs]] /\ agg \in [Kinds -> [Ids -> SUBSET Obs]]
          BY DEF TypeOK, EnricherTypeOK
        <5>2. recorded'[k][id] = recorded[k][id] \cup {o}
          BY <2>1, <3>1, <4>2, <5>1
        <5>3. agg'[k][id] = agg[k][id] \cup {o}
          BY <2>1, <3>1, <4>2, <5>1
        <5>. QED
          BY <2>1, <4>1, <5>2, <5>3 DEF RecordedNotLost
      <4>3. CASE ~(k = k0 /\ id = i0)
        <5>1. /\ recorded'[k][id] = recorded[k][id]
              /\ agg'[k][id] = agg[k][id]
          BY <2>1, <3>1, <4>3 DEF TypeOK
        <5>. QED
          BY <2>1, <4>1, <5>1 DEF RecordedNotLost
      <4>. QED
        BY <4>2, <4>3
    <3>3. WindowOK'
      <4> SUFFICES ASSUME rec.pc \in {"write", "reset"}
                   PROVE  /\ agg'[CurKind][CurId] \subseteq rec.snap \cup raced'[CurKind][CurId]
                          /\ rec.pc = "reset" => rec.snap \subseteq published[CurKind][CurId]
        BY <2>1 DEF WindowOK, CurKind, CurId, Cur
      <4>1. CurKind \in Kinds /\ CurId \in Ids
        BY CurType
      <4>2. CASE k0 = CurKind /\ i0 = CurId
        <5>1. InWindow(k0, i0)
          BY <4>2 DEF InWindow
        <5>. QED
          BY <2>1, <3>1, <4>1, <4>2, <5>1 DEF WindowOK, TypeOK
      <4>3. CASE ~(k0 = CurKind /\ i0 = CurId)
        <5>1. raced[CurKind][CurId] \subseteq raced'[CurKind][CurId]
          BY <2>1, <3>1, <4>1, GrowKeeps DEF TypeOK
        <5>. QED
          BY <2>1, <3>1, <4>1, <4>3, <5>1 DEF WindowOK, TypeOK
      <4>. QED
        BY <4>2, <4>3
    <3>. QED
      BY <3>2, <3>3
  <2>. QED
    BY <2>2, <2>3
<1>4. CASE EnricherRestart
  <2>1. /\ agg' = EmptyAgg /\ recorded' = NoProfiles
        /\ UNCHANGED <<rec, watch, published, raced>>
    BY <1>4 DEF EnricherRestart, Restart, rvars
  <2>2. RecordedNotLost'
    BY <2>1 DEF RecordedNotLost, NoProfiles
  <2>3. WindowOK'
    <3> SUFFICES ASSUME rec.pc \in {"write", "reset"}
                 PROVE  /\ agg'[CurKind][CurId] \subseteq rec.snap \cup raced'[CurKind][CurId]
                        /\ rec.pc = "reset" => rec.snap \subseteq published[CurKind][CurId]
      BY <2>1 DEF WindowOK, CurKind, CurId, Cur
    <3>1. CurKind \in Kinds /\ CurId \in Ids
      BY CurType
    <3>. QED
      BY <2>1, <3>1 DEF WindowOK, EmptyAgg
  <2>. QED
    BY <2>2, <2>3
<1>5. CASE \E p \in Pods : Reconcile(p)
  <2>1. PICK p \in Pods : Reconcile(p)
    BY <1>5
  <2>2. \/ rec' = rec
        \/ rec' = [rec EXCEPT !.pc = "collect", !.pod = p]
    BY <2>1 DEF Reconcile
  <2>3. rec.pc = "idle" /\ rec \in RecState
    BY <2>1 DEF Reconcile, TypeOK
  <2>4. rec'.pc \notin {"write", "reset"}
    <3>1. CASE rec' = rec
      BY <2>3, <3>1
    <3>2. CASE rec' = [rec EXCEPT !.pc = "collect", !.pod = p]
      <4>1. [rec EXCEPT !.pc = "collect", !.pod = p].pc = "collect"
        BY <2>3, RecFields
      <4>. QED
        BY <3>2, <4>1
    <3>. QED
      BY <2>2, <3>1, <3>2
  <2>. QED
    BY <1>2, <2>1, <2>4 DEF Reconcile, evars, gvars
<1>6. CASE Collect
  <2>1. rec.pc = "collect" /\ rec \in RecState
    BY <1>6 DEF Collect, TypeOK
  <2>2. \/ rec' = RecIdle
        \/ rec' = [rec EXCEPT !.pc = "hook", !.i = 1]
        \/ rec' = [rec EXCEPT !.pc = "fetch", !.i = 1]
    BY <1>6 DEF Collect, CollectLogs, Requeue
  <2>3. /\ [rec EXCEPT !.pc = "hook", !.i = 1].pc = "hook"
        /\ [rec EXCEPT !.pc = "fetch", !.i = 1].pc = "fetch"
    BY <2>1, RecFields
  <2>4. rec'.pc \notin {"write", "reset"}
    <3>1. RecIdle.pc = "idle"
      BY DEF RecIdle
    <3>. QED
      BY <2>2, <2>3, <3>1, Zenon
  <2>. QED
    BY <1>2, <1>6, <2>4 DEF Collect, evars, gvars
<1>7. CASE CollectHook
  <2>1. rec.pc = "hook" /\ CurId \in Ids
    BY <1>7, CurType DEF CollectHook
  <2>2. UNCHANGED <<agg, raced, recorded>>
    BY <1>7 DEF CollectHook, evars
  <2>3. \/ published' = published
        \/ published' = [published EXCEPT !["seccomp"][CurId] = @ \cup HookFile[CurId]]
    BY <1>7 DEF CollectHook, ApplyHook
  <2>4. \A k \in Kinds, id \in Ids : published[k][id] \subseteq published'[k][id]
    <3>1. "seccomp" \in Kinds /\ published \in [Kinds -> [Ids -> SUBSET Obs]]
      BY DEF Kinds, TypeOK
    <3>. QED
      BY <2>1, <2>3, <3>1, GrowKeeps
  <2>5. rec'.pc \notin {"write", "reset"}
    <3>1. CASE Advance
      BY <2>1, <3>1, AdvancePc
    <3>2. CASE rec' = RecIdle
      BY <3>2 DEF RecIdle
    <3>. QED
      BY <1>7, <3>1, <3>2 DEF CollectHook, Requeue
  <2>. QED
    BY <2>2, <2>4, <2>5 DEF RecordedNotLost, WindowOK
<1>8. CASE Fetch
  <2>1. rec.pc = "fetch" /\ rec \in RecState
    BY <1>8 DEF Fetch, TypeOK
  <2>2. /\ UNCHANGED <<agg, watch, published, raced, recorded>>
        /\ \/ rec' = RecIdle
           \/ rec' = [rec EXCEPT !.pc = "write", !.snap = agg[CurKind][CurId]]
    BY <1>8 DEF Fetch, Requeue, Snapshot, gvars
  <2>3. CASE rec' = RecIdle
    <3>1. rec'.pc = "idle"
      BY <2>3 DEF RecIdle
    <3>. QED
      BY <1>2, <2>2, <3>1
  <2>4. CASE rec' = [rec EXCEPT !.pc = "write", !.snap = agg[CurKind][CurId]]
    <3>1. /\ rec'.pc = "write" /\ rec'.pod = rec.pod /\ rec'.i = rec.i
          /\ rec'.snap = agg[CurKind][CurId]
      BY <2>1, <2>4, RecFields
    <3>2. CurKind' = CurKind /\ CurId' = CurId
      BY <2>2, <3>1 DEF CurKind, CurId, Cur
    <3>. QED
      BY <2>2, <3>1, <3>2 DEF RecordedNotLost, WindowOK
  <2>. QED
    BY <2>2, <2>3, <2>4
<1>9. CASE Write
  <2>1. /\ rec.pc = "write" /\ rec \in RecState
        /\ CurKind \in Kinds /\ CurId \in Ids
        /\ published \in [Kinds -> [Ids -> SUBSET Obs]]
    BY <1>9, CurType DEF Write, TypeOK
  <2>2. UNCHANGED <<agg, watch, raced, recorded>>
    BY <1>9 DEF Write, evars
  <2>3. CASE Transient /\ Requeue(rec.pod)
                 /\ (Apply(CurKind, CurId) \/ UNCHANGED <<cluster, published>>)
    <3>1. \A k \in Kinds, id \in Ids : published[k][id] \subseteq published'[k][id]
      BY <2>1, <2>3, GrowKeeps DEF Apply
    <3>2. rec'.pc = "idle"
      BY <2>3 DEF Requeue, RecIdle
    <3>. QED
      BY <2>2, <3>1, <3>2 DEF RecordedNotLost, WindowOK
  <2>4. CASE Apply(CurKind, CurId) /\ rec' = [rec EXCEPT !.pc = "reset"]
    <3>1. published' = [published EXCEPT ![CurKind][CurId] = @ \cup rec.snap]
      BY <2>4 DEF Apply
    <3>2. \A k \in Kinds, id \in Ids : published[k][id] \subseteq published'[k][id]
      BY <2>1, <3>1, GrowKeeps
    <3>3. rec.snap \subseteq published'[CurKind][CurId]
      BY <2>1, <3>1
    <3>4. rec'.pc = "reset" /\ rec'.pod = rec.pod /\ rec'.i = rec.i /\ rec'.snap = rec.snap
      BY <2>1, <2>4, RecFields
    <3>5. CurKind' = CurKind /\ CurId' = CurId
      BY <2>2, <3>4 DEF CurKind, CurId, Cur
    <3>6. RecordedNotLost'
      BY <2>2, <3>2 DEF RecordedNotLost
    <3>7. agg[CurKind][CurId] \subseteq rec.snap \cup raced[CurKind][CurId]
      BY <2>1 DEF WindowOK
    <3>. QED
      BY <2>2, <3>3, <3>4, <3>5, <3>6, <3>7 DEF WindowOK
  <2>. QED
    BY <1>9, <2>3, <2>4 DEF Write
<1>10. CASE Reset
  <2>1. /\ rec.pc = "reset"
        /\ CurKind \in Kinds /\ CurId \in Ids
        /\ agg \in [Kinds -> [Ids -> SUBSET Obs]]
    BY <1>10, CurType DEF Reset, TypeOK, EnricherTypeOK
  <2>2. UNCHANGED <<published, raced, recorded>>
    BY <1>10 DEF Reset, gvars
  <2>3. \/ agg' = agg
        \/ agg' = [agg EXCEPT ![CurKind][CurId] = {}]
    BY <1>10 DEF Reset, ResetProfile
  <2>4. rec'.pc \notin {"write", "reset"}
    <3>1. CASE Advance
      BY <2>1, <3>1, AdvancePc
    <3>2. CASE rec' = RecIdle
      BY <3>2 DEF RecIdle
    <3>. QED
      BY <1>10, <3>1, <3>2 DEF Reset, Requeue
  <2>5. RecordedNotLost'
    <3> SUFFICES ASSUME NEW k \in Kinds, NEW id \in Ids
                 PROVE  recorded'[k][id] \subseteq agg'[k][id] \cup published'[k][id] \cup raced'[k][id]
      BY DEF RecordedNotLost
    <3>1. CASE agg'[k][id] = agg[k][id]
      BY <2>2, <3>1 DEF RecordedNotLost
    <3>2. CASE agg'[k][id] # agg[k][id]
      <4>1. k = CurKind /\ id = CurId
        BY <2>1, <2>3, <3>2
      <4>2. /\ recorded[k][id] \subseteq agg[k][id] \cup published[k][id] \cup raced[k][id]
            /\ agg[k][id] \subseteq rec.snap \cup raced[k][id]
            /\ rec.snap \subseteq published[k][id]
        BY <2>1, <4>1 DEF RecordedNotLost, WindowOK
      <4>. QED
        BY <2>2, <4>2, EmptyingKeeps
    <3>. QED
      BY <3>1, <3>2
  <2>. QED
    BY <2>4, <2>5 DEF WindowOK
<1>11. CASE IngestRead \/ IngestBegin
  BY <1>1, <1>11 DEF IngestRead, ReadLine, IngestBegin, BeginInsert, rvars, gvars
<1>12. CASE \E p \in Pods : \E from, to : PodMove(p, from, to)
  BY <1>1, <1>12 DEF PodMove, evars, gvars
<1>13. CASE \E p \in Pods, k \in Kinds, o \in Obs : Emit(p, k, o)
  BY <1>1, <1>13 DEF Emit, AppendLine, rvars, gvars
<1>14. CASE UNCHANGED vars
  BY <1>1, <1>14 DEF vars, evars, rvars, gvars
<1>. QED
  <2>1. ASSUME NEW p \in Pods,
               \/ PodMove(p, {"Pending"}, "Running")
               \/ PodMove(p, {"Running"}, "Succeeded")
               \/ PodMove(p, {"Running"}, "Failed")
               \/ PodMove(p, Phases \ {"Deleted"}, "Deleted")
        PROVE  \E from, to : PodMove(p, from, to)
    BY <2>1
  <2>. QED
    BY <1>3, <1>4, <1>5, <1>6, <1>7, <1>8, <1>9, <1>10, <1>11, <1>12, <1>13, <1>14, <2>1
    DEF Next

(***************************************************************************)
(* No observation is lost unpublished: RecordedNotLost holds in every     *)
(* reachable state, for every number of pods, ids, observations and       *)
(* failures.  The order fetch, CreateOrUpdate, Reset of                    *)
(* collectLogSeccompProfile and collectLogSelinuxProfile is what makes it  *)
(* hold.  RecordedNotLost alone is not inductive: a Reset empties a set,   *)
(* and only WindowOK says that what the set held was published or raced.  *)
(* TypeOK, established by TypeCorrect, gives the two states of a step     *)
(* their types.                                                            *)
(***************************************************************************)
THEOREM RecordsKept == Spec => []RecordedNotLost
<1>1. Init => RecordedNotLost /\ WindowOK
  BY DEF Init, EnricherInit, RecordedNotLost, WindowOK, NoProfiles, RecIdle
<1>2. TypeOK /\ TypeOK' /\ RecordedNotLost /\ WindowOK /\ [Next]_vars
        => (RecordedNotLost /\ WindowOK)'
  BY WindowStep
<1>. QED
  BY <1>1, <1>2, TypeCorrect, PTL DEF Spec
=============================================================================
