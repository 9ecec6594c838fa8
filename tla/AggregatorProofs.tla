--------------------------- MODULE AggregatorProofs ---------------------------
(***************************************************************************)
(* Proof that the enricher, driven by the recorder, implements the         *)
(* aggregator of module Aggregator under the refinement mapping of         *)
(* RecorderAggregator, for every value of the constants.                   *)
(***************************************************************************)
EXTENDS RecorderAggregator, RecorderProofs

(***************************************************************************)
(* The line the ingest goroutine holds is one dispatchSeccompLine accepts: *)
(* Run skips an unknown syscall before LoadOrStore.  Without this, the     *)
(* end of the insert could record what the aggregator never records.      *)
(***************************************************************************)
InFlightRecordable ==
    ing.pc # "next" => (ing.kind = "seccomp" => ing.obs \notin UnknownSyscalls)

RInv == TypeOK /\ InFlightRecordable

\* Every attributed line is a record of the aggregator.
LEMMA AttributeType ==
  ASSUME NEW l \in Line
  PROVE  Attribute(l) \in AG!Attributed
BY EnricherAssumption DEF Attribute, Line, AG!Attributed, AG!Kinds, Kinds

LEMMA AttributedLogType ==
  ASSUME NEW s \in Seq(Line)
  PROVE  /\ AttributedLog(s) \in Seq(AG!Attributed)
         /\ Len(AttributedLog(s)) = Len(s)
<1>1. \A i \in 1..Len(s) : Attribute(s[i]) \in AG!Attributed
  BY AttributeType
<1>. QED
  BY <1>1 DEF AttributedLog

\* Reading the oldest line of the log consumes the oldest record.
LEMMA AttributedTail ==
  ASSUME NEW s \in Seq(Line), s # << >>
  PROVE  /\ AttributedLog(s) # << >>
         /\ Head(AttributedLog(s)) = Attribute(Head(s))
         /\ Tail(AttributedLog(s)) = AttributedLog(Tail(s))
         /\ << Attribute(Head(s)) >> \o AttributedLog(Tail(s)) = AttributedLog(s)
<1>1. AttributedLog(s) \in Seq(AG!Attributed) /\ Len(AttributedLog(s)) = Len(s)
  BY AttributedLogType
<1>2. Tail(s) \in Seq(Line) /\ Len(Tail(s)) = Len(s) - 1
  BY HeadTailProperties
<1>3. AttributedLog(Tail(s)) \in Seq(AG!Attributed)
  BY <1>2, AttributedLogType
<1>4. Tail(AttributedLog(s)) = AttributedLog(Tail(s))
  BY <1>1, <1>2 DEF AttributedLog
<1>5. << Attribute(Head(s)) >> \o AttributedLog(Tail(s)) = AttributedLog(s)
  BY <1>1, <1>2, <1>3 DEF AttributedLog
<1>. QED
  BY <1>1, <1>4, <1>5 DEF AttributedLog

\* A line appended to the log is a record appended to the backlog.
LEMMA AttributedAppend ==
  ASSUME NEW s \in Seq(Line), NEW l \in Line
  PROVE  AttributedLog(Append(s, l)) = Append(AttributedLog(s), Attribute(l))
BY AppendProperties DEF AttributedLog

\* The record the ingest goroutine holds.
Held == [kind |-> ing.kind, id |-> ing.id, obs |-> ing.obs]

\* The backlog as the ingest goroutine's state makes it.
LEMMA PendingShape ==
  ASSUME TypeOK
  PROVE  /\ AttributedLog(log) \in Seq(AG!Attributed)
         /\ InFlight \in Seq(AG!Attributed)
         /\ Pending \in Seq(AG!Attributed)
         /\ ing.pc = "next" => Pending = AttributedLog(log)
         /\ ing.pc # "next" =>
               /\ Held \in AG!Attributed
               /\ Pending # << >>
               /\ Head(Pending) = Held
               /\ Tail(Pending) = AttributedLog(log)
<1>1. AttributedLog(log) \in Seq(AG!Attributed)
  BY AttributedLogType DEF TypeOK, EnricherTypeOK
<1>2. ing.pc # "next" => Held \in AG!Attributed
  BY DEF TypeOK, EnricherTypeOK, IngestState, Held, AG!Attributed, AG!Kinds, Kinds
<1>3. InFlight \in Seq(AG!Attributed)
  BY <1>2 DEF InFlight, Held
<1>4. ing.pc = "next" => Pending = AttributedLog(log)
  <2>1. ing.pc = "next" => InFlight = << >>
    BY DEF InFlight
  <2>. QED
    BY <1>1, <2>1, ConcatEmptySeq DEF Pending
<1>5. ing.pc # "next" =>
         /\ Pending # << >>
         /\ Head(Pending) = Held
         /\ Tail(Pending) = AttributedLog(log)
  <2>. SUFFICES ASSUME ing.pc # "next"
                PROVE  /\ Pending # << >>
                       /\ Head(Pending) = Held
                       /\ Tail(Pending) = AttributedLog(log)
    OBVIOUS
  <2>1. Pending = << Held >> \o AttributedLog(log)
    BY DEF Pending, InFlight, Held
  <2>2. << Held >> \in Seq(AG!Attributed)
    BY <1>2
  <2>3. /\ Pending \in Seq(AG!Attributed)
        /\ Len(Pending) = 1 + Len(AttributedLog(log))
        /\ Pending[1] = Held
        /\ \A i \in 1..Len(AttributedLog(log)) : Pending[i + 1] = AttributedLog(log)[i]
    BY <1>1, <2>1, <2>2, ConcatProperties
  <2>4. Pending # << >>
    BY <1>1, <2>3, EmptySeq
  <2>5. /\ Tail(Pending) \in Seq(AG!Attributed)
        /\ Len(Tail(Pending)) = Len(AttributedLog(log))
        /\ \A i \in 1..Len(AttributedLog(log)) : Tail(Pending)[i] = AttributedLog(log)[i]
    BY <1>1, <2>3, <2>4, HeadTailProperties
  <2>6. Tail(Pending) = AttributedLog(log)
    BY <1>1, <2>5, SeqEqual
  <2>. QED
    BY <2>3, <2>4, <2>6 DEF Head
<1>. QED
  BY <1>1, <1>2, <1>3, <1>4, <1>5, ConcatProperties DEF Pending
\* Deleting the set under the ingest goroutine leaves the line it holds.
LEMMA OrphanHeld ==
  ASSUME NEW r \in IngestState
  PROVE  LET o == [r EXCEPT !.live = FALSE]
         IN  o.pc = r.pc /\ o.kind = r.kind /\ o.id = r.id /\ o.obs = r.obs
BY DEF IngestState

\* Only ReadLine loads a line, and it skips an unknown syscall first.
LEMMA RecordableStep ==
  ASSUME TypeOK, InFlightRecordable, [Next]_vars
  PROVE  InFlightRecordable'
<1>. USE DEF InFlightRecordable
<1>1. CASE IngestRead
  BY <1>1 DEF IngestRead, ReadLine
<1>2. CASE IngestBegin
  BY <1>2 DEF IngestBegin, BeginInsert, TypeOK, EnricherTypeOK, IngestState
<1>3. CASE IngestEnd
  BY <1>3 DEF IngestEnd, EndInsert, NoIngest
<1>4. CASE EnricherRestart
  BY <1>4 DEF EnricherRestart, Restart, NoIngest
<1>5. CASE Reset
  <2>1. ing' = ing \/ ing' = [ing EXCEPT !.live = FALSE]
    BY <1>5 DEF Reset, ResetProfile
  <2>. QED
    BY <2>1, OrphanHeld DEF TypeOK, EnricherTypeOK
<1>6. CASE UNCHANGED ing
  BY <1>6
<1>. QED
  BY <1>1, <1>2, <1>3, <1>4, <1>5, <1>6
     DEF Next, vars, evars, Reconcile, Collect, CollectHook, Fetch, Write,
         PodMove, Emit, AppendLine

(***************************************************************************)
(* The strengthening the refinement rests on holds in every reachable      *)
(* state.                                                                  *)
(***************************************************************************)
THEOREM RecordableInvariant == Spec => []RInv
<1>1. Init => InFlightRecordable
  BY DEF Init, EnricherInit, NoIngest, InFlightRecordable
<1>2. TypeOK /\ InFlightRecordable /\ [Next]_vars => InFlightRecordable'
  BY RecordableStep
<1>. QED
  BY <1>1, <1>2, TypeCorrect, PTL DEF Spec, RInv
(***************************************************************************)
(* Steps of the refinement: each action of the enricher, with the         *)
(* recorder and the pods around it, against the aggregator.                *)
(***************************************************************************)

\* A step that leaves the enricher alone leaves the aggregator alone.
LEMMA QuietStep ==
  ASSUME UNCHANGED evars
  PROVE  UNCHANGED AG!avars
BY DEF evars, AG!avars, Pending, InFlight, AttributedLog, Attribute

\* ReadLine consumes the oldest record: a drop, or the start of its insert.
LEMMA ReadStep ==
  ASSUME TypeOK, IngestRead
  PROVE  AG!Ingest \/ UNCHANGED AG!avars
<1>. DEFINE l == Head(log)
            Loaded == [pc |-> "loaded", kind |-> l.kind, id |-> RecordProfile[l.pod],
                       obs |-> l.obs, live |-> TRUE]
<1>1. /\ up /\ ing.pc = "next" /\ log # << >> /\ log' = Tail(log)
      /\ UNCHANGED <<up, agg>>
      /\ ing' = ing \/ ing' = Loaded
  BY DEF IngestRead, ReadLine
<1>2. /\ log \in Seq(Line)
      /\ Pending = AttributedLog(log)
  BY <1>1, PendingShape DEF TypeOK, EnricherTypeOK
<1>3. /\ Pending # << >>
      /\ Tail(Pending) = AttributedLog(Tail(log))
      /\ << Attribute(l) >> \o AttributedLog(Tail(log)) = Pending
  BY <1>1, <1>2, AttributedTail
<1>4. CASE ing' = ing
  <2>1. Pending' = AttributedLog(Tail(log))
    BY <1>1, <1>4 DEF Pending, InFlight
  <2>. QED
    BY <1>1, <1>3, <2>1 DEF AG!Ingest
<1>5. CASE ing' = Loaded
  <2>1. InFlight' = << Attribute(l) >>
    BY <1>5 DEF InFlight, Attribute
  <2>2. Pending' = Pending
    BY <1>1, <1>3, <2>1 DEF Pending
  <2>. QED
    BY <1>1, <2>2 DEF AG!avars
<1>. QED
  BY <1>1, <1>4, <1>5

\* BeginInsert changes where the goroutine is, not what it holds.
LEMMA BeginStep ==
  ASSUME TypeOK, IngestBegin
  PROVE  UNCHANGED AG!avars
<1>1. InFlight' = InFlight
  BY DEF IngestBegin, BeginInsert, InFlight, TypeOK, EnricherTypeOK, IngestState
<1>. QED
  BY <1>1 DEF IngestBegin, BeginInsert, AG!avars, Pending

\* The end of the insert is the atomic insert of the aggregator, or a drop
\* when a reset deleted the set meanwhile.
LEMMA EndStep ==
  ASSUME TypeOK, InFlightRecordable, IngestEnd
  PROVE  AG!Ingest
<1>1. /\ up /\ ing.pc = "writing" /\ ing' = NoIngest /\ UNCHANGED <<log, up>>
      /\ agg' = IF ing.live
                THEN [agg EXCEPT ![ing.kind][ing.id] = @ \cup {ing.obs}]
                ELSE agg
  BY DEF IngestEnd, EndInsert
<1>2. /\ Pending # << >>
      /\ Head(Pending) = Held
      /\ Tail(Pending) = AttributedLog(log)
  BY <1>1, PendingShape
<1>3. Pending' = AttributedLog(log)
  <2>1. InFlight' = << >>
    BY <1>1 DEF InFlight, NoIngest
  <2>. QED
    BY <1>1, <2>1, PendingShape, ConcatEmptySeq DEF Pending
<1>4. AG!Recordable(Held)
  BY <1>1, EnricherAssumption
     DEF AG!Recordable, Held, InFlightRecordable, TypeOK, EnricherTypeOK
<1>5. CASE ing.live
  <2>1. agg' = [agg EXCEPT ![Held.kind][Held.id] = @ \cup {Held.obs}]
    BY <1>1, <1>5 DEF Held
  <2>. QED
    BY <1>1, <1>2, <1>3, <1>4, <2>1 DEF AG!Ingest
<1>6. CASE ~ing.live
  BY <1>1, <1>2, <1>3, <1>6 DEF AG!Ingest
<1>. QED
  BY <1>5, <1>6
\* The kubelet's restart is Start: empty sets and nothing pending.
LEMMA RestartStep ==
  ASSUME EnricherRestart
  PROVE  AG!Start
<1>1. /\ ~up /\ up' = TRUE /\ log' = << >> /\ ing' = NoIngest /\ agg' = EmptyAgg
  BY DEF EnricherRestart, Restart
<1>2. Pending' = << >>
  <2>1. InFlight' = << >> /\ AttributedLog(log') = << >>
    BY <1>1 DEF InFlight, NoIngest, AttributedLog
  <2>. QED
    BY <2>1 DEF Pending
<1>. QED
  BY <1>1, <1>2 DEF AG!Start, AG!NoSets, AG!Kinds, EmptyAgg, Kinds

\* A fetch leaves the sets alone, or crashes the process (Stop).
LEMMA FetchStep ==
  ASSUME Fetch
  PROVE  AG!Stop \/ UNCHANGED AG!avars
<1>1. UNCHANGED <<log, ing, agg>> /\ (up' = up \/ (up /\ up' = FALSE))
  BY DEF Fetch
<1>2. Pending' = Pending
  BY <1>1 DEF Pending, InFlight, AttributedLog, Attribute
<1>. QED
  BY <1>1, <1>2 DEF AG!Stop, AG!avars

\* ResetSyscalls / ResetAvcs of the profile being collected is Reset.
LEMMA ResetStep ==
  ASSUME TypeOK, Reset
  PROVE  (\E k \in AG!Kinds, id \in Ids : AG!Reset(k, id)) \/ UNCHANGED AG!avars
<1>1. CurKind \in Kinds /\ CurId \in Ids
  BY CurType DEF Reset
<1>2. UNCHANGED <<log, up>>
  BY DEF Reset
<1>3. \/ UNCHANGED <<ing, agg>>
      \/ up /\ ResetProfile(CurKind, CurId)
  BY DEF Reset
<1>4. CASE UNCHANGED <<ing, agg>>
  BY <1>2, <1>4, QuietStep DEF evars
<1>5. CASE up /\ ResetProfile(CurKind, CurId)
  <2>1. ing' = ing \/ ing' = [ing EXCEPT !.live = FALSE]
    BY <1>5 DEF ResetProfile
  <2>2. InFlight' = InFlight
    BY <2>1, OrphanHeld DEF InFlight, TypeOK, EnricherTypeOK
  <2>3. Pending' = Pending
    BY <1>2, <2>2 DEF Pending, AttributedLog, Attribute
  <2>4. AG!Reset(CurKind, CurId)
    BY <1>2, <1>5, <2>3 DEF AG!Reset, ResetProfile
  <2>. QED
    BY <1>1, <2>4 DEF AG!Kinds, Kinds
<1>. QED
  BY <1>3, <1>4, <1>5

\* A process's audit record is Observe of its attribution.
LEMMA EmitStep ==
  ASSUME TypeOK, NEW p \in Pods, NEW k \in Kinds, NEW o \in Obs, Emit(p, k, o)
  PROVE  \E r \in AG!Attributed : AG!Observe(r)
<1>. DEFINE l == [pod |-> p, kind |-> k, obs |-> o]
<1>1. l \in Line
  BY DEF Line
<1>2. log' = Append(log, l) /\ UNCHANGED <<ing, agg, up>>
  BY DEF Emit, AppendLine
<1>3. /\ log \in Seq(Line)
      /\ AttributedLog(log) \in Seq(AG!Attributed)
      /\ InFlight \in Seq(AG!Attributed)
      /\ Attribute(l) \in AG!Attributed
  BY <1>1, PendingShape, AttributeType DEF TypeOK, EnricherTypeOK
<1>4. Pending' = InFlight \o Append(AttributedLog(log), Attribute(l))
  <2>1. InFlight' = InFlight
    BY <1>2 DEF InFlight
  <2>. QED
    BY <1>1, <1>2, <1>3, <2>1, AttributedAppend DEF Pending
<1>5. Pending' = Append(Pending, Attribute(l))
  <2>1. << Attribute(l) >> \in Seq(AG!Attributed)
    BY <1>3
  <2>2. Append(AttributedLog(log), Attribute(l)) = AttributedLog(log) \o << Attribute(l) >>
    BY <1>3, AppendIsConcat
  <2>3. Append(Pending, Attribute(l)) = Pending \o << Attribute(l) >>
    BY <1>3, PendingShape, AppendIsConcat
  <2>. QED
    BY <1>3, <1>4, <2>1, <2>2, <2>3, ConcatAssociative DEF Pending
<1>. QED
  BY <1>2, <1>3, <1>5 DEF AG!Observe
\* Every step of the system is a step of the aggregator or a stutter of it.
LEMMA RefineStep ==
  ASSUME RInv, [Next]_vars
  PROVE  [AG!Next]_AG!avars
<1>. USE DEF RInv
<1>1. CASE IngestRead
  BY <1>1, ReadStep DEF AG!Next
<1>2. CASE IngestBegin
  BY <1>2, BeginStep
<1>3. CASE IngestEnd
  BY <1>3, EndStep DEF AG!Next
<1>4. CASE EnricherRestart
  BY <1>4, RestartStep DEF AG!Next
<1>5. CASE Fetch
  BY <1>5, FetchStep DEF AG!Next
<1>6. CASE Reset
  BY <1>6, ResetStep DEF AG!Next
<1>7. CASE \E p \in Pods, k \in Kinds, o \in Obs : Emit(p, k, o)
  BY <1>7, EmitStep DEF AG!Next
<1>8. CASE UNCHANGED evars
  BY <1>8, QuietStep
<1>. QED
  BY <1>1, <1>2, <1>3, <1>4, <1>5, <1>6, <1>7, <1>8
     DEF Next, vars, Reconcile, Collect, CollectHook, Write, PodMove

(***************************************************************************)
(* The enricher implements the aggregator (the property                    *)
(* ImplementsAggregator): the unlocked two-step insert of Run and the      *)
(* deletes of ResetSyscalls / ResetAvcs are, seen from the RPCs, atomic    *)
(* per key; a reset empties only the set it names; a line goes only into   *)
(* the set of its own pod's profile, in log order; an unknown syscall is   *)
(* never recorded; a restart starts from empty sets.                       *)
(***************************************************************************)
THEOREM Refinement == Spec => ImplementsAggregator
<1>1. Init => AG!Init
  <2>. SUFFICES ASSUME Init PROVE AG!Init
    OBVIOUS
  <2>1. Pending = << >>
    BY DEF Init, EnricherInit, Pending, InFlight, NoIngest, AttributedLog
  <2>. QED
    BY <2>1 DEF Init, EnricherInit, AG!Init, AG!NoSets, AG!Kinds, EmptyAgg, Kinds
<1>2. RInv /\ [Next]_vars => [AG!Next]_AG!avars
  BY RefineStep
<1>. QED
  BY <1>1, <1>2, RecordableInvariant, PTL DEF Spec, ImplementsAggregator, AG!Spec
====
