-------------------------- MODULE RecorderAggregator --------------------------
(***************************************************************************)
(* The enricher, driven by the recorder's RPCs, implements the aggregator *)
(* of module Aggregator.  The refinement mapping:                         *)
(*   - a line still in the audit log is the pending record of its pod's    *)
(*     profile id (RecordProfile, what getContainerInfo returns);         *)
(*   - the line the ingest goroutine holds between LoadOrStore and the end *)
(*     of Insert is still pending, ahead of the log: its record happens    *)
(*     when the Insert ends, and a reset that deleted the set meanwhile    *)
(*     makes it a dropped record;                                          *)
(*   - the sets are agg, and the process is up.                            *)
(***************************************************************************)
EXTENDS Recorder

\* The record a line becomes once attributed to its container.
Attribute(l) == [kind |-> l.kind, id |-> RecordProfile[l.pod], obs |-> l.obs]

\* The line the ingest goroutine has loaded and not yet inserted.
InFlight ==
    IF ing.pc = "next" THEN << >>
    ELSE << [kind |-> ing.kind, id |-> ing.id, obs |-> ing.obs] >>

\* The lines of a log as attributed records.
AttributedLog(s) == [i \in 1..Len(s) |-> Attribute(s[i])]

Pending == InFlight \o AttributedLog(log)

AG == INSTANCE Aggregator WITH pending <- Pending, store <- agg, up <- up

(***************************************************************************)
(* Every step of the enricher is a step of the aggregator or leaves it     *)
(* unchanged: the unlocked two-step insert of Run and the delete of        *)
(* ResetSyscalls / ResetAvcs are, seen from the RPCs, atomic per key; a    *)
(* reset empties only the set it names; a line is recorded into the set   *)
(* of its own pod's profile, in log order, and an unknown syscall never.   *)
(***************************************************************************)
ImplementsAggregator == AG!Spec

=============================================================================
