----------------------------- MODULE Aggregator -----------------------------
(***************************************************************************)
(* The aggregator the enricher promises: for each profile kind and id a    *)
(* set, changed only by operations that are atomic per key.  recordSyscall *)
(* and recordAvc insert the observation of the next attributed audit       *)
(* record into the set of its profile; ResetSyscalls and ResetAvcs empty   *)
(* the set they name and no other; Syscalls and Avcs read a set and change *)
(* nothing.  Records are consumed in the order they were produced; one may *)
(* be dropped (a per-line recoverable error), and an unknown syscall or an *)
(* empty profile id is never recorded.  The process may stop and is        *)
(* restarted with empty sets and no backlog: nothing is persisted.         *)
(***************************************************************************)
EXTENDS Naturals, Sequences

CONSTANTS
    Ids,             \* profile ids
    Obs,             \* syscall names and AVC records
    UnknownSyscalls, \* syscall ids with no name
    None             \* the empty profile id

Kinds == {"seccomp", "selinux"}

\* An audit record attributed to the profile id of its container.
Attributed == [kind: Kinds, id: Ids \cup {None}, obs: Obs]

VARIABLES
    pending, \* the attributed records not yet consumed, oldest first
    store,   \* store[k][id]: the set of profile id for kind k
    up       \* the process is running

avars == <<pending, store, up>>

NoSets == [k \in Kinds |-> [id \in Ids |-> {}]]

Init ==
    /\ pending = << >>
    /\ store = NoSets
    /\ up = TRUE

\* A process of a container produces an audit record.
Observe(r) ==
    /\ pending' = Append(pending, r)
    /\ UNCHANGED <<store, up>>

\* The records the dispatch may insert: a named syscall or an AVC, of a
\* container that records a profile.
Recordable(r) ==
    /\ r.id # None
    /\ r.kind = "seccomp" => r.obs \notin UnknownSyscalls

\* The oldest record is consumed: recorded into its set in one step, or
\* dropped.
Ingest ==
    /\ up
    /\ pending # << >>
    /\ pending' = Tail(pending)
    /\ LET r == Head(pending) IN
       \/ /\ Recordable(r)
          /\ store' = [store EXCEPT ![r.kind][r.id] = @ \cup {r.obs}]
       \/ UNCHANGED store
    /\ UNCHANGED up

\* ResetSyscalls / ResetAvcs: the named set, and only it, is emptied.
Reset(k, id) ==
    /\ up
    /\ store' = [store EXCEPT ![k][id] = {}]
    /\ UNCHANGED <<pending, up>>

Stop ==
    /\ up
    /\ up' = FALSE
    /\ UNCHANGED <<pending, store>>

Start ==
    /\ ~up
    /\ up' = TRUE
    /\ pending' = << >>
    /\ store' = NoSets

Next ==
    \/ \E r \in Attributed : Observe(r)
    \/ Ingest
    \/ \E k \in Kinds, id \in Ids : Reset(k, id)
    \/ Stop
    \/ Start

Spec == Init /\ [][Next]_avars

=============================================================================
