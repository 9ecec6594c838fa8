----------------------------- MODULE MCRecorder -----------------------------
(***************************************************************************)
(* A node with two pods: pod a records a seccomp and an SELinux profile    *)
(* through the log enricher under id i1; pod b records a seccomp profile   *)
(* through the OCI hook into file h1.  Observation o2 is both a syscall id *)
(* without a name and an AVC whose target context is malformed.  The two  *)
(* ids name the profile objects n1 and n2.                                  *)
(***************************************************************************)
EXTENDS RecorderAggregator

CONSTANTS a, b, i1, h1, o1, o2, n1, n2

MCRecordProfile == (a :> i1) @@ (b :> None)
MCHookAnn == (a :> "none") @@ (b :> h1)
MCLogAnn == (a :> Kinds) @@ (b :> {})
MCHookFile == [id \in {i1, h1} |-> {o1}]
MCProfileName == (i1 :> n1) @@ (h1 :> n2)

\* i1 has no "-": extractProfileName fails on it.
MCProfileNameMalformed == (i1 :> None) @@ (h1 :> n2)

=============================================================================
