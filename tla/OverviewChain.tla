--------------------------- MODULE OverviewChain ---------------------------
(***************************************************************************)
(* What the store of an Opportunity Overview promises its readers: a chain *)
(* of versions that only grows, that starts once, that never loses a piece *)
(* of evidence from one version to the next, and that may be retired as a  *)
(* whole while it still consists of its first version.                     *)
(*                                                                         *)
(* OverviewStore, which writes files and can die between any two writes,   *)
(* implements this specification.                                          *)
(***************************************************************************)
EXTENDS Naturals, Sequences

CONSTANTS Evidence,        \* what a version can cite
          Contents         \* the contents it can have, 0 for "not cited"

VARIABLES chain,           \* the committed versions, oldest first
          retired          \* whether the overview is withheld for good

cvars == <<chain, retired>>

\* The pieces of evidence a version cites.
Cited(m) == {e \in DOMAIN m : m[e] # 0}

ChainInit == chain = <<>> /\ retired = FALSE

\* The first version.
CreateVersion(m) ==
  /\ chain = <<>> /\ ~retired
  /\ chain' = <<m>>
  /\ UNCHANGED retired

\* A later version inherits what its predecessor cites.
UpdateVersion(m) ==
  /\ chain # <<>> /\ ~retired
  /\ Cited(chain[Len(chain)]) \subseteq Cited(m)
  /\ chain' = Append(chain, m)
  /\ UNCHANGED retired

RetireChain ==
  /\ Len(chain) = 1 /\ ~retired
  /\ retired' = TRUE
  /\ UNCHANGED chain

ChainNext ==
  \/ \E m \in [Evidence -> Contents] : CreateVersion(m) \/ UpdateVersion(m)
  \/ RetireChain

ChainSpec == ChainInit /\ [][ChainNext]_cvars
=============================================================================
