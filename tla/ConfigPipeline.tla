--------------------------- MODULE ConfigPipeline ---------------------------
(***************************************************************************)
(* What the deployment pipeline promises the components it configures,    *)
(* with files, scripts and crashes abstracted away.  A deployment is       *)
(* named by its PubSub address.                                            *)
(*                                                                         *)
(*  published   the deployment contract_deploy_info.json describes, or     *)
(*              None while there is none (missing or being rewritten);     *)
(*  configured  the deployment the components' configs agree on, None     *)
(*              before any, or Mixed while they disagree or are unreadable; *)
(*  reported    the deployments whose revoker was sent a revocation.       *)
(*                                                                         *)
(* The configs only ever come to agree on the deployment published at that *)
(* moment, and a revocation only goes to the published deployment.         *)
(***************************************************************************)
EXTENDS Integers, Sequences

None == 0
Mixed == -1

VARIABLES published, configured, reported

vars == <<published, configured, reported>>

Init ==
    /\ published = None
    /\ configured = None
    /\ reported = <<>>

\* A new deployment is published.
Publish ==
    /\ published' \in Nat \ {None}
    /\ UNCHANGED <<configured, reported>>

\* The description is withdrawn while it is rewritten.
Withdraw ==
    /\ published' = None
    /\ UNCHANGED <<configured, reported>>

\* The configs are rewritten from the published description: they disagree
\* part way, and agree on it once the rewrite is through.
Configure ==
    /\ published # None
    /\ configured' \in {Mixed, published}
    /\ UNCHANGED <<published, reported>>

\* A revocation is sent to the revoker of the published deployment.
Report ==
    /\ published # None
    /\ reported' = Append(reported, published)
    /\ UNCHANGED <<published, configured>>

Next == Publish \/ Withdraw \/ Configure \/ Report

Spec == Init /\ [][Next]_vars

=============================================================================
