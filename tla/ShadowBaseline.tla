--------------------------- MODULE ShadowBaseline ---------------------------
(***************************************************************************)
(* The owner-signed lineage of shadow baselines: shadow_baseline.py and    *)
(* the commands of shadow_baseline_cli.py, run by several processes on     *)
(* shared files, for one owner key, one sealed replay and one claim        *)
(* directory.  A candidate stands for its id with its scorecard and        *)
(* receipt, and a digest for the content it covers.  The command "propose" *)
(* writes what Proposable allows and changes nothing else, so a proposal   *)
(* is represented by its content wherever a command reads one.             *)
(***************************************************************************)
EXTENDS Naturals, Sequences, FiniteSets, SuccessorClaim

CONSTANTS
    Candidate,      \* candidate ids
    Approver,       \* identities the owner signs for
    NoApprover,     \* a seed has none
    Passing,        \* pairs <<baseline, candidate>> with a passed regression report
    MaxLineage,     \* _MAX_LINEAGE
    MaxApprovals    \* bound: signatures the owner gives

ASSUME PassingAssumption ==
    Passing \subseteq {p \in Candidate \X Candidate : p[1] # p[2]}
ASSUME LimitsAssumption == MaxLineage \in Nat /\ MaxApprovals \in Nat

VARIABLES
    approvals,      \* files: the owner's signatures
    published       \* files: the lineages written by "apply"

vars == <<approvals, published, claims, stage, request>>

-----------------------------------------------------------------------------
(* Artifacts.  The empty lineage stands for the digest of no predecessor.  *)

NoLineage == <<>>
Entry     == [candidate : Candidate, approver : Approver \cup {NoApprover}]
Proposal  == [baseline : Candidate, candidate : Candidate, previous : Seq(Entry)]
Approval  == [proposal : Proposal, approver : Approver]
Request   == [key : Seq(Entry), value : Seq(Entry)]

NoRequest == [key |-> NoLineage, value |-> NoLineage]

Seed(c)    == [candidate |-> c, approver |-> NoApprover]
HeadOf(l)  == l[Len(l)].candidate
Holds(l, c) == \E i \in DOMAIN l : l[i].candidate = c

\* Mutant: the first advance is checked against the seed as a snapshot.
SnapshotBefore(l, i) == SubSeq(l, 1, i - 1)

\* The lineage that the advance at position i was signed against.
Before(l, i) == IF i = 2 THEN NoLineage ELSE SubSeq(l, 1, i - 1)

\* The signature that the advance at position i must carry.
SignatureOf(l, i) ==
    [proposal |-> [baseline |-> l[i - 1].candidate, candidate |-> l[i].candidate,
                   previous |-> Before(l, i)],
     approver |-> l[i].approver]

\* verify_shadow_baseline_lineage: a seed, no candidate twice, and every
\* advance signed by the owner.
Verified(l) ==
    /\ Len(l) >= 2
    /\ \A i, j \in DOMAIN l : l[i].candidate = l[j].candidate => i = j
    /\ l[1].approver = NoApprover
    /\ \A i \in 2..Len(l) : SignatureOf(l, i) \in approvals

\* build_shadow_baseline_proposal: the report passed, its baseline is the head
\* of the lineage, and the candidate is new to it.
Proposable(p) ==
    /\ <<p.baseline, p.candidate>> \in Passing
    /\ p.previous # NoLineage =>
        /\ p.previous \in published
        /\ Verified(p.previous)
        /\ HeadOf(p.previous) = p.baseline
        /\ ~Holds(p.previous, p.candidate)

\* The lineage that "apply" makes of a signed proposal.
Successor(a) ==
    Append(IF a.proposal.previous = NoLineage THEN <<Seed(a.proposal.baseline)>>
                                              ELSE a.proposal.previous,
           [candidate |-> a.proposal.candidate, approver |-> a.approver])

-----------------------------------------------------------------------------
Init ==
    /\ approvals = {} /\ published = {}
    /\ ClaimInit(NoRequest)

\* The owner signs a proposal together with the approver's identity.
Approve(p, approver) ==
    /\ Proposable(p)
    /\ Cardinality(approvals) < MaxApprovals
    /\ approvals' = approvals \cup {[proposal |-> p, approver |-> approver]}
    /\ UNCHANGED <<published, claims, stage, request>>

\* Mutant: the limit is tested before the entry is appended.
ApplyPastLimit(w, a) ==
    /\ a \in approvals /\ Proposable(a.proposal)
    /\ Len(a.proposal.previous) =< MaxLineage
    /\ Verified(Successor(a))
    /\ RequestClaim(w, a.proposal.previous, Successor(a))
    /\ UNCHANGED <<approvals, published>>

\* "apply" rebuilds the proposal from the evidence and the lineage, verifies
\* the signature and the lineage it makes, then asks for the claim.
Apply(w, a) ==
    /\ a \in approvals /\ Proposable(a.proposal)
    /\ Len(Successor(a)) =< MaxLineage
    /\ Verified(Successor(a))
    /\ RequestClaim(w, a.proposal.previous, Successor(a))
    /\ UNCHANGED <<approvals, published>>

Claim(w) == (CheckClaim(w) \/ LinkClaim(w)) /\ UNCHANGED <<approvals, published>>

\* The lineage is written only after its claim.
Publish(w) ==
    /\ stage[w] = "claimed"
    /\ published' = published \cup {request[w].value}
    /\ Leave(w, NoRequest)
    /\ UNCHANGED approvals

\* A fork is reported.
Reject(w) == stage[w] = "rejected" /\ Leave(w, NoRequest) /\ UNCHANGED <<approvals, published>>

\* The process dies, or finds its output file taken.
Die(w) == stage[w] # "idle" /\ Leave(w, NoRequest) /\ UNCHANGED <<approvals, published>>

\* The proposals that can be on file: their lineage is a published one.
Proposed == [baseline : Candidate, candidate : Candidate, previous : published \cup {NoLineage}]

Run(w) == Claim(w) \/ Publish(w) \/ Reject(w)

Next ==
    \/ \E p \in Proposed, approver \in Approver : Approve(p, approver)
    \/ \E w \in Writer : (\E a \in approvals : Apply(w, a)) \/ Run(w) \/ Die(w)

Spec == Init /\ [][Next]_vars

\* The operator runs "apply" again for a claimed lineage of length n, until no
\* run of it is interrupted.
Again(n) ==
    \E w \in Writer, a \in approvals :
        /\ Len(Successor(a)) = n
        /\ [key |-> a.proposal.previous, value |-> Successor(a)] \in claims
        /\ Apply(w, a)

\* The process works for the lineage of length n that is already claimed.
Resumes(n, w) == request[w] \in claims /\ Len(request[w].value) = n

FairSpec ==
    /\ Spec
    /\ \A w \in Writer : WF_vars(Run(w))
    /\ \A n \in 2..MaxLineage :
        /\ SF_vars(Again(n))
        /\ SF_vars(\E w \in Writer : Resumes(n, w) /\ Claim(w))
        /\ SF_vars(\E w \in Writer : Resumes(n, w) /\ Publish(w))

-----------------------------------------------------------------------------
(* Properties.                                                             *)

TypeOK ==
    /\ approvals \subseteq Approval
    /\ published \subseteq Seq(Entry)
    /\ \A l \in published : Len(l) \in 2..MaxLineage
    /\ claims \subseteq Request
    /\ stage \in [Writer -> Stages]
    /\ request \in [Writer -> Request]

Prefix(l, m) == Len(l) =< Len(m) /\ \A i \in DOMAIN l : l[i] = m[i]

\* However many processes apply whichever approvals, and whenever they die,
\* the published lineages are snapshots of one history: no two of them
\* disagree about the baseline at a position or about who approved it
\* (the claim of shadow_baseline_cli.py:102 before the publication).
OneHistory == \A l, m \in published : Prefix(l, m) \/ Prefix(m, l)

\* Every published lineage verifies for ever: each advance was signed by the owner
\* against exactly the history before it (shadow_baseline.py:292-332).  And the
\* lineage made of a signed and still acceptable proposal passes the verification at
\* the end of apply (288): what that rebuilds from the entries is what was signed.
LineagesVerify ==
    /\ \A l \in published : Verified(l)
    /\ \A a \in approvals : Proposable(a.proposal) => Verified(Successor(a))

\* The candidates of the longest claimed lineage are an append-only history
\* without repetition: claims are never replaced, only extended.
LongestClaim == CHOOSE c \in claims : \A d \in claims : Len(d.value) =< Len(c.value)
Claimed == IF claims = {} THEN NoLineage ELSE LongestClaim.value
ClaimedCandidates == [i \in DOMAIN Claimed |-> Claimed[i].candidate]
History == INSTANCE BaselineHistory WITH history <- ClaimedCandidates
ImplementsHistory == History!Spec

\* A claimed successor whose publication was interrupted can be resumed: if the
\* operator keeps applying it, it is published, whatever other processes do
\* (docs/SHADOW_BASELINE_LINEAGE.md: the same claim is idempotent).
ClaimsArePublished ==
    \A n \in 2..MaxLineage :
        (\E c \in claims : Len(c.value) = n) ~> (\E l \in published : Len(l) = n)
=============================================================================
