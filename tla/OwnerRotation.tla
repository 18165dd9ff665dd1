---------------------------- MODULE OwnerRotation ----------------------------
(***************************************************************************)
(* The hand-over of the owner key: owner_rotation.py and the commands of   *)
(* owner_rotation_cli.py, beside the advances of the baseline lineage it   *)
(* hands over (ShadowBaseline).  The current owner signs a proposal that   *)
(* binds a lineage and the next owner, the next owner counter-signs, and   *)
(* "checkpoint" claims the lineage for that hand-over and writes it.  The  *)
(* claims have a directory of their own; a hand-over activates nothing, so *)
(* lineages go on being advanced by the current owner.                     *)
(***************************************************************************)
EXTENDS ShadowBaseline

CONSTANTS
    Heir,           \* keys the owner may hand over to, other than its own
    Rotator,        \* processes that run "checkpoint"
    Budgets         \* bounds, [reports, advances, handoffs, writers]: passed reports that
                    \* are used, signatures the owner gives, processes that advance at once

ASSUME BudgetsAssumption ==
    Budgets \subseteq [reports : SUBSET Passing, advances : Nat, handoffs : Nat, writers : Nat]

VARIABLES
    handoffs,       \* files: hand-overs signed by the current owner
    acceptances,    \* files: the same, counter-signed by the next owner
    checkpoints,    \* files: the hand-overs written by "checkpoint"
    taken,          \* disk: claim files, [key |-> lineage, value |-> hand-over]
    at,             \* where each process is
    wanted,         \* the claim each process wants to record
    budget          \* the bounds of this run; never changes

handovers    == <<handoffs, acceptances, checkpoints, taken, at, wanted>>
rotationVars == <<vars, handovers, budget>>

Rotation == INSTANCE SuccessorClaim WITH
    Writer <- Rotator, claims <- taken, stage <- at, request <- wanted

\* A proposal is the lineage and the next owner; the signatures add who gave them.
Handoff    == [lineage : Seq(Entry), heir : Heir, approver : Approver]
Acceptance == [handoff : Handoff, accepter : Approver]
RotationRequest == [key : Seq(Entry), value : Acceptance]

\* build_owner_rotation_proposal: the lineage verifies with the current key.
Rotatable(l) == l \in published /\ Verified(l)

-----------------------------------------------------------------------------
RotationInit ==
    /\ Init
    /\ handoffs = {} /\ acceptances = {} /\ checkpoints = {}
    /\ Rotation!ClaimInit(NoRequest)
    /\ budget \in Budgets

\* A step of ShadowBaseline.
Advance ==
    /\ Next
    /\ Cardinality(approvals') =< budget.advances
    /\ \A x \in approvals' : <<x.proposal.baseline, x.proposal.candidate>> \in budget.reports
    /\ Cardinality({w \in Writer : stage'[w] # "idle"}) =< budget.writers
    /\ UNCHANGED <<handovers, budget>>

\* The current owner signs the proposal of a hand-over.
ApproveRotation(l, heir, approver) ==
    /\ Rotatable(l)
    /\ Cardinality(handoffs) < budget.handoffs
    /\ handoffs' = handoffs \cup {[lineage |-> l, heir |-> heir, approver |-> approver]}
    /\ UNCHANGED <<vars, acceptances, checkpoints, taken, at, wanted, budget>>

\* The next owner signs the proposal and the approval of the current owner.
Accept(h, accepter) ==
    /\ acceptances' = acceptances \cup {[handoff |-> h, accepter |-> accepter]}
    /\ UNCHANGED <<vars, handoffs, checkpoints, taken, at, wanted, budget>>

\* Mutant: the lineage handed to "checkpoint" is not compared with the proposal's.
CheckpointOfAny(w, a) ==
    /\ \E l \in published : Rotatable(l) /\ Rotation!RequestClaim(w, l, a)
    /\ UNCHANGED <<vars, handoffs, acceptances, checkpoints, budget>>

\* "checkpoint" rebuilds the proposal from the lineage, verifies both signatures,
\* then asks for the claim.
Checkpoint(w, a) ==
    /\ Rotatable(a.handoff.lineage)
    /\ Rotation!RequestClaim(w, a.handoff.lineage, a)
    /\ UNCHANGED <<vars, handoffs, acceptances, checkpoints, budget>>

ClaimRotation(w) ==
    /\ Rotation!CheckClaim(w) \/ Rotation!LinkClaim(w)
    /\ UNCHANGED <<vars, handoffs, acceptances, checkpoints, budget>>

\* The checkpoint is written only after its claim.
WriteCheckpoint(w) ==
    /\ at[w] = "claimed"
    /\ checkpoints' = checkpoints \cup {wanted[w].value}
    /\ Rotation!Leave(w, NoRequest)
    /\ UNCHANGED <<vars, handoffs, acceptances, budget>>

\* A different claim is reported.
RejectRotation(w) ==
    /\ at[w] = "rejected"
    /\ Rotation!Leave(w, NoRequest)
    /\ UNCHANGED <<vars, handoffs, acceptances, checkpoints, budget>>

\* The process dies, or finds its output file taken.
DieInRotation(w) ==
    /\ at[w] # "idle"
    /\ Rotation!Leave(w, NoRequest)
    /\ UNCHANGED <<vars, handoffs, acceptances, checkpoints, budget>>

RunRotation(w) == ClaimRotation(w) \/ WriteCheckpoint(w) \/ RejectRotation(w)

RotationNext ==
    \/ Advance
    \/ \E l \in published, heir \in Heir, approver \in Approver : ApproveRotation(l, heir, approver)
    \/ \E h \in handoffs, accepter \in Approver : Accept(h, accepter)
    \/ \E w \in Rotator :
        \/ \E a \in acceptances : Checkpoint(w, a)
        \/ RunRotation(w) \/ DieInRotation(w)

RotationSpec == RotationInit /\ [][RotationNext]_rotationVars

\* The fairness of FairSpec, of the processes that advance lineages.
FairRotationSpec ==
    /\ RotationSpec
    /\ \A w \in Writer : WF_vars(Run(w))
    /\ \A n \in 2..MaxLineage :
        /\ SF_vars(Again(n))
        /\ SF_vars(\E w \in Writer : Resumes(n, w) /\ Claim(w))
        /\ SF_vars(\E w \in Writer : Resumes(n, w) /\ Publish(w))

-----------------------------------------------------------------------------
(* Properties.                                                              *)

\* Types, those of the lineages included.
RotationTypeOK ==
    /\ TypeOK
    /\ handoffs \subseteq Handoff
    /\ acceptances \subseteq Acceptance /\ checkpoints \subseteq Acceptance
    /\ taken \subseteq RotationRequest
    /\ at \in [Rotator -> Stages]
    /\ wanted \in [Rotator -> RotationRequest \cup {NoRequest}]
    /\ budget \in Budgets

\* However many processes write checkpoints of whichever hand-overs, and whenever they
\* die, a lineage is handed over once: to one next owner, by one pair of signatures.
\* Every checkpoint on file still passes its verification (owner_rotation.py:336-389):
\* both have signed it, and its lineage verifies (docs/OWNER_KEY_ROTATION.md:66).
OneHandover ==
    /\ \A c, d \in checkpoints : c.handoff.lineage = d.handoff.lineage => c = d
    /\ \A c \in checkpoints :
        c \in acceptances /\ c.handoff \in handoffs /\ Rotatable(c.handoff.lineage)
=============================================================================
