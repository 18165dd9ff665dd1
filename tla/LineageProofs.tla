---------------------------- MODULE LineageProofs ----------------------------
(***************************************************************************)
(* Theorems of ShadowBaseline, and of OwnerRotation, which hands its       *)
(* lineages over.                                                          *)
(*                                                                         *)
(* The published lineages are snapshots of one history, they verify, and   *)
(* the claim files implement BaselineHistory.  The invariant says that the *)
(* claims form a chain: each claim extends another one, and every proper   *)
(* prefix of a claimed lineage has a claim, so a fork would have to use a  *)
(* name that is taken.                                                     *)
(*                                                                         *)
(* Hand-overs leave the lineages to ShadowBaseline, and a lineage is       *)
(* handed over once.  That invariant ties every claim, request and         *)
(* checkpoint to a counter-signed hand-over of the lineage the claim is    *)
(* named after, and a name is given once.                                  *)
(***************************************************************************)
EXTENDS OwnerRotation, SequenceTheorems, TLAPS

\* A claim, or a request for one, extends a published lineage by one advance
\* that the owner signed.
Signed(r) ==
    /\ Verified(r.value)
    /\ Len(r.value) =< MaxLineage
    /\ r.key = Before(r.value, Len(r.value))
    /\ r.key # NoLineage => r.key \in published

Typing ==
    /\ approvals \subseteq Approval
    /\ published \subseteq Seq(Entry)
    /\ claims \subseteq Request
    /\ stage \in [Writer -> Stages]
    /\ request \in [Writer -> Request]

Requests         == \A w \in Writer : stage[w] # "idle" => Signed(request[w])
Recorded         == \A w \in Writer : stage[w] = "claimed" => request[w] \in claims
ClaimsSigned     == \A c \in claims : Signed(c)
PublishedClaimed == \A l \in published : \E c \in claims : c.value = l
OneSuccessor     == \A c, d \in claims : c.key = d.key => c = d
Closed           == \A c \in claims : \A n \in 2..Len(c.value) :
                        \E d \in claims : d.key = Before(c.value, n)
OneChain         == \A c, d \in claims : Prefix(c.value, d.value) \/ Prefix(d.value, c.value)

IInv ==
    /\ Typing /\ Requests /\ Recorded /\ ClaimsSigned /\ PublishedClaimed
    /\ OneSuccessor /\ Closed /\ OneChain

-----------------------------------------------------------------------------
(* Lineages.                                                               *)

\* A proper prefix of a lineage, as Before takes it.
LEMMA BeforeProperties ==
    ASSUME NEW l \in Seq(Entry), NEW n \in 2..Len(l)
    PROVE  /\ Before(l, n) \in Seq(Entry)
           /\ n # 2 => /\ Len(Before(l, n)) = n - 1
                       /\ \A i \in 1..(n - 1) : Before(l, n)[i] = l[i]
           /\ n = 2 => Before(l, n) = <<>>
<1>1. CASE n = 2  BY <1>1 DEF Before, NoLineage
<1>2. CASE n # 2
    <2>1. SubSeq(l, 1, n - 1) \in Seq(Entry) /\ Len(SubSeq(l, 1, n - 1)) = n - 1
        BY <1>2, SubSeqProperties
    <2>2. \A i \in 1..(n - 1) : SubSeq(l, 1, n - 1)[i] = l[i]
        BY <1>2, SubSeqProperties
    <2> QED BY <1>2, <2>1, <2>2 DEF Before
<1> QED BY <1>1, <1>2

\* Two lineages with the same entries are the same.
LEMMA SameLineage ==
    ASSUME NEW l \in Seq(Entry), NEW m \in Seq(Entry),
           Len(l) = Len(m), \A i \in 1..Len(l) : l[i] = m[i]
    PROVE  l = m
BY SeqEqual

\* The lineage before the last entry.
LEMMA BeforeLast ==
    ASSUME NEW k \in Seq(Entry), NEW s \in Seq(Entry), Len(k) >= 2,
           Len(s) = Len(k) + 1, \A i \in 1..Len(k) : s[i] = k[i]
    PROVE  Before(s, Len(s)) = k
<1>1. Len(k) \in Nat /\ Len(s) \in Nat  OBVIOUS
<1>2. Len(s) \in 2..Len(s) /\ Len(s) # 2 /\ Len(s) - 1 = Len(k)  BY <1>1
<1>3. /\ Before(s, Len(s)) \in Seq(Entry)
      /\ Len(Before(s, Len(s))) = Len(s) - 1
      /\ \A i \in 1..(Len(s) - 1) : Before(s, Len(s))[i] = s[i]
    BY <1>2, BeforeProperties
<1>4. \A i \in 1..Len(Before(s, Len(s))) : Before(s, Len(s))[i] = k[i]
    BY <1>2, <1>3
<1>5. Len(Before(s, Len(s))) = Len(k)  BY <1>2, <1>3
<1> HIDE DEF Before
<1> QED BY <1>3, <1>4, <1>5, SameLineage

\* The entries of a sequence and the one appended to it.
LEMMA Appended ==
    ASSUME NEW b \in Seq(Entry), NEW e \in Entry, NEW s, s = Append(b, e)
    PROVE  /\ s \in Seq(Entry) /\ Len(s) = Len(b) + 1
           /\ \A i \in 1..Len(b) : s[i] = b[i]
           /\ s[Len(b) + 1] = e
BY AppendProperties

\* Lineages that agree have the same lineages before their common entries.
LEMMA SamePrefix ==
    ASSUME NEW k \in Seq(Entry), NEW s \in Seq(Entry), Len(s) = Len(k) + 1,
           \A i \in 1..Len(k) : s[i] = k[i], NEW n \in 2..Len(k)
    PROVE  Before(s, n) = Before(k, n)
<1>1. CASE n = 2  BY <1>1 DEF Before
<1>2. CASE n # 2
    <2>1. n \in 2..Len(s)  OBVIOUS
    <2>2. /\ Before(k, n) \in Seq(Entry) /\ Len(Before(k, n)) = n - 1
          /\ \A i \in 1..(n - 1) : Before(k, n)[i] = k[i]
        BY <1>2, BeforeProperties
    <2>3. /\ Before(s, n) \in Seq(Entry) /\ Len(Before(s, n)) = n - 1
          /\ \A i \in 1..(n - 1) : Before(s, n)[i] = s[i]
        BY <1>2, <2>1, BeforeProperties
    <2>4. \A i \in 1..(n - 1) : Before(s, n)[i] = Before(k, n)[i]
        BY <2>2, <2>3
    <2> QED BY <2>2, <2>3, <2>4, SameLineage
<1> QED BY <1>1, <1>2

\* Only the first advance has no lineage before it.
LEMMA FirstAdvance ==
    ASSUME NEW l \in Seq(Entry), Len(l) >= 2, Before(l, Len(l)) = <<>>
    PROVE  Len(l) = 2
<1> SUFFICES ASSUME Len(l) # 2 PROVE FALSE  OBVIOUS
<1>1. Len(l) \in 2..Len(l)  OBVIOUS
<1>2. Len(Before(l, Len(l))) = Len(l) - 1  BY <1>1, BeforeProperties
<1>3. Len(Before(l, Len(l))) = 0  OBVIOUS
<1> QED BY <1>2, <1>3

\* The lineage made of an approval, and the claim that goes with it.
LEMMA SuccessorProperties ==
    ASSUME NEW a \in Approval, a.proposal.previous # NoLineage => Len(a.proposal.previous) >= 2
    PROVE  /\ Successor(a) \in Seq(Entry)
           /\ Len(Successor(a)) >= 2
           /\ a.proposal.previous = Before(Successor(a), Len(Successor(a)))
<1> DEFINE k == a.proposal.previous
           b == IF k = NoLineage THEN <<Seed(a.proposal.baseline)>> ELSE k
           e == [candidate |-> a.proposal.candidate, approver |-> a.approver]
<1>1. k \in Seq(Entry) /\ e \in Entry /\ Seed(a.proposal.baseline) \in Entry
    BY DEF Approval, Proposal, Entry, Seed
<1>2. b \in Seq(Entry) /\ (k = NoLineage => Len(b) = 1) /\ (k # NoLineage => b = k)
    BY <1>1
<1>3. Successor(a) = Append(b, e)  BY DEF Successor, b
<1> HIDE DEF b, e
<1>4. /\ Successor(a) \in Seq(Entry) /\ Len(Successor(a)) = Len(b) + 1
      /\ \A i \in 1..Len(b) : Successor(a)[i] = b[i]
    BY <1>1, <1>2, <1>3, AppendProperties
<1>5. CASE k = NoLineage
    <2>1. Len(b) = 1  BY <1>2, <1>5
    <2>2. Len(Successor(a)) = 2  BY <1>4, <2>1
    <2>3. Before(Successor(a), Len(Successor(a))) = NoLineage  BY <2>2, Zenon DEF Before
    <2>4. Len(Successor(a)) >= 2  BY <2>2
    <2> QED BY <1>4, <1>5, <2>3, <2>4, Zenon
<1>6. CASE k # NoLineage
    <2>1. Len(k) >= 2 /\ b = k  BY <1>2, <1>6
    <2>2. Before(Successor(a), Len(Successor(a))) = k
        BY <1>1, <1>4, <2>1, BeforeLast
    <2> QED BY <1>1, <1>4, <2>1, <2>2
<1> QED BY <1>5, <1>6

-----------------------------------------------------------------------------
(* Signatures and publications are never withdrawn.                        *)

\* A lineage that verifies goes on verifying.
LEMMA VerifiedLasts ==
    ASSUME NEW l, Verified(l), approvals \subseteq approvals'
    PROVE  Verified(l)'
BY DEF Verified, SignatureOf, Before, NoLineage

\* A claim goes on being one that the owner signed.
LEMMA SignedLasts ==
    ASSUME NEW r, Signed(r), approvals \subseteq approvals', published \subseteq published'
    PROVE  Signed(r)'
BY VerifiedLasts DEF Signed, Before, NoLineage

\* While the claims stay, what is said of them stays.
LEMMA ClaimsLast ==
    ASSUME IInv, UNCHANGED claims, approvals \subseteq approvals', published \subseteq published'
    PROVE  /\ ClaimsSigned' /\ OneSuccessor' /\ Closed' /\ OneChain'
           /\ claims' \subseteq Request
<1>1. ClaimsSigned'  BY SignedLasts DEF IInv, ClaimsSigned
<1>2. OneSuccessor' /\ claims' \subseteq Request  BY DEF IInv, OneSuccessor, Typing
<1>3. Closed'  BY DEF IInv, Closed, Before, NoLineage
<1>4. OneChain'  BY DEF IInv, OneChain, Prefix
<1> QED BY <1>1, <1>2, <1>3, <1>4

-----------------------------------------------------------------------------
(* The steps.                                                              *)

\* Nothing is claimed, published or signed at first.
LEMMA InitIInv == Init => IInv
<1> SUFFICES ASSUME Init PROVE IInv  OBVIOUS
<1>1. <<>> \in Seq(Entry)  OBVIOUS
<1>2. Typing  BY <1>1 DEF Init, ClaimInit, Typing, Stages, Request, NoRequest, NoLineage
<1>3. Requests /\ Recorded  BY DEF Init, ClaimInit, Requests, Recorded
<1>4. ClaimsSigned /\ PublishedClaimed /\ OneSuccessor /\ Closed /\ OneChain
    BY DEF Init, ClaimInit, ClaimsSigned, PublishedClaimed, OneSuccessor, Closed, OneChain
<1> QED BY <1>2, <1>3, <1>4 DEF IInv

\* A signature adds to what verifies.
LEMMA ApproveStep ==
    ASSUME IInv, NEW p \in Proposed, NEW approver \in Approver, Approve(p, approver)
    PROVE  IInv'
<1>1. /\ approvals' = approvals \cup {[proposal |-> p, approver |-> approver]}
      /\ UNCHANGED <<published, claims, stage, request>>
    BY DEF Approve
<1>2. Typing'
    <2>1. published \subseteq Seq(Entry)  BY DEF IInv, Typing
    <2>2. NoLineage \in Seq(Entry)  BY DEF NoLineage
    <2>3. p \in Proposal  BY <2>1, <2>2 DEF Proposed, Proposal
    <2>4. approvals' \subseteq Approval  BY <1>1, <2>3 DEF IInv, Typing, Approval
    <2> QED BY <1>1, <2>4 DEF IInv, Typing
<1>3. ClaimsSigned' /\ OneSuccessor' /\ Closed' /\ OneChain'
    BY <1>1, ClaimsLast
<1>4. Requests'  BY <1>1, SignedLasts DEF IInv, Requests
<1>5. Recorded' /\ PublishedClaimed'  BY <1>1 DEF IInv, Recorded, PublishedClaimed
<1> QED BY <1>2, <1>3, <1>4, <1>5 DEF IInv

\* The requested claim extends a published lineage by a signed advance.
LEMMA ApplyStep ==
    ASSUME IInv, NEW w \in Writer, NEW a \in approvals, Apply(w, a)
    PROVE  IInv'
<1> DEFINE r == [key |-> a.proposal.previous, value |-> Successor(a)]
<1>1. /\ request' = [request EXCEPT ![w] = r]
      /\ stage' = [stage EXCEPT ![w] = "check"]
      /\ UNCHANGED <<claims, approvals, published>>
    BY DEF Apply, RequestClaim
<1>2. a \in Approval /\ a.proposal.previous \in Seq(Entry)
    BY DEF IInv, Typing, Approval, Proposal
<1>3. a.proposal.previous # NoLineage =>
        a.proposal.previous \in published /\ Len(a.proposal.previous) >= 2
    BY DEF Apply, Proposable, Verified
<1>4. /\ Successor(a) \in Seq(Entry)
      /\ a.proposal.previous = Before(Successor(a), Len(Successor(a)))
    BY <1>2, <1>3, SuccessorProperties
<1>5. Verified(Successor(a)) /\ Len(Successor(a)) =< MaxLineage  BY DEF Apply
<1>6. Signed(r) /\ r \in Request
    <2>1. r.key = a.proposal.previous /\ r.value = Successor(a)  OBVIOUS
    <2>2. r \in Request  BY <1>2, <1>4 DEF Request
    <2> HIDE DEF r
    <2>3. Signed(r)  BY <1>3, <1>4, <1>5, <2>1 DEF Signed
    <2> QED BY <2>2, <2>3
<1> HIDE DEF r
<1>7. Typing'  BY <1>1, <1>6 DEF IInv, Typing, Stages
<1>8. Requests'
    <2> SUFFICES ASSUME NEW v \in Writer, stage'[v] # "idle" PROVE Signed(request[v])'
        BY DEF Requests
    <2>1. request'[v] = IF v = w THEN r ELSE request[v]  BY <1>1 DEF IInv, Typing
    <2>2. v # w => stage[v] # "idle"  BY <1>1 DEF IInv, Typing
    <2>3. Signed(request'[v])  BY <1>6, <2>1, <2>2 DEF IInv, Requests
    <2> QED BY <1>1, <2>3 DEF Signed, Verified, SignatureOf, Before, NoLineage
<1>9. Recorded'  BY <1>1 DEF IInv, Recorded, Typing
<1>10. ClaimsSigned' /\ OneSuccessor' /\ Closed' /\ OneChain'  BY <1>1, ClaimsLast
<1>11. PublishedClaimed'  BY <1>1 DEF IInv, PublishedClaimed
<1> QED BY <1>7, <1>8, <1>9, <1>10, <1>11 DEF IInv

\* A process that only moves on, to "claimed" only if its claim is on disk.
LEMMA StageStep ==
    ASSUME IInv, NEW w \in Writer, NEW s \in Stages,
           stage' = [stage EXCEPT ![w] = s], stage[w] # "idle",
           s = "claimed" => request[w] \in claims,
           UNCHANGED <<claims, request, approvals>>,
           \/ published' = published
           \/ request[w] \in claims /\ published' = published \cup {request[w].value}
    PROVE  IInv'
<1>1. published' \subseteq Seq(Entry) /\ published \subseteq published'
    BY DEF IInv, Typing, Request
<1>2. Typing'  BY <1>1 DEF IInv, Typing
<1>3. Requests'  BY <1>1, SignedLasts DEF IInv, Requests, Typing
<1>4. Recorded'  BY DEF IInv, Recorded, Typing
<1>5. ClaimsSigned' /\ OneSuccessor' /\ Closed' /\ OneChain'  BY <1>1, ClaimsLast
<1>6. PublishedClaimed'  BY DEF IInv, PublishedClaimed
<1> QED BY <1>2, <1>3, <1>4, <1>5, <1>6 DEF IInv

-----------------------------------------------------------------------------
(* The link.                                                               *)

\* What a signed request whose name is free says of the claims on disk: none
\* is longer than the lineage it extends, and all are prefixes of it.
LEMMA FreeName ==
    ASSUME IInv, NEW r \in Request, Signed(r), \A c \in claims : c.key # r.key
    PROVE  /\ r.key = NoLineage => claims = {}
           /\ r.key # NoLineage =>
                /\ r.key \in Seq(Entry) /\ Len(r.value) = Len(r.key) + 1 /\ Len(r.key) >= 2
                /\ \A i \in 1..Len(r.key) : r.value[i] = r.key[i]
                /\ \E d \in claims : d.value = r.key
                /\ \A c \in claims : Prefix(c.value, r.key)
<1> DEFINE k == r.key
           v == r.value
<1>1. k \in Seq(Entry) /\ v \in Seq(Entry) /\ Len(v) >= 2 /\ k = Before(v, Len(v))
    BY DEF Request, Signed, Verified
<1>2. \A c \in claims : c.value \in Seq(Entry) /\ Len(c.value) >= 2
    BY DEF IInv, Typing, Request, ClaimsSigned, Signed, Verified
<1>3. ASSUME k = NoLineage PROVE claims = {}
    <2> SUFFICES ASSUME NEW c \in claims PROVE FALSE  OBVIOUS
    <2>1. 2 \in 2..Len(c.value)  BY <1>2
    <2>2. PICK d \in claims : d.key = Before(c.value, 2)  BY <2>1 DEF IInv, Closed
    <2>3. d.key = NoLineage  BY <2>2 DEF Before
    <2> QED BY <1>3, <2>3
<1>4. ASSUME k # NoLineage
      PROVE  /\ Len(v) = Len(k) + 1 /\ Len(k) >= 2
             /\ \A i \in 1..Len(k) : v[i] = k[i]
             /\ \E d \in claims : d.value = k
             /\ \A c \in claims : Prefix(c.value, k)
    <2>1. Len(v) # 2 /\ Len(v) \in 2..Len(v)
        <3>1. Len(v) \in Nat  BY <1>1
        <3>2. CASE Len(v) = 2
            <4>1. Before(v, Len(v)) = NoLineage  BY <3>2, Zenon DEF Before
            <4> QED BY <1>1, <1>4, <4>1
        <3> QED BY <1>1, <3>1, <3>2
    <2>2. Len(v) = Len(k) + 1 /\ Len(k) >= 2 /\ \A i \in 1..Len(k) : v[i] = k[i]
        <3>1. /\ Len(Before(v, Len(v))) = Len(v) - 1
              /\ \A i \in 1..(Len(v) - 1) : Before(v, Len(v))[i] = v[i]
            BY <1>1, <2>1, BeforeProperties
        <3>2. Len(k) = Len(v) - 1 /\ \A i \in 1..(Len(v) - 1) : k[i] = v[i]
            BY <1>1, <3>1
        <3> HIDE DEF k, v
        <3> QED BY <1>1, <2>1, <3>2
    <2>3. k \in published  BY <1>4 DEF Signed
    <2>4. PICK d \in claims : d.value = k  BY <2>3 DEF IInv, PublishedClaimed
    <2>5. ASSUME NEW c \in claims PROVE Prefix(c.value, k)
        <3> DEFINE m == c.value
        <3>1. m \in Seq(Entry)  BY <1>2
        <3>2. Prefix(m, k) \/ Prefix(k, m)  BY <2>4 DEF IInv, OneChain
        <3> HIDE DEF k, v, m
        <3>3. CASE Prefix(k, m) /\ Len(m) =< Len(k)
            <4>1. DOMAIN k = 1..Len(k) /\ DOMAIN m = 1..Len(m)  BY <1>1, <3>1
            <4>2. Len(k) =< Len(m)  BY <3>3 DEF Prefix
            <4>3. Len(k) \in Nat /\ Len(m) \in Nat  BY <1>1, <3>1
            <4>4. Len(m) = Len(k)  BY <3>3, <4>2, <4>3
            <4>5. Prefix(m, k)  BY <3>3, <4>1, <4>3, <4>4 DEF Prefix
            <4> QED BY <4>5 DEF m
        <3>4. CASE Prefix(k, m) /\ Len(m) > Len(k)
            <4>1. Len(v) \in 2..Len(m)  BY <1>1, <2>1, <2>2, <3>1, <3>4
            <4>2. PICK x \in claims : x.key = Before(m, Len(v))
                BY <4>1 DEF IInv, Closed, m
            <4>3. /\ Before(m, Len(v)) \in Seq(Entry)
                  /\ Len(Before(m, Len(v))) = Len(v) - 1
                  /\ \A i \in 1..(Len(v) - 1) : Before(m, Len(v))[i] = m[i]
                BY <2>1, <3>1, <4>1, BeforeProperties
            <4>4. Len(Before(m, Len(v))) = Len(k)  BY <1>1, <2>2, <4>3
            <4>5. \A i \in 1..Len(k) : Before(m, Len(v))[i] = k[i]
                BY <1>1, <2>2, <3>1, <3>4, <4>3 DEF Prefix
            <4>6. Before(m, Len(v)) = k  BY <1>1, <4>3, <4>4, <4>5, SameLineage
            <4> QED BY <4>2, <4>6 DEF k
        <3> QED BY <1>1, <3>1, <3>2, <3>3, <3>4 DEF Prefix, m
    <2> QED BY <2>2, <2>4, <2>5
<1> QED BY <1>1, <1>3, <1>4

\* A linked claim keeps the claims a chain.
LEMMA LinkStep ==
    ASSUME IInv, NEW w \in Writer, stage[w] = "link", ~Taken(w),
           claims' = claims \cup {request[w]},
           stage' = [stage EXCEPT ![w] = "claimed"],
           UNCHANGED <<request, approvals, published>>
    PROVE  IInv'
<1> DEFINE r == request[w]
           k == r.key
           v == r.value
<1>1. r \in Request /\ Signed(r)  BY DEF IInv, Typing, Requests
<1>2. \A c \in claims : c.key # k  BY DEF Taken
<1> HIDE DEF r
<1>3. /\ k = NoLineage => claims = {}
      /\ k # NoLineage =>
            /\ k \in Seq(Entry) /\ Len(v) = Len(k) + 1 /\ Len(k) >= 2
            /\ \A i \in 1..Len(k) : v[i] = k[i]
            /\ \E d \in claims : d.value = k
            /\ \A c \in claims : Prefix(c.value, k)
    BY <1>1, <1>2, FreeName
<1>4. claims' = claims \cup {r}  BY DEF r
<1>5. k \in Seq(Entry) /\ v \in Seq(Entry) /\ Len(v) >= 2 /\ k = Before(v, Len(v))
    BY <1>1 DEF Request, Signed, Verified
<1>6. Typing'  BY <1>1, <1>4 DEF IInv, Typing, Stages
<1>7. Requests'  BY SignedLasts DEF IInv, Requests, Typing
<1>8. Recorded'  BY DEF IInv, Recorded, Typing
<1>9. ClaimsSigned'  BY <1>1, <1>4, SignedLasts DEF IInv, ClaimsSigned
<1>10. PublishedClaimed'  BY <1>4 DEF IInv, PublishedClaimed
<1>11. OneSuccessor'  BY <1>2, <1>4 DEF IInv, OneSuccessor
<1>12. ASSUME NEW c \in claims PROVE Prefix(c.value, v)
    <2>1. c.value \in Seq(Entry)  BY DEF IInv, Typing, Request
    <2>2. k # NoLineage  BY <1>3
    <2> HIDE DEF k, v
    <2> QED BY <1>3, <1>5, <2>1, <2>2, SMTT(30) DEF Prefix
<1>13. Prefix(v, v)  BY <1>5 DEF Prefix
<1>14. OneChain
    BY DEF IInv
<1>15. OneChain'
    <2> SUFFICES ASSUME NEW c \in claims \cup {r}, NEW d \in claims \cup {r}
                 PROVE  Prefix(c.value, d.value) \/ Prefix(d.value, c.value)
        BY <1>4 DEF OneChain, Prefix
    <2> QED BY <1>12, <1>13, <1>14 DEF OneChain
<1>16. ASSUME NEW n \in 2..Len(v) PROVE \E d \in claims \cup {r} : d.key = Before(v, n)
    <2>1. CASE n = Len(v)  BY <1>5, <2>1
    <2>2. CASE n # Len(v)
        <3>1. k # NoLineage
            <4>1. CASE k = NoLineage
                <5>1. Len(v) = 2  BY <1>5, <4>1, FirstAdvance DEF NoLineage
                <5> QED BY <1>5, <2>2, <5>1
            <4> QED BY <4>1
        <3>2. n \in 2..Len(k)  BY <1>3, <1>5, <2>2, <3>1
        <3>3. PICK d \in claims : d.value = k  BY <1>3, <3>1
        <3>4. PICK x \in claims : x.key = Before(k, n)  BY <3>2, <3>3 DEF IInv, Closed
        <3>5. Before(k, n) = Before(v, n)
            BY <1>3, <1>5, <3>1, <3>2, SamePrefix
        <3> QED BY <3>4, <3>5
    <2> QED BY <2>1, <2>2
<1>17. Closed
    BY DEF IInv
<1>18. Closed'
    <2> SUFFICES ASSUME NEW c \in claims \cup {r}, NEW n \in 2..Len(c.value)
                 PROVE  \E d \in claims \cup {r} : d.key = Before(c.value, n)
        BY <1>4 DEF Closed, Before, NoLineage
    <2> QED BY <1>16, <1>17 DEF Closed
<1> QED BY <1>6, <1>7, <1>8, <1>9, <1>10, <1>11, <1>15, <1>18 DEF IInv

-----------------------------------------------------------------------------
(* The invariant.                                                          *)

\* Nothing happens.
LEMMA Stutter == ASSUME IInv, UNCHANGED vars PROVE IInv'
BY DEF vars, IInv, Typing, Requests, Recorded, ClaimsSigned, PublishedClaimed, OneSuccessor,
       Closed, OneChain, Signed, Verified, SignatureOf, Before, Prefix, NoLineage

\* Either step of the claim protocol.
LEMMA ClaimStep == ASSUME IInv, NEW w \in Writer, Claim(w) PROVE IInv'
<1>1. UNCHANGED <<request, approvals, published>> /\ stage[w] # "idle"
    BY DEF Claim, CheckClaim, LinkClaim
<1>2. Existing(w) \in Stages /\ (Existing(w) = "claimed" => request[w] \in claims)
    BY DEF Existing, Stages
<1>3. CASE CheckClaim(w)
    <2>1. \/ stage' = [stage EXCEPT ![w] = Existing(w)]
          \/ stage' = [stage EXCEPT ![w] = "link"]
        BY <1>3 DEF CheckClaim
    <2>2. "link" \in Stages  BY DEF Stages
    <2>3. UNCHANGED claims  BY <1>3 DEF CheckClaim
    <2> QED BY <1>1, <1>2, <2>1, <2>2, <2>3, StageStep
<1>4. CASE LinkClaim(w) /\ Taken(w)
    <2>1. stage' = [stage EXCEPT ![w] = Existing(w)] /\ UNCHANGED claims
        BY <1>4 DEF LinkClaim
    <2> QED BY <1>1, <1>2, <2>1, StageStep
<1>5. CASE LinkClaim(w) /\ ~Taken(w)
    <2>1. /\ stage' = [stage EXCEPT ![w] = "claimed"] /\ stage[w] = "link"
          /\ claims' = claims \cup {request[w]}
        BY <1>5 DEF LinkClaim
    <2> QED BY <1>1, <1>5, <2>1, LinkStep
<1> QED BY <1>3, <1>4, <1>5 DEF Claim

\* The steps that end a process.
LEMMA LeaveStep ==
    ASSUME IInv, NEW w \in Writer, Publish(w) \/ Reject(w) \/ Die(w)
    PROVE  IInv'
<1>1. /\ stage' = [stage EXCEPT ![w] = "idle"]
      /\ request' = [request EXCEPT ![w] = NoRequest]
      /\ UNCHANGED <<claims, approvals>>
    BY DEF Publish, Reject, Die, Leave
<1>2. NoRequest \in Request /\ "idle" \in Stages
    BY DEF NoRequest, NoLineage, Request, Stages
<1>3. \/ published' = published
      \/ request[w] \in claims /\ published' = published \cup {request[w].value}
    BY DEF Publish, Reject, Die, IInv, Recorded
<1>4. published' \subseteq Seq(Entry) /\ published \subseteq published'
    BY <1>3 DEF IInv, Typing, Request
<1>5. Typing'  BY <1>1, <1>2, <1>4 DEF IInv, Typing
<1>6. ASSUME NEW v \in Writer, stage'[v] # "idle"
      PROVE  v # w /\ stage'[v] = stage[v] /\ request'[v] = request[v]
    BY <1>1, <1>6 DEF IInv, Typing
<1>7. Requests'
    BY <1>1, <1>4, <1>6, SignedLasts DEF IInv, Requests, Typing
<1>8. Recorded'  BY <1>1, <1>6 DEF IInv, Recorded
<1>9. ClaimsSigned' /\ OneSuccessor' /\ Closed' /\ OneChain'  BY <1>1, <1>4, ClaimsLast
<1>10. PublishedClaimed'  BY <1>1, <1>3 DEF IInv, PublishedClaimed
<1> QED BY <1>5, <1>7, <1>8, <1>9, <1>10 DEF IInv

\* The invariant is inductive.
LEMMA NextIInv == IInv /\ [Next]_vars => IInv'
<1> SUFFICES ASSUME IInv, [Next]_vars PROVE IInv'  OBVIOUS
<1>1. CASE \E p \in Proposed, approver \in Approver : Approve(p, approver)
    BY <1>1, ApproveStep
<1>2. CASE \E w \in Writer, a \in approvals : Apply(w, a)  BY <1>2, ApplyStep
<1>3. CASE \E w \in Writer : Claim(w)  BY <1>3, ClaimStep
<1>4. CASE \E w \in Writer : Publish(w) \/ Reject(w) \/ Die(w)  BY <1>4, LeaveStep
<1>5. CASE UNCHANGED vars  BY <1>5, Stutter
<1> QED BY <1>1, <1>2, <1>3, <1>4, <1>5 DEF Next, Run

\* The claims and the requests form a chain of signed lineages.
THEOREM Invariant == Spec => []IInv
<1>1. Init => IInv  BY InitIInv
<1>2. IInv /\ [Next]_vars => IInv'  BY NextIInv
<1> QED BY <1>1, <1>2, PTL DEF Spec

\* Every reachable state is well typed and within the length limit, for any
\* number of processes, candidates and approvals.
THEOREM TypeCorrect == Spec => []TypeOK
<1>1. IInv => TypeOK
    <2> SUFFICES ASSUME IInv PROVE TypeOK  OBVIOUS
    <2>1. Typing  BY DEF IInv
    <2>2. ASSUME NEW l \in published PROVE Len(l) \in 2..MaxLineage
        <3>1. PICK c \in claims : c.value = l  BY DEF IInv, PublishedClaimed
        <3>2. Len(l) >= 2 /\ Len(l) =< MaxLineage
            BY <3>1 DEF IInv, ClaimsSigned, Signed, Verified
        <3>3. l \in Seq(Entry)  BY <2>1 DEF Typing
        <3> QED BY <3>2, <3>3, LimitsAssumption
    <2> QED BY <2>1, <2>2 DEF Typing, TypeOK
<1> QED BY <1>1, Invariant, PTL

\* No interleaving, crash or retry forks the published lineage.
THEOREM NeverForks == Spec => []OneHistory
<1>1. IInv => OneHistory  BY DEF IInv, OneHistory, OneChain, PublishedClaimed
<1> QED BY <1>1, Invariant, PTL

-----------------------------------------------------------------------------
(* What the owner signs is what verification rebuilds.                     *)

\* A signed and acceptable proposal makes a lineage that verifies.
LEMMA SignedVerifies ==
    ASSUME Typing, NEW a \in approvals, Proposable(a.proposal)
    PROVE  Verified(Successor(a))
<1> DEFINE p == a.proposal
           e == [candidate |-> p.candidate, approver |-> a.approver]
           s == Successor(a)
<1>1. a \in Approval /\ p \in Proposal /\ e \in Entry /\ p.previous \in Seq(Entry)
    BY DEF Typing, Approval, Proposal, Entry
<1>2. a = [proposal |-> [baseline |-> p.baseline, candidate |-> p.candidate,
                         previous |-> p.previous], approver |-> a.approver]
    BY <1>1 DEF Approval, Proposal
<1>3. p.baseline # p.candidate  BY PassingAssumption DEF Proposable
<1>4. CASE p.previous = NoLineage
    <2>0. Seed(p.baseline) \in Entry  BY <1>1 DEF Seed, Entry, Proposal
    <2>1. s = Append(<<Seed(p.baseline)>>, e)  BY <1>4 DEF Successor
    <2>2. /\ Len(s) = 2 /\ DOMAIN s = 1..2
          /\ s[1].candidate = p.baseline /\ s[1].approver = NoApprover
          /\ s[2].candidate = p.candidate /\ s[2].approver = a.approver
        <3> DEFINE b == <<Seed(p.baseline)>>
        <3>1. b \in Seq(Entry) /\ Len(b) = 1 /\ b[1] = Seed(p.baseline)  BY <2>0
        <3> HIDE DEF b, s
        <3>2. s = Append(b, e)  BY <2>1 DEF b
        <3> HIDE DEF e
        <3>3. /\ s \in Seq(Entry) /\ Len(s) = Len(b) + 1
              /\ \A i \in 1..Len(b) : s[i] = b[i]
              /\ s[Len(b) + 1] = e
            BY <1>1, <3>1, <3>2, Appended
        <3>4. Len(s) = 2 /\ DOMAIN s = 1..2 /\ s[1] = Seed(p.baseline) /\ s[2] = e
            BY <3>1, <3>3
        <3>5. /\ Seed(p.baseline).candidate = p.baseline
              /\ Seed(p.baseline).approver = NoApprover
              /\ e.candidate = p.candidate /\ e.approver = a.approver
            BY DEF Seed, e
        <3> QED BY <3>4, <3>5
    <2> HIDE DEF s
    <2>3. SignatureOf(s, 2) = a  BY <1>2, <1>4, <2>2 DEF SignatureOf, Before
    <2> QED BY <1>3, <2>2, <2>3 DEF Verified, s
<1>5. CASE p.previous # NoLineage
    <2> DEFINE l == p.previous
    <2>1. Verified(l) /\ HeadOf(l) = p.baseline /\ ~Holds(l, p.candidate)
        BY <1>5 DEF Proposable
    <2>2. s = Append(l, e)  BY <1>5 DEF Successor
    <2>3. l = Before(s, Len(s))  BY <1>1, <2>1, SuccessorProperties DEF Verified
    <2> HIDE DEF e, s, l
    <2>4. l \in Seq(Entry) /\ Len(l) >= 2  BY <1>1, <2>1 DEF l, Verified
    <2>5. /\ s \in Seq(Entry) /\ Len(s) = Len(l) + 1
          /\ \A i \in 1..Len(l) : s[i] = l[i]
          /\ s[Len(l) + 1] = e
        BY <1>1, <2>2, <2>4, Appended
    <2>6. e.candidate = p.candidate /\ e.approver = a.approver  BY DEF e
    <2>7. s[1].approver = NoApprover  BY <2>1, <2>4, <2>5 DEF Verified
    <2>8. \A i, j \in DOMAIN s : s[i].candidate = s[j].candidate => i = j
        <3>1. DOMAIN s = 1..(Len(l) + 1) /\ DOMAIN l = 1..Len(l)  BY <2>4, <2>5
        <3>2. \A i \in 1..Len(l) : s[i].candidate # p.candidate
            BY <2>1, <2>5, <3>1 DEF Holds
        <3>3. \A i, j \in 1..Len(l) : s[i].candidate = s[j].candidate => i = j
            BY <2>1, <2>5, <3>1 DEF Verified
        <3> HIDE DEF p
        <3>4. \A i \in DOMAIN s : i \in 1..Len(l) \/ i = Len(l) + 1
            BY <2>4, <3>1
        <3> QED BY <2>5, <2>6, <3>2, <3>3, <3>4
    <2>9. \A i \in 2..Len(s) : SignatureOf(s, i) \in approvals
        <3> SUFFICES ASSUME NEW i \in 2..Len(s) PROVE SignatureOf(s, i) \in approvals
            OBVIOUS
        <3>1. CASE i = Len(s)
            <4>1. i - 1 = Len(l) /\ i = Len(l) + 1  BY <2>4, <2>5, <3>1
            <4>2. s[i - 1].candidate = p.baseline
                BY <2>1, <2>4, <2>5, <4>1 DEF HeadOf
            <4>3. s[i].candidate = p.candidate /\ s[i].approver = a.approver
                BY <2>5, <2>6, <4>1
            <4>4. Before(s, i) = p.previous  BY <2>3, <3>1 DEF l
            <4>5. SignatureOf(s, i) = a  BY <1>2, <4>2, <4>3, <4>4 DEF SignatureOf
            <4> QED BY <4>5
        <3>2. CASE i # Len(s)
            <4>1. i \in 2..Len(l)  BY <2>4, <2>5, <3>2
            <4>2. s[i] = l[i] /\ s[i - 1] = l[i - 1]  BY <2>4, <2>5, <4>1
            <4>3. Before(s, i) = Before(l, i)  BY <2>4, <2>5, <4>1, SamePrefix
            <4>4. SignatureOf(s, i) = SignatureOf(l, i)  BY <4>2, <4>3 DEF SignatureOf
            <4> QED BY <2>1, <4>1, <4>4 DEF Verified
        <3> QED BY <3>1, <3>2
    <2> QED BY <2>4, <2>5, <2>7, <2>8, <2>9 DEF Verified, s
<1> QED BY <1>4, <1>5

\* Every published lineage, and every lineage made of what the owner signed, verifies
\* in every later state.
THEOREM AlwaysVerified == Spec => []LineagesVerify
<1>1. IInv => LineagesVerify
    <2> SUFFICES ASSUME IInv PROVE LineagesVerify  OBVIOUS
    <2>1. \A l \in published : Verified(l)
        BY DEF IInv, PublishedClaimed, ClaimsSigned, Signed
    <2>2. \A a \in approvals : Proposable(a.proposal) => Verified(Successor(a))
        BY SignedVerifies DEF IInv
    <2> QED BY <2>1, <2>2 DEF LineagesVerify
<1> QED BY <1>1, Invariant, PTL

-----------------------------------------------------------------------------
(* The claim files implement the history.                                  *)

Candidates(l) == [i \in DOMAIN l |-> l[i].candidate]

\* The candidates of a lineage, as a sequence.
LEMMA CandidatesType ==
    ASSUME NEW l \in Seq(Entry)
    PROVE  /\ Candidates(l) \in Seq(Candidate)
           /\ Len(Candidates(l)) = Len(l)
           /\ \A i \in 1..Len(l) : Candidates(l)[i] = l[i].candidate
<1>1. DOMAIN l = 1..Len(l) /\ Len(l) \in Nat  OBVIOUS
<1>2. \A i \in 1..Len(l) : l[i].candidate \in Candidate
    <2>1. \A i \in 1..Len(l) : l[i] \in Entry  OBVIOUS
    <2>2. \A e \in Entry : e.candidate \in Candidate  BY DEF Entry
    <2> QED BY <2>1, <2>2
<1>3. Candidates(l) = [i \in 1..Len(l) |-> l[i].candidate]  BY <1>1 DEF Candidates
<1>4. [i \in 1..Len(l) |-> l[i].candidate] \in [1..Len(l) -> Candidate]  BY <1>2
<1>5. Candidates(l) \in Seq(Candidate)  BY <1>1, <1>3, <1>4, IsASeq
<1>6. Len(Candidates(l)) = Len(l)  BY <1>1, <1>3, <1>5
<1> QED BY <1>3, <1>5, <1>6

\* The history of no lineage.
LEMMA NoCandidates == Candidates(<<>>) \in Seq(Candidate) /\ Len(Candidates(<<>>)) = 0
<1>1. <<>> \in Seq(Entry) /\ Len(<<>>) = 0  OBVIOUS
<1> QED BY <1>1, CandidatesType

\* A claim at least as long as all others is the one Claimed takes.
LEMMA LongestLineage ==
    ASSUME NEW r \in claims, claims \subseteq Request, OneChain,
           \A d \in claims : Len(d.value) =< Len(r.value)
    PROVE  Claimed = r.value
<1> DEFINE c == LongestClaim
<1>1. c \in claims /\ \A d \in claims : Len(d.value) =< Len(c.value)  BY DEF LongestClaim
<1>2. Claimed = c.value  BY DEF Claimed
<1> HIDE DEF c
<1>3. c.value \in Seq(Entry) /\ r.value \in Seq(Entry)  BY <1>1 DEF Request
<1>4. Len(c.value) = Len(r.value)  BY <1>1, <1>3
<1>5. Prefix(c.value, r.value) \/ Prefix(r.value, c.value)  BY <1>1 DEF OneChain
<1>6. \A i \in 1..Len(c.value) : c.value[i] = r.value[i]  BY <1>3, <1>4, <1>5 DEF Prefix
<1>7. c.value = r.value  BY <1>3, <1>4, <1>6, SameLineage
<1> QED BY <1>2, <1>7

\* A linked claim is one step of the history.
LEMMA LinkIsHistoryStep ==
    ASSUME IInv, IInv', NEW w \in Writer, stage[w] = "link", ~Taken(w),
           claims' = claims \cup {request[w]}
    PROVE  History!Next
<1> DEFINE r == request[w]
           k == r.key
           v == r.value
<1>1. r \in Request /\ Signed(r)  BY DEF IInv, Typing, Requests
<1>2. \A c \in claims : c.key # k  BY DEF Taken
<1>3. claims' = claims \cup {r} /\ r \in claims'  OBVIOUS
<1> HIDE DEF r
<1>4. /\ k = NoLineage => claims = {}
      /\ k # NoLineage =>
            /\ k \in Seq(Entry) /\ Len(v) = Len(k) + 1 /\ Len(k) >= 2
            /\ \A i \in 1..Len(k) : v[i] = k[i]
            /\ \E d \in claims : d.value = k
            /\ \A c \in claims : Prefix(c.value, k)
    BY <1>1, <1>2, FreeName
<1>5. k \in Seq(Entry) /\ v \in Seq(Entry) /\ Len(v) >= 2 /\ k = Before(v, Len(v))
    BY <1>1 DEF Request, Signed, Verified
<1>6. \A i, j \in 1..Len(v) : v[i].candidate = v[j].candidate => i = j
    BY <1>1, <1>5 DEF Signed, Verified
<1>7. Claimed' = v
    <2>1. \A d \in claims' : Len(d.value) =< Len(v)
        <3> SUFFICES ASSUME NEW d \in claims' PROVE Len(d.value) =< Len(v)  OBVIOUS
        <3>1. CASE d = r  BY <1>5, <3>1
        <3>2. CASE d \in claims
            <4>1. k # NoLineage /\ Prefix(d.value, k)  BY <1>4, <3>2
            <4>2. d.value \in Seq(Entry)  BY <3>2 DEF IInv, Typing, Request
            <4> QED BY <1>4, <1>5, <4>1, <4>2 DEF Prefix
        <3> QED BY <1>3, <3>1, <3>2
    <2>2. claims' \subseteq Request /\ OneChain'  BY DEF IInv, Typing
    <2>3. ASSUME NEW x, x = r, x \in claims',
                 \A d \in claims' : Len(d.value) =< Len(x.value)
          PROVE  Claimed' = x.value
        <3>1. \A d \in claims' : Len(d.value) =< Len(x.value)  BY <2>3
        <3> DEFINE c == CHOOSE c \in claims' : \A d \in claims' : Len(d.value) =< Len(c.value)
        <3>2. c \in claims' /\ \A d \in claims' : Len(d.value) =< Len(c.value)  BY <2>3
        <3>3. Claimed' = c.value  BY <1>3 DEF Claimed, LongestClaim
        <3> HIDE DEF c
        <3>4. c.value \in Seq(Entry) /\ x.value \in Seq(Entry)  BY <2>2, <2>3, <3>2 DEF Request
        <3>5. Len(c.value) = Len(x.value)  BY <2>3, <3>2, <3>4
        <3>6. Prefix(c.value, x.value) \/ Prefix(x.value, c.value)
            BY <2>2, <2>3, <3>2 DEF OneChain, Prefix
        <3>7. \A i \in 1..Len(c.value) : c.value[i] = x.value[i]
            BY <3>4, <3>5, <3>6 DEF Prefix
        <3>8. c.value = x.value  BY <3>4, <3>5, <3>7, SameLineage
        <3> QED BY <3>3, <3>8
    <2> QED BY <1>3, <2>1, <2>3
<1>8. ClaimedCandidates' = Candidates(v)  BY <1>7 DEF ClaimedCandidates, Candidates
<1>9. ClaimedCandidates = Candidates(Claimed)  BY DEF ClaimedCandidates, Candidates
<1> DEFINE new == v[Len(v)].candidate
<1>10. /\ Candidates(v) \in Seq(Candidate) /\ Len(Candidates(v)) = Len(v)
       /\ \A i \in 1..Len(v) : Candidates(v)[i] = v[i].candidate
    BY <1>5, CandidatesType
<1>11. new \in Candidate /\ v[1].candidate \in Candidate
    <2>1. v[1] \in Entry /\ v[Len(v)] \in Entry  BY <1>5
    <2>2. \A e \in Entry : e.candidate \in Candidate  BY DEF Entry
    <2> QED BY <2>1, <2>2
<1>12. CASE k = NoLineage
    <2>1. Claimed = <<>>  BY <1>4, <1>12 DEF Claimed, NoLineage
    <2>2. ClaimedCandidates = <<>>
        <3>1. /\ ClaimedCandidates \in Seq(Candidate)
              /\ Len(ClaimedCandidates) = 0
            BY <1>9, <2>1, NoCandidates
        <3> QED BY <3>1
    <2>3. Len(v) = 2  BY <1>5, <1>12, FirstAdvance DEF NoLineage
    <2>4. v[1].candidate # new  BY <1>6, <2>3
    <2>5. Candidates(v) = <<v[1].candidate, new>>
        <3> DEFINE h == <<v[1].candidate, new>>
        <3>1. h \in Seq(Candidate) /\ Len(h) = 2 /\ h[1] = v[1].candidate /\ h[2] = new
            BY <1>11
        <3> HIDE DEF h
        <3>2. \A i \in 1..2 : Candidates(v)[i] = h[i]
            <4>1. Candidates(v)[1] = h[1] /\ Candidates(v)[2] = h[2]  BY <1>10, <2>3, <3>1
            <4> QED BY <4>1
        <3>3. Candidates(v) = h  BY <1>10, <2>3, <3>1, <3>2, SeqEqual
        <3> QED BY <3>3 DEF h
    <2>6. History!Begin(v[1].candidate, new)
        BY <1>8, <2>2, <2>4, <2>5 DEF History!Begin
    <2> QED BY <1>11, <2>6 DEF History!Next
<1>13. CASE k # NoLineage
    <2>1. PICK d \in claims : d.value = k  BY <1>4, <1>13
    <2>2. \A c \in claims : Len(c.value) =< Len(d.value)  BY <1>4, <1>13, <2>1 DEF Prefix
    <2>3. Claimed = k
        BY <2>1, <2>2, LongestLineage DEF IInv, Typing
    <2>4. /\ Len(v) = Len(k) + 1 /\ Len(k) >= 2
          /\ \A i \in 1..Len(k) : v[i] = k[i]
        BY <1>4, <1>13
    <2>5. /\ Candidates(k) \in Seq(Candidate) /\ Len(Candidates(k)) = Len(k)
          /\ \A i \in 1..Len(k) : Candidates(k)[i] = k[i].candidate
        BY <1>5, CandidatesType
    <2>6. ClaimedCandidates = Candidates(k)  BY <1>9, <2>3
    <2> HIDE DEF k, v, new
    <2>7. Candidates(k) # <<>>  BY <2>4, <2>5
    <2>8. \A i \in DOMAIN Candidates(k) : Candidates(k)[i] # new
        <3> SUFFICES ASSUME NEW i \in 1..Len(k) PROVE k[i].candidate # new
            BY <2>5
        <3>1. Len(k) \in Nat /\ i \in 1..Len(v) /\ Len(v) \in 1..Len(v) /\ i # Len(v)
            BY <1>5, <2>4
        <3> QED BY <1>6, <2>4, <3>1 DEF new
    <2>9. Candidates(v) = Append(Candidates(k), new)
        <3> DEFINE h == Append(Candidates(k), new)
        <3>1. /\ h \in Seq(Candidate) /\ Len(h) = Len(k) + 1
              /\ \A i \in 1..Len(k) : h[i] = Candidates(k)[i]
              /\ h[Len(k) + 1] = new
            BY <1>11, <2>5, AppendProperties
        <3> HIDE DEF h
        <3>2. \A i \in 1..Len(v) : i \in 1..Len(k) \/ i = Len(k) + 1
            BY <1>5, <2>4
        <3>3. Len(v) = Len(k) + 1 /\ Len(v) \in 1..Len(v)  BY <1>5, <2>4
        <3>4. Candidates(v)[Len(k) + 1] = new  BY <1>10, <3>3 DEF new
        <3>5. \A i \in 1..Len(k) : Candidates(v)[i] = Candidates(k)[i]
            BY <1>10, <1>5, <2>4, <2>5
        <3>6. \A i \in 1..Len(v) : Candidates(v)[i] = h[i]
            BY <3>1, <3>2, <3>4, <3>5
        <3>7. Candidates(v) = h  BY <1>10, <2>4, <3>1, <3>6, SeqEqual
        <3> QED BY <3>7 DEF h
    <2>10. History!Advance(new)
        BY <1>8, <2>6, <2>7, <2>8, <2>9 DEF History!Advance
    <2> QED BY <1>11, <2>10 DEF History!Next
<1> QED BY <1>12, <1>13

\* The claimed lineages are an append-only history of candidates that no
\* process, crash or retry rewrites.
THEOREM HistoryImplemented == Spec => ImplementsHistory
<1>1. Init => History!Init
    <2> SUFFICES ASSUME Init PROVE ClaimedCandidates = <<>>  BY DEF History!Init
    <2>1. Claimed = <<>>  BY DEF Init, ClaimInit, Claimed, NoLineage
    <2>2. ClaimedCandidates = Candidates(<<>>)  BY <2>1 DEF ClaimedCandidates, Candidates
    <2>3. ClaimedCandidates \in Seq(Candidate) /\ Len(ClaimedCandidates) = 0
        BY <2>2, NoCandidates
    <2> QED BY <2>3
<1>2. IInv /\ IInv' /\ [Next]_vars => [History!Next]_ClaimedCandidates
    <2> SUFFICES ASSUME IInv, IInv', [Next]_vars PROVE [History!Next]_ClaimedCandidates
        OBVIOUS
    <2>1. CASE \E w \in Writer : LinkClaim(w) /\ ~Taken(w)
        BY <2>1, LinkIsHistoryStep DEF LinkClaim
    <2>2. CASE UNCHANGED claims
        BY <2>2 DEF ClaimedCandidates, Claimed, LongestClaim
    <2>3. \/ UNCHANGED claims
          \/ \E w \in Writer : LinkClaim(w) /\ ~Taken(w)
        BY DEF vars, Next, Run, Approve, Apply, RequestClaim, Claim, CheckClaim, LinkClaim,
               Publish, Reject, Die, Leave
    <2> QED BY <2>1, <2>2, <2>3
<1> QED BY <1>1, <1>2, Invariant, PTL DEF Spec, ImplementsHistory, History!Spec

-----------------------------------------------------------------------------
(* Every step of the composition is a step of ShadowBaseline, or leaves    *)
(* it alone.                                                               *)

\* Whatever is handed over, the lineages behave as ShadowBaseline says, so its
\* theorems hold of them.
THEOREM LineagesUntouched == RotationSpec => Spec
<1>1. RotationInit => Init  BY DEF RotationInit
<1>2. [RotationNext]_rotationVars => [Next]_vars
    BY DEF RotationNext, rotationVars, Advance, ApproveRotation, Accept, Checkpoint,
           RunRotation, ClaimRotation, WriteCheckpoint, RejectRotation, DieInRotation
<1> QED BY <1>1, <1>2, PTL DEF RotationSpec, Spec

-----------------------------------------------------------------------------
(* The invariant.                                                          *)

\* What a claim may record: a counter-signed hand-over of the lineage it names.
Claimable(r) ==
    /\ r \in RotationRequest
    /\ r.key = r.value.handoff.lineage
    /\ r.value \in acceptances
    /\ Rotatable(r.key)

RotationTyping ==
    /\ handoffs \subseteq Handoff
    /\ acceptances \subseteq Acceptance
    /\ at \in [Rotator -> Stages]
    /\ wanted \in [Rotator -> RotationRequest \cup {NoRequest}]
    /\ budget \in Budgets

CounterSigned    == \A a \in acceptances : a.handoff \in handoffs
WantsClaimable   == \A w \in Rotator : at[w] # "idle" => Claimable(wanted[w])
HoldsClaim       == \A w \in Rotator : at[w] = "claimed" => wanted[w] \in taken
TakenClaimable   == \A c \in taken : Claimable(c)
TakenOnce        == \A c, d \in taken : c.key = d.key => c = d
CheckpointsTaken == \A c \in checkpoints : [key |-> c.handoff.lineage, value |-> c] \in taken

RInv ==
    /\ RotationTyping /\ CounterSigned /\ WantsClaimable /\ HoldsClaim
    /\ TakenClaimable /\ TakenOnce /\ CheckpointsTaken

\* Signatures and lineages are only added, so what can be claimed stays claimable.
Grows ==
    /\ approvals \subseteq approvals' /\ published \subseteq published'
    /\ acceptances \subseteq acceptances'

LEMMA ClaimableLasts ==
    ASSUME Grows, NEW r, Claimable(r)
    PROVE  Claimable(r)'
BY DEF Grows, Claimable, Rotatable, Verified, SignatureOf, Before, NoLineage

\* Nothing is handed over at first.
LEMMA InitRInv == RotationInit => RInv
<1> SUFFICES ASSUME RotationInit PROVE RInv  OBVIOUS
<1>1. at = [w \in Rotator |-> "idle"] /\ wanted = [w \in Rotator |-> NoRequest] /\ taken = {}
    BY DEF RotationInit, Rotation!ClaimInit
<1>2. RotationTyping  BY <1>1 DEF RotationInit, RotationTyping, Stages
<1>3. CounterSigned /\ WantsClaimable /\ HoldsClaim
    BY <1>1 DEF RotationInit, CounterSigned, WantsClaimable, HoldsClaim
<1>4. TakenClaimable /\ TakenOnce /\ CheckpointsTaken
    BY <1>1 DEF RotationInit, TakenClaimable, TakenOnce, CheckpointsTaken
<1> QED BY <1>2, <1>3, <1>4 DEF RInv

-----------------------------------------------------------------------------
(* The steps.                                                              *)

\* A step that only adds signatures or lineages.
LEMMA GrowStep ==
    ASSUME RInv, Grows, UNCHANGED <<checkpoints, taken, at, wanted, budget>>,
           handoffs' \subseteq Handoff, handoffs \subseteq handoffs',
           acceptances' \subseteq Acceptance, CounterSigned'
    PROVE  RInv'
<1>1. RotationTyping'  BY DEF RInv, RotationTyping
<1>2. WantsClaimable'  BY ClaimableLasts DEF RInv, WantsClaimable
<1>3. TakenClaimable'  BY ClaimableLasts DEF RInv, TakenClaimable
<1>4. HoldsClaim' /\ TakenOnce' /\ CheckpointsTaken'
    BY DEF RInv, HoldsClaim, TakenOnce, CheckpointsTaken
<1> QED BY <1>1, <1>2, <1>3, <1>4 DEF RInv

\* An advance adds signatures or lineages at most.
LEMMA AdvanceGrows == ASSUME [Next]_vars PROVE approvals \subseteq approvals' /\ published \subseteq published'
BY DEF Next, vars, Approve, Apply, RequestClaim, Run, Claim, CheckClaim, LinkClaim,
       Publish, Reject, Die, Leave

LEMMA AdvanceStep == ASSUME RInv, Advance PROVE RInv'
<1>1. Grows /\ UNCHANGED <<handovers, budget>>  BY AdvanceGrows DEF Advance, Grows, handovers
<1> QED BY <1>1, GrowStep DEF handovers, RInv, RotationTyping, CounterSigned

LEMMA ApproveRotationStep ==
    ASSUME RInv, Typing, NEW l \in published, NEW heir \in Heir, NEW approver \in Approver,
           ApproveRotation(l, heir, approver)
    PROVE  RInv'
<1> DEFINE h == [lineage |-> l, heir |-> heir, approver |-> approver]
<1>1. h \in Handoff  BY DEF Handoff, Typing
<1>2. handoffs' = handoffs \cup {h} /\ UNCHANGED <<vars, acceptances, checkpoints, taken, at, wanted, budget>>
    BY DEF ApproveRotation
<1>3. Grows  BY <1>2 DEF Grows, vars
<1>4. CounterSigned'  BY <1>2 DEF RInv, CounterSigned
<1> HIDE DEF h
<1> QED BY <1>1, <1>2, <1>3, <1>4, GrowStep DEF RInv, RotationTyping

LEMMA AcceptStep ==
    ASSUME RInv, NEW h \in handoffs, NEW accepter \in Approver, Accept(h, accepter)
    PROVE  RInv'
<1> DEFINE a == [handoff |-> h, accepter |-> accepter]
<1>1. a \in Acceptance /\ a.handoff = h  BY DEF Acceptance, RInv, RotationTyping
<1>2. acceptances' = acceptances \cup {a} /\ UNCHANGED <<vars, handoffs, checkpoints, taken, at, wanted, budget>>
    BY DEF Accept
<1> HIDE DEF a
<1>3. Grows  BY <1>2 DEF Grows, vars
<1>4. CounterSigned'  BY <1>1, <1>2 DEF RInv, CounterSigned
<1> QED BY <1>1, <1>2, <1>3, <1>4, GrowStep DEF RInv, RotationTyping

\* A process asks for the claim of a hand-over whose signatures it has verified.
LEMMA CheckpointStep ==
    ASSUME RInv, Typing, NEW w \in Rotator, NEW a \in acceptances, Checkpoint(w, a)
    PROVE  RInv'
<1> DEFINE r == [key |-> a.handoff.lineage, value |-> a]
<1>1. /\ at' = [at EXCEPT ![w] = "check"] /\ wanted' = [wanted EXCEPT ![w] = r]
      /\ UNCHANGED <<vars, handoffs, acceptances, checkpoints, taken, budget>>
    BY DEF Checkpoint, Rotation!RequestClaim
<1>2. a \in Acceptance /\ a.handoff.lineage \in Seq(Entry)
    BY DEF RInv, RotationTyping, Acceptance, Handoff
<1>3. r \in RotationRequest /\ Claimable(r)
    BY <1>2 DEF Claimable, RotationRequest, Checkpoint
<1> HIDE DEF r
<1>4. Grows  BY <1>1 DEF Grows, vars
<1>5. RotationTyping'  BY <1>1, <1>3 DEF RInv, RotationTyping, Stages
<1>6. WantsClaimable'
    BY <1>1, <1>3, <1>4, ClaimableLasts DEF RInv, RotationTyping, WantsClaimable
<1>7. HoldsClaim'  BY <1>1 DEF RInv, RotationTyping, HoldsClaim
<1>8. TakenClaimable'  BY <1>1, <1>4, ClaimableLasts DEF RInv, TakenClaimable
<1>9. CounterSigned' /\ TakenOnce' /\ CheckpointsTaken'
    BY <1>1 DEF RInv, CounterSigned, TakenOnce, CheckpointsTaken
<1> QED BY <1>5, <1>6, <1>7, <1>8, <1>9 DEF RInv

\* A claim is linked only if its name is free.
LEMMA ClaimRotationStep ==
    ASSUME RInv, NEW w \in Rotator, ClaimRotation(w)
    PROVE  RInv'
<1>1. /\ at[w] # "idle"
      /\ UNCHANGED <<vars, handoffs, acceptances, checkpoints, wanted, budget>>
      /\ \E s \in Stages :
            /\ at' = [at EXCEPT ![w] = s]
            /\ s = "claimed" => wanted[w] \in taken'
      /\ \/ taken' = taken
         \/ taken' = taken \cup {wanted[w]} /\ ~Rotation!Taken(w)
    BY DEF ClaimRotation, Rotation!CheckClaim, Rotation!LinkClaim, Rotation!Existing, Stages
<1>2. Claimable(wanted[w])  BY <1>1 DEF RInv, WantsClaimable
<1>3. Grows  BY <1>1 DEF Grows, vars
<1>4. RotationTyping'  BY <1>1 DEF RInv, RotationTyping
<1>5. WantsClaimable'  BY <1>1, <1>3, ClaimableLasts DEF RInv, RotationTyping, WantsClaimable
<1>6. HoldsClaim'  BY <1>1 DEF RInv, RotationTyping, HoldsClaim
<1>7. TakenClaimable'  BY <1>1, <1>2, <1>3, ClaimableLasts DEF RInv, TakenClaimable
<1>8. TakenOnce'  BY <1>1 DEF RInv, TakenOnce, Rotation!Taken
<1>9. CounterSigned' /\ CheckpointsTaken'
    BY <1>1 DEF RInv, CounterSigned, CheckpointsTaken
<1> QED BY <1>4, <1>5, <1>6, <1>7, <1>8, <1>9 DEF RInv

\* The steps that end a process.
LEMMA EndRotationStep ==
    ASSUME RInv, NEW w \in Rotator,
           WriteCheckpoint(w) \/ RejectRotation(w) \/ DieInRotation(w)
    PROVE  RInv'
<1>1. /\ at' = [at EXCEPT ![w] = "idle"] /\ wanted' = [wanted EXCEPT ![w] = NoRequest]
      /\ UNCHANGED <<vars, handoffs, acceptances, taken, budget>>
    BY DEF WriteCheckpoint, RejectRotation, DieInRotation, Rotation!Leave
<1>2. \/ checkpoints' = checkpoints
      \/ at[w] = "claimed" /\ checkpoints' = checkpoints \cup {wanted[w].value}
    BY DEF WriteCheckpoint, RejectRotation, DieInRotation
<1>3. Grows  BY <1>1 DEF Grows, vars
<1>4. RotationTyping'  BY <1>1 DEF RInv, RotationTyping, Stages
<1>5. ASSUME NEW v \in Rotator, at'[v] # "idle"
      PROVE  v # w /\ at'[v] = at[v] /\ wanted'[v] = wanted[v]
    BY <1>1, <1>5 DEF RInv, RotationTyping
<1>6. WantsClaimable'
    BY <1>3, <1>5, ClaimableLasts DEF RInv, WantsClaimable
<1>7. HoldsClaim'  BY <1>1, <1>5 DEF RInv, HoldsClaim
<1>8. TakenClaimable'  BY <1>1, <1>3, ClaimableLasts DEF RInv, TakenClaimable
<1>9. CounterSigned' /\ TakenOnce'  BY <1>1 DEF RInv, CounterSigned, TakenOnce
<1>10. CheckpointsTaken'
    <2>1. ASSUME at[w] = "claimed"
          PROVE  [key |-> wanted[w].value.handoff.lineage, value |-> wanted[w].value] \in taken
        <3>1. wanted[w] \in taken  BY <2>1 DEF RInv, HoldsClaim
        <3>2. Claimable(wanted[w])  BY <3>1 DEF RInv, TakenClaimable
        <3>3. wanted[w] = [key |-> wanted[w].value.handoff.lineage, value |-> wanted[w].value]
            BY <3>2 DEF Claimable, RotationRequest
        <3> QED BY <3>1, <3>3
    <2> QED BY <1>1, <1>2, <2>1 DEF RInv, CheckpointsTaken
<1> QED BY <1>4, <1>6, <1>7, <1>8, <1>9, <1>10 DEF RInv

\* The invariant is inductive, beside the typing of the lineages.
LEMMA NextRInv == RInv /\ Typing /\ [RotationNext]_rotationVars => RInv'
<1> SUFFICES ASSUME RInv, Typing, [RotationNext]_rotationVars PROVE RInv'  OBVIOUS
<1>1. CASE Advance  BY <1>1, AdvanceStep
<1>2. CASE \E l \in published, heir \in Heir, approver \in Approver :
                ApproveRotation(l, heir, approver)
    BY <1>2, ApproveRotationStep
<1>3. CASE \E h \in handoffs, accepter \in Approver : Accept(h, accepter)
    BY <1>3, AcceptStep
<1>4. CASE \E w \in Rotator, a \in acceptances : Checkpoint(w, a)  BY <1>4, CheckpointStep
<1>5. CASE \E w \in Rotator : ClaimRotation(w)  BY <1>5, ClaimRotationStep
<1>6. CASE \E w \in Rotator : WriteCheckpoint(w) \/ RejectRotation(w) \/ DieInRotation(w)
    BY <1>6, EndRotationStep
<1>7. CASE UNCHANGED rotationVars
    <2>1. Grows /\ UNCHANGED <<handovers, budget>>
        BY <1>7 DEF rotationVars, Grows, vars, handovers
    <2> QED BY <2>1, GrowStep DEF handovers, RInv, RotationTyping, CounterSigned
<1> QED BY <1>1, <1>2, <1>3, <1>4, <1>5, <1>6, <1>7 DEF RotationNext, RunRotation

\* Claims, requests and checkpoints are those of counter-signed hand-overs.
THEOREM RotationInvariant == RotationSpec => [](RInv /\ IInv)
<1>1. IInv => Typing  BY DEF IInv
<1> QED BY <1>1, InitRInv, NextRInv, LineagesUntouched, Invariant, PTL DEF RotationSpec

\* Every reachable state is well typed, hand-overs and lineages, for any number of
\* processes, heirs, candidates and signatures.
THEOREM RotationTypeCorrect == RotationSpec => []RotationTypeOK
<1>1. RInv /\ TypeOK => RotationTypeOK
    <2> SUFFICES ASSUME RInv, TypeOK PROVE RotationTypeOK  OBVIOUS
    <2>1. taken \subseteq RotationRequest  BY DEF RInv, TakenClaimable, Claimable
    <2>2. checkpoints \subseteq Acceptance
        BY <2>1 DEF RInv, CheckpointsTaken, RotationRequest
    <2> QED BY <2>1, <2>2 DEF RInv, RotationTyping, RotationTypeOK
<1> QED BY <1>1, RotationInvariant, LineagesUntouched, TypeCorrect, PTL

\* No lineage is handed over twice, and every checkpoint on file verifies, in every
\* interleaving of hand-overs, advances, deaths and retries.
THEOREM HandedOverOnce == RotationSpec => []OneHandover
<1>1. RInv => OneHandover
    <2> SUFFICES ASSUME RInv PROVE OneHandover  OBVIOUS
    <2>1. ASSUME NEW c \in checkpoints, NEW d \in checkpoints,
                 c.handoff.lineage = d.handoff.lineage
          PROVE  c = d
        <3>1. [key |-> c.handoff.lineage, value |-> c] = [key |-> d.handoff.lineage, value |-> d]
            BY <2>1 DEF RInv, CheckpointsTaken, TakenOnce
        <3> QED BY <3>1
    <2>2. ASSUME NEW c \in checkpoints
          PROVE  c \in acceptances /\ c.handoff \in handoffs /\ Rotatable(c.handoff.lineage)
        <3> DEFINE r == [key |-> c.handoff.lineage, value |-> c]
        <3>1. Claimable(r)  BY DEF RInv, CheckpointsTaken, TakenClaimable
        <3>2. r.key = c.handoff.lineage /\ r.value = c  OBVIOUS
        <3> HIDE DEF r
        <3> QED BY <3>1, <3>2 DEF Claimable, RInv, CounterSigned
    <2> QED BY <2>1, <2>2 DEF OneHandover
<1> QED BY <1>1, RotationInvariant, PTL
=============================================================================
