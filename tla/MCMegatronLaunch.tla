-------------------------- MODULE MCMegatronLaunch --------------------------
EXTENDS MegatronLaunch

CONSTANTS j1, j2, a, b, e, f, s0, s1, s2

Jobs == {j1, j2}

NoReceipts == [x \in Session \X Rank |-> None]
Fresh == [owner |-> Absent, launch |-> None, receipts |-> NoReceipts,
          parts |-> [s \in Session |-> {}]]

\* What a job of an earlier session left behind when it ended.
Given(identity, session, endpoint, resume) ==
    [identity |-> identity, session |-> session, endpoint |-> endpoint, resume |-> resume]
Left(state) ==
    [owner |-> a, launch |-> [identity |-> a, session |-> s0, endpoint |-> e, state |-> state],
     receipts |-> [x \in Session \X Rank |->
                     IF x[1] = s0 THEN Given(a, s0, e, None) ELSE None],
     parts |-> [s \in Session |-> IF s = s0 THEN Rank ELSE {}]]

\* Two jobs; the last node of the first one may be given something else.
Pair(before, first, odd, second) ==
    [before |-> before,
     env |-> [p \in Proc |-> IF p[1] = j2 THEN second
                             ELSE IF p[2] = Nodes - 1 THEN odd ELSE first]]

Launched(resume) == Given(a, s1, e, resume)
Later(identity, endpoint, resume) == Given(identity, s2, endpoint, resume)

\* Jobs that race for a fresh output, jobs that resume one that may still be in
\* use, and a node whose plan, endpoint or identity is not that of the others.
AllDeployments ==
    {Pair(Fresh, Launched(None), Launched(None), Later(b, e, None)),
     Pair(Fresh, Launched(None), Launched(None), Later(a, e, s1)),
     Pair(Left("failed"), Launched(s0), Launched(s0), Later(a, e, s0)),
     Pair(Left("completed"), Launched(s0), Launched(None), Later(a, f, s0)),
     Pair(Fresh, Launched(None), Given(a, s1, f, None), Later(a, e, None)),
     Pair(Fresh, Launched(None), Given(b, s1, e, None), Later(b, e, None))}

\* The output of a job is resumed by another one.
Resumed == {Pair(Fresh, Launched(None), Launched(None), Later(a, e, s1))}
=============================================================================
