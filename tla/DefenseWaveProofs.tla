-------------------------- MODULE DefenseWaveProofs --------------------------
(***************************************************************************)
(* What holds of a defense wave for any components, plans and operators:   *)
(* every wave passes the validators, containment is earned, and with one   *)
(* command at a time no step is executed twice and the wave implements     *)
(* WaveLifecycle.                                                          *)
(***************************************************************************)
EXTENDS DefenseWave, TLAPS

Components(c) ==
    [status : Statuses,
     execution : [steps : [DOMAIN Stops[c] -> StepStatuses],
                  contained : BOOLEAN, complete : BOOLEAN]]

\* A component of a wave, as any sequence of accepted operations leaves it: only the
\* scheduled step has moved; the rest is due, or skipped by an earned containment.
Sound(c, k) ==
    /\ k \in Components(c)
    /\ k.execution.steps[Scheduled] = StepOfStatus[k.status]
    /\ \A i \in DOMAIN Stops[c] \ {Scheduled} : k.execution.steps[i] \in {"PENDING", "SKIPPED"}
    /\ k.execution.contained => k.status = "VERIFIED_SUCCEEDED" /\ k.execution.complete
    /\ (\E i \in DOMAIN Stops[c] : k.execution.steps[i] = "SKIPPED") => k.execution.contained
    /\ k.execution.complete => \A i \in DOMAIN Stops[c] : k.execution.steps[i] # "PENDING"

SoundWave(w) ==
    /\ w = [c \in Component |-> w[c]]
    /\ \A c \in Component : Sound(c, w[c])

\* The wave on disk and the copy of it every command holds.
Waves ==
    /\ file # NoWave => SoundWave(file)
    /\ \A o \in Operator : doing[o] # Idle =>
        /\ doing[o].verb \in Verbs /\ doing[o].component \in Component
        /\ doing[o].component \in team[o] /\ SoundWave(doing[o].wave)

Counts ==
    /\ doing = [o \in Operator |-> doing[o]]
    /\ granted \in [Component -> Nat] /\ ran \in [Component -> Nat]
    /\ starts \in 0..MaxStarts[team] /\ team \in Teams

\* With one command at a time no copy is outdated, and a component has been given one
\* authorization once it has left its first status.
InStep ==
    Alone =>
        /\ \A o \in Operator : doing[o] # Idle => file # NoWave /\ doing[o].wave = file
        /\ starts = 0 => file = NoWave
        /\ file = NoWave => \A c \in Component : granted[c] + ran[c] = 0
        /\ file # NoWave => \A c \in Component :
            granted[c] + ran[c] = IF file[c].status = "PENDING_AUTHORIZATION" THEN 0 ELSE 1

WInv == Counts /\ Waves /\ InStep

-----------------------------------------------------------------------------
(* Facts about plans and executions.                                        *)

\* A plan has a first step.
LEMMA PlanFacts ==
    ASSUME NEW c \in Component
    PROVE  /\ Stops[c] \in [DOMAIN Stops[c] -> BOOLEAN] /\ Stops[c] # <<>>
           /\ DOMAIN Stops[c] \subseteq Nat /\ Scheduled \in DOMAIN Stops[c]
           /\ \A i \in DOMAIN Stops[c] : Scheduled =< i
<1>1. Stops[c] \in Seq(BOOLEAN) /\ Len(Stops[c]) > 0
  BY PlanAssumption
<1>2. DOMAIN Stops[c] = 1..Len(Stops[c]) /\ Len(Stops[c]) \in Nat
  BY <1>1
<1>3. Stops[c] # <<>>
  BY <1>1
<1> QED
  BY <1>1, <1>2, <1>3 DEF Scheduled

\* A new wave is sound.
LEMMA NewWaveSound == SoundWave(NewWave)
<1> SUFFICES ASSUME NEW c \in Component
             PROVE  Sound(c, NewWave[c])
  BY DEF SoundWave, NewWave
<1>1. NewWave[c] = [status |-> "PENDING_AUTHORIZATION",
                    execution |-> [steps |-> [i \in DOMAIN Stops[c] |-> "PENDING"],
                                   contained |-> FALSE, complete |-> FALSE]]
  BY PlanFacts DEF NewWave, StartExecution
<1> QED
  BY <1>1, PlanFacts DEF Sound, Components, Statuses, StepStatuses, StepOfStatus

\* The step that is authorized is the scheduled one.
LEMMA AuthorizesScheduled ==
    ASSUME NEW c \in Component, NEW k, Sound(c, k), Accepts("authorize", k)
    PROVE  Authorize(k.execution) = [k.execution EXCEPT !.steps[Scheduled] = "AUTHORIZED"]
<1> DEFINE e == k.execution
<1>1. DOMAIN e.steps = DOMAIN Stops[c]
  BY DEF Sound, Components
<1>2. Scheduled \in Pending(e)
  BY <1>1, PlanFacts DEF Sound, Accepts, AwaitsAuthorization, StepOfStatus, Pending, Statuses
<1>3. Pending(e) \subseteq Nat /\ \A j \in Pending(e) : Scheduled =< j
  BY <1>1, PlanFacts DEF Pending
<1>4. (CHOOSE i \in Pending(e) : \A j \in Pending(e) : i =< j) = Scheduled
  BY <1>2, <1>3
<1> QED
  BY <1>4 DEF Authorize

\* Where an accepted operation takes the status of its component.
Onward(verb, from, to) ==
    \/ verb = "authorize" /\ from = "PENDING_AUTHORIZATION" /\ to = "AUTHORIZED"
    \/ verb = "record" /\ from = "AUTHORIZED" /\ to = "EXECUTED"
    \/ verb = "succeeded" /\ from = "EXECUTED" /\ to = "VERIFIED_SUCCEEDED"
    \/ verb = "failed" /\ from = "EXECUTED" /\ to = "VERIFIED_FAILED"

\* A component whose scheduled step moves on, and nothing else, is sound.
LEMMA MovedSound ==
    ASSUME NEW c \in Component, NEW k, Sound(c, k), NEW status \in {"AUTHORIZED", "EXECUTED"},
           k.status \in {"PENDING_AUTHORIZATION", "AUTHORIZED"},
           ~k.execution.complete \/ k.status = "AUTHORIZED"
    PROVE  Sound(c, [status |-> status,
                     execution |-> [k.execution EXCEPT !.steps[Scheduled] = status]])
<1> DEFINE e == k.execution
           steps == [e.steps EXCEPT ![Scheduled] = status]
           f == [steps |-> steps, contained |-> e.contained, complete |-> e.complete]
<1>1. /\ e \in [steps : [DOMAIN Stops[c] -> StepStatuses],
                contained : BOOLEAN, complete : BOOLEAN]
      /\ e.steps \in [DOMAIN Stops[c] -> StepStatuses]
  BY DEF Sound, Components
<1>2. [k.execution EXCEPT !.steps[Scheduled] = status] = f
  BY <1>1
<1>3. /\ steps \in [DOMAIN Stops[c] -> StepStatuses]
      /\ steps[Scheduled] = status
      /\ \A i \in DOMAIN Stops[c] \ {Scheduled} : steps[i] = e.steps[i]
  BY <1>1, PlanFacts DEF StepStatuses
<1>4. [status |-> status, execution |-> f] \in Components(c)
  BY <1>1, <1>3 DEF Components, Statuses
<1>5. ~e.contained
  BY DEF Sound
<1>6. \A i \in DOMAIN Stops[c] \ {Scheduled} :
        /\ steps[i] \in {"PENDING", "SKIPPED"} /\ steps[i] # "SKIPPED"
        /\ e.complete => steps[i] # "PENDING"
  BY <1>3, <1>5 DEF Sound
<1>7. status # "PENDING" /\ status # "SKIPPED" /\ StepOfStatus[status] = status
  BY DEF StepOfStatus, Statuses
<1> HIDE DEF steps
<1>8. Sound(c, [status |-> status, execution |-> f])
  BY <1>3, <1>4, <1>5, <1>6, <1>7 DEF Sound
<1> QED
  BY <1>2, <1>8

\* A component whose executed step is verified is sound.
LEMMA VerifiedSound ==
    ASSUME NEW c \in Component, NEW k, Sound(c, k), k.status = "EXECUTED",
           NEW succeeded \in BOOLEAN
    PROVE  Sound(c, [status |-> IF succeeded THEN "VERIFIED_SUCCEEDED" ELSE "VERIFIED_FAILED",
                     execution |-> Verify(k.execution, Stops[c], Scheduled, succeeded)])
<1> DEFINE e == k.execution
           status == IF succeeded THEN "VERIFIED_SUCCEEDED" ELSE "VERIFIED_FAILED"
           verified == [e.steps EXCEPT ![Scheduled] = status]
           halt == succeeded /\ Stops[c][Scheduled]
           left == \E j \in DOMAIN verified : verified[j] = "PENDING"
           f == Verify(e, Stops[c], Scheduled, succeeded)
<1>1. e.steps \in [DOMAIN Stops[c] -> StepStatuses] /\ e.complete \in BOOLEAN
  BY DEF Sound, Components
<1>2. ~e.contained /\ e.contained = FALSE
  BY DEF Sound, Components
<1>3. \A i \in DOMAIN Stops[c] \ {Scheduled} : e.steps[i] = "PENDING"
  BY <1>2 DEF Sound
<1>4. /\ DOMAIN verified = DOMAIN Stops[c] /\ verified[Scheduled] = status
      /\ \A i \in DOMAIN Stops[c] \ {Scheduled} : verified[i] = "PENDING"
  BY <1>1, <1>3, PlanFacts
<1>5. /\ f = [steps |-> f.steps, contained |-> f.contained, complete |-> f.complete]
      /\ f.steps = [j \in DOMAIN verified |->
                        IF halt /\ j > Scheduled /\ verified[j] = "PENDING" THEN "SKIPPED"
                                                                           ELSE verified[j]]
      /\ f.contained = IF halt THEN TRUE
                       ELSE IF left THEN e.contained
                       ELSE \E j \in DOMAIN verified : verified[j] = "VERIFIED_SUCCEEDED"
      /\ f.complete = (halt \/ ~left \/ e.complete)
  BY DEF Verify
<1>6. left <=> DOMAIN Stops[c] # {Scheduled}
  <2>1. status # "PENDING"
    OBVIOUS
  <2> QED
    BY <1>4, <2>1, PlanFacts
<1>7. /\ f.steps \in [DOMAIN Stops[c] -> StepStatuses]
      /\ f.steps[Scheduled] = status
      /\ \A i \in DOMAIN Stops[c] \ {Scheduled} :
            f.steps[i] = IF halt THEN "SKIPPED" ELSE "PENDING"
  <2>1. \A i \in DOMAIN Stops[c] \ {Scheduled} : i > Scheduled
    BY PlanFacts DEF Scheduled
  <2>2. f.steps = [j \in DOMAIN Stops[c] |->
                    IF j = Scheduled THEN status ELSE IF halt THEN "SKIPPED" ELSE "PENDING"]
    <3> HIDE DEF verified, f, halt, status
    <3>1. ~(Scheduled > Scheduled)
      BY DEF Scheduled
    <3> QED
      BY <1>4, <1>5, <2>1, <3>1
  <2>3. status \in StepStatuses
    BY DEF StepStatuses
  <2> HIDE DEF verified, f, halt, status
  <2> QED
    BY <2>2, <2>3, PlanFacts DEF StepStatuses
<1>8. f.contained <=> halt \/ (~left /\ succeeded)
  <2>1. CASE halt
    BY <1>5, <2>1
  <2>2. CASE ~halt /\ left
    BY <1>2, <1>5, <2>2
  <2>3. CASE ~halt /\ ~left
    <3>1. f.contained = (\E j \in DOMAIN verified : verified[j] = "VERIFIED_SUCCEEDED")
      BY <1>5, <2>3
    <3>2. DOMAIN verified = {Scheduled}
      BY <1>4, <1>6, <2>3
    <3>3. f.contained <=> status = "VERIFIED_SUCCEEDED"
      BY <1>4, <3>1, <3>2
    <3> QED
      BY <2>3, <3>3
  <2> QED
    BY <2>1, <2>2, <2>3
<1>9. f.complete <=> halt \/ ~left
  <2>1. left => ~e.complete
    BY <1>3, <1>6, PlanFacts DEF Sound
  <2> QED
    BY <1>5, <2>1
<1>10. f.contained \in BOOLEAN /\ f.complete \in BOOLEAN
  BY <1>1, <1>2, <1>5
<1>11. f \in [steps : [DOMAIN Stops[c] -> StepStatuses],
              contained : BOOLEAN, complete : BOOLEAN]
  BY <1>5, <1>7, <1>10
<1>12. /\ status \in Statuses /\ StepOfStatus[status] = status
       /\ status # "PENDING" /\ status # "SKIPPED"
       /\ succeeded <=> status = "VERIFIED_SUCCEEDED"
  BY DEF Statuses, StepOfStatus
<1>13. halt => succeeded
  OBVIOUS
<1> HIDE DEF f, status, halt, left
<1>14. [status |-> status, execution |-> f] \in Components(c)
  BY <1>11, <1>12 DEF Components
<1>15. f.contained => status = "VERIFIED_SUCCEEDED" /\ f.complete
  BY <1>8, <1>9, <1>12, <1>13
<1>16. (\E i \in DOMAIN Stops[c] : f.steps[i] = "SKIPPED") => f.contained
  BY <1>7, <1>8, <1>12
<1>17. f.complete => \A i \in DOMAIN Stops[c] : f.steps[i] # "PENDING"
  BY <1>6, <1>7, <1>9, <1>12
<1>18. \A i \in DOMAIN Stops[c] \ {Scheduled} : f.steps[i] \in {"PENDING", "SKIPPED"}
  BY <1>7
<1>19. Sound(c, [status |-> status, execution |-> f])
  BY <1>7, <1>12, <1>14, <1>15, <1>16, <1>17, <1>18 DEF Sound
<1> QED
  BY <1>19 DEF f, status

\* An accepted operation leaves its component sound, one status further.
LEMMA UpdatedSound ==
    ASSUME NEW c \in Component, NEW k, Sound(c, k), NEW verb \in Verbs, Accepts(verb, k)
    PROVE  /\ Sound(c, Updated(verb, c, k))
           /\ Onward(verb, k.status, Updated(verb, c, k).status)
<1>1. CASE verb = "authorize"
  <2>1. k.status = "PENDING_AUTHORIZATION" /\ ~k.execution.complete
    BY <1>1 DEF Accepts, AwaitsAuthorization, CanAuthorize
  <2>2. Updated(verb, c, k) =
            [status |-> "AUTHORIZED",
             execution |-> [k.execution EXCEPT !.steps[Scheduled] = "AUTHORIZED"]]
    BY <1>1, AuthorizesScheduled DEF Updated
  <2>3. Sound(c, Updated(verb, c, k))
    BY <2>1, <2>2, MovedSound
  <2> QED
    BY <1>1, <2>1, <2>2, <2>3 DEF Onward
<1>2. CASE verb = "record"
  <2>1. k.status = "AUTHORIZED"
    BY <1>2 DEF Accepts
  <2>2. Updated(verb, c, k) =
            [status |-> "EXECUTED",
             execution |-> [k.execution EXCEPT !.steps[Scheduled] = "EXECUTED"]]
    BY <1>2 DEF Updated, Record
  <2>3. Sound(c, Updated(verb, c, k))
    BY <2>1, <2>2, MovedSound
  <2> QED
    BY <1>2, <2>1, <2>2, <2>3 DEF Onward
<1>3. CASE verb \in {"succeeded", "failed"}
  <2>1. k.status = "EXECUTED"
    BY <1>3 DEF Accepts
  <2>2. CASE verb = "succeeded"
    <3>1. Updated(verb, c, k) =
            [status |-> "VERIFIED_SUCCEEDED",
             execution |-> Verify(k.execution, Stops[c], Scheduled, TRUE)]
      BY <2>2 DEF Updated
    <3>2. Sound(c, Updated(verb, c, k))
      BY <2>1, <3>1, VerifiedSound, TRUE \in BOOLEAN
    <3> QED
      BY <2>1, <2>2, <3>1, <3>2 DEF Onward
  <2>3. CASE verb = "failed"
    <3>1. Updated(verb, c, k) =
            [status |-> "VERIFIED_FAILED",
             execution |-> Verify(k.execution, Stops[c], Scheduled, FALSE)]
      BY <2>3 DEF Updated
    <3>2. Sound(c, Updated(verb, c, k))
      BY <2>1, <3>1, VerifiedSound, FALSE \in BOOLEAN
    <3> QED
      BY <2>1, <2>3, <3>1, <3>2 DEF Onward
  <2> QED
    BY <1>3, <2>2, <2>3
<1> QED
  BY <1>1, <1>2, <1>3 DEF Verbs

-----------------------------------------------------------------------------
(* The invariant.                                                           *)

LEMMA InitInv == Init => WInv
<1> SUFFICES ASSUME Init
             PROVE  WInv
  OBVIOUS
<1>1. Counts
  BY BoundsAssumption DEF Init, Counts
<1>2. Waves /\ InStep
  BY DEF Init, Waves, InStep
<1> QED
  BY <1>1, <1>2 DEF WInv

\* A sound wave with an accepted operation written into it is sound, and is a wave.
Written(w, verb, c) == [w EXCEPT ![c] = Updated(verb, c, w[c])]

LEMMA WrittenSound ==
    ASSUME NEW w, SoundWave(w), NEW c \in Component, NEW verb \in Verbs, Accepts(verb, w[c])
    PROVE  /\ SoundWave(Written(w, verb, c)) /\ Written(w, verb, c) # NoWave
           /\ Onward(verb, w[c].status, Written(w, verb, c)[c].status)
           /\ \A d \in Component \ {c} : Written(w, verb, c)[d] = w[d]
<1> DEFINE k == Updated(verb, c, w[c])
           new == Written(w, verb, c)
<1>1. Sound(c, k) /\ Onward(verb, w[c].status, k.status)
  BY UpdatedSound DEF SoundWave
<1>2. w = [d \in Component |-> w[d]]
  BY DEF SoundWave
<1>3. DOMAIN w = Component
  BY <1>2
<1>4. /\ DOMAIN new = Component /\ new[c] = k
      /\ \A d \in Component \ {c} : new[d] = w[d]
      /\ new = [d \in Component |-> new[d]]
  BY <1>3 DEF Written
<1>5. new # NoWave
  BY <1>4 DEF NoWave
<1>6. SoundWave(new)
  BY <1>1, <1>4 DEF SoundWave
<1> QED
  BY <1>1, <1>4, <1>5, <1>6

\* A wave that is started for the first time, or over an old one.
LEMMA StartInv ==
    ASSUME WInv, NEW o \in Operator, Start(o)
    PROVE  WInv'
<1>1. Counts'
  BY BoundsAssumption DEF WInv, Counts, Start
<1>2. Waves'
  BY NewWaveSound DEF WInv, Waves, Start
<1>3. InStep'
  <2> SUFFICES ASSUME Alone
               PROVE  /\ \A p \in Operator : doing[p] = Idle
                      /\ starts' # 0
                      /\ \A c \in Component :
                            /\ granted'[c] + ran'[c] = 0
                            /\ file'[c].status = "PENDING_AUTHORIZATION"
    BY DEF InStep, Alone, Start
  <2>1. starts = 0 /\ starts' = 1
    BY BoundsAssumption DEF WInv, Counts, Start, Alone
  <2>2. file = NoWave
    BY <2>1 DEF WInv, InStep
  <2> QED
    BY <2>1, <2>2 DEF WInv, InStep, Start, NewWave
<1> QED
  BY <1>1, <1>2, <1>3 DEF WInv

\* A command that has read the file holds the wave that was there.
LEMMA ReadInv ==
    ASSUME WInv, NEW o \in Operator, NEW verb \in Verbs, NEW c \in Component, Read(o, verb, c)
    PROVE  WInv'
<1>1. /\ doing' = [doing EXCEPT ![o] = [verb |-> verb, component |-> c, wave |-> file]]
      /\ file # NoWave /\ c \in team[o]
      /\ UNCHANGED <<file, granted, ran, starts, team>>
  BY DEF Read
<1>2. /\ Counts'
      /\ \A p \in Operator : doing'[p] = IF p = o THEN [verb |-> verb, component |-> c, wave |-> file]
                                                  ELSE doing[p]
  BY <1>1 DEF WInv, Counts
<1>3. Waves'
  BY <1>1, <1>2 DEF WInv, Waves
<1>4. InStep'
  BY <1>1, <1>2 DEF WInv, InStep, Alone
<1> QED
  BY <1>2, <1>3, <1>4 DEF WInv

\* What a command writes is its copy of the wave with one component further; with one
\* command at a time that copy is the wave on disk.
LEMMA WriteFacts ==
    ASSUME WInv, NEW o \in Operator, Write(o)
    PROVE  \E c \in Component, verb \in Verbs :
            /\ SoundWave(file') /\ file' # NoWave
            /\ Onward(verb, doing[o].wave[c].status, file'[c].status)
            /\ \A d \in Component \ {c} : file'[d] = doing[o].wave[d]
            /\ granted' = IF verb = "authorize" THEN [granted EXCEPT ![c] = @ + 1] ELSE granted
            /\ Alone => /\ doing[o].wave = file /\ file # NoWave
                        /\ \A p \in Operator : doing'[p] = Idle
<1> DEFINE c == doing[o].component
           verb == doing[o].verb
           w == doing[o].wave
<1>1. /\ doing[o] # Idle /\ Accepts(verb, w[c])
      /\ file' = Written(w, verb, c)
      /\ granted' = IF verb = "authorize" THEN [granted EXCEPT ![c] = @ + 1] ELSE granted
      /\ doing' = [doing EXCEPT ![o] = Idle]
  BY DEF Write, Written
<1>2. c \in Component /\ verb \in Verbs /\ c \in team[o] /\ SoundWave(w)
  BY <1>1 DEF WInv, Waves
<1>3. ASSUME Alone
      PROVE  w = file /\ file # NoWave /\ \A p \in Operator : doing'[p] = Idle
  <2>1. w = file /\ file # NoWave
    BY <1>1, <1>3 DEF WInv, InStep
  <2>2. ASSUME NEW p \in Operator, p # o
        PROVE  doing[p] = Idle
    <3>1. team[p] = {}
      BY <1>2, <1>3, <2>2 DEF Alone
    <3> QED
      BY <3>1 DEF WInv, Waves
  <2> QED
    BY <1>1, <2>1, <2>2 DEF WInv, Counts
<1> HIDE DEF c, verb, w
<1>4. /\ SoundWave(file') /\ file' # NoWave
      /\ Onward(verb, w[c].status, file'[c].status)
      /\ \A d \in Component \ {c} : file'[d] = w[d]
  BY <1>1, <1>2, WrittenSound
<1>5. /\ Onward(verb, doing[o].wave[c].status, file'[c].status)
      /\ \A d \in Component \ {c} : file'[d] = doing[o].wave[d]
      /\ Alone => doing[o].wave = file /\ file # NoWave /\ \A p \in Operator : doing'[p] = Idle
  BY <1>3, <1>4 DEF w
<1> QED
  BY <1>1, <1>2, <1>4, <1>5

\* A command writes its wave.
LEMMA WriteInv ==
    ASSUME WInv, NEW o \in Operator, Write(o)
    PROVE  WInv'
<1>1. PICK c \in Component, verb \in Verbs :
        /\ SoundWave(file') /\ file' # NoWave
        /\ Onward(verb, doing[o].wave[c].status, file'[c].status)
        /\ \A d \in Component \ {c} : file'[d] = doing[o].wave[d]
        /\ granted' = IF verb = "authorize" THEN [granted EXCEPT ![c] = @ + 1] ELSE granted
        /\ Alone => /\ doing[o].wave = file /\ file # NoWave
                    /\ \A p \in Operator : doing'[p] = Idle
  BY WriteFacts
<1>2. doing' = [doing EXCEPT ![o] = Idle] /\ UNCHANGED <<ran, starts, team>>
  BY DEF Write
<1>3. Counts'
  BY <1>1, <1>2 DEF WInv, Counts
<1>4. Waves'
  BY <1>1, <1>2 DEF WInv, Waves, Counts
<1>5. InStep'
  <2> SUFFICES ASSUME Alone
               PROVE  InStep'
    BY <1>2 DEF InStep, Alone
  <2>1. /\ doing[o].wave = file /\ file # NoWave
        /\ \A p \in Operator : doing'[p] = Idle
    BY <1>1
  <2>2. starts # 0
    BY <2>1 DEF WInv, InStep
  <2>3. \A d \in Component :
            granted[d] + ran[d] = IF file[d].status = "PENDING_AUTHORIZATION" THEN 0 ELSE 1
    BY <2>1 DEF WInv, InStep
  <2>4. ASSUME NEW d \in Component
        PROVE  granted'[d] + ran'[d] = IF file'[d].status = "PENDING_AUTHORIZATION" THEN 0 ELSE 1
    <3>1. granted \in [Component -> Nat] /\ ran \in [Component -> Nat]
      BY DEF WInv, Counts
    <3>2. CASE d = c /\ verb = "authorize"
      <4>1. file[d].status = "PENDING_AUTHORIZATION" /\ file'[d].status = "AUTHORIZED"
        BY <1>1, <2>1, <3>2 DEF Onward
      <4>2. granted'[d] = granted[d] + 1 /\ ran' = ran
        BY <1>1, <1>2, <3>1, <3>2
      <4> QED
        BY <2>3, <3>1, <4>1, <4>2
    <3>3. CASE d = c /\ verb # "authorize"
      <4>1. /\ file[d].status # "PENDING_AUTHORIZATION"
            /\ file'[d].status # "PENDING_AUTHORIZATION"
        BY <1>1, <2>1, <3>3 DEF Onward
      <4> QED
        BY <1>1, <1>2, <2>3, <3>3, <4>1
    <3>4. CASE d # c
      <4>1. file'[d] = file[d] /\ granted'[d] = granted[d] /\ ran' = ran
        BY <1>1, <1>2, <2>1, <3>1, <3>4
      <4> QED
        BY <2>3, <4>1
    <3> QED
      BY <3>2, <3>3, <3>4
  <2> QED
    BY <1>1, <1>2, <2>1, <2>2, <2>4 DEF InStep
<1> QED
  BY <1>3, <1>4, <1>5 DEF WInv

\* A command that gives up, or a connector that acts, leaves the wave alone.
LEMMA AsideInv ==
    ASSUME WInv, (\E o \in Operator : GiveUp(o)) \/ (\E c \in Component : Connector(c))
    PROVE  WInv'
<1>1. ASSUME NEW o \in Operator, GiveUp(o)
      PROVE  WInv'
  BY <1>1 DEF GiveUp, WInv, Counts, Waves, InStep, Alone
<1>2. ASSUME NEW c \in Component, Connector(c)
      PROVE  WInv'
  <2>1. /\ granted' \in [Component -> Nat] /\ ran' \in [Component -> Nat]
        /\ \A d \in Component : granted'[d] + ran'[d] = granted[d] + ran[d]
        /\ UNCHANGED <<file, doing, starts, team>>
    BY <1>2 DEF Connector, WInv, Counts
  <2> QED
    BY <2>1 DEF WInv, Counts, Waves, InStep, Alone
<1> QED
  BY <1>1, <1>2

LEMMA StepInv ==
    ASSUME WInv, [Next]_vars
    PROVE  WInv'
<1>1. ASSUME NEW o \in Operator, Start(o) \/ Command(o) \/ Write(o)
      PROVE  WInv'
  BY <1>1, StartInv, ReadInv, WriteInv DEF Command
<1>2. CASE UNCHANGED vars
  BY <1>2 DEF vars, WInv, Counts, Waves, InStep, Alone
<1> QED
  BY <1>1, <1>2, AsideInv DEF Next

\* The invariant holds in every state of every behaviour.
LEMMA Invariance == Spec => []WInv
<1>1. WInv /\ [Next]_vars => WInv'
  BY StepInv
<1> QED
  BY <1>1, InitInv, PTL DEF Spec

-----------------------------------------------------------------------------
(* Theorems.                                                                *)

\* A sound wave passes the validators of DefenseWaveExecution and InterceptionExecution.
LEMMA SoundIsValid ==
    ASSUME NEW w, SoundWave(w)
    PROVE  DOMAIN w = Component /\ ValidWave(w)
<1>1. w = [c \in Component |-> w[c]]
  BY DEF SoundWave
<1>2. DOMAIN w = Component
  BY <1>1
<1>3. ASSUME NEW c \in Component
      PROVE  /\ w[c].status \in Statuses
             /\ w[c].execution.steps \in [DOMAIN Stops[c] -> StepStatuses]
             /\ w[c].execution.steps[Scheduled] = StepOfStatus[w[c].status]
             /\ \A i, j \in DOMAIN Stops[c] :
                {w[c].execution.steps[i], w[c].execution.steps[j]} \subseteq Active => i = j
  <2>1. Sound(c, w[c])
    BY DEF SoundWave
  <2>2. \A i \in DOMAIN Stops[c] : w[c].execution.steps[i] \in Active => i = Scheduled
    BY <2>1 DEF Sound, Active
  <2> QED
    BY <2>1, <2>2 DEF Sound, Components
<1> QED
  BY <1>2, <1>3 DEF ValidWave

\* Whatever operators write over each other, every wave on disk and in memory passes
\* the validators, for any components and plans.
THEOREM WaveTypeCorrect == Spec => []TypeOK
<1>1. WInv => TypeOK
  <2> SUFFICES ASSUME WInv
               PROVE  TypeOK
    OBVIOUS
  <2>1. ValidWave(file)
    <3>1. CASE file = NoWave
      BY <3>1 DEF ValidWave, NoWave
    <3>2. CASE file # NoWave
      BY <3>2, SoundIsValid DEF WInv, Waves
    <3> QED
      BY <3>1, <3>2
  <2>2. \A o \in Operator : doing[o] # Idle => ValidWave(doing[o].wave)
    BY SoundIsValid DEF WInv, Waves
  <2> QED
    BY <2>1, <2>2 DEF WInv, Counts, TypeOK
<1> QED
  BY <1>1, Invariance, PTL

\* Containment is reported, and steps are skipped, only on a verified success, with no
\* step due (verify_step_outcome), whatever operators write over each other.
THEOREM ContainmentAlwaysEarned == Spec => []ContainmentIsEarned
<1>1. WInv => ContainmentIsEarned
  <2> SUFFICES ASSUME WInv, NEW c \in DOMAIN file
               PROVE  LET e == file[c].execution
                      IN  /\ e.contained => file[c].status = "VERIFIED_SUCCEEDED" /\ e.complete
                          /\ (\E i \in DOMAIN e.steps : e.steps[i] = "SKIPPED") => e.contained
                          /\ e.complete => Pending(e) = {}
    BY DEF ContainmentIsEarned
  <2>1. file # NoWave
    BY DEF NoWave
  <2>2. c \in Component /\ Sound(c, file[c])
    BY <2>1, SoundIsValid DEF WInv, Waves, SoundWave
  <2>3. DOMAIN file[c].execution.steps = DOMAIN Stops[c]
    BY <2>2 DEF Sound, Components
  <2> QED
    BY <2>2, <2>3 DEF Sound, Pending
<1> QED
  BY <1>1, Invariance, PTL

\* No wave takes a component past its first step, and with one command at a time no
\* connector is given that step twice, for any number of components and operators.
THEOREM NeverExecutedTwice == Spec => []ExecutedOnce
<1>1. WInv => ExecutedOnce
  <2> SUFFICES ASSUME WInv
               PROVE  ExecutedOnce
    OBVIOUS
  <2>1. ASSUME NEW c \in DOMAIN file
        PROVE  \A i \in DOMAIN Stops[c] \ {Scheduled} :
                    file[c].execution.steps[i] \in {"PENDING", "SKIPPED"}
    <3>1. file # NoWave
      BY DEF NoWave
    <3>2. Sound(c, file[c])
      BY <3>1, SoundIsValid DEF WInv, Waves, SoundWave
    <3> QED
      BY <3>2 DEF Sound
  <2>2. Alone => \A c \in Component : granted[c] + ran[c] =< 1
    BY DEF WInv, InStep, Counts
  <2> QED
    BY <2>1, <2>2 DEF ExecutedOnce
<1> QED
  BY <1>1, Invariance, PTL

\* With one command at a time the wave is the lifecycle of each of its components: a
\* start begins it, a write moves one component one status forward, and nothing else
\* shows.
THEOREM LifecycleImplemented == Spec => ImplementsLifecycle
<1> DEFINE phase == [c \in Component |->
                        IF file = NoWave \/ ~Alone THEN "UNSCHEDULED" ELSE file[c].status]
<1>1. Init => Lifecycle!Init
  BY DEF Init, Lifecycle!Init
<1>2. ASSUME WInv, [Next]_vars
      PROVE  [Lifecycle!Next]_phase
  <2>1. Alone' <=> Alone
    BY <1>2 DEF Alone, Next, Start, Command, Read, Write, GiveUp, Connector, vars
  <2>2. CASE ~Alone
    BY <2>1, <2>2
  <2>3. CASE UNCHANGED file
    BY <2>1, <2>3
  <2>4. ASSUME Alone, NEW o \in Operator, Start(o)
        PROVE  [Lifecycle!Next]_phase
    <3>1. file = NoWave /\ file' = NewWave
      <4>1. starts = 0
        BY <1>2, <2>4, BoundsAssumption DEF WInv, Counts, Start, Alone
      <4> QED
        BY <1>2, <2>4, <4>1 DEF WInv, InStep, Start
    <3>2. NewWave # NoWave
      <4>1. PICK c \in Component : TRUE
        BY <1>2, <2>4, TeamsAssumption DEF Start, WInv, Counts
      <4>2. DOMAIN NewWave = Component
        BY DEF NewWave
      <4> QED
        BY <4>1, <4>2 DEF NoWave
    <3>3. /\ phase = [c \in Component |-> "UNSCHEDULED"]
          /\ phase' = [c \in Component |-> "PENDING_AUTHORIZATION"]
      BY <2>1, <2>4, <3>1, <3>2 DEF NewWave
    <3> QED
      BY <3>3 DEF Lifecycle!Next, Lifecycle!Begin
  <2>5. ASSUME Alone, NEW o \in Operator, Write(o)
        PROVE  [Lifecycle!Next]_phase
    <3>1. PICK c \in Component, verb \in Verbs :
            /\ file' # NoWave /\ file # NoWave
            /\ Onward(verb, file[c].status, file'[c].status)
            /\ \A d \in Component \ {c} : file'[d] = file[d]
      BY <1>2, <2>5, WriteFacts
    <3>2. /\ phase = [d \in Component |-> file[d].status]
          /\ phase' = [d \in Component |-> file'[d].status]
      BY <2>1, <2>5, <3>1
    <3>3. phase' = [phase EXCEPT ![c] = file'[c].status] /\ phase[c] = file[c].status
      <4>1. /\ DOMAIN phase = Component /\ DOMAIN phase' = Component
            /\ phase' = [d \in Component |-> phase'[d]]
            /\ \A d \in Component : phase[d] = file[d].status /\ phase'[d] = file'[d].status
        BY <3>2
      <4>2. \A d \in Component : phase'[d] = IF d = c THEN file'[c].status ELSE phase[d]
        BY <3>1, <4>1
      <4> HIDE DEF phase
      <4> QED
        BY <4>1, <4>2
    <3> QED
      BY <3>1, <3>3 DEF Lifecycle!Next, Lifecycle!Move, Onward
  <2> QED
    BY <1>2, <2>2, <2>3, <2>4, <2>5 DEF Next, Command, Read, GiveUp, Connector, vars
<1> QED
  BY <1>1, <1>2, Invariance, PTL DEF Spec, ImplementsLifecycle, Lifecycle!Spec
=============================================================================
