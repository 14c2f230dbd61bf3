------------------------ MODULE HedgedRequest_proofs ------------------------
(***************************************************************************)
(* Proofs about HedgedRequest, for any number of requests and attempts,    *)
(* with or without a stagger and an attempt timeout.                       *)
(***************************************************************************)
EXTENDS HedgedRequest, FiniteSetTheorems, TLAPS

\* What an attempt says of itself: a failed one is over, and one that timed
\* out was held against the provider then and cannot be a second time.
Sane(x) == /\ x.failed => x.phase = "closed"
           /\ x.timedOut => x.reported

\* Nobody but the consumer of the winner's body takes chunks.
Buffered(r) == \A a \in Slots : a # race[r].winner =>
                   att[r][a].got = att[r][a].queued

Whole(r) == race[r].winner # 0 =>
              LET w == att[r][race[r].winner] IN w.got = race[r].taken + w.queued

\* Nothing was sent.
Idle(r) == race[r].status = "idle" =>
             /\ ~race[r].cancelled
             /\ \A a \in Slots : att[r][a].phase = "none"

\* Nobody has won, what is not launched has not failed, and only the
\* no-progress timer has aborted anything.
Racing(r) == race[r].status = "racing" =>
               /\ race[r].launched <= race[r].total
               /\ \A a \in Slots :
                    /\ ~att[r][a].won
                    /\ att[r][a].aborted => att[r][a].timedOut
                    /\ a > race[r].launched => att[r][a].phase = "none"

\* The signal of every attempt but the winner's is aborted, which holds on a
\* detached transport too.
Decided(r) == Settled(r) =>
                \A a \in Slots :
                    a # race[r].winner /\ att[r][a].phase # "none"
                        => att[r][a].aborted

Winner(r) ==
    /\ race[r].winner # 0 <=> race[r].status = "resolved"
    /\ race[r].winner = 0 => race[r].taken = 0
    /\ race[r].winner # 0 =>
         LET w == att[r][race[r].winner] IN
         /\ w.won /\ w.phase \in {"body", "closed"}
         /\ race[r].detached \/ ~w.aborted

Good(r) == /\ \A a \in Slots : Sane(att[r][a])
           /\ Buffered(r) /\ Whole(r) /\ Idle(r) /\ Racing(r) /\ Decided(r)
           /\ Winner(r)

IInv == TypeOK /\ \A r \in Requests : Good(r)

LEMMA InvariantGives == IInv => RaceInv /\ BodyIsWhole
<1> SUFFICES ASSUME IInv PROVE RaceInv /\ BodyIsWhole
  OBVIOUS
<1>1. TypeOK /\ BodyIsWhole
  BY DEF IInv, Good, Whole, BodyIsWhole
<1>2. OnlyWinnerStreams
  BY DEF IInv, Good, Decided, OnlyWinnerStreams, Open, Stopped, Waiting
<1>3. WinnerIsNotAborted
  BY DEF IInv, Good, Winner, WinnerIsNotAborted
<1> QED BY <1>1, <1>2, <1>3 DEF RaceInv, WinnerStreamsAlone

-----------------------------------------------------------------------------
(***************************************************************************)
(* The governor.                                                           *)
(***************************************************************************)

\* Whatever is reported, the allowance stays between one and the ceiling:
\* turboGovernor.ts needs no clamp of its own on the way down.
LEMMA GovernorStays ==
    ASSUME NEW g \in Governors
    PROVE  /\ Halves(g) \in Governors
           /\ \A o \in {"ok", "overload", "none", "client"} :
                Reported(g, o) \in Governors
<1>1. Ceiling \in Nat \ {0}
  BY CeilingAssumption
<1>2. Halves(g) \in Governors
  <2>1. g.allowance # 1 => g.allowance \div 2 \in 1 .. Ceiling
    BY <1>1 DEF Governors
  <2> QED BY <2>1, <1>1 DEF Halves, Governors, SuccessStreakPerStep
<1>3. Grows(g) \in Governors
  <2>1. CASE g.cooling
    BY <2>1 DEF Grows
  <2>2. CASE ~g.cooling /\ g.successStreak + 1 < SuccessStreakPerStep
    BY <2>2 DEF Grows, Governors, SuccessStreakPerStep
  <2>3. CASE ~g.cooling /\ ~(g.successStreak + 1 < SuccessStreakPerStep)
    <3> DEFINE m == IF g.allowance < Ceiling THEN g.allowance + 1 ELSE Ceiling
    <3>1. m \in 1 .. Ceiling
      BY <1>1 DEF Governors
    <3>2. Grows(g) = [allowance |-> m, successStreak |-> 0,
                      cooling |-> g.cooling]
      BY <2>3 DEF Grows, Governors
    <3> HIDE DEF m
    <3> QED BY <3>1, <3>2 DEF Governors, SuccessStreakPerStep
  <2> QED BY <2>1, <2>2, <2>3
<1> QED BY <1>2, <1>3 DEF Reported

LEMMA FreshIs ==
    ASSUME NEW p \in Phases
    PROVE  Fresh(p) \in Attempts
BY BoundAssumption DEF Fresh, Attempts, Phases

LEMMA TotalIs ==
    ASSUME gov \in Governors
    PROVE  Total \in 1 .. Hedges
BY HedgesAssumption, CeilingAssumption DEF Total, Governors

-----------------------------------------------------------------------------
(***************************************************************************)
(* A step of one request leaves the others alone, and the initial state.   *)
(***************************************************************************)

LEMMA OneRequest ==
    ASSUME IInv, TypeOK', NEW r \in Requests, Good(r)',
           \A s \in Requests \ {r} : race'[s] = race[s] /\ att'[s] = att[s]
    PROVE  IInv'
<1> SUFFICES ASSUME NEW s \in Requests, s # r
             PROVE  Good(s)'
  BY DEF IInv
<1>1. Good(s) /\ race'[s] = race[s] /\ att'[s] = att[s]
  BY DEF IInv
<1>2. (\A a \in Slots : Sane(att[s][a])') /\ Buffered(s)' /\ Whole(s)'
  BY <1>1 DEF Good, Sane, Buffered, Whole
<1>3. Idle(s)' /\ Racing(s)' /\ Decided(s)'
  BY <1>1 DEF Good, Idle, Racing, Decided, Settled
<1>4. Winner(s)'
  BY <1>1 DEF Good, Winner
<1> QED BY <1>2, <1>3, <1>4 DEF Good

LEMMA SameRequests ==
    ASSUME IInv, TypeOK', UNCHANGED <<race, att>>
    PROVE  IInv'
BY DEF IInv, Good, Sane, Buffered, Whole, Idle, Racing, Decided, Settled,
       Winner

LEMMA InitialState == Init => IInv
<1> SUFFICES ASSUME Init PROVE IInv
  OBVIOUS
<1>1. TypeOK
  <2>1. gov \in Governors
    BY CeilingAssumption
       DEF Init, NewGovernor, Governors, SuccessStreakPerStep
  <2>2. race \in [Requests -> Races]
    BY HedgesAssumption, BoundAssumption DEF Init, NewRace, Races
  <2>3. att \in [Requests -> [Slots -> Attempts]]
    BY FreshIs DEF Init, Phases
  <2> QED BY <2>1, <2>2, <2>3, BoundAssumption DEF Init, TypeOK
<1>2. ASSUME NEW r \in Requests PROVE Good(r)
  BY DEF Init, NewRace, Fresh, Good, Sane, Buffered, Whole, Idle, Racing,
         Decided, Settled, Winner
<1> QED BY <1>1, <1>2 DEF IInv

-----------------------------------------------------------------------------
(***************************************************************************)
(* The caller.                                                             *)
(***************************************************************************)

LEMMA GoodBegin ==
    ASSUME IInv, NEW r \in Requests, Begin(r)
    PROVE  IInv'
<1>1. Total \in 1 .. Hedges
  BY TotalIs DEF IInv, TypeOK
<1>2. PICK d \in BOOLEAN :
        LET n == IF Staggered THEN 1 ELSE Total IN
        /\ race' = [race EXCEPT ![r] =
                      [NewRace EXCEPT !.status = "racing", !.total = Total,
                                      !.launched = n, !.detached = d]]
        /\ att' = [att EXCEPT ![r] =
                     [a \in Slots |-> Fresh(IF a <= n THEN "connecting"
                                                      ELSE "none")]]
  BY DEF Begin
<1> DEFINE n == IF Staggered THEN 1 ELSE Total
<1>3. n \in 1 .. Hedges /\ n <= Total
  BY <1>1, HedgesAssumption
<1>4. TypeOK'
  <2>1. [NewRace EXCEPT !.status = "racing", !.total = Total,
                        !.launched = n, !.detached = d] \in Races
    <3>1. Total \in 0 .. Hedges /\ n \in 0 .. Hedges
      BY <1>1, <1>3
    <3>2. NewRace \in Races
      BY BoundAssumption, HedgesAssumption DEF NewRace, Races
    <3> HIDE DEF n
    <3> QED BY <3>1, <3>2 DEF Races
  <2>3. race' \in [Requests -> Races]
    BY <1>2, <2>1 DEF IInv, TypeOK
  <2>2. att' \in [Requests -> [Slots -> Attempts]]
    BY <1>2, FreshIs DEF IInv, TypeOK, Phases
  <2> QED BY <2>2, <2>3 DEF Begin, IInv, TypeOK
<1>5. \A s \in Requests \ {r} : race'[s] = race[s] /\ att'[s] = att[s]
  BY <1>2 DEF IInv, TypeOK
<1>6. /\ race'[r].status = "racing" /\ race'[r].launched = n
      /\ race'[r].total = Total /\ race'[r].winner = 0 /\ race'[r].taken = 0
      /\ \A a \in Slots :
           att'[r][a] = Fresh(IF a <= n THEN "connecting" ELSE "none")
  BY <1>2 DEF IInv, TypeOK, Races, NewRace
<1>7. \A a \in Slots :
         /\ Sane(att'[r][a]) /\ ~att'[r][a].won /\ ~att'[r][a].aborted
         /\ att'[r][a].got = 0 /\ att'[r][a].queued = 0
         /\ a > n => att'[r][a].phase = "none"
  <2> TAKE a \in Slots
  <2>1. att'[r][a] = Fresh(IF a <= n THEN "connecting" ELSE "none")
    BY <1>6
  <2>2. a \in Nat /\ n \in Nat
    BY <1>3, HedgesAssumption DEF Slots
  <2> QED BY <2>1, <2>2 DEF Fresh, Sane
<1>8. Good(r)'
  BY <1>3, <1>6, <1>7
     DEF Good, Buffered, Whole, Idle, Racing, Decided, Settled, Winner, Sane
<1> QED BY <1>4, <1>5, <1>8, OneRequest

LEMMA GoodBeginAborted ==
    ASSUME IInv, NEW r \in Requests, BeginAborted(r)
    PROVE  IInv'
<1>1. /\ race'[r].status = "rejected" /\ race'[r].winner = race[r].winner
      /\ race'[r].taken = race[r].taken /\ att'[r] = att[r]
      /\ race[r].status = "idle"
  BY DEF BeginAborted, IInv, TypeOK, Races
<1>2. TypeOK'
  BY ZenonT(30) DEF BeginAborted, IInv, TypeOK, Races
<1>3. \A s \in Requests \ {r} : race'[s] = race[s] /\ att'[s] = att[s]
  BY DEF BeginAborted, IInv, TypeOK
<1>4. Good(r)
  BY DEF IInv
<1>5. Good(r)'
  BY <1>1, <1>4 DEF Good, Sane, Buffered, Whole, Idle, Racing, Decided,
                    Settled, Winner
<1> QED BY <1>2, <1>3, <1>5, OneRequest

LEMMA GoodAgain ==
    ASSUME IInv, NEW r \in Requests, Again(r)
    PROVE  IInv'
<1>1. race'[r] = NewRace /\ \A a \in Slots : att'[r][a] = Fresh("none")
  BY DEF Again, IInv, TypeOK
<1>2. TypeOK'
  <2>1. NewRace \in Races /\ [a \in Slots |-> Fresh("none")] \in [Slots -> Attempts]
    BY FreshIs, HedgesAssumption, BoundAssumption DEF NewRace, Races, Phases
  <2> QED BY <2>1 DEF Again, IInv, TypeOK
<1>3. \A s \in Requests \ {r} : race'[s] = race[s] /\ att'[s] = att[s]
  BY DEF Again, IInv, TypeOK
<1>4. Good(r)'
  BY <1>1 DEF NewRace, Fresh, Good, Sane, Buffered, Whole, Idle, Racing,
              Decided, Settled, Winner
<1> QED BY <1>2, <1>3, <1>4, OneRequest

\* All attempts of a request are aborted, and nothing else of them changes.
LEMMA AbortAllIs ==
    ASSUME NEW t \in [Slots -> Attempts]
    PROVE  /\ AbortAll(t) \in [Slots -> Attempts]
           /\ \A a \in Slots :
                AbortAll(t)[a] =
                  [t[a] EXCEPT !.aborted = t[a].aborted \/ t[a].phase # "none"]
BY DEF AbortAll, Attempts

LEMMA GoodCancel ==
    ASSUME IInv, NEW r \in Requests, Cancel(r)
    PROVE  IInv'
<1>1. race[r] \in Races /\ att[r] \in [Slots -> Attempts] /\ Good(r)
  BY DEF IInv, TypeOK
<1>2. race' \in [Requests -> Races]
      /\ race'[r] = [race[r] EXCEPT !.cancelled = TRUE,
                       !.status = IF race[r].status = "racing" THEN "rejected"
                                  ELSE race[r].status]
  <2> DEFINE n == [race[r] EXCEPT !.cancelled = TRUE,
                     !.status = IF race[r].status = "racing" THEN "rejected"
                                ELSE race[r].status]
  <2>1. race \in [Requests -> Races] /\ race' = [race EXCEPT ![r] = n]
    BY DEF Cancel, IInv, TypeOK
  <2>2. n \in Races
    BY <1>1 DEF Races
  <2> HIDE DEF n
  <2>3. race' \in [Requests -> Races] /\ race'[r] = n
    BY <2>1, <2>2
  <2> QED BY <2>3 DEF n
<1>3. /\ att' \in [Requests -> [Slots -> Attempts]]
      /\ att'[r] = IF race[r].status = "racing" THEN AbortAll(att[r])
                   ELSE att[r]
  BY <1>1, AbortAllIs DEF Cancel, IInv, TypeOK
<1>4. TypeOK'
  BY <1>2, <1>3 DEF Cancel, IInv, TypeOK
<1>5. \A s \in Requests \ {r} : race'[s] = race[s] /\ att'[s] = att[s]
  BY DEF Cancel, IInv, TypeOK
<1>6. CASE race[r].status = "racing"
  <2>1. /\ race'[r].status = "rejected" /\ race'[r].winner = race[r].winner
        /\ race'[r].taken = race[r].taken
    BY <1>1, <1>2, <1>6 DEF Races
  <2>2. \A a \in Slots :
          att'[r][a] = [att[r][a] EXCEPT !.aborted =
                          att[r][a].aborted \/ att[r][a].phase # "none"]
    BY <1>1, <1>3, <1>6, AbortAllIs
  <2>3. \A a \in Slots :
          /\ att'[r][a].phase = att[r][a].phase
          /\ att'[r][a].got = att[r][a].got
          /\ att'[r][a].queued = att[r][a].queued
          /\ Sane(att'[r][a]) <=> Sane(att[r][a])
          /\ att'[r][a].phase # "none" => att'[r][a].aborted
    <3> TAKE a \in Slots
    <3>1. att[r][a] \in Attempts
      BY <1>1
    <3>2. att'[r][a] = [att[r][a] EXCEPT !.aborted =
                          att[r][a].aborted \/ att[r][a].phase # "none"]
      BY <2>2
    <3> QED BY <3>1, <3>2 DEF Attempts, Sane
  <2>4. Good(r)'
    BY <1>1, <1>6, <2>1, <2>3
       DEF Good, Sane, Buffered, Whole, Idle, Racing, Decided, Settled, Winner
  <2> QED BY <1>4, <1>5, <2>4, OneRequest
<1>7. CASE race[r].status # "racing"
  <2>1. /\ race'[r].status = race[r].status /\ race[r].status = "resolved"
        /\ race'[r].winner = race[r].winner /\ race'[r].taken = race[r].taken
        /\ race'[r].detached = race[r].detached
        /\ att'[r] = att[r]
    BY <1>1, <1>2, <1>3, <1>7 DEF Races, Cancel
  <2>2. Good(r)'
    BY <1>1, <2>1
       DEF Good, Sane, Buffered, Whole, Idle, Racing, Decided, Settled, Winner
  <2> QED BY <1>4, <1>5, <2>2, OneRequest
<1> QED BY <1>6, <1>7

LEMMA GoodTake ==
    ASSUME IInv, NEW r \in Requests, Take(r)
    PROVE  IInv'
<1> DEFINE w == race[r].winner
<1>1. /\ race[r] \in Races /\ att[r] \in [Slots -> Attempts] /\ Good(r)
      /\ w \in Slots /\ att[r][w].queued > 0
  BY HedgesAssumption DEF IInv, TypeOK, Take, Races, Slots
<1>2. att[r][w].got = race[r].taken + att[r][w].queued
  BY <1>1 DEF Good, Whole, Take
<1>3. att' = [att EXCEPT ![r] = [att[r] EXCEPT ![w] =
                [att[r][w] EXCEPT !.queued = att[r][w].queued - 1]]]
  BY DEF Take
<1>4. /\ race' \in [Requests -> Races]
      /\ race'[r] = [race[r] EXCEPT !.taken = race[r].taken + 1]
  <2>1. att[r][w] \in Attempts /\ race[r].taken \in Nat
    BY <1>1, BoundAssumption DEF Races
  <2>2. race[r].taken + 1 \in 0 .. MaxBody
    BY <1>1, <1>2, <2>1, BoundAssumption DEF Attempts
  <2>3. [race[r] EXCEPT !.taken = race[r].taken + 1] \in Races
    BY <1>1, <2>2 DEF Races
  <2> QED BY <2>3 DEF Take, IInv, TypeOK
<1>5. att' \in [Requests -> [Slots -> Attempts]]
  BY SMTT(30), <1>1, <1>3, BoundAssumption DEF IInv, TypeOK, Attempts
<1>6. TypeOK'
  BY <1>4, <1>5 DEF Take, IInv, TypeOK
<1>7. \A s \in Requests \ {r} : race'[s] = race[s] /\ att'[s] = att[s]
  BY DEF Take, IInv, TypeOK
<1>8. /\ race'[r].status = race[r].status /\ race'[r].winner = w
      /\ race'[r].taken = race[r].taken + 1
      /\ race'[r].launched = race[r].launched /\ race'[r].total = race[r].total
      /\ race'[r].cancelled = race[r].cancelled
      /\ race'[r].detached = race[r].detached
  BY <1>1, <1>4 DEF Races
<1>9. /\ \A a \in Slots \ {w} : att'[r][a] = att[r][a]
      /\ att'[r][w] = [att[r][w] EXCEPT !.queued = att[r][w].queued - 1]
  BY <1>1, <1>3 DEF IInv, TypeOK
<1>10. \A a \in Slots :
          /\ att'[r][a].phase = att[r][a].phase
          /\ att'[r][a].got = att[r][a].got
          /\ att'[r][a].won = att[r][a].won
          /\ att'[r][a].aborted = att[r][a].aborted
          /\ att'[r][a].timedOut = att[r][a].timedOut
          /\ Sane(att'[r][a]) <=> Sane(att[r][a])
          /\ att'[r][a].queued = IF a = w THEN att[r][a].queued - 1
                                 ELSE att[r][a].queued
  <2> TAKE a \in Slots
  <2>1. CASE a = w
    <3> DEFINE x == att[r][w]
    <3>1. x \in Attempts /\ att'[r][w] = [x EXCEPT !.queued = x.queued - 1]
      BY <1>1, <1>9
    <3> HIDE DEF x
    <3>2. /\ att'[r][w].queued = x.queued - 1
          /\ att'[r][w].phase = x.phase /\ att'[r][w].got = x.got
          /\ att'[r][w].won = x.won /\ att'[r][w].aborted = x.aborted
          /\ att'[r][w].timedOut = x.timedOut
          /\ att'[r][w].failed = x.failed /\ att'[r][w].reported = x.reported
      BY <3>1 DEF Attempts
    <3> QED BY <2>1, <3>2 DEF x, Sane
  <2>2. CASE a # w
    BY <1>9, <2>2
  <2> QED BY <2>1, <2>2
<1>11. Whole(r)'
  <2>1. /\ att'[r][w].got = att[r][w].got
        /\ att'[r][w].queued = att[r][w].queued - 1
    BY <1>1, <1>10
  <2>2. race[r].taken \in Int /\ att[r][w].queued \in Int
    BY <1>1, BoundAssumption DEF Attempts, Races
  <2> QED BY <1>2, <1>8, <2>1, <2>2 DEF Whole
<1>12. Winner(r)'
  BY SMTT(30), <1>1, <1>8, <1>10 DEF Good, Winner, Take
<1>13. Good(r)'
  BY SMTT(30), <1>1, <1>8, <1>10, <1>11, <1>12
     DEF Good, Buffered, Idle, Racing, Decided, Settled
<1> QED BY <1>6, <1>7, <1>13, OneRequest

-----------------------------------------------------------------------------
(***************************************************************************)
(* The attempts.                                                           *)
(***************************************************************************)

\* A step that changes one launched attempt, and how it may change it.
LEMMA OneAttempt ==
    ASSUME IInv, NEW r \in Requests, NEW a \in Slots, NEW x \in Attempts,
           att' = [att EXCEPT ![r] = [att[r] EXCEPT ![a] = x]],
           UNCHANGED <<race, pressure>>, gov' \in Governors,
           att[r][a].phase # "none", x.phase # "none", Sane(x),
           race[r].status = "racing" =>
               ~x.won /\ (x.aborted => x.timedOut),
           att[r][a].aborted => x.aborted,
           a # race[r].winner => x.got = x.queued,
           a = race[r].winner =>
               /\ x.won /\ x.phase \in {"body", "closed"}
               /\ x.aborted => att[r][a].aborted
               /\ x.got = race[r].taken + x.queued
    PROVE  IInv'
<1>1. TypeOK'
  BY DEF IInv, TypeOK
<1>2. \A s \in Requests \ {r} : race'[s] = race[s] /\ att'[s] = att[s]
  BY DEF IInv, TypeOK
<1>3. race'[r] = race[r] /\ Good(r)
  BY DEF IInv
<1>4. att'[r][a] = x /\ \A b \in Slots \ {a} : att'[r][b] = att[r][b]
  BY DEF IInv, TypeOK
<1>5. Buffered(r)'
  BY <1>3, <1>4 DEF Good, Buffered
<1>6. Whole(r)'
  <2>1. race[r].winner # 0 => race[r].winner \in Slots
    BY HedgesAssumption DEF IInv, TypeOK, Races, Slots
  <2> QED BY <1>3, <1>4, <2>1 DEF Good, Whole
<1>7. Idle(r)' /\ Racing(r)' /\ Decided(r)'
  BY <1>3, <1>4 DEF Good, Idle, Racing, Decided, Settled
<1>8. Winner(r)'
  <2>1. race[r].winner # 0 => race[r].winner \in Slots
    BY HedgesAssumption DEF IInv, TypeOK, Races, Slots
  <2> QED BY <1>3, <1>4, <2>1 DEF Good, Winner
<1>9. Good(r)'
  BY <1>3, <1>4, <1>5, <1>6, <1>7, <1>8 DEF Good
<1> QED BY <1>1, <1>2, <1>9, OneRequest

LEMMA GoodLaunch ==
    ASSUME IInv, NEW r \in Requests, Launch(r)
    PROVE  IInv'
<1> DEFINE a == race[r].launched + 1
<1>1. /\ race[r] \in Races /\ att[r] \in [Slots -> Attempts] /\ Good(r)
      /\ race[r].status = "racing" /\ a \in Slots /\ a <= race[r].total
  BY HedgesAssumption DEF IInv, TypeOK, Launch, Races, Slots
<1>2. /\ race' = [race EXCEPT ![r] = [race[r] EXCEPT !.launched = a]]
      /\ att' = [att EXCEPT ![r] = [att[r] EXCEPT ![a] = Fresh("connecting")]]
  BY DEF Launch
<1>3. TypeOK'
  <2>1. [race[r] EXCEPT !.launched = a] \in Races
    BY <1>1 DEF Races, Slots
  <2>2. Fresh("connecting") \in Attempts
    BY FreshIs DEF Phases
  <2> QED BY <1>1, <1>2, <2>1, <2>2 DEF Launch, IInv, TypeOK
<1>4. \A s \in Requests \ {r} : race'[s] = race[s] /\ att'[s] = att[s]
  BY <1>2 DEF IInv, TypeOK
<1>5. /\ race'[r].status = "racing" /\ race'[r].launched = a
      /\ race'[r].total = race[r].total /\ race'[r].winner = race[r].winner
      /\ race'[r].taken = race[r].taken
  BY <1>1, <1>2 DEF IInv, TypeOK, Races
<1>6. /\ att'[r][a] = Fresh("connecting")
      /\ \A b \in Slots \ {a} : att'[r][b] = att[r][b]
  BY <1>1, <1>2 DEF IInv, TypeOK
<1>7. Sane(att'[r][a]) /\ ~att'[r][a].won /\ ~att'[r][a].aborted
      /\ att'[r][a].got = 0 /\ att'[r][a].queued = 0
  BY <1>6 DEF Fresh, Sane
<1>8. race[r].winner = 0
  BY <1>1 DEF Good, Winner
<1>9. Racing(r)'
  <2>1. \A b \in Slots : /\ ~att'[r][b].won
                         /\ att'[r][b].aborted => att'[r][b].timedOut
    BY <1>1, <1>6, <1>7 DEF Good, Racing
  <2>2. \A b \in Slots : b > a => b # a /\ b > race[r].launched
    BY <1>1, HedgesAssumption DEF Slots, Races
  <2> HIDE DEF a
  <2> QED BY <1>1, <1>5, <1>6, <2>1, <2>2 DEF Good, Racing
<1> HIDE DEF a
<1>10. Good(r)'
  BY <1>1, <1>5, <1>6, <1>7, <1>8, <1>9
     DEF Good, Buffered, Whole, Idle, Decided, Settled, Winner
<1> QED BY <1>3, <1>4, <1>10, OneRequest

\* The attempt of a phase before the body, or a loser's, is not the winner's.
LEMMA LoserIs ==
    ASSUME IInv, NEW r \in Requests, NEW a \in Slots,
           ~att[r][a].won \/ att[r][a].phase \notin {"body", "closed"}
    PROVE  /\ a # race[r].winner
           /\ att[r][a].got = att[r][a].queued
BY DEF IInv, Good, Winner, Buffered, Slots

LEMMA RacingIs ==
    ASSUME IInv, NEW r \in Requests, NEW a \in Slots,
           race[r].status = "racing"
    PROVE  ~att[r][a].won /\ (att[r][a].aborted => att[r][a].timedOut)
BY DEF IInv, Good, Racing

LEMMA GoodAnswer ==
    ASSUME IInv, NEW r \in Requests, NEW a \in Slots, Answer(r, a)
    PROVE  IInv'
<1>1. PICK p \in {"body", "overload", "client"} :
        att' = [att EXCEPT ![r] = [att[r] EXCEPT ![a] =
                  [att[r][a] EXCEPT !.phase = p]]]
  BY DEF Answer
<1> DEFINE x == [att[r][a] EXCEPT !.phase = p]
<1>2. att[r][a] \in Attempts /\ Sane(att[r][a])
  BY DEF IInv, TypeOK, Good
<1>3. /\ x \in Attempts /\ x.phase = p /\ x.won = att[r][a].won
      /\ x.aborted = att[r][a].aborted /\ x.got = att[r][a].got
      /\ x.queued = att[r][a].queued /\ x.timedOut = att[r][a].timedOut
  BY <1>2 DEF Attempts, Phases
<1>4. Sane(x)
  BY <1>2 DEF Sane, Attempts, Answer
<1>5. a # race[r].winner /\ x.got = x.queued
  BY <1>3, LoserIs DEF Answer
<1>6. race[r].status = "racing" => ~x.won /\ (x.aborted => x.timedOut)
  BY <1>3, RacingIs
<1>7. gov' \in Governors /\ UNCHANGED <<race, pressure>>
      /\ att[r][a].phase # "none"
  BY DEF Answer, IInv, TypeOK
<1> HIDE DEF x
<1> QED BY <1>1, <1>3, <1>4, <1>5, <1>6, <1>7, OneAttempt DEF x

LEMMA GoodAttemptTimer ==
    ASSUME IInv, NEW r \in Requests, NEW a \in Slots, AttemptTimer(r, a)
    PROVE  IInv'
<1>1. att[r][a] \in Attempts /\ Sane(att[r][a])
      /\ att[r][a].phase \in Waiting /\ ~att[r][a].won
      /\ ~att[r][a].timedOut /\ ~att[r][a].failed
  BY DEF IInv, TypeOK, Good, AttemptTimer
<1>2. att[r][a].reported \/ Penalised(att[r][a])
  BY <1>1, RacingIs DEF Penalised, AttemptTimer
<1> DEFINE v == att[r][a].reported \/ Penalised(att[r][a])
           x == [att[r][a] EXCEPT !.timedOut = TRUE, !.aborted = TRUE,
                                  !.reported = v]
<1>3. att' = [att EXCEPT ![r] = [att[r] EXCEPT ![a] = x]]
  BY DEF AttemptTimer
<1>4. v = TRUE
  BY <1>2
<1> HIDE DEF v
<1>5. /\ x \in Attempts /\ x.phase = att[r][a].phase
      /\ x.won = att[r][a].won /\ x.got = att[r][a].got
      /\ x.queued = att[r][a].queued /\ x.failed = att[r][a].failed
      /\ x.timedOut /\ x.aborted /\ x.reported
  BY <1>1, <1>4 DEF Attempts
<1>6. Sane(x) /\ x.phase # "none" /\ att[r][a].phase # "none"
  BY <1>1, <1>5 DEF Sane, Waiting
<1>7. a # race[r].winner /\ x.got = x.queued
  BY <1>1, <1>5, LoserIs
<1>8. gov' \in Governors
  BY GovernorStays DEF AttemptTimer, IInv, TypeOK
<1>9. UNCHANGED <<race, pressure>>
  BY DEF AttemptTimer
<1> HIDE DEF x
<1> QED BY <1>1, <1>3, <1>5, <1>6, <1>7, <1>8, <1>9, OneAttempt

-----------------------------------------------------------------------------
(***************************************************************************)
(* Failures.  The attempt fails as x, which its last read left.            *)
(***************************************************************************)

\* When an attempt fails in a race that is open, it was not held against the
\* provider for an abort of ours: only the timer aborts then.
LEMMA GoodFails ==
    ASSUME IInv, NEW r \in Requests, NEW a \in Slots,
           NEW outcome \in {"overload", "none", "client"}, NEW x \in Attempts,
           att[r][a].phase \in Waiting,
           ~att[r][a].won \/ att[r][a].phase # "body", x.won = att[r][a].won,
           x.aborted = att[r][a].aborted, x.timedOut = att[r][a].timedOut,
           x.reported = att[r][a].reported, x.got = x.queued,
           Fails(r, a, outcome, x), pressure' = pressure
    PROVE  IInv'
<1>1. /\ race[r] \in Races /\ att[r] \in [Slots -> Attempts] /\ Good(r)
      /\ att[r][a] \in Attempts /\ Sane(att[r][a])
  BY DEF IInv, TypeOK, Good
<1> DEFINE v == x.reported \/ Penalised(x)
           y == [x EXCEPT !.failed = TRUE, !.phase = "closed", !.reported = v]
           t == [att[r] EXCEPT ![a] = y]
<1>2. v \in BOOLEAN /\ (x.reported => v)
  BY DEF Attempts, Penalised
<1>3. /\ y \in Attempts /\ y.phase = "closed" /\ y.failed
      /\ y.won = att[r][a].won /\ y.aborted = att[r][a].aborted
      /\ y.timedOut = att[r][a].timedOut /\ y.got = y.queued
      /\ att[r][a].reported => y.reported
  <2> HIDE DEF v
  <2> QED BY <1>2 DEF Attempts, Phases
<1>4. Sane(y)
  BY <1>1, <1>3 DEF Sane
<1>5. gov' \in Governors
  BY GovernorStays DEF Fails, IInv, TypeOK
<1>6. a # race[r].winner
  BY LoserIs DEF Waiting
<1>7. IF Exhausted(r, t) THEN Rejects(r, t)
      ELSE att' = [att EXCEPT ![r] = t] /\ UNCHANGED race
  BY DEF Fails
<1> HIDE DEF v, y
<1>8. t \in [Slots -> Attempts]
  BY <1>1, <1>3
<1>9. CASE ~Exhausted(r, t)
  <2>1. att' = [att EXCEPT ![r] = [att[r] EXCEPT ![a] = y]]
        /\ UNCHANGED race
    BY <1>7, <1>9
  <2>2. race[r].status = "racing" => ~y.won /\ (y.aborted => y.timedOut)
    BY <1>3, RacingIs
  <2>3. att[r][a].phase # "none" /\ y.phase # "none" /\ pressure' = pressure
    BY <1>3 DEF Waiting
  <2> QED BY <1>3, <1>4, <1>5, <1>6, <2>1, <2>2, <2>3, OneAttempt
<1>10. CASE Exhausted(r, t)
  <2>1. /\ race' = [race EXCEPT ![r] = [race[r] EXCEPT !.status = "rejected"]]
        /\ att' = [att EXCEPT ![r] = AbortAll(t)]
        /\ race[r].status = "racing"
    BY <1>7, <1>10 DEF Rejects, Exhausted
  <2> HIDE DEF t
  <2>2. TypeOK'
    <3>1. [race[r] EXCEPT !.status = "rejected"] \in Races
      BY <1>1 DEF Races
    <3>2. AbortAll(t) \in [Slots -> Attempts]
      BY <1>8, AbortAllIs
    <3> QED BY <1>5, <2>1, <3>1, <3>2 DEF IInv, TypeOK
  <2>3. \A s \in Requests \ {r} : race'[s] = race[s] /\ att'[s] = att[s]
    BY <2>1 DEF IInv, TypeOK
  <2>4. /\ race'[r].status = "rejected" /\ race'[r].winner = race[r].winner
        /\ race'[r].taken = race[r].taken
    BY <1>1, <2>1 DEF IInv, TypeOK, Races
  <2>5. \A b \in Slots :
          /\ att'[r][b].phase # "none" => att'[r][b].aborted
          /\ att'[r][b].got = t[b].got /\ att'[r][b].queued = t[b].queued
          /\ Sane(t[b]) => Sane(att'[r][b])
    <3> TAKE b \in Slots
    <3>1. t[b] \in Attempts
      BY <1>8
    <3>2. att'[r][b] = [t[b] EXCEPT !.aborted =
                          t[b].aborted \/ t[b].phase # "none"]
      BY <1>8, <2>1, AbortAllIs DEF IInv, TypeOK
    <3> QED BY <3>1, <3>2 DEF Attempts, Sane
  <2>6. \A b \in Slots : Sane(t[b]) /\ (b # race[r].winner => t[b].got = t[b].queued)
    BY <1>1, <1>3, <1>4 DEF Good, Buffered, t
  <2>7. race[r].winner = 0
    BY <1>1, <2>1 DEF Good, Winner
  <2>8. Good(r)'
    BY <1>1, <2>4, <2>5, <2>6, <2>7
       DEF Good, Buffered, Whole, Idle, Racing, Decided, Settled, Winner
  <2> QED BY <2>2, <2>3, <2>8, OneRequest
<1> QED BY <1>9, <1>10

LEMMA GoodThrow ==
    ASSUME IInv, NEW r \in Requests, NEW a \in Slots,
           Throw(r, a) \/ NoBody(r, a)
    PROVE  IInv'
<1>1. PICK outcome \in {"overload", "none", "client"} :
        Fails(r, a, outcome, att[r][a])
  BY DEF Throw, NoBody
<1>2. att[r][a].phase \in {"connecting", "overload", "client"}
      /\ pressure' = pressure
  BY DEF Throw, NoBody
<1>3. att[r][a] \in Attempts /\ att[r][a].got = att[r][a].queued
  BY <1>2, LoserIs DEF IInv, TypeOK
<1> QED BY <1>1, <1>2, <1>3, GoodFails DEF Waiting

\* A chunk read from a connection whose stream nobody consumes yet, or that
\* the consumer has emptied, leaves counters that fit.
LEMMA PassedIs ==
    ASSUME NEW x \in Attempts, x.got < MaxBody, x.queued <= x.got
    PROVE  /\ Passed(x) \in Attempts
           /\ Passed(x).got = x.got + 1 /\ Passed(x).queued = x.queued + 1
           /\ Passed(x).phase = x.phase /\ Passed(x).won = x.won
           /\ Passed(x).aborted = x.aborted /\ Passed(x).failed = x.failed
           /\ Passed(x).timedOut = x.timedOut
           /\ Passed(x).reported = x.reported
<1>1. x.got + 1 \in 0 .. MaxBody /\ x.queued + 1 \in 0 .. MaxBody
  BY BoundAssumption DEF Attempts
<1>2. Passed(x) = [x EXCEPT !.got = x.got + 1, !.queued = x.queued + 1]
  BY DEF Passed, Attempts
<1> QED BY <1>1, <1>2 DEF Attempts

LEMMA GoodFiller ==
    ASSUME IInv, NEW r \in Requests, NEW a \in Slots, Filler(r, a)
    PROVE  IInv'
<1> DEFINE x == Passed(att[r][a])
<1>1. /\ att[r][a] \in Attempts /\ Sane(att[r][a])
      /\ att[r][a].phase = "body" /\ ~att[r][a].won
      /\ att[r][a].got < MaxBody /\ pressure' = pressure
  BY DEF Filler, Reading, IInv, TypeOK, Good
<1>2. a # race[r].winner /\ att[r][a].got = att[r][a].queued
  BY <1>1, LoserIs
<1>3. att[r][a].queued <= att[r][a].got
  BY <1>1, <1>2, BoundAssumption DEF Attempts
<1>4. /\ x \in Attempts /\ x.got = x.queued /\ x.phase = "body"
      /\ x.won = att[r][a].won /\ x.aborted = att[r][a].aborted
      /\ x.timedOut = att[r][a].timedOut /\ x.reported = att[r][a].reported
      /\ Sane(x)
  BY <1>1, <1>2, <1>3, PassedIs DEF Sane
<1>5. IF x.got > DrainCap
        THEN Fails(r, a, "none", x)
        ELSE att' = [att EXCEPT ![r] = [att[r] EXCEPT ![a] = x]]
             /\ UNCHANGED <<gov, race>>
  BY DEF Filler
<1> HIDE DEF x
<1>6. CASE x.got > DrainCap
  BY <1>1, <1>4, <1>5, <1>6, GoodFails DEF Waiting
<1>7. CASE ~(x.got > DrainCap)
  <2>1. race[r].status = "racing" => ~x.won /\ (x.aborted => x.timedOut)
    BY <1>4, RacingIs
  <2>2. gov' \in Governors
    BY <1>5, <1>7 DEF IInv, TypeOK
  <2> QED BY <1>1, <1>2, <1>4, <1>5, <1>7, <2>1, <2>2, OneAttempt
<1> QED BY <1>6, <1>7

LEMMA GoodPull ==
    ASSUME IInv, NEW r \in Requests, NEW a \in Slots, Pull(r, a)
    PROVE  IInv'
<1> DEFINE x == Passed(att[r][a])
<1>1. /\ att[r][a] \in Attempts /\ Sane(att[r][a]) /\ Good(r)
      /\ att[r][a].phase = "body" /\ att[r][a].won /\ att[r][a].queued = 0
      /\ race[r].winner = a /\ att[r][a].got < MaxBody
      /\ UNCHANGED <<gov, race, pressure>>
      /\ att' = [att EXCEPT ![r] = [att[r] EXCEPT ![a] = x]]
  BY DEF Pull, Reading, IInv, TypeOK, Good
<1>2. /\ x \in Attempts /\ x.got = att[r][a].got + 1 /\ x.queued = 1
      /\ x.phase = "body" /\ x.won /\ x.aborted = att[r][a].aborted /\ Sane(x)
  BY <1>1, PassedIs, BoundAssumption DEF Attempts, Sane
<1>3. x.got = race[r].taken + x.queued
  <2>1. att[r][a].got = race[r].taken + att[r][a].queued
    BY <1>1, HedgesAssumption DEF Good, Whole, Slots
  <2>2. race[r].taken \in Int
    BY BoundAssumption DEF IInv, TypeOK, Races
  <2> QED BY <1>1, <1>2, <2>1, <2>2
<1>4. race[r].status # "racing"
  BY <1>1, RacingIs
<1>5. gov' \in Governors
  BY <1>1 DEF IInv, TypeOK
<1> HIDE DEF x
<1> QED BY <1>1, <1>2, <1>3, <1>4, <1>5, OneAttempt

LEMMA GoodBodyEnds ==
    ASSUME IInv, NEW r \in Requests, NEW a \in Slots, BodyEnds(r, a)
    PROVE  IInv'
<1>1. /\ att[r][a] \in Attempts /\ Sane(att[r][a]) /\ Good(r)
      /\ att[r][a].phase = "body" /\ pressure' = pressure
  BY DEF BodyEnds, Reading, IInv, TypeOK, Good
<1>2. CASE ~att[r][a].won
  BY <1>1, <1>2, LoserIs, GoodFails DEF BodyEnds, Waiting
<1>3. CASE att[r][a].won
  <2> DEFINE x == [att[r][a] EXCEPT !.phase = "closed"]
  <2>1. /\ race[r].winner = a /\ UNCHANGED <<gov, race>>
        /\ att' = [att EXCEPT ![r] = [att[r] EXCEPT ![a] = x]]
    BY <1>3 DEF BodyEnds, Reading
  <2>2. /\ x \in Attempts /\ x.got = att[r][a].got
        /\ x.queued = att[r][a].queued /\ x.phase = "closed" /\ x.won
        /\ x.aborted = att[r][a].aborted /\ Sane(x)
    BY <1>1, <1>3 DEF Attempts, Phases, Sane
  <2>3. x.got = race[r].taken + x.queued
    BY <1>1, <2>1, <2>2, HedgesAssumption DEF Good, Whole, Slots
  <2>4. race[r].status # "racing"
    BY <1>3, RacingIs
  <2>5. gov' \in Governors
    BY <2>1 DEF IInv, TypeOK
  <2> HIDE DEF x
  <2> QED BY <1>1, <2>1, <2>2, <2>3, <2>4, <2>5, OneAttempt
<1> QED BY <1>2, <1>3

-----------------------------------------------------------------------------
(***************************************************************************)
(* The win.                                                                *)
(***************************************************************************)

LEMMA AbortLosersIs ==
    ASSUME NEW t \in [Slots -> Attempts]
    PROVE  /\ AbortLosers(t) \in [Slots -> Attempts]
           /\ \A b \in Slots :
                AbortLosers(t)[b] =
                  [t[b] EXCEPT !.aborted =
                     t[b].aborted \/ (t[b].phase # "none" /\ ~t[b].won)]
BY DEF AbortLosers, Attempts

\* An abort changes neither what has failed nor what was reported.
LEMMA AbortsKeep ==
    ASSUME NEW t \in [Slots -> Attempts], NEW b \in Slots
    PROVE  /\ AbortAll(t)[b].failed = t[b].failed
           /\ AbortAll(t)[b].reported = t[b].reported
           /\ AbortLosers(t)[b].failed = t[b].failed
           /\ AbortLosers(t)[b].reported = t[b].reported
<1>1. t[b] \in Attempts
  OBVIOUS
<1>2. AbortAll(t)[b] = [t[b] EXCEPT !.aborted =
                          t[b].aborted \/ t[b].phase # "none"]
  BY AbortAllIs
<1>3. AbortLosers(t)[b] = [t[b] EXCEPT !.aborted =
                             t[b].aborted \/ (t[b].phase # "none" /\ ~t[b].won)]
  BY AbortLosersIs
<1> QED BY <1>1, <1>2, <1>3 DEF Attempts

\* In an open race nothing was taken and nobody has won, so that the one who
\* shows progress is the only one that is not aborted.
LEMMA GoodProgress ==
    ASSUME IInv, NEW r \in Requests, NEW a \in Slots, Progress(r, a)
    PROVE  IInv'
<1> DEFINE x == Winning(att[r][a])
           t == [att[r] EXCEPT ![a] = x]
<1>1. /\ att[r][a] \in Attempts /\ Sane(att[r][a]) /\ Good(r)
      /\ att[r] \in [Slots -> Attempts] /\ race[r] \in Races
      /\ att[r][a].phase = "body" /\ ~att[r][a].won /\ ~Stopped(r, a)
      /\ att[r][a].got < MaxBody /\ pressure' = pressure
  BY DEF Progress, Reading, IInv, TypeOK, Good
<1>2. a # race[r].winner /\ att[r][a].got = att[r][a].queued
  BY <1>1, LoserIs
<1>3. att[r][a].queued <= att[r][a].got
  BY <1>1, <1>2, BoundAssumption DEF Attempts
<1>4. /\ x \in Attempts /\ x.got = x.queued /\ x.phase = "body" /\ x.won
      /\ x.aborted = att[r][a].aborted /\ Sane(x)
  <2> DEFINE y == Passed(att[r][a])
  <2>1. /\ y \in Attempts /\ y.got = y.queued /\ y.phase = "body"
        /\ y.aborted = att[r][a].aborted /\ Sane(y)
    BY <1>1, <1>2, <1>3, PassedIs DEF Sane
  <2>2. x = [y EXCEPT !.won = TRUE]
    BY DEF Winning
  <2> HIDE DEF y
  <2> QED BY <2>1, <2>2 DEF Attempts, Sane
<1>5. IF race[r].status = "racing"
        THEN /\ race' = [race EXCEPT ![r] =
                          [race[r] EXCEPT !.status = "resolved", !.winner = a]]
             /\ att' = [att EXCEPT ![r] = AbortLosers(t)]
             /\ gov' = Reported(gov, "ok")
        ELSE att' = [att EXCEPT ![r] = t] /\ UNCHANGED <<gov, race>>
  BY DEF Progress
<1> HIDE DEF x
<1>6. CASE race[r].status # "racing"
  <2>1. gov' \in Governors
    BY <1>5, <1>6 DEF IInv, TypeOK
  <2> QED BY <1>1, <1>2, <1>4, <1>5, <1>6, <2>1, OneAttempt
<1>7. CASE race[r].status = "racing"
  <2>1. t \in [Slots -> Attempts] /\ t[a] = x
        /\ \A b \in Slots \ {a} : t[b] = att[r][b]
    BY <1>1, <1>4
  <2> HIDE DEF t
  <2>2. /\ race' = [race EXCEPT ![r] =
                      [race[r] EXCEPT !.status = "resolved", !.winner = a]]
        /\ att' = [att EXCEPT ![r] = AbortLosers(t)]
        /\ gov' = Reported(gov, "ok")
    BY <1>5, <1>7
  <2>3. TypeOK'
    <3>1. [race[r] EXCEPT !.status = "resolved", !.winner = a] \in Races
      <4>1. a \in 0 .. Hedges
        BY HedgesAssumption DEF Slots
      <4> QED BY <1>1, <4>1 DEF Races
    <3>2. AbortLosers(t) \in [Slots -> Attempts]
      BY <2>1, AbortLosersIs
    <3>3. Reported(gov, "ok") \in Governors
      BY GovernorStays DEF IInv, TypeOK
    <3> QED BY <1>1, <2>2, <3>1, <3>2, <3>3 DEF IInv, TypeOK
  <2>4. \A s \in Requests \ {r} : race'[s] = race[s] /\ att'[s] = att[s]
    BY <2>2 DEF IInv, TypeOK
  <2>5. /\ race'[r].status = "resolved" /\ race'[r].winner = a
        /\ race'[r].taken = race[r].taken
        /\ race'[r].detached = race[r].detached
    BY <1>1, <2>2 DEF IInv, TypeOK, Races
  <2>6. \A b \in Slots :
          /\ att'[r][b].phase = t[b].phase /\ att'[r][b].won = t[b].won
          /\ att'[r][b].got = t[b].got /\ att'[r][b].queued = t[b].queued
          /\ att'[r][b].aborted = (t[b].aborted \/
                                    (t[b].phase # "none" /\ ~t[b].won))
          /\ Sane(att'[r][b]) <=> Sane(t[b])
    <3> TAKE b \in Slots
    <3>1. t[b] \in Attempts
      BY <2>1
    <3>2. att'[r][b] = [t[b] EXCEPT !.aborted =
                          t[b].aborted \/ (t[b].phase # "none" /\ ~t[b].won)]
      BY <2>1, <2>2, AbortLosersIs DEF IInv, TypeOK
    <3> QED BY <3>1, <3>2 DEF Attempts, Sane
  <2>7. race[r].winner = 0 /\ race[r].taken = 0
    BY <1>1, <1>7 DEF Good, Winner
  <2>8. Whole(r)'
    <3>1. x.got \in Int /\ x.queued \in Int
      BY <1>4, BoundAssumption DEF Attempts
    <3> QED BY <1>4, <2>1, <2>5, <2>6, <2>7, <3>1 DEF Whole
  <2>9. Buffered(r)'
    BY <1>1, <2>1, <2>5, <2>6, <2>7 DEF Good, Buffered, Slots
  <2>10. Decided(r)'
    <3>1. \A b \in Slots \ {a} : ~t[b].won
      BY <1>7, <2>1, RacingIs
    <3>2. SUFFICES ASSUME NEW b \in Slots, b # a, att'[r][b].phase # "none"
                   PROVE  att'[r][b].aborted
      BY <2>5 DEF Decided
    <3> QED BY <2>6, <3>1, <3>2
  <2>11. Winner(r)'
    <3>1. race[r].detached \/ ~x.aborted
      BY <1>1, <1>4 DEF Stopped
    <3>2. a # 0
      BY DEF Slots
    <3> QED BY <1>4, <2>1, <2>5, <2>6, <3>1, <3>2 DEF Winner
  <2>12. \A b \in Slots : Sane(att'[r][b])
    BY <1>1, <1>4, <2>1, <2>6 DEF Good
  <2>13. Good(r)'
    BY <2>5, <2>8, <2>9, <2>10, <2>11, <2>12 DEF Good, Idle, Racing
  <2> QED BY <2>3, <2>4, <2>13, OneRequest
<1> QED BY <1>6, <1>7

LEMMA GovernorStep ==
    ASSUME IInv, CooldownEnds \/ Pressure
    PROVE  IInv'
<1>1. gov \in Governors /\ pressure \in 0 .. MaxPressure
  BY DEF IInv, TypeOK
<1>2. gov' \in Governors
  <2>1. CASE CooldownEnds
    BY <1>1, <2>1 DEF CooldownEnds, Governors
  <2>2. CASE Pressure
    BY <1>1, <2>2, GovernorStays DEF Pressure
  <2> QED BY <2>1, <2>2
<1>3. pressure' \in 0 .. MaxPressure /\ UNCHANGED <<race, att>>
  BY <1>1, BoundAssumption DEF CooldownEnds, Pressure
<1>4. TypeOK'
  BY <1>2, <1>3 DEF IInv, TypeOK
<1> QED BY <1>3, <1>4, SameRequests

LEMMA InductiveStep == IInv /\ [Next]_vars => IInv'
<1> SUFFICES ASSUME IInv, [Next]_vars PROVE IInv'
  OBVIOUS
<1>1. CASE CooldownEnds \/ Pressure
  BY <1>1, GovernorStep
<1>2. ASSUME NEW r \in Requests, Begin(r) PROVE IInv'
  BY <1>2, GoodBegin
<1>3. ASSUME NEW r \in Requests, BeginAborted(r) PROVE IInv'
  BY <1>3, GoodBeginAborted
<1>4. ASSUME NEW r \in Requests, Cancel(r) PROVE IInv'
  BY <1>4, GoodCancel
<1>5. ASSUME NEW r \in Requests, Take(r) PROVE IInv'
  BY <1>5, GoodTake
<1>6. ASSUME NEW r \in Requests, Again(r) PROVE IInv'
  BY <1>6, GoodAgain
<1>7. ASSUME NEW r \in Requests, Launch(r) PROVE IInv'
  BY <1>7, GoodLaunch
<1>8. ASSUME NEW r \in Requests, NEW a \in Slots,
             \/ Answer(r, a) \/ Throw(r, a) \/ NoBody(r, a)
             \/ AttemptTimer(r, a) \/ Progress(r, a) \/ Filler(r, a)
             \/ Pull(r, a) \/ BodyEnds(r, a)
      PROVE  IInv'
  BY <1>8, GoodAnswer, GoodThrow, GoodAttemptTimer, GoodProgress, GoodFiller,
     GoodPull, GoodBodyEnds
<1>9. CASE UNCHANGED vars
  BY <1>9, SameRequests DEF vars, IInv, TypeOK
<1> QED
  BY <1>1, <1>2, <1>3, <1>4, <1>5, <1>6, <1>7, <1>8, <1>9 DEF Next

LEMMA Inductive == Spec => []IInv
BY InitialState, InductiveStep, PTL DEF Spec

\* At any moment of any number of races the types hold, the allowance is
\* within its bounds, and a decided race on an attached transport has one
\* stream at most, the winner's, which nobody has aborted.
THEOREM RacesAreSound == Spec => []RaceInv
BY Inductive, InvariantGives, PTL

\* The consumer gets every chunk that the winner has read.
THEOREM BodiesAreWhole == Spec => []BodyIsWhole
BY Inductive, InvariantGives, PTL

-----------------------------------------------------------------------------
(***************************************************************************)
(* Only faults are reported.                                               *)
(***************************************************************************)

\* Who is held against the provider waits in an open race: after it all but
\* the winner are aborted, and what the timer aborted was reported by it.
LEMMA PenalisedIs ==
    ASSUME IInv, NEW r \in Requests, NEW a \in Slots, NEW x,
           att[r][a].phase \in Waiting, x.won = att[r][a].won,
           x.aborted = att[r][a].aborted, x.timedOut = att[r][a].timedOut,
           x.reported = att[r][a].reported, Penalised(x)
    PROVE  ~att[r][a].aborted /\ race[r].status = "racing"
<1>1. /\ att[r][a] \in Attempts /\ Sane(att[r][a]) /\ Good(r)
      /\ race[r] \in Races
  BY DEF IInv, TypeOK, Good
<1>2. ~att[r][a].aborted /\ ~att[r][a].won
  BY <1>1 DEF Penalised, Sane
<1>3. a # race[r].winner
  BY <1>2, LoserIs
<1>4. ~Settled(r) /\ race[r].status # "idle"
  BY <1>1, <1>2, <1>3 DEF Good, Decided, Idle, Waiting
<1> QED BY <1>1, <1>2, <1>4 DEF Settled, Races

\* A failure reports the attempt that fails, and no other.
LEMMA FailsReports ==
    ASSUME IInv, NEW r \in Requests, NEW a \in Slots,
           NEW outcome, NEW x \in Attempts, Fails(r, a, outcome, x),
           NEW s \in Requests, NEW b \in Slots,
           ~att[s][b].reported, att'[s][b].reported,
           x.reported = att[r][a].reported
    PROVE  s = r /\ b = a /\ Penalised(x)
<1> DEFINE v == x.reported \/ Penalised(x)
           y == [x EXCEPT !.failed = TRUE, !.phase = "closed", !.reported = v]
           t == [att[r] EXCEPT ![a] = y]
<1>1. v \in BOOLEAN
  BY DEF Attempts, Penalised
<1>2. y \in Attempts /\ y.reported = v
  <2> HIDE DEF v
  <2> QED BY <1>1 DEF Attempts, Phases
<1>3. IF Exhausted(r, t) THEN Rejects(r, t)
      ELSE att' = [att EXCEPT ![r] = t] /\ UNCHANGED race
  BY DEF Fails
<1> HIDE DEF y
<1>4. t \in [Slots -> Attempts] /\ t[a] = y
      /\ \A c \in Slots \ {a} : t[c] = att[r][c]
  BY <1>2 DEF IInv, TypeOK
<1> HIDE DEF t
<1>5. \A c \in Slots : AbortAll(t)[c].reported = t[c].reported
  BY <1>4, AbortsKeep
<1>6. att' = [att EXCEPT ![r] = t] \/ att' = [att EXCEPT ![r] = AbortAll(t)]
  BY <1>3 DEF Rejects
<1>7. s = r /\ t[b].reported
  BY <1>5, <1>6 DEF IInv, TypeOK
<1>8. b = a /\ v
  BY <1>2, <1>4, <1>7
<1> QED BY <1>7, <1>8 DEF v

OnlyFaults ==
    \A r \in Requests, a \in Slots :
        ~att[r][a].reported /\ att'[r][a].reported =>
            ~att[r][a].aborted /\ race[r].status = "racing"

LEMMA FaultsStep == IInv /\ [Next]_vars => OnlyFaults
<1> SUFFICES ASSUME IInv, [Next]_vars, NEW s \in Requests, NEW b \in Slots,
                    ~att[s][b].reported, att'[s][b].reported
             PROVE  ~att[s][b].aborted /\ race[s].status = "racing"
  BY DEF OnlyFaults
<1> USE DEF IInv, TypeOK
<1>0. att[s][b] \in Attempts
  OBVIOUS
<1>1. ASSUME NEW r \in Requests, NEW a \in Slots,
             NEW outcome, NEW x \in Attempts, Fails(r, a, outcome, x),
             att[r][a].phase \in Waiting, x.won = att[r][a].won,
               x.aborted = att[r][a].aborted, x.timedOut = att[r][a].timedOut,
             x.reported = att[r][a].reported
      PROVE  ~att[s][b].aborted /\ race[s].status = "racing"
  BY <1>1, FailsReports, PenalisedIs
<1>2. ASSUME NEW r \in Requests, NEW a \in Slots, Throw(r, a) \/ NoBody(r, a)
      PROVE  ~att[s][b].aborted /\ race[s].status = "racing"
  <2>1. PICK outcome \in {"overload", "none", "client"} :
          Fails(r, a, outcome, att[r][a])
    BY <1>2 DEF Throw, NoBody
  <2> QED BY <1>1, <1>2, <2>1 DEF Throw, NoBody, Waiting
<1>3. ASSUME NEW r \in Requests, NEW a \in Slots, Filler(r, a)
      PROVE  ~att[s][b].aborted /\ race[s].status = "racing"
  <2> DEFINE x == Passed(att[r][a])
  <2>1. /\ att[r][a] \in Attempts /\ att[r][a].phase = "body"
        /\ ~att[r][a].won /\ att[r][a].got < MaxBody
    BY <1>3 DEF Filler, Reading
  <2>2. att[r][a].queued <= att[r][a].got
    BY <2>1, LoserIs, BoundAssumption DEF Attempts
  <2>3. /\ x \in Attempts /\ x.won = att[r][a].won
        /\ x.aborted = att[r][a].aborted /\ x.timedOut = att[r][a].timedOut
        /\ x.reported = att[r][a].reported
    BY <2>1, <2>2, PassedIs
  <2>4. IF x.got > DrainCap
          THEN Fails(r, a, "none", x)
          ELSE att' = [att EXCEPT ![r] = [att[r] EXCEPT ![a] = x]]
    BY <1>3 DEF Filler
  <2> HIDE DEF x
  <2>5. CASE x.got > DrainCap
    BY <1>1, <2>1, <2>3, <2>4, <2>5 DEF Waiting
  <2>6. CASE ~(x.got > DrainCap)
    BY <2>1, <2>3, <2>4, <2>6
  <2> QED BY <2>5, <2>6
<1>4. ASSUME NEW r \in Requests, NEW a \in Slots, BodyEnds(r, a)
      PROVE  ~att[s][b].aborted /\ race[s].status = "racing"
  <2>1. att[r][a] \in Attempts /\ att[r][a].phase = "body"
    BY <1>4 DEF BodyEnds, Reading
  <2>2. CASE att[r][a].won
    <3> DEFINE x == [att[r][a] EXCEPT !.phase = "closed"]
    <3>1. att' = [att EXCEPT ![r] = [att[r] EXCEPT ![a] = x]]
      BY <1>4, <2>2 DEF BodyEnds
    <3>2. x.reported = att[r][a].reported
      BY <2>1 DEF Attempts
    <3> HIDE DEF x
    <3> QED BY <3>1, <3>2
  <2>3. CASE ~att[r][a].won
    BY <1>1, <1>4, <2>1, <2>3 DEF BodyEnds, Waiting
  <2> QED BY <2>2, <2>3
<1>5. ASSUME NEW r \in Requests, NEW a \in Slots, AttemptTimer(r, a)
      PROVE  ~att[s][b].aborted /\ race[s].status = "racing"
  <2>1. s = r /\ b = a
    BY <1>5 DEF AttemptTimer
  <2> QED BY <1>5, <2>1, RacingIs DEF AttemptTimer
<1>6. ASSUME NEW r \in Requests, NEW a \in Slots, Progress(r, a)
      PROVE  FALSE
  <2> DEFINE x == Winning(att[r][a])
             t == [att[r] EXCEPT ![a] = x]
  <2>1. /\ att[r][a] \in Attempts /\ ~att[r][a].won
        /\ att[r][a].got < MaxBody
    BY <1>6 DEF Progress
  <2>2. att[r][a].queued <= att[r][a].got
    BY <2>1, LoserIs, BoundAssumption DEF Attempts
  <2>3. x \in Attempts /\ x.reported = att[r][a].reported
    <3>1. /\ Passed(att[r][a]) \in Attempts
          /\ Passed(att[r][a]).reported = att[r][a].reported
      BY <2>1, <2>2, PassedIs
    <3> QED BY <3>1 DEF Winning, Attempts
  <2>4. att' = [att EXCEPT ![r] = t]
        \/ att' = [att EXCEPT ![r] = AbortLosers(t)]
    BY <1>6 DEF Progress
  <2> HIDE DEF x
  <2>5. /\ t \in [Slots -> Attempts]
        /\ \A c \in Slots : t[c].reported = att[r][c].reported
    BY <2>3
  <2> HIDE DEF t
  <2>6. \A c \in Slots : AbortLosers(t)[c].reported = t[c].reported
    BY <2>5, AbortsKeep
  <2> QED BY <2>4, <2>5, <2>6
<1>7. ASSUME NEW r \in Requests, NEW a \in Slots, Answer(r, a) \/ Pull(r, a)
      PROVE  FALSE
  <2>1. CASE Answer(r, a)
    BY <2>1, <1>0 DEF Answer, Attempts
  <2>2. CASE Pull(r, a)
    BY <2>2, <1>0 DEF Pull, Passed, Attempts
  <2> QED BY <1>7, <2>1, <2>2
<1>8. ASSUME NEW r \in Requests, Begin(r) \/ Again(r) \/ Launch(r)
      PROVE  FALSE
  <2>1. CASE Begin(r)
    BY <2>1 DEF Begin, Fresh
  <2>2. CASE Again(r)
    BY <2>2 DEF Again, Fresh
  <2>3. CASE Launch(r)
    BY <2>3 DEF Launch, Fresh
  <2> QED BY <1>8, <2>1, <2>2, <2>3
<1>9. ASSUME NEW r \in Requests, BeginAborted(r) \/ Cancel(r) \/ Take(r)
      PROVE  FALSE
  <2>1. CASE BeginAborted(r)
    BY <2>1 DEF BeginAborted
  <2>2. CASE Cancel(r)
    <3>1. \A c \in Slots : AbortAll(att[r])[c].reported = att[r][c].reported
      BY AbortsKeep
    <3> QED BY <2>2, <3>1 DEF Cancel
  <2>3. CASE Take(r)
    BY <2>3, <1>0 DEF Take, Attempts
  <2> QED BY <1>9, <2>1, <2>2, <2>3
<1>10. CASE CooldownEnds \/ Pressure \/ UNCHANGED vars
  BY <1>10 DEF CooldownEnds, Pressure, vars
<1> QED
  BY <1>2, <1>3, <1>4, <1>5, <1>6, <1>7, <1>8, <1>9, <1>10 DEF Next

\* An attempt is held against the provider only while the race is open and
\* nobody has aborted it: losing a race shrinks nobody's allowance.
THEOREM LosingIsNoFault == Spec => OnlyFaultsAreReported
<1>1. IInv /\ [Next]_vars => [OnlyFaults]_vars
  BY FaultsStep
<1> QED
  BY <1>1, Inductive, PTL DEF Spec, OnlyFaultsAreReported, OnlyFaults

-----------------------------------------------------------------------------
(***************************************************************************)
(* The requests keep the promise of Race.                                  *)
(***************************************************************************)

\* What Race sees of a request.
Contenders(r) == {a \in Slots : /\ race[r].status = "racing"
                                /\ a <= race[r].total
                                /\ ~att[r][a].failed}

outcomeBar == [r \in Requests |-> race[r].status]

contendersBar == [r \in Requests |-> Contenders(r)]

givenUpBar == {r \in Requests : race[r].cancelled}

Attempt(r, a) ==
    \/ Answer(r, a) \/ Throw(r, a) \/ NoBody(r, a)
    \/ AttemptTimer(r, a) \/ Progress(r, a) \/ Filler(r, a)
    \/ Pull(r, a) \/ BodyEnds(r, a)

Request(r) ==
    \/ Begin(r) \/ BeginAborted(r) \/ Cancel(r) \/ Take(r) \/ Again(r)
    \/ Launch(r) \/ \E a \in Slots : Attempt(r, a)

LEMMA OthersStay ==
    ASSUME IInv, NEW r \in Requests, Request(r), NEW s \in Requests, s # r
    PROVE  race'[s] = race[s] /\ att'[s] = att[s]
<1> USE DEF IInv, TypeOK
<1>1. CASE Begin(r) \/ BeginAborted(r) \/ Cancel(r) \/ Take(r) \/ Again(r)
           \/ Launch(r)
  BY <1>1 DEF Begin, BeginAborted, Cancel, Take, Again, Launch
<1>2. ASSUME NEW a \in Slots, NEW o, NEW x, Fails(r, a, o, x)
      PROVE  race'[s] = race[s] /\ att'[s] = att[s]
  BY <1>2 DEF Fails, Rejects
<1>3. ASSUME NEW a \in Slots, Attempt(r, a)
      PROVE  race'[s] = race[s] /\ att'[s] = att[s]
  <2>1. CASE Answer(r, a) \/ AttemptTimer(r, a) \/ Progress(r, a) \/ Pull(r, a)
    BY <2>1 DEF Answer, AttemptTimer, Progress, Pull
  <2>2. CASE Throw(r, a) \/ NoBody(r, a)
    BY <1>2, <2>2 DEF Throw, NoBody
  <2>3. CASE Filler(r, a)
    BY <1>2, <2>3 DEF Filler
  <2>4. CASE BodyEnds(r, a)
    BY <1>2, <2>4 DEF BodyEnds
  <2> QED BY <1>3, <2>1, <2>2, <2>3, <2>4 DEF Attempt
<1> QED BY <1>1, <1>3 DEF Request

\* A step of one request, seen from Race.
LEMMA BarsOf ==
    ASSUME IInv, NEW r \in Requests, Request(r)
    PROVE  /\ outcomeBar' = [outcomeBar EXCEPT ![r] = race'[r].status]
           /\ contendersBar' = [contendersBar EXCEPT ![r] = Contenders(r)']
           /\ givenUpBar' = IF race'[r].cancelled THEN givenUpBar \cup {r}
                            ELSE givenUpBar \ {r}
<1>1. \A s \in Requests \ {r} : race'[s] = race[s] /\ att'[s] = att[s]
  BY OthersStay
<1>2. \A s \in Requests \ {r} : Contenders(s)' = Contenders(s)
  BY <1>1 DEF Contenders
<1> QED BY <1>1, <1>2 DEF outcomeBar, contendersBar, givenUpBar

LEMMA Quiet ==
    ASSUME IInv, NEW r \in Requests, Request(r),
           race'[r].status = race[r].status,
           race'[r].cancelled = race[r].cancelled,
           Contenders(r)' = Contenders(r)
    PROVE  UNCHANGED <<outcomeBar, contendersBar, givenUpBar>>
BY BarsOf DEF outcomeBar, contendersBar, givenUpBar

B == INSTANCE Race WITH outcome <- outcomeBar, contenders <- contendersBar,
                        givenUp <- givenUpBar

\* B is R with names for what is substituted.
LEMMA SameRace == /\ R!Init <=> B!Init
                  /\ [R!Next]_(R!vars) <=> [B!Next]_(B!vars)
BY DEF R!vars, R!Init, R!Next, R!Start, R!Win, R!DropOut, R!GiveUp, R!Again,
       B!vars, B!Init, B!Next, B!Start, B!Win, B!DropOut, B!GiveUp, B!Again,
       outcomeBar, contendersBar, givenUpBar, Contenders

LEMMA InitialRace == Init => B!Init
BY DEF Init, NewRace, B!Init, outcomeBar, contendersBar, givenUpBar,
   Contenders

LEMMA RaceBegin ==
    ASSUME IInv, IInv', NEW r \in Requests, Begin(r)
    PROVE  B!Start(r)
<1>1. Total \in 1 .. Hedges
  BY TotalIs DEF IInv, TypeOK
<1>2. /\ race[r].status = "idle" /\ ~race[r].cancelled
      /\ race'[r].status = "racing" /\ race'[r].total = Total
      /\ ~race'[r].cancelled
      /\ \A a \in Slots : ~att'[r][a].failed
  BY DEF Begin, NewRace, Fresh, IInv, TypeOK, Good, Idle
<1>3. Contenders(r)' = 1 .. Total
  BY <1>1, <1>2, HedgesAssumption DEF Contenders, Slots
<1>4. outcomeBar[r] = "idle" /\ r \notin givenUpBar
  BY <1>2 DEF outcomeBar, givenUpBar
<1> QED BY <1>1, <1>2, <1>3, <1>4, BarsOf DEF Request, B!Start

LEMMA UpTo ==
    ASSUME NEW n \in Nat
    PROVE  IsFiniteSet(1 .. n) /\ Cardinality(1 .. n) = n
<1>1. 1 \in Int /\ n \in Int
  OBVIOUS
<1>2. IsFiniteSet(1 .. n)
      /\ Cardinality(1 .. n) = IF 1 > n THEN 0 ELSE n - 1 + 1
  BY ONLY <1>1, FS_Interval, Zenon
<1> QED BY <1>2

\* The last attempt drops out, or another one.
LEMMA RaceFails ==
    ASSUME IInv, IInv', NEW r \in Requests, NEW a \in Slots, Request(r),
           NEW outcome, NEW x \in Attempts, Fails(r, a, outcome, x),
           att[r][a].phase \in Waiting
    PROVE  B!DropOut(r) \/ UNCHANGED B!vars
<1> DEFINE v == x.reported \/ Penalised(x)
           y == [x EXCEPT !.failed = TRUE, !.phase = "closed", !.reported = v]
           t == [att[r] EXCEPT ![a] = y]
<1>1. v \in BOOLEAN
  BY DEF Attempts, Penalised
<1>2. y \in Attempts /\ y.failed
  <2> HIDE DEF v
  <2> QED BY <1>1 DEF Attempts, Phases
<1>3. IF Exhausted(r, t) THEN Rejects(r, t)
      ELSE att' = [att EXCEPT ![r] = t] /\ UNCHANGED race
  BY DEF Fails
<1> HIDE DEF y
<1>4. t \in [Slots -> Attempts] /\ t[a].failed
      /\ \A b \in Slots \ {a} : t[b] = att[r][b]
  BY <1>2 DEF IInv, TypeOK
<1> HIDE DEF t
<1>5. ~att[r][a].failed /\ Good(r) /\ race[r] \in Races
  BY DEF IInv, TypeOK, Good, Sane, Waiting
<1>6. \A b \in Slots : att'[r][b].failed = t[b].failed
  BY <1>3, <1>4, AbortsKeep DEF Rejects, IInv, TypeOK
<1>7. race'[r].total = race[r].total /\ race'[r].cancelled = race[r].cancelled
  BY <1>3 DEF Rejects, IInv, TypeOK, Races
<1>8. CASE race[r].status # "racing"
  <2>1. race' = race
    BY <1>3, <1>8 DEF Exhausted
  <2>2. Contenders(r)' = Contenders(r)
    BY <1>8, <2>1 DEF Contenders
  <2> QED BY <2>1, <2>2, Quiet DEF B!vars
<1>9. CASE race[r].status = "racing"
  <2>1. a \in Contenders(r)
    BY <1>5, <1>9, HedgesAssumption
       DEF Contenders, Good, Racing, Slots, Races, Waiting
  <2>2. r \in givenUpBar <=> race[r].cancelled
    BY DEF givenUpBar
  <2>3. givenUpBar' = givenUpBar
    BY <1>7, <2>2, BarsOf DEF givenUpBar
  <2>4. \A b \in Contenders(r) \ {a} : b \in Slots /\ ~t[b].failed
    BY <1>4 DEF Contenders
  <2> DEFINE F == {b \in Slots : t[b].failed}
             T == 1 .. race[r].total
  <2>5. /\ race[r].total \in Nat /\ race[r].launched \in Nat
        /\ race[r].total <= Hedges /\ race[r].launched <= race[r].total
    BY <1>5, <1>9, HedgesAssumption DEF Races, Good, Racing
  <2>6. IsFiniteSet(T) /\ Cardinality(T) = race[r].total
    BY <2>5, UpTo
  <2>7. race[r].launched = race[r].total => F \subseteq T
    <3> SUFFICES ASSUME race[r].launched = race[r].total,
                        NEW b \in Slots, t[b].failed, b \notin T
                 PROVE  FALSE
      OBVIOUS
    <3>1. b > race[r].launched
      BY <2>5, HedgesAssumption DEF Slots
    <3>2. att[r][b].phase = "none"
      BY <1>5, <1>9, <3>1 DEF Good, Racing
    <3> QED BY <1>4, <1>5, <3>2 DEF Good, Sane, Waiting
  <2>8. CASE Exhausted(r, t)
    <3>1. race'[r].status = "rejected"
      BY <1>3, <2>8 DEF Rejects, IInv, TypeOK, Races
    <3>2. Contenders(r)' = {}
      BY <3>1 DEF Contenders
    <3>3. Contenders(r) = {a}
      <4>1. race[r].launched = race[r].total /\ Cardinality(F) = race[r].total
        BY <2>8 DEF Exhausted
      <4>2. F = T
        BY <2>6, <2>7, <4>1, FS_Subset
      <4>3. Contenders(r) \subseteq T
        BY <2>5, HedgesAssumption DEF Contenders, Slots
      <4> QED BY <2>1, <2>4, <4>2, <4>3
    <3> QED BY <2>1, <2>3, <3>1, <3>2, <3>3, BarsOf
       DEF B!DropOut, contendersBar
  <2>9. CASE ~Exhausted(r, t)
    <3>1. race' = race
      BY <1>3, <2>9
    <3>2. Contenders(r)' = Contenders(r) \ {a}
      BY <1>4, <1>6, <3>1 DEF Contenders
    <3>3. Contenders(r) # {a}
      <4> SUFFICES ASSUME Contenders(r) = {a} PROVE FALSE
        OBVIOUS
      <4>1. T \subseteq F
        <5> SUFFICES ASSUME NEW b \in T PROVE b \in F
          OBVIOUS
        <5>1. b \in Slots /\ b <= race[r].total
          BY <2>5, HedgesAssumption DEF Slots
        <5>2. b # a => att[r][b].failed
          BY <1>9, <5>1 DEF Contenders
        <5> QED BY <1>4, <5>1, <5>2
      <4>2. race[r].launched = race[r].total
        <5> SUFFICES ASSUME race[r].launched # race[r].total PROVE FALSE
          OBVIOUS
        <5>1. race[r].total \in Slots /\ race[r].total > race[r].launched
          BY <2>5, HedgesAssumption DEF Slots
        <5>2. att[r][race[r].total].phase = "none"
          BY <1>5, <1>9, <5>1 DEF Good, Racing
        <5>3. ~att[r][race[r].total].failed /\ race[r].total # a
          BY <1>5, <5>1, <5>2 DEF Good, Sane, Waiting
        <5> QED BY <1>9, <2>5, <5>1, <5>3 DEF Contenders
      <4>3. F = T
        BY <2>7, <4>1, <4>2
      <4> QED BY <1>9, <2>9, <2>6, <4>2, <4>3 DEF Exhausted
    <3>4. outcomeBar' = outcomeBar
      BY <3>1 DEF outcomeBar
    <3> QED BY <2>1, <2>3, <3>2, <3>3, <3>4, BarsOf
       DEF B!DropOut, contendersBar
  <2> QED BY <2>8, <2>9
<1> QED BY <1>8, <1>9

\* The first progress of an open race takes a contender; all else that an
\* attempt does, other than to fail, Race does not see.
LEMMA RaceProgress ==
    ASSUME IInv, IInv', NEW r \in Requests, NEW a \in Slots, Progress(r, a)
    PROVE  B!Win(r) \/ UNCHANGED B!vars
<1>1. Request(r)
  BY DEF Request, Attempt
<1>2. race[r] \in Races /\ Good(r) /\ att[r][a].phase = "body"
  BY DEF Progress, Reading, IInv, TypeOK
<1>3. CASE race[r].status = "racing"
  <2>1. race'[r].status = "resolved" /\ race'[r].cancelled = race[r].cancelled
    BY <1>3 DEF Progress, IInv, TypeOK, Races
  <2>2. a \in Contenders(r)
    BY <1>2, <1>3, HedgesAssumption
       DEF Contenders, Good, Racing, Sane, Slots, Races
  <2>3. Contenders(r)' = {}
    BY <2>1 DEF Contenders
  <2>4. r \in givenUpBar <=> race[r].cancelled
    BY DEF givenUpBar
  <2>5. givenUpBar' = givenUpBar
    BY <1>1, <2>1, <2>4, BarsOf DEF givenUpBar
  <2>6. outcomeBar[r] = "racing" /\ contendersBar[r] # {}
    BY <1>3, <2>2 DEF outcomeBar, contendersBar
  <2> QED BY <1>1, <2>1, <2>3, <2>5, <2>6, BarsOf DEF B!Win
<1>4. CASE race[r].status # "racing"
  <2>1. race' = race
    BY <1>4 DEF Progress
  <2>2. Contenders(r)' = Contenders(r)
    BY <1>4, <2>1 DEF Contenders
  <2> QED BY <1>1, <2>1, <2>2, Quiet DEF B!vars
<1> QED BY <1>3, <1>4

LEMMA RaceAttempt ==
    ASSUME IInv, IInv', NEW r \in Requests, NEW a \in Slots, Attempt(r, a)
    PROVE  B!Win(r) \/ B!DropOut(r) \/ UNCHANGED B!vars
<1>1. Request(r) /\ att[r][a] \in Attempts /\ att[r] \in [Slots -> Attempts]
  BY DEF Request, IInv, TypeOK
<1>2. CASE Throw(r, a) \/ NoBody(r, a)
  BY <1>1, <1>2, RaceFails DEF Throw, NoBody, Waiting
<1>3. CASE Progress(r, a)
  BY <1>3, RaceProgress
<1>4. ASSUME UNCHANGED race, NEW x, x.failed = att[r][a].failed,
             att' = [att EXCEPT ![r] = [att[r] EXCEPT ![a] = x]]
      PROVE  UNCHANGED B!vars
  <2>1. \A b \in Slots : att'[r][b].failed = att[r][b].failed
    BY <1>1, <1>4 DEF IInv, TypeOK
  <2>2. Contenders(r)' = Contenders(r)
    BY <1>4, <2>1 DEF Contenders
  <2> QED BY <1>1, <1>4, <2>2, Quiet DEF B!vars
<1>5. CASE Answer(r, a)
  <2>1. PICK p \in {"body", "overload", "client"} :
          att' = [att EXCEPT ![r] = [att[r] EXCEPT ![a] =
                    [att[r][a] EXCEPT !.phase = p]]]
    BY <1>5 DEF Answer
  <2>2. [att[r][a] EXCEPT !.phase = p].failed = att[r][a].failed
    BY <1>1 DEF Attempts
  <2> QED BY <1>4, <1>5, <2>1, <2>2 DEF Answer
<1>6. CASE AttemptTimer(r, a)
  <2> DEFINE v == att[r][a].reported \/ Penalised(att[r][a])
             x == [att[r][a] EXCEPT !.timedOut = TRUE, !.aborted = TRUE,
                                    !.reported = v]
  <2>1. att' = [att EXCEPT ![r] = [att[r] EXCEPT ![a] = x]]
    BY <1>6 DEF AttemptTimer
  <2> HIDE DEF v
  <2>2. x.failed = att[r][a].failed
    BY <1>1 DEF Attempts
  <2> HIDE DEF x
  <2> QED BY <1>4, <1>6, <2>1, <2>2 DEF AttemptTimer
<1>7. CASE Filler(r, a)
  <2> DEFINE x == Passed(att[r][a])
  <2>1. /\ att[r][a].phase = "body" /\ ~att[r][a].won
        /\ att[r][a].got < MaxBody
    BY <1>7 DEF Filler, Reading
  <2>2. att[r][a].queued <= att[r][a].got
    BY <1>1, <2>1, LoserIs, BoundAssumption DEF Attempts
  <2>3. x \in Attempts /\ x.failed = att[r][a].failed
    BY <1>1, <2>1, <2>2, PassedIs
  <2>4. IF x.got > DrainCap
          THEN Fails(r, a, "none", x)
          ELSE /\ att' = [att EXCEPT ![r] = [att[r] EXCEPT ![a] = x]]
               /\ UNCHANGED <<gov, race>>
    BY <1>7 DEF Filler
  <2> HIDE DEF x
  <2>5. CASE x.got > DrainCap
    BY <1>1, <2>1, <2>3, <2>4, <2>5, RaceFails DEF Waiting
  <2>6. CASE ~(x.got > DrainCap)
    BY <1>4, <2>3, <2>4, <2>6
  <2> QED BY <2>5, <2>6
<1>8. CASE Pull(r, a)
  <2>1. /\ att[r][a].won /\ att[r][a].queued = 0 /\ att[r][a].got < MaxBody
        /\ att' = [att EXCEPT ![r] = [att[r] EXCEPT ![a] = Passed(att[r][a])]]
    BY <1>8 DEF Pull, Reading
  <2>2. Passed(att[r][a]).failed = att[r][a].failed
    BY <1>1, <2>1, PassedIs, BoundAssumption DEF Attempts
  <2> QED BY <1>4, <1>8, <2>1, <2>2 DEF Pull
<1>9. CASE BodyEnds(r, a)
  <2>1. CASE att[r][a].won
    <3> DEFINE x == [att[r][a] EXCEPT !.phase = "closed"]
    <3>1. /\ att' = [att EXCEPT ![r] = [att[r] EXCEPT ![a] = x]]
          /\ UNCHANGED race
      BY <1>9, <2>1 DEF BodyEnds
    <3>2. x.failed = att[r][a].failed
      BY <1>1 DEF Attempts
    <3> HIDE DEF x
    <3> QED BY <1>4, <3>1, <3>2
  <2>2. CASE ~att[r][a].won
    BY <1>1, <1>9, <2>2, RaceFails DEF BodyEnds, Reading, Waiting
  <2> QED BY <2>1, <2>2
<1> QED
  BY <1>2, <1>3, <1>5, <1>6, <1>7, <1>8, <1>9 DEF Attempt

\* The caller gives up, before the call or after it.
LEMMA RaceCancel ==
    ASSUME IInv, IInv', NEW r \in Requests, BeginAborted(r) \/ Cancel(r)
    PROVE  B!GiveUp(r)
<1>1. /\ Request(r) /\ race[r] \in Races /\ ~race[r].cancelled
      /\ race[r].status # "rejected"
  BY DEF Request, BeginAborted, Cancel, IInv, TypeOK, Good, Idle
<1>2. /\ race'[r].cancelled
      /\ race'[r].status = IF race[r].status = "resolved" THEN "resolved"
                           ELSE "rejected"
  BY <1>1 DEF BeginAborted, Cancel, IInv, TypeOK, Races
<1>3. Contenders(r)' = {}
  BY <1>2 DEF Contenders
<1>4. outcomeBar[r] = race[r].status /\ r \notin givenUpBar
  BY <1>1 DEF outcomeBar, givenUpBar
<1>5. outcomeBar' = IF outcomeBar[r] = "resolved" THEN outcomeBar
                    ELSE [outcomeBar EXCEPT ![r] = "rejected"]
  BY <1>1, <1>2, <1>4, BarsOf DEF outcomeBar
<1> QED BY <1>1, <1>2, <1>3, <1>4, <1>5, BarsOf DEF B!GiveUp

LEMMA RaceAgain ==
    ASSUME IInv, IInv', NEW r \in Requests, Again(r)
    PROVE  B!Again(r)
<1>1. /\ Request(r) /\ race[r].status \in {"resolved", "rejected"}
      /\ race'[r].status = "idle" /\ ~race'[r].cancelled
  BY DEF Request, Again, NewRace, IInv, TypeOK
<1>2. Contenders(r)' = {} /\ contendersBar[r] = {}
  BY <1>1 DEF Contenders, contendersBar
<1>3. contendersBar' = contendersBar
  BY <1>1, <1>2, BarsOf DEF contendersBar
<1>4. outcomeBar[r] = race[r].status
  BY DEF outcomeBar
<1> QED BY <1>1, <1>3, <1>4, BarsOf DEF B!Again

LEMMA RaceQuiet ==
    ASSUME IInv, IInv', NEW r \in Requests, Take(r) \/ Launch(r)
    PROVE  UNCHANGED B!vars
<1>1. /\ Request(r) /\ race[r] \in Races /\ Good(r)
      /\ att[r] \in [Slots -> Attempts]
  BY DEF Request, IInv, TypeOK
<1>2. /\ race'[r].status = race[r].status /\ race'[r].total = race[r].total
      /\ race'[r].cancelled = race[r].cancelled
  BY <1>1 DEF Take, Launch, IInv, TypeOK, Races
<1>3. \A b \in Slots : att'[r][b].failed = att[r][b].failed
  <2>1. CASE Take(r)
    BY <1>1, <2>1 DEF Take, IInv, TypeOK, Attempts
  <2>2. CASE Launch(r)
    <3> DEFINE a == race[r].launched + 1
    <3>1. race[r].status = "racing" /\ a \in Slots /\ a > race[r].launched
      BY <1>1, <2>2, HedgesAssumption DEF Launch, Races, Slots
    <3>2. ~att[r][a].failed
      BY <1>1, <3>1 DEF Good, Racing, Sane
    <3>3. att' = [att EXCEPT ![r] = [att[r] EXCEPT ![a] = Fresh("connecting")]]
      BY <2>2 DEF Launch
    <3>4. ~Fresh("connecting").failed
      BY DEF Fresh
    <3> HIDE DEF a
    <3> QED BY <1>1, <3>1, <3>2, <3>3, <3>4 DEF IInv, TypeOK, Attempts
  <2> QED BY <2>1, <2>2
<1>4. Contenders(r)' = Contenders(r)
  BY <1>2, <1>3 DEF Contenders
<1> QED BY <1>1, <1>2, <1>4, Quiet DEF B!vars

LEMMA RaceStep == IInv /\ IInv' /\ [Next]_vars => [B!Next]_(B!vars)
<1> SUFFICES ASSUME IInv, IInv', [Next]_vars PROVE [B!Next]_(B!vars)
  OBVIOUS
<1>1. ASSUME NEW r \in Requests, Begin(r) PROVE B!Next
  BY <1>1, RaceBegin DEF B!Next
<1>2. ASSUME NEW r \in Requests, BeginAborted(r) \/ Cancel(r) PROVE B!Next
  BY <1>2, RaceCancel DEF B!Next
<1>3. ASSUME NEW r \in Requests, Again(r) PROVE B!Next
  BY <1>3, RaceAgain DEF B!Next
<1>4. ASSUME NEW r \in Requests, Take(r) \/ Launch(r)
      PROVE  UNCHANGED B!vars
  BY <1>4, RaceQuiet
<1>5. ASSUME NEW r \in Requests, NEW a \in Slots, Attempt(r, a)
      PROVE  [B!Next]_(B!vars)
  BY <1>5, RaceAttempt DEF B!Next
<1>6. CASE CooldownEnds \/ Pressure \/ UNCHANGED vars
  BY <1>6 DEF CooldownEnds, Pressure, vars, B!vars, outcomeBar,
              contendersBar, givenUpBar, Contenders
<1> QED BY <1>1, <1>2, <1>3, <1>4, <1>5, <1>6 DEF Next, Attempt

\* Whatever the transport, a request resolves with an attempt that was still
\* in the race, and rejects only when the last one has dropped out or the
\* caller gives up.
THEOREM RequestsKeepTheirPromise == Spec => ImplementsRace
<1>1. Init => R!Init
  BY InitialRace, SameRace
<1>2. IInv /\ IInv' /\ [Next]_vars => [R!Next]_(R!vars)
  BY RaceStep, SameRace
<1> QED
  BY <1>1, <1>2, Inductive, PTL DEF Spec, ImplementsRace, R!Spec
=============================================================================
