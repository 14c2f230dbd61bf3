--------------------------- MODULE HedgedRequest ---------------------------
(***************************************************************************)
(* Hedged requests of turbo mode (services/api/hedgedRequest.ts, called by *)
(* services/api/openaiShim.ts): the same request is sent up to Hedges      *)
(* times, the first attempt whose body shows progress wins, the others are *)
(* aborted, and all requests share the governor.                           *)
(*                                                                         *)
(* The program is one JavaScript thread.  An action is one callback: a     *)
(* timer, the settling of a fetch, one read of a body, the consumer, the   *)
(* caller's abort.  An attempt is                                          *)
(*   none         not launched                                             *)
(*   connecting   in fetch(), no headers yet                               *)
(*   overload     429 or 5xx came, its error text is being read            *)
(*   client       another 4xx came, its error text is being read           *)
(*   body         tapResponse reads the body                               *)
(*   closed       over                                                     *)
(*                                                                         *)
(* createRequestSignal in openaiShim.ts gives fetch() a signal of its own  *)
(* when a request timeout is set, and cleanup() unlinks it from the        *)
(* attempt's signal once the headers are there: such a request is          *)
(* detached.  The Codex backend, and API_TIMEOUT_MS=0, pass the attempt's  *)
(* signal on.                                                              *)
(***************************************************************************)
EXTENDS TurboGovernor, FiniteSets

CONSTANTS Requests,        \* the requests in flight at the same time
          Hedges,          \* configured attempts of a request
          Staggered,       \* the delay between two launches is not zero
          AttemptTimeout,  \* CCLITE_TURBO_ATTEMPT_TIMEOUT_MS is set
          DrainCap,        \* chunks without progress an attempt may buffer
          MaxBody,         \* bound: chunks of a body
          MaxPressure      \* bound: stalls of the event loop

ASSUME HedgesAssumption == Hedges \in Nat \ {0}
ASSUME SwitchAssumption == Staggered \in BOOLEAN /\ AttemptTimeout \in BOOLEAN
ASSUME BoundAssumption == DrainCap \in Nat /\ MaxBody \in Nat
                          /\ MaxPressure \in Nat

VARIABLES
    gov,        \* the governor
    race,       \* per request: what hedgedRequest's closure keeps
    att,        \* per request and slot: the AttemptState and its connection
    pressure    \* stalls so far (bounded by MaxPressure)

vars == <<gov, race, att, pressure>>

Slots == 1..Hedges

Phases == {"none", "connecting", "overload", "client", "body", "closed"}

\* got counts the chunks read from the connection, queued those of them in
\* the wrapped stream that nobody has taken.
Attempts == [phase : Phases, aborted : BOOLEAN, timedOut : BOOLEAN,
             won : BOOLEAN, failed : BOOLEAN, reported : BOOLEAN,
             got : 0..MaxBody, queued : 0..MaxBody]

Fresh(phase) == [phase |-> phase, aborted |-> FALSE, timedOut |-> FALSE,
                 won |-> FALSE, failed |-> FALSE, reported |-> FALSE,
                 got |-> 0, queued |-> 0]

\* winner is 0 until finishResolve; cancelled: the caller's signal.
Races == [status : {"idle", "racing", "resolved", "rejected"},
          total : 0..Hedges, launched : 0..Hedges, winner : 0..Hedges,
          cancelled : BOOLEAN, detached : BOOLEAN, taken : 0..MaxBody]

NewRace == [status |-> "idle", total |-> 0, launched |-> 0, winner |-> 0,
            cancelled |-> FALSE, detached |-> FALSE, taken |-> 0]

Init == /\ gov = NewGovernor
        /\ race = [r \in Requests |-> NewRace]
        /\ att = [r \in Requests |-> [a \in Slots |-> Fresh("none")]]
        /\ pressure = 0

-----------------------------------------------------------------------------
(* The attempt's signal, and whether it still reaches the connection.      *)

Waiting == {"connecting", "overload", "client", "body"}

\* Mutant: every transport unlinks the signal at the headers.
StoppedOnlyConnecting(r, a) ==
    att[r][a].aborted /\ att[r][a].phase = "connecting"

Stopped(r, a) ==
    /\ att[r][a].aborted
    /\ race[r].detached => att[r][a].phase = "connecting"

Open(r, a) == att[r][a].phase \in Waiting /\ ~Stopped(r, a)

AbortAll(t) == [a \in Slots |-> [t[a] EXCEPT !.aborted = @ \/ t[a].phase # "none"]]

AbortLosers(t) ==
    [a \in Slots |-> [t[a] EXCEPT !.aborted =
                        @ \/ (t[a].phase # "none" /\ ~t[a].won)]]

\* Mutant: penalize() forgets that our own aborts are no faults.
PenalisedAnyway(t) == ~t.reported /\ ~t.won

\* penalize(): once per attempt, not after a win, not for our own aborts.
Penalised(t) == ~t.reported /\ ~t.won /\ (t.aborted => t.timedOut)

-----------------------------------------------------------------------------
(* Settling the race.                                                      *)

\* Mutant: the launches that are still to come are not waited for.
ExhaustedEarly(r, t) ==
    /\ race[r].status = "racing"
    /\ \A a \in 1..race[r].launched : t[a].failed

\* checkAllFailed()
Exhausted(r, t) ==
    /\ race[r].status = "racing" /\ race[r].launched = race[r].total
    /\ Cardinality({a \in Slots : t[a].failed}) = race[r].total

\* The attempts become t, the request is rejected: finishReject().
Rejects(r, t) ==
    /\ race' = [race EXCEPT ![r].status = "rejected"]
    /\ att' = [att EXCEPT ![r] = AbortAll(t)]

\* The attempt fails with an outcome: the catch of run(), or the failing
\* branches of tapResponse.  x is the attempt as its read left it.
Fails(r, a, outcome, x) ==
    LET t == [att[r] EXCEPT ![a] =
                [x EXCEPT !.failed = TRUE, !.phase = "closed",
                          !.reported = @ \/ Penalised(x)]]
    IN /\ gov' = IF Penalised(x) THEN Reported(gov, outcome) ELSE gov
       /\ IF Exhausted(r, t)
            THEN Rejects(r, t)
            ELSE att' = [att EXCEPT ![r] = t] /\ UNCHANGED race

-----------------------------------------------------------------------------
(* The caller.                                                             *)

\* The attempts the governor allows now.
Total == IF gov.allowance < Hedges THEN gov.allowance ELSE Hedges

\* hedgedRequest() up to its first await: the first attempt, or without a
\* stagger all of them, are in fetch().
Begin(r) ==
    /\ race[r].status = "idle"
    /\ \E d \in BOOLEAN :
         LET n == IF Staggered THEN 1 ELSE Total IN
         /\ race' = [race EXCEPT ![r] =
                       [NewRace EXCEPT !.status = "racing", !.total = Total,
                                       !.launched = n, !.detached = d]]
         /\ att' = [att EXCEPT ![r] =
                      [a \in Slots |-> Fresh(IF a <= n THEN "connecting"
                                                       ELSE "none")]]
    /\ UNCHANGED <<gov, pressure>>

\* The caller's signal was aborted before the call.
BeginAborted(r) ==
    /\ race[r].status = "idle"
    /\ race' = [race EXCEPT ![r].status = "rejected", ![r].cancelled = TRUE]
    /\ UNCHANGED <<gov, att, pressure>>

\* The caller's abort.  finishResolve has removed the listener.
Cancel(r) ==
    /\ race[r].status \in {"racing", "resolved"} /\ ~race[r].cancelled
    /\ race' = [race EXCEPT ![r].cancelled = TRUE,
                            ![r].status = IF @ = "racing" THEN "rejected" ELSE @]
    /\ att' = IF race[r].status = "racing"
                THEN [att EXCEPT ![r] = AbortAll(@)] ELSE att
    /\ UNCHANGED <<gov, pressure>>

\* The consumer of the returned Response takes a chunk.
Take(r) ==
    LET w == race[r].winner IN
    /\ w # 0 /\ att[r][w].queued > 0
    /\ att' = [att EXCEPT ![r][w].queued = @ - 1]
    /\ race' = [race EXCEPT ![r].taken = @ + 1]
    /\ UNCHANGED <<gov, pressure>>

\* Another request uses the slot, when nobody waits for the old one.
Again(r) ==
    /\ race[r].status \in {"resolved", "rejected"}
    /\ \A a \in Slots : att[r][a].phase \in Waiting => att[r][a].won
    /\ race[r].winner # 0 => att[r][race[r].winner].phase = "closed"
    /\ race' = [race EXCEPT ![r] = NewRace]
    /\ att' = [att EXCEPT ![r] = [a \in Slots |-> Fresh("none")]]
    /\ UNCHANGED <<gov, pressure>>

-----------------------------------------------------------------------------
(* The attempts.                                                           *)

\* Mutant: the timers of the later launches are not cleared.
LaunchUncleared(r) ==
    LET a == race[r].launched + 1 IN
    /\ race[r].status # "idle" /\ race[r].launched < race[r].total
    /\ race' = [race EXCEPT ![r].launched = a]
    /\ att' = [att EXCEPT ![r][a] = Fresh("connecting")]
    /\ UNCHANGED <<gov, pressure>>

\* The timer of a later launch; settling the race clears it.
Launch(r) ==
    LET a == race[r].launched + 1 IN
    /\ race[r].status = "racing" /\ race[r].launched < race[r].total
    /\ race' = [race EXCEPT ![r].launched = a]
    /\ att' = [att EXCEPT ![r][a] = Fresh("connecting")]
    /\ UNCHANGED <<gov, pressure>>

\* Headers: 200 with a body, or an error whose text is read.
Answer(r, a) ==
    /\ att[r][a].phase = "connecting" /\ ~att[r][a].aborted
    /\ \E p \in {"body", "overload", "client"} :
         att' = [att EXCEPT ![r][a].phase = p]
    /\ UNCHANGED <<gov, race, pressure>>

\* start() throws: no connection, the request timeout, or our abort; or the
\* text of an error answer is there (or could not be read).
Throw(r, a) ==
    LET x == att[r][a] IN
    /\ x.phase \in {"connecting", "overload", "client"}
    /\ Fails(r, a, IF x.phase = "connecting" THEN "none" ELSE x.phase, x)
    /\ UNCHANGED pressure

\* An answer without a body: penalize() gets a status that says nothing.
NoBody(r, a) ==
    /\ att[r][a].phase = "connecting" /\ ~att[r][a].aborted
    /\ Fails(r, a, "client", att[r][a])
    /\ UNCHANGED pressure

\* The no-progress timer.
AttemptTimer(r, a) ==
    LET x == att[r][a] IN
    /\ AttemptTimeout /\ race[r].status = "racing"
    /\ x.phase \in Waiting /\ ~x.won /\ ~x.failed /\ ~x.timedOut
    /\ gov' = IF Penalised([x EXCEPT !.timedOut = TRUE])
                THEN Reported(gov, "none") ELSE gov
    /\ att' = [att EXCEPT ![r][a] =
                 [x EXCEPT !.timedOut = TRUE, !.aborted = TRUE,
                           !.reported = @ \/ Penalised(x)]]
    /\ UNCHANGED <<race, pressure>>

-----------------------------------------------------------------------------
(* The body: tapResponse.                                                  *)

\* A read of the body is pending: always before the win, afterwards only
\* when the consumer has emptied the wrapped stream.
Reading(r, a) ==
    /\ att[r][a].phase = "body"
    /\ att[r][a].won => att[r][a].queued = 0 /\ race[r].winner = a

\* The chunk read goes into the wrapped stream.
Passed(x) == [x EXCEPT !.got = @ + 1, !.queued = @ + 1]

\* Mutant: the chunk that decides the race is not enqueued.
WinningDropped(x) == [x EXCEPT !.won = TRUE, !.got = @ + 1]

\* The chunk that shows progress is enqueued too, after finishResolve().
Winning(x) == [Passed(x) EXCEPT !.won = TRUE]

\* The first progress: the attempt wins; if the race is over it only stops
\* reading.
Progress(r, a) ==
    LET t == [att[r] EXCEPT ![a] = Winning(att[r][a])] IN
    /\ Reading(r, a) /\ ~att[r][a].won /\ ~Stopped(r, a)
    /\ att[r][a].got < MaxBody
    /\ IF race[r].status = "racing"
         THEN /\ race' = [race EXCEPT ![r].status = "resolved",
                                      ![r].winner = a]
              /\ att' = [att EXCEPT ![r] = AbortLosers(t)]
              /\ gov' = Reported(gov, "ok")
         ELSE att' = [att EXCEPT ![r] = t] /\ UNCHANGED <<gov, race>>
    /\ UNCHANGED pressure

\* A chunk without progress; past the cap the attempt is given up.
Filler(r, a) ==
    LET x == Passed(att[r][a]) IN
    /\ Reading(r, a) /\ ~att[r][a].won /\ ~Stopped(r, a)
    /\ att[r][a].got < MaxBody
    /\ IF x.got > DrainCap
         THEN Fails(r, a, "none", x)
         ELSE att' = [att EXCEPT ![r][a] = x] /\ UNCHANGED <<gov, race>>
    /\ UNCHANGED pressure

\* After the win: one chunk per pull.
Pull(r, a) ==
    /\ Reading(r, a) /\ att[r][a].won /\ ~Stopped(r, a)
    /\ att[r][a].got < MaxBody
    /\ att' = [att EXCEPT ![r][a] = Passed(@)]
    /\ UNCHANGED <<gov, race, pressure>>

\* The read ends or rejects: end of the body, a network fault, our abort.
BodyEnds(r, a) ==
    /\ Reading(r, a)
    /\ IF att[r][a].won
         THEN /\ att' = [att EXCEPT ![r][a].phase = "closed"]
              /\ UNCHANGED <<gov, race>>
         ELSE Fails(r, a, "none", att[r][a])
    /\ UNCHANGED pressure

-----------------------------------------------------------------------------
(* The governor's own events.                                              *)

CooldownEnds == /\ gov.cooling /\ gov' = [gov EXCEPT !.cooling = FALSE]
                /\ UNCHANGED <<race, att, pressure>>

\* applyLocalPressure()
Pressure == /\ pressure < MaxPressure /\ pressure' = pressure + 1
            /\ gov' = Halves(gov)
            /\ UNCHANGED <<race, att>>

Next ==
    \/ CooldownEnds \/ Pressure
    \/ \E r \in Requests :
         \/ Begin(r) \/ BeginAborted(r) \/ Cancel(r) \/ Take(r) \/ Again(r)
         \/ Launch(r)
         \/ \E a \in Slots :
              \/ Answer(r, a) \/ Throw(r, a) \/ NoBody(r, a)
              \/ AttemptTimer(r, a) \/ Progress(r, a) \/ Filler(r, a)
              \/ Pull(r, a) \/ BodyEnds(r, a)

Spec == Init /\ [][Next]_vars

\* Timers fire, and an abort that reaches the connection ends its wait.
\* Nothing is assumed of the provider, the caller or the consumer.
Fairness ==
    \A r \in Requests :
      /\ WF_vars(Launch(r))
      /\ \A a \in Slots :
           /\ WF_vars(AttemptTimer(r, a))
           /\ WF_vars(Stopped(r, a) /\ Throw(r, a))
           /\ WF_vars(Stopped(r, a) /\ BodyEnds(r, a))

FairSpec == Spec /\ Fairness

-----------------------------------------------------------------------------
(* Properties.                                                             *)

\* Every variable stays in its set; the allowance stays between one and the
\* ceiling.
TypeOK == /\ gov \in Governors
          /\ race \in [Requests -> Races]
          /\ att \in [Requests -> [Slots -> Attempts]]
          /\ pressure \in 0..MaxPressure

Settled(r) == race[r].status \in {"resolved", "rejected"}

\* When the race is decided, no attempt but the winner holds a connection
\* or opens one, on a transport that passes the signal on: a timer left
\* running or a loser not aborted would go on being billed.
OnlyWinnerStreams ==
    \A r \in Requests : Settled(r) /\ ~race[r].detached =>
        \A a \in Slots : Open(r, a) => a = race[r].winner

\* A request that nobody cancelled is rejected only after every attempt it
\* was to make was launched and failed.
RejectedMeansExhausted ==
    \A r \in Requests : race[r].status = "rejected" /\ ~race[r].cancelled =>
        \A a \in Slots : a <= race[r].total => att[r][a].failed

\* The consumer of the returned Response gets every chunk the winner read,
\* those from before the win included.
BodyIsWhole ==
    \A r \in Requests : race[r].winner # 0 =>
        LET w == att[r][race[r].winner] IN w.got = race[r].taken + w.queued

\* The winner of an attached transport was not aborted by anybody: its body
\* can be read to the end.
WinnerIsNotAborted ==
    \A r \in Requests : race[r].winner # 0 /\ ~race[r].detached =>
        ~att[r][race[r].winner].aborted

\* The winner streams to its end, and nobody else does.
WinnerStreamsAlone == OnlyWinnerStreams /\ WinnerIsNotAborted

\* What holds at any moment of a race: types, the allowance within its
\* bounds (turboGovernor.ts 79-109), and one stream once it is decided.
RaceInv == TypeOK /\ WinnerStreamsAlone

\* An attempt is held against the provider only while nobody has aborted it
\* and the race is open: losing is no fault.
OnlyFaultsAreReported ==
    [][\A r \in Requests, a \in Slots :
         ~att[r][a].reported /\ att'[r][a].reported =>
             ~att[r][a].aborted /\ race[r].status = "racing"]_vars

\* The allowance never grows during a cooldown, and by one at a time.
GrowsSlowly ==
    [][gov'.allowance > gov.allowance =>
         ~gov.cooling /\ gov'.allowance = gov.allowance + 1]_gov

R == INSTANCE Race WITH
       outcome <- [r \in Requests |-> race[r].status],
       contenders <- [r \in Requests |->
          {a \in Slots : /\ race[r].status = "racing"
                         /\ a <= race[r].total
                         /\ ~att[r][a].failed}],
       givenUp <- {r \in Requests : race[r].cancelled}

\* The requests promise what Race says, whatever the transport.
ImplementsRace == R!Spec

\* With the no-progress timer a request on an attached transport is always
\* decided, however long every connection stays silent.
RaceSettles ==
    \A r \in Requests :
        (race[r].status = "racing" /\ ~race[r].detached)
            ~> race[r].status # "racing"

\* README.md:664 of the no-progress timer: "so one dead upstream connection
\* can never stall the race".
RaceNeverStalls ==
    \A r \in Requests :
        race[r].status = "racing" ~> race[r].status # "racing"

\* README.md:648: "The first stream to produce real content wins; every
\* other attempt is aborted".
LosersAreAborted ==
    \A r \in Requests : race[r].status = "resolved" =>
        \A a \in Slots : Open(r, a) => a = race[r].winner

\* hedgedRequest.ts:111 of the caller's signal: "when aborted, all attempts
\* abort and the request fails".
CancelStopsAll ==
    \A r \in Requests : race[r].cancelled => \A a \in Slots : ~Open(r, a)
=============================================================================
