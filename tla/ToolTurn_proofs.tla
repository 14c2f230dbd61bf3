-------------------------- MODULE ToolTurn_proofs --------------------------
(***************************************************************************)
(* Proofs about ToolTurn, for any number of blocks, any batches and any    *)
(* number of fallbacks.                                                    *)
(*                                                                         *)
(* The results first.  A step of the permission requests leaves the turn   *)
(* alone, so what counts is where a block stands: blocks of earlier        *)
(* attempts are settled, blocks not streamed have nothing, and those of    *)
(* the present attempt have a result exactly when their job is done.       *)
(***************************************************************************)
EXTENDS ToolTurn, FiniteSetTheorems, SequenceTheorems, TLAPS

N == Cardinality(Blocks)
Jobs == {"none", "hooks", "asking", "running", "done"}

TurnTyped ==
    /\ phase \in {"streaming", "tools", "ended", "next"}
    /\ made \in 0 .. N /\ first \in 1 .. made + 1
    /\ gone \subseteq 1 .. first - 1
    /\ job \in [Blocks -> Jobs]
    /\ results \in [Blocks -> Nat]

\* The results a block of the present attempt has.
Has(b) == CASE phase = "streaming" -> 0
            [] phase = "tools" -> IF job[b] = "done" THEN 1 ELSE 0
            [] OTHER -> 1

Accounted ==
    \A b \in Blocks :
        /\ b > made => results[b] = 0
        /\ b < first => results[b] = IF b \in gone THEN 0 ELSE 1
        /\ b \in Current => results[b] = Has(b)

\* Only blocks of the present attempt have begun, in their order, and jobs
\* are under way only while the phase is that of the tools.
JobsInPlace ==
    \A b \in Blocks :
        /\ job[b] # "none" => /\ b \in Current
                              /\ phase # "streaming"
                              /\ \A a \in Current : a < b => job[a] # "none"
        /\ Active(b) => phase = "tools"

TurnInv == TurnTyped /\ Accounted /\ JobsInPlace

\* Blocks are numbered from 1 to N.
LEMMA Numbered == N \in Nat /\ Blocks = 1 .. N
BY FS_CardinalityType, PermissionAssumption, TurnAssumption DEF N

LEMMA TurnStarts == Init => TurnInv
<1> SUFFICES ASSUME Init PROVE TurnInv
  OBVIOUS
<1> USE Numbered
<1>1. TurnTyped
  BY DEF Init, TurnTyped, Jobs
<1>2. Accounted
  BY DEF Init, Accounted, Current, Has
<1>3. JobsInPlace
  BY DEF Init, JobsInPlace, Active
<1>4. QED
  BY <1>1, <1>2, <1>3 DEF TurnInv

\* What the results are is all that Paired asks.
LEMMA TurnImpliesPaired == TurnInv => Paired
<1> SUFFICES ASSUME TurnInv PROVE Paired
  OBVIOUS
<1> USE Numbered
<1>1. ASSUME NEW b \in Blocks
      PROVE  results[b] <= IF b \in Streamed \ gone THEN 1 ELSE 0
  <2>1. CASE b > made
    BY <2>1 DEF TurnInv, TurnTyped, Accounted, Streamed
  <2>2. CASE b < first
    BY <2>2 DEF TurnInv, TurnTyped, Accounted, Streamed
  <2>3. CASE b \in Current
    BY <2>3 DEF TurnInv, TurnTyped, Accounted, Streamed, Current, Has
  <2>4. QED
    BY <2>1, <2>2, <2>3 DEF TurnInv, TurnTyped, Current
<1>2. ASSUME phase \in {"ended", "next"}, NEW b \in Streamed \ gone
      PROVE  results[b] = 1
  BY <1>2 DEF TurnInv, TurnTyped, Accounted, Streamed, Current, Has
<1>3. QED
  BY <1>1, <1>2 DEF Paired

-----------------------------------------------------------------------------
(***************************************************************************)
(* The request.  Its steps find no job under way.                          *)
(***************************************************************************)

\* While the answer streams no job has begun.
LEMMA NothingBegun ==
    ASSUME TurnInv, phase = "streaming"
    PROVE  /\ \A b \in Blocks : job[b] = "none" /\ ~Active(b)
           /\ \A b \in Current : b \in Blocks /\ results[b] = 0
BY Numbered
   DEF TurnInv, TurnTyped, JobsInPlace, Accounted, Active, Current, Has

\* A step that leaves every job unbegun keeps the jobs in place.
LEMMA JobsUnbegun ==
    ASSUME \A b \in Blocks : job[b] = "none", job' = job
    PROVE  JobsInPlace'
BY DEF JobsInPlace, Active

LEMMA TurnStreams ==
    ASSUME TurnInv, Stream
    PROVE  TurnInv'
<1> USE Numbered
<1>1. \A b \in Blocks : job[b] = "none"
  BY NothingBegun DEF Stream
<1>2. TurnTyped'
  BY DEF TurnInv, TurnTyped, Stream
<1>3. Accounted'
  BY DEF TurnInv, TurnTyped, Accounted, Stream, Current, Has
<1>4. JobsInPlace'
  BY <1>1, JobsUnbegun DEF Stream
<1>5. QED
  BY <1>2, <1>3, <1>4 DEF TurnInv

LEMMA TurnBreaks ==
    ASSUME TurnInv, StreamBreaks
    PROVE  TurnInv'
BY DEF TurnInv, TurnTyped, Accounted, JobsInPlace, StreamBreaks, Current,
       Has, Active

LEMMA TurnUnstreamed ==
    ASSUME TurnInv, Unstreamed
    PROVE  TurnInv'
<1> USE Numbered
<1>1. /\ \A b \in Blocks : job[b] = "none"
      /\ \A b \in Current : results[b] = 0
  BY NothingBegun DEF Unstreamed
<1>2. PICK n \in made .. N :
          /\ gone' = gone \cup Current
          /\ first' = made + 1 /\ made' = n
          /\ phase' = IF aborted \/ n = made THEN "ended" ELSE "tools"
          /\ results' = [b \in Blocks |->
                            IF aborted /\ b \in made + 1 .. n THEN 1
                                                          ELSE results[b]]
  BY DEF Unstreamed, N
<1>3. job' = job
  BY DEF Unstreamed
<1>4. TurnTyped'
  BY <1>2, <1>3 DEF TurnInv, TurnTyped, Current
<1>5. ASSUME NEW b \in Blocks
      PROVE  /\ b > made' => results'[b] = 0
             /\ b < first' => results'[b] = IF b \in gone' THEN 0 ELSE 1
             /\ b \in Current' => results'[b] = Has(b)'
  <2>1. made \in 0 .. N /\ first \in 1 .. made + 1 /\ n \in made .. N
    BY <1>2 DEF TurnInv, TurnTyped
  <2>2. CASE b > made
    <3>1. results[b] = 0 /\ job[b] = "none"
      BY <1>1, <2>2 DEF TurnInv, Accounted
    <3>2. QED
      BY <1>2, <1>3, <2>1, <2>2, <3>1 DEF Current, Has
  <2>3. CASE b < first
    <3>1. results[b] = IF b \in gone THEN 0 ELSE 1
      BY <2>3 DEF TurnInv, Accounted
    <3>2. QED
      BY <1>2, <2>1, <2>3, <3>1 DEF Current
  <2>4. CASE b \in Current
    <3>1. results[b] = 0
      BY <1>1, <2>4
    <3>2. QED
      BY <1>2, <2>1, <2>4, <3>1 DEF Current
  <2>5. QED
    BY <2>1, <2>2, <2>3, <2>4 DEF Current
<1>6. Accounted'
  BY <1>5 DEF Accounted
<1>7. JobsInPlace'
  BY <1>1, <1>3, JobsUnbegun
<1>8. QED
  BY <1>4, <1>6, <1>7 DEF TurnInv

\* Every block of the present attempt gets its one result when the attempt
\* is given up, for another model or for good.
LEMMA TurnMissing ==
    ASSUME TurnInv, phase = "streaming", results' = WithMissing, job' = job,
           made' = made, gone' = gone,
           \/ phase' = "streaming" /\ first' = made + 1
           \/ phase' = "ended" /\ first' = first
    PROVE  TurnInv'
<1> USE Numbered
<1>1. /\ \A b \in Blocks : job[b] = "none"
      /\ \A b \in Current : results[b] = 0
  BY NothingBegun
<1>2. TurnTyped'
  BY DEF TurnInv, TurnTyped, WithMissing
<1>3. ASSUME NEW b \in Blocks
      PROVE  /\ b > made' => results'[b] = 0
             /\ b < first' => results'[b] = IF b \in gone' THEN 0 ELSE 1
             /\ b \in Current' => results'[b] = Has(b)'
  <2>1. made \in 0 .. N /\ first \in 1 .. made + 1
    BY DEF TurnInv, TurnTyped
  <2>2. results'[b] = IF b \in Current THEN 1 ELSE results[b]
    BY <1>1 DEF WithMissing
  <2>3. CASE b > made
    BY <2>1, <2>2, <2>3 DEF TurnInv, Accounted, Current
  <2>4. CASE b < first
    BY <2>1, <2>2, <2>4 DEF TurnInv, Accounted, Current
  <2>5. CASE b \in Current
    <3>1. b \notin gone
      BY <2>1, <2>5 DEF TurnInv, TurnTyped, Current
    <3>2. QED
      BY <2>1, <2>2, <2>5, <3>1 DEF Current, Has
  <2>6. QED
    BY <2>1, <2>3, <2>4, <2>5 DEF Current
<1>4. Accounted'
  BY <1>3 DEF Accounted
<1>5. JobsInPlace'
  BY <1>1, JobsUnbegun
<1>6. QED
  BY <1>2, <1>4, <1>5 DEF TurnInv

\* The stream ends without an abort: the jobs are all still to do.
LEMMA TurnGoesOn ==
    ASSUME TurnInv, StreamEnds, ~aborted
    PROVE  TurnInv'
<1> USE Numbered
<1>1. \A b \in Blocks : job[b] = "none"
  BY NothingBegun DEF StreamEnds
<1>2. TurnTyped'
  BY DEF TurnInv, TurnTyped, StreamEnds
<1>3. Accounted'
  BY <1>1 DEF TurnInv, TurnTyped, Accounted, StreamEnds, Current, Has
<1>4. JobsInPlace'
  BY <1>1, JobsUnbegun DEF StreamEnds
<1>5. QED
  BY <1>2, <1>3, <1>4 DEF TurnInv

LEMMA TurnRequests == TurnInv /\ Request => TurnInv'
<1> SUFFICES ASSUME TurnInv, Request PROVE TurnInv'
  OBVIOUS
<1>1. CASE Stream
  BY <1>1, TurnStreams
<1>2. CASE StreamBreaks
  BY <1>2, TurnBreaks
<1>3. CASE Unstreamed
  BY <1>3, TurnUnstreamed
<1>4. CASE ModelFallback
  BY <1>4, TurnMissing DEF ModelFallback
<1>5. CASE StreamEnds
  <2>1. CASE aborted
    BY <1>5, <2>1, TurnMissing DEF StreamEnds
  <2>2. CASE ~aborted
    BY <1>5, <2>2, TurnGoesOn
  <2>3. QED
    BY <2>1, <2>2
<1>6. CASE StreamFails
  BY <1>6, TurnMissing DEF StreamFails
<1>7. QED
  BY <1>1, <1>2, <1>3, <1>4, <1>5, <1>6 DEF Request

-----------------------------------------------------------------------------
(***************************************************************************)
(* The tools.                                                              *)
(***************************************************************************)

\* A block of the present attempt moves on, without a result unless it is
\* done: what each action of a tool does.
Moves(b) ==
    /\ phase = "tools" /\ b \in Current /\ job[b] # "done"
    /\ \A a \in Current : a < b => job[a] # "none"
    /\ \/ Yield(b)
       \/ /\ \E j \in {"hooks", "asking", "running"} :
                job' = [job EXCEPT ![b] = j]
          /\ results' = results
    /\ UNCHANGED <<phase, first, made, gone>>

LEMMA ToolMoves ==
    ASSUME TurnInv, NEW b \in Blocks, Tool(b)
    PROVE  Moves(b)
<1>1. CASE Begin(b)
  <2>1. \A a \in Current : a < b => job[a] # "none"
    BY <1>1 DEF Begin, MayBegin
  <2>2. job[b] = "none"
    BY <1>1 DEF Begin, MayBegin
  <2>3. QED
    BY <1>1, <2>1, <2>2 DEF Begin, Moves
<1>2. CASE ~Begin(b)
  <2>1. Active(b) /\ job[b] # "done"
    BY <1>2 DEF Tool, PreHooks, Refused, Start, Finish, Active
  <2>2. /\ phase = "tools" /\ b \in Current
        /\ \A a \in Current : a < b => job[a] # "none"
    BY <2>1 DEF TurnInv, JobsInPlace, Active
  <2>3. CASE PreHooks(b)
    BY <2>1, <2>2, <2>3 DEF PreHooks, Moves
  <2>4. CASE Refused(b)
    BY <2>1, <2>2, <2>4 DEF Refused, Moves
  <2>5. CASE Start(b)
    BY <2>1, <2>2, <2>5 DEF Start, Moves
  <2>6. CASE Finish(b)
    BY <2>1, <2>2, <2>6 DEF Finish, Moves
  <2>7. QED
    BY <1>2, <2>3, <2>4, <2>5, <2>6 DEF Tool
<1>3. QED
  BY <1>1, <1>2

LEMMA TurnMoves ==
    ASSUME TurnInv, NEW b \in Blocks, Moves(b)
    PROVE  TurnInv'
<1> USE Numbered
<1>1. /\ phase = "tools" /\ phase' = "tools" /\ b \in Current
      /\ Current' = Current /\ made' = made /\ first' = first /\ gone' = gone
      /\ job[b] # "done"
  BY DEF Moves, Current
<1>2. made \in 0 .. N /\ first \in 1 .. made + 1
  BY DEF TurnInv, TurnTyped
<1>3. PICK j \in Jobs \ {"none"} :
          /\ job' = [job EXCEPT ![b] = j]
          /\ results' = [results EXCEPT ![b] = IF j = "done" THEN 1 ELSE 0]
  <2>1. results[b] = 0 /\ results \in [Blocks -> Nat]
    BY <1>1 DEF TurnInv, TurnTyped, Accounted, Has
  <2>2. CASE Yield(b)
    <3>1. results' = [results EXCEPT ![b] = 1]
      BY <2>1, <2>2 DEF Yield
    <3>2. job' = [job EXCEPT ![b] = "done"] /\ "done" \in Jobs \ {"none"}
      BY <2>2 DEF Yield, Jobs
    <3>3. QED
      BY <3>1, <3>2
  <2>3. CASE ~Yield(b)
    <3>1. PICK j \in {"hooks", "asking", "running"} :
              job' = [job EXCEPT ![b] = j]
      BY <2>3 DEF Moves
    <3>2. results' = [results EXCEPT ![b] = 0]
      BY <2>1, <2>3 DEF Moves
    <3>3. QED
      BY <3>1, <3>2 DEF Jobs
  <2>4. QED
    BY <2>2, <2>3
<1>4. TurnTyped'
  BY <1>1, <1>3 DEF TurnInv, TurnTyped, Jobs
<1>5. \A c \in Blocks : /\ job'[c] = IF c = b THEN j ELSE job[c]
                        /\ results'[c] = IF c = b
                                         THEN IF j = "done" THEN 1 ELSE 0
                                         ELSE results[c]
  BY <1>3 DEF TurnInv, TurnTyped
<1>6. Accounted'
  BY <1>1, <1>2, <1>5 DEF TurnInv, Accounted, Current, Has
<1>7. JobsInPlace'
  <2>1. \A a \in Current : a < b => job[a] # "none"
    BY DEF Moves
  <2>2. ASSUME NEW c \in Blocks, job'[c] # "none"
        PROVE  /\ c \in Current'
               /\ \A a \in Current' : a < c => job'[a] # "none"
    <3>1. c \in Current /\ \A a \in Current : a < c => job[a] # "none"
      BY <1>1, <1>5, <2>1, <2>2 DEF TurnInv, JobsInPlace
    <3>2. Current \subseteq Blocks
      BY <1>2 DEF Current
    <3>3. QED
      BY <1>1, <1>5, <3>1, <3>2
  <2>3. QED
    BY <1>1, <2>2 DEF JobsInPlace
<1>8. QED
  BY <1>4, <1>6, <1>7 DEF TurnInv

LEMMA TurnToolsEnd ==
    ASSUME TurnInv, ToolsEnd
    PROVE  TurnInv'
<1> USE Numbered
<1>1. TurnTyped'
  BY DEF TurnInv, TurnTyped, ToolsEnd
<1>2. Accounted'
  BY DEF TurnInv, TurnTyped, Accounted, ToolsEnd, Current, Has
<1>3. JobsInPlace'
  BY DEF TurnInv, TurnTyped, JobsInPlace, ToolsEnd, Current, Active
<1>4. QED
  BY <1>1, <1>2, <1>3 DEF TurnInv

LEMMA TurnUntouched ==
    ASSUME TurnInv, UNCHANGED turnVars
    PROVE  TurnInv'
BY DEF TurnInv, TurnTyped, Accounted, JobsInPlace, turnVars, Current, Has,
       Active

LEMMA TurnSteps == TurnInv /\ [Next]_vars => TurnInv'
<1> SUFFICES ASSUME TurnInv, [Next]_vars PROVE TurnInv'
  OBVIOUS
<1>1. CASE Request
  BY <1>1, TurnRequests
<1>2. ASSUME NEW b \in Blocks, Tool(b) PROVE TurnInv'
  BY <1>2, ToolMoves, TurnMoves
<1>3. CASE ToolsEnd
  BY <1>3, TurnToolsEnd
<1>4. CASE UNCHANGED turnVars
  BY <1>4, TurnUntouched
<1>5. QED
  BY <1>1, <1>2, <1>3, <1>4 DEF Next, vars

\* Every tool_use has its one tool_result when the iteration is over, and
\* none has two, whatever failed, fell back or was aborted on the way.
THEOREM EveryUseIsPaired == Spec => []Paired
<1>1. Spec => []TurnInv
  BY TurnStarts, TurnSteps, PTL DEF Spec
<1>2. QED
  BY <1>1, TurnImpliesPaired, PTL

-----------------------------------------------------------------------------
(***************************************************************************)
(* The requests.  Of a request the turn sees where it is and what claimed  *)
(* it, so a step of the permissions is told by those two alone.            *)
(***************************************************************************)

Pcs == {"idle", "checking", "denying", "describing", "asking", "allowed",
        "refused"}
Claims == {None, "allow", "reject"}
Requests == [pc : Pcs, claim : Claims, hook : BOOLEAN, fresh : BOOLEAN]

\* The decision of a request is the one that was claimed.
Sound(b) == /\ req[b].claim = "allow" => req[b].pc \in {"asking", "allowed"}
            /\ req[b].claim = "reject" => req[b].pc = "refused"

\* A request is made by the block's job, and the tool runs on an allow or
\* without asking.
Matched(b) == /\ job[b] \in {"none", "hooks"} => req[b].pc = "idle"
              /\ job[b] = "running" => req[b].pc \in {"idle", "allowed"}

AnswerInv ==
    /\ job \in [Blocks -> Jobs]
    /\ req \in [Blocks -> Requests]
    /\ \A b \in Blocks : Sound(b) /\ Matched(b)

\* What a step of the permissions may do to request b.
Kept(b) == /\ req[b].claim # None => req'[b].claim = req[b].claim
           /\ req[b].pc \in {"idle", "allowed"} => req'[b].pc = req[b].pc

\* The requests are typed and keep what was claimed.
Advances == /\ req' \in [Blocks -> Requests]
            /\ \A b \in Blocks : Kept(b) /\ Sound(b)'

\* One request moves on, from where it may, or none does.
LEMMA OneAdvances ==
    ASSUME AnswerInv, NEW b \in Blocks, req' \in [Blocks -> Requests],
           \A c \in Blocks \ {b} : /\ req'[c].pc = req[c].pc
                                   /\ req'[c].claim = req[c].claim,
           req[b].pc \notin {"idle", "allowed"},
           req[b].claim # None => req'[b].claim = req[b].claim,
           req'[b].claim = "allow" => req'[b].pc \in {"asking", "allowed"},
           req'[b].claim = "reject" => req'[b].pc = "refused"
    PROVE  Advances
<1>1. ASSUME NEW c \in Blocks PROVE Kept(c) /\ Sound(c)'
  <2>1. CASE c = b
    BY <2>1 DEF Kept, Sound
  <2>2. CASE c # b
    BY <2>2 DEF AnswerInv, Kept, Sound
  <2>3. QED
    BY <2>1, <2>2
<1>2. QED
  BY <1>1 DEF Advances

LEMMA NoneAdvances ==
    ASSUME AnswerInv, req' \in [Blocks -> Requests],
           \A c \in Blocks : /\ req'[c].pc = req[c].pc
                             /\ req'[c].claim = req[c].claim
    PROVE  Advances
BY DEF AnswerInv, Kept, Sound, Advances

\* A request on its way, or allowed and not yet told so, gets a new pc.
LEMMA PcAdvances ==
    ASSUME AnswerInv, NEW b \in Blocks, NEW p \in Pcs,
           req' = [req EXCEPT ![b].pc = p],
           req[b].pc \notin {"idle", "allowed"},
           \/ req[b].pc \in {"checking", "denying", "describing"}
           \/ req[b].claim = "allow" /\ p = "allowed"
    PROVE  Advances
<1>1. /\ req' \in [Blocks -> Requests]
      /\ req'[b].pc = p /\ req'[b].claim = req[b].claim
      /\ \A c \in Blocks \ {b} : req'[c] = req[c]
  BY DEF AnswerInv, Requests
<1>2. /\ req'[b].claim = "allow" => req'[b].pc \in {"asking", "allowed"}
      /\ req'[b].claim = "reject" => req'[b].pc = "refused"
  BY <1>1 DEF AnswerInv, Sound
<1>3. QED
  BY <1>1, <1>2, OneAdvances

\* The request is still open when it is claimed: that is claim().
LEMMA ClaimAdvances ==
    ASSUME AnswerInv, NEW b \in Blocks, NEW d \in {"allow", "reject"},
           Open(b), req' \in [Blocks -> Requests],
           req'[b].claim = d,
           req'[b].pc = IF d = "allow" THEN "allowed" ELSE "refused",
           \A c \in Blocks \ {b} : /\ req'[c].pc = req[c].pc
                                   /\ req'[c].claim = req[c].claim
    PROVE  Advances
<1>1. req[b].claim = None /\ req[b].pc = "asking"
  BY DEF Open, Doing
<1>2. QED
  BY <1>1, OneAdvances

\* Resolved, and what the racers clear with it.
LEMMA ResolvedAnswers ==
    ASSUME AnswerInv, NEW b \in Blocks, NEW d \in {"allow", "reject"}
    PROVE  /\ Resolved(b, d) \in [Blocks -> Requests]
           /\ Resolved(b, d)[b].claim = d
           /\ Resolved(b, d)[b].pc = IF d = "allow" THEN "allowed"
                                                    ELSE "refused"
           /\ \A c \in Blocks \ {b} : Resolved(b, d)[c] = req[c]
<1> DEFINE p == IF d = "allow" THEN "allowed" ELSE "refused"
<1>1. p \in Pcs /\ d \in Claims
  BY DEF Pcs, Claims
<1>2. req \in [Blocks -> Requests]
  BY DEF AnswerInv
<1>3. Resolved(b, d) = [req EXCEPT ![b].claim = d, ![b].pc = p]
  BY DEF Resolved
<1> HIDE DEF p
<1>4. /\ Resolved(b, d) \in [Blocks -> Requests]
      /\ Resolved(b, d)[b].pc = p /\ Resolved(b, d)[b].claim = d
      /\ \A c \in Blocks \ {b} : Resolved(b, d)[c] = req[c]
  BY ZenonT(30), <1>1, <1>2, <1>3 DEF Requests
<1>5. QED
  BY <1>4 DEF p

LEMMA AnsweredAdvances ==
    ASSUME AnswerInv, NEW b \in Blocks, NEW d \in {"allow", "reject"},
           Answered(b, d)
    PROVE  Advances
<1>1. CASE Open(b)
  <2>1. req' = [Resolved(b, d) EXCEPT ![b].hook = FALSE]
    BY <1>1 DEF Answered
  <2>2. /\ req' \in [Blocks -> Requests]
        /\ \A c \in Blocks : /\ req'[c].pc = Resolved(b, d)[c].pc
                             /\ req'[c].claim = Resolved(b, d)[c].claim
    <3> DEFINE f == Resolved(b, d)
    <3>1. f \in [Blocks -> Requests] /\ req' = [f EXCEPT ![b].hook = FALSE]
      BY <2>1, ResolvedAnswers
    <3> HIDE DEF f
    <3>2. /\ req' \in [Blocks -> Requests]
          /\ \A c \in Blocks : /\ req'[c].pc = f[c].pc
                               /\ req'[c].claim = f[c].claim
      BY <3>1 DEF Requests
    <3>3. QED
      BY <3>2 DEF f
  <2>3. QED
    BY <1>1, <2>2, ResolvedAnswers, ClaimAdvances
<1>2. CASE ~Open(b)
  <2>1. req' = [req EXCEPT ![b].hook = FALSE]
    BY <1>2 DEF Answered
  <2>2. /\ req' \in [Blocks -> Requests]
        /\ \A c \in Blocks : /\ req'[c].pc = req[c].pc
                             /\ req'[c].claim = req[c].claim
    BY <2>1 DEF AnswerInv, Requests
  <2>3. QED
    BY <2>2, NoneAdvances
<1>3. QED
  BY <1>1, <1>2

-----------------------------------------------------------------------------
\* From the call to the dialog.
LEMMA CheckAdvances ==
    ASSUME AnswerInv, NEW b \in Blocks, Check(b) \/ Deny(b)
    PROVE  Advances
<1>1. req[b].pc \in {"checking", "denying"}
  BY DEF Check, Deny, Doing
<1>2. PICK p \in Pcs : req' = [req EXCEPT ![b].pc = p]
  <2>1. CASE Deny(b)
    BY <2>1 DEF Deny, Pcs
  <2>2. CASE Check(b) /\ IfAborted(b, "allowed")
    <3>1. CASE aborted
      BY <2>2, <3>1 DEF IfAborted, Pcs
    <3>2. CASE ~aborted
      BY <2>2, <3>2 DEF IfAborted, Pcs
    <3>3. QED
      BY <3>1, <3>2
  <2>3. CASE Check(b) /\ ~IfAborted(b, "allowed")
    BY <2>3 DEF Check, Pcs
  <2>4. QED
    BY <2>1, <2>2, <2>3
<1>3. QED
  BY <1>1, <1>2, PcAdvances

LEMMA DescribeAdvances ==
    ASSUME AnswerInv, NEW b \in Blocks, Describe(b)
    PROVE  Advances
<1>1. req[b].pc = "describing" /\ "refused" \in Pcs /\ "asking" \in Pcs
  BY DEF Describe, Doing, Pcs
<1>2. CASE aborted
  <2>1. req' = [req EXCEPT ![b].pc = "refused"]
    BY <1>2 DEF Describe
  <2>2. QED
    BY <1>1, <2>1, PcAdvances
<1>3. CASE ~aborted
  <2>1. req' = [req EXCEPT ![b].pc = "asking", ![b].hook = TRUE]
    BY <1>3 DEF Describe
  <2>2. /\ req' \in [Blocks -> Requests]
        /\ req'[b].pc = "asking" /\ req'[b].claim = req[b].claim
        /\ \A c \in Blocks \ {b} : req'[c] = req[c]
    BY <1>1, <2>1 DEF AnswerInv, Requests
  <2>3. req[b].claim # "reject"
    BY <1>1 DEF AnswerInv, Sound
  <2>4. QED
    BY <1>1, <2>2, <2>3, OneAdvances
<1>4. QED
  BY <1>2, <1>3

\* The racers.
LEMMA HookAdvances ==
    ASSUME AnswerInv, NEW b \in Blocks, HookAnswer(b)
    PROVE  Advances
<1>1. CASE req' = [req EXCEPT ![b].hook = FALSE]
  <2>1. /\ req' \in [Blocks -> Requests]
        /\ \A c \in Blocks : /\ req'[c].pc = req[c].pc
                             /\ req'[c].claim = req[c].claim
    BY <1>1 DEF AnswerInv, Requests
  <2>2. QED
    BY <2>1, NoneAdvances
<1>2. CASE Answered(b, "allow") \/ Answered(b, "reject")
  BY <1>2, AnsweredAdvances
<1>3. QED
  BY <1>1, <1>2 DEF HookAnswer

LEMMA AllowAdvances ==
    ASSUME AnswerInv, NEW b \in Blocks, Allow(b)
    PROVE  Advances
<1>1. CASE Open(b)
  <2>1. req' = [req EXCEPT ![b].claim = "allow"]
    BY <1>1 DEF Allow
  <2>2. /\ req' \in [Blocks -> Requests]
        /\ req'[b].pc = req[b].pc /\ req'[b].claim = "allow"
        /\ \A c \in Blocks \ {b} : req'[c] = req[c]
    BY <2>1 DEF AnswerInv, Claims, Requests
  <2>3. req[b].pc = "asking" /\ req[b].claim = None
    BY <1>1 DEF Open, Doing
  <2>4. QED
    BY <2>2, <2>3, OneAdvances
<1>2. CASE ~Open(b)
  BY <1>2, NoneAdvances DEF Allow, AnswerInv
<1>3. QED
  BY <1>1, <1>2

LEMMA RejectAdvances ==
    ASSUME AnswerInv, NEW b \in Blocks, Reject(b)
    PROVE  Advances
<1>1. CASE Open(b)
  <2>1. req' = Resolved(b, "reject")
    BY <1>1 DEF Reject
  <2>2. QED
    BY <1>1, <2>1, ResolvedAnswers, ClaimAdvances
<1>2. CASE ~Open(b)
  BY <1>2, NoneAdvances DEF Reject, AnswerInv
<1>3. QED
  BY <1>1, <1>2

LEMMA ReplyAdvances ==
    ASSUME AnswerInv, NEW b \in Blocks, NEW d \in {"allow", "reject"},
           ChannelReply(b, d)
    PROVE  Advances
BY ResolvedAnswers, ClaimAdvances DEF ChannelReply

LEMMA DeliverAdvances ==
    ASSUME AnswerInv, NEW b \in Blocks, Deliver(b)
    PROVE  Advances
<1>1. /\ req[b].pc = "asking" /\ req[b].claim = "allow"
      /\ "allowed" \in Pcs /\ req' = [req EXCEPT ![b].pc = "allowed"]
  BY DEF Deliver, Doing, Pcs
<1>2. QED
  BY <1>1, PcAdvances

LEMMA RecheckAdvances ==
    ASSUME AnswerInv, NEW b \in Blocks, Recheck(b)
    PROVE  Advances
<1>1. CASE Open(b) /\ req' = [Resolved(b, "allow") EXCEPT ![b].fresh = FALSE]
  <2>1. /\ req' \in [Blocks -> Requests]
        /\ \A c \in Blocks : /\ req'[c].pc = Resolved(b, "allow")[c].pc
                             /\ req'[c].claim = Resolved(b, "allow")[c].claim
    <3> DEFINE f == Resolved(b, "allow")
    <3>1. f \in [Blocks -> Requests] /\ req' = [f EXCEPT ![b].fresh = FALSE]
      BY <1>1, ResolvedAnswers
    <3> HIDE DEF f
    <3>2. /\ req' \in [Blocks -> Requests]
          /\ \A c \in Blocks : /\ req'[c].pc = f[c].pc
                               /\ req'[c].claim = f[c].claim
      BY <3>1 DEF Requests
    <3>3. QED
      BY <3>2 DEF f
  <2>2. /\ Resolved(b, "allow")[b].claim = "allow"
        /\ Resolved(b, "allow")[b].pc = "allowed"
        /\ \A c \in Blocks \ {b} : Resolved(b, "allow")[c] = req[c]
    BY ResolvedAnswers
  <2>3. /\ req'[b].claim = "allow" /\ req'[b].pc = "allowed"
        /\ \A c \in Blocks \ {b} : /\ req'[c].pc = req[c].pc
                                    /\ req'[c].claim = req[c].claim
    BY <2>1, <2>2
  <2>4. QED
    BY <1>1, <2>1, <2>3, ClaimAdvances
<1>2. CASE req' = [req EXCEPT ![b].fresh = FALSE]
  <2>1. /\ req' \in [Blocks -> Requests]
        /\ \A c \in Blocks : /\ req'[c].pc = req[c].pc
                             /\ req'[c].claim = req[c].claim
    BY <1>2 DEF AnswerInv, Requests
  <2>2. QED
    BY <2>1, NoneAdvances
<1>3. QED
  BY <1>1, <1>2 DEF Recheck

LEMMA ScreenAdvances ==
    ASSUME AnswerInv, Screen
    PROVE  Advances
<1>1. CASE RecheckAll
  <2>1. req' = [b \in Blocks |-> IF b \in {c \in Range(confirm) : Open(c)}
                                 THEN [req[b] EXCEPT !.fresh = TRUE]
                                 ELSE req[b]]
    BY <1>1 DEF RecheckAll
  <2>2. /\ req' \in [Blocks -> Requests]
        /\ \A c \in Blocks : /\ req'[c].pc = req[c].pc
                             /\ req'[c].claim = req[c].claim
    BY <2>1 DEF AnswerInv, Requests
  <2>3. QED
    BY <2>2, NoneAdvances
<1>2. CASE Render \/ Type \/ StopTyping \/ Escape
  BY <1>2, NoneAdvances DEF Render, Type, StopTyping, Escape, AnswerInv
<1>3. QED
  BY <1>1, <1>2 DEF Screen

LEMMA AskedAdvances ==
    ASSUME AnswerInv, NEW b \in Blocks, Asked(b)
    PROVE  Advances
BY CheckAdvances, DescribeAdvances, HookAdvances, AllowAdvances,
   DeliverAdvances, RejectAdvances, RecheckAdvances, ReplyAdvances DEF Asked

-----------------------------------------------------------------------------
(***************************************************************************)
(* Requests and jobs together.                                             *)
(***************************************************************************)

LEMMA AnswersStart == Init => AnswerInv
<1> SUFFICES ASSUME Init PROVE AnswerInv
  OBVIOUS
<1>1. req \in [Blocks -> Requests]
  BY DEF Init, PermInit, NewRequest, Requests, Pcs, Claims
<1>2. job \in [Blocks -> Jobs]
  BY DEF Init, Jobs
<1>3. ASSUME NEW b \in Blocks PROVE Sound(b) /\ Matched(b)
  <2>1. req[b].pc = "idle" /\ req[b].claim = None
    BY DEF Init, PermInit, NewRequest
  <2>2. job[b] = "none"
    BY DEF Init
  <2>3. QED
    BY <2>1, <2>2, PermissionAssumption DEF Sound, Matched
<1>4. QED
  BY <1>1, <1>2, <1>3 DEF AnswerInv

\* A step that moves requests and no job, or jobs as the requests allow.
LEMMA AnswersKept ==
    ASSUME AnswerInv, Advances, job' = job
    PROVE  AnswerInv'
<1>1. ASSUME NEW b \in Blocks PROVE Matched(b)'
  BY DEF AnswerInv, Advances, Kept, Matched
<1>2. QED
  BY <1>1 DEF AnswerInv, Advances

LEMMA JobMoves ==
    ASSUME AnswerInv, req' = req, NEW b \in Blocks, NEW j \in Jobs,
           job' = [job EXCEPT ![b] = j],
           j \in {"none", "hooks"} => req[b].pc = "idle",
           j = "running" => req[b].pc \in {"idle", "allowed"}
    PROVE  AnswerInv' /\ Advances
<1>1. job' \in [Blocks -> Jobs] /\ req' \in [Blocks -> Requests]
  BY DEF AnswerInv
<1>2. ASSUME NEW c \in Blocks PROVE Matched(c)' /\ Sound(c)' /\ Kept(c)
  BY DEF AnswerInv, Matched, Sound, Kept
<1>3. QED
  BY <1>1, <1>2 DEF AnswerInv, Advances

\* What FirstAnswerDecides says of block b.
Decides(b) ==
    req[b].claim # None =>
        /\ req'[b].claim = req[b].claim
        /\ req[b].claim = "reject" => job'[b] # "running"
        /\ req[b].claim = "allow" => req'[b].pc # "refused"

\* Once the claims are kept and the jobs match, the decisions stand.
LEMMA DecisionsStand ==
    ASSUME AnswerInv', \A b \in Blocks : Kept(b)
    PROVE  \A b \in Blocks : Decides(b)
BY DEF AnswerInv, Sound, Matched, Kept, Decides

\* The job that asks: its request leaves idle with it.
LEMMA AskMoves ==
    ASSUME AnswerInv, NEW b \in Blocks, job[b] = "hooks", Ask(b),
           job' = [job EXCEPT ![b] = "asking"]
    PROVE  AnswerInv' /\ \A c \in Blocks : Decides(c)
<1>1. PICK p \in Pcs : req' = [req EXCEPT ![b].pc = p]
  <2>1. CASE aborted
    BY <2>1 DEF Ask, IfAborted, Pcs
  <2>2. CASE ~aborted
    BY <2>2 DEF Ask, IfAborted, Pcs
  <2>3. QED
    BY <2>1, <2>2
<1>2. /\ req' \in [Blocks -> Requests]
      /\ req'[b].claim = req[b].claim
      /\ \A c \in Blocks \ {b} : req'[c] = req[c]
  BY <1>1 DEF AnswerInv, Requests
<1>3. /\ job' \in [Blocks -> Jobs] /\ job'[b] = "asking"
      /\ \A c \in Blocks \ {b} : job'[c] = job[c]
  BY DEF AnswerInv, Jobs
<1>4. req[b].pc = "idle" /\ req[b].claim \notin {"allow", "reject"}
  BY DEF AnswerInv, Sound, Matched, Ask, Doing
<1>5. ASSUME NEW c \in Blocks
      PROVE  Sound(c)' /\ Matched(c)' /\ req'[c].claim = req[c].claim
  <2>1. CASE c = b
    BY <1>2, <1>3, <1>4, <2>1 DEF Sound, Matched
  <2>2. CASE c # b
    BY <1>2, <1>3, <2>2 DEF AnswerInv, Sound, Matched
  <2>3. QED
    BY <2>1, <2>2
<1>6. AnswerInv'
  BY <1>2, <1>3, <1>5 DEF AnswerInv
<1>7. \A c \in Blocks : Decides(c)
  BY <1>5, <1>6 DEF AnswerInv, Sound, Matched, Decides
<1>8. QED
  BY <1>6, <1>7

LEMMA ToolAnswers ==
    ASSUME AnswerInv, NEW b \in Blocks, Tool(b)
    PROVE  AnswerInv' /\ \A c \in Blocks : Decides(c)
<1>1. CASE job[b] = "hooks" /\ Ask(b) /\ job' = [job EXCEPT ![b] = "asking"]
  BY <1>1, AskMoves
<1>2. ASSUME req' = req, job' = [job EXCEPT ![b] = "done"]
      PROVE  AnswerInv' /\ Advances
  BY <1>2, JobMoves DEF Jobs
<1>3. ASSUME req' = req, job' = [job EXCEPT ![b] = "hooks"], job[b] = "none"
      PROVE  AnswerInv' /\ Advances
  <2>1. req[b].pc = "idle"
    BY <1>3 DEF AnswerInv, Matched
  <2>2. QED
    BY <1>3, <2>1, JobMoves DEF Jobs
<1>4. ASSUME req' = req, job' = [job EXCEPT ![b] = "running"],
             job[b] = "hooks" \/ Doing(b, "allowed")
      PROVE  AnswerInv' /\ Advances
  <2>1. req[b].pc \in {"idle", "allowed"}
    BY <1>4 DEF AnswerInv, Matched, Doing
  <2>2. QED
    BY <1>4, <2>1, JobMoves DEF Jobs
<1>5. \/ job[b] = "hooks" /\ Ask(b) /\ job' = [job EXCEPT ![b] = "asking"]
      \/ req' = req /\ job' = [job EXCEPT ![b] = "done"]
      \/ req' = req /\ job' = [job EXCEPT ![b] = "hooks"] /\ job[b] = "none"
      \/ /\ req' = req /\ job' = [job EXCEPT ![b] = "running"]
         /\ job[b] = "hooks" \/ Doing(b, "allowed")
  BY DEF Tool, Begin, MayBegin, PreHooks, Refused, Start, Finish, Yield,
         permVars
<1>6. QED
  BY <1>1, <1>2, <1>3, <1>4, <1>5, DecisionsStand DEF Advances

LEMMA RequestAnswers ==
    ASSUME AnswerInv, UNCHANGED <<req, job>>
    PROVE  AnswerInv' /\ Advances
BY DEF AnswerInv, Advances, Kept, Sound, Matched

LEMMA AnswersStep ==
    ASSUME AnswerInv, [Next]_vars
    PROVE  AnswerInv' /\ \A b \in Blocks : Decides(b)
<1>1. CASE Request \/ ToolsEnd \/ UNCHANGED vars
  <2>1. UNCHANGED <<req, job>>
    BY <1>1 DEF Request, Stream, StreamBreaks, Unstreamed, ModelFallback,
                StreamEnds, StreamFails, ToolsEnd, vars, permVars, turnVars
  <2>2. QED
    BY <2>1, RequestAnswers, DecisionsStand DEF Advances
<1>2. ASSUME NEW b \in Blocks, Tool(b)
      PROVE  AnswerInv' /\ \A c \in Blocks : Decides(c)
  BY <1>2, ToolAnswers
<1>3. CASE /\ Screen \/ \E b \in Blocks : Asked(b)
           /\ UNCHANGED turnVars
  <2>1. Advances
    BY <1>3, ScreenAdvances, AskedAdvances
  <2>2. AnswerInv'
    BY <1>3, <2>1, AnswersKept DEF turnVars
  <2>3. QED
    BY <2>1, <2>2, DecisionsStand DEF Advances
<1>4. QED
  BY <1>1, <1>2, <1>3 DEF Next

\* The first to claim a request decides it, whoever answers later, and a tool
\* that was refused does not run.
THEOREM FirstAnswerStands == Spec => FirstAnswerDecides
<1>1. Spec => []AnswerInv
  <2>1. AnswerInv /\ [Next]_vars => AnswerInv'
    BY AnswersStep
  <2>2. QED
    BY <2>1, AnswersStart, PTL DEF Spec
<1>2. AnswerInv /\ [Next]_vars =>
         [\A b \in Blocks : req[b].claim # None =>
             /\ req'[b].claim = req[b].claim
             /\ req[b].claim = "reject" => job'[b] # "running"
             /\ req[b].claim = "allow" => req'[b].pc # "refused"]_vars
  BY AnswersStep DEF Decides
<1>3. QED
  BY <1>1, <1>2, PTL DEF Spec, FirstAnswerDecides

-----------------------------------------------------------------------------
(***************************************************************************)
(* The batches.                                                            *)
(***************************************************************************)

\* A step that begins no block.
LEMMA FewerActive ==
    ASSUME UnsafeRunsAlone, \A b \in Blocks : Active(b)' => Active(b),
           safe' = safe
    PROVE  UnsafeRunsAlone'
<1> DEFINE A == {b \in Blocks : Active(b)}
<1>1. IsFiniteSet(A) /\ A' \subseteq A
  BY PermissionAssumption, FS_Subset
<1>2. Cardinality(A') <= Cardinality(A)
  BY <1>1, FS_Subset
<1>3. Cardinality(A) \in Nat /\ Cardinality(A') \in Nat
  BY <1>1, FS_Subset, FS_CardinalityType
<1>4. Cardinality(A') <= Cap
  BY <1>2, <1>3, TurnAssumption DEF UnsafeRunsAlone
<1>5. QED
  BY <1>4 DEF UnsafeRunsAlone, Together

\* A step that begins block b.
LEMMA OneMoreActive ==
    ASSUME TurnInv, UnsafeRunsAlone, NEW b \in Blocks, b \in Current,
           phase = "tools", MayBegin(b), safe' = safe,
           \A c \in Blocks \ {b} : job'[c] = job[c]
    PROVE  UnsafeRunsAlone'
<1> USE Numbered
<1> DEFINE A == {c \in Blocks : Active(c)}
<1>1. ~Active(b)
  BY DEF MayBegin, Active
<1>2. A = {a \in Current : Active(a)}
  BY DEF TurnInv, TurnTyped, JobsInPlace, Active, Current
<1>3. Cardinality(A) < Cap
  BY <1>2 DEF MayBegin
<1>4. A' \subseteq A \cup {b}
  BY DEF Active
<1>5. /\ IsFiniteSet(A) /\ IsFiniteSet(A \cup {b})
      /\ Cardinality(A \cup {b}) = Cardinality(A) + 1
  BY <1>1, PermissionAssumption, FS_Subset, FS_AddElement
<1>6. /\ Cardinality(A') <= Cardinality(A \cup {b})
      /\ Cardinality(A') \in Nat /\ Cardinality(A) \in Nat
  BY <1>4, <1>5, FS_Subset, FS_CardinalityType
<1>7. Cardinality(A') <= Cap
  BY <1>3, <1>5, <1>6, TurnAssumption
<1>8. ASSUME NEW c \in Blocks, NEW d \in Blocks, c < d, Active(c)', Active(d)'
      PROVE  Together(c, d)
  <2>1. CASE c # b /\ d # b
    BY <1>8, <2>1 DEF UnsafeRunsAlone, Active
  <2>2. CASE d = b
    <3>1. job[c] # "done" /\ c \in Current
      BY <1>8, <2>2 DEF TurnInv, JobsInPlace, Active
    <3>2. QED
      BY <1>8, <2>2, <3>1 DEF MayBegin
  <2>3. CASE c = b
    <3>1. job[d] # "none"
      BY <1>8, <2>3 DEF Active
    <3>2. job[b] # "none"
      BY <1>8, <2>3, <3>1 DEF TurnInv, JobsInPlace
    <3>3. QED
      BY <3>2 DEF MayBegin
  <2>4. QED
    BY <2>1, <2>2, <2>3
<1>9. QED
  BY <1>7, <1>8 DEF UnsafeRunsAlone, Together

LEMMA BatchesStep ==
    ASSUME TurnInv, UnsafeRunsAlone, [Next]_vars
    PROVE  UnsafeRunsAlone'
<1>1. CASE \E b \in Blocks : Begin(b)
  <2>1. PICK b \in Blocks : Begin(b)
    BY <1>1
  <2>2. /\ b \in Current /\ phase = "tools" /\ MayBegin(b) /\ safe' = safe
        /\ \A c \in Blocks \ {b} : job'[c] = job[c]
    BY <2>1 DEF Begin, Yield, TurnInv, TurnTyped
  <2>3. QED
    BY <2>2, OneMoreActive
<1>2. ASSUME NEW b \in Blocks, PreHooks(b) \/ Refused(b) \/ Start(b) \/ Finish(b)
      PROVE  UnsafeRunsAlone'
  <2>1. Active(b) /\ safe' = safe
    BY <1>2 DEF PreHooks, Refused, Start, Finish, Active
  <2>2. \A c \in Blocks \ {b} : job'[c] = job[c]
    BY <1>2 DEF PreHooks, Refused, Start, Finish, Yield, TurnInv, TurnTyped
  <2>3. QED
    BY <2>1, <2>2, FewerActive DEF Active
<1>3. CASE UNCHANGED <<job, safe>>
  BY <1>3, FewerActive DEF Active
<1>4. CASE Request \/ ToolsEnd
  BY <1>3, <1>4 DEF Request, Stream, StreamBreaks, Unstreamed, ModelFallback,
                    StreamEnds, StreamFails, ToolsEnd
<1>5. CASE UNCHANGED turnVars
  BY <1>3, <1>5 DEF turnVars
<1>6. QED
  BY <1>1, <1>2, <1>4, <1>5 DEF Next, Tool, vars

LEMMA BatchesStart == Init => UnsafeRunsAlone
<1> SUFFICES ASSUME Init PROVE UnsafeRunsAlone
  OBVIOUS
<1>1. \A b \in Blocks : ~Active(b)
  BY DEF Init, Active
<1>2. {b \in Blocks : Active(b)} = {}
  BY <1>1
<1>3. Cardinality({b \in Blocks : Active(b)}) = 0
  BY <1>2, FS_EmptySet
<1>4. QED
  BY <1>1, <1>3, TurnAssumption DEF UnsafeRunsAlone

\* A tool that is not concurrency-safe runs alone, and no more than Cap run.
THEOREM UnsafeToolsAreAlone == Spec => []UnsafeRunsAlone
<1>1. Spec => []TurnInv
  BY TurnStarts, TurnSteps, PTL DEF Spec
<1>2. TurnInv /\ UnsafeRunsAlone /\ [Next]_vars => UnsafeRunsAlone'
  BY BatchesStep
<1>3. QED
  BY <1>1, <1>2, BatchesStart, PTL DEF Spec

-----------------------------------------------------------------------------
(***************************************************************************)
(* The dialogs.                                                            *)
(***************************************************************************)

NoneTwice(s) == \A i, j \in DOMAIN s : s[i] = s[j] => i = j

\* A sequence without one of its positions.
LEMMA RemoveAtIs ==
    ASSUME NEW S, NEW s \in Seq(S), NEW p \in 1 .. Len(s)
    PROVE  /\ RemoveAt(s, p) \in Seq(S)
           /\ Len(RemoveAt(s, p)) = Len(s) - 1
           /\ \A i \in 1 .. Len(s) - 1 :
                RemoveAt(s, p)[i] = IF i < p THEN s[i] ELSE s[i + 1]
<1> DEFINE front == SubSeq(s, 1, p - 1)  back == SubSeq(s, p + 1, Len(s))
<1>1. /\ front \in Seq(S) /\ Len(front) = p - 1
      /\ \A i \in 1 .. p - 1 : front[i] = s[i]
  OBVIOUS
<1>2. /\ back \in Seq(S) /\ Len(back) = Len(s) - p
      /\ \A i \in 1 .. Len(s) - p : back[i] = s[i + p]
  OBVIOUS
<1>3. RemoveAt(s, p) = front \o back
  BY DEF RemoveAt
<1> HIDE DEF front, back
<1>4. /\ front \o back \in Seq(S)
      /\ Len(front \o back) = Len(front) + Len(back)
  BY <1>1, <1>2, ConcatProperties
<1>5. \A i \in 1 .. Len(front) + Len(back) :
         (front \o back)[i] = IF i <= Len(front) THEN front[i]
                                                 ELSE back[i - Len(front)]
  BY <1>1, <1>2, ConcatProperties
<1>6. ASSUME NEW i \in 1 .. Len(s) - 1
      PROVE  (front \o back)[i] = IF i < p THEN s[i] ELSE s[i + 1]
  <2>0. i \in Int /\ p \in Int
    OBVIOUS
  <2>1. CASE i < p
    BY <1>1, <1>2, <1>5, <2>1
  <2>2. CASE ~(i < p)
    <3>1. i - (p - 1) \in 1 .. Len(s) - p /\ (i - (p - 1)) + p = i + 1
      BY <2>0, <2>2
    <3>2. back[i - (p - 1)] = s[i + 1]
      BY <1>2, <3>1
    <3>3. QED
      BY <1>1, <1>2, <1>5, <2>2, <3>2
  <2>3. QED
    BY <2>0, <2>1, <2>2
<1>7. QED
  BY <1>1, <1>2, <1>3, <1>4, <1>6

\* What the filter of removeFromQueue leaves.
LEMMA RemovedIs ==
    ASSUME confirm \in Seq(Blocks), NoneTwice(confirm), NEW b \in Blocks
    PROVE  /\ Removed(b) \in Seq(Blocks) /\ NoneTwice(Removed(b))
           /\ Range(Removed(b)) = Range(confirm) \ {b}
           /\ confirm # <<>> /\ Head(confirm) # b
                => Removed(b) # <<>> /\ Head(Removed(b)) = Head(confirm)
<1>1. CASE \E i \in DOMAIN confirm : confirm[i] = b
  <2> DEFINE p == CHOOSE i \in DOMAIN confirm : confirm[i] = b
             r == RemoveAt(confirm, p)
  <2>1. p \in 1 .. Len(confirm) /\ confirm[p] = b
    BY <1>1
  <2>2. Removed(b) = r
    BY <1>1 DEF Removed
  <2> HIDE DEF p
  <2>3. /\ r \in Seq(Blocks) /\ Len(r) = Len(confirm) - 1
        /\ \A i \in 1 .. Len(confirm) - 1 :
              r[i] = IF i < p THEN confirm[i] ELSE confirm[i + 1]
    BY <2>1, RemoveAtIs
  <2> HIDE DEF r
  <2>4. NoneTwice(r)
    <3>1. SUFFICES ASSUME NEW i \in 1 .. Len(r), NEW j \in 1 .. Len(r), r[i] = r[j]
                   PROVE  i = j
      BY <2>3 DEF NoneTwice
    <3> DEFINE at(k) == IF k < p THEN k ELSE k + 1
    <3>2. /\ at(i) \in 1 .. Len(confirm) /\ r[i] = confirm[at(i)]
          /\ at(j) \in 1 .. Len(confirm) /\ r[j] = confirm[at(j)]
      BY <2>1, <2>3
    <3>a. \A k, l \in 1 .. Len(confirm) : confirm[k] = confirm[l] => k = l
      BY DEF NoneTwice
    <3>b. confirm[at(i)] = confirm[at(j)]
      BY <3>1, <3>2
    <3> HIDE DEF at
    <3>3. at(i) = at(j)
      BY <3>2, <3>a, <3>b
    <3> USE DEF at
    <3>4. QED
      BY <2>1, <2>3, <3>3
  <2>5. \A i \in 1 .. Len(r) : r[i] \in Range(confirm) \ {b}
    BY <2>1, <2>3 DEF NoneTwice, Range
  <2>6. ASSUME NEW c \in Range(confirm), c # b PROVE c \in Range(r)
    <3>1. PICK i \in 1 .. Len(confirm) : confirm[i] = c
      BY DEF Range
    <3>2. i # p
      BY <2>1, <2>6, <3>1
    <3>3. CASE i < p
      BY <2>1, <2>3, <3>1, <3>3 DEF Range
    <3>4. CASE i > p
      <4>1. i - 1 \in 1 .. Len(r) /\ r[i - 1] = c
        BY <2>1, <2>3, <3>1, <3>4
      <4>2. QED
        BY <2>3, <4>1 DEF Range
    <3>5. QED
      BY <2>1, <3>2, <3>3, <3>4
  <2>7. Range(r) = Range(confirm) \ {b}
    <3>1. Range(r) = {r[i] : i \in 1 .. Len(r)}
      BY <2>3 DEF Range
    <3>2. QED
      BY <2>5, <2>6, <3>1
  <2>8. confirm # <<>> /\ Head(confirm) # b => r # <<>> /\ Head(r) = Head(confirm)
    BY <2>1, <2>3
  <2>9. QED
    BY <2>2, <2>3, <2>4, <2>7, <2>8
<1>2. CASE ~\E i \in DOMAIN confirm : confirm[i] = b
  BY <1>2 DEF Removed, Range
<1>3. QED
  BY <1>1, <1>2

AskedPcs == {"asking", "allowed", "refused"}

DialogTyped ==
    /\ confirm \in Seq(Blocks) /\ shown \in Blocks \cup {None}
    /\ dropped \subseteq Blocks

\* The dialog on the screen is of a request that was asked about; while that
\* is open the dialog is the head of the queue, so that onDone, which pops
\* the head, pops the dialog that was answered.
OnScreen ==
    shown # None =>
        /\ req[shown].pc \in AskedPcs
        /\ Open(shown) => confirm # <<>> /\ Head(confirm) = shown

DialogsInv == DialogTyped /\ DialogsMatchRequests /\ OnScreen

\* What stays asked, and stays open, apart from the requests in bs.
Unasked(bs) ==
    /\ \A c \in Blocks : req[c].pc \in AskedPcs => req'[c].pc \in AskedPcs
    /\ \A c \in Blocks \ bs : Open(c)' <=> Open(c)

\* DialogsMatchRequests by elements.
LEMMA MatchIs ==
    DialogsMatchRequests <=>
        /\ NoneTwice(confirm)
        /\ \A b \in Blocks : b \in Range(confirm) => Open(b)
        /\ \A b \in Blocks : Open(b) => b \in Range(confirm) \cup dropped
BY DEF DialogsMatchRequests, NoneTwice

LEMMA HeadIs ==
    ASSUME confirm \in Seq(Blocks), confirm # <<>>
    PROVE  /\ Head(confirm) \in Blocks /\ Head(confirm) \in Range(confirm)
           /\ Popped = Tail(confirm) /\ Head0(confirm) = Head(confirm)
<1>1. 1 \in 1 .. Len(confirm) /\ Head(confirm) = confirm[1]
  OBVIOUS
<1>2. QED
  BY <1>1 DEF Popped, Head0, Range

\* Without the head.
LEMMA TailIs ==
    ASSUME confirm \in Seq(Blocks), confirm # <<>>, NoneTwice(confirm)
    PROVE  /\ Tail(confirm) \in Seq(Blocks) /\ NoneTwice(Tail(confirm))
           /\ Range(Tail(confirm)) = Range(confirm) \ {Head(confirm)}
<1> DEFINE r == Tail(confirm)
<1>1. /\ r \in Seq(Blocks) /\ Len(r) = Len(confirm) - 1
      /\ \A i \in 1 .. Len(confirm) - 1 : r[i] = confirm[i + 1]
      /\ Head(confirm) = confirm[1] /\ Len(confirm) \in Nat \ {0}
  OBVIOUS
<1> HIDE DEF r
<1>2. \A i, j \in 1 .. Len(confirm) : confirm[i] = confirm[j] => i = j
  BY DEF NoneTwice
<1>3. NoneTwice(r)
  <2>1. SUFFICES ASSUME NEW i \in 1 .. Len(r), NEW j \in 1 .. Len(r), r[i] = r[j]
                 PROVE  i = j
    BY <1>1 DEF NoneTwice
  <2>2. /\ i + 1 \in 1 .. Len(confirm) /\ j + 1 \in 1 .. Len(confirm)
        /\ confirm[i + 1] = confirm[j + 1]
    BY <1>1, <2>1
  <2>3. i + 1 = j + 1
    BY <1>2, <2>2
  <2>4. QED
    BY <2>3
<1>4. /\ Range(r) = {r[i] : i \in 1 .. Len(r)}
      /\ Range(confirm) = {confirm[i] : i \in 1 .. Len(confirm)}
  BY <1>1 DEF Range
<1>5. ASSUME NEW i \in 1 .. Len(r)
      PROVE  r[i] \in Range(confirm) \ {Head(confirm)}
  <2>1. i + 1 \in 1 .. Len(confirm) /\ 1 \in 1 .. Len(confirm) /\ i + 1 # 1
    BY <1>1
  <2>2. confirm[i + 1] # confirm[1]
    BY <1>2, <2>1
  <2>3. QED
    BY <1>1, <1>4, <2>1, <2>2
<1>6. ASSUME NEW c \in Range(confirm), c # Head(confirm) PROVE c \in Range(r)
  <2>1. PICK i \in 1 .. Len(confirm) : confirm[i] = c
    BY <1>4
  <2>2. i - 1 \in 1 .. Len(r) /\ (i - 1) + 1 = i
    BY <1>1, <1>6, <2>1
  <2>3. QED
    BY <1>1, <1>4, <2>1, <2>2
<1>7. QED
  BY <1>1, <1>3, <1>4, <1>5, <1>6 DEF r

\* A step that touches no dialog.
LEMMA DialogsStay ==
    ASSUME DialogsInv, UNCHANGED <<confirm, shown, dropped>>, Unasked({})
    PROVE  DialogsInv'
<1>1. DialogTyped'
  BY DEF DialogsInv, DialogTyped
<1>2. \A c \in Blocks : Open(c)' <=> Open(c)
  BY DEF Unasked
<1>3. DialogsMatchRequests'
  BY <1>2 DEF DialogsInv, DialogsMatchRequests
<1>4. OnScreen'
  BY <1>2 DEF DialogsInv, DialogTyped, OnScreen, Unasked
<1>5. QED
  BY <1>1, <1>3, <1>4 DEF DialogsInv

\* A dialog joins the queue with its request.
LEMMA DialogJoins ==
    ASSUME DialogsInv, NEW b \in Blocks, req[b].pc \notin AskedPcs, Open(b)',
           confirm' = Append(confirm, b), UNCHANGED <<shown, dropped>>,
           Unasked({b})
    PROVE  DialogsInv'
<1>1. DialogTyped'
  BY DEF DialogsInv, DialogTyped
<1>2. b \notin Range(confirm)
  BY MatchIs DEF DialogsInv, Open, Doing, AskedPcs
<1>3. /\ confirm \in Seq(Blocks) /\ Len(confirm') = Len(confirm) + 1
      /\ \A i \in 1 .. Len(confirm) : confirm'[i] = confirm[i]
      /\ confirm'[Len(confirm) + 1] = b /\ Len(confirm) \in Nat
      /\ confirm' \in Seq(Blocks)
  BY DEF DialogsInv, DialogTyped
<1>4. /\ Range(confirm) = {confirm[i] : i \in 1 .. Len(confirm)}
      /\ Range(confirm') = {confirm'[i] : i \in 1 .. Len(confirm')}
  BY <1>3 DEF Range
<1>5. Range(confirm') = Range(confirm) \cup {b}
  <2>1. \A i \in 1 .. Len(confirm') : confirm'[i] \in Range(confirm) \cup {b}
    BY <1>3, <1>4
  <2>2. Range(confirm) \cup {b} \subseteq Range(confirm')
    BY <1>3, <1>4
  <2>3. QED
    BY <1>4, <2>1, <2>2
<1>6. NoneTwice(confirm')
  <2>1. SUFFICES ASSUME NEW i \in 1 .. Len(confirm'), NEW j \in 1 .. Len(confirm'),
                        confirm'[i] = confirm'[j]
                 PROVE  i = j
    BY <1>3 DEF NoneTwice
  <2>2. \A k, l \in 1 .. Len(confirm) : confirm[k] = confirm[l] => k = l
    BY <1>3, MatchIs DEF DialogsInv, NoneTwice
  <2>3. \A k \in 1 .. Len(confirm) : confirm'[k] # b
    BY <1>2, <1>3, <1>4
  <2>4. QED
    BY <1>3, <2>1, <2>2, <2>3
<1>7. /\ \A c \in Blocks : c \in Range(confirm') => Open(c)'
      /\ \A c \in Blocks : Open(c)' => c \in Range(confirm') \cup dropped'
  BY <1>5, MatchIs DEF DialogsInv, Unasked
<1>8. DialogsMatchRequests'
  BY <1>6, <1>7 DEF DialogsMatchRequests, NoneTwice
<1>9. OnScreen'
  <2>1. shown # None => shown \in Blocks \ {b} /\ req[shown].pc \in AskedPcs
    BY DEF DialogsInv, DialogTyped, OnScreen
  <2>2. confirm # <<>> => confirm' # <<>> /\ Head(confirm') = Head(confirm)
    BY <1>3
  <2>3. QED
    BY <2>1, <2>2 DEF DialogsInv, OnScreen, Unasked
<1>10. QED
  BY <1>1, <1>8, <1>9 DEF DialogsInv

\* A dialog leaves the queue with the answer from elsewhere.
LEMMA DialogLeaves ==
    ASSUME DialogsInv, NEW b \in Blocks, ~Open(b)',
           confirm' = Removed(b), UNCHANGED <<shown, dropped>>,
           Unasked({b})
    PROVE  DialogsInv'
<1>1. /\ Removed(b) \in Seq(Blocks) /\ NoneTwice(Removed(b))
      /\ Range(Removed(b)) = Range(confirm) \ {b}
      /\ confirm # <<>> /\ Head(confirm) # b
           => Removed(b) # <<>> /\ Head(Removed(b)) = Head(confirm)
  BY RemovedIs, MatchIs DEF DialogsInv, DialogTyped
<1>2. DialogTyped'
  BY <1>1 DEF DialogsInv, DialogTyped
<1>3. /\ \A c \in Blocks : c \in Range(confirm') => Open(c)'
      /\ \A c \in Blocks : Open(c)' => c \in Range(confirm') \cup dropped'
  BY <1>1, MatchIs DEF DialogsInv, Unasked
<1>4. DialogsMatchRequests'
  BY <1>1, <1>3 DEF DialogsMatchRequests, NoneTwice
<1>5. OnScreen'
  BY <1>1 DEF DialogsInv, DialogTyped, OnScreen, Unasked
<1>6. QED
  BY <1>2, <1>4, <1>5 DEF DialogsInv

\* The user answers the dialog on the screen.
LEMMA DialogDone ==
    ASSUME DialogsInv, NEW b \in Blocks, shown = b, ~Open(b)', Done(b), Unasked({b})
    PROVE  DialogsInv'
<1>t. confirm \in Seq(Blocks) /\ NoneTwice(confirm) /\ None \notin Blocks
  BY MatchIs, PermissionAssumption DEF DialogsInv, DialogTyped
<1>1. CASE confirm = <<>>
  <2>1. confirm' = <<>> /\ shown' = None /\ dropped' = dropped
    BY <1>1 DEF Done, Popped, Head0
  <2>2. ~Open(b)
    BY <1>1, <1>t DEF DialogsInv, OnScreen
  <2>3. \A c \in Blocks : Open(c)' <=> Open(c)
    BY <2>2 DEF Unasked
  <2>4. QED
    BY <1>1, <2>1, <2>3
       DEF DialogsInv, DialogTyped, DialogsMatchRequests, OnScreen
<1>2. CASE confirm # <<>>
  <2> DEFINE h == Head(confirm)
  <2>1. /\ h \in Blocks /\ h \in Range(confirm)
        /\ confirm' = Tail(confirm)
        /\ dropped' = dropped \cup ({h} \ {None, b})
    BY <1>t, <1>2, HeadIs DEF Done
  <2>2. /\ confirm' \in Seq(Blocks) /\ NoneTwice(confirm')
        /\ Range(confirm') = Range(confirm) \ {h}
    BY <1>t, <1>2, <2>1, TailIs
  <2> HIDE DEF h
  <2>3. Open(b) => h = b
    BY <1>2, <1>t DEF DialogsInv, OnScreen, h
  <2>4. b \notin Range(confirm')
    BY <2>2, <2>3, MatchIs DEF DialogsInv
  <2>5. /\ \A c \in Blocks : c \in Range(confirm') => Open(c)'
        /\ \A c \in Blocks : Open(c)' => c \in Range(confirm') \cup dropped'
    BY <1>t, <2>1, <2>2, <2>4, MatchIs DEF DialogsInv, Unasked
  <2>6. DialogsMatchRequests'
    BY <2>2, <2>5 DEF DialogsMatchRequests, NoneTwice
  <2>7. confirm' # <<>> =>
            /\ Head(confirm') \in Range(confirm') /\ Head(confirm') \in Blocks
            /\ shown' = Head(confirm')
    <3>1. ASSUME confirm' # <<>>
          PROVE  /\ Head(confirm') \in Blocks
                 /\ 1 \in DOMAIN confirm' /\ Head(confirm') = confirm'[1]
      BY <2>2, <3>1
    <3>2. QED
      BY <3>1 DEF Done, Head0, Range
  <2>8. confirm' = <<>> => shown' = None
    BY DEF Done, Head0
  <2>9. OnScreen'
    <3>1. ASSUME shown' # None
          PROVE  Open(shown)' /\ confirm' # <<>> /\ Head(confirm') = shown'
      BY <2>5, <2>7, <2>8, <3>1
    <3>2. QED
      BY <3>1 DEF OnScreen, Open, Doing, AskedPcs
  <2>10. DialogTyped'
    BY <2>1, <2>2, <2>7, <2>8 DEF DialogsInv, DialogTyped
  <2>11. QED
    BY <2>6, <2>9, <2>10 DEF DialogsInv
<1>3. QED
  BY <1>1, <1>2

-----------------------------------------------------------------------------
\* One request moves on, and what was asked about stays so.
LEMMA OneUnasked ==
    ASSUME NEW b \in Blocks,
           \A c \in Blocks \ {b} : /\ req'[c].pc = req[c].pc
                                   /\ req'[c].claim = req[c].claim,
           req[b].pc \in AskedPcs => req'[b].pc \in AskedPcs
    PROVE  Unasked({b}) /\ ((Open(b)' <=> Open(b)) => Unasked({}))
<1>1. \A c \in Blocks \ {b} : Open(c)' <=> Open(c)
  BY DEF Open, Doing
<1>2. QED
  BY <1>1 DEF Unasked

\* A request that is not open gets a new pc that is not "asking".
LEMMA DialogsPc ==
    ASSUME AnswerInv, DialogsInv, NEW b \in Blocks, ~Open(b), NEW p,
           p # "asking", req' = [req EXCEPT ![b].pc = p],
           req[b].pc \in AskedPcs => p \in AskedPcs,
           UNCHANGED <<confirm, shown, dropped>>
    PROVE  DialogsInv'
<1>1. /\ req'[b].pc = p
      /\ \A c \in Blocks \ {b} : req'[c] = req[c]
  BY DEF AnswerInv, Requests
<1>2. ~Open(b)'
  BY <1>1 DEF Open, Doing
<1>3. QED
  BY <1>1, <1>2, OneUnasked, DialogsStay

LEMMA DialogsAsk ==
    ASSUME AnswerInv, DialogsInv, NEW b \in Blocks, Ask(b) \/ Check(b) \/ Deny(b)
    PROVE  DialogsInv'
<1>1. req[b].pc \in {"idle", "checking", "denying"}
  BY DEF Ask, Check, Deny, Doing
<1>2. PICK p \in Pcs \ {"asking"} : req' = [req EXCEPT ![b].pc = p]
  <2>1. CASE \E q \in {"allowed", "checking"} : IfAborted(b, q)
    <3>1. PICK q \in {"allowed", "checking"} : IfAborted(b, q)
      BY <2>1
    <3>2. (IF aborted THEN "refused" ELSE q) \in Pcs \ {"asking"}
      BY DEF Pcs
    <3>3. QED
      BY <3>1, <3>2 DEF IfAborted
  <2>2. CASE \E q \in {"denying", "describing", "refused"} :
                req' = [req EXCEPT ![b].pc = q]
    BY <2>2 DEF Pcs
  <2>3. QED
    BY <2>1, <2>2 DEF Ask, Check, Deny
<1>3. UNCHANGED <<confirm, shown, dropped>>
  BY DEF Ask, Check, Deny
<1>4. ~Open(b)
  BY <1>1 DEF Open, Doing
<1>5. QED
  BY <1>1, <1>2, <1>3, <1>4, DialogsPc DEF AskedPcs

LEMMA DialogsDescribe ==
    ASSUME AnswerInv, DialogsInv, NEW b \in Blocks, Describe(b)
    PROVE  DialogsInv'
<1>1. req[b].pc = "describing" /\ ~Open(b)
  BY DEF Describe, Open, Doing
<1>2. CASE aborted
  BY <1>1, <1>2, DialogsPc DEF Describe, AskedPcs
<1>3. CASE ~aborted
  <2>1. /\ req' = [req EXCEPT ![b].pc = "asking", ![b].hook = TRUE]
        /\ confirm' = Append(confirm, b) /\ UNCHANGED <<shown, dropped>>
    BY <1>3 DEF Describe
  <2>2. /\ req'[b].pc = "asking" /\ req'[b].claim = req[b].claim
        /\ \A c \in Blocks \ {b} : req'[c] = req[c]
    BY <2>1 DEF AnswerInv, Requests
  <2>3. req[b].claim = None
    BY <1>1 DEF AnswerInv, Requests, Sound, Claims
  <2>4. Open(b)'
    BY <2>2, <2>3 DEF Open, Doing
  <2>5. QED
    BY <1>1, <2>1, <2>2, <2>4, OneUnasked, DialogJoins DEF AskedPcs
<1>4. QED
  BY <1>2, <1>3

\* An answer from elsewhere: the request is closed and its dialog goes.
LEMMA DialogsAnswered ==
    ASSUME AnswerInv, DialogsInv, NEW b \in Blocks, NEW d \in {"allow", "reject"},
           Open(b),
           \A c \in Blocks : /\ req'[c].pc = Resolved(b, d)[c].pc
                             /\ req'[c].claim = Resolved(b, d)[c].claim,
           confirm' = Removed(b), UNCHANGED <<shown, dropped>>
    PROVE  DialogsInv'
<1>1. /\ req'[b].pc \in {"allowed", "refused"}
      /\ \A c \in Blocks \ {b} : /\ req'[c].pc = req[c].pc
                                 /\ req'[c].claim = req[c].claim
  BY ResolvedAnswers
<1>2. ~Open(b)' /\ req'[b].pc \in AskedPcs
  BY <1>1 DEF Open, Doing, AskedPcs
<1>3. QED
  BY <1>1, <1>2, OneUnasked, DialogLeaves

\* A step that changes neither where a request is nor what claimed it.
LEMMA DialogsQuiet ==
    ASSUME DialogsInv, UNCHANGED <<confirm, shown, dropped>>,
           \A c \in Blocks : /\ req'[c].pc = req[c].pc
                             /\ req'[c].claim = req[c].claim
    PROVE  DialogsInv'
<1>1. Unasked({})
  BY DEF Unasked, Open, Doing
<1>2. QED
  BY <1>1, DialogsStay

\* The racers' flags are beside the point.
LEMMA FlagChanged ==
    ASSUME NEW f \in [Blocks -> Requests], NEW b \in Blocks, NEW g,
           \/ g = [f EXCEPT ![b].hook = FALSE]
           \/ g = [f EXCEPT ![b].fresh = FALSE]
    PROVE  \A c \in Blocks : g[c].pc = f[c].pc /\ g[c].claim = f[c].claim
BY DEF Requests

LEMMA DialogsRace ==
    ASSUME AnswerInv, DialogsInv, NEW b \in Blocks,
           HookAnswer(b) \/ Recheck(b)
           \/ \E d \in {"allow", "reject"} : ChannelReply(b, d)
    PROVE  DialogsInv'
<1>t. req \in [Blocks -> Requests]
  BY DEF AnswerInv
<1>1. UNCHANGED <<shown, dropped>>
  BY DEF HookAnswer, Recheck, ChannelReply
<1>2. CASE /\ confirm' = confirm
           /\ \/ req' = [req EXCEPT ![b].hook = FALSE]
              \/ req' = [req EXCEPT ![b].fresh = FALSE]
  <2>1. \A c \in Blocks : req'[c].pc = req[c].pc /\ req'[c].claim = req[c].claim
    BY <1>t, <1>2, FlagChanged
  <2>2. QED
    BY <1>1, <1>2, <2>1, DialogsQuiet
<1>3. ASSUME NEW d \in {"allow", "reject"}, Open(b), confirm' = Removed(b),
             \/ req' = Resolved(b, d)
             \/ req' = [Resolved(b, d) EXCEPT ![b].hook = FALSE]
             \/ req' = [Resolved(b, d) EXCEPT ![b].fresh = FALSE]
      PROVE  DialogsInv'
  <2> DEFINE f == Resolved(b, d)
  <2>1. f \in [Blocks -> Requests]
    BY ResolvedAnswers
  <2>2. \/ req' = f
        \/ req' = [f EXCEPT ![b].hook = FALSE]
        \/ req' = [f EXCEPT ![b].fresh = FALSE]
    BY <1>3
  <2> HIDE DEF f
  <2>3. \A c \in Blocks : req'[c].pc = f[c].pc /\ req'[c].claim = f[c].claim
    BY <2>1, <2>2, FlagChanged
  <2>4. QED
    BY <1>1, <1>3, <2>3, DialogsAnswered DEF f
<1>4. CASE HookAnswer(b)
  <2>1. ASSUME NEW d \in {"allow", "reject"}, Answered(b, d) PROVE DialogsInv'
    BY <1>2, <1>3, <2>1 DEF Answered
  <2>2. QED
    BY <1>2, <1>4, <2>1 DEF HookAnswer
<1>5. CASE Recheck(b)
  BY <1>2, <1>3, <1>5 DEF Recheck
<1>6. CASE \E d \in {"allow", "reject"} : ChannelReply(b, d)
  BY <1>3, <1>6 DEF ChannelReply
<1>7. QED
  BY <1>4, <1>5, <1>6

\* The user's answers.
LEMMA DialogsUser ==
    ASSUME AnswerInv, DialogsInv, NEW b \in Blocks, Allow(b) \/ Reject(b)
    PROVE  DialogsInv'
<1>1. shown = b /\ Done(b)
  BY DEF Allow, Reject
<1>2. CASE ~Open(b)
  <2>1. req' = req
    BY <1>2 DEF Allow, Reject
  <2>2. ~Open(b)' /\ Unasked({b})
    BY <1>2, <2>1 DEF Unasked, Open, Doing
  <2>3. QED
    BY <1>1, <2>2, DialogDone
<1>3. CASE Open(b) /\ Allow(b)
  <2>1. req' = [req EXCEPT ![b].claim = "allow"]
    BY <1>3 DEF Allow
  <2>2. /\ req'[b].pc = req[b].pc /\ req'[b].claim = "allow"
        /\ \A c \in Blocks \ {b} : req'[c] = req[c]
    BY <2>1 DEF AnswerInv, Requests
  <2>3. ~Open(b)'
    BY <2>2, PermissionAssumption DEF Open
  <2>4. QED
    BY <1>1, <2>2, <2>3, OneUnasked, DialogDone
<1>4. CASE Open(b) /\ Reject(b)
  <2>1. req' = Resolved(b, "reject")
    BY <1>4 DEF Reject
  <2>2. /\ req'[b].pc = "refused"
        /\ \A c \in Blocks \ {b} : req'[c] = req[c]
    BY <2>1, ResolvedAnswers
  <2>3. ~Open(b)' /\ req'[b].pc \in AskedPcs
    BY <2>2 DEF Open, Doing, AskedPcs
  <2>4. QED
    BY <1>1, <2>2, <2>3, OneUnasked, DialogDone
<1>5. QED
  BY <1>2, <1>3, <1>4

LEMMA DialogsDeliver ==
    ASSUME AnswerInv, DialogsInv, NEW b \in Blocks, Deliver(b)
    PROVE  DialogsInv'
<1>1. ~Open(b)
  BY PermissionAssumption DEF Deliver, Open
<1>2. QED
  BY <1>1, DialogsPc DEF Deliver, AskedPcs

LEMMA DialogsScreen ==
    ASSUME AnswerInv, DialogsInv, Screen
    PROVE  DialogsInv'
<1>1. CASE RecheckAll
  <2>1. \A c \in Blocks : req'[c].pc = req[c].pc /\ req'[c].claim = req[c].claim
    BY <1>1 DEF RecheckAll, AnswerInv, Requests
  <2>2. QED
    BY <1>1, <2>1, DialogsQuiet DEF RecheckAll
<1>2. CASE Type \/ StopTyping
  BY <1>2, DialogsQuiet DEF Type, StopTyping
<1>3. CASE Render
  <2>1. /\ confirm' = confirm /\ dropped' = dropped /\ req' = req
        /\ shown' = None \/ shown' = Head0(confirm)
    BY <1>3 DEF Render
  <2>2. DialogsMatchRequests'
    BY <2>1 DEF DialogsInv, DialogsMatchRequests, Open, Doing
  <2>3. CASE shown' = None
    BY <2>1, <2>2, <2>3 DEF DialogsInv, DialogTyped, OnScreen
  <2>4. CASE shown' # None
    <3>1. confirm # <<>> /\ shown' = Head(confirm)
      BY <2>1, <2>4 DEF Head0
    <3>2. Head(confirm) \in Blocks /\ Open(Head(confirm))
      BY <3>1, HeadIs, MatchIs DEF DialogsInv, DialogTyped
    <3>3. OnScreen'
      BY <2>1, <3>1, <3>2 DEF OnScreen, Open, Doing, AskedPcs
    <3>4. QED
      BY <2>1, <2>2, <3>1, <3>2, <3>3 DEF DialogsInv, DialogTyped
  <2>5. QED
    BY <2>3, <2>4
<1>4. CASE Escape
  <2>1. /\ shown = None /\ shown' = None /\ confirm' = <<>> /\ req' = req
        /\ dropped' = dropped \cup Range(confirm)
    BY <1>4 DEF Escape
  <2>2. /\ Range(confirm) \subseteq Blocks /\ confirm' \in Seq(Blocks)
        /\ Range(confirm') = {} /\ NoneTwice(confirm')
    BY <2>1 DEF DialogsInv, DialogTyped, Range, NoneTwice
  <2>3. \A b \in Blocks : Open(b)' <=> Open(b)
    BY <2>1 DEF Open, Doing
  <2>4. DialogsMatchRequests'
    BY <2>1, <2>2, <2>3, MatchIs
       DEF DialogsInv, DialogsMatchRequests, NoneTwice
  <2>5. QED
    BY <2>1, <2>2, <2>4 DEF DialogsInv, DialogTyped, OnScreen
<1>5. QED
  BY <1>1, <1>2, <1>3, <1>4 DEF Screen

LEMMA DialogsStep ==
    ASSUME AnswerInv, DialogsInv, [Next]_vars
    PROVE  DialogsInv'
<1>1. CASE UNCHANGED permVars
  BY <1>1, DialogsQuiet DEF permVars
<1>2. CASE Request \/ ToolsEnd
  BY <1>1, <1>2 DEF Request, Stream, StreamBreaks, Unstreamed, ModelFallback,
                    StreamEnds, StreamFails, ToolsEnd
<1>3. ASSUME NEW b \in Blocks, Tool(b) PROVE DialogsInv'
  <2>1. UNCHANGED permVars \/ Ask(b)
    BY <1>3 DEF Tool, Begin, PreHooks, Refused, Start, Finish
  <2>2. QED
    BY <1>1, <2>1, DialogsAsk
<1>4. ASSUME NEW b \in Blocks, Asked(b) PROVE DialogsInv'
  BY <1>4, DialogsAsk, DialogsDescribe, DialogsRace, DialogsUser,
     DialogsDeliver
     DEF Asked
<1>5. QED
  BY <1>1, <1>2, <1>3, <1>4, DialogsScreen DEF Next, vars

-----------------------------------------------------------------------------
\* The variables whose type no other invariant holds.
PlainTyped ==
    /\ typing \in BOOLEAN /\ typed \in 0 .. MaxTyping
    /\ recheck \in BOOLEAN /\ aborted \in BOOLEAN
    /\ safe \in Safeties
    /\ fell \in BOOLEAN /\ retries \in 0 .. MaxFallbacks
    /\ stopped \in BOOLEAN

LEMMA PlainStep == PlainTyped /\ [Next]_vars => PlainTyped'
<1> SUFFICES ASSUME PlainTyped, [Next]_vars PROVE PlainTyped'
  OBVIOUS
<1> DEFINE Perm == typing \in BOOLEAN /\ typed \in 0 .. MaxTyping
                   /\ recheck \in BOOLEAN /\ aborted \in BOOLEAN
           Turn == safe \in Safeties /\ stopped \in BOOLEAN
                   /\ fell \in BOOLEAN /\ retries \in 0 .. MaxFallbacks
<1>1. Perm /\ Turn /\ MaxTyping \in Nat /\ MaxFallbacks \in Nat
  BY PermissionAssumption, TurnAssumption DEF PlainTyped
<1>2. UNCHANGED permVars => Perm'
  BY <1>1 DEF permVars
<1>3. UNCHANGED turnVars => Turn'
  BY <1>1 DEF turnVars
<1>4. CASE Request \/ ToolsEnd
  <2>1. UNCHANGED permVars
    BY <1>4 DEF Request, Stream, StreamBreaks, Unstreamed, ModelFallback,
                StreamEnds, StreamFails, ToolsEnd
  <2>2. Turn'
    <3>1. \/ retries' = retries
          \/ retries < MaxFallbacks /\ retries' = retries + 1
      BY <1>4 DEF Request, Stream, StreamBreaks, Unstreamed, ModelFallback,
                  StreamEnds, StreamFails, ToolsEnd
    <3>2. retries' \in 0 .. MaxFallbacks
      BY <1>1, <3>1
    <3>3. /\ safe' = safe /\ stopped' = stopped
          /\ fell' = fell \/ fell' = TRUE \/ fell' = FALSE
      BY <1>4, Zenon
         DEF Request, Stream, StreamBreaks, Unstreamed, ModelFallback,
                  StreamEnds, StreamFails, ToolsEnd
    <3>4. QED
      BY <1>1, <3>2, <3>3, Zenon
  <2>3. QED
    BY <1>2, <2>1, <2>2 DEF PlainTyped
<1>5. ASSUME NEW b \in Blocks, Tool(b) PROVE PlainTyped'
  <2>1. Perm'
    <3>1. UNCHANGED permVars \/ Ask(b)
      BY <1>5 DEF Tool, Begin, PreHooks, Refused, Start, Finish
    <3>2. QED
      BY <1>1, <1>2, <3>1 DEF Ask
  <2>2. Turn'
    BY <1>1, <1>5 DEF Tool, Begin, PreHooks, Refused, Start, Finish
  <2>3. QED
    BY <2>1, <2>2 DEF PlainTyped
<1>6. CASE UNCHANGED turnVars /\ (Screen \/ \E b \in Blocks : Asked(b))
  <2>1. ASSUME Screen PROVE Perm'
    <3>1. \/ typed' = typed
          \/ typed < MaxTyping /\ typed' = typed + 1
      BY <2>1 DEF Screen, RecheckAll, Render, Type, StopTyping, Escape
    <3>2. typed' \in 0 .. MaxTyping
      BY <1>1, <3>1
    <3>3. /\ typing' \in {typing, TRUE, FALSE}
          /\ recheck' \in {recheck, TRUE, FALSE}
          /\ aborted' \in {aborted, TRUE, FALSE}
      BY <2>1, Zenon DEF Screen, RecheckAll, Render, Type, StopTyping, Escape
    <3>4. QED
      BY <1>1, <3>2, <3>3, Zenon
  <2>2. ASSUME NEW b \in Blocks, Asked(b) PROVE Perm'
    BY <1>1, <2>2
       DEF Asked, Check, Deny, Describe, HookAnswer, Allow, Deliver,
                      Reject, Recheck, ChannelReply, Done
  <2>3. Perm'
    BY <1>6, <2>1, <2>2
  <2>4. QED
    BY <1>3, <1>6, <2>3 DEF PlainTyped
<1>7. CASE UNCHANGED vars
  BY <1>2, <1>3, <1>7 DEF vars, PlainTyped
<1>8. QED
  BY <1>4, <1>5, <1>6, <1>7 DEF Next

\* The parts make up the types of the module.
LEMMA TypesFollow ==
    ASSUME TurnInv, AnswerInv, DialogsInv, PlainTyped, Paired
    PROVE  TypeOK
<1> USE Numbered
<1>1. results \in [Blocks -> 0 .. 1]
  <2>1. \A b \in Blocks : results[b] <= 1
    BY DEF Paired, TurnInv, TurnTyped
  <2>2. QED
    BY <2>1 DEF TurnInv, TurnTyped
<1>2. gone \subseteq Streamed /\ made \in {0} \cup Blocks /\ first \in 1 .. made + 1
  BY DEF TurnInv, TurnTyped, Streamed
<1>3. Range(confirm) \subseteq Blocks
  BY DEF DialogsInv, DialogTyped, Range
<1>4. req \in [Blocks -> [pc : {"idle", "checking", "denying", "describing",
                                 "asking", "allowed", "refused"},
                           claim : {None, "allow", "reject"},
                           hook : BOOLEAN, fresh : BOOLEAN]]
  BY DEF AnswerInv, Requests, Pcs, Claims
<1>5. /\ phase \in {"streaming", "tools", "ended", "next"}
      /\ job \in [Blocks -> {"none", "hooks", "asking", "running", "done"}]
  BY DEF TurnInv, TurnTyped, Jobs
<1>6. QED
  BY <1>1, <1>2, <1>3, <1>4, <1>5
     DEF TypeOK, DialogsInv, DialogTyped, PlainTyped

\* Every open request has its dialog in the queue, unless it was taken off
\* without an answer; nobody is asked twice, or about what was decided; and
\* every variable keeps its type.
THEOREM DialogsMatch == Spec => []DialogInv
<1>1. Init => DialogsInv /\ PlainTyped
  <2> SUFFICES ASSUME Init PROVE DialogsInv /\ PlainTyped
    OBVIOUS
  <2>1. \A b \in Blocks : ~Open(b)
    BY DEF Init, PermInit, NewRequest, Open, Doing
  <2>2. /\ confirm = <<>> /\ shown = None /\ dropped = {}
        /\ confirm \in Seq(Blocks) /\ DOMAIN confirm = {} /\ Range(confirm) = {}
    BY DEF Init, PermInit, Range
  <2>3. DialogsInv
    BY <2>1, <2>2 DEF DialogsInv, DialogTyped, DialogsMatchRequests, OnScreen
  <2>4. PlainTyped
    <3>1. typed = 0 /\ retries = 0 /\ 0 \in 0 .. MaxTyping /\ 0 \in 0 .. MaxFallbacks
      BY PermissionAssumption, TurnAssumption DEF Init, PermInit
    <3>2. QED
      BY <3>1, Zenon DEF Init, PermInit, PlainTyped
  <2>5. QED
    BY <2>3, <2>4
<1>2. AnswerInv /\ DialogsInv /\ [Next]_vars => DialogsInv'
  BY DialogsStep
<1>3. TurnInv /\ AnswerInv /\ DialogsInv /\ PlainTyped => DialogInv
  BY TypesFollow, TurnImpliesPaired DEF DialogInv, DialogsInv
<1>4. QED
  BY <1>1, <1>2, <1>3, PlainStep, TurnStarts, TurnSteps, AnswersStart,
     AnswersStep,
     PTL DEF Spec
=============================================================================
