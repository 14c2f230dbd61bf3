--------------------------- MODULE ReplTurn_proofs ---------------------------
(***************************************************************************)
(* Proofs about ReplTurn, for any number of calls, commands and Escapes.   *)
(***************************************************************************)
EXTENDS ReplTurn, FiniteSetTheorems, TLAPS

\* The sets of entries in play are finite: needed to number what onQuery
\* pushes back.
Finite ==
    /\ IsFiniteSet(queue)
    /\ \A t \in Turns : IsFiniteSet(turn[t].batch)

TypeInv == TypeOK /\ Finite

USE DEF Guards, Statuses

\* A new entry is well typed, and pushing it keeps the queue finite.
LEMMA PushType ==
    ASSUME TypeInv, NEW c \in Cmds
    PROVE  /\ EntryOf(c) \in Entries
           /\ tick + 1 \in Nat
           /\ IsFiniteSet(queue \cup {EntryOf(c)})
           /\ IsFiniteSet({EntryOf(c)})
  <1>1. EntryOf(c) \in Entries /\ tick + 1 \in Nat
    BY DEF TypeInv, TypeOK, EntryOf, Entries
  <1>2. IsFiniteSet(queue \cup {EntryOf(c)})
    BY FS_AddElement DEF TypeInv, Finite
  <1>3. IsFiniteSet({EntryOf(c)})
    BY FS_Singleton
  <1> QED  BY <1>1, <1>2, <1>3

\* fate stays a function into sets of fates.
LEMMA SettleType ==
    ASSUME TypeInv, NEW cs, NEW f \in Fates
    PROVE  Settle(cs, f) \in [Cmds -> SUBSET Fates]
  BY DEF TypeInv, TypeOK, Settle

\* abort() changes nothing but the signal of a call.
LEMMA AbortType ==
    ASSUME TypeInv, NEW reason \in Signals
    PROVE  /\ Abort(reason) \in [Turns -> Calls]
           /\ \A t \in Turns : /\ Abort(reason)[t].pc = turn[t].pc
                               /\ Abort(reason)[t].gen = turn[t].gen
                               /\ Abort(reason)[t].batch = turn[t].batch
  BY DEF TypeInv, TypeOK, Abort, Calls

\* A chained command is pushed, or nothing changes.
LEMMA ChainType ==
    ASSUME TypeInv, NEW b \in BOOLEAN, Chain(b)
    PROVE  /\ queue' \subseteq Entries /\ tick' \in Nat /\ fresh' \subseteq Cmds
           /\ IsFiniteSet(queue')
  <1>1. CASE UNCHANGED <<queue, tick, fresh>>
    BY <1>1 DEF TypeInv, TypeOK, Finite
  <1>2. CASE \E c \in Cmds : Take(c, "chain") /\ Push(c)
    BY <1>2, PushType DEF TypeInv, TypeOK, Take, Push
  <1> QED  BY <1>1, <1>2 DEF Chain

\* onQuery, refused, pushes well-typed entries back.
LEMMA PushBackType ==
    ASSUME TypeInv, NEW t \in Turns, PushBack(turn[t].batch)
    PROVE  /\ queue' \subseteq Entries /\ tick' \in Nat
           /\ fate' \in [Cmds -> SUBSET Fates] /\ IsFiniteSet(queue')
  <1> DEFINE es   == turn[t].batch
             said == Said(es)
             back == {Again(e, es) : e \in said}
             f    == [e \in said |-> Again(e, es)]
  <1>1. es \subseteq Entries /\ IsFiniteSet(es)
    BY DEF TypeInv, TypeOK, Finite, Calls
  <1>2. said \subseteq Entries /\ IsFiniteSet(said)
    BY <1>1, FS_Subset DEF Said
  <1>3. \A e \in said : Cardinality({g \in said : g.at < e.at}) \in Nat
    <2> TAKE e \in said
    <2>1. IsFiniteSet({g \in said : g.at < e.at})
      BY <1>2, FS_Subset
    <2> QED  BY <2>1, FS_CardinalityType
  <1>4. back \subseteq Entries
    <2> SUFFICES ASSUME NEW e \in said PROVE Again(e, es) \in Entries
      OBVIOUS
    <2> DEFINE n == Cardinality({g \in said : g.at < e.at})
    <2>1. Again(e, es) = [cmd |-> e.cmd, again |-> TRUE, at |-> tick + n]
      BY DEF Again
    <2>2. n \in Nat
      BY <1>3
    <2>3. e.cmd \in Cmds /\ tick \in Nat
      BY <1>2 DEF Entries, TypeInv, TypeOK
    <2> HIDE DEF n
    <2> QED  BY <2>1, <2>2, <2>3 DEF Entries
  <1>5. IsFiniteSet(back)
    <2>1. f \in Surjection(said, back)
      BY DEF Surjection
    <2> QED  BY <2>1, <1>2, FS_Surjection
  <1>6. IsFiniteSet(queue \cup back)
    BY <1>5, FS_Union DEF TypeInv, Finite
  <1>7. Cardinality(said) \in Nat
    BY <1>2, FS_CardinalityType
  <1>8. Settle(CmdsOf(es \ said), "dropped") \in [Cmds -> SUBSET Fates]
    BY SettleType DEF Fates
  <1>9. /\ queue' = queue \cup back
        /\ tick' = tick + Cardinality(said)
        /\ fate' = Settle(CmdsOf(es \ said), "dropped")
    BY DEF PushBack
  <1>10. queue \subseteq Entries /\ tick \in Nat
    BY DEF TypeInv, TypeOK
  <1>11. queue' \subseteq Entries
    BY <1>4, <1>9, <1>10
  <1>12. IsFiniteSet(queue')
    BY <1>6, <1>9
  <1>13. tick' \in Nat
    BY <1>7, <1>9, <1>10
  <1>14. fate' \in [Cmds -> SUBSET Fates]
    BY <1>8, <1>9
  <1> QED
    BY <1>11, <1>12, <1>13, <1>14

\* onQuery, started or refused, keeps the types.
LEMMA OnQueryType ==
    ASSUME TypeInv, NEW t \in Turns, NEW ask \in BOOLEAN,
           OnQuery(t, turn[t].batch, ask)
    PROVE  /\ guard' \in Guards /\ turn' \in [Turns -> Calls]
           /\ queue' \subseteq Entries /\ tick' \in Nat
           /\ last' \in Cmds \cup {None} /\ fresh' \subseteq Cmds
           /\ fate' \in [Cmds -> SUBSET Fates] /\ IsFiniteSet(queue')
           /\ \A u \in Turns : IsFiniteSet(turn'[u].batch)
  <1> DEFINE es == turn[t].batch
  <1>1. es \in SUBSET Entries
    BY DEF TypeInv, TypeOK, Calls
  <1>2. CASE Starts(t, es, ask)
    <2>1. last' \in Cmds \cup {None}
      <3>1. CASE last' = last
        BY <3>1 DEF TypeInv, TypeOK
      <3>2. CASE \E e \in Said(es) : last' = e.cmd
        BY <1>1, <3>2 DEF Said, Entries
      <3> QED  BY <1>2, <3>1, <3>2 DEF Starts
    <2> DEFINE call == [turn[t] EXCEPT !.pc = "query", !.batch = es,
                          !.ask = ask, !.gen = guard.generation + 1]
    <2>a. turn[t] \in Calls /\ guard.generation + 1 \in Nat
      BY DEF TypeInv, TypeOK
    <2>b. call \in Calls /\ call.batch = turn[t].batch
      BY <1>1, <2>a DEF Calls
    <2>c. turn' = [turn EXCEPT ![t] = call] /\ turn \in [Turns -> Calls]
      BY <1>2 DEF Starts, TypeInv, TypeOK
    <2> HIDE DEF call
    <2>2. turn' \in [Turns -> Calls]
      BY <2>b, <2>c
    <2>3. \A u \in Turns : turn'[u].batch = turn[u].batch
      BY <2>b, <2>c
    <2>4. fate' \in [Cmds -> SUBSET Fates]
      BY <1>2, SettleType DEF Starts, Fates
    <2> QED
      BY <1>2, <2>1, <2>2, <2>3, <2>4
         DEF Starts, Start, TypeInv, TypeOK, Finite
  <1>3. CASE Refused(t, es)
    <2>1. turn' \in [Turns -> Calls]
      BY <1>3 DEF Refused, NoCall, Call, Calls, Signals, TypeInv, TypeOK
    <2>2. \A u \in Turns : IsFiniteSet(turn'[u].batch)
      BY <1>3, FS_EmptySet DEF Refused, NoCall, Call, TypeInv, TypeOK, Finite
    <2> QED
      BY <1>3, <2>1, <2>2, PushBackType DEF Refused, TypeInv, TypeOK
  <1> QED  BY <1>2, <1>3 DEF OnQuery

-----------------------------------------------------------------------------
\* The initial state is well typed.
LEMMA TypeInitially == Init => TypeOK /\ Finite
  <1> SUFFICES ASSUME Init PROVE TypeOK /\ Finite
    OBVIOUS
  <1>1. NoCall \in Calls
    BY DEF NoCall, Call, Calls, Signals
  <1>2. IsFiniteSet({})
    BY FS_EmptySet
  <1>3. guard \in Guards
    BY DEF Init, NewGuard
  <1>4. turn \in [Turns -> Calls] /\ \A t \in Turns : IsFiniteSet(turn[t].batch)
    BY <1>1, <1>2 DEF Init, NoCall, Call
  <1>5. fate \in [Cmds -> SUBSET Fates]
    BY DEF Init
  <1> QED  BY <1>2, <1>3, <1>4, <1>5 DEF Init, TypeInv, TypeOK, Finite

\* Every variable keeps its type, and the sets of entries stay finite.
LEMMA TypeInvariant == Spec => []TypeInv
  <1>1. Init => TypeInv
    BY TypeInitially DEF TypeInv
  <1>2. TypeInv /\ [Next]_vars => TypeInv'
    <2> SUFFICES ASSUME TypeInv, [Next]_vars PROVE TypeInv'
      OBVIOUS
    <2> USE DEF Fates
    <2>t. /\ guard \in Guards /\ turn \in [Turns -> Calls]
          /\ controller \in Turns \cup {None} /\ queue \subseteq Entries
          /\ tick \in Nat /\ dialog \in BOOLEAN /\ last \in Cmds \cup {None}
          /\ fresh \subseteq Cmds /\ fate \in [Cmds -> SUBSET Fates]
          /\ cancels \in Nat /\ IsFiniteSet(queue)
          /\ \A t \in Turns : IsFiniteSet(turn[t].batch)
      BY DEF TypeInv, TypeOK, Finite
    <2>a. ASSUME NEW c \in Cmds, SubmitBusy(c) PROVE TypeInv'
      <3>1. turn' \in [Turns -> Calls] /\ \A t \in Turns : turn'[t].batch = turn[t].batch
        BY <2>a, <2>t, AbortType DEF SubmitBusy, Signals
      <3> QED
        BY <2>a, <2>t, <3>1, PushType
           DEF SubmitBusy, Take, Push, TypeInv, TypeOK, Finite
    <2>b. ASSUME NEW c \in Cmds, Notify(c) PROVE TypeInv'
      BY <2>b, <2>t, PushType
         DEF Notify, Take, Push, flow, TypeInv, TypeOK, Finite
    <2>c. ASSUME NEW c \in Cmds, KillAgents(c) PROVE TypeInv'
      BY ZenonT(30), <2>c, <2>t, PushType, SettleType
         DEF KillAgents, Take, flow, TypeInv, TypeOK, Finite
    <2>d. ASSUME NEW c \in Cmds, OpenDialog(c) PROVE TypeInv'
      BY SMTT(30), <2>d, <2>t, SettleType
         DEF OpenDialog, Take, flow, TypeInv, TypeOK, Finite
    <2>e. ASSUME NEW c \in Cmds, NEW t \in Turns, SubmitNow(c, t) PROVE TypeInv'
      BY ZenonT(30), <2>e, <2>t, PushType
         DEF SubmitNow, Execute, Take, Reserve, Call, Calls, Signals,
             TypeInv, TypeOK, Finite
    <2>f. ASSUME NEW c \in Cmds, NEW t \in Turns, Incoming(c, t) PROVE TypeInv'
      <3>1. fate' \in [Cmds -> SUBSET Fates]
        BY <2>f, SettleType DEF Incoming
      <3> DEFINE call == Call("query", {EntryOf(c)}, guard.generation + 1, TRUE)
      <3>a. call \in Calls /\ IsFiniteSet(call.batch)
        <4>1. EntryOf(c) \in Entries /\ IsFiniteSet({EntryOf(c)})
          BY PushType
        <4>2. guard.generation + 1 \in Nat
          BY <2>t
        <4>3. call.batch = {EntryOf(c)}
          BY DEF Call
        <4>4. call \in Calls
          BY <4>1, <4>2 DEF Call, Calls, Signals
        <4> QED  BY <4>1, <4>3, <4>4
      <3>b. turn' = [turn EXCEPT ![t] = call]
        BY <2>f DEF Incoming
      <3> HIDE DEF call
      <3>2. /\ turn' \in [Turns -> Calls]
            /\ \A u \in Turns : IsFiniteSet(turn'[u].batch)
        BY <2>t, <3>a, <3>b
      <3>3. guard' \in Guards
        BY <2>f, <2>t DEF Incoming, Start
      <3>4. last' \in Cmds \cup {None}
        BY <2>f, <2>t DEF Incoming
      <3>5. tick' \in Nat
        BY <2>f, PushType DEF Incoming
      <3>6. /\ controller' \in Turns \cup {None} /\ queue' = queue
            /\ dialog' = dialog /\ fresh' \subseteq Cmds /\ cancels' = cancels
        BY <2>f, <2>t DEF Incoming
      <3> QED
        BY <2>t, <3>1, <3>2, <3>3, <3>4, <3>5, <3>6
           DEF TypeInv, TypeOK, Finite
    <2>g. ASSUME NEW c \in Cmds, NEW t \in Turns, InitialArrive(c, t) PROVE TypeInv'
      BY ZenonT(30), <2>g, <2>t, PushType
         DEF InitialArrive, Take, Call, Calls, Signals, TypeInv, TypeOK,
             Finite
    <2>h. ASSUME NEW t \in Turns, ProcessQueue(t) PROVE TypeInv'
      <3> PICK e \in MainThread(queue) :
            /\ Execute(t, Batch(e, MainThread(queue)))
            /\ queue' = queue \ Batch(e, MainThread(queue))
        BY <2>h DEF ProcessQueue
      <3>1. Batch(e, MainThread(queue)) \subseteq queue
        BY DEF Batch, MainThread
      <3>2. IsFiniteSet(Batch(e, MainThread(queue))) /\ IsFiniteSet(queue')
        BY <2>t, <3>1, FS_Subset
      <3> QED
        BY <2>h, <2>t, <3>1, <3>2
           DEF ProcessQueue, Execute, Reserve, Call, Calls, Signals,
               TypeInv, TypeOK, Finite
    <2>i. ASSUME NEW t \in Turns, InputDone(t) PROVE TypeInv'
      BY <2>i, <2>t, OnQueryType DEF InputDone, TypeInv, TypeOK, Finite
    <2>j. ASSUME NEW t \in Turns, InputLocal(t) PROVE TypeInv'
      <3>1. turn' \in [Turns -> Calls] /\ \A u \in Turns : IsFiniteSet(turn'[u].batch)
        BY <2>j, <2>t, FS_EmptySet
           DEF InputLocal, NoCall, Call, Calls, Signals
      <3> QED
        BY <2>j, <2>t, <3>1, ChainType, SettleType
           DEF InputLocal, CancelReservation, TypeInv, TypeOK, Finite
    <2>k. ASSUME NEW t \in Turns, InputThrow(t) PROVE TypeInv'
      <3>1. turn' \in [Turns -> Calls] /\ \A u \in Turns : IsFiniteSet(turn'[u].batch)
        BY <2>k, <2>t, FS_EmptySet
           DEF InputThrow, NoCall, Call, Calls, Signals
      <3> QED
        BY <2>k, <2>t, <3>1, SettleType
           DEF InputThrow, CancelReservation, TypeInv, TypeOK, Finite
    <2>l. ASSUME NEW t \in Turns, InitialLaunch(t) PROVE TypeInv'
      BY <2>l, <2>t, OnQueryType DEF InitialLaunch, TypeInv, TypeOK, Finite
    <2>m. ASSUME NEW t \in Turns, Reply(t) PROVE TypeInv'
      BY <2>m, <2>t DEF Reply, flow, TypeInv, TypeOK, Finite
    <2>n. ASSUME NEW t \in Turns, DrainStart(t) PROVE TypeInv'
      <3>1. PICK b \in BOOLEAN : turn' = [turn EXCEPT ![t].snap = Drainable(queue, b)]
        BY <2>n DEF DrainStart
      <3>2. Drainable(queue, b) \subseteq Entries
        BY <2>t DEF Drainable, UpTo, MainThread
      <3>3. /\ turn' \in [Turns -> Calls]
            /\ \A u \in Turns : turn'[u].batch = turn[u].batch
        BY <2>t, <3>1, <3>2 DEF Calls
      <3> QED
        BY <2>n, <2>t, <3>3 DEF DrainStart, TypeInv, TypeOK, Finite
    <2>o. ASSUME NEW t \in Turns, DrainEnd(t) PROVE TypeInv'
      <3>1. IsFiniteSet(queue')
        BY <2>o, <2>t, FS_Subset DEF DrainEnd
      <3>2. /\ turn' \in [Turns -> Calls]
            /\ \A u \in Turns : turn'[u].batch = turn[u].batch
        BY <2>o, <2>t DEF DrainEnd, Calls
      <3> QED
        BY <2>o, <2>t, <3>1, <3>2, SettleType
           DEF DrainEnd, TypeInv, TypeOK, Finite
    <2>p. ASSUME NEW t \in Turns, Finish(t) PROVE TypeInv'
      <3>1. turn' \in [Turns -> Calls] /\ \A u \in Turns : IsFiniteSet(turn'[u].batch)
        BY <2>p, <2>t, FS_EmptySet DEF Finish, NoCall, Call, Calls, Signals
      <3>2. last' \in Cmds \cup {None} /\ fate' \in [Cmds -> SUBSET Fates]
        BY <2>p, <2>t DEF Finish, Restores
      <3>3. guard' \in Guards /\ controller' \in Turns \cup {None}
        BY <2>p, <2>t DEF Finish, Finally, CancelReservation, End, Ends
      <3> QED
        BY <2>p, <2>t, <3>1, <3>2, <3>3, ChainType
           DEF Finish, TypeInv, TypeOK, Finite
    <2>q. ASSUME Cancel PROVE TypeInv'
      <3>1. turn' \in [Turns -> Calls] /\ \A t \in Turns : turn'[t].batch = turn[t].batch
        BY <2>q, <2>t, AbortType DEF Cancel, Signals
      <3> QED
        BY <2>q, <2>t, <3>1
           DEF Cancel, ForceEnd, IsActive, TypeInv, TypeOK, Finite
    <2>r. ASSUME PopAll PROVE TypeInv'
      <3>1. IsFiniteSet(queue')
        BY <2>r, <2>t, FS_Subset DEF PopAll
      <3> QED
        BY <2>r, <2>t, <3>1, SettleType
           DEF PopAll, flow, TypeInv, TypeOK, Finite
    <2>s. ASSUME Background PROVE TypeInv'
      <3>1. IsFiniteSet(queue')
        BY <2>s, <2>t, FS_Subset DEF Background
      <3>2. turn' \in [Turns -> Calls] /\ \A t \in Turns : turn'[t].batch = turn[t].batch
        BY <2>s, <2>t, AbortType DEF Background, Signals
      <3> QED
        BY <2>s, <2>t, <3>1, <3>2, SettleType
           DEF Background, TypeInv, TypeOK, Finite
    <2>u. ASSUME NowInterrupt PROVE TypeInv'
      <3>1. turn' \in [Turns -> Calls] /\ \A t \in Turns : turn'[t].batch = turn[t].batch
        BY <2>u, <2>t, AbortType DEF NowInterrupt, Signals
      <3> QED
        BY <2>u, <2>t, <3>1 DEF NowInterrupt, TypeInv, TypeOK, Finite
    <2>v. ASSUME CloseDialog PROVE TypeInv'
      BY <2>v, <2>t, ChainType DEF CloseDialog, flow, TypeInv, TypeOK, Finite
    <2>w. CASE UNCHANGED vars
      BY <2>w, <2>t DEF vars, TypeInv, TypeOK, Finite
    <2> QED
      BY <2>a, <2>b, <2>c, <2>d, <2>e, <2>f, <2>g, <2>h, <2>i, <2>j, <2>k,
         <2>l, <2>m, <2>n, <2>o, <2>p, <2>q, <2>r, <2>s, <2>u, <2>v, <2>w
         DEF Next, Arrive, Advance, User
  <1> QED  BY <1>1, <1>2, PTL DEF Spec

\* The types of ReplTurn hold in every state, for any number of commands,
\* slots and Escapes.
THEOREM TypeCorrect == Spec => []TypeOK
  <1>1. TypeInv => TypeOK
    BY DEF TypeInv
  <1> QED  BY <1>1, TypeInvariant, PTL

-----------------------------------------------------------------------------
(***************************************************************************)
(* What an action does to the guard and to the stage of the calls.  There  *)
(* are only seven effects; the invariants of the guard rest on them alone. *)
(***************************************************************************)
Same(t)   == turn'[t].pc = turn[t].pc /\ turn'[t].gen = turn[t].gen
Others(t) == \A u \in Turns \ {t} : Same(u)

Still     == guard' = guard /\ \A t \in Turns : Same(t)
CutOff    == guard' = ForceEnd(guard) /\ \A t \in Turns : Same(t)
Admit(t)  == /\ guard.status = "idle" /\ guard' = Reserve(guard)
             /\ turn[t].pc = "free" /\ turn'[t].pc = "input" /\ Others(t)
Await(t)  == /\ guard' = guard
             /\ turn[t].pc = "free" /\ turn'[t].pc = "initial" /\ Others(t)
Begin(t)  == /\ guard.status # "running" /\ guard' = Start(guard)
             /\ turn[t].pc # "query" /\ turn'[t].pc = "query"
             /\ turn'[t].gen = guard.generation + 1 /\ Others(t)
GiveUp(t) == /\ guard' = CancelReservation(guard)
             /\ turn[t].pc \in {"input", "initial"} /\ turn'[t].pc = "free"
             /\ Others(t)
End_(t)   == /\ \/ guard' = End(guard, turn[t].gen)
                \/ guard' = CancelReservation(End(guard, turn[t].gen))
             /\ turn[t].pc = "query" /\ turn'[t].pc = "free" /\ Others(t)

Effect ==
    \/ Still
    \/ CutOff /\ cancels' = cancels + 1
    \/ \E t \in Turns : \/ Admit(t) \/ Await(t) \/ Begin(t) \/ GiveUp(t)
                        \/ End_(t)

\* The end of a query frees the guard that it holds, leaves the guard of
\* another query alone, or takes the reservation of a later call.
LEMMA EndEffect ==
    ASSUME TypeOK, NEW t \in Turns, End_(t)
    PROVE  \/ Ends(guard, turn[t].gen) /\ guard' = End(guard, turn[t].gen)
           \/ ~Ends(guard, turn[t].gen) /\ guard' = guard
           \/ /\ guard.status = "dispatching"
              /\ guard' = [guard EXCEPT !.status = "idle"]
  BY DEF End_, CancelReservation, End, Ends, TypeOK, Guards

\* onQuery either begins the query or gives up.
LEMMA OnQueryEffect ==
    ASSUME TypeOK, NEW t \in Turns, NEW ask \in BOOLEAN,
           turn[t].pc \in {"input", "initial"},
           OnQuery(t, turn[t].batch, ask)
    PROVE  Begin(t) \/ GiveUp(t)
  <1>1. CASE Starts(t, turn[t].batch, ask)
    BY <1>1 DEF Starts, CanStart, Begin, Others, Same, TypeOK, Calls
  <1>2. CASE Refused(t, turn[t].batch)
    BY <1>2 DEF Refused, CanStart, GiveUp, CancelReservation, Others, Same,
                NoCall, Call, TypeOK
  <1> QED  BY <1>1, <1>2 DEF OnQuery

\* Every step has one of the effects.
LEMMA StepEffect ==
    ASSUME TypeOK, [Next]_vars
    PROVE  Effect
  <1> USE DEF TypeOK
  <1>a. \A reason : \A t \in Turns :
            /\ Abort(reason)[t].pc = turn[t].pc
            /\ Abort(reason)[t].gen = turn[t].gen
    BY DEF Abort, Calls
  <1>1. ASSUME NEW c \in Cmds, SubmitBusy(c) PROVE Effect
    BY <1>1, <1>a DEF SubmitBusy, Effect, Still, Same
  <1>2. ASSUME NEW c \in Cmds, Notify(c) \/ KillAgents(c) \/ OpenDialog(c)
        PROVE Effect
    BY <1>2 DEF Notify, KillAgents, OpenDialog, flow, Effect, Still, Same
  <1>3. ASSUME NEW c \in Cmds, NEW t \in Turns, SubmitNow(c, t) PROVE Effect
    <2>1. Admit(t)
      BY <1>3
         DEF SubmitNow, Execute, Free, IsActive, Admit, Others, Same, Call
    <2> QED  BY <2>1 DEF Effect
  <1>4. ASSUME NEW c \in Cmds, NEW t \in Turns, Incoming(c, t) PROVE Effect
    <2>1. Begin(t)
      BY <1>4 DEF Incoming, Free, IsActive, Begin, Others, Same, Call
    <2> QED  BY <2>1 DEF Effect
  <1>5. ASSUME NEW c \in Cmds, NEW t \in Turns, InitialArrive(c, t) PROVE Effect
    <2>1. Await(t)
      BY <1>5 DEF InitialArrive, Free, Await, Others, Same, Call
    <2> QED  BY <2>1 DEF Effect
  <1>6. ASSUME NEW t \in Turns, ProcessQueue(t) PROVE Effect
    <2>1. Admit(t)
      BY <1>6
         DEF ProcessQueue, Execute, Free, IsActive, Admit, Others, Same, Call
    <2> QED  BY <2>1 DEF Effect
  <1>7. ASSUME NEW t \in Turns, InputDone(t) \/ InitialLaunch(t) PROVE Effect
    <2>1. CASE InputDone(t)
      <3>1. PICK ask \in BOOLEAN : OnQuery(t, turn[t].batch, ask)
        BY <2>1 DEF InputDone
      <3> QED  BY <2>1, <3>1, OnQueryEffect DEF InputDone, Effect
    <2>2. CASE InitialLaunch(t)
      BY <2>2, OnQueryEffect DEF InitialLaunch, Effect
    <2> QED  BY <1>7, <2>1, <2>2
  <1>8. ASSUME NEW t \in Turns, InputLocal(t) \/ InputThrow(t) PROVE Effect
    <2>1. /\ guard' = CancelReservation(guard) /\ turn[t].pc = "input"
          /\ turn' = [turn EXCEPT ![t] = NoCall]
      BY <1>8 DEF InputLocal, InputThrow
    <2>2. GiveUp(t)
      BY <2>1 DEF GiveUp, Others, Same, NoCall, Call
    <2> QED  BY <2>2 DEF Effect
  <1>9. ASSUME NEW t \in Turns, Reply(t) \/ DrainStart(t) \/ DrainEnd(t)
        PROVE Effect
    <2>1. Still
      BY <1>9 DEF Reply, DrainStart, DrainEnd, flow, Still, Same, Calls
    <2> QED  BY <2>1 DEF Effect
  <1>10. ASSUME NEW t \in Turns, Finish(t) PROVE Effect
    <2>1. End_(t)
      BY <1>10 DEF Finish, Finally, End_, Others, Same, NoCall, Call
    <2> QED  BY <2>1 DEF Effect
  <1>11. ASSUME Cancel PROVE Effect
    BY <1>11, <1>a DEF Cancel, Effect, CutOff, Same
  <1>12. ASSUME PopAll \/ CloseDialog \/ UNCHANGED vars PROVE Effect
    BY <1>12 DEF PopAll, CloseDialog, vars, flow, Effect, Still, Same
  <1>13. ASSUME Background \/ NowInterrupt PROVE Effect
    BY <1>13, <1>a DEF Background, NowInterrupt, Effect, Still, Same
  <1> QED
    BY <1>1, <1>2, <1>3, <1>4, <1>5, <1>6, <1>7, <1>8, <1>9, <1>10, <1>11,
       <1>12, <1>13 DEF Next, Arrive, Advance, User

-----------------------------------------------------------------------------
\* Generations identify queries: no query in flight is newer than the guard,
\* and no two share a generation.  This is what makes GuardAccounted
\* inductive: end(generation) can only succeed for the one owner.
Generations ==
    /\ \A t \in Turns : turn[t].pc = "query" => turn[t].gen <= guard.generation
    /\ \A t, u \in Turns :
        turn[t].pc = "query" /\ turn[u].pc = "query" /\ turn[t].gen = turn[u].gen
            => t = u

Accounted == TypeOK /\ Generations /\ GuardAccounted

\* No call is in flight initially.
LEMMA AccountedInit == Init => Accounted
  <1> SUFFICES ASSUME Init PROVE Generations /\ GuardAccounted
    BY TypeInitially DEF Accounted
  <1> QED
    BY DEF Init, NewGuard, NoCall, Call, Generations, GuardAccounted

\* Each effect of a step preserves the account of the guard.
LEMMA AccountedStep == Accounted /\ TypeOK' /\ [Next]_vars => Accounted'
  <1> SUFFICES ASSUME Accounted, TypeOK', Effect
               PROVE  Generations' /\ GuardAccounted'
    BY StepEffect DEF Accounted
  <1> USE DEF Accounted, Generations, GuardAccounted, Owns
  <1>t. /\ guard \in Guards
        /\ \A t \in Turns : turn[t].gen \in Nat /\ turn'[t].gen \in Nat
    BY DEF TypeOK, Calls
  <1>1. CASE Still
    BY <1>1, <1>t DEF Still, Same
  <1>2. CASE CutOff
    BY <1>2, <1>t DEF CutOff, Same, ForceEnd, IsActive
  <1>3. ASSUME NEW t \in Turns, Admit(t) PROVE Generations' /\ GuardAccounted'
    BY <1>3, <1>t DEF Admit, Others, Same, Reserve
  <1>4. ASSUME NEW t \in Turns, Await(t) PROVE Generations' /\ GuardAccounted'
    BY <1>4, <1>t DEF Await, Others, Same
  <1>5. ASSUME NEW t \in Turns, Begin(t) PROVE Generations' /\ GuardAccounted'
    BY <1>5, <1>t DEF Begin, Others, Same, Start
  <1>6. ASSUME NEW t \in Turns, GiveUp(t) PROVE Generations' /\ GuardAccounted'
    BY <1>6, <1>t DEF GiveUp, Others, Same, CancelReservation
  <1>7. ASSUME NEW t \in Turns, End_(t) PROVE Generations' /\ GuardAccounted'
    BY <1>7, <1>t, EndEffect DEF End_, Others, Same, End, Ends
  <1> QED
    BY <1>1, <1>2, <1>3, <1>4, <1>5, <1>6, <1>7 DEF Effect

\* The inductive invariant holds in every state.
LEMMA AccountedInvariant == Spec => []Accounted
  <1>1. Init => Accounted
    BY AccountedInit
  <1>2. Accounted /\ TypeOK' /\ [Next]_vars => Accounted'
    BY AccountedStep
  <1> QED  BY <1>1, <1>2, TypeCorrect, PTL DEF Spec

\* The guard is never stuck: a running guard has exactly one query in flight
\* that will release it, a reserved guard some executeUserInput that will.
THEOREM GuardNeverStuck == Spec => []GuardAccounted
  <1>1. Accounted => GuardAccounted
    BY DEF Accounted
  <1> QED  BY <1>1, AccountedInvariant, PTL

\* No other call takes the guard from a running query: only its own end and
\* Escape do.
THEOREM OwnerKeepsTheGuard == Spec => OwnerIsNotDisturbed
  <1> DEFINE Kept(t) ==
        guard.status = "running" /\ Owns(t) /\ cancels' = cancels
            => \/ guard' = guard /\ turn'[t].pc = "query"
               \/ guard' = End(guard, turn[t].gen) /\ turn'[t].pc = "free"
  <1>1. Accounted /\ TypeOK' /\ [Next]_vars => [\A t \in Turns : Kept(t)]_vars
    <2> SUFFICES ASSUME Accounted, Effect, NEW t \in Turns,
                        guard.status = "running", Owns(t), cancels' = cancels
                 PROVE  \/ guard' = guard /\ turn'[t].pc = "query"
                        \/ guard' = End(guard, turn[t].gen) /\ turn'[t].pc = "free"
      BY StepEffect DEF Accounted
    <2>1. CASE Still
      BY <2>1 DEF Still, Same, Owns
    <2>2. CASE CutOff /\ cancels' = cancels + 1
      BY <2>2 DEF Accounted, TypeOK
    <2>3. ASSUME NEW u \in Turns, Admit(u) \/ Await(u) \/ Begin(u) \/ GiveUp(u)
          PROVE  guard' = guard /\ turn'[t].pc = "query"
      BY <2>3 DEF Admit, Await, Begin, GiveUp, Others, Same, Owns,
                  CancelReservation
    <2>4. ASSUME NEW u \in Turns, End_(u)
          PROVE  \/ guard' = guard /\ turn'[t].pc = "query"
                 \/ guard' = End(guard, turn[t].gen) /\ turn'[t].pc = "free"
      BY <2>4, EndEffect
         DEF Accounted, Generations, End_, Others, Same, Owns, End, Ends
    <2> QED  BY <2>1, <2>2, <2>3, <2>4 DEF Effect
  <1> QED
    BY <1>1, AccountedInvariant, TypeCorrect, PTL
       DEF Spec, OwnerIsNotDisturbed

-----------------------------------------------------------------------------
\* The owner is the one call that holds the generation of a running guard.
LEMMA OwnerIs ==
    ASSUME Accounted
    PROVE  /\ guard.status # "running" => Owner = None
           /\ guard.status = "running" => Owner \in Turns /\ Owns(Owner)
           /\ \A t \in Turns : guard.status = "running" /\ Owns(t) => Owner = t
  <1>1. CASE guard.status # "running"
    BY <1>1 DEF Owner
  <1>2. CASE guard.status = "running"
    <2>1. PICK t \in Turns : Owns(t) /\ \A u \in Turns : Owns(u) => u = t
      BY <1>2 DEF Accounted, GuardAccounted
    <2>2. Owner = t
      BY <1>2, <2>1 DEF Owner
    <2> QED  BY <1>2, <2>1, <2>2
  <1> QED  BY <1>1, <1>2

\* ... and so in the state after a step.
LEMMA OwnerIsNext ==
    ASSUME Accounted'
    PROVE  /\ guard'.status # "running" => Owner' = None
           /\ guard'.status = "running" => Owner' \in Turns
           /\ \A t \in Turns : guard'.status = "running" /\ Owns(t)' => Owner' = t
  <1>1. CASE guard'.status # "running"
    BY <1>1 DEF Owner
  <1>2. CASE guard'.status = "running"
    <2>1. PICK t \in Turns : Owns(t)' /\ \A u \in Turns : Owns(u)' => u = t
      BY <1>2 DEF Accounted, GuardAccounted
    <2>2. Owner' = t
      BY <1>2, <2>1 DEF Owner
    <2> QED  BY <1>2, <2>1, <2>2
  <1> QED  BY <1>1, <1>2

\* The REPL implements the safety part of OneQuery: one query at a time, each
\* under an era of its own.
THEOREM RefinesOneQuery == Spec => Abstract!Safety
  <1>1. Init => Abstract!Init
    BY DEF Init, NewGuard, Abstract!Init, Owner
  <1>2. Accounted /\ Accounted' /\ [Next]_vars => [Abstract!Next]_(Abstract!vars)
    <2> SUFFICES ASSUME Accounted, Accounted', Effect
                 PROVE  [Abstract!Next]_(Abstract!vars)
      BY StepEffect DEF Accounted
    <2> USE
       DEF Abstract!Next, Abstract!Begin, Abstract!Complete, Abstract!Cut,
                Abstract!vars
    <2>n. None \notin Turns /\ guard \in Guards
      BY NoneAssumption DEF Accounted, TypeOK
    <2>1. CASE Still
      <3>1. \A t \in Turns : Owns(t)' <=> Owns(t)
        BY <2>1 DEF Still, Same, Owns
      <3>2. Owner' = Owner
        BY <2>1, <3>1, OwnerIs, OwnerIsNext DEF Still
      <3> QED  BY <2>1, <3>2 DEF Still
    <2>2. CASE CutOff
      <3>1. CASE guard.status = "idle"
        BY <2>2, <3>1, OwnerIs, OwnerIsNext DEF CutOff, ForceEnd, IsActive
      <3>2. CASE guard.status # "idle"
        BY <2>2, <3>2, OwnerIsNext DEF CutOff, ForceEnd, IsActive
      <3> QED  BY <3>1, <3>2
    <2>3. ASSUME NEW t \in Turns, Admit(t) PROVE [Abstract!Next]_(Abstract!vars)
      BY <2>3, <2>n, OwnerIs, OwnerIsNext DEF Admit, Reserve
    <2>4. ASSUME NEW t \in Turns, Await(t) PROVE [Abstract!Next]_(Abstract!vars)
      <3>1. \A u \in Turns : Owns(u)' <=> Owns(u)
        BY <2>4 DEF Await, Others, Same, Owns
      <3>2. Owner' = Owner
        BY <2>4, <3>1, OwnerIs, OwnerIsNext DEF Await
      <3> QED  BY <2>4, <3>2 DEF Await
    <2>5. ASSUME NEW t \in Turns, Begin(t) PROVE [Abstract!Next]_(Abstract!vars)
      BY <2>5, <2>n, OwnerIs, OwnerIsNext DEF Begin, Start
    <2>6. ASSUME NEW t \in Turns, GiveUp(t) PROVE [Abstract!Next]_(Abstract!vars)
      <3>1. CASE guard.status = "running"
        <4>1. \A u \in Turns : Owns(u)' <=> Owns(u)
          BY <2>6, <3>1 DEF GiveUp, CancelReservation, Others, Same, Owns
        <4>2. Owner' = Owner /\ guard' = guard
          BY <2>6, <3>1, <4>1, OwnerIs, OwnerIsNext
             DEF GiveUp, CancelReservation
        <4> QED  BY <4>2
      <3>2. CASE guard.status # "running"
        BY <2>6, <2>n, <3>2, OwnerIs, OwnerIsNext
           DEF GiveUp, CancelReservation
      <3> QED  BY <3>1, <3>2
    <2>7. ASSUME NEW t \in Turns, End_(t) PROVE [Abstract!Next]_(Abstract!vars)
      <3>0. TypeOK
        BY DEF Accounted
      <3>1. CASE guard.status = "running" /\ Owns(t)
        <4>1. guard' = [guard EXCEPT !.status = "idle"]
          BY <2>7, <3>0, <3>1, EndEffect DEF End_, End, Ends, Owns
        <4> QED  BY <2>n, <3>1, <4>1, OwnerIs, OwnerIsNext DEF Guards
      <3>2. CASE guard.status = "dispatching" /\ guard' # guard
        <4>1. guard' = [guard EXCEPT !.status = "idle"]
          BY <2>7, <3>0, <3>2, EndEffect DEF End_, End, Ends
        <4> QED  BY <2>n, <3>2, <4>1, OwnerIs, OwnerIsNext DEF Guards
      <3>3. CASE /\ ~(guard.status = "running" /\ Owns(t))
                 /\ ~(guard.status = "dispatching" /\ guard' # guard)
        <4>1. guard' = guard
          BY <2>7, <3>0, <3>3, EndEffect DEF End_, End, Ends, Owns
        <4>2. guard.status = "running" =>
                \A u \in Turns : Owns(u)' <=> Owns(u)
          BY <2>7, <3>3, <4>1 DEF End_, Others, Same, Owns
        <4>3. Owner' = Owner
          BY <4>1, <4>2, OwnerIs, OwnerIsNext
        <4> QED  BY <4>1, <4>3
      <3> QED  BY <3>1, <3>2, <3>3
    <2> QED  BY <2>1, <2>2, <2>3, <2>4, <2>5, <2>6, <2>7 DEF Effect
  <1> QED
    BY <1>1, <1>2, AccountedInvariant, PTL DEF Spec, Abstract!Safety

-----------------------------------------------------------------------------
(***************************************************************************)
(* Where the commands are.                                                 *)
(***************************************************************************)

\* The entries of a call that has not reached onQuery.
HeldOf(r) == IF r.pc \in {"input", "initial"} THEN r.batch ELSE {}
Held(t) == HeldOf(turn[t])

\* The command waits, or it is known what became of it.
Kept(c) == \/ c \in CmdsOf(queue)
           \/ \E t \in Turns : c \in CmdsOf(Held(t))
           \/ fate[c] # {}

LEMMA KeptIs == NothingVanishes <=> \A c \in Cmds \ fresh : Kept(c)
BY DEF NothingVanishes, Kept, Held, HeldOf, CmdsOf

\* abort() leaves every command where it is.
LEMMA AbortHeld ==
    ASSUME TypeOK, NEW reason
    PROVE  \A t \in Turns : /\ Abort(reason)[t].pc = turn[t].pc
                            /\ Abort(reason)[t].batch = turn[t].batch
                            /\ Abort(reason)[t].snap = turn[t].snap
                            /\ HeldOf(Abort(reason)[t]) = Held(t)
BY DEF TypeOK, Abort, Calls, Held, HeldOf

LEMMA SettleIs ==
    ASSUME TypeOK, NEW cs, NEW f
    PROVE  /\ \A c \in Cmds : fate[c] \subseteq Settle(cs, f)[c]
           /\ \A c \in Cmds \cap cs : Settle(cs, f)[c] = fate[c] \cup {f}
           /\ \A c \in Cmds \ cs : Settle(cs, f)[c] = fate[c]
BY DEF TypeOK, Settle

\* A call that ends or begins changes what its own slot holds.
LEMMA HeldAfter ==
    ASSUME TypeOK, NEW t \in Turns, NEW r, turn' = [turn EXCEPT ![t] = r]
    PROVE  Held(t)' = HeldOf(r) /\ \A u \in Turns \ {t} : Held(u)' = Held(u)
BY DEF TypeOK, Held, HeldOf

LEMMA CmdsOfUnion ==
    ASSUME NEW S, NEW T
    PROVE  /\ CmdsOf(S \cup T) = CmdsOf(S) \cup CmdsOf(T)
           /\ CmdsOf(S) \subseteq CmdsOf(S \ T) \cup CmdsOf(T)
           /\ \A e : CmdsOf({e}) = {e.cmd}
           /\ CmdsOf({}) = {}
BY DEF CmdsOf

\* Where to look for a command after a step.
LEMMA KeptWhere ==
    /\ \A e \in queue' : Kept(e.cmd)'
    /\ \A t \in Turns : \A e \in Held(t)' : Kept(e.cmd)'
    /\ \A c : fate'[c] # {} => Kept(c)'
BY DEF Kept, CmdsOf, Held, HeldOf

\* No step loses a command that settles what it takes away, or moves it.
LEMMA KeepsAll ==
    ASSUME TypeOK, NothingVanishes,
           \A c \in Cmds : fate[c] # {} => fate'[c] # {},
           \A c \in fresh \ fresh' : Kept(c)',
           \A e \in queue \ queue' : Kept(e.cmd)',
           \A t \in Turns : \A e \in Held(t) \ Held(t)' : Kept(e.cmd)'
    PROVE  NothingVanishes'
<1>1. ASSUME NEW c \in Cmds, c \notin fresh PROVE Kept(c)'
  <2>1. CASE c \in CmdsOf(queue)
    <3>1. PICK e \in queue : e.cmd = c
      BY <2>1 DEF CmdsOf
    <3> QED BY <3>1, KeptWhere
  <2>2. ASSUME NEW t \in Turns, c \in CmdsOf(Held(t)) PROVE Kept(c)'
    <3>1. PICK e \in Held(t) : e.cmd = c
      BY <2>2 DEF CmdsOf
    <3> QED BY <3>1, KeptWhere
  <2>3. CASE fate[c] # {}
    BY <2>3, KeptWhere
  <2> QED BY <1>1, <2>1, <2>2, <2>3, KeptIs DEF Kept
<1>2. \A c \in Cmds \ fresh' : Kept(c)'
  BY <1>1
<1> QED BY <1>2 DEF NothingVanishes, Kept, Held, HeldOf, CmdsOf

\* What a step settles is known afterwards.
LEMMA SettledIsKept ==
    ASSUME TypeOK, NEW S \in SUBSET Entries, NEW f,
           fate' = Settle(CmdsOf(S), f)
    PROVE  /\ \A c \in Cmds : fate[c] # {} => fate'[c] # {}
           /\ \A e \in S : Kept(e.cmd)'
<1>1. \A e \in S : e.cmd \in Cmds \cap CmdsOf(S)
  BY DEF Entries, CmdsOf
<1>2. \A e \in S : fate'[e.cmd] = fate[e.cmd] \cup {f}
  BY <1>1, SettleIs
<1> QED BY <1>2, SettleIs, KeptWhere

LEMMA ChainKeeps ==
    ASSUME NEW slash, Chain(slash)
    PROVE  queue \subseteq queue' /\ \A c \in fresh \ fresh' : Kept(c)'
<1>1. CASE UNCHANGED <<queue, tick, fresh>>
  BY <1>1
<1>2. ASSUME NEW c \in Cmds, Take(c, "chain"), Push(c)
      PROVE  queue \subseteq queue' /\ \A d \in fresh \ fresh' : Kept(d)'
  <2>1. EntryOf(c) \in queue' /\ EntryOf(c).cmd = c
    BY <1>2 DEF Push, EntryOf
  <2> QED BY <1>2, <2>1, KeptWhere DEF Take, Push
<1> QED BY <1>1, <1>2 DEF Chain

LEMMA KeptStep ==
    ASSUME TypeOK, NothingVanishes, [Next]_vars
    PROVE  NothingVanishes'
<1>t. /\ turn \in [Turns -> Calls] /\ fresh \subseteq Cmds
      /\ queue \subseteq Entries /\ fate \in [Cmds -> SUBSET Fates]
      /\ \A t \in Turns : turn[t].batch \in SUBSET Entries
                          /\ turn[t].snap \in SUBSET Entries
      /\ \A t \in Turns : Held(t) \in SUBSET Entries
  BY DEF TypeOK, Calls, Held, HeldOf
<1>e. \A c : EntryOf(c).cmd = c
  BY DEF EntryOf
\* Pushing, with the calls aborted or not.
<1>1. ASSUME NEW c \in Cmds, SubmitBusy(c) \/ Notify(c) PROVE NothingVanishes'
  <2>1. /\ queue' = queue \cup {EntryOf(c)} /\ fresh' = fresh \ {c} /\ fate' = fate
        /\ \A t \in Turns : Held(t)' = Held(t)
    BY <1>1, AbortHeld DEF SubmitBusy, Notify, Take, Push, flow, Held
  <2>2. Kept(c)'
    <3>1. EntryOf(c) \in queue'
      BY <2>1
    <3> QED BY <3>1, <1>e, KeptWhere
  <2> QED BY <2>1, <2>2, KeepsAll
<1>2. ASSUME NEW c \in Cmds, KillAgents(c) PROVE NothingVanishes'
  <2>1. /\ queue' = {EntryOf(c)} /\ fresh' = fresh \ {c}
        /\ fate' = Settle(CmdsOf(queue), "cleared")
        /\ \A t \in Turns : Held(t)' = Held(t)
    BY <1>2 DEF KillAgents, Take, flow, Held
  <2>2. Kept(c)'
    <3>1. EntryOf(c) \in queue'
      BY <2>1
    <3> QED BY <3>1, <1>e, KeptWhere
  <2> QED BY <1>t, <2>1, <2>2, KeepsAll, SettledIsKept
<1>3. ASSUME NEW c \in Cmds, OpenDialog(c) PROVE NothingVanishes'
  <2>1. /\ queue' = queue /\ fresh' = fresh \ {c}
        /\ fate' = Settle({c}, "handled")
        /\ \A t \in Turns : Held(t)' = Held(t)
    BY <1>3 DEF OpenDialog, Take, flow, Held
  <2>2. Kept(c)' /\ \A d \in Cmds : fate[d] # {} => fate'[d] # {}
    BY <2>1, SettleIs, KeptWhere
  <2> QED BY <2>1, <2>2, KeepsAll
\* A call begins with a new command ...
<1>4. ASSUME NEW c \in Cmds, NEW t \in Turns, SubmitNow(c, t) \/ InitialArrive(c, t)
      PROVE  NothingVanishes'
  <2>1. /\ queue' = queue /\ fresh' = fresh \ {c} /\ fate' = fate
        /\ Free(t)
        /\ \E pc \in {"input", "initial"} :
             turn' = [turn EXCEPT ![t] = Call(pc, {EntryOf(c)}, 0, FALSE)]
    BY <1>4 DEF SubmitNow, InitialArrive, Execute, Take
  <2>2. PICK pc \in {"input", "initial"} :
             turn' = [turn EXCEPT ![t] = Call(pc, {EntryOf(c)}, 0, FALSE)]
    BY <2>1
  <2>3. HeldOf(Call(pc, {EntryOf(c)}, 0, FALSE)) = {EntryOf(c)}
    BY DEF HeldOf, Call
  <2>4. Held(t) = {} /\ Held(t)' = {EntryOf(c)}
        /\ \A u \in Turns \ {t} : Held(u)' = Held(u)
    BY <2>1, <2>2, <2>3, HeldAfter DEF Free, Held, HeldOf
  <2>5. Kept(c)'
    <3>1. EntryOf(c) \in Held(t)'
      BY <2>4
    <3> QED BY <3>1, <1>e, KeptWhere
  <2> QED BY <2>1, <2>4, <2>5, KeepsAll
\* ... or goes straight to the model ...
<1>5. ASSUME NEW c \in Cmds, NEW t \in Turns, Incoming(c, t)
      PROVE  NothingVanishes'
  <2>1. /\ queue' = queue /\ fresh' = fresh \ {c} /\ Free(t)
        /\ fate' = Settle({c}, "appended")
        /\ turn' = [turn EXCEPT ![t] =
              Call("query", {EntryOf(c)}, guard.generation + 1, TRUE)]
    BY <1>5 DEF Incoming
  <2>2. Held(t) = {}
    BY <2>1 DEF Free, Held, HeldOf
  <2>3. Held(t) = {} /\ \A u \in Turns \ {t} : Held(u)' = Held(u)
    <3> DEFINE r == Call("query", {EntryOf(c)}, guard.generation + 1, TRUE)
    <3>1. turn' = [turn EXCEPT ![t] = r]
      BY <2>1
    <3> HIDE DEF r
    <3> QED BY <2>2, <3>1, HeldAfter
  <2>4. fate'[c] # {} /\ \A d \in Cmds : fate[d] # {} => fate'[d] # {}
    BY <2>1, SettleIs
  <2>5. Kept(c)'
    BY <2>4, KeptWhere
  <2> QED BY <2>1, <2>3, <2>4, <2>5, KeepsAll
\* ... or takes a batch from the queue.
<1>6. ASSUME NEW t \in Turns, ProcessQueue(t) PROVE NothingVanishes'
  <2>1. PICK e \in MainThread(queue) :
           /\ Execute(t, Batch(e, MainThread(queue)))
           /\ queue' = queue \ Batch(e, MainThread(queue))
    BY <1>6 DEF ProcessQueue
  <2> DEFINE B == Batch(e, MainThread(queue))
  <2>2. /\ queue' = queue \ B /\ fresh' = fresh /\ fate' = fate /\ Free(t)
        /\ turn' = [turn EXCEPT ![t] = Call("input", B, 0, FALSE)]
    BY <1>6, <2>1 DEF ProcessQueue, Execute
  <2> HIDE DEF B
  <2>3. HeldOf(Call("input", B, 0, FALSE)) = B
    BY DEF HeldOf, Call
  <2>4. Held(t) = {} /\ Held(t)' = B /\ \A u \in Turns \ {t} : Held(u)' = Held(u)
    <3> DEFINE r == Call("input", B, 0, FALSE)
    <3>1. turn' = [turn EXCEPT ![t] = r] /\ HeldOf(r) = B
      BY <2>2, <2>3
    <3> HIDE DEF r
    <3>2. Held(t) = {}
      BY <2>2 DEF Free, Held, HeldOf
    <3> QED BY <3>1, <3>2, HeldAfter
  <2>5. \A f \in B : Kept(f.cmd)'
    BY <2>4, KeptWhere
  <2> QED BY <2>2, <2>4, <2>5, KeepsAll
\* onQuery starts: the batch is appended; or it is refused.
<1>7. ASSUME NEW t \in Turns, NEW ask, OnQuery(t, turn[t].batch, ask)
      PROVE  NothingVanishes'
  <2> DEFINE B == turn[t].batch
  <2>0. B \in SUBSET Entries
    BY <1>t
  <2>1. CASE Starts(t, B, ask)
    <3>1. /\ queue' = queue /\ fresh' = fresh
          /\ fate' = Settle(CmdsOf(B), "appended")
          /\ \A u \in Turns \ {t} : Held(u)' = Held(u)
      BY <2>1, <1>t DEF Starts, Held
    <3>2. Held(t) \subseteq B
      BY DEF Held, HeldOf
    <3> HIDE DEF B
    <3>3. /\ \A c \in Cmds : fate[c] # {} => fate'[c] # {}
          /\ \A e \in B : Kept(e.cmd)'
      BY <2>0, <3>1, SettledIsKept
    <3> QED BY <3>1, <3>2, <3>3, KeepsAll
  <2>2. CASE Refused(t, B)
    <3>1. /\ queue' = queue \cup {Again(e, B) : e \in Said(B)} /\ fresh' = fresh
          /\ fate' = Settle(CmdsOf(B \ Said(B)), "dropped")
          /\ \A u \in Turns \ {t} : Held(u)' = Held(u)
      BY <2>2, <1>t DEF Refused, PushBack, Held
    <3>2. Held(t) \subseteq B
      BY DEF Held, HeldOf
    <3> HIDE DEF B
    <3>3. /\ \A c \in Cmds : fate[c] # {} => fate'[c] # {}
          /\ \A e \in B \ Said(B) : Kept(e.cmd)'
      <4> DEFINE M == B \ Said(B)
      <4>1. M \in SUBSET Entries /\ fate' = Settle(CmdsOf(M), "dropped")
        BY <2>0, <3>1
      <4> HIDE DEF M
      <4>2. /\ \A c \in Cmds : fate[c] # {} => fate'[c] # {}
            /\ \A e \in M : Kept(e.cmd)'
        BY <4>1, SettledIsKept
      <4> QED BY <4>2 DEF M
    <3>4. \A e \in Said(B) : Again(e, B) \in queue' /\ Again(e, B).cmd = e.cmd
      BY <3>1 DEF Again
    <3>5. \A e \in B : Kept(e.cmd)'
      BY <3>3, <3>4, KeptWhere
    <3> QED BY <3>1, <3>2, <3>3, <3>5, KeepsAll
  <2> QED BY <1>7, <2>1, <2>2 DEF OnQuery
\* A call that ends before onQuery settles its batch.
<1>8. ASSUME NEW t \in Turns, InputLocal(t) \/ InputThrow(t)
      PROVE  NothingVanishes'
  <2> DEFINE B == turn[t].batch
  <2>1. \E f : fate' = Settle(CmdsOf(B), f)
    BY <1>8 DEF InputLocal, InputThrow
  <2>2. turn' = [turn EXCEPT ![t] = NoCall]
    BY <1>8 DEF InputLocal, InputThrow
  <2>3. (\A u \in Turns \ {t} : Held(u)' = Held(u)) /\ Held(t) \subseteq B
    BY <2>2, <1>t DEF Held, HeldOf
  <2>4. B \in SUBSET Entries
    BY <1>t
  <2> HIDE DEF B
  <2>5. /\ \A c \in Cmds : fate[c] # {} => fate'[c] # {}
        /\ \A e \in B : Kept(e.cmd)'
    BY <2>1, <2>4, SettledIsKept
  <2>6. queue \subseteq queue' /\ \A c \in fresh \ fresh' : Kept(c)'
    <3>1. CASE InputLocal(t)
      BY <3>1, ChainKeeps DEF InputLocal
    <3>2. CASE InputThrow(t)
      BY <3>2 DEF InputThrow
    <3> QED BY <1>8, <3>1, <3>2
  <2> QED BY <2>3, <2>5, <2>6, KeepsAll
\* Steps that move no command.
<1>9. ASSUME NEW t \in Turns, Reply(t) \/ DrainStart(t) PROVE NothingVanishes'
  <2>1. queue' = queue /\ fresh' = fresh /\ fate' = fate
    BY <1>9 DEF Reply, DrainStart
  <2>2. \A u \in Turns : Held(u)' = Held(u)
    <3>1. CASE Reply(t)
      BY <3>1 DEF Reply, Held, flow
    <3>2. CASE DrainStart(t)
      BY <3>2, <1>t DEF DrainStart, Held, HeldOf
    <3> QED BY <1>9, <3>1, <3>2
  <2> QED BY <2>1, <2>2, KeepsAll
<1>10. ASSUME Cancel \/ NowInterrupt PROVE NothingVanishes'
  <2>1. queue' = queue /\ fresh' = fresh /\ fate' = fate
    BY <1>10 DEF Cancel, NowInterrupt
  <2>2. \A u \in Turns : Held(u)' = Held(u)
    BY <1>10, AbortHeld DEF Cancel, NowInterrupt, Held
  <2> QED BY <2>1, <2>2, KeepsAll
\* Steps that take settled commands out of the queue.
<1>11. ASSUME NEW S \in SUBSET Entries, NEW f,
              queue' = queue \ S, fate' = Settle(CmdsOf(S), f), fresh' = fresh,
              \A u \in Turns : Held(u)' = Held(u)
       PROVE  NothingVanishes'
  <2>1. /\ \A c \in Cmds : fate[c] # {} => fate'[c] # {}
        /\ \A e \in S : Kept(e.cmd)'
    BY <1>11, SettledIsKept
  <2> QED BY <1>11, <2>1, KeepsAll
<1>12. ASSUME NEW t \in Turns, DrainEnd(t) PROVE NothingVanishes'
  <2> DEFINE S == turn[t].snap
  <2>1. \A u \in Turns : Held(u)' = Held(u)
    BY <1>12, <1>t DEF DrainEnd, Held, HeldOf
  <2>2. /\ queue' = queue \ S /\ fate' = Settle(CmdsOf(S), "attached")
        /\ fresh' = fresh /\ S \in SUBSET Entries
    BY <1>12, <1>t DEF DrainEnd
  <2> HIDE DEF S
  <2> QED BY <2>1, <2>2, <1>11
<1>13. ASSUME PopAll \/ Background PROVE NothingVanishes'
  <2>1. \A u \in Turns : Held(u)' = Held(u)
    BY <1>13, AbortHeld DEF PopAll, Background, Held, flow
  <2>2. Editable(queue) \in SUBSET Entries /\ Notifications(queue) \in SUBSET Entries
    BY <1>t DEF Editable, Notifications
  <2>3. CASE PopAll
    BY <2>3, <2>1, <2>2, <1>11 DEF PopAll
  <2>4. CASE Background
    BY <2>4, <2>1, <2>2, <1>11 DEF Background
  <2> QED BY <1>13, <2>3, <2>4
<1>14. ASSUME NEW t \in Turns, Finish(t) PROVE NothingVanishes'
  <2>1. queue \subseteq queue' /\ \A c \in fresh \ fresh' : Kept(c)'
    BY <1>14, ChainKeeps DEF Finish
  <2>2. \A u \in Turns : Held(u)' = Held(u)
    BY <1>14, <1>t DEF Finish, Held, HeldOf, NoCall, Call
  <2>3. \A c \in Cmds : fate[c] # {} => fate'[c] # {}
    BY <1>14, <1>t DEF Finish
  <2> QED BY <2>1, <2>2, <2>3, KeepsAll
<1>15. ASSUME CloseDialog PROVE NothingVanishes'
  <2>1. queue \subseteq queue' /\ \A c \in fresh \ fresh' : Kept(c)'
    BY <1>15, ChainKeeps DEF CloseDialog
  <2>2. fate' = fate /\ \A u \in Turns : Held(u)' = Held(u)
    BY <1>15 DEF CloseDialog, Held, flow
  <2> QED BY <2>1, <2>2, KeepsAll
<1>16. ASSUME NEW t \in Turns, Advance(t) PROVE NothingVanishes'
  <2>1. CASE InputDone(t)
    BY <2>1, <1>7 DEF InputDone
  <2>2. CASE InitialLaunch(t)
    BY <2>2, <1>7 DEF InitialLaunch
  <2> QED BY <1>16, <2>1, <2>2, <1>6, <1>8, <1>9, <1>12, <1>14 DEF Advance
<1>17. CASE Arrive
  BY <1>17, <1>1, <1>2, <1>3, <1>4, <1>5 DEF Arrive
<1>18. CASE User
  BY <1>18, <1>10, <1>13, <1>15 DEF User
<1>19. CASE UNCHANGED vars
  BY <1>19 DEF vars, NothingVanishes, CmdsOf
<1> QED BY <1>16, <1>17, <1>18, <1>19 DEF Next

\* No accepted command is lost, whatever the user cancels and whichever
\* onQuery is refused: it waits, is held by a call, or its fate is known.
THEOREM AcceptedIsKept == Spec => []NothingVanishes
<1>1. Init => NothingVanishes
  BY DEF Init, NothingVanishes
<1>2. TypeOK /\ NothingVanishes /\ [Next]_vars => NothingVanishes'
  BY KeptStep
<1> QED
  BY <1>1, <1>2, TypeCorrect, PTL DEF Spec

-----------------------------------------------------------------------------
(***************************************************************************)
(* What reaches the model, as long as nobody has pressed Escape.           *)
(***************************************************************************)

\* Without Escape the only query in flight is the owner of the guard: a late
\* start finds the guard running, and is refused.
Alone == cancels = 0 =>
    \A t \in Turns : turn[t].pc = "query" => guard.status = "running" /\ Owns(t)

\* Only a query has a snapshot of the queue.
Snaps == \A t \in Turns : turn[t].snap # {} => turn[t].pc = "query"

Snap(t)      == turn[t].snap
Told(c)      == fate[c] \cap {"appended", "attached"}
Unique(S)    == \A e, f \in S : e.cmd = f.cmd => e = f
Differ(S, T) == \A e \in S, f \in T : e.cmd # f.cmd
Untold(S)    == \A e \in S : e.cmd \notin fresh /\ Told(e.cmd) = {}

\* A command is in one place: not yet accepted, or one entry of the queue, or
\* one entry of one call.  It is told to the model only when it leaves that
\* place.  A snapshot overlaps the queue, but only in the same entries.
QueueApart == Unique(queue) /\ Untold(queue)
HeldApart ==
    /\ \A t \in Turns : /\ Unique(Held(t)) /\ Untold(Held(t))
                        /\ Differ(Held(t), queue)
    /\ \A t, u \in Turns : t # u => Differ(Held(t), Held(u))
SnapApart ==
    \A t \in Turns :
        /\ \A e \in Snap(t) : e.cmd \notin fresh /\ "appended" \notin fate[e.cmd]
        /\ \A e \in Snap(t), f \in queue : e.cmd = f.cmd => e = f
        /\ \A u \in Turns : Differ(Snap(t), Held(u))
ToldOnce ==
    /\ \A c \in fresh : Told(c) = {}
    /\ \A c \in Cmds : ~({"appended", "attached"} \subseteq fate[c])

Apart == QueueApart /\ HeldApart /\ SnapApart /\ ToldOnce

OnceInv == Alone /\ Snaps /\ (cancels = 0 => Apart)

\* A new command enters the queue, or nothing does; the rest only shrinks.
LEMMA ApartEnters ==
    ASSUME Apart, TypeOK, fresh' \subseteq fresh,
           NEW N,
           \A e \in N : e.cmd \in fresh \ fresh',
           Unique(N),
           queue' \subseteq queue \cup N,
           \A t \in Turns : Held(t)' \subseteq Held(t),
           \A t \in Turns : Snap(t)' \subseteq Snap(t),
           \A c \in Cmds : Told(c)' \subseteq Told(c)
    PROVE  Apart'
<1>t. /\ fresh \subseteq Cmds /\ \A e \in queue : e.cmd \in Cmds
      /\ \A t \in Turns : \A e \in Held(t) \cup Snap(t) : e.cmd \in Cmds
  BY DEF TypeOK, Calls, Entries, Held, HeldOf, Snap
<1>1. QueueApart'
  <2>1. \A e \in queue : Told(e.cmd)' = {} /\ e.cmd \notin fresh
    BY <1>t DEF Apart, QueueApart, Untold
  <2>2. \A e \in N : Told(e.cmd)' = {} /\ e.cmd \notin fresh'
    BY <1>t DEF Apart, ToldOnce
  <2> QED BY <2>1, <2>2 DEF Apart, QueueApart, Unique, Untold
<1>2. HeldApart'
  <2>1. \A t \in Turns : \A e \in Held(t) : Told(e.cmd)' = {} /\ e.cmd \notin fresh
    BY <1>t DEF Apart, HeldApart, Untold
  <2> QED BY <2>1 DEF Apart, HeldApart, Unique, Untold, Differ
<1>3. SnapApart'
  <2>1. \A t \in Turns : \A e \in Snap(t) : "appended" \notin fate'[e.cmd]
    BY <1>t DEF Apart, SnapApart, Told
  <2>2. \A t \in Turns : \A e \in Snap(t) : e.cmd \notin fresh
    BY DEF Apart, SnapApart
  <2> QED BY <2>1, <2>2 DEF Apart, SnapApart, Differ
<1>4. ToldOnce'
  BY <1>t DEF Apart, ToldOnce, Told
<1> QED BY <1>1, <1>2, <1>3, <1>4 DEF Apart

\* A call begins with entries that were in the queue, or that are new.
LEMMA ApartAdmits ==
    ASSUME Apart, TypeOK, NEW t \in Turns, NEW B,
           fresh' \subseteq fresh, fate' = fate,
           queue' \subseteq queue,
           \/ B \subseteq queue /\ queue' \cap B = {}
              /\ \A u \in Turns : Snap(u) = {}
           \/ Unique(B) /\ \A e \in B : e.cmd \in fresh \ fresh',
           Held(t)' = B,
           \A u \in Turns \ {t} : Held(u)' = Held(u),
           \A u \in Turns : Snap(u)' \subseteq Snap(u)
    PROVE  Apart'
<1>t. /\ fresh \subseteq Cmds /\ \A e \in queue : e.cmd \in Cmds
      /\ \A u \in Turns : \A e \in Held(u) \cup Snap(u) : e.cmd \in Cmds
  BY DEF TypeOK, Calls, Entries, Held, HeldOf, Snap
<1>0. \A c : Told(c)' = Told(c)
  BY DEF Told
<1>1. QueueApart'
  BY <1>0 DEF Apart, QueueApart, Unique, Untold
<1>2. HeldApart'
  <2>1. Unique(B) /\ Untold(B)' /\ Differ(B, queue')
    BY <1>0 DEF Apart, QueueApart, ToldOnce, Unique, Untold, Differ
  <2>2. \A u \in Turns \ {t} : Differ(B, Held(u))
    BY DEF Apart, HeldApart, Untold, Differ
  <2>3. \A u \in Turns \ {t} : /\ Unique(Held(u)) /\ Untold(Held(u))'
                               /\ Differ(Held(u), queue')
    BY <1>0 DEF Apart, HeldApart, Untold, Differ
  <2>4. \A u, v \in Turns \ {t} : u # v => Differ(Held(u), Held(v))
    BY DEF Apart, HeldApart
  <2>5. \A u \in Turns : Unique(Held(u))' /\ Untold(Held(u))' /\ Differ(Held(u), queue)'
    BY <2>1, <2>3 DEF Unique, Untold, Differ
  <2>6. \A u, v \in Turns : u # v => Differ(Held(u), Held(v))'
    BY <2>2, <2>4 DEF Differ
  <2> QED BY <2>5, <2>6 DEF HeldApart
<1>3. SnapApart'
  <2>1. \A u \in Turns : Differ(Snap(u), B)
    BY DEF Apart, SnapApart, Differ
  <2> QED BY <2>1 DEF Apart, SnapApart, Differ
<1>4. ToldOnce'
  BY <1>0 DEF Apart, ToldOnce
<1> QED BY <1>1, <1>2, <1>3, <1>4 DEF Apart

\* A query begins with what its call held, or with a new command.
LEMMA ApartBegins ==
    ASSUME Apart, TypeOK, NEW t \in Turns, NEW B \in SUBSET Entries,
           fresh' \subseteq fresh, queue' = queue,
           fate' = Settle(CmdsOf(B), "appended"),
           B = Held(t) \/ \A e \in B : e.cmd \in fresh \ fresh',
           Held(t)' = {},
           \A u \in Turns \ {t} : Held(u)' = Held(u),
           \A u \in Turns : Snap(u)' \subseteq Snap(u)
    PROVE  Apart'
<1>t. /\ fresh \subseteq Cmds /\ \A e \in queue : e.cmd \in Cmds
      /\ \A e \in B : e.cmd \in Cmds
      /\ \A u \in Turns : \A e \in Held(u) \cup Snap(u) : e.cmd \in Cmds
  BY DEF TypeOK, Calls, Entries, Held, HeldOf, Snap
<1>0. /\ \A c \in Cmds : (\A e \in B : e.cmd # c) => fate'[c] = fate[c]
      /\ \A c \in Cmds : fate'[c] \subseteq fate[c] \cup {"appended"}
  BY SettleIs DEF CmdsOf, Settle, TypeOK
<1>a. /\ Differ(B, queue) /\ \A u \in Turns \ {t} : Differ(B, Held(u))
      /\ \A u \in Turns : Differ(Snap(u), B)
      /\ \A e \in B : Told(e.cmd) = {} /\ e.cmd \notin fresh'
  <2>1. CASE B = Held(t)
    BY <2>1 DEF Apart, HeldApart, SnapApart, Untold, Differ
  <2>2. CASE \A e \in B : e.cmd \in fresh \ fresh'
    BY <2>2
       DEF Apart, QueueApart, HeldApart, SnapApart, ToldOnce, Untold, Differ
  <2> QED BY <2>1, <2>2
<1>1. QueueApart'
  <2>1. \A e \in queue : Told(e.cmd)' = Told(e.cmd)
    BY <1>t, <1>0, <1>a DEF Differ, Told
  <2> QED BY <2>1 DEF Apart, QueueApart, Unique, Untold
<1>2. HeldApart'
  <2>1. \A u \in Turns \ {t} : \A e \in Held(u) : Told(e.cmd)' = Told(e.cmd)
    BY <1>t, <1>0, <1>a DEF Differ, Told
  <2>2. \A u \in Turns \ {t} : /\ Unique(Held(u))' /\ Untold(Held(u))'
                               /\ Differ(Held(u), queue)'
    BY <2>1 DEF Apart, HeldApart, Unique, Untold, Differ
  <2>3. \A u \in Turns : Unique(Held(u))' /\ Untold(Held(u))' /\ Differ(Held(u), queue)'
    BY <2>2 DEF Unique, Untold, Differ
  <2>4. \A u, v \in Turns : u # v => Differ(Held(u), Held(v))'
    BY DEF Apart, HeldApart, Differ
  <2> QED BY <2>3, <2>4 DEF HeldApart
<1>3. SnapApart'
  <2>1. \A u \in Turns : \A e \in Snap(u) : fate'[e.cmd] = fate[e.cmd]
    BY <1>t, <1>0, <1>a DEF Differ
  <2> QED BY <2>1 DEF Apart, SnapApart, Differ
<1>4. ToldOnce'
  <2>1. \A c \in fresh' : Told(c)' = {}
    BY <1>t, <1>0, <1>a DEF Apart, ToldOnce, Told
  <2>2. ASSUME NEW c \in Cmds PROVE ~({"appended", "attached"} \subseteq fate'[c])
    <3>1. CASE \E e \in B : e.cmd = c
      BY <3>1, <1>0, <1>a DEF Told
    <3>2. CASE \A e \in B : e.cmd # c
      BY <3>2, <1>0 DEF Apart, ToldOnce
    <3> QED BY <3>1, <3>2
  <2> QED BY <2>1, <2>2 DEF ToldOnce
<1> QED BY <1>1, <1>2, <1>3, <1>4 DEF Apart

\* A refused onQuery moves what its call held to the queue, or drops it.
LEMMA ApartReturns ==
    ASSUME Apart, TypeOK, NEW t \in Turns, NEW N,
           fresh' = fresh, queue' = queue \cup N,
           \A c \in Cmds : Told(c)' = Told(c),
           \A n \in N : \E e \in Held(t) : n.cmd = e.cmd,
           Unique(N),
           Held(t)' = {},
           \A u \in Turns \ {t} : Held(u)' = Held(u),
           \A u \in Turns : Snap(u)' \subseteq Snap(u)
    PROVE  Apart'
<1>t. /\ fresh \subseteq Cmds /\ \A e \in queue : e.cmd \in Cmds
      /\ \A u \in Turns : \A e \in Held(u) \cup Snap(u) : e.cmd \in Cmds
  BY DEF TypeOK, Calls, Entries, Held, HeldOf, Snap
<1>n. /\ \A n \in N : n.cmd \in Cmds /\ n.cmd \notin fresh /\ Told(n.cmd) = {}
      /\ Differ(N, queue) /\ \A u \in Turns \ {t} : Differ(N, Held(u))
      /\ \A u \in Turns : Differ(Snap(u), N)
  BY <1>t DEF Apart, HeldApart, SnapApart, Untold, Differ
<1>1. QueueApart'
  <2>1. \A e \in queue : Told(e.cmd)' = {} /\ e.cmd \notin fresh
    BY <1>t DEF Apart, QueueApart, Untold
  <2>2. \A e \in N : Told(e.cmd)' = {} /\ e.cmd \notin fresh
    BY <1>n
  <2>3. Unique(queue)'
    BY <1>n DEF Apart, QueueApart, Unique, Differ
  <2> QED BY <2>1, <2>2, <2>3 DEF QueueApart, Untold
<1>2. HeldApart'
  <2>1. \A u \in Turns \ {t} : \A e \in Held(u) : Told(e.cmd)' = Told(e.cmd)
    BY <1>t
  <2>2. \A u \in Turns \ {t} : /\ Unique(Held(u))' /\ Untold(Held(u))'
                               /\ Differ(Held(u), queue)'
    BY <1>n, <2>1 DEF Apart, HeldApart, Unique, Untold, Differ
  <2>3. \A u \in Turns : Unique(Held(u))' /\ Untold(Held(u))' /\ Differ(Held(u), queue)'
    BY <2>2 DEF Unique, Untold, Differ
  <2>4. \A u, v \in Turns : u # v => Differ(Held(u), Held(v))'
    BY DEF Apart, HeldApart, Differ
  <2> QED BY <2>3, <2>4 DEF HeldApart
<1>3. SnapApart'
  <2>1. \A u \in Turns : \A e \in Snap(u) : "appended" \notin fate'[e.cmd]
    BY <1>t DEF Apart, SnapApart, Told
  <2>2. \A u \in Turns : /\ \A e \in Snap(u) : e.cmd \notin fresh
                         /\ \A e \in Snap(u), f \in queue' : e.cmd = f.cmd => e = f
                         /\ \A v \in Turns : Differ(Snap(u), Held(v)')
    BY <1>n DEF Apart, SnapApart, Differ
  <2> QED BY <2>1, <2>2 DEF SnapApart, Differ
<1>4. ToldOnce'
  BY <1>t DEF Apart, ToldOnce, Told
<1> QED BY <1>1, <1>2, <1>3, <1>4 DEF Apart

\* A query takes a snapshot of the queue ...
LEMMA ApartDrains ==
    ASSUME Apart, NEW t \in Turns,
           fresh' = fresh, queue' = queue, fate' = fate,
           Snap(t)' \subseteq queue,
           \A u \in Turns \ {t} : Snap(u)' = Snap(u),
           \A u \in Turns : Held(u)' = Held(u)
    PROVE  Apart'
<1>1. QueueApart'
  BY DEF Apart, QueueApart, Unique, Untold, Told
<1>2. HeldApart'
  BY DEF Apart, HeldApart, Unique, Untold, Told, Differ
<1>3. SnapApart'
  <2>1. /\ \A e \in Snap(t)' : e.cmd \notin fresh /\ "appended" \notin fate[e.cmd]
        /\ \A e \in Snap(t)', f \in queue : e.cmd = f.cmd => e = f
        /\ \A u \in Turns : Differ(Snap(t)', Held(u))
    BY DEF Apart, QueueApart, HeldApart, Unique, Untold, Told, Differ
  <2> QED BY <2>1 DEF Apart, SnapApart, Differ
<1>4. ToldOnce'
  BY DEF Apart, ToldOnce, Told
<1> QED BY <1>1, <1>2, <1>3, <1>4 DEF Apart

\* ... and attaches it, when it takes it out of the queue.
LEMMA ApartAttaches ==
    ASSUME Apart, TypeOK, NEW t \in Turns,
           fresh' = fresh, queue' = queue \ Snap(t),
           fate' = Settle(CmdsOf(Snap(t)), "attached"),
           \A u \in Turns : Snap(u)' \subseteq Snap(u),
           \A u \in Turns : Held(u)' = Held(u)
    PROVE  Apart'
<1>t. /\ fresh \subseteq Cmds /\ \A e \in queue : e.cmd \in Cmds
      /\ \A u \in Turns : \A e \in Held(u) \cup Snap(u) : e.cmd \in Cmds
  BY DEF TypeOK, Calls, Entries, Held, HeldOf, Snap
<1>0. /\ \A c \in Cmds : (\A e \in Snap(t) : e.cmd # c) => fate'[c] = fate[c]
      /\ \A c \in Cmds : fate'[c] \subseteq fate[c] \cup {"attached"}
  BY SettleIs DEF CmdsOf, Settle, TypeOK
<1>1. QueueApart'
  <2>1. \A e \in queue' : Told(e.cmd)' = Told(e.cmd)
    BY <1>t, <1>0 DEF Apart, SnapApart, Told
  <2> QED BY <2>1 DEF Apart, QueueApart, Unique, Untold
<1>2. HeldApart'
  <2>1. \A u \in Turns : \A e \in Held(u) : Told(e.cmd)' = Told(e.cmd)
    BY <1>t, <1>0 DEF Apart, SnapApart, Differ, Told
  <2> QED BY <2>1 DEF Apart, HeldApart, Unique, Untold, Differ
<1>3. SnapApart'
  <2>1. \A u \in Turns : \A e \in Snap(u) : "appended" \notin fate'[e.cmd]
    BY <1>t, <1>0 DEF Apart, SnapApart
  <2> QED BY <2>1 DEF Apart, SnapApart, Differ
<1>4. ToldOnce'
  <2>1. \A c \in fresh' : Told(c)' = {}
    BY <1>t, <1>0 DEF Apart, ToldOnce, SnapApart, Told
  <2>2. ASSUME NEW c \in Cmds PROVE ~({"appended", "attached"} \subseteq fate'[c])
    <3>1. CASE \E e \in Snap(t) : e.cmd = c
      BY <3>1, <1>0 DEF Apart, SnapApart
    <3>2. CASE \A e \in Snap(t) : e.cmd # c
      BY <3>2, <1>0 DEF Apart, ToldOnce
    <3> QED BY <3>1, <3>2
  <2> QED BY <2>1, <2>2 DEF ToldOnce
<1> QED BY <1>1, <1>2, <1>3, <1>4 DEF Apart

\* Escapes are only counted up.
LEMMA CancelsGrow ==
    ASSUME TypeOK, [Next]_vars
    PROVE  cancels \in Nat /\ (cancels' = cancels \/ cancels' = cancels + 1)
BY DEF TypeOK, Next, Arrive, Advance, User, SubmitBusy, Notify,
   KillAgents, OpenDialog, SubmitNow, Incoming, InitialArrive, ProcessQueue,
   InputDone, InputLocal, InputThrow, InitialLaunch, Reply, DrainStart,
   DrainEnd, Finish, Cancel, PopAll, Background, NowInterrupt, CloseDialog,
      vars

\* Without Escape the guard's generation is that of the only query.
LEMMA AloneStep ==
    ASSUME Accounted, TypeOK', Alone, [Next]_vars
    PROVE  Alone'
<1>1. cancels \in Nat /\ (cancels' = cancels \/ cancels' = cancels + 1)
  BY CancelsGrow DEF Accounted
<1> SUFFICES ASSUME cancels' = 0, cancels = 0, NEW v \in Turns, turn'[v].pc = "query"
             PROVE  guard'.status = "running" /\ Owns(v)'
  BY <1>1 DEF Alone
<1>t. /\ guard \in Guards
      /\ \A t \in Turns : turn[t].gen \in Nat /\ turn'[t].gen \in Nat
  BY DEF Accounted, TypeOK, Calls
<1> USE DEF Alone, Owns
<1>2. CASE Still
  BY <1>2, <1>t DEF Still, Same
<1>3. CASE CutOff /\ cancels' = cancels + 1
  BY <1>3
<1>4. ASSUME NEW t \in Turns, Admit(t) \/ Await(t)
      PROVE  guard'.status = "running" /\ Owns(v)'
  BY <1>4, <1>t DEF Admit, Await, Others, Same, Reserve
<1>5. ASSUME NEW t \in Turns, Begin(t)
      PROVE  guard'.status = "running" /\ Owns(v)'
  BY <1>5, <1>t DEF Begin, Others, Same, Start
<1>6. ASSUME NEW t \in Turns, GiveUp(t)
      PROVE  guard'.status = "running" /\ Owns(v)'
  BY <1>6, <1>t DEF GiveUp, Others, Same, CancelReservation
<1>7. ASSUME NEW t \in Turns, End_(t)
      PROVE  guard'.status = "running" /\ Owns(v)'
  BY <1>7, <1>t, EndEffect
     DEF End_, Others, Same, End, Ends, Accounted, Generations
<1> QED
  BY <1>2, <1>3, <1>4, <1>5, <1>6, <1>7, StepEffect DEF Effect, Accounted

\* A call that is not a query keeps an empty snapshot.
LEMMA SnapsStep ==
    ASSUME TypeOK, Snaps, [Next]_vars
    PROVE  Snaps'
<1>t. turn \in [Turns -> Calls]
  BY DEF TypeOK
<1>0. NoCall.snap = {}
  BY DEF NoCall, Call
<1>1. ASSUME NEW t \in Turns, NEW es, NEW ask, OnQuery(t, es, ask) PROVE Snaps'
  <2>1. CASE Starts(t, es, ask)
    BY <2>1, <1>t DEF Starts, Snaps, Calls
  <2>2. CASE Refused(t, es)
    BY <2>2, <1>t, <1>0 DEF Refused, Snaps
  <2> QED BY <1>1, <2>1, <2>2 DEF OnQuery
<1>2. CASE \E c \in Cmds : \/ SubmitBusy(c) \/ Notify(c) \/ KillAgents(c) \/ OpenDialog(c)
  BY <1>2, AbortHeld
     DEF SubmitBusy, Notify, KillAgents, OpenDialog, flow, Snaps
<1>3. CASE \E c \in Cmds, t \in Turns : SubmitNow(c, t) \/ Incoming(c, t)
                                        \/ InitialArrive(c, t)
  BY <1>3, <1>t DEF SubmitNow, Incoming, InitialArrive, Execute, Call, Snaps
<1>4. ASSUME NEW t \in Turns, ProcessQueue(t) PROVE Snaps'
  BY <1>4, <1>t DEF ProcessQueue, Execute, Call, Snaps
<1>5. ASSUME NEW t \in Turns, InputDone(t) \/ InitialLaunch(t) PROVE Snaps'
  BY <1>5, <1>1 DEF InputDone, InitialLaunch
<1>6. ASSUME NEW t \in Turns, InputLocal(t) \/ InputThrow(t) \/ Finish(t) PROVE Snaps'
  <2>1. turn' = [turn EXCEPT ![t] = NoCall]
    BY <1>6 DEF InputLocal, InputThrow, Finish
  <2> QED BY <2>1, <1>t, <1>0 DEF Snaps
<1>7. ASSUME NEW t \in Turns, Reply(t) \/ DrainStart(t) \/ DrainEnd(t) PROVE Snaps'
  BY <1>7, <1>t DEF Reply, DrainStart, DrainEnd, flow, Snaps, Calls
<1>8. CASE Cancel \/ PopAll \/ Background \/ NowInterrupt \/ CloseDialog
  <2>1. \/ turn' = turn
        \/ \E reason : turn' = Abort(reason)
    BY <1>8 DEF Cancel, PopAll, Background, NowInterrupt, CloseDialog, flow
  <2> QED BY <2>1, AbortHeld DEF Snaps
<1>9. CASE UNCHANGED vars
  BY <1>9 DEF vars, Snaps
<1> QED
  BY <1>2, <1>3, <1>4, <1>5, <1>6, <1>7, <1>8, <1>9
     DEF Next, Arrive, Advance, User

\* What a step leaves of a call, as seen by Apart.
LEMMA PlacesAfter ==
    ASSUME TypeOK, NEW t \in Turns, NEW r, turn' = [turn EXCEPT ![t] = r]
    PROVE  /\ Held(t)' = HeldOf(r) /\ Snap(t)' = r.snap
           /\ \A u \in Turns \ {t} : Held(u)' = Held(u) /\ Snap(u)' = Snap(u)
BY DEF TypeOK, Held, HeldOf, Snap

LEMMA AbortPlaces ==
    ASSUME TypeOK, NEW reason, turn' = Abort(reason)
    PROVE  \A t \in Turns : Held(t)' = Held(t) /\ Snap(t)' = Snap(t)
BY AbortHeld DEF Held, Snap

\* Settling anything else tells the model nothing.
LEMMA SettleTold ==
    ASSUME TypeOK, NEW cs, NEW f, f \notin {"appended", "attached"},
           fate' = Settle(cs, f)
    PROVE  \A c \in Cmds : Told(c)' = Told(c)
BY DEF TypeOK, Settle, Told

\* The input that a slash command chains is new.
LEMMA ChainEnters ==
    ASSUME Apart, TypeOK, NEW slash, Chain(slash),
           \A t \in Turns : Held(t)' \subseteq Held(t),
           \A t \in Turns : Snap(t)' \subseteq Snap(t),
           \A c \in Cmds : Told(c)' \subseteq Told(c)
    PROVE  Apart'
<1>1. CASE UNCHANGED <<queue, tick, fresh>>
  <2> DEFINE N == {}
  <2>1. /\ fresh' \subseteq fresh /\ queue' \subseteq queue \cup N
        /\ Unique(N) /\ \A e \in N : e.cmd \in fresh \ fresh'
    BY <1>1 DEF Unique
  <2> HIDE DEF N
  <2> QED BY <2>1, ApartEnters
<1>2. ASSUME NEW c \in Cmds, Take(c, "chain"), Push(c) PROVE Apart'
  <2> DEFINE N == {EntryOf(c)}
  <2>1. /\ fresh' \subseteq fresh /\ queue' \subseteq queue \cup N
        /\ Unique(N) /\ \A e \in N : e.cmd \in fresh \ fresh'
    BY <1>2 DEF Unique, Take, Push, EntryOf
  <2> HIDE DEF N
  <2> QED BY <2>1, ApartEnters
<1> QED BY <1>1, <1>2 DEF Chain

LEMMA ApartStep ==
    ASSUME TypeOK, Alone, Snaps, cancels = 0, Apart, [Next]_vars
    PROVE  Apart'
<1>t. /\ turn \in [Turns -> Calls] /\ fresh \subseteq Cmds
      /\ queue \subseteq Entries /\ fate \in [Cmds -> SUBSET Fates]
      /\ \A t \in Turns : turn[t].batch \in SUBSET Entries
  BY DEF TypeOK, Calls
\* A new command enters the queue, or is settled at once.
<1>e. ASSUME NEW c \in fresh, fresh' = fresh \ {c},
             queue' \subseteq queue \cup {EntryOf(c)},
             \A t \in Turns : Held(t)' = Held(t) /\ Snap(t)' = Snap(t),
             \A d \in Cmds : Told(d)' = Told(d)
      PROVE  Apart'
  <2> DEFINE N == {EntryOf(c)}
  <2>1. /\ fresh' \subseteq fresh /\ queue' \subseteq queue \cup N
        /\ Unique(N) /\ \A e \in N : e.cmd \in fresh \ fresh'
    BY <1>e DEF Unique, EntryOf
  <2> HIDE DEF N
  <2> QED BY <1>e, <2>1, ApartEnters
\* Nothing enters.
<1>s. ASSUME fresh' = fresh, queue' \subseteq queue,
             \A t \in Turns : Held(t)' \subseteq Held(t) /\ Snap(t)' \subseteq Snap(t),
             \A d \in Cmds : Told(d)' \subseteq Told(d)
      PROVE  Apart'
  <2> DEFINE N == {}
  <2>1. /\ fresh' \subseteq fresh /\ queue' \subseteq queue \cup N
        /\ Unique(N) /\ \A e \in N : e.cmd \in fresh \ fresh'
    BY <1>s DEF Unique
  <2> HIDE DEF N
  <2> QED BY <1>s, <2>1, ApartEnters
<1>f. fate' = fate => \A d \in Cmds : Told(d)' = Told(d)
  BY DEF Told
<1>u. turn' = turn => \A t \in Turns : Held(t)' = Held(t) /\ Snap(t)' = Snap(t)
  BY DEF Held, Snap
<1>1. ASSUME NEW c \in Cmds, SubmitBusy(c) \/ Notify(c) PROVE Apart'
  <2>1. /\ queue' = queue \cup {EntryOf(c)} /\ fresh' = fresh \ {c} /\ fate' = fate
        /\ c \in fresh
        /\ \A t \in Turns : Held(t)' = Held(t) /\ Snap(t)' = Snap(t)
    BY <1>1, <1>u, AbortPlaces DEF SubmitBusy, Notify, Take, Push, flow
  <2> QED BY <2>1, <1>e, <1>f
<1>2. ASSUME NEW c \in Cmds, KillAgents(c) \/ OpenDialog(c) PROVE Apart'
  <2>1. /\ queue' \subseteq queue \cup {EntryOf(c)} /\ fresh' = fresh \ {c}
        /\ c \in fresh /\ turn' = turn
        /\ \E cs, f : f \notin {"appended", "attached"} /\ fate' = Settle(cs, f)
    BY <1>2 DEF KillAgents, OpenDialog, Take, flow
  <2>2. \A d \in Cmds : Told(d)' = Told(d)
    BY <2>1, SettleTold
  <2> QED BY <2>1, <2>2, <1>e, <1>u
<1>4. ASSUME NEW c \in Cmds, NEW t \in Turns, SubmitNow(c, t) \/ InitialArrive(c, t)
      PROVE  Apart'
  <2>1. /\ queue' = queue /\ fresh' = fresh \ {c} /\ fate' = fate /\ c \in fresh
        /\ \E pc \in {"input", "initial"} :
             turn' = [turn EXCEPT ![t] = Call(pc, {EntryOf(c)}, 0, FALSE)]
    BY <1>4 DEF SubmitNow, InitialArrive, Execute, Take
  <2>2. PICK pc \in {"input", "initial"} :
             turn' = [turn EXCEPT ![t] = Call(pc, {EntryOf(c)}, 0, FALSE)]
    BY <2>1
  <2> DEFINE B == {EntryOf(c)}  r == Call(pc, B, 0, FALSE)
  <2>3. HeldOf(r) = B /\ r.snap = {}
    BY DEF HeldOf, Call
  <2>4. Unique(B) /\ \A e \in B : e.cmd \in fresh \ fresh'
    BY <2>1 DEF Unique, EntryOf
  <2>5. turn' = [turn EXCEPT ![t] = r]
    BY <2>2
  <2> HIDE DEF r, B
  <2>6. /\ Held(t)' = B /\ Snap(t)' = {}
        /\ \A u \in Turns \ {t} : Held(u)' = Held(u) /\ Snap(u)' = Snap(u)
    BY <2>3, <2>5, PlacesAfter
  <2> QED BY <2>1, <2>4, <2>6, ApartAdmits
<1>5. ASSUME NEW c \in Cmds, NEW t \in Turns, Incoming(c, t) PROVE Apart'
  <2> DEFINE B == {EntryOf(c)}  r == Call("query", B, guard.generation + 1, TRUE)
  <2>1. /\ queue' = queue /\ fresh' = fresh \ {c} /\ c \in fresh
        /\ fate' = Settle({c}, "appended") /\ Free(t)
        /\ turn' = [turn EXCEPT ![t] = r]
    BY <1>5 DEF Incoming
  <2>2. HeldOf(r) = {} /\ r.snap = {}
    BY DEF HeldOf, Call
  <2>3. /\ CmdsOf(B) = {c} /\ \A e \in B : e.cmd \in fresh \ fresh'
        /\ B \in SUBSET Entries
    BY <2>1 DEF CmdsOf, EntryOf, Entries, TypeOK
  <2> HIDE DEF r, B
  <2>4. /\ Held(t)' = {} /\ Snap(t)' = {}
        /\ \A u \in Turns \ {t} : Held(u)' = Held(u) /\ Snap(u)' = Snap(u)
    BY <2>1, <2>2, PlacesAfter
  <2> QED BY <2>1, <2>3, <2>4, ApartBegins
<1>6. ASSUME NEW t \in Turns, ProcessQueue(t) PROVE Apart'
  <2>1. PICK e \in MainThread(queue) :
           /\ Execute(t, Batch(e, MainThread(queue)))
           /\ queue' = queue \ Batch(e, MainThread(queue))
    BY <1>6 DEF ProcessQueue
  <2> DEFINE B == Batch(e, MainThread(queue))  r == Call("input", B, 0, FALSE)
  <2>2. /\ queue' = queue \ B /\ fresh' = fresh /\ fate' = fate
        /\ turn' = [turn EXCEPT ![t] = r]
    BY <1>6, <2>1 DEF ProcessQueue, Execute
  <2>3. HeldOf(r) = B /\ r.snap = {} /\ B \subseteq queue
    BY DEF HeldOf, Call, Batch, MainThread
  <2>4. \A u \in Turns : Snap(u) = {}
    BY <1>6 DEF ProcessQueue, IsActive, Alone, Snaps, Snap
  <2> HIDE DEF r, B
  <2>5. /\ Held(t)' = B /\ Snap(t)' = {}
        /\ \A u \in Turns \ {t} : Held(u)' = Held(u) /\ Snap(u)' = Snap(u)
    BY <2>2, <2>3, PlacesAfter
  <2>6. queue' \cap B = {} /\ queue' \subseteq queue
    BY <2>2
  <2> QED BY <2>2, <2>3, <2>4, <2>5, <2>6, ApartAdmits
<1>7. ASSUME NEW t \in Turns, NEW ask, OnQuery(t, turn[t].batch, ask),
             turn[t].pc \in {"input", "initial"}
      PROVE  Apart'
  <2> DEFINE B == turn[t].batch
  <2>0. B \in SUBSET Entries /\ B = Held(t)
    BY <1>t, <1>7 DEF Held, HeldOf
  <2>1. CASE Starts(t, B, ask)
    <3>1. /\ queue' = queue /\ fresh' = fresh
          /\ fate' = Settle(CmdsOf(B), "appended")
      BY <2>1 DEF Starts
    <3>2. /\ Held(t)' = {} /\ Snap(t)' = Snap(t)
          /\ \A u \in Turns \ {t} : Held(u)' = Held(u) /\ Snap(u)' = Snap(u)
      BY <2>1, <1>t DEF Starts, Held, HeldOf, Snap, Calls
    <3> HIDE DEF B
    <3> QED BY <2>0, <3>1, <3>2, ApartBegins
  <2>2. CASE Refused(t, B)
    <3> DEFINE N == {Again(e, B) : e \in Said(B)}
    <3>1. /\ queue' = queue \cup N /\ fresh' = fresh
          /\ fate' = Settle(CmdsOf(B \ Said(B)), "dropped")
          /\ turn' = [turn EXCEPT ![t] = NoCall]
      BY <2>2 DEF Refused, PushBack
    <3>2. HeldOf(NoCall) = {} /\ NoCall.snap = {}
      BY DEF HeldOf, NoCall, Call
    <3>3. /\ Held(t)' = {} /\ Snap(t)' = {}
          /\ \A u \in Turns \ {t} : Held(u)' = Held(u) /\ Snap(u)' = Snap(u)
      BY <3>1, <3>2, PlacesAfter
    <3> HIDE DEF B
    <3>4. \A e \in B : Again(e, B).cmd = e.cmd
      BY DEF Again
    <3>5. \A n \in N : \E e \in Held(t) : n.cmd = e.cmd /\ n = Again(e, B)
      BY <2>0, <3>4 DEF Said
    <3>6. Unique(Held(t))
      BY DEF Apart, HeldApart
    <3> HIDE DEF N
    <3>7. Unique(N)
      BY <3>5, <3>6 DEF Unique
    <3>8. \A c \in Cmds : Told(c)' = Told(c)
      BY <3>1, SettleTold
    <3> QED BY <3>1, <3>3, <3>5, <3>7, <3>8, ApartReturns
  <2> QED BY <1>7, <2>1, <2>2 DEF OnQuery
<1>8. ASSUME NEW t \in Turns, InputLocal(t) \/ InputThrow(t) \/ Finish(t)
      PROVE  Apart'
  <2>1. turn' = [turn EXCEPT ![t] = NoCall]
    BY <1>8 DEF InputLocal, InputThrow, Finish
  <2>2. HeldOf(NoCall) = {} /\ NoCall.snap = {}
    BY DEF HeldOf, NoCall, Call
  <2>3. \A u \in Turns : Held(u)' \subseteq Held(u) /\ Snap(u)' \subseteq Snap(u)
    BY <2>1, <2>2, PlacesAfter
  <2>4. CASE InputLocal(t) \/ InputThrow(t)
    <3>1. \E cs, f : f \notin {"appended", "attached"} /\ fate' = Settle(cs, f)
      BY <2>4 DEF InputLocal, InputThrow
    <3>2. \A c \in Cmds : Told(c)' \subseteq Told(c)
      BY <3>1, SettleTold
    <3>3. CASE InputLocal(t)
      BY <2>3, <3>2, <3>3, ChainEnters DEF InputLocal
    <3>4. CASE InputThrow(t)
      BY <2>3, <3>2, <3>4, <1>s DEF InputThrow
    <3> QED BY <2>4, <3>3, <3>4
  <2>5. CASE Finish(t)
    <3>1. \A c \in Cmds : Told(c)' \subseteq Told(c)
      BY <2>5, <1>t DEF Finish, Told
    <3>2. Chain(\E e \in turn[t].batch : Slash(e))
      BY <2>5 DEF Finish
    <3> QED BY <2>3, <3>1, <3>2, ChainEnters
  <2> QED BY <1>8, <2>4, <2>5
<1>9. ASSUME NEW t \in Turns, Reply(t) PROVE Apart'
  BY <1>9, <1>s, <1>f, <1>u DEF Reply, flow
<1>10. ASSUME NEW t \in Turns, DrainStart(t) PROVE Apart'
  <2>1. queue' = queue /\ fresh' = fresh /\ fate' = fate
    BY <1>10 DEF DrainStart
  <2>2. /\ Snap(t)' \subseteq queue /\ \A u \in Turns \ {t} : Snap(u)' = Snap(u)
        /\ \A u \in Turns : Held(u)' = Held(u)
    BY <1>10, <1>t DEF DrainStart, Held, HeldOf, Snap, Drainable, UpTo,
       MainThread, Calls
  <2> QED BY <2>1, <2>2, ApartDrains
<1>11. ASSUME NEW t \in Turns, DrainEnd(t) PROVE Apart'
  <2>1. /\ queue' = queue \ Snap(t) /\ fresh' = fresh
        /\ fate' = Settle(CmdsOf(Snap(t)), "attached")
    BY <1>11 DEF DrainEnd, Snap
  <2>2. \A u \in Turns : Held(u)' = Held(u) /\ Snap(u)' \subseteq Snap(u)
    BY <1>11, <1>t DEF DrainEnd, Held, HeldOf, Snap, Calls
  <2> QED BY <2>1, <2>2, ApartAttaches
<1>12. ASSUME PopAll \/ Background PROVE Apart'
  <2>1. \A u \in Turns : Held(u)' = Held(u) /\ Snap(u)' = Snap(u)
    BY <1>12, <1>u, AbortPlaces DEF PopAll, Background, flow
  <2>2. /\ queue' \subseteq queue /\ fresh' = fresh
        /\ \E cs, f : f \notin {"appended", "attached"} /\ fate' = Settle(cs, f)
    BY <1>12 DEF PopAll, Background
  <2>3. \A c \in Cmds : Told(c)' = Told(c)
    BY <2>2, SettleTold
  <2> QED BY <2>1, <2>2, <2>3, <1>s
<1>13. ASSUME Cancel \/ NowInterrupt PROVE Apart'
  <2>1. \A u \in Turns : Held(u)' = Held(u) /\ Snap(u)' = Snap(u)
    BY <1>13, AbortPlaces DEF Cancel, NowInterrupt
  <2> QED BY <2>1, <1>13, <1>s, <1>f DEF Cancel, NowInterrupt
<1>14. ASSUME CloseDialog PROVE Apart'
  <2>1. turn' = turn /\ fate' = fate /\ Chain(TRUE)
    BY <1>14 DEF CloseDialog, flow
  <2> QED BY <2>1, <1>f, <1>u, ChainEnters
<1>15. ASSUME UNCHANGED vars PROVE Apart'
  BY <1>15, <1>s, <1>f, <1>u DEF vars
<1>16. ASSUME NEW t \in Turns, Advance(t) PROVE Apart'
  <2>1. CASE InputDone(t)
    BY <2>1, <1>7 DEF InputDone
  <2>2. CASE InitialLaunch(t)
    BY <2>2, <1>7 DEF InitialLaunch
  <2> QED BY <1>16, <2>1, <2>2, <1>6, <1>8, <1>9, <1>10, <1>11 DEF Advance
<1>17. CASE Arrive
  BY <1>17, <1>1, <1>2, <1>4, <1>5 DEF Arrive
<1>18. CASE User
  BY <1>18, <1>12, <1>13, <1>14 DEF User
<1> QED BY <1>15, <1>16, <1>17, <1>18 DEF Next

\* The model hears of a command once: as a user message or as an attachment,
\* if nobody cancels a turn.
THEOREM ModelHearsOnce == Spec => []DeliveredOnce
<1>1. Init => OnceInv
  BY DEF Init, OnceInv, Alone, Snaps, Apart, QueueApart, HeldApart, SnapApart,
     ToldOnce, Unique, Untold, Differ, Told, Held, HeldOf, Snap, NoCall, Call
<1>2. ASSUME Accounted, TypeOK', OnceInv, [Next]_vars PROVE OnceInv'
  <2>1. Alone' /\ Snaps'
    BY <1>2, AloneStep, SnapsStep DEF OnceInv, Accounted
  <2>2. cancels' = 0 => cancels = 0
    BY <1>2, CancelsGrow DEF Accounted
  <2>3. cancels' = 0 => Apart'
    BY <1>2, <2>2, ApartStep DEF OnceInv, Accounted
  <2> QED BY <2>1, <2>3 DEF OnceInv
<1>3. OnceInv => DeliveredOnce
  BY DEF OnceInv, Apart, ToldOnce, DeliveredOnce
<1> QED
  BY <1>1, <1>2, <1>3, TypeCorrect, AccountedInvariant, PTL DEF Spec
=============================================================================
