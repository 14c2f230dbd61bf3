--------------------------- MODULE TaskList_proofs ---------------------------
(***************************************************************************)
(* Proofs about TaskList, for any number of processes, ids, calls and      *)
(* crashes, and any operations.                                            *)
(*                                                                         *)
(* Three arguments are interleaved.  The locks: a process holds one        *)
(* exactly between lock() and release().  The ids: without deleteTask an   *)
(* id given out is covered by a file or by the mark at any moment, the one *)
(* at which the mark is truncated included.  The contents: under the lock  *)
(* of a task what was read is what the file says, until it is written.     *)
(***************************************************************************)
EXTENDS TaskList, FiniteSetTheorems, WellFoundedInduction, TLAPS

Owners == Agents \cup {Nobody}

\* What an update writes.
Patches == [owner : Owners] \cup [status : Statuses]
           \cup [owner : Owners, status : Statuses]
           \cup [blocks : SUBSET Ids] \cup [blockedBy : SUBSET Ids]
           \cup [blocks : SUBSET Ids, blockedBy : SUBSET Ids]

Kinds == {"claim", "release", "update", "assign", "unassign"}

Jobs == [id : Ids, set : Patches, kind : Kinds]

Calls == [op : Operations \cup {"none"}, pc : Pcs, id : 0..MaxId,
          arg : {Nobody} \cup Agents \cup Ids \cup Wants, todo : SUBSET Ids,
          plan : Seq(Jobs), seen : SUBSET Ids, open : SUBSET Ids,
          high : 0..MaxId, cur : Tasks, won : 0..MaxId]

\* The jobs of a plan, and which operations get where.
Shape(c) ==
    /\ c.pc \in {"check", "lock"} \cup OfTaskLock => c.plan # <<>>
    /\ c.op = "claim" /\ c.pc \in {"list", "look"} => c.plan # <<>>
    /\ c.pc \in {"vet", "judge"} => c.op = "claim"
    /\ \A k \in DOMAIN c.plan : c.plan[k].kind = "claim" => c.op = "claim"
    /\ c.pc \in {"scan", "scanMark", "scanFiles", "create", "fill"}
         => c.op = "create"
    /\ c.pc = "listLock" => c.op \in {"create", "reset", "hide"}
    /\ c.pc \in {"survey", "dir", "clear"} => c.op \in {"reset", "hide"}
    /\ c.pc \in OfMark => c.op \in {"delete", "reset", "hide"}
    /\ c.pc = "unlink" => c.op = "delete"
    /\ c.pc = "fill" \/ c.op \in {"delete", "block"} => c.id \in Ids
    /\ c.op = "block" => c.arg \in Ids \ {c.id}

\* The locks of p.
Locks(p) ==
    /\ InList(p) => listLock = p
    /\ listLock = p => InList(p) \/ At(p, "dead")
    /\ \A i \in Ids : /\ InTask(p, i) => taskLock[i] = p
                      /\ taskLock[i] = p => InTask(p, i) \/ At(p, "dead")

\* p has seen the file of its job as a whole.
Busy(p) == \/ call[p].pc \in {"lock"} \cup OfTaskLock
           \/ call[p].pc \in {"list", "look"} /\ call[p].op = "claim"

Used == {i \in Ids : born[i] >= 1}

\* Every file, and the content that a file will have when it is there again,
\* is one of an id given out.
Files0 == \A i \in Ids : /\ file[i].there => i \in Used
                         /\ i \notin Used => file[i].task = NewTask

\* The file of a job was given out, and under its lock nobody changes it:
\* who was to claim it still may, and what was read is what it says.
Job0(p) ==
    /\ Busy(p) => Doing(p).id \in Used
    /\ /\ Busy(p) /\ call[p].pc \notin {"lock", "vet"}
       /\ Doing(p).kind = "claim"
       => MayClaim(p, file[Doing(p).id].task)
    /\ call[p].pc \in {"open", "write"}
       => deleted \/ call[p].cur = file[Doing(p).id].task

\* An id given out is below the mark or below a file.
Covered == \A i \in Used : i <= mark \/ \E j \in Ids : file[j].there /\ i <= j

\* What the holder of the lock of the list has found out of the ids.
Surveyed(p) == LET c == call[p] IN
    /\ c.pc = "scanMark" => \A i \in Used : i <= mark \/ i <= c.high
    /\ c.pc = "scanFiles" => mark <= c.high
    /\ c.pc = "create" => \A i \in Used : i <= c.high
    /\ c.pc \in OfMark /\ c.op # "delete" =>
         /\ c.high \in Ids /\ file[c.high].there
         /\ \A i \in Used : i <= mark \/ i <= c.high
    /\ c.pc \in {"markOpen", "markWrite"} /\ c.op # "delete" =>
         \A i \in Used : i <= c.high
    /\ c.pc \in {"dir", "clear"} => \A i \in Used : i <= mark

\* A file that createTask has opened is empty, and nobody has seen more.
Filling(p) ==
    At(p, "fill") =>
        /\ call[p].id \in Used
        /\ file[call[p].id].torn /\ file[call[p].id].task = NewTask
        /\ \A q \in Procs : Busy(q) => Doing(q).id # call[p].id

Undeleted == \/ deleted
             \/ /\ \A i \in Ids : born[i] <= 1
                /\ Covered
                /\ \A p \in Procs : Surveyed(p) /\ Filling(p)

IInv == /\ TypeOK /\ call \in [Procs -> Calls]
        /\ Files0 /\ Undeleted
        /\ \A p \in Procs : /\ Shape(call[p]) /\ Locks(p) /\ Job0(p)
                            /\ call[p].op = "delete" => deleted

-----------------------------------------------------------------------------
(***************************************************************************)
(* The data.                                                               *)
(***************************************************************************)

Fields == {"owner", "status", "blocks", "blockedBy"}

LEMMA TaskIs ==
    /\ NewTask \in Tasks /\ DOMAIN NewTask = Fields
    /\ \A t \in Tasks : DOMAIN t = Fields
BY DEF NewTask, Tasks, Statuses, Fields

LEMMA NoFileIs == NoFile \in Files
BY TaskIs DEF NoFile, Files

\* What an update does not name it leaves as it was read.
LEMMA MergedIs ==
    ASSUME NEW t \in Tasks, NEW s \in Patches
    PROVE  /\ Merged(t, s) \in Tasks
           /\ \A f \in Fields \ DOMAIN s : Merged(t, s)[f] = t[f]
<1> DEFINE m == Merged(t, s)
<1>1. m = [f \in Fields |-> IF f \in DOMAIN s THEN s[f] ELSE t[f]]
  BY TaskIs DEF Merged
<1>2. /\ "owner" \in DOMAIN s => s["owner"] \in Owners
      /\ "status" \in DOMAIN s => s["status"] \in Statuses
      /\ "blocks" \in DOMAIN s => s["blocks"] \in SUBSET Ids
      /\ "blockedBy" \in DOMAIN s => s["blockedBy"] \in SUBSET Ids
  BY DEF Patches
<1>3. /\ t["owner"] \in Owners /\ t["status"] \in Statuses
      /\ t["blocks"] \in SUBSET Ids /\ t["blockedBy"] \in SUBSET Ids
  BY DEF Tasks, Owners
<1>4. /\ m["owner"] \in Owners /\ m["status"] \in Statuses
      /\ m["blocks"] \in SUBSET Ids /\ m["blockedBy"] \in SUBSET Ids
  BY <1>1, <1>2, <1>3 DEF Fields
<1>5. m \in Tasks
  <2> HIDE DEF m
  <2> QED BY <1>1, <1>4 DEF Tasks, Fields, Owners
<1> QED BY <1>1, <1>5

\* TypeOK says of a patch that each of its fields fits a task.
LEMMA PatchFits ==
    ASSUME NEW s \in Patches, NEW f \in DOMAIN s
    PROVE  [NewTask EXCEPT ![f] = s[f]] \in Tasks
<1>1. /\ f = "owner" => s[f] \in Owners
      /\ f = "status" => s[f] \in Statuses
      /\ f \in {"blocks", "blockedBy"} => s[f] \in SUBSET Ids
      /\ f \in Fields
  BY DEF Patches, Fields
<1> QED BY <1>1, TaskIs DEF Tasks, Fields, Owners

LEMMA CallFits ==
    ASSUME NEW c \in Calls
    PROVE  /\ c.op \in Operations \cup {"none"} /\ c.pc \in Pcs
           /\ {c.id, c.high, c.won} \subseteq 0..MaxId
           /\ c.todo \cup c.seen \cup c.open \subseteq Ids
           /\ c.cur \in Tasks
           /\ \A k \in DOMAIN c.plan :
                 /\ c.plan[k].id \in Ids
                 /\ \A f \in DOMAIN c.plan[k].set :
                       [NewTask EXCEPT ![f] = c.plan[k].set[f]] \in Tasks
<1>1. \A k \in DOMAIN c.plan : c.plan[k] \in Jobs
  BY DEF Calls
<1> QED BY <1>1, PatchFits DEF Calls, Jobs

\* The largest of some ids: a chain of ever smaller sets of larger ids ends.
From(S, m) == {k \in S : k >= m}

LEMMA HasLargest ==
    ASSUME NEW n \in Nat, NEW S \in SUBSET (1..n), S # {}
    PROVE  \E m \in S : \A k \in S : k <= m
<1> DEFINE F == {From(S, m) : m \in S}
<1>1. IsFiniteSet(1..n)
  <2>1. 1 \in Int /\ n \in Int
    OBVIOUS
  <2> QED BY ONLY <2>1, FS_Interval, Zenon
<1>2. IsFiniteSet(S)
  BY <1>1, FS_Subset
<1>3. F \subseteq FiniteSubsetsOf(S) /\ F # {}
  <2>1. \A m \in S : From(S, m) \in FiniteSubsetsOf(S)
    BY <1>2, FS_Subset DEF FiniteSubsetsOf, From
  <2> QED BY <2>1
<1>4. PICK X \in F : \A Y \in F : <<Y, X>> \notin StrictSubsetOrdering(S)
  <2> HIDE DEF F
  <2> QED BY <1>3, FS_StrictSubsetOrderingWellFounded, WFMin
<1>5. PICK m \in S : X = From(S, m)
  OBVIOUS
<1>6. ASSUME NEW k \in S, ~(k <= m) PROVE FALSE
  <2>1. From(S, k) \in F
    OBVIOUS
  <2> HIDE DEF F
  <2>2. k \in Int /\ m \in Int
    OBVIOUS
  <2>3. From(S, k) \subseteq From(S, m)
    <3> SUFFICES ASSUME NEW j \in S, j >= k PROVE j >= m
      BY DEF From
    <3> QED BY <1>6, <2>2
  <2>4. m \notin From(S, k) /\ m \in From(S, m)
    BY <1>6, <2>2 DEF From
  <2>5. From(S, k) \in SUBSET S /\ From(S, m) \in SUBSET S
    BY DEF From
  <2> QED BY <2>1, <2>3, <2>4, <2>5, <1>4, <1>5 DEF StrictSubsetOrdering
<1> QED BY <1>5, <1>6

LEMMA IdsAre == MaxId \in Nat /\ Ids \subseteq Nat /\ Ids \subseteq 0..MaxId
                /\ \A i \in Ids : i # 0
BY BoundsAssumption DEF Ids

LEMMA HighestIs ==
    ASSUME file \in [Ids -> Files]
    PROVE  /\ Highest \in 0..MaxId
           /\ \A i \in Ids : file[i].there => i <= Highest
           /\ Highest > 0 => Highest \in Ids /\ file[Highest].there
<1>1. CASE Present = {}
  BY <1>1, IdsAre DEF Highest, Present
<1>2. CASE Present # {}
  <2>1. \E n \in Present : \A m \in Present : m <= n
    BY <1>2, IdsAre, HasLargest DEF Present, Ids
  <2>2. Highest \in Present /\ \A m \in Present : m <= Highest
    BY <1>2, <2>1 DEF Highest
  <2> QED BY <2>2, IdsAre DEF Present
<1> QED BY <1>1, <1>2

-----------------------------------------------------------------------------
(***************************************************************************)
(* The calls.                                                              *)
(***************************************************************************)

LEMMA IdleIs ==
    /\ Idle \in Calls /\ Shape(Idle) /\ Idle.pc = "idle" /\ Idle.op = "none"
    /\ Goto(Idle, "dead") \in Calls /\ Shape(Goto(Idle, "dead"))
    /\ Goto(Idle, "dead").pc = "dead" /\ Goto(Idle, "dead").op = "none"
    /\ \A w \in 0..MaxId :
         LET c == [Idle EXCEPT !.won = w] IN
         /\ c \in Calls /\ Shape(c) /\ c.pc = "idle" /\ c.op = "none"
         /\ c.won = w
<1>1. Idle \in Calls /\ Idle.pc = "idle" /\ Idle.op = "none"
      /\ Idle.plan = <<>>
  <2>1. <<>> \in Seq(Jobs) /\ 0 \in 0..MaxId /\ "idle" \in Pcs
    BY IdsAre DEF Pcs
  <2> QED BY <2>1, TaskIs DEF Idle, Call, Calls
<1>2. "dead" \in Pcs
  BY DEF Pcs
<1> USE DEF Shape, OfTaskLock, OfMark
<1> QED BY <1>1, <1>2 DEF Goto, Calls

LEMMA GotoIs ==
    ASSUME NEW c \in Calls, NEW pc \in Pcs
    PROVE  /\ Goto(c, pc) \in Calls /\ Goto(c, pc).pc = pc
           /\ Goto(c, pc).op = c.op /\ Goto(c, pc).id = c.id
           /\ Goto(c, pc).arg = c.arg /\ Goto(c, pc).plan = c.plan
           /\ Goto(c, pc).high = c.high /\ Goto(c, pc).todo = c.todo
           /\ Goto(c, pc).cur = c.cur /\ Goto(c, pc).won = c.won
BY DEF Goto, Calls

\* No job of the plan is a claim, unless the operation is.
NoClaims(c, plan) == \A k \in DOMAIN plan : plan[k].kind = "claim" => c.op = "claim"

\* Onward ends the operation or goes to the check of the next job.
LEMMA OnwardIs ==
    ASSUME NEW c \in Calls, NEW plan \in Seq(Jobs), NoClaims(c, plan),
           c.op \in {"delete", "block"} => c.id \in Ids,
           c.op = "block" => c.arg \in Ids \ {c.id}
    PROVE  /\ Onward(c, plan) \in Calls /\ Shape(Onward(c, plan))
           /\ Onward(c, plan).pc \in {"idle", "check"}
           /\ Onward(c, plan).op \in {"none", c.op}
           /\ Onward(c, plan).won = c.won
<1>1. CASE plan = <<>>
  BY <1>1, IdleIs DEF Onward, Calls
<1>2. CASE plan # <<>>
  <2> DEFINE d == [c EXCEPT !.pc = "check", !.plan = plan, !.cur = NewTask,
                            !.seen = {}, !.open = {}]
  <2>1. /\ d \in Calls /\ d.pc = "check" /\ d.plan = plan /\ d.op = c.op
        /\ d.id = c.id /\ d.arg = c.arg /\ d.won = c.won
    BY TaskIs DEF Calls, Pcs
  <2>2. Onward(c, plan) = d
    BY <1>2 DEF Onward
  <2> HIDE DEF d
  <2>3. Shape(d)
    BY <1>2, <2>1 DEF Shape, NoClaims, OfTaskLock, OfMark
  <2> QED BY <2>1, <2>2, <2>3
<1> QED BY <1>1, <1>2

LEMMA LookedIs ==
    ASSUME NEW c \in Calls, Shape(c), c.pc = "look"
    PROVE  LET d == Looked(c) IN
           /\ d \in Calls /\ Shape(d)
           /\ c.op = "claim" => /\ d.pc \in {"look", "judge"}
                                /\ d.op = "claim" /\ d.plan = c.plan
           /\ c.op # "claim" => /\ d.pc \in {"look", "listLock", "idle", "check"}
                                /\ d.op \in {"none", c.op}
<1>1. CASE c.todo # {}
  BY <1>1 DEF Looked
<1>2. CASE c.todo = {} /\ c.op = "claim"
  <2>1. Looked(c) = Goto(c, "judge")
    BY <1>2 DEF Looked
  <2>2. Goto(c, "judge") \in Calls /\ Shape(Goto(c, "judge"))
    <3>1. "judge" \in Pcs
      BY DEF Pcs, OfTaskLock
    <3> QED BY <1>2, <3>1, GotoIs DEF OfTaskLock, OfMark, Shape
  <2> QED BY <1>2, <2>1, <2>2, GotoIs DEF Pcs, OfTaskLock
<1>3. CASE c.todo = {} /\ c.op = "hide"
  <2>1. Goto(c, "listLock") \in Calls /\ Shape(Goto(c, "listLock"))
        /\ Goto(c, "listLock").pc = "listLock" /\ Goto(c, "listLock").op = c.op
    <3>1. "listLock" \in Pcs
      BY DEF Pcs
    <3> QED BY <1>3, <3>1, GotoIs DEF OfTaskLock, OfMark, Shape
  <2> QED BY <1>3, <2>1, IdleIs DEF Looked
<1>4. CASE c.todo = {} /\ c.op \notin {"claim", "hide"}
  <2>1. Looked(c) = Onward(c, c.plan)
    BY <1>4 DEF Looked
  <2>2. NoClaims(c, c.plan)
    BY DEF Shape, NoClaims
  <2> QED BY <1>4, <2>1, <2>2, OnwardIs DEF Calls, Shape
<1> QED BY <1>1, <1>2, <1>3, <1>4

LEMMA ToolSetIs ==
    ASSUME NEW p \in Procs, NEW want, NEW t \in Tasks,
           DOMAIN ToolSet(p, want, t) # {}
    PROVE  ToolSet(p, want, t) \in Patches
<1> DEFINE st == IF want \in Statuses THEN want ELSE t.status
           ow == CASE want \in Agents -> want
                   [] want = "in_progress" /\ t.owner = Nobody -> AgentOf[p]
                   [] OTHER -> t.owner
           new == [status |-> st, owner |-> ow]
           D == {g \in DOMAIN new : new[g] # t[g]}
           s == [f \in D |-> new[f]]
<1>1. st \in Statuses /\ ow \in Owners
  BY DEF Tasks, Owners, Agents
<1>2. ToolSet(p, want, t) = s
  BY DEF ToolSet
<1> HIDE DEF st, ow
<1>3. DOMAIN new = {"status", "owner"} /\ new["status"] = st /\ new["owner"] = ow
  OBVIOUS
<1>4. D = {"owner"} \/ D = {"status"} \/ D = {"owner", "status"}
  BY <1>2, <1>3
<1>5. DOMAIN s = D /\ \A f \in D : s[f] = new[f]
  OBVIOUS
<1> HIDE DEF new, D
<1>6. CASE D = {"owner"}
  BY <1>1, <1>2, <1>3, <1>6 DEF Patches
<1>7. CASE D = {"status"}
  BY <1>1, <1>2, <1>3, <1>7 DEF Patches
<1>8. CASE D = {"owner", "status"}
  BY <1>1, <1>2, <1>3, <1>8 DEF Patches
<1> QED BY <1>4, <1>6, <1>7, <1>8

\* The updates that a reading calls for are no claims, and a claim that reads
\* the others' tasks plans none.
LEMMA UpdatesAre ==
    ASSUME NEW p \in Procs, NEW c \in Calls, Shape(c), NEW i \in Ids,
           NEW t \in Tasks
    PROVE  /\ Updates(p, c, i, t) \in Seq(Jobs)
           /\ \A k \in DOMAIN Updates(p, c, i, t) :
                Updates(p, c, i, t)[k].kind # "claim"
           /\ c.op = "claim" => Updates(p, c, i, t) = <<>>
<1> DEFINE u == Updates(p, c, i, t)
<1>0. {"update", "unassign"} \subseteq Kinds \ {"claim"}
  BY DEF Kinds
<1>1. ASSUME NEW s \in Patches, NEW k \in Kinds \ {"claim"}, u = <<Job(i, s, k)>>
      PROVE  u \in Seq(Jobs) /\ \A n \in DOMAIN u : u[n].kind # "claim"
  <2>1. Job(i, s, k) \in Jobs /\ Job(i, s, k).kind # "claim"
    BY DEF Job, Jobs
  <2> HIDE DEF u
  <2> QED BY <1>1, <2>1
<1>2. CASE c.op = "update" /\ DOMAIN ToolSet(p, c.arg, t) # {}
  <2>1. u = <<Job(i, ToolSet(p, c.arg, t),
                  IF c.arg \in Agents THEN "assign" ELSE "update")>>
    BY <1>2 DEF Updates
  <2> QED BY <1>1, <1>2, <2>1, ToolSetIs DEF Kinds
<1>3. CASE c.op = "delete" /\ (c.id \in t.blocks \/ c.id \in t.blockedBy)
  <2> DEFINE s == [blocks |-> t.blocks \ {c.id},
                   blockedBy |-> t.blockedBy \ {c.id}]
  <2>1. s \in Patches
    BY DEF Patches, Tasks
  <2>2. u = <<Job(i, s, "update")>>
    BY <1>3 DEF Updates
  <2> HIDE DEF s, u
  <2> QED BY <1>0, <1>1, <1>3, <2>1, <2>2 DEF u
<1>4. CASE c.op = "unassign" /\ t.status # "completed" /\ t.owner = c.arg
  <2> DEFINE s == [owner |-> Nobody, status |-> "pending"]
  <2>1. s \in Patches
    BY DEF Patches, Owners, Statuses
  <2>2. u = <<Job(i, s, "unassign")>>
    BY <1>4 DEF Updates
  <2> HIDE DEF s, u
  <2> QED BY <1>0, <1>1, <1>4, <2>1, <2>2 DEF u
<1>5. CASE c.op = "block" /\ i = c.id /\ c.arg \notin t.blocks
  <2> DEFINE s == [blocks |-> t.blocks \cup {c.arg}]
  <2>1. s \in Patches
    BY <1>5 DEF Patches, Tasks, Shape
  <2>2. u = <<Job(i, s, "update")>>
    BY <1>5 DEF Updates, Shape
  <2> HIDE DEF s, u
  <2> QED BY <1>0, <1>1, <1>5, <2>1, <2>2 DEF u
<1>6. CASE c.op = "block" /\ i = c.arg /\ c.id \notin t.blockedBy
  <2> DEFINE s == [blockedBy |-> t.blockedBy \cup {c.id}]
  <2>1. s \in Patches
    BY <1>6 DEF Patches, Tasks, Shape
  <2>2. u = <<Job(i, s, "update")>>
    BY <1>6 DEF Updates, Shape
  <2> HIDE DEF s, u
  <2> QED BY <1>0, <1>1, <1>6, <2>1, <2>2 DEF u
<1>7. CASE u = <<>>
  BY <1>7
<1>8. c.op = "claim" => u = <<>>
  BY DEF Updates
<1>9. \/ u = <<>>
      \/ c.op = "update" /\ DOMAIN ToolSet(p, c.arg, t) # {}
      \/ c.op = "delete" /\ (c.id \in t.blocks \/ c.id \in t.blockedBy)
      \/ c.op = "unassign" /\ t.status # "completed" /\ t.owner = c.arg
      \/ c.op = "block" /\ i = c.id /\ c.arg \notin t.blocks
      \/ c.op = "block" /\ i = c.arg /\ c.id \notin t.blockedBy
  BY DEF Updates
<1> QED BY <1>2, <1>3, <1>4, <1>5, <1>6, <1>7, <1>8, <1>9

LEMMA PlannedIs ==
    ASSUME NEW c \in Calls, Shape(c), NEW i, NEW jobs \in Seq(Jobs),
           \A k \in DOMAIN jobs : jobs[k].kind # "claim"
    PROVE  /\ Planned(c, i, jobs) \in Seq(Jobs)
           /\ NoClaims(c, Planned(c, i, jobs))
           /\ c.op = "claim" /\ jobs = <<>> => Planned(c, i, jobs) = c.plan
<1>1. c.plan \in Seq(Jobs) /\ NoClaims(c, c.plan)
  BY DEF Calls, Shape, NoClaims
<1>2. ASSUME NEW a \in Seq(Jobs), NEW b \in Seq(Jobs), NoClaims(c, a), NoClaims(c, b)
      PROVE  a \o b \in Seq(Jobs) /\ NoClaims(c, a \o b)
  <2>1. a \o b \in Seq(Jobs)
    OBVIOUS
  <2>2. ASSUME NEW k \in DOMAIN (a \o b)
        PROVE  \/ k \in DOMAIN a /\ (a \o b)[k] = a[k]
               \/ k - Len(a) \in DOMAIN b /\ (a \o b)[k] = b[k - Len(a)]
    OBVIOUS
  <2> QED BY <1>2, <2>1, <2>2 DEF NoClaims
<1>3. NoClaims(c, jobs)
  BY DEF NoClaims
<1>4. c.plan \o <<>> = c.plan
  BY <1>1
<1> QED BY <1>1, <1>2, <1>3, <1>4 DEF Planned

-----------------------------------------------------------------------------
(***************************************************************************)
(* What a step of p has to keep.                                           *)
(***************************************************************************)

Mine(p) == /\ Shape(call[p]) /\ Locks(p) /\ Job0(p)
           /\ call[p].op = "delete" => deleted

Others(p) ==
    \A q \in Procs \ {p} :
        /\ call'[q] = call[q]
        /\ listLock' = q <=> listLock = q
        /\ \A i \in Ids : taskLock'[i] = q <=> taskLock[i] = q

BoundsStay == /\ edges' \subseteq Ids \X Ids
              /\ deleted' \in BOOLEAN /\ (deleted => deleted')
              /\ calls' \in 0..MaxCalls /\ crashes' \in 0..MaxCrashes

LocksTyped == /\ listLock \in Procs \cup {Nobody}
              /\ taskLock \in [Ids -> Procs \cup {Nobody}]

LEMMA TypeFrom ==
    ASSUME call' \in [Procs -> Calls], file' \in [Ids -> Files],
           mark' \in 0..MaxId, LocksTyped', born' \in [Ids -> Nat],
           BoundsStay
    PROVE  TypeOK'
<1>1. \A p \in Procs : call'[p] \in Calls
  OBVIOUS
<1> QED BY <1>1, CallFits DEF TypeOK, LocksTyped, BoundsStay

LEMMA DoingIs ==
    ASSUME NEW c \in Calls, c.plan # <<>>
    PROVE  /\ Head(c.plan) \in Jobs /\ Tail(c.plan) \in Seq(Jobs)
           /\ Head(c.plan) = c.plan[1] /\ 1 \in DOMAIN c.plan
           /\ \A k \in DOMAIN Tail(c.plan) :
                k + 1 \in DOMAIN c.plan /\ Tail(c.plan)[k] = c.plan[k + 1]
BY DEF Calls

\* A process that is not the one that steps keeps what is its own, if the
\* content of the file that it has under its lock stays.
LEMMA OthersKeep ==
    ASSUME IInv, NEW p \in Procs, Others(p), deleted => deleted',
           Used \subseteq Used', NEW q \in Procs \ {p},
           \A i \in Ids : InTask(q, i) =>
               \/ file'[i].task = file[i].task
               \/ deleted' /\ file'[i].task = NewTask
    PROVE  Mine(q)'
<1>1. /\ call'[q] = call[q] /\ Mine(q) /\ call[q] \in Calls
      /\ listLock' = q <=> listLock = q
      /\ \A i \in Ids : taskLock'[i] = q <=> taskLock[i] = q
  BY DEF IInv, Mine, Others
<1>2. Locks(q)'
  BY <1>1 DEF Mine, Locks, InList, InTask, At, Doing
<1>3. Busy(q) /\ call[q].pc # "lock" => /\ Doing(q).id \in Ids
                                         /\ InTask(q, Doing(q).id)
  <2> SUFFICES ASSUME Busy(q), call[q].pc # "lock"
               PROVE  Doing(q).id \in Ids /\ InTask(q, Doing(q).id)
    OBVIOUS
  <2>1. call[q].plan # <<>>
    BY <1>1 DEF Mine, Shape, Busy
  <2>2. Doing(q) \in Jobs
    BY <1>1, <2>1, DoingIs DEF Doing
  <2> QED BY <2>2 DEF Jobs, Busy, InTask
<1>4. Job0(q)'
  <2>1. Doing(q)' = Doing(q) /\ (Busy(q)' <=> Busy(q))
    BY <1>1 DEF Doing, Busy
  <2>2. (Busy(q) => Doing(q).id \in Used)'
    BY <1>1, <2>1 DEF Mine, Job0
  <2>3. ASSUME Busy(q), call[q].pc \notin {"lock", "vet"},
               Doing(q).kind = "claim"
        PROVE  MayClaim(q, file'[Doing(q).id].task)
    <3>1. MayClaim(q, file[Doing(q).id].task)
      BY <1>1, <2>3 DEF Mine, Job0
    <3>2. \/ file'[Doing(q).id].task = file[Doing(q).id].task
          \/ file'[Doing(q).id].task = NewTask
      BY <1>3, <2>3
    <3> QED BY <3>1, <3>2 DEF MayClaim, NewTask
  <2>4. ASSUME call[q].pc \in {"open", "write"}, ~deleted'
        PROVE  call[q].cur = file'[Doing(q).id].task
    <3>1. Busy(q)
      BY <2>4 DEF Busy, OfTaskLock
    <3> QED BY <1>1, <1>3, <2>4, <3>1 DEF Mine, Job0
  <2> QED BY <1>1, <2>1, <2>2, <2>3, <2>4 DEF Job0, MayClaim
<1> QED BY <1>1, <1>2, <1>4 DEF Mine

LEMMA Frame ==
    ASSUME IInv, TypeOK', call' \in [Procs -> Calls], NEW p \in Procs,
           Others(p), deleted => deleted', Used \subseteq Used', Files0',
           Undeleted', Mine(p)',
           \A q \in Procs \ {p}, i \in Ids : InTask(q, i) =>
               \/ file'[i].task = file[i].task
               \/ deleted' /\ file'[i].task = NewTask
    PROVE  IInv'
<1>1. \A q \in Procs : Mine(q)'
  BY OthersKeep
<1> QED BY <1>1 DEF IInv, Mine

\* A step that leaves the disk alone.
LEMMA Quiet ==
    ASSUME IInv, NEW p \in Procs, NEW c \in Calls,
           call' = [call EXCEPT ![p] = c], UNCHANGED <<file, mark, born>>,
           LocksTyped', BoundsStay, Others(p), Mine(p)',
           deleted' \/ Surveyed(p)', c.pc # "fill",
           Busy(p)' => \/ Busy(p) /\ Doing(p)'.id = Doing(p).id
                       \/ Readable(Doing(p)'.id) /\ Doing(p)'.id \in Ids
    PROVE  IInv'
<1>1. call' \in [Procs -> Calls] /\ call'[p] = c
  BY DEF IInv
<1>2. TypeOK'
  BY <1>1, TypeFrom DEF IInv, TypeOK
<1>3. Used' = Used /\ Files0' /\ (deleted => deleted')
  BY DEF IInv, Used, Files0, BoundsStay
<1>4. Undeleted'
  <2> SUFFICES ASSUME ~deleted'
               PROVE  Undeleted'
    BY DEF Undeleted
  <2>1. /\ \A i \in Ids : born[i] <= 1
        /\ Covered /\ \A q \in Procs : Surveyed(q) /\ Filling(q)
    BY <1>3 DEF IInv, Undeleted
  <2>2. Covered'
    BY <1>3, <2>1 DEF Covered
  <2>3. ASSUME NEW q \in Procs PROVE Surveyed(q)'
    BY <1>3, <2>1, <2>3 DEF Surveyed, Others
  <2>4. ASSUME NEW q \in Procs PROVE Filling(q)'
    <3> SUFFICES ASSUME At(q, "fill")'
                 PROVE  /\ call'[q].id \in Used
                        /\ file[call'[q].id].torn
                        /\ file[call'[q].id].task = NewTask
                        /\ \A b \in Procs : Busy(b)' => Doing(b)'.id # call'[q].id
      BY <1>3 DEF Filling
    <3>1. q # p /\ call'[q] = call[q] /\ At(q, "fill")
      BY <1>1 DEF At, Others
    <3>2. /\ call[q].id \in Used /\ file[call[q].id].torn
          /\ file[call[q].id].task = NewTask
          /\ \A b \in Procs : Busy(b) => Doing(b).id # call[q].id
      BY <2>1, <3>1 DEF Filling
    <3>3. \A b \in Procs \ {p} : /\ Busy(b)' <=> Busy(b)
                                 /\ Doing(b)' = Doing(b)
      BY DEF Others, Busy, Doing
    <3>4. Busy(p)' => Doing(p)'.id # call[q].id
      BY <3>2 DEF Readable
    <3> QED BY <3>1, <3>2, <3>3, <3>4
  <2> QED BY <2>1, <2>2, <2>3, <2>4 DEF Undeleted
<1> QED BY <1>1, <1>2, <1>3, <1>4, Frame

-----------------------------------------------------------------------------
(***************************************************************************)
(* Steps of a process that holds no lock and gets none.                    *)
(***************************************************************************)

Free(c) == /\ c.pc \notin OfListLock \cup OfTaskLock \cup {"dead"}
           /\ c.pc \in OfMark => c.op = "delete"
           /\ c.pc \in {"list", "look"} => c.op # "claim"

LEMMA FreeIs ==
    ASSUME NEW p \in Procs, Free(call[p])
    PROVE  ~InList(p) /\ ~At(p, "dead") /\ \A i \in Ids : ~InTask(p, i)
BY DEF Free, InList, InTask, At

LEMMA QuietFree ==
    ASSUME IInv, NEW p \in Procs, NEW c \in Calls, Free(call[p]), Free(c),
           Shape(c), call' = [call EXCEPT ![p] = c],
           UNCHANGED <<file, mark, born, locks>>, BoundsStay,
           c.op = "delete" => deleted',
           c.pc = "lock" => Readable(Head(c.plan).id)
    PROVE  IInv'
<1>1. call'[p] = c /\ Free(call'[p])
  BY DEF IInv
<1>2. Locks(p)'
  <2>1. listLock # p /\ \A i \in Ids : taskLock[i] # p
    BY FreeIs DEF IInv, Locks
  <2>2. (~InList(p) /\ \A i \in Ids : ~InTask(p, i))'
    BY <1>1 DEF Free, InList, InTask, At
  <2> QED BY <2>1, <2>2 DEF Locks, locks
<1>3. Busy(p)' => c.pc = "lock"
  BY <1>1 DEF Busy, Free
<1>4. c.pc = "lock" => Doing(p)'.id \in Ids /\ Readable(Doing(p)'.id)
  BY <1>1, DoingIs DEF Doing, Jobs, Shape
<1>5. Job0(p)'
  <2>1. c.pc = "lock" => Doing(p)'.id \in Used'
    BY <1>4 DEF IInv, Files0, Readable, Used
  <2> QED BY <1>1, <1>3, <2>1 DEF Job0, Free, OfTaskLock
<1>6. Mine(p)'
  BY <1>1, <1>2, <1>5 DEF Mine
<1>7. Surveyed(p)'
  BY <1>1 DEF Surveyed, Free, OfListLock, OfMark
<1>8. Others(p) /\ LocksTyped' /\ c.pc # "fill"
  BY DEF Others, IInv, TypeOK, LocksTyped, locks, Free, OfListLock
<1>9. Busy(p)' => Readable(Doing(p)'.id) /\ Doing(p)'.id \in Ids
  BY <1>3, <1>4
<1> QED BY <1>6, <1>7, <1>8, <1>9, Quiet

LEMMA GoodBegin ==
    ASSUME IInv, NEW p \in Procs, NEW op \in Operations, NEW c \in Calls,
           Begin(p, op, c), c.op = op, Shape(c), Free(c), c.pc # "lock"
    PROVE  IInv'
<1>1. /\ call[p].pc = "idle" /\ call' = [call EXCEPT ![p] = c]
      /\ UNCHANGED <<file, mark, born, locks, edges, crashes>>
  BY DEF Begin, At, disk
<1>2. Free(call[p])
  BY <1>1 DEF Free, OfListLock, OfTaskLock, OfMark
<1>3. BoundsStay
  BY BoundsAssumption DEF Begin, BoundsStay, IInv, TypeOK
<1>4. c.op = "delete" => deleted'
  BY DEF Begin
<1> QED BY <1>1, <1>2, <1>3, <1>4, QuietFree

LEMMA CallIs ==
    ASSUME NEW op \in Operations, NEW pc \in Pcs, NEW i \in 0..MaxId,
           NEW arg \in {Nobody} \cup Agents \cup Ids \cup Wants,
           NEW todo \in SUBSET Ids, NEW plan \in Seq(Jobs)
    PROVE  LET c == Call(op, pc, i, arg, todo, plan) IN
           /\ c \in Calls /\ c.op = op /\ c.pc = pc /\ c.id = i
           /\ c.arg = arg /\ c.plan = plan
<1>1. NewTask \in Tasks /\ 0 \in 0..MaxId
  BY TaskIs, IdsAre
<1> QED BY <1>1 DEF Call, Calls

LEMMA NewCallIs ==
    ASSUME NEW op \in Operations, NEW pc \in Pcs, NEW i \in 0..MaxId,
           NEW arg \in {Nobody} \cup Agents \cup Ids \cup Wants,
           NEW todo \in SUBSET Ids
    PROVE  LET c == Call(op, pc, i, arg, todo, <<>>) IN
           /\ c \in Calls /\ c.op = op /\ c.pc = pc /\ c.id = i
           /\ c.arg = arg /\ c.plan = <<>>
<1>1. NewTask \in Tasks /\ 0 \in 0..MaxId /\ <<>> \in Seq(Jobs)
  BY TaskIs, IdsAre
<1> QED BY <1>1 DEF Call, Calls

\* A call that deletes, or one that ended as such.
LEMMA DeleteCallIs ==
    ASSUME NEW i \in Ids
    PROVE  LET c == Call("delete", "mark", i, Nobody, {}, <<>>) IN
           /\ c \in Calls /\ c.op = "delete" /\ c.pc = "mark" /\ c.id = i
           /\ c.plan = <<>>
<1>1. NewTask \in Tasks /\ 0 \in 0..MaxId /\ i \in 0..MaxId /\ <<>> \in Seq(Jobs)
  BY TaskIs, IdsAre
<1>2. "delete" \in Operations /\ "mark" \in Pcs
  BY DEF Operations, Pcs, OfMark
<1> QED BY <1>1, <1>2 DEF Call, Calls

LEMMA GoodStart ==
    ASSUME IInv, NEW p \in Procs, Start(p)
    PROVE  IInv'
<1> USE DEF Free, Shape, OfListLock, OfTaskLock, OfMark
<1>0. /\ <<>> \in Seq(Jobs) /\ 0 \in 0..MaxId /\ Ids \subseteq 0..MaxId
      /\ "listLock" \in Pcs /\ "mark" \in Pcs /\ "look" \in Pcs
      /\ "check" \in Pcs /\ "list" \in Pcs
      /\ "create" \in Operations /\ "delete" \in Operations
      /\ "block" \in Operations /\ "update" \in Operations
      /\ "claim" \in Operations /\ "unassign" \in Operations
      /\ "hide" \in Operations /\ "reset" \in Operations
      /\ {} \in SUBSET Ids
      /\ Nobody \in {Nobody} \cup Agents \cup Ids \cup Wants
  BY IdsAre DEF Pcs, Operations
<1>1. ASSUME NEW op \in {"create", "reset"},
             Begin(p, op, Call(op, "listLock", 0, Nobody, {}, <<>>))
      PROVE  IInv'
  <2> DEFINE c == Call(op, "listLock", 0, Nobody, {}, <<>>)
  <2>1. c \in Calls /\ c.op = op /\ c.pc = "listLock" /\ c.plan = <<>>
    BY <1>0, NewCallIs
  <2> HIDE DEF c
  <2>2. Shape(c) /\ Free(c)
    BY <2>1
  <2>3. Begin(p, op, c)
    BY <1>1 DEF c
  <2> QED BY ONLY IInv, <1>0, <2>1, <2>2, <2>3, GoodBegin
<1>2. CASE BeginDelete(p)
  <2>1. PICK i \in Ids :
          Begin(p, "delete", Call("delete", "mark", i, Nobody, {}, <<>>))
    BY <1>2 DEF BeginDelete
  <2> DEFINE c == Call("delete", "mark", i, Nobody, {}, <<>>)
  <2>2. c \in Calls /\ c.op = "delete" /\ c.pc = "mark" /\ c.plan = <<>>
        /\ c.id = i
    BY DeleteCallIs
  <2>3. Begin(p, "delete", c)
    BY <2>1
  <2> HIDE DEF c
  <2>4. Shape(c) /\ Free(c)
    BY <2>2
  <2> QED BY <1>0, <2>2, <2>3, <2>4, GoodBegin
<1>3. CASE BeginBlock(p)
  <2>1. PICK from \in Ids, to \in Ids :
          /\ from # to
          /\ Begin(p, "block", Call("block", "look", from, to, {from, to},
                                    <<>>))
    BY <1>3 DEF BeginBlock, Present
  <2> DEFINE c == Call("block", "look", from, to, {from, to}, <<>>)
  <2>2. c \in Calls /\ c.op = "block" /\ c.pc = "look" /\ c.plan = <<>>
        /\ c.id = from /\ c.arg = to
    BY <1>0, NewCallIs
  <2>3. Begin(p, "block", c)
    BY <2>1
  <2> HIDE DEF c
  <2>4. Shape(c) /\ Free(c)
    BY <2>1, <2>2
  <2> QED BY <1>0, <2>2, <2>3, <2>4, GoodBegin
<1>4. CASE BeginUpdate(p)
  <2>1. PICK i \in Ids, want \in Wants :
          Begin(p, "update", Call("update", "look", i, want, {i}, <<>>))
    BY <1>4 DEF BeginUpdate
  <2> DEFINE c == Call("update", "look", i, want, {i}, <<>>)
  <2>2. c \in Calls /\ c.op = "update" /\ c.pc = "look" /\ c.plan = <<>>
    BY <1>0, NewCallIs
  <2>3. Begin(p, "update", c)
    BY <2>1
  <2> HIDE DEF c
  <2>4. Shape(c) /\ Free(c)
    BY <2>2
  <2> QED BY <1>0, <2>2, <2>3, <2>4, GoodBegin
<1>5. CASE BeginClaim(p)
  <2>0. PICK i \in Ids : \E after \in Followers(i) :
          Begin(p, "claim",
                Call("claim", "check", i, Nobody, {},
                     <<Job(i, [owner |-> AgentOf[p]], "claim")>> \o after))
    BY <1>5 DEF BeginClaim
  <2>1. PICK after \in Followers(i) :
          Begin(p, "claim",
                Call("claim", "check", i, Nobody, {},
                     <<Job(i, [owner |-> AgentOf[p]], "claim")>> \o after))
    BY <2>0
  <2> DEFINE j == Job(i, [owner |-> AgentOf[p]], "claim")
             plan == <<j>> \o after
             c == Call("claim", "check", i, Nobody, {}, plan)
  <2>2. j \in Jobs
    BY DEF Job, Jobs, Patches, Owners, Agents, Kinds
  <2>3. after \in Seq(Jobs)
    <3>1. /\ Job(i, [owner |-> Nobody], "release") \in Jobs
          /\ Job(i, [status |-> "in_progress"], "update") \in Jobs
      BY DEF Job, Jobs, Patches, Owners, Statuses, Kinds
    <3>2. <<>> \in Seq(Jobs)
      OBVIOUS
    <3>3. \A a \in Jobs : <<a>> \in Seq(Jobs)
      OBVIOUS
    <3> QED BY ONLY <3>1, <3>2, <3>3, after \in Followers(i) DEF Followers
  <2> HIDE DEF j
  <2>4. plan \in Seq(Jobs) /\ plan # <<>>
    BY <2>2, <2>3
  <2> HIDE DEF plan
  <2>5. c \in Calls /\ c.op = "claim" /\ c.pc = "check"
        /\ c.plan = plan
    BY SMTT(30), <1>0, <2>4, CallIs
  <2>6. Begin(p, "claim", c)
    BY <2>1 DEF j, plan
  <2> HIDE DEF c
  <2>7. Shape(c) /\ Free(c)
    BY <2>4, <2>5
  <2> QED BY <1>0, <2>5, <2>6, <2>7, GoodBegin
<1>6. CASE BeginUnassign(p)
  <2>1. PICK a \in Agents :
          Begin(p, "unassign", Call("unassign", "list", 0, a, {}, <<>>))
    BY <1>6 DEF BeginUnassign
  <2> DEFINE c == Call("unassign", "list", 0, a, {}, <<>>)
  <2>2. c \in Calls /\ c.op = "unassign" /\ c.pc = "list" /\ c.plan = <<>>
    BY <1>0, NewCallIs
  <2>3. Begin(p, "unassign", c)
    BY <2>1
  <2> HIDE DEF c
  <2>4. Shape(c) /\ Free(c)
    BY <2>2
  <2> QED BY <1>0, <2>2, <2>3, <2>4, GoodBegin
<1>7. CASE BeginHide(p)
  <2> DEFINE c == Call("hide", "list", 0, Nobody, {}, <<>>)
  <2>1. c \in Calls /\ c.op = "hide" /\ c.pc = "list" /\ c.plan = <<>>
    BY <1>0, NewCallIs
  <2>2. Begin(p, "hide", c)
    BY <1>7 DEF BeginHide
  <2> HIDE DEF c
  <2>3. Shape(c) /\ Free(c)
    BY <2>1
  <2> QED BY <1>0, <2>1, <2>2, <2>3, GoodBegin
<1> QED
  BY <1>1, <1>2, <1>3, <1>4, <1>5, <1>6, <1>7
     DEF Start, BeginCreate, BeginReset

\* A step that only changes the call of p.
LEMMA Stays ==
    ASSUME IInv, edges' \subseteq Ids \X Ids,
           UNCHANGED <<deleted, calls, crashes>>
    PROVE  BoundsStay
BY DEF BoundsStay, IInv, TypeOK

LEMMA CallOf ==
    ASSUME IInv, NEW p \in Procs
    PROVE  call[p] \in Calls /\ Shape(call[p]) /\ Mine(p)
BY DEF IInv, Mine

\* What a listing that is over records.
LEMMA RecordedIs ==
    ASSUME IInv, NEW c \in Calls, Shape(c), NEW d
    PROVE  Recorded(c, d) \subseteq Ids \X Ids
BY DEF Recorded, Shape, IInv, TypeOK

\* Listing and reading without a lock: whatever is found, nothing is held.
LEMMA GoodHookForbids ==
    ASSUME IInv, NEW p \in Procs, HookForbids(p)
    PROVE  IInv'
<1>1. /\ call[p].pc = "check" /\ call' = [call EXCEPT ![p] = Idle]
      /\ UNCHANGED <<file, mark, born, locks, edges, deleted, calls, crashes>>
  BY DEF HookForbids, At, disk, history, bounds
<1>2. Free(call[p]) /\ Free(Idle)
  BY <1>1, IdleIs DEF Free, OfListLock, OfTaskLock, OfMark
<1>3. BoundsStay
  BY <1>1, Stays DEF IInv, TypeOK
<1> QED BY <1>1, <1>2, <1>3, IdleIs, QuietFree

LEMMA GoodCheck ==
    ASSUME IInv, NEW p \in Procs, Check(p)
    PROVE  IInv'
<1> DEFINE c == call[p]
           d == CASE Readable(Doing(p).id) -> Goto(c, "lock")
                  [] ~Readable(Doing(p).id) /\ Doing(p).kind = "claim" -> Idle
                  [] OTHER -> Onward(c, Tail(c.plan))
<1>1. /\ c.pc = "check" /\ call' = [call EXCEPT ![p] = d]
      /\ edges' = Recorded(c, d)
      /\ UNCHANGED <<file, mark, born, locks, deleted, calls, crashes>>
  BY DEF Check, At, disk, bounds
<1>2. c \in Calls /\ Shape(c) /\ c.plan # <<>>
  BY <1>1, CallOf DEF Shape
<1>3. Free(c)
  BY <1>1 DEF Free, OfListLock, OfTaskLock, OfMark
<1>4. /\ d \in Calls /\ Shape(d) /\ Free(d) /\ d.op \in {"none", c.op}
      /\ d.pc = "lock" => Readable(Head(d.plan).id)
  <2>1. CASE Readable(Doing(p).id)
    <3> DEFINE e == Goto(c, "lock")
    <3>1. "lock" \in Pcs
      BY DEF Pcs
    <3>2. e \in Calls /\ e.pc = "lock" /\ e.plan = c.plan /\ e.op = c.op
          /\ e.id = c.id /\ e.arg = c.arg
      BY <1>2, <3>1, GotoIs
    <3>3. d = e
      BY <2>1
    <3> HIDE DEF e, d
    <3>4. Shape(e) /\ Free(e)
      BY <1>2, <3>2 DEF Shape, Free, OfListLock, OfTaskLock, OfMark
    <3> QED BY <2>1, <3>2, <3>3, <3>4 DEF Doing
  <2>2. CASE ~Readable(Doing(p).id) /\ Doing(p).kind = "claim"
    <3>1. d = Idle
      BY <2>2
    <3> HIDE DEF d
    <3> QED BY <3>1, IdleIs DEF Free, OfListLock, OfTaskLock, OfMark
  <2>3. CASE ~Readable(Doing(p).id) /\ Doing(p).kind # "claim"
    <3> DEFINE rest == Tail(c.plan)
    <3>1. d = Onward(c, rest)
      BY <2>3
    <3>2. rest \in Seq(Jobs) /\ NoClaims(c, rest)
      BY <1>2, DoingIs DEF Shape, NoClaims
    <3> HIDE DEF rest, d
    <3>3. /\ d \in Calls /\ Shape(d) /\ d.pc \in {"idle", "check"}
          /\ d.op \in {"none", c.op}
      BY <1>2, <3>1, <3>2, OnwardIs DEF Shape
    <3> HIDE DEF d
    <3> QED BY <3>3 DEF Free, OfListLock, OfTaskLock, OfMark
  <2> QED BY <2>1, <2>2, <2>3
<1> HIDE DEF d
<1>5. BoundsStay
  BY <1>1, <1>2, Stays, RecordedIs
<1>6. d.op = "delete" => deleted'
  BY <1>1, <1>4, CallOf DEF Mine
<1> QED BY <1>1, <1>3, <1>4, <1>5, <1>6, QuietFree

\* The readings of a listing: a claim keeps its lock meanwhile.
LEMMA GoodReading ==
    ASSUME IInv, NEW p \in Procs, NEW e \in Calls, Shape(e), e.pc = "look",
           call[p].pc \in {"list", "look"}, e.op = call[p].op,
           e.op = "claim" => e.plan = call[p].plan,
           call' = [call EXCEPT ![p] = Looked(e)],
           UNCHANGED <<file, mark, born, locks, deleted>>, BoundsStay
    PROVE  IInv'
<1> DEFINE c == call[p]
           d == Looked(e)
<1>1. /\ d \in Calls /\ Shape(d)
      /\ e.op = "claim" => /\ d.pc \in {"look", "judge"}
                           /\ d.op = "claim" /\ d.plan = e.plan
      /\ e.op # "claim" => /\ d.pc \in {"look", "listLock", "idle", "check"}
                           /\ d.op \in {"none", e.op}
  BY LookedIs
<1>2. call' = [call EXCEPT ![p] = d] /\ call'[p] = d /\ Mine(p)
  BY CallOf DEF IInv
<1> HIDE DEF d
<1>3. CASE c.op # "claim"
  <2>1. Free(c) /\ Free(d)
    BY <1>1, <1>3 DEF Free, OfListLock, OfTaskLock, OfMark
  <2>2. d.op = "delete" => deleted'
    BY <1>1, <1>2 DEF Mine
  <2> QED BY <1>1, <1>2, <1>3, <2>1, <2>2, QuietFree
<1>4. CASE c.op = "claim"
  <2>1. /\ d.pc \in {"look", "judge"} /\ d.op = "claim" /\ d.plan = c.plan
        /\ Doing(p)' = Doing(p)
    BY <1>1, <1>2, <1>4 DEF Doing
  <2>2. /\ InList(p)' <=> InList(p)
        /\ \A i \in Ids : InTask(p, i)' <=> InTask(p, i)
    BY <1>2, <1>4, <2>1 DEF InList, InTask, OfListLock, OfTaskLock, OfMark
  <2>3. Locks(p)'
    BY <1>2, <2>1, <2>2 DEF Mine, Locks, At, locks
  <2>4. Busy(p) /\ Busy(p)' /\ c.pc \notin {"lock", "vet"}
    BY <1>2, <1>4, <2>1 DEF Busy, OfTaskLock
  <2>5. Job0(p)'
    BY <1>2, <2>1, <2>4 DEF Mine, Job0, MayClaim, Used
  <2>6. Mine(p)'
    BY <1>1, <1>2, <2>1, <2>3, <2>5 DEF Mine
  <2>7. Surveyed(p)'
    BY <1>2, <2>1 DEF Surveyed, OfMark
  <2>8. Others(p) /\ LocksTyped' /\ d.pc # "fill"
    BY <1>2, <2>1 DEF Others, IInv, TypeOK, LocksTyped, locks
  <2> QED BY <1>1, <1>2, <2>1, <2>4, <2>6, <2>7, <2>8, Quiet
<1> QED BY <1>3, <1>4

LEMMA GoodList ==
    ASSUME IInv, NEW p \in Procs, List(p)
    PROVE  IInv'
<1> DEFINE e == [call[p] EXCEPT !.pc = "look", !.todo = Present]
<1>1. /\ call[p].pc = "list" /\ call' = [call EXCEPT ![p] = Looked(e)]
      /\ UNCHANGED <<file, mark, born, locks, edges, deleted, calls, crashes>>
  BY DEF List, At, disk, history, bounds
<1>2. call[p] \in Calls /\ Shape(call[p])
  BY CallOf
<1>3. /\ e \in Calls /\ e.pc = "look" /\ e.op = call[p].op
      /\ e.plan = call[p].plan /\ e.id = call[p].id /\ e.arg = call[p].arg
  BY <1>2 DEF Calls, Present, Pcs
<1> HIDE DEF e
<1>4. Shape(e)
  BY <1>1, <1>2, <1>3 DEF Shape, OfTaskLock, OfMark
<1>5. BoundsStay
  BY <1>1, Stays DEF IInv, TypeOK
<1> QED BY <1>1, <1>3, <1>4, <1>5, GoodReading

LEMMA GoodLook ==
    ASSUME IInv, NEW p \in Procs, Look(p)
    PROVE  IInv'
<1> DEFINE c == call[p]
<1>1. PICK i \in c.todo :
        LET t == file[i].task
            read == [c EXCEPT !.todo = @ \ {i},
                              !.seen = @ \cup {i},
                              !.open = IF t.status = "completed" THEN @
                                       ELSE @ \cup {i},
                              !.plan = Planned(c, i, Updates(p, c, i, t))]
            skipped == [c EXCEPT !.todo = @ \ {i}]
        IN \/ /\ Readable(i)
              /\ call' = [call EXCEPT ![p] = Looked(read)]
              /\ edges' = Recorded(c, Looked(read))
           \/ /\ ~Readable(i)
              /\ call' = [call EXCEPT ![p] =
                             IF c.op \in {"block", "update"} THEN Idle
                             ELSE Looked(skipped)]
              /\ UNCHANGED edges
  BY DEF Look
<1>2. /\ c.pc = "look"
      /\ UNCHANGED <<file, mark, born, locks, deleted, calls, crashes>>
  BY DEF Look, At, disk, bounds
<1>3. c \in Calls /\ Shape(c) /\ i \in Ids /\ file[i] \in Files
  BY CallOf DEF Calls, IInv, TypeOK
<1> DEFINE t == file[i].task
           plan == Planned(c, i, Updates(p, c, i, t))
           read == [c EXCEPT !.todo = @ \ {i},
                             !.seen = @ \cup {i},
                             !.open = IF t.status = "completed" THEN @
                                      ELSE @ \cup {i},
                             !.plan = plan]
           skipped == [c EXCEPT !.todo = @ \ {i}]
<1>4. CASE Readable(i) /\ call' = [call EXCEPT ![p] = Looked(read)]
           /\ edges' = Recorded(c, Looked(read))
  <2>1. t \in Tasks
    BY <1>3 DEF Files
  <2>2. /\ plan \in Seq(Jobs) /\ NoClaims(c, plan)
        /\ c.op = "claim" => plan = c.plan
    <3>1. /\ Updates(p, c, i, t) \in Seq(Jobs)
          /\ \A k \in DOMAIN Updates(p, c, i, t) :
               Updates(p, c, i, t)[k].kind # "claim"
          /\ c.op = "claim" => Updates(p, c, i, t) = <<>>
      BY <1>3, <2>1, UpdatesAre
    <3> DEFINE u == Updates(p, c, i, t)
    <3> HIDE DEF u
    <3>2. /\ Planned(c, i, u) \in Seq(Jobs) /\ NoClaims(c, Planned(c, i, u))
          /\ c.op = "claim" /\ u = <<>> => Planned(c, i, u) = c.plan
      BY <1>3, <3>1, PlannedIs DEF u
    <3> QED BY <3>1, <3>2 DEF u
  <2> HIDE DEF plan, t
  <2>3. /\ read \in Calls /\ read.pc = "look" /\ read.op = c.op
        /\ read.plan = plan /\ read.id = c.id /\ read.arg = c.arg
    BY <1>2, <1>3, <2>2 DEF Calls
  <2>4. call' = [call EXCEPT ![p] = Looked(read)]
        /\ edges' = Recorded(c, Looked(read))
    BY <1>4
  <2> HIDE DEF read
  <2>5. Shape(read)
    BY <1>2, <1>3, <2>2, <2>3 DEF Shape, NoClaims, OfTaskLock, OfMark
  <2>6. BoundsStay
    BY <1>2, <1>3, <2>4, Stays, RecordedIs
  <2> QED BY <1>2, <2>2, <2>3, <2>4, <2>5, <2>6, GoodReading
<1>5. CASE call' = [call EXCEPT ![p] = Looked(skipped)] /\ edges' = edges
  <2>1. /\ skipped \in Calls /\ skipped.pc = "look" /\ skipped.op = c.op
        /\ skipped.plan = c.plan /\ skipped.id = c.id /\ skipped.arg = c.arg
    BY <1>2, <1>3 DEF Calls
  <2>2. call' = [call EXCEPT ![p] = Looked(skipped)]
    BY <1>5
  <2> HIDE DEF skipped
  <2>3. Shape(skipped)
    BY <1>2, <1>3, <2>1 DEF Shape, OfTaskLock, OfMark
  <2>4. BoundsStay
    BY <1>2, <1>5, Stays DEF IInv, TypeOK
  <2> QED BY <1>2, <2>1, <2>2, <2>3, <2>4, GoodReading
<1>6. CASE c.op \in {"block", "update"} /\ call' = [call EXCEPT ![p] = Idle]
           /\ edges' = edges
  <2>1. Free(c) /\ Free(Idle)
    BY <1>2, <1>6, IdleIs DEF Free, OfListLock, OfTaskLock, OfMark
  <2>2. BoundsStay
    BY <1>2, <1>6, Stays DEF IInv, TypeOK
  <2> QED BY <1>2, <1>6, <2>1, <2>2, IdleIs, QuietFree
<1> QED BY <1>1, <1>4, <1>5, <1>6

LEMMA GoodLockFails ==
    ASSUME IInv, NEW p \in Procs, LockFails(p)
    PROVE  IInv'
<1> DEFINE d == [Idle EXCEPT !.won = call[p].won]
<1>1. /\ call[p].pc = "lock" /\ call' = [call EXCEPT ![p] = d]
      /\ UNCHANGED <<file, mark, born, locks, edges, deleted, calls, crashes>>
  BY DEF LockFails, At, disk, history, bounds
<1>2. d \in Calls /\ Shape(d) /\ d.pc = "idle" /\ d.op = "none"
  BY CallOf, IdleIs DEF Calls
<1> HIDE DEF d
<1>3. Free(call[p]) /\ Free(d)
  BY <1>1, <1>2 DEF Free, OfListLock, OfTaskLock, OfMark
<1>4. BoundsStay
  BY <1>1, Stays DEF IInv, TypeOK
<1> QED BY <1>1, <1>2, <1>3, <1>4, QuietFree

LEMMA GoodListLockFails ==
    ASSUME IInv, NEW p \in Procs, ListLockFails(p)
    PROVE  IInv'
<1>1. /\ call[p].pc = "listLock" /\ call' = [call EXCEPT ![p] = Idle]
      /\ UNCHANGED <<file, mark, born, locks, edges, deleted, calls, crashes>>
  BY DEF ListLockFails, At, disk, history, bounds
<1>2. Free(call[p]) /\ Free(Idle)
  BY <1>1, IdleIs DEF Free, OfListLock, OfTaskLock, OfMark
<1>3. BoundsStay
  BY <1>1, Stays DEF IInv, TypeOK
<1> QED BY <1>1, <1>2, <1>3, IdleIs, QuietFree

-----------------------------------------------------------------------------
(***************************************************************************)
(* Steps of a process that holds the lock of a task, or gets it.           *)
(***************************************************************************)

LEMMA GoodCrash ==
    ASSUME IInv, NEW p \in Procs, Crash(p)
    PROVE  IInv'
<1> DEFINE d == Goto(Idle, "dead")
<1>1. d \in Calls /\ Shape(d) /\ d.pc = "dead" /\ d.op = "none"
  BY IdleIs
<1>2. /\ call' = [call EXCEPT ![p] = d]
      /\ UNCHANGED <<file, mark, born, locks, edges, deleted, calls>>
      /\ crashes < MaxCrashes /\ crashes' = crashes + 1
  BY DEF Crash, disk, history
<1> HIDE DEF d
<1>3. call'[p] = d
  BY <1>2 DEF IInv
<1>4. Mine(p)'
  BY <1>1, <1>3
  DEF Mine, Locks, InList, InTask, At, Job0, Busy, OfListLock, OfTaskLock,
      OfMark
<1>5. Surveyed(p)'
  BY <1>1, <1>3 DEF Surveyed, OfMark
<1>6. Others(p) /\ LocksTyped'
  BY <1>2 DEF Others, IInv, TypeOK, LocksTyped, locks
<1>7. BoundsStay
  BY <1>2, BoundsAssumption DEF BoundsStay, IInv, TypeOK
<1>8. ~Busy(p)'
  BY <1>1, <1>3 DEF Busy, OfTaskLock
<1> QED BY <1>1, <1>2, <1>4, <1>5, <1>6, <1>7, <1>8, Quiet

LEMMA GoodExpire ==
    ASSUME IInv, NEW p \in Procs, Expire(p)
    PROVE  IInv'
<1>1. /\ call' = [call EXCEPT ![p] = Idle]
      /\ UNCHANGED <<file, mark, born, edges, deleted, calls, crashes>>
      /\ listLock' = IF listLock = p THEN Nobody ELSE listLock
      /\ taskLock' = [i \in Ids |-> IF taskLock[i] = p THEN Nobody
                                    ELSE taskLock[i]]
  BY DEF Expire, disk, history, bounds
<1>2. call'[p] = Idle
  BY <1>1 DEF IInv
<1>3. Nobody \notin Procs
  BY NobodyAssumption
<1>4. Locks(p)'
  <2>1. listLock' # p /\ \A i \in Ids : taskLock'[i] # p
    BY <1>1, <1>3
  <2>2. (~InList(p) /\ \A i \in Ids : ~InTask(p, i))'
    BY <1>2, IdleIs DEF InList, InTask, OfListLock, OfTaskLock, OfMark
  <2> QED BY <2>1, <2>2 DEF Locks
<1>5. Mine(p)'
  BY <1>2, <1>4, IdleIs DEF Mine, Job0, Busy, OfTaskLock
<1>6. Surveyed(p)'
  BY <1>2, IdleIs DEF Surveyed, OfMark
<1>7. Others(p) /\ LocksTyped'
  BY <1>1, <1>3 DEF Others, IInv, TypeOK, LocksTyped
<1>8. BoundsStay
  BY <1>1, Stays DEF IInv, TypeOK
<1>9. ~Busy(p)'
  BY <1>2, IdleIs DEF Busy, OfTaskLock
<1> QED BY <1>1, <1>5, <1>6, <1>7, <1>8, <1>9, IdleIs, Quiet

\* p is between the acquiring and the releasing of the lock of its job.
Holding(p) == \/ call[p].pc \in OfTaskLock
              \/ call[p].pc \in {"list", "look"} /\ call[p].op = "claim"

LEMMA HoldingIs ==
    ASSUME IInv, NEW p \in Procs, Holding(p)
    PROVE  LET i == Doing(p).id IN
           /\ i \in Ids /\ i \in Used /\ taskLock[i] = p /\ InTask(p, i)
           /\ \A j \in Ids : taskLock[j] = p => j = i
           /\ listLock # p /\ ~InList(p) /\ Busy(p)
           /\ call[p].plan # <<>> /\ Doing(p) \in Jobs
           /\ Tail(call[p].plan) \in Seq(Jobs)
           /\ NoClaims(call[p], Tail(call[p].plan))
<1>1. call[p] \in Calls /\ Shape(call[p]) /\ Mine(p)
  BY CallOf
<1>2. call[p].plan # <<>> /\ ~At(p, "dead") /\ ~InList(p) /\ Busy(p)
  BY <1>1 DEF Holding, Shape, At, InList, Busy, OfTaskLock, OfListLock, OfMark
<1>3. /\ Doing(p) \in Jobs /\ Tail(call[p].plan) \in Seq(Jobs)
      /\ NoClaims(call[p], Tail(call[p].plan))
  BY <1>1, <1>2, DoingIs DEF Doing, Shape, NoClaims
<1>4. Doing(p).id \in Ids /\ Doing(p).id \in Used
  BY <1>1, <1>2, <1>3 DEF Jobs, Mine, Job0
<1>5. \A i \in Ids : InTask(p, i) <=> Doing(p).id = i
  BY DEF InTask, Holding
<1> QED BY <1>1, <1>2, <1>3, <1>4, <1>5 DEF Mine, Locks

\* The release of the lock of a job, whatever comes after it.
LEMMA Released ==
    ASSUME IInv, NEW p \in Procs, NEW d \in Calls, Holding(p), Shape(d),
           d.pc \in {"idle", "check"}, call' = [call EXCEPT ![p] = d],
           Unlock(Doing(p).id), UNCHANGED listLock, d.op = "delete" => deleted'
    PROVE  Mine(p)' /\ Others(p) /\ Surveyed(p)' /\ LocksTyped' /\ ~Busy(p)'
<1>1. call'[p] = d
  BY DEF IInv
<1>2. /\ Doing(p).id \in Ids /\ taskLock[Doing(p).id] = p
      /\ \A j \in Ids : taskLock[j] = p => j = Doing(p).id
      /\ listLock # p
  BY HoldingIs
<1>3. taskLock' = [taskLock EXCEPT ![Doing(p).id] = Nobody]
  BY DEF Unlock
<1>4. Nobody \notin Procs
  BY NobodyAssumption
<1>5. Locks(p)'
  <2>1. listLock' # p /\ \A i \in Ids : taskLock'[i] # p
    BY <1>2, <1>3, <1>4 DEF IInv, TypeOK
  <2>2. (~InList(p) /\ \A i \in Ids : ~InTask(p, i))'
    BY <1>1 DEF InList, InTask, OfListLock, OfTaskLock, OfMark
  <2> QED BY <2>1, <2>2 DEF Locks
<1>6. Mine(p)'
  BY <1>1, <1>5 DEF Mine, Job0, Busy, OfTaskLock
<1>7. Surveyed(p)'
  BY <1>1 DEF Surveyed, OfMark
<1>8. Others(p) /\ LocksTyped'
  BY <1>2, <1>3, <1>4 DEF Others, IInv, TypeOK, LocksTyped
<1>9. ~Busy(p)'
  BY <1>1 DEF Busy, OfTaskLock
<1> QED BY <1>6, <1>7, <1>8, <1>9

\* A step under the lock of a job that keeps it.
LEMMA Kept ==
    ASSUME IInv, NEW p \in Procs, NEW d \in Calls, Holding(p), Shape(d),
           d.plan = call[p].plan, d.op = call[p].op,
           d.pc \in OfTaskLock \/ (d.pc \in {"list", "look"} /\ d.op = "claim"),
           call' = [call EXCEPT ![p] = d], UNCHANGED locks
    PROVE  /\ call'[p] = d /\ Doing(p)' = Doing(p) /\ Locks(p)' /\ Others(p)
           /\ LocksTyped' /\ Surveyed(p)'
<1>1. call'[p] = d
  BY DEF IInv
<1>2. Doing(p)' = Doing(p)
  BY <1>1 DEF Doing
<1>3. Locks(p)'
  <2>1. \A i \in Ids : InTask(p, i)' <=> InTask(p, i)
    BY <1>1, <1>2 DEF InTask, Holding
  <2>2. ~InList(p)'
    BY <1>1 DEF InList, OfListLock, OfTaskLock, OfMark
  <2>3. Mine(p) /\ listLock # p /\ ~At(p, "dead")
    BY CallOf, HoldingIs DEF Holding, At, OfTaskLock
  <2> QED BY <2>1, <2>2, <2>3 DEF Mine, Locks, locks
<1>4. Others(p) /\ LocksTyped'
  BY DEF Others, IInv, TypeOK, LocksTyped, locks
<1>5. Surveyed(p)'
  BY <1>1 DEF Surveyed, OfMark, OfTaskLock
<1> QED BY <1>1, <1>2, <1>3, <1>4, <1>5

LEMMA GaveUp ==
    ASSUME IInv, NEW p \in Procs, Holding(p), GiveUp(p),
           UNCHANGED <<file, mark, born, listLock, edges, deleted, calls, crashes>>
    PROVE  IInv'
<1>1. call' = [call EXCEPT ![p] = Idle] /\ Unlock(Doing(p).id)
  BY DEF GiveUp
<1>2. Mine(p)' /\ Others(p) /\ Surveyed(p)' /\ LocksTyped' /\ ~Busy(p)'
  BY <1>1, IdleIs, Released
<1>3. BoundsStay
  BY Stays DEF IInv, TypeOK
<1> QED BY <1>1, <1>2, <1>3, IdleIs, Quiet

LEMMA DoneIs ==
    ASSUME IInv, NEW p \in Procs, Holding(p), Done(p)
    PROVE  /\ Unlock(Doing(p).id) /\ edges' \subseteq Ids \X Ids
           /\ \E d \in Calls : /\ Shape(d) /\ d.pc \in {"idle", "check"}
                               /\ d.op = "delete" => deleted
                               /\ call' = [call EXCEPT ![p] = d]
<1> DEFINE c == call[p]
           won == IF Doing(p).kind = "claim" THEN Doing(p).id ELSE c.won
           b == [c EXCEPT !.won = won]
           rest == Tail(c.plan)
           d == Onward(b, rest)
<1>1. /\ Unlock(Doing(p).id) /\ call' = [call EXCEPT ![p] = d]
      /\ edges' = Recorded(c, d)
  BY DEF Done
<1>2. /\ Doing(p).id \in Ids /\ rest \in Seq(Jobs) /\ NoClaims(c, rest)
      /\ c \in Calls /\ Shape(c) /\ Mine(p)
  BY HoldingIs, CallOf
<1>3. won \in 0..MaxId
  BY <1>2, IdsAre DEF Calls
<1> HIDE DEF won, rest
<1>4. b \in Calls /\ b.op = c.op /\ b.id = c.id /\ b.arg = c.arg
  BY <1>2, <1>3 DEF Calls
<1> HIDE DEF b
<1>5. NoClaims(b, rest)
  BY <1>2, <1>4 DEF NoClaims
<1>6. /\ d \in Calls /\ Shape(d) /\ d.pc \in {"idle", "check"}
      /\ d.op \in {"none", c.op}
  BY <1>2, <1>4, <1>5, OnwardIs DEF Shape
<1> HIDE DEF d
<1> QED BY <1>1, <1>2, <1>6, RecordedIs DEF Mine

LEMMA GoodLock ==
    ASSUME IInv, NEW p \in Procs, Lock(p)
    PROVE  IInv'
<1> DEFINE c == call[p]
           i == Doing(p).id
           pc == IF Doing(p).kind = "claim" THEN "vet" ELSE "read"
           d == Goto(c, pc)
<1>1. /\ c.pc = "lock" /\ taskLock[i] = Nobody
      /\ taskLock' = [taskLock EXCEPT ![i] = p]
      /\ call' = [call EXCEPT ![p] = d]
      /\ UNCHANGED <<file, mark, born, listLock, edges, deleted, calls, crashes>>
  BY DEF Lock, At, LockIsFree, disk, history, bounds
<1>2. c \in Calls /\ Shape(c) /\ Mine(p)
  BY CallOf
<1>3. c.plan # <<>> /\ Doing(p) \in Jobs /\ i \in Ids
      /\ (Doing(p).kind = "claim" => c.op = "claim")
  BY <1>1, <1>2, DoingIs DEF Shape, Doing, Jobs
<1>4. pc \in OfTaskLock /\ pc \in Pcs
  BY DEF OfTaskLock, Pcs
<1>5. pc = "vet" => c.op = "claim"
  BY <1>3
<1>6. pc \in {"vet", "read"} /\ (Doing(p).kind = "claim" => pc = "vet")
  OBVIOUS
<1> HIDE DEF pc
<1>7. /\ d \in Calls /\ d.pc = pc /\ d.plan = c.plan /\ d.op = c.op
      /\ d.id = c.id /\ d.arg = c.arg
  BY <1>2, <1>4, GotoIs
<1> HIDE DEF d
<1>8. Shape(d)
  BY <1>2, <1>3, <1>5, <1>6, <1>7 DEF Shape, OfTaskLock, OfMark
<1>9. call'[p] = d /\ Doing(p)' = Doing(p)
  BY <1>1, <1>7 DEF IInv, Doing
<1>10. Locks(p)'
  <2>1. listLock # p /\ \A j \in Ids : taskLock[j] # p
    <3>1. ~InList(p) /\ ~At(p, "dead") /\ \A j \in Ids : ~InTask(p, j)
      BY <1>1 DEF InList, InTask, At, OfListLock, OfTaskLock, OfMark
    <3> QED BY <1>2, <3>1 DEF Mine, Locks
  <2>2. ~InList(p)' /\ \A j \in Ids : InTask(p, j)' <=> j = i
    BY <1>4, <1>6, <1>7, <1>9
       DEF InList, InTask, OfListLock, OfTaskLock, OfMark
  <2>3. \A j \in Ids : taskLock'[j] = p <=> j = i
    BY <1>1, <1>3, <2>1 DEF IInv, TypeOK
  <2> QED BY <1>1, <2>1, <2>2, <2>3 DEF Locks
<1>11. Busy(p) /\ i \in Used /\ Used' = Used
  BY <1>1, <1>2 DEF Busy, Mine, Job0, Used
<1>12. Mine(p)'
  BY <1>1, <1>2, <1>6, <1>7, <1>8, <1>9, <1>10, <1>11 DEF Mine, Job0
<1>13. Surveyed(p)'
  BY <1>6, <1>7, <1>9 DEF Surveyed, OfMark
<1>14. Others(p) /\ LocksTyped'
  BY <1>1, <1>3, NobodyAssumption DEF Others, IInv, TypeOK, LocksTyped
<1>15. BoundsStay
  BY <1>1, Stays DEF IInv, TypeOK
<1>16. d.pc # "fill"
  BY <1>6, <1>7
<1> QED
  BY <1>1, <1>7, <1>9, <1>11, <1>12, <1>13, <1>14, <1>15, <1>16, Quiet

\* What is said under the lock of a job carries over to what is read there.
LEMMA KeptQuietly ==
    ASSUME IInv, NEW p \in Procs, NEW d \in Calls, Holding(p), Shape(d),
           d.plan = call[p].plan, d.op = call[p].op,
           d.pc \in OfTaskLock \/ (d.pc \in {"list", "look"} /\ d.op = "claim"),
           call' = [call EXCEPT ![p] = d],
           UNCHANGED <<file, mark, born, locks, edges, deleted, calls, crashes>>,
           Doing(p).kind = "claim" => MayClaim(p, file[Doing(p).id].task),
           d.pc \in {"open", "write"} => d.cur = file[Doing(p).id].task
    PROVE  IInv'
<1>1. /\ call'[p] = d /\ Doing(p)' = Doing(p) /\ Locks(p)' /\ Others(p)
      /\ LocksTyped' /\ Surveyed(p)'
  BY Kept
<1>2. Busy(p) /\ Doing(p).id \in Used /\ Mine(p)
  BY HoldingIs, CallOf
<1>3. Job0(p)'
  BY <1>1, <1>2 DEF Job0, Used, MayClaim
<1>4. Mine(p)'
  BY <1>1, <1>2, <1>3 DEF Mine
<1>5. BoundsStay
  BY Stays DEF IInv, TypeOK
<1>6. d.pc # "fill"
  BY DEF OfTaskLock
<1> QED BY <1>1, <1>2, <1>4, <1>5, <1>6, Quiet

LEMMA GoodVet ==
    ASSUME IInv, NEW p \in Procs, Vet(p)
    PROVE  IInv'
<1> DEFINE c == call[p]
           i == Doing(p).id
           d == [c EXCEPT !.pc = "list", !.cur = file[i].task]
<1>1. /\ c.pc = "vet"
      /\ UNCHANGED <<file, mark, born, listLock, edges, deleted, calls, crashes>>
  BY DEF Vet, At, disk, history, bounds
<1>2. Holding(p) /\ c \in Calls /\ Shape(c) /\ c.op = "claim"
  BY <1>1, CallOf DEF Holding, Shape, OfTaskLock
<1>3. i \in Ids /\ c.plan # <<>>
  BY <1>2, HoldingIs
<1>4. CASE /\ MayClaim(p, file[i].task) /\ UNCHANGED taskLock
           /\ call' = [call EXCEPT ![p] = d]
  <2>1. file[i].task \in Tasks /\ "list" \in Pcs
    BY <1>3 DEF IInv, TypeOK, Files, Pcs
  <2>2. /\ d \in Calls /\ d.pc = "list" /\ d.plan = c.plan /\ d.op = c.op
        /\ d.id = c.id /\ d.arg = c.arg
    BY <1>2, <2>1 DEF Calls
  <2>3. call' = [call EXCEPT ![p] = d]
    BY <1>4
  <2> HIDE DEF d
  <2>4. Shape(d)
    BY <1>2, <1>3, <2>2 DEF Shape, OfTaskLock, OfMark
  <2> QED
    BY <1>1, <1>2, <1>4, <2>2, <2>3, <2>4, KeptQuietly DEF locks
<1>5. CASE GiveUp(p)
  BY <1>1, <1>2, <1>5, GaveUp
<1> QED BY <1>4, <1>5 DEF Vet

LEMMA GoodJudge ==
    ASSUME IInv, NEW p \in Procs, Judge(p)
    PROVE  IInv'
<1> DEFINE c == call[p]
           d == [c EXCEPT !.pc = "read", !.seen = {}, !.open = {}]
<1>1. /\ c.pc = "judge"
      /\ UNCHANGED <<file, mark, born, listLock, edges, deleted, calls, crashes>>
  BY DEF Judge, At, disk, history, bounds
<1>2. Holding(p) /\ c \in Calls /\ Shape(c) /\ Mine(p) /\ c.op = "claim"
  BY <1>1, CallOf DEF Holding, Shape, OfTaskLock
<1>3. Busy(p) /\ c.plan # <<>>
  BY <1>2, HoldingIs
<1>4. CASE UNCHANGED taskLock /\ call' = [call EXCEPT ![p] = d]
  <2>1. "read" \in Pcs
    BY DEF Pcs, OfTaskLock
  <2>2. /\ d \in Calls /\ d.pc = "read" /\ d.plan = c.plan /\ d.op = c.op
        /\ d.id = c.id /\ d.arg = c.arg
    BY <1>2, <2>1 DEF Calls
  <2>3. call' = [call EXCEPT ![p] = d]
    BY <1>4
  <2> HIDE DEF d
  <2>4. Shape(d)
    BY <1>2, <1>3, <2>2 DEF Shape, OfTaskLock, OfMark
  <2>5. Doing(p).kind = "claim" => MayClaim(p, file[Doing(p).id].task)
    BY <1>1, <1>2, <1>3 DEF Mine, Job0
  <2>6. d.pc \in OfTaskLock /\ d.pc \notin {"open", "write"}
    BY <2>2 DEF OfTaskLock
  <2> QED
    BY <1>1, <1>2, <1>4, <2>2, <2>3, <2>4, <2>5, <2>6, KeptQuietly DEF locks
<1>5. CASE GiveUp(p)
  BY <1>1, <1>2, <1>5, GaveUp
<1> QED BY <1>4, <1>5 DEF Judge

LEMMA GoodRead ==
    ASSUME IInv, NEW p \in Procs, Read(p)
    PROVE  IInv'
<1> DEFINE c == call[p]
           i == Doing(p).id
           d == [c EXCEPT !.pc = "open", !.cur = file[i].task]
<1>1. /\ c.pc = "read"
      /\ UNCHANGED <<file, mark, born, listLock, deleted, calls, crashes>>
  BY DEF Read, At, disk, bounds
<1>2. Holding(p) /\ c \in Calls /\ Shape(c) /\ Mine(p)
  BY <1>1, CallOf DEF Holding, OfTaskLock
<1>3. Busy(p) /\ c.plan # <<>> /\ i \in Ids
  BY <1>2, HoldingIs
<1>4. CASE UNCHANGED <<taskLock, edges>> /\ call' = [call EXCEPT ![p] = d]
  <2>1. file[i].task \in Tasks /\ "open" \in Pcs
    BY <1>3 DEF IInv, TypeOK, Files, Pcs, OfTaskLock
  <2>2. /\ d \in Calls /\ d.pc = "open" /\ d.plan = c.plan /\ d.op = c.op
        /\ d.id = c.id /\ d.arg = c.arg /\ d.cur = file[i].task
    BY <1>2, <2>1 DEF Calls
  <2>3. call' = [call EXCEPT ![p] = d]
    BY <1>4
  <2> HIDE DEF d
  <2>4. Shape(d)
    BY <1>2, <1>3, <2>2 DEF Shape, OfTaskLock, OfMark
  <2>5. Doing(p).kind = "claim" => MayClaim(p, file[Doing(p).id].task)
    BY <1>1, <1>2, <1>3 DEF Mine, Job0
  <2>6. d.pc \in OfTaskLock
    BY <2>2 DEF OfTaskLock
  <2> QED
    BY <1>1, <1>2, <1>4, <2>2, <2>3, <2>4, <2>5, <2>6, KeptQuietly DEF locks
<1>5. CASE Done(p)
  <2>1. Unlock(i) /\ edges' \subseteq Ids \X Ids
    BY <1>2, <1>5, DoneIs
  <2>2. PICK b \in Calls : /\ Shape(b) /\ b.pc \in {"idle", "check"}
                           /\ b.op = "delete" => deleted
                           /\ call' = [call EXCEPT ![p] = b]
    BY <1>2, <1>5, DoneIs
  <2>3. Mine(p)' /\ Others(p) /\ Surveyed(p)' /\ LocksTyped' /\ ~Busy(p)'
    BY <1>1, <1>2, <2>1, <2>2, Released
  <2>4. BoundsStay
    BY <1>1, <2>1, Stays
  <2> QED BY <1>1, <2>2, <2>3, <2>4, Quiet
<1> QED BY <1>4, <1>5 DEF Read

-----------------------------------------------------------------------------
(***************************************************************************)
(* Steps of a process that holds the lock of the list, or gets it, and     *)
(* changes no file.                                                        *)
(***************************************************************************)

InListPcs == OfListLock \cup OfMark

LEMMA ListHolder ==
    ASSUME IInv, NEW p \in Procs, InList(p)
    PROVE  /\ call[p] \in Calls /\ Shape(call[p]) /\ Mine(p)
           /\ listLock = p /\ ~At(p, "dead") /\ ~Busy(p)
           /\ \A i \in Ids : taskLock[i] # p /\ ~InTask(p, i)
           /\ \A q \in Procs \ {p} : ~InList(q)
<1>1. call[p] \in Calls /\ Shape(call[p]) /\ Mine(p)
  BY CallOf
<1>2. /\ ~At(p, "dead") /\ ~Busy(p) /\ \A i \in Ids : ~InTask(p, i)
  BY DEF InList, InTask, At, Busy, OfListLock, OfTaskLock, OfMark
<1>3. \A q \in Procs : InList(q) => listLock = q
  BY DEF IInv, Locks
<1> QED BY <1>1, <1>2, <1>3 DEF Mine, Locks

\* A step that keeps the lock of the list.
LEMMA KeepsList ==
    ASSUME IInv, NEW p \in Procs, InList(p), NEW d \in Calls, Shape(d),
           d.pc \in InListPcs, d.op # "delete",
           call' = [call EXCEPT ![p] = d], UNCHANGED locks
    PROVE  /\ call'[p] = d /\ Mine(p)' /\ Others(p) /\ LocksTyped'
           /\ ~Busy(p)' /\ InList(p)'
<1>1. call'[p] = d
  BY DEF IInv
<1>2. InList(p)' /\ ~Busy(p)' /\ \A i \in Ids : ~InTask(p, i)'
  BY <1>1 DEF InListPcs, InList, InTask, Busy, OfListLock, OfTaskLock, OfMark
<1>3. Locks(p)'
  BY <1>2, ListHolder DEF Locks, locks
<1>4. Others(p) /\ LocksTyped'
  BY DEF Others, IInv, TypeOK, LocksTyped, locks
<1>5. Mine(p)'
  BY <1>1, <1>2, <1>3 DEF Mine, Job0, Busy, OfTaskLock
<1> QED BY <1>1, <1>2, <1>4, <1>5

LEMMA QuietInList ==
    ASSUME IInv, NEW p \in Procs, InList(p), NEW d \in Calls, Shape(d),
           d.pc \in InListPcs \ {"fill"}, d.op # "delete",
           call' = [call EXCEPT ![p] = d],
           UNCHANGED <<file, mark, born, locks, edges, deleted, calls, crashes>>,
           deleted \/ Surveyed(p)'
    PROVE  IInv'
<1>1. /\ Mine(p)' /\ Others(p) /\ LocksTyped' /\ ~Busy(p)'
  BY KeepsList
<1>2. BoundsStay
  BY Stays DEF IInv, TypeOK
<1> QED BY <1>1, <1>2, Quiet

LEMMA GoodListLock ==
    ASSUME IInv, NEW p \in Procs, ListLock(p)
    PROVE  IInv'
<1> DEFINE c == call[p]
           pc == IF c.op = "create" THEN "scan" ELSE "survey"
           d == Goto(c, pc)
<1>1. /\ c.pc = "listLock" /\ listLock = Nobody /\ listLock' = p
      /\ call' = [call EXCEPT ![p] = d]
      /\ UNCHANGED <<file, mark, born, taskLock, edges, deleted, calls, crashes>>
  BY DEF ListLock, At, disk, history, bounds
<1>2. c \in Calls /\ Shape(c) /\ Mine(p)
  BY CallOf
<1>3. pc \in Pcs /\ pc \in OfListLock /\ pc \in {"scan", "survey"}
      /\ (pc = "scan" => c.op = "create")
      /\ (pc = "survey" => c.op \in {"reset", "hide"})
  BY <1>1, <1>2 DEF Pcs, OfListLock, Shape
<1> HIDE DEF pc
<1>4. /\ d \in Calls /\ d.pc = pc /\ d.plan = c.plan /\ d.op = c.op
      /\ d.id = c.id /\ d.arg = c.arg
  BY <1>2, <1>3, GotoIs
<1> HIDE DEF d
<1>5. Shape(d) /\ d.op # "delete"
  BY <1>2, <1>3, <1>4 DEF Shape, OfTaskLock, OfMark
<1>6. call'[p] = d
  BY <1>1 DEF IInv
<1>7. Locks(p)'
  <2>1. \A j \in Ids : taskLock[j] # p
    <3>1. ~At(p, "dead") /\ \A j \in Ids : ~InTask(p, j)
      BY <1>1 DEF InTask, At, OfTaskLock
    <3> QED BY <1>2, <3>1 DEF Mine, Locks
  <2>2. InList(p)' /\ \A j \in Ids : ~InTask(p, j)'
    BY <1>3, <1>4, <1>6 DEF InList, InTask, OfListLock, OfTaskLock
  <2> QED BY <1>1, <2>1, <2>2 DEF Locks
<1>8. ~Busy(p)'
  BY <1>3, <1>4, <1>6 DEF Busy, OfTaskLock
<1>9. Mine(p)'
  BY <1>5, <1>6, <1>7, <1>8 DEF Mine, Job0, Busy, OfTaskLock
<1>10. Surveyed(p)'
  BY <1>3, <1>4, <1>6 DEF Surveyed, OfMark
<1>11. Others(p) /\ LocksTyped'
  BY <1>1, NobodyAssumption DEF Others, IInv, TypeOK, LocksTyped
<1>12. BoundsStay
  BY <1>1, Stays DEF IInv, TypeOK
<1>13. d.pc # "fill"
  BY <1>3, <1>4
<1> QED BY <1>1, <1>4, <1>8, <1>9, <1>10, <1>11, <1>12, <1>13, Quiet

LEMMA LargerIs ==
    ASSUME NEW a \in 0..MaxId, NEW b \in 0..MaxId
    PROVE  /\ Larger(a, b) \in 0..MaxId /\ a <= Larger(a, b) /\ b <= Larger(a, b)
BY IdsAre DEF Larger

\* What is known of the disk while deleteTask has not been called.
LEMMA Known ==
    ASSUME IInv, ~deleted
    PROVE  /\ Covered /\ \A i \in Ids : born[i] <= 1
           /\ \A p \in Procs : Surveyed(p) /\ Filling(p)
BY DEF IInv, Undeleted

LEMMA Ranges ==
    ASSUME IInv
    PROVE  /\ mark \in Nat /\ mark \in 0..MaxId /\ Highest \in 0..MaxId
           /\ Highest \in Nat /\ Used \subseteq Ids /\ Used \subseteq Nat
           /\ \A i \in Ids : file[i].there => i <= Highest
           /\ Highest > 0 => Highest \in Ids /\ file[Highest].there
           /\ \A p \in Procs : call[p].high \in Nat /\ call[p].high \in 0..MaxId
<1>1. mark \in 0..MaxId /\ file \in [Ids -> Files]
  BY DEF IInv, TypeOK
<1>2. \A p \in Procs : call[p].high \in 0..MaxId
  BY CallOf DEF Calls
<1>3. Used \subseteq Ids
  BY DEF Used
<1> QED BY <1>1, <1>2, <1>3, HighestIs, IdsAre

\* Every id given out is below the highest file or below the mark.
LEMMA CoveredByBoth ==
    ASSUME IInv, ~deleted, NEW i \in Used
    PROVE  i <= mark \/ i <= Highest
BY Known, Ranges, IdsAre DEF Covered

LEMMA GoodScan ==
    ASSUME IInv, NEW p \in Procs, Scan(p)
    PROVE  IInv'
<1> DEFINE c == call[p]
<1>1. /\ c.pc \in {"scan", "scanMark", "scanFiles"}
      /\ UNCHANGED <<file, mark, born, locks, edges, deleted, calls, crashes>>
  BY DEF Scan, At, disk, history, bounds
<1>2. InList(p) /\ c \in Calls /\ Shape(c) /\ c.op = "create"
  BY <1>1, CallOf DEF InList, OfListLock, Shape
<1>3. ASSUME NEW h \in {Highest, mark}, NEW pc \in {"scanMark", "scanFiles", "create"},
             LET d == [c EXCEPT !.high = Larger(c.high, h), !.pc = pc] IN
             call' = [call EXCEPT ![p] = d],
             ~deleted => \A i \in Used :
                 /\ pc = "scanMark" => i <= mark \/ i <= Larger(c.high, h)
                 /\ pc = "scanFiles" => mark <= Larger(c.high, h)
                 /\ pc = "create" => i <= Larger(c.high, h),
             pc = "scanFiles" => mark <= Larger(c.high, h)
      PROVE  IInv'
  <2> DEFINE n == Larger(c.high, h)
             d == [c EXCEPT !.high = n, !.pc = pc]
  <2>1. n \in 0..MaxId
    BY Ranges, LargerIs
  <2>2. call' = [call EXCEPT ![p] = d] /\ (pc = "scanFiles" => mark <= n)
        /\ (~deleted => \A i \in Used : /\ pc = "scanMark" => i <= mark \/ i <= n
                                        /\ pc = "create" => i <= n)
    BY <1>3
  <2> HIDE DEF n
  <2>3. pc \in Pcs
    BY DEF Pcs, OfListLock
  <2>4. /\ d \in Calls /\ d.pc = pc /\ d.high = n /\ d.plan = c.plan
        /\ d.op = c.op /\ d.id = c.id /\ d.arg = c.arg
    BY <1>2, <2>1, <2>3 DEF Calls
  <2> HIDE DEF d
  <2>5. Shape(d)
    BY <1>2, <2>4 DEF Shape, OfTaskLock, OfMark
  <2>6. call'[p] = d
    BY <2>2 DEF IInv
  <2>7. deleted \/ Surveyed(p)'
    BY <1>1, <2>2, <2>4, <2>6 DEF Surveyed, OfMark, Used
  <2>8. d.pc \in InListPcs \ {"fill"}
    BY <2>4 DEF InListPcs, OfListLock
  <2> QED BY <1>1, <1>2, <2>2, <2>4, <2>5, <2>7, <2>8, QuietInList
<1>4. /\ Highest \in 0..MaxId /\ mark \in 0..MaxId /\ c.high \in 0..MaxId
      /\ Used \subseteq Nat
  BY Ranges, IdsAre
<1>5. /\ c.high <= Larger(c.high, mark) /\ mark <= Larger(c.high, mark)
      /\ c.high <= Larger(c.high, Highest) /\ Highest <= Larger(c.high, Highest)
      /\ Larger(c.high, mark) \in 0..MaxId /\ Larger(c.high, Highest) \in 0..MaxId
  BY <1>4, LargerIs
<1>6. CASE c.pc = "scan" /\ call' = [call EXCEPT ![p] =
                [c EXCEPT !.high = Larger(c.high, Highest), !.pc = "scanMark"]]
  <2>1. ~deleted => \A i \in Used : i <= mark \/ i <= Larger(c.high, Highest)
    BY <1>4, <1>5, CoveredByBoth
  <2> QED BY <1>3, <1>6, <2>1
<1>7. CASE c.pc = "scan" /\ call' = [call EXCEPT ![p] =
                [c EXCEPT !.high = Larger(c.high, mark), !.pc = "scanFiles"]]
  BY <1>3, <1>5, <1>7
<1>8. CASE c.pc = "scanFiles" /\ call' = [call EXCEPT ![p] =
                [c EXCEPT !.high = Larger(c.high, Highest), !.pc = "create"]]
  <2>1. ~deleted => mark <= c.high
    BY <1>8, Known DEF Surveyed
  <2>2. ~deleted => \A i \in Used : i <= Larger(c.high, Highest)
    BY <1>4, <1>5, <2>1, CoveredByBoth
  <2> QED BY <1>3, <1>8, <2>2
<1>9. CASE c.pc = "scanMark" /\ call' = [call EXCEPT ![p] =
                [c EXCEPT !.high = Larger(c.high, mark), !.pc = "create"]]
  <2>1. ~deleted => \A i \in Used : i <= mark \/ i <= c.high
    BY <1>9, Known DEF Surveyed
  <2>2. ~deleted => \A i \in Used : i <= Larger(c.high, mark)
    BY <1>4, <1>5, <2>1
  <2> QED BY <1>3, <1>9, <2>2
<1>10. \/ /\ c.pc \in {"scan", "scanFiles"}
          /\ call' = [call EXCEPT ![p] =
                [c EXCEPT !.high = Larger(c.high, Highest),
                          !.pc = IF c.pc = "scan" THEN "scanMark" ELSE "create"]]
       \/ /\ c.pc \in {"scan", "scanMark"}
          /\ call' = [call EXCEPT ![p] =
                [c EXCEPT !.high = Larger(c.high, mark),
                          !.pc = IF c.pc = "scan" THEN "scanFiles" ELSE "create"]]
  BY DEF Scan
<1>11. \/ c.pc = "scan" \/ c.pc = "scanMark" \/ c.pc = "scanFiles"
  BY <1>1
<1> HIDE DEF c
<1> QED BY <1>6, <1>7, <1>8, <1>9, <1>10, <1>11

LEMMA GoodSurvey ==
    ASSUME IInv, NEW p \in Procs, Survey(p)
    PROVE  IInv'
<1> DEFINE c == call[p]
           pc == IF Highest > 0 THEN "mark" ELSE "dir"
           d == [c EXCEPT !.high = Highest, !.pc = pc]
<1>1. /\ c.pc = "survey" /\ call' = [call EXCEPT ![p] = d]
      /\ UNCHANGED <<file, mark, born, locks, edges, deleted, calls, crashes>>
  BY DEF Survey, At, disk, history, bounds
<1>2. InList(p) /\ c \in Calls /\ Shape(c) /\ c.op \in {"reset", "hide"}
  BY <1>1, CallOf DEF InList, OfListLock, Shape
<1>3. pc \in Pcs /\ pc \in {"mark", "dir"} /\ (pc = "mark" <=> Highest > 0)
  BY DEF Pcs, OfListLock, OfMark
<1> HIDE DEF pc
<1>4. /\ d \in Calls /\ d.pc = pc /\ d.high = Highest /\ d.plan = c.plan
      /\ d.op = c.op /\ d.id = c.id /\ d.arg = c.arg
  BY <1>2, <1>3, Ranges DEF Calls
<1> HIDE DEF d
<1>5. Shape(d) /\ d.op # "delete"
  BY <1>2, <1>3, <1>4 DEF Shape, OfTaskLock, OfMark
<1>6. call'[p] = d
  BY <1>1 DEF IInv
<1>7. ASSUME ~deleted PROVE Surveyed(p)'
  <2>1. \A i \in Used : i <= mark \/ i <= Highest
    BY <1>7, CoveredByBoth
  <2>2. pc = "mark" => Highest \in Ids /\ file[Highest].there
    BY <1>3, Ranges
  <2>3. pc = "dir" => \A i \in Used : i <= mark
    BY <1>3, <2>1, Ranges, IdsAre DEF Used
  <2> QED BY <1>1, <1>3, <1>4, <1>6, <2>1, <2>2, <2>3
     DEF Surveyed, Used, OfMark
<1>8. d.pc \in InListPcs \ {"fill"}
  BY <1>3, <1>4 DEF InListPcs, OfListLock, OfMark
<1> QED BY <1>1, <1>2, <1>4, <1>5, <1>7, <1>8, QuietInList

LEMMA GoodReadMark ==
    ASSUME IInv, NEW p \in Procs, ReadMark(p)
    PROVE  IInv'
<1> DEFINE c == call[p]
           pc == IF Wanted(c) > mark THEN "markOpen" ELSE AfterMark(c)
           d == Goto(c, pc)
<1>1. /\ c.pc = "mark" /\ call' = [call EXCEPT ![p] = d]
      /\ UNCHANGED <<file, mark, born, locks, edges, deleted, calls, crashes>>
  BY DEF ReadMark, At, disk, history, bounds
<1>2. c \in Calls /\ Shape(c) /\ Mine(p)
  BY CallOf
<1>3. c.op \in {"delete", "reset", "hide"}
  BY <1>1, <1>2 DEF Shape, OfMark
<1>4. /\ pc \in Pcs /\ pc \in {"markOpen", "unlink", "dir"}
      /\ pc = "dir" => c.op # "delete" /\ ~(c.high > mark)
      /\ pc = "unlink" => c.op = "delete"
      /\ pc = "markOpen" /\ c.op # "delete" => c.high > mark
  BY DEF Pcs, OfListLock, OfMark, AfterMark, Wanted
<1> HIDE DEF pc
<1>5. /\ d \in Calls /\ d.pc = pc /\ d.plan = c.plan /\ d.high = c.high
      /\ d.op = c.op /\ d.id = c.id /\ d.arg = c.arg
  BY <1>2, <1>4, GotoIs
<1> HIDE DEF d
<1>6. Shape(d)
  BY <1>2, <1>3, <1>4, <1>5 DEF Shape, OfTaskLock, OfMark
<1>7. call'[p] = d
  BY <1>1 DEF IInv
<1>8. CASE c.op = "delete"
  <2>1. Free(c) /\ Free(d)
    BY <1>1, <1>4, <1>5, <1>8 DEF Free, OfListLock, OfTaskLock
  <2>2. BoundsStay
    BY <1>1, Stays DEF IInv, TypeOK
  <2> QED BY <1>1, <1>2, <1>4, <1>5, <1>6, <1>8, <2>1, <2>2, QuietFree
     DEF Mine
<1>9. CASE c.op # "delete"
  <2>1. InList(p)
    BY <1>1, <1>9 DEF InList, OfMark
  <2>2. ASSUME ~deleted PROVE Surveyed(p)'
    <3>1. /\ c.high \in Ids /\ file[c.high].there
          /\ \A i \in Used : i <= mark \/ i <= c.high
      BY <1>1, <1>9, <2>2, Known DEF Surveyed, OfMark
    <3>2. pc = "dir" => \A i \in Used : i <= mark
      BY <1>4, <3>1, Ranges
    <3>3. pc = "markOpen" => \A i \in Used : i <= c.high
      BY <1>4, <1>9, <3>1, Ranges
    <3> QED BY <1>1, <1>4, <1>5, <1>7, <3>1, <3>2, <3>3
       DEF Surveyed, Used, OfMark
  <2>3. d.pc \in InListPcs \ {"fill"}
    BY <1>4, <1>5, <1>9 DEF InListPcs, OfListLock, OfMark
  <2> QED BY <1>1, <1>5, <1>6, <1>9, <2>1, <2>2, <2>3, QuietInList
<1> QED BY <1>8, <1>9

LEMMA GoodDir ==
    ASSUME IInv, NEW p \in Procs, Dir(p)
    PROVE  IInv'
<1> DEFINE c == call[p]
           d == [c EXCEPT !.pc = "clear", !.todo = Present]
<1>1. /\ c.pc = "dir" /\ call' = [call EXCEPT ![p] = d]
      /\ UNCHANGED <<file, mark, born, locks, edges, deleted, calls, crashes>>
  BY DEF Dir, At, disk, history, bounds
<1>2. InList(p) /\ c \in Calls /\ Shape(c) /\ c.op \in {"reset", "hide"}
  BY <1>1, CallOf DEF InList, OfListLock, Shape
<1>3. "clear" \in Pcs /\ Present \in SUBSET Ids
  BY DEF Pcs, OfListLock, Present
<1>4. /\ d \in Calls /\ d.pc = "clear" /\ d.plan = c.plan
      /\ d.op = c.op /\ d.id = c.id /\ d.arg = c.arg
  BY <1>2, <1>3 DEF Calls
<1> HIDE DEF d
<1>5. Shape(d)
  BY <1>2, <1>4 DEF Shape, OfTaskLock, OfMark
<1>6. call'[p] = d
  BY <1>1 DEF IInv
<1>7. ASSUME ~deleted PROVE Surveyed(p)'
  <2>1. \A i \in Used : i <= mark
    BY <1>1, <1>7, Known DEF Surveyed
  <2> QED BY <1>1, <1>4, <1>6, <2>1 DEF Surveyed, Used, OfMark
<1>8. d.pc \in InListPcs \ {"fill"}
  BY <1>4 DEF InListPcs, OfListLock
<1> QED BY <1>1, <1>2, <1>4, <1>5, <1>7, <1>8, QuietInList

-----------------------------------------------------------------------------
(***************************************************************************)
(* Steps that write the disk.                                              *)
(***************************************************************************)

\* p holds no lock after the step.
LEMMA HoldsNone ==
    ASSUME IInv, NEW p \in Procs, NEW d \in Calls, Shape(d), Free(d),
           d.pc # "lock", call' = [call EXCEPT ![p] = d],
           listLock' # p, \A i \in Ids : taskLock'[i] # p,
           d.op = "delete" => deleted'
    PROVE  Mine(p)' /\ ~Busy(p)' /\ Surveyed(p)' /\ ~At(p, "fill")'
<1>1. call'[p] = d
  BY DEF IInv
<1>2. (~InList(p) /\ ~Busy(p) /\ \A i \in Ids : ~InTask(p, i))'
  BY <1>1 DEF Free, InList, InTask, Busy
<1>3. Locks(p)'
  BY <1>2 DEF Locks
<1>4. Mine(p)'
  BY <1>1, <1>2, <1>3 DEF Mine, Job0, Busy, OfTaskLock
<1>5. Surveyed(p)' /\ ~At(p, "fill")'
  BY <1>1 DEF Surveyed, At, Free, OfListLock, OfMark
<1> QED BY <1>2, <1>4, <1>5

\* Others neither create nor reset while p holds the lock of the list.
LEMMA Alone ==
    ASSUME IInv, NEW p \in Procs, InList(p), Others(p), NEW q \in Procs \ {p}
    PROVE  Surveyed(q)' /\ Filling(q)'
<1>1. ~InList(q) /\ call'[q] = call[q]
  BY ListHolder DEF Others
<1>2. /\ call[q].pc \notin OfListLock
      /\ call[q].pc \in OfMark => call[q].op = "delete"
  BY <1>1 DEF InList
<1> QED BY <1>1, <1>2 DEF Surveyed, Filling, At, OfListLock, OfMark

LEMMA FreeHasNone ==
    ASSUME IInv, NEW p \in Procs, Free(call[p])
    PROVE  listLock # p /\ \A i \in Ids : taskLock[i] # p
BY FreeIs DEF IInv, Locks

LEMMA SameLocks ==
    ASSUME IInv, NEW p \in Procs, NEW d \in Calls, call' = [call EXCEPT ![p] = d],
           UNCHANGED locks
    PROVE  Others(p) /\ LocksTyped' /\ call' \in [Procs -> Calls]
BY DEF Others, IInv, TypeOK, LocksTyped, locks

LEMMA GoodMarkStep ==
    ASSUME IInv, NEW p \in Procs, MarkOpen(p) \/ MarkWrite(p)
    PROVE  IInv'
<1> DEFINE c == call[p]
           pc == IF c.pc = "markOpen" THEN "markWrite" ELSE AfterMark(c)
           d == Goto(c, pc)
<1>1. /\ c.pc \in {"markOpen", "markWrite"} /\ call' = [call EXCEPT ![p] = d]
      /\ mark' = IF c.pc = "markOpen" THEN 0 ELSE Wanted(c)
      /\ UNCHANGED <<file, born, locks, edges, deleted, calls, crashes>>
  BY DEF MarkOpen, MarkWrite, At, history, bounds
<1>2. c \in Calls /\ Shape(c) /\ Mine(p) /\ c.op \in {"delete", "reset", "hide"}
  BY <1>1, CallOf DEF Shape, OfMark
<1>3. /\ pc \in Pcs /\ pc \in {"markWrite", "unlink", "dir"}
      /\ pc = "markWrite" <=> c.pc = "markOpen"
      /\ pc = "dir" => c.op # "delete"
      /\ pc = "unlink" => c.op = "delete"
  BY <1>1 DEF Pcs, OfListLock, OfMark, AfterMark
<1> HIDE DEF pc
<1>4. /\ d \in Calls /\ d.pc = pc /\ d.plan = c.plan /\ d.high = c.high
      /\ d.op = c.op /\ d.id = c.id /\ d.arg = c.arg
  BY <1>2, <1>3, GotoIs
<1> HIDE DEF d
<1>5. Shape(d)
  BY <1>2, <1>3, <1>4 DEF Shape, OfTaskLock, OfMark
<1>6. call'[p] = d
  BY <1>1 DEF IInv
<1>7. Others(p) /\ LocksTyped' /\ call' \in [Procs -> Calls]
  BY <1>1, <1>4, SameLocks
<1>8. BoundsStay
  BY <1>1, Stays DEF IInv, TypeOK
<1>9. mark' \in 0..MaxId
  BY <1>1, <1>2, IdsAre DEF Wanted, Calls
<1>10. TypeOK'
  BY <1>1, <1>7, <1>8, <1>9, TypeFrom DEF IInv, TypeOK
<1>11. Used' = Used /\ Files0'
  BY <1>1 DEF IInv, Used, Files0
<1>12. Mine(p)' /\ Undeleted'
  <2>1. CASE c.op = "delete"
    <3>1. Free(c) /\ Free(d) /\ d.pc # "lock"
      BY <1>1, <1>3, <1>4, <2>1 DEF Free, OfListLock, OfTaskLock, OfMark
    <3>2. Mine(p)'
      BY <1>1, <1>2, <1>4, <1>5, <2>1, <3>1, FreeHasNone, HoldsNone
         DEF Mine, locks
    <3> QED BY <1>1, <1>2, <2>1, <3>2 DEF Mine, Undeleted
  <2>2. CASE c.op # "delete"
    <3>1. InList(p)
      BY <1>1, <2>2 DEF InList, OfMark
    <3>2. d.pc \in InListPcs
      BY <1>3, <1>4, <2>2 DEF InListPcs, OfListLock, OfMark
    <3>3. Mine(p)'
      BY <1>1, <1>4, <1>5, <2>2, <3>1, <3>2, KeepsList
    <3>4. ASSUME ~deleted'
          PROVE  /\ \A i \in Ids : born'[i] <= 1
                 /\ Covered' /\ Surveyed(p)' /\ Filling(p)'
      <4>1. /\ c.high \in Ids /\ file[c.high].there
            /\ \A i \in Used : i <= c.high
            /\ \A i \in Ids : born[i] <= 1
        BY <1>1, <2>2, <3>4, Known DEF Surveyed, OfMark
      <4>2. Covered'
        BY <1>1, <1>11, <4>1 DEF Covered
      <4>3. mark' = c.high \/ pc = "markWrite"
        BY <1>1, <1>3, <2>2 DEF Wanted
      <4>4. Surveyed(p)'
        BY <1>1, <1>3, <1>4, <1>6, <1>11, <4>1, <4>3 DEF Surveyed, OfMark
      <4>5. Filling(p)'
        BY <1>3, <1>4, <1>6 DEF Filling, At
      <4> QED BY <1>1, <4>1, <4>2, <4>4, <4>5
    <3> QED BY <1>7, <3>1, <3>3, <3>4, Alone DEF Undeleted
  <2> QED BY <2>1, <2>2
<1> QED BY <1>1, <1>7, <1>10, <1>11, <1>12, Frame

LEMMA UnlinkedIs ==
    ASSUME NEW f \in Files
    PROVE  /\ Unlinked(f) \in Files /\ ~Unlinked(f).there
           /\ Unlinked(f).task = f.task
BY NoFileIs DEF Unlinked, NoFile, Files

LEMMA GoodUnlink ==
    ASSUME IInv, NEW p \in Procs, Unlink(p)
    PROVE  IInv'
<1> DEFINE c == call[p]
           d == IF file[c.id].there THEN Goto(c, "list") ELSE Idle
<1>1. /\ c.pc = "unlink" /\ call' = [call EXCEPT ![p] = d]
      /\ file' = [file EXCEPT ![c.id] = Unlinked(file[c.id])]
      /\ UNCHANGED <<mark, born, locks, edges, deleted, calls, crashes>>
  BY DEF Unlink, At, history, bounds
<1>2. c \in Calls /\ Shape(c) /\ Mine(p) /\ c.op = "delete" /\ c.id \in Ids
  BY <1>1, CallOf DEF Shape
<1>3. "list" \in Pcs
  BY DEF Pcs
<1>4. /\ d \in Calls /\ Shape(d) /\ d.pc \in {"list", "idle"}
      /\ d.op \in {"none", "delete"}
  <2>1. Goto(c, "list") \in Calls /\ Goto(c, "list").pc = "list"
        /\ Goto(c, "list").op = c.op /\ Shape(Goto(c, "list"))
    <3> DEFINE e == Goto(c, "list")
    <3>1. e \in Calls /\ e.pc = "list" /\ e.op = c.op /\ e.id = c.id
          /\ e.plan = c.plan /\ e.arg = c.arg
      BY <1>2, <1>3, GotoIs
    <3> HIDE DEF e
    <3>2. Shape(e)
      BY <1>2, <3>1 DEF Shape, OfTaskLock, OfMark
    <3> QED BY <3>1, <3>2 DEF e
  <2> QED BY <1>2, <2>1, IdleIs
<1> HIDE DEF d
<1>5. deleted /\ deleted'
  BY <1>1, <1>2 DEF Mine
<1>6. Free(c) /\ Free(d) /\ d.pc # "lock"
  BY <1>1, <1>2, <1>4 DEF Free, OfListLock, OfTaskLock, OfMark
<1>7. Mine(p)'
  BY <1>1, <1>4, <1>5, <1>6, FreeHasNone, HoldsNone DEF locks
<1>8. Others(p) /\ LocksTyped' /\ call' \in [Procs -> Calls]
  BY <1>1, <1>4, SameLocks
<1>9. BoundsStay
  BY <1>1, Stays DEF IInv, TypeOK
<1>10. file \in [Ids -> Files] /\ file' \in [Ids -> Files]
       /\ \A i \in Ids : /\ file'[i].task = file[i].task
                         /\ file'[i].there => file[i].there
  BY <1>1, <1>2, UnlinkedIs DEF IInv, TypeOK
<1>11. TypeOK'
  BY <1>1, <1>8, <1>9, <1>10, TypeFrom DEF IInv, TypeOK
<1>12. Used' = Used /\ Files0'
  BY <1>1, <1>10 DEF IInv, Used, Files0
<1> QED
  BY <1>5, <1>7, <1>8, <1>10, <1>11, <1>12, Frame DEF Undeleted

LEMMA GoodClear ==
    ASSUME IInv, NEW p \in Procs, Clear(p)
    PROVE  IInv'
<1> DEFINE c == call[p]
<1>1. /\ c.pc = "clear"
      /\ UNCHANGED <<mark, born, taskLock, edges, deleted, calls, crashes>>
  BY DEF Clear, At, history, bounds
<1>2. c \in Calls /\ Shape(c) /\ InList(p) /\ c.op \in {"reset", "hide"}
  BY <1>1, CallOf DEF Shape, InList, OfListLock
<1>3. BoundsStay
  BY <1>1, Stays DEF IInv, TypeOK
<1>4. ASSUME NEW i \in c.todo,
             file' = [file EXCEPT ![i] = Unlinked(file[i])],
             call' = [call EXCEPT ![p] = [c EXCEPT !.todo = c.todo \ {i}]],
             UNCHANGED listLock
      PROVE  IInv'
  <2> DEFINE d == [c EXCEPT !.todo = c.todo \ {i}]
  <2>1. /\ d \in Calls /\ d.pc = "clear" /\ d.plan = c.plan
        /\ d.op = c.op /\ d.id = c.id /\ d.arg = c.arg
    BY <1>1, <1>2 DEF Calls
  <2>2. call' = [call EXCEPT ![p] = d]
    BY <1>4
  <2> HIDE DEF d
  <2>3. Shape(d) /\ d.pc \in InListPcs /\ d.op # "delete"
    BY <1>2, <2>1 DEF Shape, OfTaskLock, OfMark, InListPcs, OfListLock
  <2>4. call'[p] = d /\ Mine(p)' /\ Others(p) /\ LocksTyped'
    BY <1>1, <1>2, <1>4, <2>1, <2>2, <2>3, KeepsList DEF locks
  <2>5. i \in Ids /\ file \in [Ids -> Files]
    BY <1>2 DEF Calls, IInv, TypeOK
  <2>6. file' \in [Ids -> Files]
        /\ \A j \in Ids : /\ file'[j].task = file[j].task
                          /\ file'[j].there => file[j].there
    BY <1>4, <2>5, UnlinkedIs
  <2>7. call' \in [Procs -> Calls]
    BY <2>1, <2>2 DEF IInv
  <2>8. TypeOK'
    BY <1>1, <1>3, <2>4, <2>6, <2>7, TypeFrom DEF IInv, TypeOK
  <2>9. Used' = Used /\ Files0'
    BY <1>1, <2>6 DEF IInv, Used, Files0
  <2>10. ASSUME ~deleted'
         PROVE  Undeleted'
    <3>1. /\ \A j \in Ids : born[j] <= 1
          /\ \A j \in Used : j <= mark
      BY <1>1, <2>10, Known DEF Surveyed
    <3>2. Covered' /\ Surveyed(p)' /\ Filling(p)'
      BY <1>1, <2>1, <2>4, <2>9, <3>1
         DEF Covered, Surveyed, Filling, At, OfMark
    <3> QED BY <1>1, <1>2, <2>4, <3>1, <3>2, Alone DEF Undeleted
  <2> QED
    BY <1>1, <2>4, <2>6, <2>7, <2>8, <2>9, <2>10, Frame DEF Undeleted
<1>5. CASE listLock' = Nobody /\ call' = [call EXCEPT ![p] = Idle] /\ UNCHANGED file
  <2>1. Nobody # p /\ Nobody \notin Procs
    BY NobodyAssumption
  <2>2. \A i \in Ids : taskLock'[i] # p
    BY <1>1, <1>2, ListHolder
  <2>3. Free(Idle) /\ Idle.pc # "lock" /\ Idle.op # "delete"
    BY IdleIs DEF Free, OfListLock, OfTaskLock, OfMark
  <2>4. Mine(p)' /\ ~Busy(p)' /\ Surveyed(p)' /\ ~At(p, "fill")'
    BY <1>5, <2>1, <2>2, <2>3, IdleIs, HoldsNone
  <2>5. Others(p) /\ LocksTyped'
    BY <1>1, <1>2, <1>5, <2>1, ListHolder DEF Others, IInv, TypeOK, LocksTyped
  <2> QED BY <1>1, <1>3, <1>5, <2>4, <2>5, IdleIs, Quiet
<1>6. \/ \E i \in c.todo :
            /\ file' = [file EXCEPT ![i] = Unlinked(file[i])]
            /\ call' = [call EXCEPT ![p] = [c EXCEPT !.todo = c.todo \ {i}]]
            /\ UNCHANGED listLock
      \/ listLock' = Nobody /\ call' = [call EXCEPT ![p] = Idle] /\ UNCHANGED file
  BY DEF Clear
<1> QED BY <1>4, <1>5, <1>6

\* A step that writes a file, and takes none away, keeps the ids covered.
LEMMA Growing ==
    ASSUME IInv, NEW p \in Procs, Others(p), UNCHANGED <<mark, born>>,
           deleted => deleted',
           \A i \in Ids : file[i].there => file'[i].there,
           deleted' \/ (/\ Surveyed(p)' /\ ~At(p, "fill")'
                        /\ \A q \in Procs \ {p} : At(q, "fill") =>
                             /\ file'[call[q].id].torn
                             /\ file'[call[q].id].task = NewTask),
           Busy(p)' => Busy(p) /\ Doing(p)' = Doing(p)
    PROVE  Undeleted'
<1> SUFFICES ASSUME ~deleted' PROVE Undeleted'
  BY DEF Undeleted
<1>1. /\ Covered /\ \A i \in Ids : born[i] <= 1
      /\ \A q \in Procs : Surveyed(q) /\ Filling(q)
  BY Known
<1>2. Used' = Used
  BY DEF Used
<1>3. Covered'
  BY <1>1, <1>2 DEF Covered
<1>4. ASSUME NEW q \in Procs \ {p} PROVE Surveyed(q)' /\ Filling(q)'
  <2>1. call'[q] = call[q] /\ Surveyed(q) /\ Filling(q)
    BY <1>1 DEF Others
  <2>2. Surveyed(q)'
    BY <1>2, <2>1 DEF Surveyed
  <2>3. \A b \in Procs : /\ Busy(b)' => Busy(b)
                         /\ Busy(b)' => Doing(b)' = Doing(b)
    BY DEF Others, Busy, Doing
  <2>4. Filling(q)'
    BY <1>2, <2>1, <2>3 DEF Filling, At
  <2> QED BY <2>2, <2>4
<1>5. Filling(p)'
  BY DEF Filling
<1> QED BY <1>1, <1>3, <1>4, <1>5 DEF Undeleted

LEMMA OpenedIs ==
    ASSUME file \in [Ids -> Files], NEW p \in Procs, NEW i \in Ids
    PROVE  LET f == Opened(p, i) IN
           /\ f \in [Ids -> Files]
           /\ f[i].there /\ f[i].torn
           /\ \A j \in Ids : /\ f[j].task = file[j].task
                             /\ file[j].there => f[j].there
                             /\ file[j].torn => f[j].torn
                             /\ j # i => f[j] = file[j]
BY DEF Opened, Files

LEMMA WrittenIs ==
    ASSUME file \in [Ids -> Files], NEW p \in Procs, NEW i \in Ids,
           NEW t \in Tasks
    PROVE  LET f == Written(p, i, t) IN
           /\ f \in [Ids -> Files]
           /\ f[i].task \in {t, file[i].task}
           /\ \A j \in Ids : /\ f[j].there = file[j].there
                             /\ j # i => f[j] = file[j]
BY DEF Written, Files

LEMMA GoodOpen ==
    ASSUME IInv, NEW p \in Procs, Open(p)
    PROVE  IInv'
<1> DEFINE c == call[p]
           i == Doing(p).id
           d == Goto(c, "write")
<1>1. /\ c.pc = "open" /\ call' = [call EXCEPT ![p] = d] /\ file' = Opened(p, i)
      /\ UNCHANGED <<mark, born, locks, edges, deleted, calls, crashes>>
  BY DEF Open, At, history, bounds
<1>2. Holding(p) /\ c \in Calls /\ Shape(c) /\ Mine(p)
  BY <1>1, CallOf DEF Holding, OfTaskLock
<1>3. Busy(p) /\ c.plan # <<>> /\ i \in Ids /\ i \in Used
  BY <1>2, HoldingIs
<1>4. "write" \in Pcs
  BY DEF Pcs, OfTaskLock
<1>5. /\ d \in Calls /\ d.pc = "write" /\ d.plan = c.plan /\ d.op = c.op
      /\ d.id = c.id /\ d.arg = c.arg /\ d.cur = c.cur
  BY <1>2, <1>4, GotoIs
<1> HIDE DEF d
<1>6. Shape(d) /\ d.pc \in OfTaskLock
  BY <1>2, <1>3, <1>5 DEF Shape, OfTaskLock, OfMark
<1>7. /\ call'[p] = d /\ Doing(p)' = Doing(p) /\ Locks(p)' /\ Others(p)
      /\ LocksTyped' /\ Surveyed(p)'
  BY <1>1, <1>2, <1>5, <1>6, Kept
<1>8. /\ file' \in [Ids -> Files]
      /\ \A j \in Ids : /\ file'[j].task = file[j].task
                        /\ file[j].there => file'[j].there
                        /\ file[j].torn => file'[j].torn
                        /\ j # i => file'[j] = file[j]
  BY <1>1, <1>3, OpenedIs DEF IInv, TypeOK
<1>9. BoundsStay
  BY <1>1, Stays DEF IInv, TypeOK
<1>10. call' \in [Procs -> Calls]
  BY <1>1, <1>5 DEF IInv
<1>11. TypeOK'
  BY <1>1, <1>7, <1>8, <1>9, <1>10, TypeFrom DEF IInv, TypeOK
<1>12. Used' = Used /\ Files0'
  BY <1>1, <1>3, <1>8 DEF IInv, Used, Files0
<1>13. Job0(p)'
  BY <1>1, <1>2, <1>3, <1>5, <1>7, <1>8, <1>12 DEF Mine, Job0, MayClaim
<1>14. Mine(p)'
  BY <1>1, <1>2, <1>5, <1>6, <1>7, <1>13 DEF Mine
<1>15. ~At(p, "fill")'
  BY <1>5, <1>7 DEF At
<1>16. ASSUME ~deleted, NEW q \in Procs, At(q, "fill")
       PROVE  /\ file'[call[q].id].torn /\ file'[call[q].id].task = NewTask
  BY <1>8, <1>16, Known DEF Filling, Used
<1>17. Undeleted'
  BY <1>1, <1>3, <1>7, <1>8, <1>15, <1>16, Growing
<1> QED BY <1>1, <1>7, <1>8, <1>10, <1>11, <1>12, <1>14, <1>17, Frame

LEMMA GoodWrite ==
    ASSUME IInv, NEW p \in Procs, Write(p)
    PROVE  IInv'
<1> DEFINE c == call[p]
           i == Doing(p).id
           t == Merged(c.cur, Doing(p).set)
<1>1. /\ c.pc = "write" /\ Done(p) /\ file' = Written(p, i, t)
      /\ UNCHANGED <<mark, born, listLock, deleted, calls, crashes>>
  BY DEF Write, At, bounds
<1>2. Holding(p) /\ c \in Calls /\ Shape(c) /\ Mine(p)
  BY <1>1, CallOf DEF Holding, OfTaskLock
<1>3. Busy(p) /\ i \in Ids /\ i \in Used /\ Doing(p) \in Jobs /\ taskLock[i] = p
  BY <1>2, HoldingIs
<1>4. t \in Tasks
  BY <1>2, <1>3, MergedIs DEF Calls, Jobs
<1> HIDE DEF t
<1>5. /\ file' \in [Ids -> Files]
      /\ \A j \in Ids : /\ file'[j].there = file[j].there
                        /\ j # i => file'[j] = file[j]
  BY <1>1, <1>3, <1>4, WrittenIs DEF IInv, TypeOK
<1>6. Unlock(i) /\ edges' \subseteq Ids \X Ids
  BY <1>1, <1>2, DoneIs
<1>7. PICK b \in Calls : /\ Shape(b) /\ b.pc \in {"idle", "check"}
                         /\ b.op = "delete" => deleted
                         /\ call' = [call EXCEPT ![p] = b]
  BY <1>1, <1>2, DoneIs
<1>8. Mine(p)' /\ Others(p) /\ Surveyed(p)' /\ LocksTyped' /\ ~Busy(p)'
  BY <1>1, <1>2, <1>6, <1>7, Released
<1>9. BoundsStay
  BY <1>1, <1>6, Stays
<1>10. call' \in [Procs -> Calls] /\ call'[p] = b
  BY <1>7 DEF IInv
<1>11. TypeOK'
  BY <1>1, <1>5, <1>8, <1>9, <1>10, TypeFrom DEF IInv, TypeOK
<1>12. Used' = Used /\ Files0'
  BY <1>1, <1>3, <1>5 DEF IInv, Used, Files0
<1>13. ~At(p, "fill")'
  BY <1>7, <1>10 DEF At
<1>14. ASSUME ~deleted, NEW q \in Procs, At(q, "fill")
       PROVE  /\ file'[call[q].id].torn /\ file'[call[q].id].task = NewTask
  <2>1. /\ call[q].id \in Used /\ call[q].id # i
        /\ file[call[q].id].torn /\ file[call[q].id].task = NewTask
    BY <1>3, <1>14, Known DEF Filling
  <2> QED BY <1>5, <2>1 DEF Used
<1>15. Undeleted'
  BY <1>1, <1>5, <1>8, <1>13, <1>14, Growing
<1>16. ASSUME NEW q \in Procs \ {p}, NEW j \in Ids, InTask(q, j)
       PROVE  file'[j].task = file[j].task
  <2>1. taskLock[j] = q
    BY <1>16 DEF IInv, Locks
  <2> QED BY <1>3, <1>5, <2>1
<1> QED BY <1>1, <1>8, <1>10, <1>11, <1>12, <1>15, <1>16, Frame

LEMMA GoodCreateOpen ==
    ASSUME IInv, NEW p \in Procs, CreateOpen(p)
    PROVE  IInv'
<1> DEFINE c == call[p]
           i == c.high + 1
           d == [c EXCEPT !.pc = "fill", !.id = i]
<1>1. /\ c.pc = "create" /\ c.high < MaxId
      /\ call' = [call EXCEPT ![p] = d] /\ file' = Opened(p, i)
      /\ born' = [born EXCEPT ![i] = born[i] + 1]
      /\ UNCHANGED <<mark, locks, edges, deleted, calls, crashes>>
  BY DEF CreateOpen, At, bounds
<1>2. c \in Calls /\ Shape(c) /\ InList(p) /\ c.op = "create"
  BY <1>1, CallOf DEF Shape, InList, OfListLock
<1>3. i \in Ids /\ i \in 0..MaxId /\ c.high \in Nat
  BY <1>1, Ranges, IdsAre DEF Ids
<1>4. "fill" \in Pcs
  BY DEF Pcs, OfListLock
<1> HIDE DEF i
<1>5. /\ d \in Calls /\ d.pc = "fill" /\ d.plan = c.plan /\ d.op = c.op
      /\ d.id = i /\ d.arg = c.arg
  BY <1>2, <1>3, <1>4 DEF Calls
<1> HIDE DEF d
<1>6. Shape(d) /\ d.pc \in InListPcs /\ d.op # "delete"
  BY <1>2, <1>3, <1>5 DEF Shape, OfTaskLock, OfMark, InListPcs, OfListLock
<1>7. /\ call'[p] = d /\ Mine(p)' /\ Others(p) /\ LocksTyped' /\ ~Busy(p)'
  BY <1>1, <1>2, <1>5, <1>6, KeepsList
<1>8. /\ file' \in [Ids -> Files] /\ file'[i].there /\ file'[i].torn
      /\ \A j \in Ids : /\ file'[j].task = file[j].task
                        /\ file[j].there => file'[j].there
                        /\ j # i => file'[j] = file[j]
  BY <1>1, <1>3, OpenedIs DEF IInv, TypeOK
<1>9. /\ born \in [Ids -> Nat] /\ born' \in [Ids -> Nat]
      /\ \A j \in Ids : /\ j # i => born'[j] = born[j]
                        /\ j = i => born'[j] = born[j] + 1
  <2>1. born \in [Ids -> Nat]
    BY DEF IInv, TypeOK
  <2> QED BY <1>1, <1>3, <2>1
<1>10. Used \subseteq Used' /\ i \in Used' /\ Used' \subseteq Used \cup {i}
  <2>1. \A j \in Ids : /\ j \in Used <=> born[j] >= 1
                       /\ j \in Used' <=> born'[j] >= 1
    BY DEF Used
  <2>2. born'[i] = born[i] + 1 /\ born[i] \in Nat
    BY <1>3, <1>9
  <2>3. i \in Used'
    BY <1>3, <2>1, <2>2
  <2>4. \A j \in Ids \ {i} : j \in Used' <=> j \in Used
    BY <1>9, <2>1
  <2>5. Used \subseteq Ids /\ Used' \subseteq Ids
    BY DEF Used
  <2> QED BY <2>3, <2>4, <2>5
<1>11. BoundsStay
  BY <1>1, Stays DEF IInv, TypeOK
<1>12. call' \in [Procs -> Calls]
  BY <1>1, <1>5 DEF IInv
<1>13. TypeOK'
  BY <1>1, <1>7, <1>8, <1>9, <1>11, <1>12, TypeFrom DEF IInv, TypeOK
<1>14. Files0'
  BY <1>8, <1>10 DEF IInv, Files0
<1>15. ASSUME ~deleted'
       PROVE  Undeleted'
  <2>1. /\ Covered /\ \A j \in Ids : born[j] <= 1
        /\ \A j \in Used : j <= c.high
    BY <1>1, <1>15, Known DEF Surveyed
  <2>2. i \notin Used
    BY <1>3, <2>1 DEF i
  <2>3. \A j \in Ids : born'[j] <= 1
    BY <1>3, <1>9, <2>1, <2>2 DEF Used
  <2>4. Covered'
    <3> SUFFICES ASSUME NEW j \in Used'
                 PROVE  j <= mark' \/ \E k \in Ids : file'[k].there /\ j <= k
      BY DEF Covered
    <3>1. CASE j = i
      BY <1>3, <1>8, <3>1, IdsAre
    <3>2. CASE j \in Used
      BY <1>1, <1>8, <2>1, <3>2 DEF Covered
    <3> QED BY <1>10, <3>1, <3>2
  <2>5. Surveyed(p)'
    BY <1>5, <1>7 DEF Surveyed, OfMark
  <2>6. Filling(p)'
    <3>1. file'[i].task = NewTask
      BY <1>3, <1>8, <2>2 DEF IInv, Files0
    <3>2. ASSUME NEW q \in Procs, Busy(q)'
          PROVE  Doing(q)'.id # i
      <4>1. q # p
        BY <1>7, <3>2
      <4>2. Busy(q) /\ Doing(q)' = Doing(q)
        BY <1>7, <3>2, <4>1 DEF Others, Busy, Doing
      <4>3. Doing(q).id \in Used
        BY <4>2, CallOf DEF Mine, Job0
      <4> QED BY <2>2, <4>2, <4>3
    <3> QED BY <1>5, <1>7, <1>8, <1>10, <3>1, <3>2 DEF Filling
  <2> QED BY <1>1, <1>2, <1>7, <2>3, <2>4, <2>5, <2>6, Alone DEF Undeleted
<1>16. Undeleted'
  BY <1>15 DEF Undeleted
<1> QED
  BY <1>1, <1>7, <1>8, <1>10, <1>12, <1>13, <1>14, <1>16, Frame

LEMMA GoodCreateWrite ==
    ASSUME IInv, NEW p \in Procs, CreateWrite(p)
    PROVE  IInv'
<1> DEFINE c == call[p]
           i == c.id
           e == Call("delete", "mark", i, Nobody, {}, <<>>)
<1>1. /\ c.pc = "fill" /\ file' = Written(p, i, NewTask) /\ listLock' = Nobody
      /\ UNCHANGED <<mark, taskLock, born, edges, calls, crashes>>
      /\ \/ call' = [call EXCEPT ![p] = Idle] /\ UNCHANGED deleted
         \/ /\ call' = [call EXCEPT ![p] = e]
            /\ deleted' = TRUE
  BY DEF CreateWrite, At, bounds
<1>2. c \in Calls /\ Shape(c) /\ InList(p) /\ i \in Ids
  BY <1>1, CallOf DEF Shape, InList, OfListLock
<1>3. /\ e \in Calls /\ e.op = "delete" /\ e.pc = "mark" /\ e.id = i
      /\ e.plan = <<>>
  BY <1>2, DeleteCallIs
<1> HIDE DEF e
<1>4. Shape(e)
  BY <1>2, <1>3 DEF Shape, OfTaskLock, OfMark
<1>5. PICK d \in Calls : /\ call' = [call EXCEPT ![p] = d] /\ Shape(d)
                         /\ d.pc \in {"idle", "mark"}
                         /\ d.pc = "mark" => d.op = "delete"
                         /\ d.op = "delete" => deleted'
  BY <1>1, <1>3, <1>4, IdleIs
<1>6. Free(d) /\ d.pc # "lock"
  BY <1>5 DEF Free, OfListLock, OfTaskLock, OfMark
<1>7. Nobody # p /\ Nobody \notin Procs
  BY NobodyAssumption
<1>8. \A j \in Ids : taskLock'[j] # p
  BY <1>1, <1>2, ListHolder
<1>9. Mine(p)' /\ ~Busy(p)' /\ Surveyed(p)' /\ ~At(p, "fill")'
  BY <1>1, <1>5, <1>6, <1>7, <1>8, HoldsNone
<1>10. Others(p) /\ LocksTyped' /\ call' \in [Procs -> Calls]
  BY <1>1, <1>2, <1>5, <1>7, ListHolder DEF Others, IInv, TypeOK, LocksTyped
<1>11. BoundsStay
  BY <1>1 DEF BoundsStay, IInv, TypeOK
<1>12. /\ file' \in [Ids -> Files]
       /\ file'[i].task \in {NewTask, file[i].task}
       /\ \A j \in Ids : /\ file'[j].there = file[j].there
                         /\ j # i => file'[j] = file[j]
  BY <1>1, <1>2, WrittenIs, TaskIs DEF IInv, TypeOK
<1>13. TypeOK'
  BY <1>1, <1>10, <1>11, <1>12, TypeFrom DEF IInv, TypeOK
<1>14. Used' = Used /\ Files0'
  BY <1>1, <1>12 DEF IInv, Used, Files0
<1>15. ~deleted => file[i].task = NewTask
  BY <1>1, Known DEF Filling, At
<1>16. \A q \in Procs \ {p} : ~At(q, "fill")
  BY <1>2, ListHolder DEF InList, At, OfListLock
<1>17. deleted => deleted'
  BY <1>1
<1>18. Undeleted'
  BY <1>1, <1>9, <1>10, <1>12, <1>16, <1>17, Growing
<1>19. ASSUME NEW q \in Procs \ {p}, NEW j \in Ids
       PROVE  \/ file'[j].task = file[j].task
              \/ deleted' /\ file'[j].task = NewTask
  BY <1>12, <1>15, <1>17
<1> QED
  BY <1>9, <1>10, <1>13, <1>14, <1>17, <1>18, <1>19, Frame

-----------------------------------------------------------------------------
(***************************************************************************)
(* The theorems.                                                           *)
(***************************************************************************)

LEMMA InitialState == Init => IInv
<1> SUFFICES ASSUME Init PROVE IInv
  OBVIOUS
<1>1. \A p \in Procs : call[p] = Idle
  BY DEF Init
<1>2. call \in [Procs -> Calls]
  BY IdleIs DEF Init
<1>3. \A i \in Ids : i <= Len(Existing) => i \in 1..Len(Existing)
  BY ExistingAssumption, IdsAre DEF Ids
<1>4. \A i \in Ids : i <= Len(Existing) => Existing[i] \in Tasks
  BY <1>3, ExistingAssumption
<1>5. /\ file \in [Ids -> Files]
      /\ \A i \in Ids : /\ file[i].there <=> i <= Len(Existing)
                        /\ ~file[i].there => file[i].task = NewTask
  BY <1>4, NoFileIs DEF Init, NoFile, Files
<1>6. /\ born \in [Ids -> Nat]
      /\ \A i \in Ids : born[i] = IF i <= Len(Existing) THEN 1 ELSE 0
  BY DEF Init
<1>7. mark \in 0..MaxId /\ LocksTyped /\ edges \subseteq Ids \X Ids
      /\ deleted \in BOOLEAN /\ calls \in 0..MaxCalls /\ crashes \in 0..MaxCrashes
  <2>1. 0 \in 0..MaxId /\ 0 \in 0..MaxCalls /\ 0 \in 0..MaxCrashes
    BY BoundsAssumption
  <2>2. LocksTyped
    BY DEF Init, LocksTyped
  <2>3. mark = 0 /\ edges = {} /\ deleted = FALSE /\ calls = 0 /\ crashes = 0
    BY DEF Init
  <2> QED BY <2>1, <2>2, <2>3
<1>8. TypeOK
  BY <1>2, <1>5, <1>6, <1>7, CallFits DEF TypeOK, LocksTyped
<1>9. \A i \in Ids : i \in Used <=> i <= Len(Existing)
  BY <1>6 DEF Used
<1>10. Files0
  BY <1>5, <1>9 DEF Files0
<1>11. Undeleted
  <2>1. Covered
    BY <1>5, <1>9, IdsAre DEF Covered, Used
  <2>2. \A p \in Procs : Surveyed(p) /\ Filling(p)
    BY <1>1, IdleIs DEF Surveyed, Filling, At, OfMark
  <2> QED BY <1>6, <2>1, <2>2 DEF Undeleted
<1>12. ASSUME NEW p \in Procs
       PROVE  Shape(call[p]) /\ Locks(p) /\ Job0(p)
              /\ (call[p].op = "delete" => deleted)
  <2>1. call[p] = Idle /\ call[p].pc = "idle" /\ call[p].op = "none"
    BY <1>1, IdleIs
  <2>2. listLock # p /\ \A i \in Ids : taskLock[i] # p
    BY NobodyAssumption DEF Init
  <2> QED
    BY <2>1, <2>2, IdleIs
    DEF Locks, Job0, InList, InTask, Busy, OfListLock, OfTaskLock, OfMark
<1> QED BY <1>2, <1>8, <1>10, <1>11, <1>12 DEF IInv

LEMMA Stutter ==
    ASSUME IInv, UNCHANGED vars
    PROVE  IInv'
<1> USE DEF vars
<1>1. TypeOK' /\ (call \in [Procs -> Calls])' /\ Files0' /\ Undeleted'
  <2>1. TypeOK' /\ (call \in [Procs -> Calls])'
    BY DEF IInv, TypeOK
  <2>2. Files0'
    BY DEF IInv, Doing, Files0, Used
  <2>3. Used' = Used
    BY DEF Used
  <2>4. Covered' <=> Covered
    BY <2>3 DEF Covered
  <2>5. ASSUME NEW p \in Procs
        PROVE  (Surveyed(p)' <=> Surveyed(p)) /\ (Filling(p)' <=> Filling(p))
    BY <2>3 DEF Surveyed, Filling, At, Busy, Doing
  <2>6. Undeleted'
    BY <2>4, <2>5 DEF IInv, Undeleted
  <2> QED BY <2>1, <2>2, <2>6
<1>2. ASSUME NEW p \in Procs
      PROVE  (Shape(call[p]) /\ Locks(p) /\ Job0(p)
              /\ (call[p].op = "delete" => deleted))'
  BY DEF IInv, Locks, Job0, InList, InTask, At, Busy, Doing, Used, MayClaim
<1> QED BY <1>1, <1>2 DEF IInv

LEMMA InductiveStep == IInv /\ [Next]_vars => IInv'
<1> SUFFICES ASSUME IInv, [Next]_vars PROVE IInv'
  OBVIOUS
<1>1. ASSUME NEW p \in Procs, Step(p) PROVE IInv'
  BY <1>1, GoodList, GoodLook, GoodHookForbids, GoodCheck, GoodLock,
     GoodLockFails, GoodVet, GoodJudge, GoodRead, GoodOpen, GoodWrite,
     GoodListLock, GoodListLockFails, GoodScan, GoodCreateOpen,
     GoodCreateWrite, GoodSurvey, GoodReadMark, GoodMarkStep, GoodDir,
     GoodClear, GoodUnlink
  DEF Step
<1> QED BY <1>1, GoodStart, GoodCrash, GoodExpire, Stutter DEF Next

THEOREM Inductive == Spec => []IInv
BY InitialState, InductiveStep, PTL DEF Spec

\* Whatever agents create, reset, claim, update and delete, and wherever a
\* process dies: no path keeps a lock, a lock is held by at most one process,
\* and without deleteTask an id is given out once (utils/tasks.ts).
THEOREM ListIsShared == Spec => []SharedInv
<1>1. IInv => SharedInv
  BY DEF IInv, SharedInv, LocksAreReleased, Locks, IdsNeverReused, Undeleted
<1> QED BY <1>1, Inductive, PTL

\* updateTask reads again under the lock of the task: what an update does not
\* name is as the last writer left it (utils/tasks.ts 354-391).
THEOREM UpdatesAreKept == Spec => NoLostUpdate
<1> DEFINE A == \A i \in Ids : \A f \in DOMAIN NewTask :
                  (/\ file[i].there /\ file'[i].there
                   /\ file'[i].task[f] # file[i].task[f])
                  => \/ \E p \in Procs : Writes(p, i) /\ f \in DOMAIN Doing(p).set
                     \/ deleted
<1>1. ASSUME IInv, Next PROVE A
  <2> SUFFICES ASSUME ~deleted, NEW i \in Ids, NEW f \in Fields,
                      file'[i].task[f] # file[i].task[f]
               PROVE  \E p \in Procs : Writes(p, i) /\ f \in DOMAIN Doing(p).set
    BY TaskIs
  <2>1. PICK p \in Procs : Start(p) \/ Step(p) \/ Crash(p) \/ Expire(p)
    BY <1>1 DEF Next
  <2>2. file \in [Ids -> Files] /\ call[p] \in Calls /\ Shape(call[p])
    BY <1>1, CallOf DEF IInv, TypeOK
  <2>3. \/ file' = file \/ Open(p) \/ Write(p) \/ CreateOpen(p)
        \/ CreateWrite(p) \/ Clear(p) \/ Unlink(p)
    BY <2>1
    DEF Start, Step, Crash, Expire, Begin, BeginCreate, BeginReset,
        BeginDelete,
        BeginBlock, BeginUpdate, BeginClaim, BeginUnassign, BeginHide, List,
        Look, HookForbids, Check, Lock, LockFails, Vet, Judge, Read, ListLock,
        ListLockFails, Scan, Survey, ReadMark, MarkOpen, MarkWrite, Dir, disk
  <2>4. CASE Open(p)
    <3>1. Holding(p)
      BY <2>4 DEF Open, At, Holding, OfTaskLock
    <3> QED BY <1>1, <2>2, <2>4, <3>1, HoldingIs, OpenedIs DEF Open
  <2>5. CASE CreateOpen(p)
    <3>1. call[p].high + 1 \in Ids
      BY <1>1, <2>5, Ranges, IdsAre DEF CreateOpen, Ids
    <3> QED BY <2>2, <2>5, <3>1, OpenedIs DEF CreateOpen
  <2>6. CASE CreateWrite(p)
    <3>1. call[p].id \in Ids /\ file[call[p].id].task = NewTask
      BY <1>1, <2>6, Known DEF CreateWrite, Filling, Used
    <3> QED BY <2>2, <2>6, <3>1, WrittenIs, TaskIs DEF CreateWrite
  <2>7. CASE Clear(p)
    BY <2>2, <2>7, UnlinkedIs DEF Clear
  <2>8. CASE Unlink(p)
    BY <2>2, <2>8, UnlinkedIs DEF Unlink
  <2>9. CASE Write(p)
    <3> DEFINE t == Merged(call[p].cur, Doing(p).set)
    <3>1. /\ call[p].pc = "write" /\ Done(p) /\ file' = Written(p, Doing(p).id, t)
      BY <2>9 DEF Write, At
    <3>2. Holding(p)
      BY <3>1 DEF Holding, OfTaskLock
    <3>3. Doing(p).id \in Ids /\ Doing(p) \in Jobs /\ Busy(p) /\ Mine(p)
      BY <1>1, <3>2, HoldingIs, CallOf
    <3>4. call[p].cur = file[Doing(p).id].task
      BY <3>1, <3>3 DEF Mine, Job0
    <3>5. t \in Tasks
          /\ \A g \in Fields \ DOMAIN Doing(p).set : t[g] = call[p].cur[g]
      BY <2>2, <3>3, MergedIs DEF Calls, Jobs
    <3> HIDE DEF t
    <3>6. i = Doing(p).id /\ file'[i].task = t
      BY <2>2, <3>1, <3>3, <3>5, WrittenIs
    <3>7. f \in DOMAIN Doing(p).set
      BY <3>4, <3>5, <3>6
    <3>8. PICK b \in Calls : b.pc \in {"idle", "check"}
                             /\ call' = [call EXCEPT ![p] = b]
      BY <1>1, <3>1, <3>2, DoneIs
    <3>9. Writes(p, i)
      BY <1>1, <3>1, <3>6, <3>8 DEF Writes, At, IInv
    <3> QED BY <3>7, <3>9
  <2> QED BY <2>3, <2>4, <2>5, <2>6, <2>7, <2>8, <2>9
<1>2. ASSUME IInv, [Next]_vars PROVE [A]_vars
  BY <1>1, <1>2
<1> QED BY <1>2, Inductive, PTL DEF Spec, NoLostUpdate

\* What claimTask saw under the lock still holds when it writes: no task is
\* taken from another agent, and no completed one (utils/tasks.ts 568-599).
THEOREM ClaimsAreRespectful == Spec => ClaimsRespectOthers
<1> DEFINE A == \A p \in Procs, i \in Ids :
                  Writes(p, i) /\ Doing(p).kind = "claim" /\ file[i].there
                  => MayClaim(p, file[i].task)
<1>1. ASSUME IInv, [Next]_vars PROVE [A]_vars
  <2>1. ASSUME NEW p \in Procs, NEW i \in Ids, Writes(p, i),
               Doing(p).kind = "claim"
        PROVE  MayClaim(p, file[i].task)
    <3>1. Busy(p) /\ call[p].pc = "write" /\ Doing(p).id = i
      BY <2>1 DEF Writes, At, Busy, OfTaskLock
    <3> QED BY <1>1, <2>1, <3>1, CallOf DEF Mine, Job0
  <2> QED BY <2>1
<1> QED BY <1>1, Inductive, PTL DEF Spec, ClaimsRespectOthers

=============================================================================
