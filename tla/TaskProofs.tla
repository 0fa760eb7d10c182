----------------------------- MODULE TaskProofs -----------------------------
(***************************************************************************)
(* RendView keeps its members and its tasks in order, in any run: whatever   *)
(* the number of frames, the thresholds, the limits, the faults and the      *)
(* signals.  The first part is about the members of manager, interface and   *)
(* source, the second about the tasks.                                       *)
(***************************************************************************)
EXTENDS RendViewProps, SequenceTheorems, FiniteSetTheorems, TLAPS

----------------------------------------------------------------------------
(***************************************************************************)
(* What the members of manager, interface and source can be in any run of   *)
(* RendView, for any number of frames, any thresholds and limits, every     *)
(* fault and every signal.                                                  *)
(* First their types: every member function turns well-typed members into   *)
(* well-typed members: no queue ever holds anything but frames of this run, *)
(* no flag or step counter leaves its range.  One lemma per operator; the   *)
(* members' type has so many fields that it is opened in the lemmas Read    *)
(* and Write only.                                                          *)
(* Then the exchange: manager and source agree about it.  ExchangeAgrees is *)
(* inductive.  Most member functions leave the exchange alone (Keeps), the  *)
(* others serve it (Serves); both compose along calls, so there is one      *)
(* short lemma per member function.                                         *)
(***************************************************************************)

----------------------------------------------------------------------------
(* Types: the member functions *)

\* The members have the types their declarations give them.
LEMMA Read ==
  ASSUME NEW s \in Members
  PROVE
    /\ s.started \in BOOLEAN
    /\ s.refilter \in Seq(Frames)
    /\ s.fresh \in Seq(Frames)
    /\ s.proc \in SUBSET Frames
    /\ s.done \in Seq(Frames)
    /\ s.stage \in [Frames -> Stages]
    /\ s.rtes \in [Frames -> Tes]
    /\ s.ftes \in [Frames -> Tes]
    /\ s.job \in [Frames -> {"none", "launched", "running"}]
    /\ s.killed \in [Frames -> Reasons]
    /\ s.nrun \in [Kinds -> Int]
    /\ s.dead \in SUBSET {"forked", "unforked"}
    /\ s.sfs \in Frames \cup {NoTask}
    /\ s.dsmt \in BOOLEAN
    /\ s.sq \in 0..2
    /\ s.sqa \in 0..2
    /\ s.killTasks \in BOOLEAN
    /\ s.toldIf \in BOOLEAN
    /\ s.toldTs \in BOOLEAN
    /\ s.connected \in BOOLEAN
    /\ s.pending \in Actions
    /\ s.tsgod \in Actions
    /\ s.nth \in 0..2
    /\ s.tdaf \in BOOLEAN
    /\ s.failed \in Nat
    /\ s.caught \in 0..2
    /\ s.abortOn \in BOOLEAN
    /\ s.stopped \in BOOLEAN
    /\ s.load \in BOOLEAN
    /\ s.poll \in BOOLEAN
    /\ s.tid0 \in BOOLEAN
    /\ s.quitStep \in 0..5
    /\ s.status \in 0..2
    /\ s.srcConn \in BOOLEAN
    /\ s.srcPend \in Actions
    /\ s.srcDone \in Frames \cup {NoTask}
    /\ s.srcQuit \in BOOLEAN
    /\ s.next \in Nat \ {0}
    /\ s.crash \in {"none", "assert", "nullif", "nulltask", "abort"}
  BY DEF Members

\* A member may be replaced by any value of its type.
LEMMA Write ==
  ASSUME NEW s \in Members
  PROVE
    /\ \A v \in BOOLEAN : [s EXCEPT !.started = v] \in Members
    /\ \A v \in Seq(Frames) : [s EXCEPT !.refilter = v] \in Members
    /\ \A v \in Seq(Frames) : [s EXCEPT !.fresh = v] \in Members
    /\ \A v \in SUBSET Frames : [s EXCEPT !.proc = v] \in Members
    /\ \A v \in Seq(Frames) : [s EXCEPT !.done = v] \in Members
    /\ \A v \in [Frames -> Stages] : [s EXCEPT !.stage = v] \in Members
    /\ \A v \in [Frames -> Tes] : [s EXCEPT !.rtes = v] \in Members
    /\ \A v \in [Frames -> Tes] : [s EXCEPT !.ftes = v] \in Members
    /\ \A v \in [Frames -> {"none", "launched", "running"}] : [s EXCEPT !.job = v] \in Members
    /\ \A v \in [Frames -> Reasons] : [s EXCEPT !.killed = v] \in Members
    /\ \A v \in [Kinds -> Int] : [s EXCEPT !.nrun = v] \in Members
    /\ \A v \in SUBSET {"forked", "unforked"} : [s EXCEPT !.dead = v] \in Members
    /\ \A v \in Frames \cup {NoTask} : [s EXCEPT !.sfs = v] \in Members
    /\ \A v \in BOOLEAN : [s EXCEPT !.dsmt = v] \in Members
    /\ \A v \in 0..2 : [s EXCEPT !.sq = v] \in Members
    /\ \A v \in 0..2 : [s EXCEPT !.sqa = v] \in Members
    /\ \A v \in BOOLEAN : [s EXCEPT !.killTasks = v] \in Members
    /\ \A v \in BOOLEAN : [s EXCEPT !.toldIf = v] \in Members
    /\ \A v \in BOOLEAN : [s EXCEPT !.toldTs = v] \in Members
    /\ \A v \in BOOLEAN : [s EXCEPT !.connected = v] \in Members
    /\ \A v \in Actions : [s EXCEPT !.pending = v] \in Members
    /\ \A v \in Actions : [s EXCEPT !.tsgod = v] \in Members
    /\ \A v \in 0..2 : [s EXCEPT !.nth = v] \in Members
    /\ \A v \in BOOLEAN : [s EXCEPT !.tdaf = v] \in Members
    /\ \A v \in Nat : [s EXCEPT !.failed = v] \in Members
    /\ \A v \in 0..2 : [s EXCEPT !.caught = v] \in Members
    /\ \A v \in BOOLEAN : [s EXCEPT !.abortOn = v] \in Members
    /\ \A v \in BOOLEAN : [s EXCEPT !.stopped = v] \in Members
    /\ \A v \in BOOLEAN : [s EXCEPT !.load = v] \in Members
    /\ \A v \in BOOLEAN : [s EXCEPT !.poll = v] \in Members
    /\ \A v \in BOOLEAN : [s EXCEPT !.tid0 = v] \in Members
    /\ \A v \in 0..5 : [s EXCEPT !.quitStep = v] \in Members
    /\ \A v \in 0..2 : [s EXCEPT !.status = v] \in Members
    /\ \A v \in BOOLEAN : [s EXCEPT !.srcConn = v] \in Members
    /\ \A v \in Actions : [s EXCEPT !.srcPend = v] \in Members
    /\ \A v \in Frames \cup {NoTask} : [s EXCEPT !.srcDone = v] \in Members
    /\ \A v \in BOOLEAN : [s EXCEPT !.srcQuit = v] \in Members
    /\ \A v \in Nat \ {0} : [s EXCEPT !.next = v] \in Members
    /\ \A v \in {"none", "assert", "nullif", "nulltask", "abort"} : [s EXCEPT !.crash = v] \in Members
<1>1. \A v \in BOOLEAN : [s EXCEPT !.started = v] \in Members
  BY ZenonT(60) DEF Members
<1>2. \A v \in Seq(Frames) : [s EXCEPT !.refilter = v] \in Members
  BY ZenonT(60) DEF Members
<1>3. \A v \in Seq(Frames) : [s EXCEPT !.fresh = v] \in Members
  BY ZenonT(60) DEF Members
<1>4. \A v \in SUBSET Frames : [s EXCEPT !.proc = v] \in Members
  BY ZenonT(60) DEF Members
<1>5. \A v \in Seq(Frames) : [s EXCEPT !.done = v] \in Members
  BY ZenonT(60) DEF Members
<1>6. \A v \in [Frames -> Stages] : [s EXCEPT !.stage = v] \in Members
  BY ZenonT(60) DEF Members
<1>7. \A v \in [Frames -> Tes] : [s EXCEPT !.rtes = v] \in Members
  BY ZenonT(60) DEF Members
<1>8. \A v \in [Frames -> Tes] : [s EXCEPT !.ftes = v] \in Members
  BY ZenonT(60) DEF Members
<1>9. \A v \in [Frames -> {"none", "launched", "running"}] : [s EXCEPT !.job = v] \in Members
  BY ZenonT(60) DEF Members
<1>10. \A v \in [Frames -> Reasons] : [s EXCEPT !.killed = v] \in Members
  BY ZenonT(60) DEF Members
<1>11. \A v \in [Kinds -> Int] : [s EXCEPT !.nrun = v] \in Members
  BY ZenonT(60) DEF Members
<1>12. \A v \in SUBSET {"forked", "unforked"} : [s EXCEPT !.dead = v] \in Members
  BY ZenonT(60) DEF Members
<1>13. \A v \in Frames \cup {NoTask} : [s EXCEPT !.sfs = v] \in Members
  BY ZenonT(60) DEF Members
<1>14. \A v \in BOOLEAN : [s EXCEPT !.dsmt = v] \in Members
  BY ZenonT(60) DEF Members
<1>15. \A v \in 0..2 : [s EXCEPT !.sq = v] \in Members
  BY ZenonT(60) DEF Members
<1>16. \A v \in 0..2 : [s EXCEPT !.sqa = v] \in Members
  BY ZenonT(60) DEF Members
<1>17. \A v \in BOOLEAN : [s EXCEPT !.killTasks = v] \in Members
  BY ZenonT(60) DEF Members
<1>18. \A v \in BOOLEAN : [s EXCEPT !.toldIf = v] \in Members
  BY ZenonT(60) DEF Members
<1>19. \A v \in BOOLEAN : [s EXCEPT !.toldTs = v] \in Members
  BY ZenonT(60) DEF Members
<1>20. \A v \in BOOLEAN : [s EXCEPT !.connected = v] \in Members
  BY ZenonT(60) DEF Members
<1>21. \A v \in Actions : [s EXCEPT !.pending = v] \in Members
  BY ZenonT(60) DEF Members
<1>22. \A v \in Actions : [s EXCEPT !.tsgod = v] \in Members
  BY ZenonT(60) DEF Members
<1>23. \A v \in 0..2 : [s EXCEPT !.nth = v] \in Members
  BY ZenonT(60) DEF Members
<1>24. \A v \in BOOLEAN : [s EXCEPT !.tdaf = v] \in Members
  BY ZenonT(60) DEF Members
<1>25. \A v \in Nat : [s EXCEPT !.failed = v] \in Members
  BY ZenonT(60) DEF Members
<1>26. \A v \in 0..2 : [s EXCEPT !.caught = v] \in Members
  BY ZenonT(60) DEF Members
<1>27. \A v \in BOOLEAN : [s EXCEPT !.abortOn = v] \in Members
  BY ZenonT(60) DEF Members
<1>28. \A v \in BOOLEAN : [s EXCEPT !.stopped = v] \in Members
  BY ZenonT(60) DEF Members
<1>29. \A v \in BOOLEAN : [s EXCEPT !.load = v] \in Members
  BY ZenonT(60) DEF Members
<1>30. \A v \in BOOLEAN : [s EXCEPT !.poll = v] \in Members
  BY ZenonT(60) DEF Members
<1>31. \A v \in BOOLEAN : [s EXCEPT !.tid0 = v] \in Members
  BY ZenonT(60) DEF Members
<1>32. \A v \in 0..5 : [s EXCEPT !.quitStep = v] \in Members
  BY ZenonT(60) DEF Members
<1>33. \A v \in 0..2 : [s EXCEPT !.status = v] \in Members
  BY ZenonT(60) DEF Members
<1>34. \A v \in BOOLEAN : [s EXCEPT !.srcConn = v] \in Members
  BY ZenonT(60) DEF Members
<1>35. \A v \in Actions : [s EXCEPT !.srcPend = v] \in Members
  BY ZenonT(60) DEF Members
<1>36. \A v \in Frames \cup {NoTask} : [s EXCEPT !.srcDone = v] \in Members
  BY ZenonT(60) DEF Members
<1>37. \A v \in BOOLEAN : [s EXCEPT !.srcQuit = v] \in Members
  BY ZenonT(60) DEF Members
<1>38. \A v \in Nat \ {0} : [s EXCEPT !.next = v] \in Members
  BY ZenonT(60) DEF Members
<1>39. \A v \in {"none", "assert", "nullif", "nulltask", "abort"} : [s EXCEPT !.crash = v] \in Members
  BY ZenonT(60) DEF Members
<1> QED
  BY <1>1, <1>2, <1>3, <1>4, <1>5, <1>6, <1>7, <1>8, <1>9, <1>10, <1>11, <1>12, <1>13, <1>14, <1>15, <1>16, <1>17, <1>18, <1>19, <1>20, <1>21, <1>22, <1>23, <1>24, <1>25, <1>26, <1>27, <1>28, <1>29, <1>30, <1>31, <1>32, <1>33, <1>34, <1>35, <1>36, <1>37, <1>38, <1>39
----------------------------------------------------------------------------
(* One element of a member that is a function *)

\* The values of a field of each task, and of a counter, may be replaced one
\* by one.
LEMMA WriteAt ==
  ASSUME NEW s \in Members, NEW t
  PROVE
    /\ \A v \in Stages : [s EXCEPT !.stage[t] = v] \in Members
    /\ \A v \in Tes : [s EXCEPT !.rtes[t] = v] \in Members
    /\ \A v \in Tes : [s EXCEPT !.ftes[t] = v] \in Members
    /\ \A v \in {"none", "launched", "running"} :
         [s EXCEPT !.job[t] = v] \in Members
    /\ \A v \in Reasons : [s EXCEPT !.killed[t] = v] \in Members
    /\ \A v \in Int : [s EXCEPT !.nrun[t] = v] \in Members
<1>1. ASSUME NEW v \in Stages PROVE [s EXCEPT !.stage[t] = v] \in Members
  <2>1. [s.stage EXCEPT ![t] = v] \in [Frames -> Stages]
    BY Read
  <2> QED
    BY <2>1, Write
<1>2. ASSUME NEW v \in Tes PROVE [s EXCEPT !.rtes[t] = v] \in Members
  <2>1. [s.rtes EXCEPT ![t] = v] \in [Frames -> Tes]
    BY Read
  <2> QED
    BY <2>1, Write
<1>3. ASSUME NEW v \in Tes PROVE [s EXCEPT !.ftes[t] = v] \in Members
  <2>1. [s.ftes EXCEPT ![t] = v] \in [Frames -> Tes]
    BY Read
  <2> QED
    BY <2>1, Write
<1>4. ASSUME NEW v \in {"none", "launched", "running"}
      PROVE  [s EXCEPT !.job[t] = v] \in Members
  <2>1. [s.job EXCEPT ![t] = v] \in [Frames -> {"none", "launched", "running"}]
    BY Read
  <2> QED
    BY <2>1, Write
<1>5. ASSUME NEW v \in Reasons PROVE [s EXCEPT !.killed[t] = v] \in Members
  <2>1. [s.killed EXCEPT ![t] = v] \in [Frames -> Reasons]
    BY Read
  <2> QED
    BY <2>1, Write
<1>6. ASSUME NEW v \in Int PROVE [s EXCEPT !.nrun[t] = v] \in Members
  <2>1. [s.nrun EXCEPT ![t] = v] \in [Kinds -> Int]
    BY Read
  <2> QED
    BY <2>1, Write
<1> QED
  BY <1>1, <1>2, <1>3, <1>4, <1>5, <1>6

\* The numbers that are written as such.
LEMMA WriteNumber ==
  ASSUME NEW s \in Members
  PROVE  /\ [s EXCEPT !.sq = 2] \in Members
         /\ [s EXCEPT !.sqa = 2] \in Members
         /\ [s EXCEPT !.caught = 1] \in Members
         /\ [s EXCEPT !.caught = 2] \in Members
         /\ [s EXCEPT !.nth = 0] \in Members
         /\ [s EXCEPT !.quitStep = 1] \in Members
<1>1. 0 \in 0..2 /\ 1 \in 0..2 /\ 2 \in 0..2 /\ 1 \in 0..5
  OBVIOUS
<1> QED
  BY <1>1, Write, Zenon

\* An unused execution status is one.
LEMMA UnsetTyped == Unset \in Tes
  BY DEF Unset, Tes, Reasons

\* A task is rendered or filtered.
LEMMA KindTyped == \A s, t : KindOf(s, t) \in Kinds
  BY DEF KindOf, Kinds

\* A failed assertion leaves the members typed.
LEMMA DieTyped ==
  ASSUME NEW s \in Members, NEW cond,
         NEW how \in {"none", "assert", "nullif", "nulltask", "abort"}
  PROVE  Die(s, how) \in Members /\ Check(s, cond) \in Members
  BY Write DEF Die, Check

\* todo is a list of tasks.
LEMMA TodoTyped ==
  ASSUME NEW s \in Members PROVE Todo(s) \in Seq(Frames)
  BY Read DEF Todo

\* A list keeps its type when a task is taken out.
LEMMA WithoutTyped ==
  ASSUME NEW q \in Seq(Frames), NEW t PROVE Without(q, t) \in Seq(Frames)
<1>1. CASE \E i \in DOMAIN q : q[i] = t
  <2> DEFINE i == CHOOSE i \in DOMAIN q : q[i] = t
  <2>1. i \in DOMAIN q
    BY <1>1
  <2>2. i \in 1..Len(q)
    BY <2>1
  <2> HIDE DEF i
  <2>3. SubSeq(q, 1, i - 1) \in Seq(Frames)
    BY <2>2
  <2>4. SubSeq(q, i + 1, Len(q)) \in Seq(Frames)
    BY <2>2
  <2>5. SubSeq(q, 1, i - 1) \o SubSeq(q, i + 1, Len(q)) \in Seq(Frames)
    BY <2>3, <2>4
  <2> QED
    BY <1>1, <2>5 DEF Without, i
<1>2. CASE ~\E i \in DOMAIN q : q[i] = t
  BY <1>2 DEF Without
<1> QED
  BY <1>1, <1>2

\* What is found in a list is a task.
LEMMA FirstInTyped ==
  ASSUME NEW q \in Seq(Frames), NEW S PROVE FirstIn(q, S) \in Frames \cup {NoTask}
<1> DEFINE E == {i \in DOMAIN q : q[i] \in S}
           First(i) == i \in E /\ \A j \in E : i <= j
<1>1. CASE \E i \in E : \A j \in E : i <= j
  <2> DEFINE k == CHOOSE i \in E : \A j \in E : i <= j
  <2>1. k \in E
    BY <1>1
  <2>2. k \in DOMAIN q
    BY <2>1
  <2> HIDE DEF k
  <2>3. q[k] \in Frames
    BY <2>2
  <2>4. FirstIn(q, S) = q[k]
    BY <1>1 DEF FirstIn, k
  <2> QED
    BY <2>3, <2>4
<1>2. CASE ~\E i \in E : \A j \in E : i <= j
  BY <1>2 DEF FirstIn
<1> QED
  BY <1>1, <1>2

----------------------------------------------------------------------------
(* The task source *)

\* Connect() keeps the members typed.
LEMMA ConnectTyped == ASSUME NEW s \in Members PROVE TSConnect(s) \in Members
  BY DieTyped, Write DEF TSConnect, Actions

\* GetTask() keeps the members typed.
LEMMA GetTaskTyped == ASSUME NEW s \in Members PROVE TSGetTask(s) \in Members
<1> DEFINE r == Check(s, s.srcPend = "ANone" /\ s.srcConn)
           n == IF r.nth = 0 THEN 1 ELSE 2
<1>1. r \in Members
  BY DieTyped
<1>2. n \in 0..2
  OBVIOUS
<1> DEFINE a == [r EXCEPT !.srcPend = "AGetTask"]
           b == [a EXCEPT !.pending = "AGetTask"]
<1>3. b \in Members
  BY <1>1, Write DEF Actions
<1>4. TSGetTask(s) = [b EXCEPT !.nth = n]
  BY DEF TSGetTask
<1> HIDE DEF r, n, a, b
<1>5. [b EXCEPT !.nth = n] \in Members
  BY <1>2, <1>3, Write
<1> QED
  BY <1>4, <1>5

\* DoneTask() keeps the members typed.
LEMMA DoneTaskTyped ==
  ASSUME NEW s \in Members, NEW t \in Frames PROVE TSDoneTask(s, t) \in Members
  BY DieTyped, Write DEF TSDoneTask, Actions

\* Disconnect() keeps the members typed.
LEMMA DisconnectTyped ==
  ASSUME NEW s \in Members, NEW quit \in BOOLEAN
  PROVE  TSDisconnect(s, quit) \in Members
  BY DieTyped, Write DEF TSDisconnect, Actions

\* The answers of the source keep the members typed.
LEMMA AnswersTyped ==
  ASSUME NEW s \in Members
  PROVE  /\ SrcConnected(s) \in Members /\ SrcNoTask(s) \in Members
         /\ SrcHandOut(s) \in Members /\ SrcDisconnected(s) \in Members
         /\ \A skips \in BOOLEAN : SrcGetFails(s, skips) \in Members
<1>1. s.next + 1 \in Nat \ {0} /\ s.next \in Nat \ {0}
  BY Read
<1>2. "ANone" \in Actions
  BY DEF Actions
<1>3. SrcConnected(s) \in Members
  BY <1>2, Write DEF SrcConnected
<1>4. SrcHandOut(s) \in Members
  BY <1>1, <1>2, Write DEF SrcHandOut
<1>5. SrcNoTask(s) \in Members
  BY <1>2, Write DEF SrcNoTask
<1>6. \A skips \in BOOLEAN : SrcGetFails(s, skips) \in Members
  BY <1>1, <1>2, Write DEF SrcGetFails
<1>7. SrcDisconnected(s) \in Members
  BY <1>2, Write DEF SrcDisconnected
<1> QED
  BY <1>3, <1>4, <1>5, <1>6, <1>7

\* So does taking a done task back.
LEMMA TakeBackTyped ==
  ASSUME NEW s \in Members PROVE SrcTakeBack(s) \in Members
<1> DEFINE a == [s EXCEPT !.srcPend = "ANone"]
           b == [a EXCEPT !.srcDone = NoTask]
           c == [b EXCEPT !.stage[s.srcDone] = "TaskDone"]
           d == [c EXCEPT !.rtes[s.srcDone] = Unset]
           e == [d EXCEPT !.ftes[s.srcDone] = Unset]
<1>1. a \in Members
  BY Write DEF Actions
<1>2. b \in Members
  BY <1>1, Write
<1>3. c \in Members
  BY <1>2, WriteAt DEF Stages
<1>4. d \in Members
  BY <1>3, WriteAt, UnsetTyped
<1>5. e \in Members
  BY <1>4, WriteAt, UnsetTyped
<1>6. SrcTakeBack(s) = e
  BY DEF SrcTakeBack
<1> QED
  BY <1>5, <1>6

----------------------------------------------------------------------------
(* The driver interface *)

\* What GetTaskToStart() returns is a task of todo, or NULL.
LEMMA GetTaskToStartTyped ==
  ASSUME NEW s \in Members PROVE GetTaskToStart(s) \in Frames \cup {NoTask}
  BY TodoTyped, FirstInTyped DEF GetTaskToStart

\* The first stage of a task is a stage.
LEMMA SetUpStateTyped ==
  ASSUME NEW s \in Members, NEW t PROVE NewTask_SetUpState(s, t) \in Members
<1>1. (IF t \in RenderFrames THEN "ToBeRendered" ELSE "ToBeFiltered") \in Stages
  BY DEF Stages
<1> QED
  BY <1>1, WriteAt DEF NewTask_SetUpState

\* Starting a job counts in running_jobs.
LEMMA ForkTyped ==
  ASSUME NEW s \in Members, NEW t PROVE ForkJob(s, t) \in Members
<1> DEFINE r == [s EXCEPT !.job[t] = "launched"]
           n == s.nrun[KindOf(s, t)] + 1
<1>1. r \in Members
  BY WriteAt
<1>2. n \in Int
  BY Read, KindTyped
<1>3. ForkJob(s, t) = [r EXCEPT !.nrun[KindOf(s, t)] = n]
  BY DEF ForkJob
<1> HIDE DEF r, n
<1>4. [r EXCEPT !.nrun[KindOf(s, t)] = n] \in Members
  BY <1>1, <1>2, WriteAt
<1> QED
  BY <1>3, <1>4

\* Storing an execution status in the part of the task that failed.
LEMMA StoreFailureTyped ==
  ASSUME NEW s \in Members, NEW t, NEW tes \in Tes
  PROVE  StoreFailure(s, t, tes) \in Members
  BY WriteAt DEF StoreFailure

\* A job that could not be forked is counted nowhere and leaves a driver.
LEMMA ForkFailedTyped ==
  ASSUME NEW s \in Members, NEW t PROVE ForkFailed(s, t) \in Members
<1> DEFINE r == StoreFailure(s, t, [Unset EXCEPT !.end = "Failed"])
<1>1. [Unset EXCEPT !.end = "Failed"] \in Tes
  BY DEF Unset, Tes, Reasons
<1>2. r \in Members
  BY <1>1, StoreFailureTyped
<1>3. ForkFailed(s, t) = [r EXCEPT !.dead = @ \cup {"unforked"}]
  BY DEF ForkFailed
<1> HIDE DEF r
<1>4. r.dead \cup {"unforked"} \in SUBSET {"forked", "unforked"}
  BY <1>2, Read
<1>5. [r EXCEPT !.dead = @ \cup {"unforked"}] \in Members
  BY <1>2, <1>4, Write
<1> QED
  BY <1>3, <1>5

\* A job that is gone is uncounted and leaves a driver.
LEMMA JobGoneTyped ==
  ASSUME NEW s \in Members, NEW t PROVE JobGone(s, t) \in Members
<1> DEFINE a == [s EXCEPT !.job[t] = "none"]
           b == [a EXCEPT !.killed[t] = "NotKilled"]
           D == s.dead \cup {"forked"}
           c == [b EXCEPT !.dead = D]
           n == s.nrun[KindOf(s, t)] - 1
<1>1. a \in Members
  BY WriteAt
<1>2. b \in Members
  BY <1>1, WriteAt DEF Reasons
<1>3. D \in SUBSET {"forked", "unforked"}
  BY Read
<1>4. c \in Members
  BY <1>2, <1>3, Write
<1>5. n \in Int
  BY Read, KindTyped
<1>6. JobGone(s, t) = [c EXCEPT !.nrun[KindOf(s, t)] = n]
  BY DEF JobGone
<1> HIDE DEF a, b, c, n
<1>7. [c EXCEPT !.nrun[KindOf(s, t)] = n] \in Members
  BY <1>4, <1>5, WriteAt
<1> QED
  BY <1>6, <1>7

\* A job that succeeded moves its task to the next stage.
LEMMA JobSucceededTyped ==
  ASSUME NEW s \in Members, NEW t PROVE JobSucceeded(s, t) \in Members
<1> DEFINE tes == [Unset EXCEPT !.end = "Success"]
           r == JobGone(s, t)
           next == IF t \in FilterFrames THEN "ToBeFiltered" ELSE "TaskDone"
           a == [r EXCEPT !.rtes[t] = tes]
           b == [r EXCEPT !.ftes[t] = tes]
<1>1. r \in Members
  BY JobGoneTyped
<1>2. tes \in Tes
  BY DEF Unset, Tes, Reasons
<1>3. next \in Stages /\ "TaskDone" \in Stages
  BY DEF Stages
<1>4. a \in Members /\ b \in Members
  BY <1>1, <1>2, WriteAt
<1>5. JobSucceeded(s, t) = IF s.stage[t] = "ToBeRendered"
                           THEN [a EXCEPT !.stage[t] = next]
                           ELSE [b EXCEPT !.stage[t] = "TaskDone"]
  BY DEF JobSucceeded
<1> HIDE DEF r, tes, next, a, b
<1>6. [a EXCEPT !.stage[t] = next] \in Members
      /\ [b EXCEPT !.stage[t] = "TaskDone"] \in Members
  BY <1>3, <1>4, WriteAt
<1> QED
  BY <1>5, <1>6

\* A job that failed leaves its status.
LEMMA JobFailedTyped ==
  ASSUME NEW s \in Members, NEW t \in Frames, NEW resume \in BOOLEAN
  PROVE  JobFailed(s, t, resume) \in Members
<1>1. [end |-> "Failed", jk |-> s.killed[t], resume |-> resume] \in Tes
  BY Read DEF Tes
<1> QED
  BY <1>1, JobGoneTyped, StoreFailureTyped DEF JobFailed

\* Killing one job, and all of them.
LEMMA KillTyped ==
  ASSUME NEW s \in Members, NEW reason \in Reasons
  PROVE  /\ \A t : KillProcess(s, t, reason) \in Members
         /\ TermAllJobs(s, reason) \in Members
<1>1. \A t : KillProcess(s, t, reason) \in Members
  BY WriteAt DEF KillProcess
<1>2. [u \in Frames |-> IF u \in Jobs(s) THEN reason ELSE s.killed[u]]
        \in [Frames -> Reasons]
  BY Read
<1>3. TermAllJobs(s, reason) \in Members
  BY <1>2, DieTyped, Write DEF TermAllJobs
<1> QED
  BY <1>1, <1>3

----------------------------------------------------------------------------
(* The manager: starting jobs *)

\* Arming the schedule timer keeps the members typed.
LEMMA ReSchedTyped == ASSUME NEW s \in Members PROVE ReSched(s) \in Members
  BY Write DEF ReSched

\* KillScheduled() keeps the members typed.
LEMMA KillScheduledTyped ==
  ASSUME NEW s \in Members PROVE KillScheduledForStart(s) \in Members
<1> DEFINE p == s.poll /\ s.load
<1>1. p \in BOOLEAN
  OBVIOUS
<1>2. KillScheduledForStart(s) =
        IF s.sfs = NoTask THEN s ELSE [s EXCEPT !.sfs = NoTask, !.poll = p]
  BY DEF KillScheduledForStart
<1> HIDE DEF p
<1>3. [s EXCEPT !.sfs = NoTask, !.poll = p] \in Members
  BY <1>1, Write
<1> QED
  BY <1>2, <1>3

\* DoCheckLoad() keeps the members typed.
LEMMA DoCheckLoadTyped ==
  ASSUME NEW s \in Members, NEW lv PROVE DoCheckLoad(s, lv) \in Members
<1>1. (IF s.load THEN lv # "high" ELSE lv = "low") \in BOOLEAN
  OBVIOUS
<1> QED
  BY <1>1, Write DEF DoCheckLoad

\* CheckStartTasks() keeps the members typed.
LEMMA CheckStartTasksTyped ==
  ASSUME NEW s \in Members, NEW lv PROVE CheckStartTasks(s, lv) \in Members
<1>1. ASSUME NEW t \in Frames PROVE DoScheduleForStart(s, t, lv) \in Members
  <2> DEFINE r == DoCheckLoad([s EXCEPT !.sfs = t], lv)
  <2>1. r \in Members
    BY DoCheckLoadTyped, Write
  <2> HIDE DEF r
  <2>2. ReSched(r) \in Members /\ [r EXCEPT !.poll = TRUE] \in Members
    BY <2>1, ReSchedTyped, Write
  <2> QED
    BY <2>2 DEF DoScheduleForStart, r
<1>2. GetTaskToStart(s) \in Frames \cup {NoTask}
  BY GetTaskToStartTyped
<1> QED
  BY <1>1, <1>2 DEF CheckStartTasks

----------------------------------------------------------------------------
(* The manager: the exchange with the source *)

\* CheckStartExchange() keeps the members typed.
LEMMA CheckStartExchangeTyped ==
  ASSUME NEW s \in Members PROVE CheckStartExchange(s) \in Members
  BY ConnectTyped DEF CheckStartExchange

\* Dequeue() keeps the members typed.
LEMMA DequeueTyped ==
  ASSUME NEW s \in Members, NEW t PROVE Dequeue(s, t) \in Members
<1>1. Without(s.refilter, t) \in Seq(Frames) /\ Without(s.fresh, t) \in Seq(Frames)
  BY Read, WithoutTyped
<1> QED
  BY <1>1, Write DEF Dequeue

\* GiveBackDone() keeps the members typed.
LEMMA GiveBackDoneTyped ==
  ASSUME NEW s \in Members, s.done # <<>> PROVE GiveBackDone(s) \in Members
<1>1. s.done \in Seq(Frames)
  BY Read
<1>2. Head(s.done) \in Frames /\ Tail(s.done) \in Seq(Frames)
  BY <1>1
<1>3. [s EXCEPT !.done = Tail(@), !.tsgod = "ADoneTask"] \in Members
  BY <1>2, Write DEF Actions
<1> QED
  BY <1>2, <1>3, DoneTaskTyped DEF GiveBackDone

\* What is given back unprocessed is a task.
LEMMA SpecialDoneTyped ==
  ASSUME NEW s \in Members, CanDoneTask(s), s.done = <<>>
  PROVE  SpecialDone(s) \in Frames
<1>1. s.refilter \in Seq(Frames) /\ s.fresh \in Seq(Frames)
  BY Read
<1>2. s.refilter # <<>> \/ s.fresh # <<>> => Head(Todo(s)) \in Frames
  <2>1. Todo(s) \in Seq(Frames)
    BY <1>1 DEF Todo
  <2>2. s.refilter # <<>> \/ s.fresh # <<>> => Len(Todo(s)) > 0
    <3> DEFINE a == Len(s.refilter)
               b == Len(s.fresh)
    <3>1. Len(Todo(s)) = a + b
      BY <1>1 DEF Todo
    <3>2. (s.refilter # <<>> => a > 0) /\ (s.fresh # <<>> => b > 0)
      BY <1>1
    <3>3. a \in Nat /\ b \in Nat
      BY <1>1
    <3> HIDE DEF a, b
    <3>4. a > 0 \/ b > 0 => a + b > 0
      BY <3>3
    <3> QED
      BY <3>1, <3>2, <3>4, Zenon
  <2>3. Len(Todo(s)) > 0 => Todo(s)[1] \in Frames
    BY <2>1
  <2>4. Head(Todo(s)) = Todo(s)[1]
    BY <2>1
  <2> QED
    BY <2>2, <2>3, <2>4
<1>3. s.fresh # <<>> => Head(s.fresh) \in Frames
  BY <1>1
<1> QED
  BY <1>2, <1>3 DEF SpecialDone, CanDoneTask, TodoEmpty

\* GiveBackSpecial() keeps the members typed.
LEMMA GiveBackSpecialTyped ==
  ASSUME NEW s \in Members, CanDoneTask(s), s.done = <<>>
  PROVE  GiveBackSpecial(s) \in Members
<1> DEFINE t == SpecialDone(s)
           r == [s EXCEPT !.tdaf = FALSE, !.tsgod = "ADoneTask"]
           k == IF s.sfs = t THEN KillScheduledForStart(r) ELSE r
<1>1. t \in Frames
  BY SpecialDoneTyped
<1>2. r \in Members
  BY Write DEF Actions
<1>3. k \in Members
  BY <1>2, KillScheduledTyped
<1> HIDE DEF t, k
<1>4. TSDoneTask(Dequeue(k, t), t) \in Members
  BY <1>1, <1>3, DequeueTyped, DoneTaskTyped
<1> QED
  BY <1>4 DEF GiveBackSpecial, t, k

\* GetOrDoneTask() keeps the members typed.
LEMMA GetOrDoneTaskTyped ==
  ASSUME NEW s \in Members PROVE GetOrDoneTask(s) \in Members
<1>1. CanDoneTask(s) /\ s.done # <<>> => GiveBackDone(s) \in Members
  BY GiveBackDoneTyped
<1>2. CanDoneTask(s) /\ s.done = <<>> => GiveBackSpecial(s) \in Members
  BY GiveBackSpecialTyped
<1>3. [s EXCEPT !.tsgod = "AGetTask"] \in Members
      /\ [s EXCEPT !.tsgod = "ANone"] \in Members
  BY Write DEF Actions
<1>4. TSGetTask([s EXCEPT !.tsgod = "AGetTask"]) \in Members
  BY <1>3, GetTaskTyped
<1>5. TSDisconnect([s EXCEPT !.tsgod = "ANone"], FALSE) \in Members
  BY <1>3, DisconnectTyped
<1> QED
  BY <1>1, <1>2, <1>4, <1>5, DieTyped DEF GetOrDoneTask

----------------------------------------------------------------------------
(* The manager: what happens to tasks *)

\* DontStart() keeps the members typed.
LEMMA DontStartTyped ==
  ASSUME NEW s \in Members PROVE DontStartMoreTasks(s) \in Members
<1> DEFINE r == KillScheduledForStart([s EXCEPT !.dsmt = TRUE])
<1>1. r \in Members
  BY KillScheduledTyped, Write
<1> HIDE DEF r
<1>2. r.done \o s.refilter \in Seq(Frames) /\ <<>> \in Seq(Frames)
  BY <1>1, Read
<1>3. [r EXCEPT !.done = @ \o s.refilter, !.refilter = <<>>] \in Members
  BY <1>1, <1>2, Write
<1> QED
  BY <1>3 DEF DontStartMoreTasks, r

\* HandleSuccessfulJob() keeps the members typed.
LEMMA HandleSuccessfulJobTyped ==
  ASSUME NEW s \in Members, NEW t \in Frames, NEW lv
  PROVE  HandleSuccessfulJob(s, t, lv) \in Members
<1> DEFINE out  == [s EXCEPT !.failed = 0, !.proc = @ \ {t}]
           done == [out EXCEPT !.done = Append(@, t)]
           todo == [out EXCEPT !.refilter = <<t>> \o @]
<1>1. out \in Members
  <2>1. s.proc \ {t} \in SUBSET Frames
    BY Read
  <2> QED
    BY <2>1, Write
<1> HIDE DEF out
<1>2. Append(out.done, t) \in Seq(Frames)
  BY <1>1, Read
<1>3. done \in Members
  BY <1>1, <1>2, Write
<1>4. <<t>> \o out.refilter \in Seq(Frames)
  <2>1. out.refilter \in Seq(Frames) /\ <<t>> \in Seq(Frames)
    BY <1>1, Read
  <2> QED
    BY <2>1
<1>5. todo \in Members
  BY <1>1, <1>4, Write
<1> HIDE DEF done, todo
<1>6. CheckStartExchange(CheckStartTasks(done, lv)) \in Members
  BY <1>3, CheckStartTasksTyped, CheckStartExchangeTyped
<1>7. CheckStartTasks(IF s.dsmt THEN DontStartMoreTasks(todo) ELSE todo, lv)
        \in Members
  BY <1>5, DontStartTyped, CheckStartTasksTyped
<1> QED
  BY <1>6, <1>7 DEF HandleSuccessfulJob, out, done, todo

\* CountFailure() keeps the members typed.
LEMMA CountFailureTyped ==
  ASSUME NEW s \in Members, NEW t PROVE CountFailure(s, t) \in Members
<1> DEFINE r == [s EXCEPT !.failed = @ + 1]
<1>1. r \in Members
  <2>1. s.failed + 1 \in Nat
    BY Read
  <2> QED
    BY <2>1, Write
<1>2. [DontStartMoreTasks(r) EXCEPT !.sq = 2] \in Members
  BY <1>1, DontStartTyped, WriteNumber
<1> HIDE DEF r
<1> QED
  BY <1>1, <1>2, ReSchedTyped DEF CountFailure, r

\* HandleFailedTask() keeps the members typed.
LEMMA HandleFailedTaskTyped ==
  ASSUME NEW s \in Members, NEW t \in Frames, NEW lv
  PROVE  HandleFailedTask(s, t, lv) \in Members
<1> DEFINE k == IF t = s.sfs THEN Dequeue(KillScheduledForStart(s), t)
                             ELSE [s EXCEPT !.proc = @ \ {t}]
           d == [k EXCEPT !.done = Append(@, t)]
           c == CountFailure(d, t)
           r == CheckStartExchange(CheckStartTasks(c, lv))
           b == r.tdaf \/ r.connected
<1>1. k \in Members
  <2>1. s.proc \ {t} \in SUBSET Frames
    BY Read
  <2>2. [s EXCEPT !.proc = @ \ {t}] \in Members
    BY <2>1, Write
  <2> QED
    BY <2>2, KillScheduledTyped, DequeueTyped
<1> HIDE DEF k
<1>2. d \in Members
  <2>1. Append(k.done, t) \in Seq(Frames)
    BY <1>1, Read
  <2> QED
    BY <1>1, <2>1, Write
<1> HIDE DEF d
<1>3. c \in Members
  BY <1>2, CountFailureTyped
<1> HIDE DEF c
<1>4. r \in Members
  BY <1>3, CheckStartTasksTyped, CheckStartExchangeTyped
<1> HIDE DEF r
<1>5. b \in BOOLEAN
  OBVIOUS
<1> HIDE DEF b
<1>6. [r EXCEPT !.tdaf = b] \in Members
  BY <1>4, <1>5, Write
<1> QED
  BY <1>6 DEF HandleFailedTask, k, d, c, r, b

\* LaunchingTaskDone() keeps the members typed.
LEMMA LaunchingTaskDoneTyped ==
  ASSUME NEW s \in Members, NEW lv PROVE LaunchingTaskDone(s, lv) \in Members
  BY CheckStartTasksTyped, CheckStartExchangeTyped DEF LaunchingTaskDone

\* TakeFreshTask() keeps the members typed.
LEMMA TakeFreshTaskTyped ==
  ASSUME NEW s \in Members, NEW t \in Frames, NEW lv
  PROVE  TakeFreshTask(s, t, lv) \in Members
<1> DEFINE a == [s EXCEPT !.fresh = Append(@, t)]
           r == NewTask_SetUpState(a, t)
<1>1. a \in Members
  <2>1. Append(s.fresh, t) \in Seq(Frames)
    BY Read
  <2> QED
    BY <2>1, Write
<1>2. r \in Members
  BY <1>1, SetUpStateTyped
<1> HIDE DEF a, r
<1> QED
  BY <1>2, DontStartTyped, CheckStartTasksTyped, CheckStartExchangeTyped
     DEF TakeFreshTask, a, r

----------------------------------------------------------------------------
(* The manager: answers of the source *)

\* Answered() keeps the members typed.
LEMMA AnsweredTyped == ASSUME NEW s \in Members PROVE Answered(s) \in Members
  BY Write DEF Answered, Actions

\* TSConnected() keeps the members typed.
LEMMA TSConnectedTyped == ASSUME NEW s \in Members PROVE TSConnected(s) \in Members
<1> DEFINE r == [Answered(s) EXCEPT !.connected = TRUE, !.tsgod = "ANone"]
<1>2. r \in Members
  BY AnsweredTyped, Write DEF Actions
<1>1. [Answered(s) EXCEPT !.connected = TRUE, !.tsgod = "ANone", !.nth = 0]
        \in Members
  <2>1. [Answered(s) EXCEPT !.connected = TRUE, !.tsgod = "ANone", !.nth = 0]
          = [r EXCEPT !.nth = 0]
    OBVIOUS
  <2> HIDE DEF r
  <2>2. [r EXCEPT !.nth = 0] \in Members
    BY <1>2, WriteNumber
  <2> QED
    BY <2>1, <2>2
<1> QED
  BY <1>1, GetOrDoneTaskTyped DEF TSConnected

\* TSGotTask() keeps the members typed.
LEMMA TSGotTaskTyped ==
  ASSUME NEW s \in Members, NEW t \in Frames, NEW lv
  PROVE  TSGotTask(s, t, lv) \in Members
  BY AnsweredTyped, TakeFreshTaskTyped, GetOrDoneTaskTyped DEF TSGotTask

\* TSNoMoreTasks() keeps the members typed.
LEMMA TSNoMoreTasksTyped ==
  ASSUME NEW s \in Members PROVE TSNoMoreTasks(s) \in Members
<1> DEFINE r == Answered(s)
           q == IF r.sqa = 0 THEN 1 ELSE r.sqa
<1>1. r \in Members
  BY AnsweredTyped
<1> HIDE DEF r
<1>2. q \in 0..2
  BY <1>1, Read
<1> HIDE DEF q
<1>3. [r EXCEPT !.sqa = q] \in Members
  BY <1>1, <1>2, Write
<1> QED
  BY <1>3, ReSchedTyped DEF TSNoMoreTasks, r, q

\* TSGetFailed() keeps the members typed.
LEMMA TSGetFailedTyped ==
  ASSUME NEW s \in Members PROVE TSGetFailed(s) \in Members
<1>1. [Answered(s) EXCEPT !.sqa = 2] \in Members
      /\ [Answered(s) EXCEPT !.tdaf = TRUE] \in Members
  BY AnsweredTyped, Write, WriteNumber
<1> QED
  BY <1>1, ReSchedTyped, GetOrDoneTaskTyped DEF TSGetFailed

\* TSTookDone() keeps the members typed.
LEMMA TSTookDoneTyped == ASSUME NEW s \in Members PROVE TSTookDone(s) \in Members
  BY AnsweredTyped, GetOrDoneTaskTyped DEF TSTookDone

\* TSDisconnected() keeps the members typed.
LEMMA TSDisconnectedTyped ==
  ASSUME NEW s \in Members, NEW quit PROVE TSDisconnected(s, quit) \in Members
<1>1. [Answered(s) EXCEPT !.connected = FALSE] \in Members
  BY AnsweredTyped, Write
<1> QED
  BY <1>1, DieTyped, ReSchedTyped DEF TSDisconnected

----------------------------------------------------------------------------
(* The manager: signals *)

\* ScheduleQuit() keeps the members typed.
LEMMA ScheduleQuitTyped ==
  ASSUME NEW s \in Members PROVE ScheduleQuit(s) \in Members
<1> DEFINE q == IF s.sq = 0 THEN 1 ELSE s.sq
<1>1. q \in 0..2
  BY Read
<1> HIDE DEF q
<1>2. [s EXCEPT !.sq = q] \in Members
  BY <1>1, Write
<1> QED
  BY <1>2, KillScheduledTyped DEF ScheduleQuit, q

\* ScheduleKill() keeps the members typed.
LEMMA ScheduleKillTyped ==
  ASSUME NEW s \in Members PROVE ScheduleKill(s) \in Members
<1> DEFINE r == [DontStartMoreTasks(s) EXCEPT !.sq = 2]
           k == [r EXCEPT !.killTasks = TRUE]
<1>1. r \in Members
  BY DontStartTyped, WriteNumber
<1>2. k \in Members
  BY <1>1, Write
<1>3. ScheduleKill(s) = [k EXCEPT !.abortOn = TRUE]
  BY DEF ScheduleKill
<1> HIDE DEF k
<1>4. [k EXCEPT !.abortOn = TRUE] \in Members
  BY <1>2, Write
<1> QED
  BY <1>3, <1>4

\* SigInt() keeps the members typed.
LEMMA SigIntTyped == ASSUME NEW s \in Members PROVE SigInt(s) \in Members
<1>1. [ScheduleQuit(s) EXCEPT !.caught = 1] \in Members
  BY ScheduleQuitTyped, WriteNumber
<1>2. [ScheduleKill(s) EXCEPT !.caught = 2] \in Members
  BY ScheduleKillTyped, WriteNumber
<1> QED
  BY <1>1, <1>2, DieTyped, ReSchedTyped DEF SigInt, OnSignal

\* SigTerm() keeps the members typed.
LEMMA SigTermTyped == ASSUME NEW s \in Members PROVE SigTerm(s) \in Members
  BY ScheduleQuitTyped, ScheduleKillTyped, DieTyped, ReSchedTyped
     DEF SigTerm, OnSignal

\* SigTstp() keeps the members typed.
LEMMA SigTstpTyped == ASSUME NEW s \in Members PROVE SigTstp(s) \in Members
  BY Write, DieTyped DEF SigTstp, OnSignal

\* SigCont() keeps the members typed.
LEMMA SigContTyped ==
  ASSUME NEW s \in Members, NEW lv PROVE SigCont(s, lv) \in Members
<1>1. [s EXCEPT !.stopped = FALSE] \in Members
  BY Write
<1> QED
  BY <1>1, CheckStartExchangeTyped, CheckStartTasksTyped, ReSchedTyped, DieTyped
     DEF SigCont, OnSignal

----------------------------------------------------------------------------
(* The manager: _schedule() *)

\* ActuallyQuit() keeps the members typed.
LEMMA ActuallyQuitTyped ==
  ASSUME NEW s \in Members, NEW status \in 0..2
  PROVE  ActuallyQuit(s, status) \in Members
<1> DEFINE r == [s EXCEPT !.quitStep = 1]
<1>1. r \in Members
  BY WriteNumber
<1>2. [s EXCEPT !.quitStep = 1, !.status = status] = [r EXCEPT !.status = status]
  OBVIOUS
<1> HIDE DEF r
<1>3. [r EXCEPT !.status = status] \in Members
  BY <1>1, Write
<1> QED
  BY <1>2, <1>3, ReSchedTyped DEF ActuallyQuit

\* QuitCountdown() keeps the members typed.
LEMMA QuitCountdownTyped ==
  ASSUME NEW s \in Members, s.quitStep < 5 PROVE QuitCountdown(s) \in Members
<1> DEFINE r == IF s.quitStep = 2 THEN DestructCleanup(s) ELSE s
<1>1. r \in Members
  BY DieTyped DEF DestructCleanup
<1>2. r.quitStep = s.quitStep
  <2>1. r = s \/ r = [s EXCEPT !.crash = "assert"]
    BY DEF DestructCleanup, Check, Die
  <2>2. [s EXCEPT !.crash = "assert"].quitStep = s.quitStep
    BY ZenonT(60) DEF Members
  <2> QED
    BY <2>1, <2>2
<1>3. r.quitStep + 1 \in 0..5
  BY <1>2, Read
<1> HIDE DEF r
<1>4. [r EXCEPT !.quitStep = @ + 1] \in Members
  BY <1>1, <1>3, Write
<1> QED
  BY <1>4 DEF QuitCountdown, r

\* StartProcessing() keeps the members typed.
LEMMA StartProcessingTyped ==
  ASSUME NEW s \in Members PROVE StartProcessing(s) \in Members
<1>1. [s EXCEPT !.tid0 = FALSE, !.started = TRUE] \in Members
  BY Write
<1> QED
  BY <1>1, ConnectTyped, ActuallyQuitTyped DEF StartProcessing

\* KillJobs() keeps the members typed.
LEMMA KillJobsTyped == ASSUME NEW s \in Members PROVE KillJobs(s) \in Members
<1>1. TermAllJobs(s, "UserIntr") \in Members
  BY KillTyped DEF Reasons
<1> QED
  BY <1>1, Write DEF KillJobs

\* LaunchScheduled() keeps the members typed.
LEMMA LaunchScheduledTyped ==
  ASSUME NEW s \in Members, NEW forked, NEW lv
  PROVE  LaunchScheduled(s, forked, lv) \in Members
<1> DEFINE t  == s.sfs
           up == Dequeue(KillScheduledForStart(ForkJob(s, t)), t)
           in == [up EXCEPT !.proc = @ \cup {t}]
           no == KillScheduledForStart(HandleFailedTask(ForkFailed(s, t), t, lv))
<1>1. CASE s.sfs # NoTask /\ s.load
  <2>1. t \in Frames
    BY <1>1, Read
  <2>2. up \in Members
    BY ForkTyped, KillScheduledTyped, DequeueTyped
  <2>3. no \in Members
    BY <2>1, ForkFailedTyped, HandleFailedTaskTyped, KillScheduledTyped
  <2> HIDE DEF up, no, t
  <2>4. up.proc \cup {t} \in SUBSET Frames
    BY <2>1, <2>2, Read
  <2>5. in \in Members
    BY <2>2, <2>4, Write
  <2> HIDE DEF in
  <2>6. CheckStartTasks(in, lv) \in Members /\ CheckStartTasks(no, lv) \in Members
    BY <2>3, <2>5, CheckStartTasksTyped
  <2> QED
    BY <1>1, <2>6 DEF LaunchScheduled, t, up, in, no
<1>2. CASE ~(s.sfs # NoTask /\ s.load)
  BY <1>2 DEF LaunchScheduled
<1> QED
  BY <1>1, <1>2

\* GoOnQuitting() keeps the members typed.
LEMMA GoOnQuittingTyped ==
  ASSUME NEW s \in Members PROVE GoOnQuitting(s) \in Members
<1>1. [s EXCEPT !.toldIf = TRUE] \in Members /\ [s EXCEPT !.toldTs = TRUE] \in Members
  BY Write
<1>2. ReSched([s EXCEPT !.toldIf = TRUE]) \in Members
  BY <1>1, ReSchedTyped
<1>3. TSDisconnect([s EXCEPT !.toldTs = TRUE], TRUE) \in Members
  BY <1>1, DisconnectTyped
<1>4. Quitting(s) => ActuallyQuit(s, Largest(s.sq, s.sqa) - 1) \in Members
  <2>1. Quitting(s) => Largest(s.sq, s.sqa) - 1 \in 0..2
    BY Read DEF Quitting, Largest
  <2> QED
    BY <2>1, ActuallyQuitTyped
<1> QED
  BY <1>2, <1>3, <1>4, CheckStartExchangeTyped, GetOrDoneTaskTyped
     DEF GoOnQuitting

\* Schedule() keeps the members typed.
LEMMA ScheduleTyped ==
  ASSUME NEW s \in Members, s.quitStep < 5, NEW forked, NEW lv
  PROVE  Schedule(s, forked, lv) \in Members
<1>1. [s EXCEPT !.tid0 = FALSE] \in Members
  BY Write
<1>2. GoOnQuitting(LaunchScheduled(KillJobs([s EXCEPT !.tid0 = FALSE]), forked, lv))
        \in Members
  BY <1>1, KillJobsTyped, LaunchScheduledTyped, GoOnQuittingTyped
<1> QED
  BY <1>2, QuitCountdownTyped, StartProcessingTyped DEF Schedule

\* LoadPoll() keeps the members typed.
LEMMA LoadPollTyped ==
  ASSUME NEW s \in Members, NEW lv PROVE LoadPoll(s, lv) \in Members
<1>1. DoCheckLoad(s, lv) \in Members
  BY DoCheckLoadTyped
<1>2. [DoCheckLoad(s, lv) EXCEPT !.poll = FALSE] \in Members
      /\ [s EXCEPT !.poll = FALSE] \in Members
  BY <1>1, Write
<1> QED
  BY <1>1, <1>2, ReSchedTyped, DieTyped DEF LoadPoll

\* JobExited() keeps the members typed.
LEMMA JobExitedTyped ==
  ASSUME NEW s \in Members, NEW t \in Frames, NEW ok, NEW resume \in BOOLEAN, NEW lv
  PROVE  JobExited(s, t, ok, resume, lv) \in Members
  BY JobSucceededTyped, JobFailedTyped, HandleSuccessfulJobTyped,
     HandleFailedTaskTyped DEF JobExited

\* TidyUp() keeps the members typed.
LEMMA TidyUpTyped ==
  ASSUME NEW s \in Members, NEW lv PROVE TidyUp(s, lv) \in Members
<1> DEFINE u == [s EXCEPT !.dead = {}]
           r == CheckStartTasks(u, lv)
           q == Largest(r.sq, r.sqa)
<1>1. u \in Members
  BY Write
<1> HIDE DEF u
<1>2. r \in Members
  BY <1>1, CheckStartTasksTyped
<1> HIDE DEF r
<1>3. q \in 0..2
  BY <1>2, Read DEF Largest
<1> HIDE DEF q
<1>4. ReSched([r EXCEPT !.sq = q]) \in Members
  BY <1>2, <1>3, Write, ReSchedTyped
<1>5. CheckStartNewJobs(u, lv) \in Members
  BY <1>1, <1>2, <1>4 DEF CheckStartNewJobs, r, q
<1> QED
  BY <1>5 DEF TidyUp, u

----------------------------------------------------------------------------
(* Types: the handlers of the main loop, put together from their parts *)

\* The constructors leave typed members: the initial values.
LEMMA FreshTyped == Fresh \in Members
<1>1. /\ Fresh.stage \in [Frames -> Stages]
      /\ Fresh.rtes \in [Frames -> Tes] /\ Fresh.ftes \in [Frames -> Tes]
      /\ Fresh.job \in [Frames -> {"none", "launched", "running"}]
      /\ Fresh.killed \in [Frames -> Reasons]
      /\ Fresh.nrun \in [Kinds -> Int]
  BY UnsetTyped DEF Fresh, Stages, Reasons
<1>2. /\ Fresh.refilter \in Seq(Frames) /\ Fresh.fresh \in Seq(Frames)
      /\ Fresh.done \in Seq(Frames)
      /\ Fresh.proc \in SUBSET Frames /\ Fresh.dead \in SUBSET {"forked", "unforked"}
  BY DEF Fresh
<1>3. /\ Fresh.started \in BOOLEAN /\ Fresh.dsmt \in BOOLEAN
      /\ Fresh.killTasks \in BOOLEAN /\ Fresh.toldIf \in BOOLEAN
      /\ Fresh.toldTs \in BOOLEAN /\ Fresh.connected \in BOOLEAN
      /\ Fresh.tdaf \in BOOLEAN /\ Fresh.abortOn \in BOOLEAN
      /\ Fresh.stopped \in BOOLEAN /\ Fresh.load \in BOOLEAN
      /\ Fresh.poll \in BOOLEAN /\ Fresh.tid0 \in BOOLEAN
      /\ Fresh.srcConn \in BOOLEAN /\ Fresh.srcQuit \in BOOLEAN
  BY DEF Fresh
<1>4. /\ Fresh.sq \in 0..2 /\ Fresh.sqa \in 0..2 /\ Fresh.nth \in 0..2
      /\ Fresh.caught \in 0..2 /\ Fresh.status \in 0..2
      /\ Fresh.quitStep \in 0..5 /\ Fresh.failed \in Nat
      /\ Fresh.next \in Nat \ {0}
  BY DEF Fresh
<1>5. /\ Fresh.pending \in Actions /\ Fresh.tsgod \in Actions
      /\ Fresh.srcPend \in Actions
      /\ Fresh.sfs \in Frames \cup {NoTask}
      /\ Fresh.srcDone \in Frames \cup {NoTask}
      /\ Fresh.crash \in {"none", "assert", "nullif", "nulltask", "abort"}
  BY DEF Fresh, Actions
<1> QED
  BY <1>1, <1>2, <1>3, <1>4, <1>5, ZenonT(60) DEF Fresh, Members

\* tsnotify() either ignores an answer or handles it.
LEMMA TSNotifyTyped ==
  ASSUME NEW s \in Members, NEW h \in Members PROVE TSNotify(s, h) \in Members
  BY DEF TSNotify

\* The next timer of the round is the source's, the manager's or none.
LEMMA AfterSourceTyped == AfterSource => turn' \in Turns
  BY DEF AfterSource, Turns

\* A task that is reported gets one of the verdicts.
LEMMA VerdictTyped == \A s, t : Verdict(s, t) \in Verdicts
  BY DEF Verdict, Verdicts

\* The answers of the source, and what tsnotify() makes of them.
LEMMA SourceAnswersTyped == TypeOK /\ SourceAnswers => TypeOK'
<1> SUFFICES ASSUME TypeOK, SourceAnswers PROVE TypeOK'
  OBVIOUS
<1> USE DEF TypeOK
<1>1. CASE SourceConnects
  <2>1. tm' \in Members
    BY <1>1, AnswersTyped, TSConnectedTyped, TSNotifyTyped DEF SourceConnects
  <2> QED
    BY <1>1, <2>1, AfterSourceTyped DEF SourceConnects
<1>2. CASE SourceHandsOut
  <2>1. tm.next \in Frames
    BY <1>2, Read, ConfigAssumption DEF SourceHandsOut, Frames
  <2>2. tm' \in Members
    BY <1>2, <2>1, AnswersTyped, TSGotTaskTyped, TSNotifyTyped DEF SourceHandsOut
  <2> QED
    BY <1>2, <2>2, AfterSourceTyped DEF SourceHandsOut
<1>3. CASE SourceHasNoMore
  <2>1. tm' \in Members
    BY <1>3, AnswersTyped, TSNoMoreTasksTyped, TSNotifyTyped DEF SourceHasNoMore
  <2> QED
    BY <1>3, <2>1, AfterSourceTyped DEF SourceHasNoMore
<1>4. CASE SourceGetFails
  <2>1. tm' \in Members
    BY <1>4, AnswersTyped, TSGetFailedTyped, TSNotifyTyped DEF SourceGetFails
  <2>2. [reported EXCEPT ![tm.next] = "skipped"] \in [Frames -> Verdicts]
    BY DEF Verdicts
  <2> QED
    BY <1>4, <2>1, <2>2, AfterSourceTyped DEF SourceGetFails
<1>5. CASE SourceTakesBack
  <2>1. tm' \in Members
    BY <1>5, TakeBackTyped, TSTookDoneTyped, TSNotifyTyped DEF SourceTakesBack
  <2>2. reported' \in [Frames -> Verdicts]
    BY <1>5, VerdictTyped DEF SourceTakesBack
  <2> QED
    BY <1>5, <2>1, <2>2, AfterSourceTyped DEF SourceTakesBack
<1>6. CASE SourceDisconnects
  <2>1. tm' \in Members
    BY <1>6, AnswersTyped, TSDisconnectedTyped, TSNotifyTyped DEF SourceDisconnects
  <2> QED
    BY <1>6, <2>1, AfterSourceTyped DEF SourceDisconnects
<1> QED
  BY <1>1, <1>2, <1>3, <1>4, <1>5, <1>6 DEF SourceAnswers

\* The manager's timers and the end of a round of the main loop.
LEMMA TimersTyped ==
  TypeOK /\ (ManagerSchedules \/ RoundEnds \/ \E lv \in Readings : ManagerPollsLoad(lv))
    => TypeOK'
<1> SUFFICES ASSUME TypeOK,
                    ManagerSchedules \/ RoundEnds
                      \/ \E lv \in Readings : ManagerPollsLoad(lv)
             PROVE  TypeOK'
  OBVIOUS
<1> USE DEF TypeOK
<1>1. CASE ManagerSchedules
  <2>1. tm.quitStep < 5
    BY <1>1 DEF ManagerSchedules, Running, Alive
  <2>2. tm' \in Members
    BY <1>1, <2>1, ScheduleTyped DEF ManagerSchedules
  <2> QED
    BY <1>1, <2>2 DEF ManagerSchedules, Turns
<1>2. CASE RoundEnds
  <2>1. tm' \in Members
    BY <1>2, TidyUpTyped DEF RoundEnds
  <2> QED
    BY <1>2, <2>1 DEF RoundEnds, Turns
<1>3. CASE \E lv \in Readings : ManagerPollsLoad(lv)
  BY <1>3, LoadPollTyped DEF ManagerPollsLoad
<1> QED
  BY <1>1, <1>2, <1>3

\* What the manager is told about jobs.
LEMMA JobsTyped ==
  ASSUME NEW t \in Frames, TypeOK,
         JobExecutes(t) \/ JobExecFails(t) \/ JobEnds(t) \/ JobTimesOut(t)
  PROVE  TypeOK'
<1> USE DEF TypeOK
<1>1. CASE JobExecutes(t)
  <2>1. [tm EXCEPT !.job[t] = "running"] \in Members
    BY WriteAt
  <2> QED
    BY <1>1, <2>1, LaunchingTaskDoneTyped DEF JobExecutes
<1>2. CASE JobExecFails(t)
  BY <1>2, JobExitedTyped DEF JobExecFails
<1>3. CASE JobEnds(t)
  BY <1>3, JobExitedTyped DEF JobEnds
<1>4. CASE JobTimesOut(t)
  <2>1. "Timeout" \in Reasons
    BY DEF Reasons
  <2> QED
    BY <1>4, <2>1, KillTyped DEF JobTimesOut
<1> QED
  BY <1>1, <1>2, <1>3, <1>4

\* The user's signals.
LEMMA UserTyped == TypeOK /\ User => TypeOK'
<1> SUFFICES ASSUME TypeOK, User PROVE TypeOK'
  OBVIOUS
<1> USE DEF TypeOK
<1>1. CASE UserInterrupts
  BY <1>1, SigIntTyped DEF UserInterrupts
<1>2. CASE UserTerminates
  BY <1>2, SigTermTyped DEF UserTerminates
<1>3. CASE UserStops
  BY <1>3, SigTstpTyped DEF UserStops
<1>4. CASE UserContinues
  BY <1>4, SigContTyped DEF UserContinues
<1> QED
  BY <1>1, <1>2, <1>3, <1>4 DEF User

\* In every reachable state of RendView - whatever the number of frames, the
\* queue thresholds and job limits, and however faults and signals interleave
\* with the callbacks of manager, interface and source - the members have
\* their types: the queues hold frames of this run only (never NULL, although
\* Head() and FirstIn() are taken from queues that may be empty), the pending
\* request, the schedule_quit levels and _actually_quit_step stay in range.
THEOREM RendViewTyped == Spec => []TypeOK
<1>1. Init => TypeOK
  BY FreshTyped DEF Init, TypeOK, Turns, Verdicts
<1>2. TypeOK /\ [Next]_vars => TypeOK'
  <2> SUFFICES ASSUME TypeOK, [Next]_vars PROVE TypeOK'
    OBVIOUS
  <2>1. CASE MainLoop
    BY <2>1, SourceAnswersTyped, TimersTyped DEF MainLoop
  <2>2. CASE \E lv \in Readings : ManagerPollsLoad(lv)
    BY <2>2, TimersTyped
  <2>3. CASE \E t \in Frames : JobExecutes(t) \/ JobExecFails(t)
                               \/ JobEnds(t) \/ JobTimesOut(t)
    BY <2>3, JobsTyped
  <2>4. CASE User
    BY <2>4, UserTyped
  <2>5. CASE UNCHANGED vars
    BY <2>5 DEF vars, TypeOK
  <2> QED
    BY <2>1, <2>2, <2>3, <2>4, <2>5 DEF Next, Gone
<1> QED
  BY <1>1, <1>2, PTL DEF Spec

----------------------------------------------------------------------------
(* Manager and source agree *)

\* The program works: it has started and is not on its way out.
Up(s) == s.started /\ s.quitStep = 0

\* ExchangeAgrees for a record of members, but for the schedule timer.
Exchange(s) ==
  /\ s.pending = s.srcPend
  /\ s.connected = s.srcConn
  /\ s.srcDone # NoTask <=> s.srcPend = "ADoneTask"
  /\ s.srcPend \in {"AGetTask", "ADoneTask"} => s.connected
  /\ s.connected /\ s.srcPend = "ANone" => Quitting(s)
  /\ ~s.started \/ s.quitStep > 0 =>
       ~s.connected /\ s.srcPend = "ANone" /\ Jobs(s) = {}

Awake(s) == s.connected /\ s.srcPend = "ANone" => s.tid0

\* The source has answered and waits for the next request.
Idle(s) ==
  /\ Up(s)
  /\ s.connected /\ s.srcConn
  /\ s.pending = "ANone" /\ s.srcPend = "ANone" /\ s.srcDone = NoTask

\* From s to r nothing changes that the exchange depends on.
Same(s, r) ==
  /\ r.pending = s.pending /\ r.srcPend = s.srcPend
  /\ r.connected = s.connected /\ r.srcConn = s.srcConn
  /\ r.srcDone = s.srcDone
  /\ r.started = s.started /\ r.quitStep = s.quitStep
  /\ r.tid0 = s.tid0 /\ r.sq = s.sq /\ r.sqa = s.sqa
  /\ r.job = s.job

\* From s to r the exchange stays as it is; the timer may be armed, quit
\* scheduled, and, while the program works, jobs may be started.
Keeps(s, r) ==
  /\ r.pending = s.pending /\ r.srcPend = s.srcPend
  /\ r.connected = s.connected /\ r.srcConn = s.srcConn
  /\ r.srcDone = s.srcDone
  /\ r.started = s.started /\ r.quitStep = s.quitStep
  /\ s.tid0 => r.tid0
  /\ Quitting(s) => Quitting(r)
  /\ Jobs(r) \subseteq Jobs(s) \/ Up(s)

\* From s to r the exchange may go on, but stays in order.
Serves(s, r) ==
  Up(s) /\ Exchange(s) => Up(r) /\ Exchange(r) /\ (Awake(s) => Awake(r))

----------------------------------------------------------------------------
(* The relations *)

\* Nothing changes, so the exchange is kept.
LEMMA SameKeeps == ASSUME NEW s, NEW r, Same(s, r) PROVE Keeps(s, r)
<1>1. Quitting(s) => Quitting(r)
  BY DEF Quitting, Same
<1>2. Jobs(r) \subseteq Jobs(s)
  BY DEF Jobs, Same
<1>3. s.tid0 => r.tid0
  BY DEF Same
<1> QED
  BY <1>1, <1>2, <1>3 DEF Keeps, Same

\* Keeps composes.
LEMMA KeepsTrans ==
  ASSUME NEW s, NEW r, NEW q, Keeps(s, r), Keeps(r, q) PROVE Keeps(s, q)
<1>1. Up(r) => Up(s)
  BY DEF Keeps, Up
<1>2. Jobs(q) \subseteq Jobs(s) \/ Up(s)
  BY <1>1 DEF Keeps
<1> QED
  BY <1>2 DEF Keeps

\* What is kept is in order if it was before.
LEMMA KeepsOrder ==
  ASSUME NEW s, NEW r, Keeps(s, r)
  PROVE  /\ Exchange(s) => Exchange(r)
         /\ Awake(s) => Awake(r)
         /\ Up(s) <=> Up(r)
         /\ Idle(s) => Idle(r)
<1>1. Up(s) <=> Up(r)
  BY DEF Keeps, Up
<1>2. Awake(s) => Awake(r)
  BY DEF Keeps, Awake
<1>3. Idle(s) => Idle(r)
  BY <1>1 DEF Keeps, Idle
<1>4. Exchange(s) => Exchange(r)
  <2> SUFFICES ASSUME Exchange(s) PROVE Exchange(r)
    OBVIOUS
  <2>1. ASSUME ~r.started \/ r.quitStep > 0
        PROVE  ~r.connected /\ r.srcPend = "ANone" /\ Jobs(r) = {}
    <3>1. ~s.started \/ s.quitStep > 0
      BY <2>1 DEF Keeps
    <3>2. ~s.connected /\ s.srcPend = "ANone" /\ Jobs(s) = {}
      BY <3>1 DEF Exchange
    <3>3. ~Up(s)
      BY <3>1 DEF Up
    <3> QED
      BY <3>2, <3>3 DEF Keeps
  <2> QED
    BY <2>1 DEF Exchange, Keeps
<1> QED
  BY <1>1, <1>2, <1>3, <1>4

\* What keeps the exchange serves it.
LEMMA KeepsServes == ASSUME NEW s, NEW r, Keeps(s, r) PROVE Serves(s, r)
  BY KeepsOrder DEF Serves

\* Serves composes.
LEMMA ServesTrans ==
  ASSUME NEW s, NEW r, NEW q, Serves(s, r), Serves(r, q) PROVE Serves(s, q)
  BY DEF Serves

----------------------------------------------------------------------------
(* Member functions that leave the exchange alone *)

\* A failed assertion, the scheduled start, the load, tasks taken from todo or
\* set up, jobs to be killed.
LEMMA Untouching ==
  ASSUME NEW s, NEW t, NEW lv, NEW how, NEW cond
  PROVE  /\ Same(s, Die(s, how)) /\ Same(s, Check(s, cond))
         /\ Same(s, KillScheduledForStart(s))
         /\ Same(s, DoCheckLoad(s, lv))
         /\ Same(s, Dequeue(s, t))
         /\ Same(s, NewTask_SetUpState(s, t))
         /\ Same(s, DontStartMoreTasks(s))
         /\ Same(s, StoreFailure(s, t, how))
         /\ Same(s, ForkFailed(s, t))
         /\ Same(s, KillProcess(s, t, how))
         /\ Same(s, TermAllJobs(s, how))
         /\ Same(s, KillJobs(s))
<1>1. Same(s, Die(s, how)) /\ Same(s, Check(s, cond))
  BY DEF Same, Die, Check
<1>2. Same(s, KillScheduledForStart(s))
  BY DEF Same, KillScheduledForStart
<1>3. Same(s, DoCheckLoad(s, lv))
  BY DEF Same, DoCheckLoad
<1>4. Same(s, Dequeue(s, t))
  BY DEF Same, Dequeue
<1>5. Same(s, NewTask_SetUpState(s, t))
  BY DEF Same, NewTask_SetUpState
<1>6. Same(s, DontStartMoreTasks(s))
  BY DEF Same, DontStartMoreTasks, KillScheduledForStart
<1>7. Same(s, StoreFailure(s, t, how)) /\ Same(s, ForkFailed(s, t))
  BY DEF Same, StoreFailure, ForkFailed
<1>8. Same(s, KillProcess(s, t, how)) /\ Same(s, TermAllJobs(s, how))
  BY DEF Same, KillProcess, TermAllJobs, Die
<1>9. Same(s, KillJobs(s))
  BY DEF Same, KillJobs, TermAllJobs, Die
<1> QED
  BY <1>1, <1>2, <1>3, <1>4, <1>5, <1>6, <1>7, <1>8, <1>9

\* Arming the schedule timer.
LEMMA ReSchedKeeps == ASSUME NEW s \in Members PROVE Keeps(s, ReSched(s))
<1>1. ReSched(s).tid0
  BY ReSchedTyped, Read DEF ReSched
<1>2. Quitting(ReSched(s)) = Quitting(s)
  BY DEF ReSched, Quitting
<1>3. Jobs(ReSched(s)) = Jobs(s)
  BY DEF ReSched, Jobs
<1>4. /\ ReSched(s).pending = s.pending /\ ReSched(s).srcPend = s.srcPend
      /\ ReSched(s).connected = s.connected /\ ReSched(s).srcConn = s.srcConn
      /\ ReSched(s).srcDone = s.srcDone
      /\ ReSched(s).started = s.started /\ ReSched(s).quitStep = s.quitStep
  BY DEF ReSched
<1> QED
  BY <1>1, <1>2, <1>3, <1>4 DEF Keeps

\* Looking for a task to start schedules it at most.
LEMMA CheckStartTasksKeeps ==
  ASSUME NEW s \in Members, NEW lv PROVE Keeps(s, CheckStartTasks(s, lv))
<1>1. ASSUME NEW t \in Frames PROVE Keeps(s, DoScheduleForStart(s, t, lv))
  <2> DEFINE a == [s EXCEPT !.sfs = t]
             r == DoCheckLoad(a, lv)
  <2>1. r \in Members
    BY Write, DoCheckLoadTyped
  <2>2. Same(s, a) /\ Same(a, r)
    <3>1. Same(s, a)
      BY DEF Same
    <3> QED
      BY <3>1, Untouching
  <2>3. Same(r, [r EXCEPT !.poll = TRUE])
    BY DEF Same
  <2> HIDE DEF a, r
  <2>4. Keeps(s, r)
    BY <2>2, SameKeeps, KeepsTrans
  <2>5. Keeps(r, ReSched(r)) /\ Keeps(r, [r EXCEPT !.poll = TRUE])
    BY <2>1, <2>3, ReSchedKeeps, SameKeeps
  <2>6. Keeps(s, ReSched(r)) /\ Keeps(s, [r EXCEPT !.poll = TRUE])
    BY <2>4, <2>5, KeepsTrans
  <2> QED
    BY <2>6 DEF DoScheduleForStart, a, r
<1>2. Keeps(s, s)
  BY SameKeeps DEF Same
<1> QED
  BY <1>1, <1>2, GetTaskToStartTyped DEF CheckStartTasks

\* Starting a job, while the program works.
LEMMA ForkKeeps ==
  ASSUME NEW s, NEW t, Up(s) PROVE Keeps(s, ForkJob(s, t))
<1>1. Quitting(ForkJob(s, t)) = Quitting(s)
  BY DEF ForkJob, Quitting
<1> QED
  BY <1>1 DEF ForkJob, Keeps

\* The end of a job.
LEMMA JobGoneKeeps ==
  ASSUME NEW s \in Members, NEW t \in Frames, NEW resume
  PROVE  /\ Keeps(s, JobSucceeded(s, t))
         /\ Keeps(s, JobFailed(s, t, resume))
<1> DEFINE r == JobGone(s, t)
<1>1. Jobs(r) \subseteq Jobs(s)
  <2>1. r.job = [s.job EXCEPT ![t] = "none"]
    <3> DEFINE a == [s EXCEPT !.job = [s.job EXCEPT ![t] = "none"]]
    <3>1. a.job = [s.job EXCEPT ![t] = "none"]
      BY ZenonT(30) DEF Members
    <3>2. r.job = a.job
      BY DEF JobGone
    <3> QED
      BY <3>1, <3>2
  <2>2. s.job \in [Frames -> {"none", "launched", "running"}]
    BY Read
  <2> HIDE DEF r
  <2>3. \A u \in Frames : r.job[u] # "none" => s.job[u] # "none"
    BY <2>1, <2>2
  <2> QED
    BY <2>3 DEF Jobs
<1>2. Quitting(r) = Quitting(s)
  BY DEF JobGone, Quitting
<1>3. Keeps(s, r)
  BY <1>1, <1>2 DEF Keeps, JobGone
<1>4. Same(r, JobSucceeded(s, t))
  BY DEF Same, JobSucceeded
<1>5. Same(r, JobFailed(s, t, resume))
  BY DEF Same, JobFailed, StoreFailure
<1> HIDE DEF r
<1> QED
  BY <1>3, <1>4, <1>5, SameKeeps, KeepsTrans

\* Scheduling quit, with the brutal version and through too many failures.
LEMMA QuitKeeps ==
  ASSUME NEW s \in Members, NEW t
  PROVE  /\ Keeps(s, ScheduleQuit(s)) /\ Keeps(s, ScheduleKill(s))
         /\ Keeps(s, CountFailure(s, t))
<1>1. ASSUME NEW r \in Members, Same(s, r),
             NEW q \in 1..2, NEW p, p = [r EXCEPT !.sq = q]
      PROVE  Keeps(s, p)
  <2>1. Quitting(p)
    <3>1. p \in Members
      <4>1. q \in 0..2
        OBVIOUS
      <4> QED
        BY <1>1, <4>1, Write
    <3>2. p.sq = q
      BY <1>1
    <3>3. q > 0
      OBVIOUS
    <3> QED
      BY <3>2, <3>3 DEF Quitting
  <2>2. Jobs(p) \subseteq Jobs(s)
    <3>1. p.job = s.job
      BY <1>1 DEF Same
    <3> QED
      BY <3>1 DEF Jobs
  <2>3. p.tid0 = s.tid0
    BY <1>1 DEF Same
  <2>4. /\ p.pending = s.pending /\ p.srcPend = s.srcPend
        /\ p.connected = s.connected /\ p.srcConn = s.srcConn
        /\ p.srcDone = s.srcDone
        /\ p.started = s.started /\ p.quitStep = s.quitStep
    BY <1>1 DEF Same
  <2> QED
    BY <2>1, <2>2, <2>3, <2>4 DEF Keeps
<1>2. Keeps(s, s)
  BY SameKeeps DEF Same
<1>3. Keeps(s, ScheduleQuit(s))
  <2> DEFINE p == [s EXCEPT !.sq = IF @ = 0 THEN 1 ELSE @]
  <2>1. (IF s.sq = 0 THEN 1 ELSE s.sq) \in 1..2
    BY Read
  <2>2. Keeps(s, p)
    BY <1>1, <2>1 DEF Same
  <2> HIDE DEF p
  <2>3. Keeps(p, KillScheduledForStart(p))
    BY Untouching, SameKeeps
  <2> QED
    BY <2>2, <2>3, KeepsTrans DEF ScheduleQuit, p
<1>4. Keeps(s, ScheduleKill(s))
  <2> DEFINE d == DontStartMoreTasks(s)
             p == [d EXCEPT !.sq = 2]
  <2>1. d \in Members /\ Same(s, d)
    BY DontStartTyped, Untouching
  <2>2. Keeps(s, p)
    BY <1>1, <2>1
  <2>3. Same(p, ScheduleKill(s))
    BY DEF Same, ScheduleKill
  <2> HIDE DEF p
  <2> QED
    BY <2>2, <2>3, SameKeeps, KeepsTrans
<1>5. Keeps(s, CountFailure(s, t))
  <2> DEFINE r == [s EXCEPT !.failed = @ + 1]
             d == DontStartMoreTasks(r)
             p == [d EXCEPT !.sq = 2]
  <2>1. r \in Members
    <3>1. s.failed + 1 \in Nat
      BY Read
    <3> QED
      BY <3>1, Write
  <2>2. Same(s, r)
    BY DEF Same
  <2> HIDE DEF r
  <2>3. Same(r, d) /\ d \in Members
    BY <2>1, DontStartTyped, Untouching
  <2> HIDE DEF d
  <2>4. Same(s, d)
    BY <2>2, <2>3 DEF Same
  <2>5. Keeps(s, p)
    BY <1>1, <2>3, <2>4
  <2>6. p \in Members
    BY <2>3, WriteNumber
  <2> HIDE DEF p
  <2>7. Keeps(s, ReSched(p)) /\ Keeps(s, r)
    BY <2>2, <2>5, <2>6, ReSchedKeeps, SameKeeps, KeepsTrans
  <2> QED
    BY <1>2, <2>7 DEF CountFailure, r, d, p
<1> QED
  BY <1>3, <1>4, <1>5

\* The end of a round.
LEMMA TidyUpKeeps ==
  ASSUME NEW s \in Members, NEW lv PROVE Keeps(s, TidyUp(s, lv))
<1> DEFINE u == [s EXCEPT !.dead = {}]
           r == CheckStartTasks(u, lv)
           q == Largest(r.sq, r.sqa)
           p == [r EXCEPT !.sq = q]
<1>1. u \in Members /\ Keeps(s, u)
  <2>1. Same(s, u)
    BY DEF Same
  <2> QED
    BY <2>1, Write, SameKeeps
<1> HIDE DEF u
<1>2. r \in Members /\ Keeps(s, r)
  BY <1>1, CheckStartTasksTyped, CheckStartTasksKeeps, KeepsTrans
<1> HIDE DEF r
<1>3. q \in 0..2 /\ (r.sqa > 0 => q > 0)
  BY <1>2, Read DEF Largest
<1>4. r.sqa > 0 => p \in Members /\ Keeps(r, p)
  <2>1. p \in Members
    BY <1>2, <1>3, Write
  <2>2. p.sqa = r.sqa
    OBVIOUS
  <2>3. r.sqa > 0 => Quitting(p)
    BY <2>2 DEF Quitting
  <2>4. p.job = r.job
    OBVIOUS
  <2>5. Jobs(p) \subseteq Jobs(r)
    BY <2>4 DEF Jobs
  <2>6. /\ p.pending = r.pending /\ p.srcPend = r.srcPend
        /\ p.connected = r.connected /\ p.srcConn = r.srcConn
        /\ p.srcDone = r.srcDone /\ p.tid0 = r.tid0
        /\ p.started = r.started /\ p.quitStep = r.quitStep
    OBVIOUS
  <2> HIDE DEF p
  <2> QED
    BY <2>1, <2>3, <2>5, <2>6 DEF Keeps
<1> HIDE DEF p
<1>5. r.sqa > 0 => Keeps(s, ReSched(p))
  BY <1>2, <1>4, ReSchedKeeps, KeepsTrans
<1>6. Keeps(u, u)
  BY SameKeeps DEF Same
<1> QED
  <2>1. TidyUp(s, lv) \in {u, r, ReSched(p)}
    BY DEF TidyUp, CheckStartNewJobs, u, r, p, q
  <2>2. TidyUp(s, lv) = ReSched(p) => r.sqa > 0 \/ TidyUp(s, lv) \in {u, r}
    BY DEF TidyUp, CheckStartNewJobs, u, r, p, q
  <2> QED
    BY <1>1, <1>2, <1>5, <2>1, <2>2

\* The load poll timer.
LEMMA LoadPollKeeps ==
  ASSUME NEW s \in Members, NEW lv PROVE Keeps(s, LoadPoll(s, lv))
<1> DEFINE r == DoCheckLoad(s, lv)
           p == [r EXCEPT !.poll = FALSE]
           c == ReSched(p)
<1>1. r \in Members /\ Same(s, r)
  BY DoCheckLoadTyped, Untouching
<1> HIDE DEF r
<1>2. p \in Members /\ Same(r, p)
  <2>1. p \in Members
    BY <1>1, Write
  <2>2. Same(r, p)
    BY DEF Same
  <2> QED
    BY <2>1, <2>2
<1> HIDE DEF p
<1>3. Keeps(s, r) /\ Keeps(s, p) /\ Keeps(p, c)
  BY <1>1, <1>2, SameKeeps, KeepsTrans, ReSchedKeeps
<1> HIDE DEF c
<1>4. Keeps(c, Check(c, ~s.load))
  BY Untouching, SameKeeps
<1>5. Keeps(s, Check(c, ~s.load))
  BY <1>3, <1>4, KeepsTrans
<1>6. Keeps(s, [s EXCEPT !.poll = FALSE])
  <2>1. Same(s, [s EXCEPT !.poll = FALSE])
    BY DEF Same
  <2> QED
    BY <2>1, SameKeeps
<1> QED
  BY <1>3, <1>5, <1>6 DEF LoadPoll, r, p, c

----------------------------------------------------------------------------
(* Requests *)

\* A frame is not the NULL task.
LEMMA FrameIsTask == \A t \in Frames : t # NoTask
  BY ConfigAssumption DEF Frames, NoTask

\* A connection is asked for when there is none.
LEMMA ConnectServes ==
  ASSUME NEW s \in Members, ~s.connected PROVE Serves(s, TSConnect(s))
<1> DEFINE r == TSConnect(s)
<1>1. /\ r.srcPend = "AConnect" /\ r.pending = "AConnect"
      /\ r.connected = s.connected /\ r.srcConn = s.srcConn
      /\ r.srcDone = s.srcDone
      /\ r.started = s.started /\ r.quitStep = s.quitStep
  BY DEF TSConnect, Check, Die
<1> HIDE DEF r
<1>2. Up(s) => Up(r)
  BY <1>1 DEF Up
<1>3. Exchange(s) => s.srcDone = NoTask
  BY DEF Exchange
<1>4. Up(s) /\ Exchange(s) => Exchange(r)
  BY <1>1, <1>3, Read DEF Exchange, Up
<1>5. Awake(r)
  BY <1>1 DEF Awake
<1> QED
  BY <1>2, <1>4, <1>5 DEF Serves, r

\* Looking whether the exchange must go on.
LEMMA CheckStartExchangeServes ==
  ASSUME NEW s \in Members PROVE Serves(s, CheckStartExchange(s))
<1>1. Serves(s, s)
  BY DEF Serves
<1> QED
  BY <1>1, ConnectServes DEF CheckStartExchange

\* An idle source gets a request over the open connection.
LEMMA Requested ==
  ASSUME NEW s \in Members, Idle(s), NEW r,
         NEW a \in {"AGetTask", "ADoneTask"},
         r.srcPend = a, r.pending = a,
         r.connected = s.connected, r.srcConn = s.srcConn,
         IF a = "ADoneTask" THEN r.srcDone \in Frames ELSE r.srcDone = s.srcDone,
         r.started = s.started, r.quitStep = s.quitStep
  PROVE  Up(r) /\ Exchange(r) /\ Awake(r)
<1>1. Up(r)
  BY DEF Idle, Up
<1>2. r.srcDone # NoTask <=> r.srcPend = "ADoneTask"
  BY FrameIsTask DEF Idle
<1>3. r.connected /\ r.connected = r.srcConn
  BY Read DEF Idle
<1>4. r.pending = r.srcPend /\ r.srcPend # "ANone"
  OBVIOUS
<1>5. ~(~r.started \/ r.quitStep > 0)
  BY <1>1 DEF Up
<1>6. Exchange(r)
  BY <1>2, <1>3, <1>4, <1>5 DEF Exchange
<1> QED
  BY <1>1, <1>4, <1>6 DEF Awake

\* GetTask() on an idle source.
LEMMA GetTaskInOrder ==
  ASSUME NEW s \in Members, Idle(s)
  PROVE  LET r == TSGetTask(s) IN Up(r) /\ Exchange(r) /\ Awake(r)
<1> DEFINE r == TSGetTask(s)
<1>1. /\ r.srcPend = "AGetTask" /\ r.pending = "AGetTask"
      /\ r.connected = s.connected /\ r.srcConn = s.srcConn
      /\ r.srcDone = s.srcDone
      /\ r.started = s.started /\ r.quitStep = s.quitStep
  BY DEF TSGetTask, Check, Die
<1> HIDE DEF r
<1> QED
  BY <1>1, Requested DEF r

\* DoneTask() on an idle source.
LEMMA DoneTaskInOrder ==
  ASSUME NEW s \in Members, Idle(s), NEW t \in Frames
  PROVE  LET r == TSDoneTask(s, t) IN Up(r) /\ Exchange(r) /\ Awake(r)
<1> DEFINE r == TSDoneTask(s, t)
<1>1. /\ r.srcPend = "ADoneTask" /\ r.pending = "ADoneTask"
      /\ r.connected = s.connected /\ r.srcConn = s.srcConn
      /\ r.srcDone = t
      /\ r.started = s.started /\ r.quitStep = s.quitStep
  BY DEF TSDoneTask, Check, Die
<1> HIDE DEF r
<1> QED
  BY <1>1, Requested DEF r

\* Disconnect(), which needs no open connection on the way out.
LEMMA DisconnectInOrder ==
  ASSUME NEW s \in Members, Up(s), s.pending = "ANone", s.srcPend = "ANone",
         s.srcDone = NoTask, s.connected = s.srcConn, NEW quit
  PROVE  LET r == TSDisconnect(s, quit) IN Up(r) /\ Exchange(r) /\ Awake(r)
<1> DEFINE r == TSDisconnect(s, quit)
<1>1. /\ r.srcPend = "ADisconnect" /\ r.pending = "ADisconnect"
      /\ r.connected = s.connected /\ r.srcConn = s.srcConn
      /\ r.srcDone = s.srcDone
      /\ r.started = s.started /\ r.quitStep = s.quitStep
  BY DEF TSDisconnect, Check, Die
<1> HIDE DEF r
<1>2. Up(r) /\ ~(~r.started \/ r.quitStep > 0)
  BY <1>1 DEF Up
<1>3. Exchange(r) /\ Awake(r)
  BY <1>1, <1>2 DEF Exchange, Awake
<1> QED
  BY <1>2, <1>3 DEF r

\* _TS_GetOrDoneTask() always leaves a request.
LEMMA GetOrDoneInOrder ==
  ASSUME NEW s \in Members, Idle(s)
  PROVE  LET r == GetOrDoneTask(s) IN Up(r) /\ Exchange(r) /\ Awake(r)
<1> DEFINE Fine(r) == Up(r) /\ Exchange(r) /\ Awake(r)
<1>1. CanDoneTask(s) /\ s.done # <<>> => Fine(GiveBackDone(s))
  <2> SUFFICES ASSUME s.done # <<>> PROVE Fine(GiveBackDone(s))
    OBVIOUS
  <2> DEFINE x == [s EXCEPT !.done = Tail(@), !.tsgod = "ADoneTask"]
  <2>1. s.done \in Seq(Frames)
    BY Read
  <2>2. Head(s.done) \in Frames /\ Tail(s.done) \in Seq(Frames)
    BY <2>1
  <2>3. x \in Members
    BY <2>2, Write DEF Actions
  <2>4. Same(s, x)
    BY DEF Same
  <2> HIDE DEF x
  <2>5. Idle(x)
    BY <2>4, SameKeeps, KeepsOrder
  <2>6. Fine(TSDoneTask(x, Head(s.done)))
    BY <2>2, <2>3, <2>5, DoneTaskInOrder
  <2> QED
    BY <2>6 DEF GiveBackDone, x
<1>2. CanDoneTask(s) /\ s.done = <<>> => Fine(GiveBackSpecial(s))
  <2> SUFFICES ASSUME CanDoneTask(s), s.done = <<>> PROVE Fine(GiveBackSpecial(s))
    OBVIOUS
  <2> DEFINE t == SpecialDone(s)
             r == [s EXCEPT !.tdaf = FALSE, !.tsgod = "ADoneTask"]
             k == IF s.sfs = t THEN KillScheduledForStart(r) ELSE r
             d == Dequeue(k, t)
  <2>1. t \in Frames
    BY SpecialDoneTyped
  <2>2. r \in Members
    BY Write DEF Actions
  <2>3. Same(s, r)
    BY DEF Same
  <2> HIDE DEF t, r
  <2>4. k \in Members /\ (Same(r, k) \/ r = k)
    BY <2>2, KillScheduledTyped, Untouching
  <2> HIDE DEF k
  <2>5. d \in Members /\ Same(k, d)
    BY <2>4, DequeueTyped, Untouching
  <2> HIDE DEF d
  <2>6. Idle(d)
    BY <2>3, <2>4, <2>5, SameKeeps, KeepsOrder
  <2>7. Fine(TSDoneTask(d, t))
    BY <2>1, <2>5, <2>6, DoneTaskInOrder
  <2> QED
    BY <2>7 DEF GiveBackSpecial, t, r, k, d
<1>3. Fine(TSGetTask([s EXCEPT !.tsgod = "AGetTask"]))
  <2> DEFINE x == [s EXCEPT !.tsgod = "AGetTask"]
  <2>1. x \in Members
    BY Write DEF Actions
  <2>2. Same(s, x)
    BY DEF Same
  <2> HIDE DEF x
  <2>3. Idle(x)
    BY <2>2, SameKeeps, KeepsOrder
  <2> QED
    BY <2>1, <2>3, GetTaskInOrder DEF x
<1>4. Fine(TSDisconnect([s EXCEPT !.tsgod = "ANone"], FALSE))
  <2> DEFINE x == [s EXCEPT !.tsgod = "ANone"]
  <2>1. x \in Members
    BY Write DEF Actions
  <2>2. Same(s, x)
    BY DEF Same
  <2> HIDE DEF x
  <2>3. Idle(x)
    BY <2>2, SameKeeps, KeepsOrder
  <2> QED
    BY <2>1, <2>3, DisconnectInOrder, Read DEF Idle, x
<1>5. ASSUME NEW r, Fine(r), NEW c PROVE Fine(Check(r, c))
  BY <1>5, Untouching, SameKeeps, KeepsOrder
<1> HIDE DEF Fine
<1>6. Fine(GetOrDoneTask(s))
  BY <1>1, <1>2, <1>3, <1>4, <1>5 DEF GetOrDoneTask
<1> QED
  BY <1>6 DEF Fine

----------------------------------------------------------------------------
(* What happens to tasks *)

\* A job succeeded.
LEMMA SuccessServes ==
  ASSUME NEW s \in Members, NEW t \in Frames, NEW lv
  PROVE  Serves(s, HandleSuccessfulJob(s, t, lv))
<1> DEFINE out  == [s EXCEPT !.failed = 0, !.proc = @ \ {t}]
           done == [out EXCEPT !.done = Append(@, t)]
           todo == [out EXCEPT !.refilter = <<t>> \o @]
           wait == IF s.dsmt THEN DontStartMoreTasks(todo) ELSE todo
           next == CheckStartTasks(done, lv)
<1>1. out \in Members
  <2>1. s.proc \ {t} \in SUBSET Frames
    BY Read
  <2> QED
    BY <2>1, Write
<1>2. Same(s, done) /\ Same(s, todo)
  BY DEF Same
<1> HIDE DEF out
<1>3. done \in Members
  <2>1. Append(out.done, t) \in Seq(Frames)
    BY <1>1, Read
  <2> QED
    BY <1>1, <2>1, Write
<1>4. todo \in Members
  <2>1. out.refilter \in Seq(Frames) /\ <<t>> \in Seq(Frames)
    BY <1>1, Read
  <2>2. <<t>> \o out.refilter \in Seq(Frames)
    BY <2>1
  <2> QED
    BY <1>1, <2>2, Write
<1> HIDE DEF done, todo
<1>5. wait \in Members /\ Keeps(s, wait)
  <2>1. Same(todo, DontStartMoreTasks(todo))
    BY Untouching
  <2> QED
    BY <1>2, <1>4, <2>1, DontStartTyped, SameKeeps, KeepsTrans
<1> HIDE DEF wait
<1>6. next \in Members /\ Keeps(s, next)
  BY <1>2, <1>3, CheckStartTasksTyped, CheckStartTasksKeeps, SameKeeps, KeepsTrans
<1> HIDE DEF next
<1>7. Serves(s, CheckStartExchange(next))
  BY <1>6, KeepsServes, CheckStartExchangeServes, ServesTrans
<1>8. Serves(s, CheckStartTasks(wait, lv))
  BY <1>5, CheckStartTasksKeeps, KeepsTrans, KeepsServes
<1>9. Serves(s, s)
  BY DEF Serves
<1> QED
  BY <1>7, <1>8, <1>9 DEF HandleSuccessfulJob, out, done, todo, wait, next

\* A job or a start failed.
LEMMA FailureServes ==
  ASSUME NEW s \in Members, NEW t \in Frames, NEW lv
  PROVE  Serves(s, HandleFailedTask(s, t, lv))
<1> DEFINE k == IF t = s.sfs THEN Dequeue(KillScheduledForStart(s), t)
                             ELSE [s EXCEPT !.proc = @ \ {t}]
           d == [k EXCEPT !.done = Append(@, t)]
           c == CountFailure(d, t)
           n == CheckStartTasks(c, lv)
           r == CheckStartExchange(n)
<1>1. k \in Members /\ Same(s, k)
  <2>1. s.proc \ {t} \in SUBSET Frames
    BY Read
  <2>2. [s EXCEPT !.proc = @ \ {t}] \in Members
    BY <2>1, Write
  <2>3. k \in Members
    BY <2>2, KillScheduledTyped, DequeueTyped
  <2>4. Same(s, k)
    BY DEF Same, Dequeue, KillScheduledForStart
  <2> QED
    BY <2>3, <2>4
<1> HIDE DEF k
<1>2. d \in Members /\ Same(k, d)
  <2>1. Append(k.done, t) \in Seq(Frames)
    BY <1>1, Read
  <2>2. d \in Members
    BY <1>1, <2>1, Write
  <2>3. Same(k, d)
    BY DEF Same
  <2> QED
    BY <2>2, <2>3
<1> HIDE DEF d
<1>3. Keeps(s, d)
  BY <1>1, <1>2, SameKeeps, KeepsTrans
<1>4. c \in Members /\ Keeps(s, c)
  BY <1>2, <1>3, CountFailureTyped, QuitKeeps, KeepsTrans
<1> HIDE DEF c
<1>5. n \in Members /\ Keeps(s, n)
  BY <1>4, CheckStartTasksTyped, CheckStartTasksKeeps, KeepsTrans
<1> HIDE DEF n
<1>6. Serves(s, r)
  BY <1>5, KeepsServes, CheckStartExchangeServes, ServesTrans
<1>7. Same(r, [r EXCEPT !.tdaf = @ \/ r.connected])
  BY DEF Same
<1> HIDE DEF r
<1>8. Serves(s, [r EXCEPT !.tdaf = @ \/ r.connected])
  BY <1>6, <1>7, SameKeeps, KeepsServes, ServesTrans
<1>9. Serves(s, s)
  BY DEF Serves
<1> QED
  BY <1>8, <1>9 DEF HandleFailedTask, k, d, c, n, r

\* A job was executed.
LEMMA LaunchingServes ==
  ASSUME NEW s \in Members, NEW lv PROVE Serves(s, LaunchingTaskDone(s, lv))
<1> DEFINE n == CheckStartTasks(s, lv)
<1>1. n \in Members /\ Keeps(s, n)
  BY CheckStartTasksTyped, CheckStartTasksKeeps
<1> HIDE DEF n
<1> QED
  BY <1>1, KeepsServes, CheckStartExchangeServes, ServesTrans
     DEF LaunchingTaskDone, n

\* While a fresh task is taken, the source stays idle.
LEMMA FreshStaysIdle ==
  ASSUME NEW s \in Members, NEW t \in Frames, NEW lv, Idle(s)
  PROVE  Idle(TakeFreshTask(s, t, lv))
<1> DEFINE a == [s EXCEPT !.fresh = Append(@, t)]
           r == NewTask_SetUpState(a, t)
           d == DontStartMoreTasks(r)
<1>1. a \in Members
  <2>1. Append(s.fresh, t) \in Seq(Frames)
    BY Read
  <2> QED
    BY <2>1, Write
<1>2. Same(s, a)
  BY DEF Same
<1> HIDE DEF a
<1>3. r \in Members /\ Same(a, r)
  BY <1>1, SetUpStateTyped, Untouching
<1> HIDE DEF r
<1>4. Idle(r)
  BY <1>2, <1>3, SameKeeps, KeepsOrder
<1>5. Idle(d)
  BY <1>4, Untouching, SameKeeps, KeepsOrder
<1>6. CheckStartExchange(d) = d
  BY <1>5 DEF CheckStartExchange, Idle
<1>7. Idle(CheckStartTasks(r, lv))
  BY <1>3, <1>4, CheckStartTasksKeeps, KeepsOrder
<1> QED
  BY <1>5, <1>6, <1>7 DEF TakeFreshTask, a, r, d

----------------------------------------------------------------------------
(* The answers of the source *)

\* A request is outstanding only while the program works.
LEMMA RequestMeansUp ==
  ASSUME NEW s \in Members, Exchange(s), s.srcPend # "ANone" PROVE Up(s)
  BY Read DEF Exchange, Up

\* The answer to Connect().
LEMMA ConnectedInOrder ==
  ASSUME NEW s \in Members, Exchange(s), s.srcPend = "AConnect"
  PROVE  LET r == TSConnected(SrcConnected(s)) IN Up(r) /\ Exchange(r) /\ Awake(r)
<1> DEFINE c == SrcConnected(s)
           a == Answered(c)
           b == [a EXCEPT !.connected = TRUE]
           d == [b EXCEPT !.tsgod = "ANone"]
           x == [d EXCEPT !.nth = 0]
<1>1. c \in Members /\ a \in Members
  BY AnswersTyped, AnsweredTyped
<1>2. x \in Members
  <2> HIDE DEF a
  <2>1. b \in Members
    BY <1>1, Write
  <2> HIDE DEF b
  <2>2. d \in Members
    BY <2>1, Write DEF Actions
  <2> HIDE DEF d
  <2> QED
    BY <2>2, WriteNumber
<1>3. /\ x.connected /\ x.srcConn
      /\ x.pending = "ANone" /\ x.srcPend = "ANone" /\ x.srcDone = s.srcDone
      /\ x.started = s.started /\ x.quitStep = s.quitStep
  BY DEF SrcConnected, Answered
<1>4. TSConnected(c) = GetOrDoneTask(x)
  BY DEF TSConnected
<1> HIDE DEF x
<1>5. Idle(x)
  <2>1. s.srcDone = NoTask
    BY DEF Exchange
  <2> QED
    BY <1>3, <2>1, RequestMeansUp DEF Idle, Up
<1> QED
  BY <1>2, <1>4, <1>5, GetOrDoneInOrder

\* The answers to GetTask() and DoneTask() that leave an idle source.
LEMMA AnswerMakesIdle ==
  ASSUME NEW s \in Members, Exchange(s), s.srcPend \in {"AGetTask", "ADoneTask"},
         NEW r, r.pending = "ANone", r.srcPend = "ANone",
         r.connected = s.connected, r.srcConn = s.srcConn, r.srcDone = NoTask,
         r.started = s.started, r.quitStep = s.quitStep
  PROVE  Idle(r)
  BY RequestMeansUp, Read DEF Exchange, Idle, Up

\* The answer to GetTask(): a task.
LEMMA GotTaskInOrder ==
  ASSUME NEW s \in Members, Exchange(s), s.srcPend = "AGetTask",
         NEW t \in Frames, NEW lv
  PROVE  LET r == TSGotTask(SrcHandOut(s), t, lv)
         IN  Up(r) /\ Exchange(r) /\ Awake(r)
<1> DEFINE a == Answered(SrcHandOut(s))
           f == TakeFreshTask(a, t, lv)
<1>1. a \in Members
  BY AnswersTyped, AnsweredTyped
<1>2. /\ a.pending = "ANone" /\ a.srcPend = "ANone"
      /\ a.connected = s.connected /\ a.srcConn = s.srcConn
      /\ a.srcDone = s.srcDone
      /\ a.started = s.started /\ a.quitStep = s.quitStep
  BY DEF SrcHandOut, Answered
<1> HIDE DEF a
<1>3. s.srcDone = NoTask
  BY DEF Exchange
<1>4. Idle(a)
  BY <1>2, <1>3, AnswerMakesIdle
<1>5. f \in Members /\ Idle(f)
  BY <1>1, <1>4, TakeFreshTaskTyped, FreshStaysIdle
<1> HIDE DEF f
<1>6. LET r == GetOrDoneTask(f) IN Up(r) /\ Exchange(r) /\ Awake(r)
  BY <1>5, GetOrDoneInOrder
<1> QED
  BY <1>6 DEF TSGotTask, a, f

\* An open connection without a request, but with quit scheduled and the
\* schedule timer armed.
LEMMA QuittingInOrder ==
  ASSUME NEW s, Up(s), s.pending = "ANone", s.srcPend = "ANone",
         s.connected = s.srcConn, s.srcDone = NoTask, Quitting(s), s.tid0
  PROVE  Exchange(s) /\ Awake(s)
  BY DEF Up, Exchange, Awake

\* The answer to GetTask(): no more tasks, or a failure.
LEMMA NoTaskInOrder ==
  ASSUME NEW s \in Members, Exchange(s), s.srcPend = "AGetTask"
  PROVE  /\ LET r == TSNoMoreTasks(SrcNoTask(s))
            IN  Up(r) /\ Exchange(r) /\ Awake(r)
         /\ \A skips \in BOOLEAN :
              LET r == TSGetFailed(SrcGetFails(s, skips))
              IN  Up(r) /\ Exchange(r) /\ Awake(r)
<1>1. s.srcDone = NoTask
  BY DEF Exchange
<1>2. ASSUME NEW a \in Members, Idle(a), NEW q \in 1..2
      PROVE  LET r == ReSched([a EXCEPT !.sqa = q])
             IN  Up(r) /\ Exchange(r) /\ Awake(r)
  <2> DEFINE p == [a EXCEPT !.sqa = q]
             r == ReSched(p)
  <2>1. p \in Members
    <3>1. q \in 0..2
      OBVIOUS
    <3> QED
      BY <3>1, Write
  <2>2. p.sqa = q /\ q > 0
    OBVIOUS
  <2>3. /\ p.pending = a.pending /\ p.srcPend = a.srcPend
        /\ p.connected = a.connected /\ p.srcConn = a.srcConn
        /\ p.srcDone = a.srcDone
        /\ p.started = a.started /\ p.quitStep = a.quitStep
    OBVIOUS
  <2> HIDE DEF p
  <2>4. Quitting(p)
    BY <2>2 DEF Quitting
  <2>5. r.tid0
    BY <2>1, ReSchedTyped, Read DEF ReSched
  <2>6. Keeps(p, r)
    BY <2>1, ReSchedKeeps
  <2> HIDE DEF r
  <2>7. Idle(p)
    BY <1>2, <2>3 DEF Idle, Up
  <2>8. Idle(r) /\ Quitting(r)
    BY <2>4, <2>6, <2>7, KeepsOrder DEF Keeps
  <2>9. r \in Members
    BY <2>1, ReSchedTyped DEF r
  <2>10. r.connected = r.srcConn
    BY <2>8, <2>9, Read DEF Idle
  <2> QED
    BY <2>5, <2>8, <2>10, QuittingInOrder DEF Idle, r, p
<1>3. LET r == TSNoMoreTasks(SrcNoTask(s)) IN Up(r) /\ Exchange(r) /\ Awake(r)
  <2> DEFINE a == Answered(SrcNoTask(s))
             q == IF a.sqa = 0 THEN 1 ELSE a.sqa
  <2>1. a \in Members
    BY AnswersTyped, AnsweredTyped
  <2>2. /\ a.pending = "ANone" /\ a.srcPend = "ANone"
        /\ a.connected = s.connected /\ a.srcConn = s.srcConn
        /\ a.srcDone = s.srcDone
        /\ a.started = s.started /\ a.quitStep = s.quitStep
    BY DEF SrcNoTask, Answered
  <2> HIDE DEF a
  <2>3. Idle(a)
    BY <1>1, <2>2, AnswerMakesIdle
  <2>4. q \in 1..2
    BY <2>1, Read
  <2> HIDE DEF q
  <2>5. LET r == ReSched([a EXCEPT !.sqa = q]) IN Up(r) /\ Exchange(r) /\ Awake(r)
    BY <1>2, <2>1, <2>3, <2>4
  <2> QED
    BY <2>5 DEF TSNoMoreTasks, a, q
<1>4. ASSUME NEW skips \in BOOLEAN
      PROVE  LET r == TSGetFailed(SrcGetFails(s, skips))
             IN  Up(r) /\ Exchange(r) /\ Awake(r)
  <2> DEFINE g == SrcGetFails(s, skips)
             a == Answered(g)
             x == [a EXCEPT !.tdaf = TRUE]
  <2>1. a \in Members
    BY AnswersTyped, AnsweredTyped
  <2>2. /\ a.pending = "ANone" /\ a.srcPend = "ANone"
        /\ a.connected = s.connected /\ a.srcConn = s.srcConn
        /\ a.srcDone = s.srcDone
        /\ a.started = s.started /\ a.quitStep = s.quitStep
    BY DEF SrcGetFails, Answered
  <2> HIDE DEF a
  <2>3. Idle(a)
    BY <1>1, <2>2, AnswerMakesIdle
  <2>4. LET r == ReSched([a EXCEPT !.sqa = 2]) IN Up(r) /\ Exchange(r) /\ Awake(r)
    <3>1. 2 \in 1..2
      OBVIOUS
    <3> QED
      BY <1>2, <2>1, <2>3, <3>1
  <2>5. x \in Members /\ Idle(x)
    <3>1. x \in Members
      BY <2>1, Write
    <3>2. Same(a, x)
      BY DEF Same
    <3> HIDE DEF x
    <3> QED
      BY <2>3, <3>1, <3>2, SameKeeps, KeepsOrder
  <2> HIDE DEF x
  <2>6. LET r == GetOrDoneTask(x) IN Up(r) /\ Exchange(r) /\ Awake(r)
    BY <2>5, GetOrDoneInOrder
  <2> QED
    BY <2>4, <2>6 DEF TSGetFailed, g, a, x
<1> QED
  BY <1>3, <1>4

\* The answer to DoneTask().
LEMMA TookDoneInOrder ==
  ASSUME NEW s \in Members, Exchange(s), s.srcPend = "ADoneTask"
  PROVE  LET r == TSTookDone(SrcTakeBack(s)) IN Up(r) /\ Exchange(r) /\ Awake(r)
<1> DEFINE a == Answered(SrcTakeBack(s))
<1>1. a \in Members
  BY TakeBackTyped, AnsweredTyped
<1>2. /\ a.pending = "ANone" /\ a.srcPend = "ANone"
      /\ a.connected = s.connected /\ a.srcConn = s.srcConn
      /\ a.srcDone = NoTask
      /\ a.started = s.started /\ a.quitStep = s.quitStep
  BY DEF SrcTakeBack, Answered
<1> HIDE DEF a
<1>3. Idle(a)
  BY <1>2, AnswerMakesIdle
<1>4. LET r == GetOrDoneTask(a) IN Up(r) /\ Exchange(r) /\ Awake(r)
  BY <1>1, <1>3, GetOrDoneInOrder
<1> QED
  BY <1>4 DEF TSTookDone, a

\* The answer to Disconnect().
LEMMA DisconnectedInOrder ==
  ASSUME NEW s \in Members, Exchange(s), s.srcPend = "ADisconnect", NEW quit
  PROVE  LET r == TSDisconnected(SrcDisconnected(s), quit)
         IN  Up(r) /\ Exchange(r) /\ Awake(r)
<1> DEFINE d == SrcDisconnected(s)
           a == [Answered(d) EXCEPT !.connected = FALSE]
           c == Check(a, d.toldTs <=> quit)
<1>1. a \in Members
  BY AnswersTyped, AnsweredTyped, Write
<1>2. /\ a.pending = "ANone" /\ a.srcPend = "ANone"
      /\ a.connected = FALSE /\ a.srcConn = FALSE /\ a.srcDone = s.srcDone
      /\ a.started = s.started /\ a.quitStep = s.quitStep
  BY DEF SrcDisconnected, Answered
<1>3. c \in Members
  BY <1>1, DieTyped
<1> HIDE DEF a
<1>4. Up(a)
  BY <1>2, RequestMeansUp DEF Up
<1>5. Exchange(a) /\ Awake(a)
  <2>1. s.srcDone = NoTask
    BY DEF Exchange
  <2> QED
    BY <1>2, <1>4, <2>1 DEF Exchange, Awake, Up
<1>6. Keeps(a, c)
  BY Untouching, SameKeeps
<1> HIDE DEF c
<1>7. Keeps(a, ReSched(c))
  BY <1>3, <1>6, ReSchedKeeps, KeepsTrans
<1>8. \A r \in {c, ReSched(c)} : Up(r) /\ Exchange(r) /\ Awake(r)
  BY <1>4, <1>5, <1>6, <1>7, KeepsOrder
<1> QED
  BY <1>8 DEF TSDisconnected, a, c, d

----------------------------------------------------------------------------
(* Signals *)

\* The handlers of SIGINT, SIGTERM, SIGTSTP and SIGCONT.
LEMMA SignalsInOrder ==
  ASSUME NEW s \in Members, Exchange(s), Awake(s), NEW lv
  PROVE  \A r \in {SigInt(s), SigTerm(s), SigTstp(s), SigCont(s, lv)} :
           Exchange(r) /\ Awake(r)
<1> DEFINE Fine(r) == Exchange(r) /\ Awake(r)
<1>1. ASSUME NEW r, Keeps(s, r) PROVE Fine(r)
  BY <1>1, KeepsOrder
<1>2. Keeps(s, s)
  BY SameKeeps DEF Same
<1>3. ASSUME NEW how PROVE Fine(Die(s, how))
  BY <1>1, Untouching, SameKeeps
<1>4. Fine(SigInt(s))
  <2> DEFINE p == [ScheduleQuit(s) EXCEPT !.caught = 1]
             q == [ScheduleKill(s) EXCEPT !.caught = 2]
  <2>1. p \in Members /\ q \in Members
    BY ScheduleQuitTyped, ScheduleKillTyped, WriteNumber
  <2>a. ASSUME NEW u \in Members, NEW n PROVE Same(u, [u EXCEPT !.caught = n])
    BY DEF Same, Members
  <2>2. Same(ScheduleQuit(s), p) /\ Same(ScheduleKill(s), q)
    BY <2>a, ScheduleQuitTyped, ScheduleKillTyped
  <2>3. Keeps(s, p) /\ Keeps(s, q)
    BY <2>2, QuitKeeps, SameKeeps, KeepsTrans
  <2> HIDE DEF p, q
  <2>4. Fine(ReSched(p)) /\ Fine(ReSched(q))
    BY <1>1, <2>1, <2>3, ReSchedKeeps, KeepsTrans
  <2>5. Fine(s)
    OBVIOUS
  <2> HIDE DEF Fine
  <2> QED
    BY <1>3, <2>4, <2>5 DEF SigInt, OnSignal, p, q
<1>5. Fine(SigTerm(s))
  <2> DEFINE p == ScheduleQuit(s)
             q == ScheduleKill(p)
  <2>1. p \in Members /\ Keeps(s, p)
    BY ScheduleQuitTyped, QuitKeeps
  <2> HIDE DEF p
  <2>2. q \in Members /\ Keeps(s, q)
    BY <2>1, ScheduleKillTyped, QuitKeeps, KeepsTrans
  <2> HIDE DEF q
  <2>3. Fine(ReSched(q))
    BY <1>1, <2>2, ReSchedKeeps, KeepsTrans
  <2>4. Fine(s)
    OBVIOUS
  <2> HIDE DEF Fine
  <2> QED
    BY <1>3, <2>3, <2>4 DEF SigTerm, OnSignal, p, q
<1>6. Fine(SigTstp(s))
  <2>1. Same(s, [s EXCEPT !.stopped = TRUE])
    BY DEF Same
  <2>2. Fine([s EXCEPT !.stopped = TRUE]) /\ Fine(s)
    BY <1>1, <2>1, SameKeeps
  <2> HIDE DEF Fine
  <2> QED
    BY <1>3, <2>2 DEF SigTstp, OnSignal
<1>7. Fine(SigCont(s, lv))
  <2> DEFINE a == [s EXCEPT !.stopped = FALSE]
             b == CheckStartExchange(a)
             c == CheckStartTasks(b, lv)
  <2>1. a \in Members
    BY Write
  <2>2. Same(s, a)
    BY DEF Same
  <2> HIDE DEF a
  <2>3. b \in Members /\ Serves(s, b)
    BY <2>1, <2>2, SameKeeps, KeepsServes, CheckStartExchangeTyped,
       CheckStartExchangeServes, ServesTrans
  <2> HIDE DEF b
  <2>4. c \in Members /\ Keeps(b, c)
    BY <2>3, CheckStartTasksTyped, CheckStartTasksKeeps
  <2> HIDE DEF c
  <2>5. Serves(s, ReSched(c))
    BY <2>3, <2>4, ReSchedKeeps, KeepsTrans, KeepsServes, ServesTrans
  <2>6. s.quitStep = 0 /\ s.started => Fine(ReSched(c))
    BY <2>5 DEF Serves, Up
  <2>7. s.quitStep > 0 \/ s.quitStep = 0
    BY Read
  <2>8. Fine(s)
    OBVIOUS
  <2> HIDE DEF Fine
  <2> QED
    BY <1>3, <2>6, <2>7, <2>8 DEF SigCont, OnSignal, a, b, c
<1> QED
  BY <1>4, <1>5, <1>6, <1>7

----------------------------------------------------------------------------
(* The schedule timer *)

\* The scheduled task is launched, or fails to be.
LEMMA LaunchServes ==
  ASSUME NEW s \in Members, NEW forked, NEW lv
  PROVE  Serves(s, LaunchScheduled(s, forked, lv))
<1> SUFFICES ASSUME Up(s) PROVE Serves(s, LaunchScheduled(s, forked, lv))
  BY DEF Serves
<1>1. CASE s.sfs # NoTask /\ s.load
  <2> DEFINE t == s.sfs
             g == ForkJob(s, t)
             up == Dequeue(KillScheduledForStart(g), t)
             in == [up EXCEPT !.proc = @ \cup {t}]
             f  == ForkFailed(s, t)
             h  == HandleFailedTask(f, t, lv)
             no == KillScheduledForStart(h)
  <2>1. t \in Frames
    BY <1>1, Read
  <2> HIDE DEF t
  <2>2. g \in Members /\ Keeps(s, g)
    BY ForkTyped, ForkKeeps
  <2> HIDE DEF g
  <2>3. up \in Members
    BY <2>2, KillScheduledTyped, DequeueTyped
  <2>4. Same(g, up)
    BY DEF Same, Dequeue, KillScheduledForStart
  <2> HIDE DEF up
  <2>5. in \in Members
    <3>1. up.proc \cup {t} \in SUBSET Frames
      BY <2>1, <2>3, Read
    <3> QED
      BY <2>3, <3>1, Write
  <2>6. Same(up, in)
    BY DEF Same
  <2> HIDE DEF in
  <2>7. Keeps(s, in)
    BY <2>2, <2>4, <2>6, SameKeeps, KeepsTrans
  <2>8. f \in Members /\ Keeps(s, f)
    BY <2>1, ForkFailedTyped, Untouching, SameKeeps
  <2> HIDE DEF f
  <2>9. h \in Members /\ Serves(s, h)
    BY <2>1, <2>8, HandleFailedTaskTyped, FailureServes, KeepsServes, ServesTrans
  <2> HIDE DEF h
  <2>10. no \in Members /\ Serves(s, no)
    BY <2>9, KillScheduledTyped, Untouching, SameKeeps, KeepsServes, ServesTrans
  <2> HIDE DEF no
  <2>11. Serves(s, CheckStartTasks(in, lv)) /\ Serves(s, CheckStartTasks(no, lv))
    BY <2>5, <2>7, <2>10, CheckStartTasksKeeps, KeepsServes, ServesTrans
  <2> QED
    BY <1>1, <2>11 DEF LaunchScheduled, t, g, up, in, f, h, no
<1>2. CASE ~(s.sfs # NoTask /\ s.load)
  <2>1. Serves(s, s)
    BY DEF Serves
  <2> QED
    BY <1>2, <2>1 DEF LaunchScheduled
<1> QED
  BY <1>1, <1>2

\* _ActuallyQuit() when nothing is open, outstanding or running.
LEMMA ActuallyQuitInOrder ==
  ASSUME NEW s \in Members, s.pending = "ANone", s.srcPend = "ANone",
         s.connected = FALSE, s.srcConn = FALSE, s.srcDone = NoTask,
         Jobs(s) = {}, NEW status
  PROVE  LET r == ActuallyQuit(s, status) IN Exchange(r) /\ Awake(r)
<1> DEFINE r == ActuallyQuit(s, status)
<1>1. /\ r.pending = "ANone" /\ r.srcPend = "ANone"
      /\ r.connected = FALSE /\ r.srcConn = FALSE /\ r.srcDone = NoTask
      /\ r.job = s.job
  BY DEF ActuallyQuit, ReSched
<1>2. Jobs(r) = {}
  BY <1>1 DEF Jobs
<1> HIDE DEF r
<1>3. Exchange(r) /\ Awake(r)
  BY <1>1, <1>2 DEF Exchange, Awake
<1> QED
  BY <1>3 DEF r

\* With quit scheduled, _schedule() leaves no open connection without a request
\* unless it arms its timer.
LEMMA GoOnInOrder ==
  ASSUME NEW s \in Members, Up(s), Exchange(s)
  PROVE  LET r == GoOnQuitting(s) IN Exchange(r) /\ Awake(r)
<1> DEFINE Fine(r) == Exchange(r) /\ Awake(r)
<1>1. CASE ~Quitting(s)
  BY <1>1 DEF GoOnQuitting, Exchange, Awake
<1>2. CASE Quitting(s)
  <2>1. Fine(ReSched([s EXCEPT !.toldIf = TRUE]))
    <3> DEFINE p == [s EXCEPT !.toldIf = TRUE]
    <3>1. p \in Members
      BY Write
    <3>2. Same(s, p)
      BY DEF Same
    <3> HIDE DEF p
    <3>3. Keeps(s, ReSched(p))
      BY <3>1, <3>2, SameKeeps, ReSchedKeeps, KeepsTrans
    <3>4. ReSched(p).tid0
      BY <3>1, ReSchedTyped, Read DEF ReSched
    <3> QED
      BY <3>3, <3>4, KeepsOrder DEF Awake, p
  <2>2. MayQuit(s) => Fine(ActuallyQuit(s, Largest(s.sq, s.sqa) - 1))
    <3> SUFFICES ASSUME MayQuit(s)
                 PROVE  Fine(ActuallyQuit(s, Largest(s.sq, s.sqa) - 1))
      OBVIOUS
    <3>1. s.pending = "ANone" /\ ~s.connected /\ Jobs(s) = {}
      BY DEF MayQuit, AreThereJobsRunning
    <3>2. s.srcPend = "ANone" /\ s.srcDone = NoTask
      BY <3>1 DEF Exchange
    <3>3. s.connected = FALSE /\ s.srcConn = FALSE
      BY <3>1, Read DEF Exchange
    <3> QED
      BY <3>1, <3>2, <3>3, ActuallyQuitInOrder
  <2>3. MayQuit(s) => Fine(TSDisconnect([s EXCEPT !.toldTs = TRUE], TRUE))
    <3> SUFFICES ASSUME MayQuit(s)
                 PROVE  Fine(TSDisconnect([s EXCEPT !.toldTs = TRUE], TRUE))
      OBVIOUS
    <3> DEFINE p == [s EXCEPT !.toldTs = TRUE]
    <3>1. p \in Members
      BY Write
    <3>2. Same(s, p)
      BY DEF Same
    <3>3. s.pending = "ANone"
      BY DEF MayQuit
    <3>4. s.srcPend = "ANone" /\ s.srcDone = NoTask /\ s.connected = s.srcConn
      BY <3>3 DEF Exchange
    <3> HIDE DEF p
    <3>5. /\ Up(p) /\ p.pending = "ANone" /\ p.srcPend = "ANone"
          /\ p.srcDone = NoTask /\ p.connected = p.srcConn
      BY <3>2, <3>3, <3>4 DEF Same, Up
    <3> QED
      BY <3>1, <3>5, DisconnectInOrder DEF p
  <2>4. ~s.connected => Fine(CheckStartExchange(s))
    <3>1. Awake(s) \/ s.connected
      BY DEF Awake
    <3> QED
      BY <3>1, CheckStartExchangeServes DEF Serves
  <2>5. s.connected /\ s.pending = "ANone" => Fine(GetOrDoneTask(s))
    <3>1. s.connected /\ s.pending = "ANone" => Idle(s)
      BY DEF Exchange, Idle
    <3> QED
      BY <3>1, GetOrDoneInOrder
  <2>6. s.pending # "ANone" => Fine(s)
    BY DEF Exchange, Awake
  <2> HIDE DEF Fine
  <2>7. Fine(GoOnQuitting(s))
    BY <1>2, <2>1, <2>2, <2>3, <2>4, <2>5, <2>6 DEF GoOnQuitting
  <2> QED
    BY <2>7 DEF Fine
<1> QED
  BY <1>1, <1>2

\* _schedule().
LEMMA ScheduleInOrder ==
  ASSUME NEW s \in Members, Exchange(s), Awake(s), NEW forked, NEW lv
  PROVE  LET r == Schedule(s, forked, lv) IN Exchange(r) /\ Awake(r)
<1> DEFINE Fine(r) == Exchange(r) /\ Awake(r)
<1>0. s.quitStep \in 0..5
  BY Read
<1>1. CASE s.quitStep > 0
  <2> DEFINE c == IF s.quitStep = 2 THEN DestructCleanup(s) ELSE s
             r == [c EXCEPT !.quitStep = @ + 1]
  <2>1. Same(s, c)
    BY DEF Same, DestructCleanup, Check, Die
  <2> HIDE DEF c
  <2>2. /\ r.pending = s.pending /\ r.srcPend = s.srcPend
        /\ r.connected = s.connected /\ r.srcConn = s.srcConn
        /\ r.srcDone = s.srcDone /\ r.job = s.job
    BY <2>1 DEF Same
  <2>3. Jobs(r) = Jobs(s)
    BY <2>2 DEF Jobs
  <2> HIDE DEF r
  <2>4. ~s.connected /\ s.srcPend = "ANone" /\ Jobs(s) = {}
    BY <1>1 DEF Exchange
  <2>5. Fine(r)
    BY <2>2, <2>3, <2>4 DEF Exchange, Awake
  <2> QED
    BY <1>1, <2>5 DEF Schedule, QuitCountdown, c, r
<1>2. CASE s.quitStep = 0 /\ ~s.started
  <2> DEFINE a == [s EXCEPT !.tid0 = FALSE]
             r == [a EXCEPT !.started = TRUE]
  <2>1. r \in Members
    <3>1. a \in Members
      BY Write
    <3> HIDE DEF a
    <3> QED
      BY <3>1, Write
  <2>2. /\ r.pending = s.pending /\ r.srcPend = s.srcPend
        /\ r.connected = s.connected /\ r.srcConn = s.srcConn
        /\ r.srcDone = s.srcDone /\ r.quitStep = s.quitStep
        /\ r.job = s.job /\ r.started
    OBVIOUS
  <2>3. ~s.connected /\ s.srcPend = "ANone" /\ Jobs(s) = {}
    BY <1>2 DEF Exchange
  <2>4. s.pending = "ANone" /\ s.srcConn = FALSE /\ s.connected = FALSE
        /\ s.srcDone = NoTask
    BY <2>3, Read DEF Exchange
  <2>5. Jobs(r) = {}
    BY <2>2, <2>3 DEF Jobs
  <2>6. StartProcessing(s) = IF MustConnect(r) THEN TSConnect(r)
                             ELSE ActuallyQuit(r, 0)
    BY DEF StartProcessing
  <2> HIDE DEF r
  <2>7. Up(r) /\ Exchange(r) /\ Awake(r)
    BY <1>2, <2>2, <2>3, <2>4, <2>5 DEF Up, Exchange, Awake
  <2>8. Fine(TSConnect(r))
    BY <2>1, <2>2, <2>3, <2>7, ConnectServes DEF Serves
  <2>9. Fine(ActuallyQuit(r, 0))
    BY <2>1, <2>2, <2>3, <2>4, <2>5, ActuallyQuitInOrder
  <2> HIDE DEF Fine
  <2>10. Fine(Schedule(s, forked, lv))
    BY <1>2, <2>6, <2>8, <2>9 DEF Schedule
  <2> QED
    BY <2>10 DEF Fine
<1>3. CASE s.quitStep = 0 /\ s.started
  <2> DEFINE a == [s EXCEPT !.tid0 = FALSE]
             k == KillJobs(a)
             l == LaunchScheduled(k, forked, lv)
  <2>1. a \in Members
    BY Write
  <2>2. /\ a.pending = s.pending /\ a.srcPend = s.srcPend
        /\ a.connected = s.connected /\ a.srcConn = s.srcConn
        /\ a.srcDone = s.srcDone /\ a.quitStep = s.quitStep
        /\ a.started = s.started /\ a.sq = s.sq /\ a.sqa = s.sqa
    OBVIOUS
  <2> HIDE DEF a
  <2>3. Up(a) /\ Exchange(a)
    BY <1>3, <2>2 DEF Up, Exchange, Quitting
  <2>4. k \in Members /\ Up(k) /\ Exchange(k)
    BY <2>1, <2>3, KillJobsTyped, Untouching, SameKeeps, KeepsOrder
  <2> HIDE DEF k
  <2>5. l \in Members /\ Up(l) /\ Exchange(l)
    BY <2>4, LaunchScheduledTyped, LaunchServes DEF Serves
  <2> HIDE DEF l
  <2>6. Fine(GoOnQuitting(l))
    BY <2>5, GoOnInOrder
  <2> QED
    BY <1>3, <2>6 DEF Schedule, a, k, l
<1> QED
  BY <1>0, <1>1, <1>2, <1>3

----------------------------------------------------------------------------
(* The theorem *)

\* ExchangeAgrees is about the record in tm.
LEMMA AgreesMeansOrder == ExchangeAgrees <=> Exchange(tm) /\ Awake(tm)
  BY DEF ExchangeAgrees, Exchange, Awake

\* Initially nothing is open, outstanding or running.
LEMMA ExchangeInit == Init => ExchangeAgrees
<1> SUFFICES ASSUME tm = Fresh PROVE ExchangeAgrees
  BY DEF Init
<1>1. /\ tm.pending = "ANone" /\ tm.srcPend = "ANone" /\ tm.connected = FALSE
      /\ tm.srcConn = FALSE /\ tm.srcDone = NoTask
      /\ tm.job = [t \in Frames |-> "none"]
  BY DEF Fresh
<1>2. Jobs(tm) = {}
  BY <1>1 DEF Jobs
<1> QED
  BY <1>1, <1>2 DEF ExchangeAgrees

\* While a job exists the program works.
LEMMA JobMeansUp ==
  ASSUME NEW t \in Frames, TypeOK, ExchangeAgrees, tm.job[t] # "none" PROVE Up(tm)
  BY Read DEF TypeOK, ExchangeAgrees, Jobs, Up

\* Every step keeps the exchange in order.
LEMMA ExchangeStep == TypeOK /\ ExchangeAgrees /\ [Next]_vars => ExchangeAgrees'
<1> SUFFICES ASSUME TypeOK, ExchangeAgrees, [Next]_vars PROVE ExchangeAgrees'
  OBVIOUS
<1> DEFINE Fine(r) == Exchange(r) /\ Awake(r)
<1>1. tm \in Members /\ Exchange(tm) /\ Awake(tm) /\ Fine(tm)
  BY AgreesMeansOrder DEF TypeOK
<1>2. ASSUME Fine(tm') PROVE ExchangeAgrees'
  BY <1>2 DEF ExchangeAgrees, Exchange, Awake
<1>3. ASSUME NEW s, NEW r, tm' = TSNotify(s, r), s.quitStep = tm.quitStep,
             Up(tm), Fine(r)
      PROVE  ExchangeAgrees'
  <2>1. tm' = r
    BY <1>3 DEF TSNotify, Up
  <2> QED
    BY <1>2, <1>3, <2>1
<1>4. CASE SourceConnects
  <2>1. Up(tm) /\ Fine(TSConnected(SrcConnected(tm)))
    BY <1>1, <1>4, RequestMeansUp, ConnectedInOrder DEF SourceConnects, SourceTurn
  <2>2. SrcConnected(tm).quitStep = tm.quitStep
    BY DEF SrcConnected
  <2> QED
    BY <1>3, <1>4, <2>1, <2>2 DEF SourceConnects
<1>5. CASE SourceHandsOut
  <2>1. PICK lv \in Readings :
          tm' = TSNotify(SrcHandOut(tm), TSGotTask(SrcHandOut(tm), tm.next, lv))
    BY <1>5 DEF SourceHandsOut
  <2>2. tm.next \in Frames
    BY <1>1, <1>5, Read, ConfigAssumption DEF SourceHandsOut, Frames
  <2>3. Up(tm) /\ Fine(TSGotTask(SrcHandOut(tm), tm.next, lv))
    BY <1>1, <1>5, <2>2, RequestMeansUp, GotTaskInOrder
       DEF SourceHandsOut, SourceTurn
  <2>4. SrcHandOut(tm).quitStep = tm.quitStep
    BY DEF SrcHandOut
  <2> QED
    BY <1>3, <2>1, <2>3, <2>4
<1>6. CASE SourceHasNoMore
  <2>1. Up(tm) /\ Fine(TSNoMoreTasks(SrcNoTask(tm)))
    BY <1>1, <1>6, RequestMeansUp, NoTaskInOrder DEF SourceHasNoMore, SourceTurn
  <2>2. SrcNoTask(tm).quitStep = tm.quitStep
    BY DEF SrcNoTask
  <2> QED
    BY <1>3, <1>6, <2>1, <2>2 DEF SourceHasNoMore
<1>7. CASE SourceGetFails
  <2>1. PICK skips \in BOOLEAN :
          tm' = TSNotify(SrcGetFails(tm, skips),
                         TSGetFailed(SrcGetFails(tm, skips)))
    BY <1>7 DEF SourceGetFails
  <2>2. Up(tm) /\ Fine(TSGetFailed(SrcGetFails(tm, skips)))
    BY <1>1, <1>7, RequestMeansUp, NoTaskInOrder DEF SourceGetFails, SourceTurn
  <2>3. SrcGetFails(tm, skips).quitStep = tm.quitStep
    BY DEF SrcGetFails
  <2> QED
    BY <1>3, <2>1, <2>2, <2>3
<1>8. CASE SourceTakesBack
  <2>1. Up(tm) /\ Fine(TSTookDone(SrcTakeBack(tm)))
    BY <1>1, <1>8, RequestMeansUp, TookDoneInOrder DEF SourceTakesBack, SourceTurn
  <2>2. SrcTakeBack(tm).quitStep = tm.quitStep
    BY DEF SrcTakeBack
  <2> QED
    BY <1>3, <1>8, <2>1, <2>2 DEF SourceTakesBack
<1>9. CASE SourceDisconnects
  <2>1. Up(tm) /\ Fine(TSDisconnected(SrcDisconnected(tm), tm.srcQuit))
    BY <1>1, <1>9, RequestMeansUp, DisconnectedInOrder
       DEF SourceDisconnects, SourceTurn
  <2>2. SrcDisconnected(tm).quitStep = tm.quitStep
    BY DEF SrcDisconnected
  <2> QED
    BY <1>3, <1>9, <2>1, <2>2 DEF SourceDisconnects
<1>10. CASE ManagerSchedules
  <2>1. PICK lv \in Readings, forked \in BOOLEAN : tm' = Schedule(tm, forked, lv)
    BY <1>10 DEF ManagerSchedules
  <2> QED
    BY <1>1, <1>2, <2>1, ScheduleInOrder
<1>11. ASSUME Keeps(tm, tm') PROVE ExchangeAgrees'
  BY <1>1, <1>2, <1>11, KeepsOrder
<1>12. ASSUME Serves(tm, tm'), Up(tm) PROVE ExchangeAgrees'
  BY <1>1, <1>2, <1>12 DEF Serves
<1>13. Keeps(tm, tm)
  BY SameKeeps DEF Same
<1>14. CASE RoundEnds
  <2>1. PICK lv \in Readings : tm' = IF tm.dead = {} THEN tm ELSE TidyUp(tm, lv)
    BY <1>14 DEF RoundEnds
  <2> QED
    BY <1>1, <1>11, <1>13, <2>1, TidyUpKeeps
<1>15. ASSUME NEW lv \in Readings, ManagerPollsLoad(lv) PROVE ExchangeAgrees'
  BY <1>1, <1>11, <1>15, LoadPollKeeps DEF ManagerPollsLoad
<1>16. ASSUME NEW t \in Frames, JobExecutes(t) PROVE ExchangeAgrees'
  <2> DEFINE x == [tm EXCEPT !.job[t] = "running"]
  <2>1. PICK lv \in Readings : tm' = LaunchingTaskDone(x, lv)
    BY <1>16 DEF JobExecutes
  <2>2. Up(tm)
    <3>1. tm.job[t] # "none"
      BY <1>16 DEF JobExecutes
    <3> QED
      BY <3>1, JobMeansUp
  <2>3. x \in Members
    BY <1>1, WriteAt
  <2>4. Quitting(x) = Quitting(tm)
    BY DEF Quitting
  <2>5. Keeps(tm, x)
    BY <2>2, <2>4 DEF Keeps
  <2> HIDE DEF x
  <2>6. Serves(tm, LaunchingTaskDone(x, lv))
    BY <2>3, <2>5, KeepsServes, LaunchingServes, ServesTrans
  <2> QED
    BY <1>12, <2>1, <2>2, <2>6
<1>17. ASSUME NEW t \in Frames, NEW ok \in BOOLEAN, NEW resume \in BOOLEAN,
              NEW lv \in Readings, tm.job[t] # "none",
              tm' = JobExited(tm, t, ok, resume, lv)
       PROVE  ExchangeAgrees'
  <2> DEFINE a == JobSucceeded(tm, t)
             b == JobFailed(tm, t, resume)
  <2>1. a \in Members /\ b \in Members
    BY <1>1, JobSucceededTyped, JobFailedTyped
  <2>2. Keeps(tm, a) /\ Keeps(tm, b)
    BY <1>1, JobGoneKeeps
  <2> HIDE DEF a, b
  <2>3. Serves(tm, HandleSuccessfulJob(a, t, lv))
        /\ Serves(tm, HandleFailedTask(b, t, lv))
    BY <2>1, <2>2, KeepsServes, SuccessServes, FailureServes, ServesTrans
  <2> QED
    BY <1>12, <1>17, <2>3, JobMeansUp DEF JobExited, a, b
<1>18. ASSUME NEW t \in Frames, JobExecFails(t) PROVE ExchangeAgrees'
  <2>1. PICK lv \in Readings : tm' = JobExited(tm, t, FALSE, FALSE, lv)
    BY <1>18 DEF JobExecFails
  <2>2. tm.job[t] # "none"
    BY <1>18 DEF JobExecFails
  <2> QED
    BY <1>17, <2>1, <2>2
<1>19. ASSUME NEW t \in Frames, JobEnds(t) PROVE ExchangeAgrees'
  <2>1. PICK ok \in BOOLEAN, resume \in BOOLEAN, lv \in Readings :
          tm' = JobExited(tm, t, ok, resume, lv)
    BY <1>19 DEF JobEnds
  <2>2. tm.job[t] # "none"
    BY <1>19 DEF JobEnds
  <2> QED
    BY <1>17, <2>1, <2>2
<1>20. ASSUME NEW t \in Frames, JobTimesOut(t) PROVE ExchangeAgrees'
  BY <1>11, <1>20, Untouching, SameKeeps DEF JobTimesOut
<1>21. CASE User
  <2>1. \E lv : tm' \in {SigInt(tm), SigTerm(tm), SigTstp(tm), SigCont(tm, lv)}
    BY <1>21 DEF User, UserInterrupts, UserTerminates, UserStops, UserContinues
  <2> QED
    BY <1>1, <1>2, <2>1, SignalsInOrder
<1>22. CASE Gone \/ UNCHANGED vars
  BY <1>11, <1>13, <1>22 DEF Gone, vars
<1> QED
  BY <1>4, <1>5, <1>6, <1>7, <1>8, <1>9, <1>10, <1>14, <1>15, <1>16, <1>18, <1>19,
     <1>20, <1>21, <1>22 DEF Next, MainLoop, SourceAnswers

\* Manager and source always agree on the connection and the outstanding
\* request, an open connection is never forgotten (tsnotify(), _schedule()),
\* and before the start and on the way out nothing is open, outstanding or
\* running.
THEOREM ExchangeHolds == Spec => []ExchangeAgrees
<1>1. Init => ExchangeAgrees
  BY ExchangeInit
<1>2. TypeOK /\ ExchangeAgrees /\ [Next]_vars => ExchangeAgrees'
  BY ExchangeStep
<1> QED
  BY <1>1, <1>2, RendViewTyped, PTL DEF Spec

----------------------------------------------------------------------------
(***************************************************************************)
(* No task of RendView is lost, queued twice or worked on in the wrong       *)
(* order, in any run: whatever the number of frames, the thresholds, the     *)
(* faults and the signals.  The inductive invariant InHand says of every     *)
(* task in how many places it is and what must have become of it there.      *)
(* Occurrences are counted, so a member function that moves a task from one  *)
(* list to the other is a sum that stays the same.                           *)
(***************************************************************************)

\* How often t occurs in the lists, in proc and at the source (Occurrences).
Places(s, t) ==
  Count(s.refilter, t) + Count(s.fresh, t) + Count(s.done, t)
    + (IF t \in s.proc THEN 1 ELSE 0) + (IF t = s.srcDone THEN 1 ELSE 0)

\* What a task in the front part of todo has behind it, and one in the rest.
Rendered(s, t) ==
  s.stage[t] = "ToBeFiltered" /\ s.rtes[t].end = "Success" /\ s.ftes[t] = Unset
Untouched(s, t) ==
  /\ s.stage[t] = IF t \in RenderFrames THEN "ToBeRendered" ELSE "ToBeFiltered"
  /\ s.rtes[t] = Unset /\ s.ftes[t] = Unset

\* Task t is in one place at most, and there as it should be.
Fine(s, t) ==
  /\ Places(s, t) <= 1
  /\ t >= s.next =>
       Places(s, t) = 0 /\ s.rtes[t] = Unset /\ s.ftes[t] = Unset
  /\ Count(s.refilter, t) > 0 => Rendered(s, t)
  /\ Count(s.fresh, t) > 0 => Untouched(s, t)
  /\ t \in s.proc => Rendered(s, t) \/ Untouched(s, t)
  /\ t \in s.proc <=> s.job[t] # "none"

\* A task is scheduled for start only while it waits in todo; no more new ones
\* once quit is scheduled, none at all with dont_start_more_tasks set.
Chosen(s) ==
  /\ s.sfs # NoTask =>
       /\ Count(s.refilter, s.sfs) > 0 \/ Count(s.fresh, s.sfs) > 0
       /\ s.sq > 0 => Count(s.refilter, s.sfs) > 0
  /\ s.dsmt => s.refilter = <<>> /\ s.sfs = NoTask

Sound(s) == Chosen(s) /\ \A t \in Frames : Fine(s, t)

\* From s to r tasks may move, but none gets lost and none appears.
Moves(s, r) ==
  Sound(s) => /\ Sound(r) /\ r.next = s.next
              /\ \A t \in Frames : Places(r, t) = Places(s, t)

\* What the source has not got back is in exactly one place.
InHand ==
  /\ Sound(tm)
  /\ \A t \in Frames :
       /\ Places(tm, t) = IF t < tm.next /\ reported[t] = "no" THEN 1 ELSE 0
       /\ t >= tm.next => reported[t] = "no"

----------------------------------------------------------------------------
(* Counting in sequences *)

\* A count is a number; it is positive for the members of the list only.
LEMMA CountType ==
  ASSUME NEW q \in Seq(Frames), NEW t
  PROVE  /\ IsFiniteSet({i \in DOMAIN q : q[i] = t})
         /\ Count(q, t) \in Nat
         /\ Count(q, t) > 0 <=> \E i \in DOMAIN q : q[i] = t
         /\ Count(q, t) > 0 <=> t \in InSeq(q)
<1> DEFINE at == {i \in DOMAIN q : q[i] = t}
<1>1. IsFiniteSet(DOMAIN q)
  BY FS_Interval, LenProperties
<1>2. IsFiniteSet(at) /\ Cardinality(at) \in Nat /\ (Cardinality(at) = 0 <=> at = {})
  BY <1>1, FS_Subset, FS_CardinalityType, FS_EmptySet
<1> QED
  BY <1>2 DEF Count, InSeq

\* Nothing occurs in the empty list, and a list of one holds it once.
LEMMA CountFew ==
  ASSUME NEW t, NEW u \in Frames
  PROVE  /\ Count(<<>>, t) = 0
         /\ Count(<<u>>, t) = IF t = u THEN 1 ELSE 0
<1>1. {i \in DOMAIN <<>> : <<>>[i] = t} = {}
  OBVIOUS
<1>2. {i \in DOMAIN <<u>> : <<u>>[i] = t} = IF t = u THEN {1} ELSE {}
  OBVIOUS
<1> QED
  BY <1>1, <1>2, FS_EmptySet, FS_Singleton DEF Count

\* Occurrences add up when lists are joined.
LEMMA CountConcat ==
  ASSUME NEW p \in Seq(Frames), NEW q \in Seq(Frames), NEW t
  PROVE  Count(p \o q, t) = Count(p, t) + Count(q, t)
<1> DEFINE n  == Len(p)
           P  == {i \in DOMAIN p : p[i] = t}
           Q  == {i \in DOMAIN q : q[i] = t}
           Q2 == {i \in DOMAIN (p \o q) : i > n /\ (p \o q)[i] = t}
           f  == [i \in Q |-> i + n]
<1>1. /\ n \in Nat /\ Len(q) \in Nat
      /\ DOMAIN p = 1..n /\ DOMAIN q = 1..Len(q)
      /\ DOMAIN (p \o q) = 1..(n + Len(q))
      /\ \A i \in 1..(n + Len(q)) :
           (p \o q)[i] = IF i <= n THEN p[i] ELSE q[i - n]
  BY LenProperties, ConcatProperties
<1>2. IsFiniteSet(P) /\ IsFiniteSet(Q)
  BY CountType
<1>3. f \in Bijection(Q, Q2)
  <2>1. \A i \in Q : i + n \in Q2
    <3> SUFFICES ASSUME NEW i \in Q PROVE i + n \in Q2
      OBVIOUS
    <3>1. i \in 1..Len(q) /\ q[i] = t
      BY <1>1
    <3>2. i + n \in 1..(n + Len(q)) /\ i + n > n /\ (i + n) - n = i
      BY <1>1, <3>1
    <3>3. (p \o q)[i + n] = q[i]
      BY <1>1, <3>2
    <3> QED
      BY <1>1, <3>1, <3>2, <3>3
  <2>2. \A j \in Q2 : j - n \in Q /\ (j - n) + n = j
    <3> SUFFICES ASSUME NEW j \in Q2 PROVE j - n \in Q /\ (j - n) + n = j
      OBVIOUS
    <3>1. j \in 1..(n + Len(q)) /\ j > n /\ (p \o q)[j] = t
      BY <1>1
    <3>2. j - n \in 1..Len(q) /\ q[j - n] = t /\ (j - n) + n = j
      BY <1>1, <3>1
    <3> QED
      BY <1>1, <3>2
  <2>3. \A i, j \in Q : i + n = j + n => i = j
    BY <1>1
  <2> HIDE DEF n, Q, Q2
  <2>4. f \in [Q -> Q2] /\ DOMAIN f = Q
    BY <2>1
  <2>5. IsInjective(f)
    BY <2>3, <2>4 DEF IsInjective
  <2>6. \A j \in Q2 : \E i \in Q : f[i] = j
    BY <2>2
  <2> QED
    BY <2>4, <2>5, <2>6 DEF Bijection, Injection, Surjection
<1>4. IsFiniteSet(Q2) /\ Cardinality(Q2) = Cardinality(Q)
  <2>1. ExistsBijection(Q, Q2)
    BY <1>3 DEF ExistsBijection
  <2> HIDE DEF Q, Q2
  <2> QED
    BY <1>2, <2>1, FS_Bijection
<1>5. {i \in DOMAIN (p \o q) : (p \o q)[i] = t} = P \cup Q2
  BY <1>1
<1>6. P \cap Q2 = {}
  BY <1>1
<1> HIDE DEF P, Q, Q2
<1>7. Cardinality(P \cup Q2) = Cardinality(P) + Cardinality(Q2) - Cardinality({})
  BY <1>2, <1>4, <1>6, FS_Union
<1>8. Cardinality(P) \in Nat /\ Cardinality(Q2) \in Nat /\ Cardinality({}) = 0
  BY <1>2, <1>4, FS_CardinalityType, FS_EmptySet
<1>9. Cardinality(P \cup Q2) = Cardinality(P) + Cardinality(Q)
  BY <1>4, <1>7, <1>8
<1> QED
  BY <1>5, <1>9 DEF Count, P, Q

\* Appending and prepending add one occurrence.
LEMMA CountGrows ==
  ASSUME NEW q \in Seq(Frames), NEW u \in Frames, NEW t
  PROVE  /\ Append(q, u) \in Seq(Frames) /\ <<u>> \o q \in Seq(Frames)
         /\ Count(Append(q, u), t) = Count(q, t) + (IF t = u THEN 1 ELSE 0)
         /\ Count(<<u>> \o q, t) = Count(q, t) + (IF t = u THEN 1 ELSE 0)
<1>1. <<u>> \in Seq(Frames)
  OBVIOUS
<1>2. Append(q, u) = q \o <<u>>
  BY AppendIsConcat
<1>3. q \o <<u>> \in Seq(Frames) /\ <<u>> \o q \in Seq(Frames)
  BY <1>1, ConcatProperties
<1>4. /\ Count(q \o <<u>>, t) = Count(q, t) + Count(<<u>>, t)
      /\ Count(<<u>> \o q, t) = Count(<<u>>, t) + Count(q, t)
  BY <1>1, CountConcat
<1>5. Count(q, t) \in Nat /\ Count(<<u>>, t) = IF t = u THEN 1 ELSE 0
  BY CountFew, CountType
<1> QED
  BY <1>2, <1>3, <1>4, <1>5

\* Taking the first element away takes one occurrence away.
LEMMA CountTail ==
  ASSUME NEW q \in Seq(Frames), q # <<>>, NEW t
  PROVE  /\ Head(q) \in Frames /\ Tail(q) \in Seq(Frames)
         /\ Count(q, t) = Count(Tail(q), t) + (IF t = Head(q) THEN 1 ELSE 0)
<1>1. Head(q) \in Frames /\ Tail(q) \in Seq(Frames)
  BY HeadTailProperties
<1>2. q = <<Head(q)>> \o Tail(q)
  OBVIOUS
<1>3. Count(<<Head(q)>> \o Tail(q), t) = Count(Tail(q), t) + (IF t = Head(q) THEN 1 ELSE 0)
  BY <1>1, CountGrows
<1> QED
  BY <1>1, <1>2, <1>3

\* Without() takes one occurrence of its task away, and nothing else.
LEMMA CountWithout ==
  ASSUME NEW q \in Seq(Frames), NEW u, NEW t
  PROVE  /\ Without(q, u) \in Seq(Frames)
         /\ Count(Without(q, u), t) =
              IF t = u /\ Count(q, u) > 0 THEN Count(q, t) - 1 ELSE Count(q, t)
         /\ q = <<>> => Without(q, u) = <<>>
<1>1. CASE \E i \in DOMAIN q : q[i] = u
  <2> DEFINE i == CHOOSE j \in DOMAIN q : q[j] = u
             A == SubSeq(q, 1, i - 1)
             B == SubSeq(q, i + 1, Len(q))
  <2>1. i \in DOMAIN q /\ q[i] = u
    BY <1>1
  <2>2. Without(q, u) = A \o B
    BY <1>1 DEF Without
  <2> HIDE DEF i
  <2>3. Len(q) \in Nat /\ i \in 1..Len(q) /\ \A j \in 1..Len(q) : q[j] \in Frames
    BY <2>1, LenProperties, ElementOfSeq
  <2>4. A \in Seq(Frames) /\ B \in Seq(Frames)
    BY <2>3, SubSeqProperties
  <2>5. q = (A \o <<u>>) \o B
    <3>1. SubSeq(q, 1, i) = A \o <<u>>
      <4>1. 1 \in 1..Len(q) /\ i \in 1..Len(q)
        BY <2>3
      <4> QED
        BY <2>1, <4>1, SubSeqRecursiveSecond
    <3>2. SubSeq(q, 1, i) \o B = SubSeq(q, 1, Len(q))
      <4>1. /\ 1 \in 1..Len(q) + 1 /\ i \in 1 - 1..Len(q)
            /\ Len(q) \in i..Len(q)
        BY <2>3
      <4> QED
        BY <4>1, ConcatAdjacentSubSeq
    <3>3. SubSeq(q, 1, Len(q)) = q
      BY SubSeqFull
    <3> QED
      BY <3>1, <3>2, <3>3
  <2>6. u \in Frames /\ <<u>> \in Seq(Frames)
    BY <2>1, <2>3
  <2>7. A \o <<u>> \in Seq(Frames) /\ A \o B \in Seq(Frames)
    <3> HIDE DEF A, B
    <3> QED
      BY <2>4, <2>6, ConcatProperties
  <2> HIDE DEF A, B
  <2>8. Count(q, t) = Count(A, t) + Count(<<u>>, t) + Count(B, t)
    <3>1. Count((A \o <<u>>) \o B, t) = Count(A \o <<u>>, t) + Count(B, t)
      <4> DEFINE C == A \o <<u>>
      <4> HIDE DEF C
      <4>1. C \in Seq(Frames)
        BY <2>7 DEF C
      <4>2. Count(C \o B, t) = Count(C, t) + Count(B, t)
        BY <2>4, <4>1, CountConcat
      <4> QED
        BY <4>2 DEF C
    <3>2. Count(A \o <<u>>, t) = Count(A, t) + Count(<<u>>, t)
      BY <2>4, <2>6, CountConcat
    <3> QED
      BY <2>5, <3>1, <3>2
  <2>9. Count(A \o B, t) = Count(A, t) + Count(B, t)
    BY <2>4, CountConcat
  <2>10. Count(A, t) \in Nat /\ Count(B, t) \in Nat
    BY <2>4, CountType
  <2>11. Count(<<u>>, t) = IF t = u THEN 1 ELSE 0
    BY <2>6, CountFew
  <2>12. Count(q, u) > 0 /\ q # <<>>
    <3>1. Count(q, u) > 0
      BY <1>1, CountType
    <3>2. Count(<<>>, u) = 0
      BY <2>6, CountFew
    <3> QED
      BY <3>1, <3>2
  <2> QED
    BY <2>2, <2>7, <2>8, <2>9, <2>10, <2>11, <2>12
<1>2. CASE ~\E i \in DOMAIN q : q[i] = u
  BY <1>2, CountType DEF Without
<1> QED
  BY <1>1, <1>2

\* FirstIn() finds a member of the list that is in the set.
LEMMA FirstInFinds ==
  ASSUME NEW q \in Seq(Frames), NEW S, FirstIn(q, S) # NoTask
  PROVE  FirstIn(q, S) \in S /\ Count(q, FirstIn(q, S)) > 0
<1> DEFINE E == {i \in DOMAIN q : q[i] \in S}
           n == CHOOSE i \in E : \A j \in E : i <= j
<1>1. \E i \in E : \A j \in E : i <= j
  BY DEF FirstIn
<1>2. FirstIn(q, S) = q[n]
  BY <1>1 DEF FirstIn
<1>3. n \in E
  BY <1>1
<1> HIDE DEF n
<1>4. n \in DOMAIN q /\ q[n] \in S
  BY <1>3
<1> QED
  BY <1>2, <1>4, CountType

----------------------------------------------------------------------------
(* Members of records *)

\* A member that is written holds the value written.
LEMMA Written ==
  ASSUME NEW s \in Members, NEW v
  PROVE
    /\ [s EXCEPT !.started = v].started = v
    /\ [s EXCEPT !.refilter = v].refilter = v
    /\ [s EXCEPT !.fresh = v].fresh = v
    /\ [s EXCEPT !.proc = v].proc = v
    /\ [s EXCEPT !.done = v].done = v
    /\ [s EXCEPT !.stage = v].stage = v
    /\ [s EXCEPT !.rtes = v].rtes = v
    /\ [s EXCEPT !.ftes = v].ftes = v
    /\ [s EXCEPT !.job = v].job = v
    /\ [s EXCEPT !.killed = v].killed = v
    /\ [s EXCEPT !.nrun = v].nrun = v
    /\ [s EXCEPT !.dead = v].dead = v
    /\ [s EXCEPT !.sfs = v].sfs = v
    /\ [s EXCEPT !.dsmt = v].dsmt = v
    /\ [s EXCEPT !.sq = v].sq = v
    /\ [s EXCEPT !.sqa = v].sqa = v
    /\ [s EXCEPT !.killTasks = v].killTasks = v
    /\ [s EXCEPT !.toldIf = v].toldIf = v
    /\ [s EXCEPT !.toldTs = v].toldTs = v
    /\ [s EXCEPT !.connected = v].connected = v
    /\ [s EXCEPT !.pending = v].pending = v
    /\ [s EXCEPT !.tsgod = v].tsgod = v
    /\ [s EXCEPT !.nth = v].nth = v
    /\ [s EXCEPT !.tdaf = v].tdaf = v
    /\ [s EXCEPT !.failed = v].failed = v
    /\ [s EXCEPT !.caught = v].caught = v
    /\ [s EXCEPT !.abortOn = v].abortOn = v
    /\ [s EXCEPT !.stopped = v].stopped = v
    /\ [s EXCEPT !.load = v].load = v
    /\ [s EXCEPT !.poll = v].poll = v
    /\ [s EXCEPT !.tid0 = v].tid0 = v
    /\ [s EXCEPT !.quitStep = v].quitStep = v
    /\ [s EXCEPT !.status = v].status = v
    /\ [s EXCEPT !.srcConn = v].srcConn = v
    /\ [s EXCEPT !.srcPend = v].srcPend = v
    /\ [s EXCEPT !.srcDone = v].srcDone = v
    /\ [s EXCEPT !.srcQuit = v].srcQuit = v
    /\ [s EXCEPT !.next = v].next = v
    /\ [s EXCEPT !.crash = v].crash = v
  BY DEF Members

\* From s to r nothing changes that the places of the tasks depend on.
Still(s, r) ==
  /\ r.refilter = s.refilter /\ r.fresh = s.fresh /\ r.done = s.done
  /\ r.proc = s.proc /\ r.srcDone = s.srcDone /\ r.next = s.next
  /\ r.stage = s.stage /\ r.rtes = s.rtes /\ r.ftes = s.ftes
  /\ r.job = s.job

\* Nor anything that the scheduled start depends on.
Calm(s, r) ==
  Still(s, r) /\ r.sfs = s.sfs /\ r.sq = s.sq /\ r.dsmt = s.dsmt

\* Where nothing changes every task stays where it is, and fine.
LEMMA StillFine ==
  ASSUME NEW s, NEW r, Still(s, r), NEW t
  PROVE  /\ Places(r, t) = Places(s, t)
         /\ Fine(s, t) <=> Fine(r, t)
         /\ Rendered(s, t) <=> Rendered(r, t)
<1>1. Places(r, t) = Places(s, t)
  BY DEF Still, Places
<1>2. Rendered(s, t) <=> Rendered(r, t)
  BY DEF Still, Rendered
<1>3. Untouched(s, t) <=> Untouched(r, t)
  BY DEF Still, Untouched
<1> QED
  BY <1>1, <1>2, <1>3 DEF Still, Fine

\* Calm is Moves.
LEMMA CalmMoves == ASSUME NEW s, NEW r, Calm(s, r) PROVE Moves(s, r)
<1>1. \A t : Places(r, t) = Places(s, t) /\ (Fine(s, t) <=> Fine(r, t))
  BY StillFine DEF Calm
<1>2. Chosen(s) => Chosen(r)
  BY DEF Calm, Still, Chosen
<1> QED
  BY <1>1, <1>2 DEF Moves, Sound, Calm, Still

\* Calm and Moves compose.
LEMMA CalmTrans ==
  ASSUME NEW s, NEW r, NEW q, Calm(s, r), Calm(r, q) PROVE Calm(s, q)
  BY DEF Calm, Still

LEMMA MovesTrans ==
  ASSUME NEW s, NEW r, NEW q, Moves(s, r), Moves(r, q) PROVE Moves(s, q)
  BY DEF Moves

\* The number of places of a task.
LEMMA PlacesType ==
  ASSUME NEW s \in Members, NEW t
  PROVE  /\ Count(s.refilter, t) \in Nat /\ Count(s.fresh, t) \in Nat
         /\ Count(s.done, t) \in Nat /\ Places(s, t) \in Nat
<1>1. /\ Count(s.refilter, t) \in Nat /\ Count(s.fresh, t) \in Nat
      /\ Count(s.done, t) \in Nat
  BY Read, CountType
<1>2. (IF t \in s.proc THEN 1 ELSE 0) \in Nat /\ (IF t = s.srcDone THEN 1 ELSE 0) \in Nat
  OBVIOUS
<1> QED
  BY <1>1, <1>2 DEF Places

----------------------------------------------------------------------------
(* Member functions that move no task *)

\* Assertions, the load, the timers, requests to the source, the way to exit.
LEMMA Quiet ==
  ASSUME NEW s, NEW lv, NEW how, NEW cond
  PROVE  /\ Calm(s, s) /\ Calm(s, Die(s, how)) /\ Calm(s, Check(s, cond))
         /\ Calm(s, DoCheckLoad(s, lv)) /\ Calm(s, ReSched(s))
         /\ Calm(s, TSConnect(s)) /\ Calm(s, TSGetTask(s))
         /\ Calm(s, TSDisconnect(s, cond))
         /\ Calm(s, CheckStartExchange(s))
         /\ Calm(s, ActuallyQuit(s, how)) /\ Calm(s, QuitCountdown(s))
         /\ Calm(s, StartProcessing(s)) /\ Calm(s, LoadPoll(s, lv))
         /\ Calm(s, KillJobs(s)) /\ Calm(s, Answered(s))
         /\ Calm(s, SrcConnected(s)) /\ Calm(s, SrcNoTask(s))
         /\ Calm(s, SrcDisconnected(s))
         /\ Calm(s, KillProcess(s, how, cond))
<1> USE DEF Calm, Still
<1>1. Calm(s, s) /\ Calm(s, Die(s, how)) /\ Calm(s, Check(s, cond))
  BY DEF Die, Check
<1>2. Calm(s, DoCheckLoad(s, lv)) /\ Calm(s, ReSched(s))
  BY DEF DoCheckLoad, ReSched
<1>3. Calm(s, TSConnect(s)) /\ Calm(s, TSGetTask(s))
  BY DEF TSConnect, TSGetTask, Check, Die
<1>4. Calm(s, TSDisconnect(s, cond))
  BY DEF TSDisconnect, Check, Die
<1>5. Calm(s, CheckStartExchange(s))
  BY <1>1, <1>3 DEF CheckStartExchange
<1>6. Calm(s, ActuallyQuit(s, how))
  BY DEF ActuallyQuit, ReSched
<1>7. Calm(s, QuitCountdown(s))
  BY DEF QuitCountdown, DestructCleanup, Check, Die
<1>8. Calm(s, StartProcessing(s))
  BY DEF StartProcessing, TSConnect, Check, Die, ActuallyQuit, ReSched
<1>9. Calm(s, LoadPoll(s, lv))
  BY DEF LoadPoll, DoCheckLoad, ReSched, Check, Die
<1>10. Calm(s, KillJobs(s))
  BY DEF KillJobs, TermAllJobs, Die
<1>11. /\ Calm(s, Answered(s)) /\ Calm(s, SrcConnected(s))
       /\ Calm(s, SrcNoTask(s)) /\ Calm(s, SrcDisconnected(s))
  BY DEF Answered, SrcConnected, SrcNoTask, SrcDisconnected
<1>12. Calm(s, KillProcess(s, how, cond))
  BY DEF KillProcess
<1> QED
  BY <1>1, <1>2, <1>3, <1>4, <1>5, <1>6, <1>7, <1>8, <1>9, <1>10, <1>11, <1>12

\* Giving up the scheduled start leaves the tasks where they are.
LEMMA KillScheduledIs ==
  ASSUME NEW s \in Members
  PROVE  /\ Still(s, KillScheduledForStart(s))
         /\ KillScheduledForStart(s).sfs = NoTask
         /\ KillScheduledForStart(s).sq = s.sq
         /\ KillScheduledForStart(s).dsmt = s.dsmt
         /\ KillScheduledForStart(s) \in Members
         /\ Moves(s, KillScheduledForStart(s))
<1> DEFINE r == KillScheduledForStart(s)
<1>1. Still(s, r) /\ r.sq = s.sq /\ r.dsmt = s.dsmt
  BY DEF KillScheduledForStart, Still
<1>2. r.sfs = NoTask
  BY DEF KillScheduledForStart, Members
<1>3. r \in Members
  BY KillScheduledTyped
<1> HIDE DEF r
<1>4. Chosen(s) => Chosen(r)
  BY <1>1, <1>2 DEF Chosen, Still
<1>5. \A t : Places(r, t) = Places(s, t) /\ (Fine(s, t) <=> Fine(r, t))
  BY <1>1, StillFine
<1>6. Moves(s, r)
  BY <1>1, <1>4, <1>5 DEF Moves, Sound, Still
<1> QED
  BY <1>1, <1>2, <1>3, <1>6 DEF r

\* The task chosen for start waits in todo, and with quit scheduled it is a
\* rendered one.
LEMMA GetTaskToStartFinds ==
  ASSUME NEW s \in Members, Sound(s), GetTaskToStart(s) # NoTask
  PROVE  LET t == GetTaskToStart(s) IN
         /\ t \in Frames
         /\ Count(s.refilter, t) > 0 \/ Count(s.fresh, t) > 0
         /\ s.sq > 0 => Count(s.refilter, t) > 0
         /\ MayStart(s, t) /\ RunningJobs(s) < NJobs
<1> DEFINE t == GetTaskToStart(s)
           S == {u \in Frames : MayStart(s, u)}
<1>1. Todo(s) \in Seq(Frames) /\ t = FirstIn(Todo(s), S) /\ ~(RunningJobs(s) >= NJobs)
  BY TodoTyped DEF GetTaskToStart
<1> HIDE DEF t
<1>2. t \in S /\ Count(Todo(s), t) > 0
  <2>1. t # NoTask
    BY DEF t
  <2> QED
    BY <1>1, <2>1, FirstInFinds
<1>3. Count(s.refilter, t) > 0 \/ Count(s.fresh, t) > 0
  <2>1. Count(Todo(s), t) = Count(s.refilter, t) + Count(s.fresh, t)
    BY Read, CountConcat DEF Todo
  <2> QED
    BY <1>2, <2>1, PlacesType
<1>4. ASSUME s.sq > 0 PROVE Count(s.refilter, t) > 0
  <2>1. s.rtes[t].end = "Success"
    BY <1>2, <1>4 DEF MayStart
  <2>2. s.rtes[t] # Unset
    BY <2>1 DEF Unset
  <2>3. ~(Count(s.fresh, t) > 0)
    BY <1>2, <2>2 DEF Sound, Fine, Untouched
  <2> QED
    BY <1>3, <2>3
<1>5. RunningJobs(s) < NJobs
  BY <1>1, Read, ConfigAssumption DEF RunningJobs, Kinds
<1> QED
  BY <1>2, <1>3, <1>4, <1>5 DEF t

\* Looking for a task to start moves none.
LEMMA CheckStartTasksMoves ==
  ASSUME NEW s \in Members, NEW lv PROVE Moves(s, CheckStartTasks(s, lv))
<1> DEFINE t == GetTaskToStart(s)
           a == [s EXCEPT !.sfs = t]
           r == DoScheduleForStart(s, t, lv)
<1>1. CASE s.dsmt \/ s.stopped \/ s.sfs # NoTask \/ t = NoTask
  <2>1. CheckStartTasks(s, lv) = s
    BY <1>1 DEF CheckStartTasks
  <2> QED
    BY <2>1, Quiet, CalmMoves
<1>2. CASE ~(s.dsmt \/ s.stopped \/ s.sfs # NoTask \/ t = NoTask)
  <2>1. CheckStartTasks(s, lv) = r
    BY <1>2 DEF CheckStartTasks
  <2>2. Still(s, a) /\ a.sq = s.sq /\ a.dsmt = s.dsmt /\ a.sfs = t
    BY Written DEF Still
  <2>3. Calm(a, r)
    <3>1. Calm(a, DoCheckLoad(a, lv))
      BY Quiet
    <3>2. Calm(DoCheckLoad(a, lv), ReSched(DoCheckLoad(a, lv)))
      BY Quiet
    <3>3. Calm(DoCheckLoad(a, lv), [DoCheckLoad(a, lv) EXCEPT !.poll = TRUE])
      BY DEF Calm, Still
    <3> QED
      BY <3>1, <3>2, <3>3, CalmTrans DEF DoScheduleForStart
  <2> HIDE DEF a, r
  <2>4. ASSUME Sound(s) PROVE Sound(a) /\ \A u : Places(a, u) = Places(s, u)
    <3>1. /\ Count(s.refilter, t) > 0 \/ Count(s.fresh, t) > 0
          /\ s.sq > 0 => Count(s.refilter, t) > 0
      BY <1>2, <2>4, GetTaskToStartFinds
    <3>2. Chosen(a)
      <4> HIDE DEF t
      <4> QED
        BY <1>2, <2>2, <3>1 DEF Chosen, Still
    <3>3. \A u : Places(a, u) = Places(s, u) /\ (Fine(s, u) <=> Fine(a, u))
      BY <2>2, StillFine
    <3> QED
      BY <2>4, <3>2, <3>3 DEF Sound
  <2>5. Moves(s, a)
    BY <2>2, <2>4 DEF Moves, Still
  <2> QED
    BY <2>1, <2>3, <2>5, CalmMoves, MovesTrans
<1> QED
  BY <1>1, <1>2

----------------------------------------------------------------------------
(* Member functions that move tasks *)

\* Rendered tasks that wait for the filter go to done, the scheduled start is
\* given up: whatever was chosen before, all is sound afterwards.
LEMMA DontStartIs ==
  ASSUME NEW s \in Members
  PROVE  LET r == DontStartMoreTasks(s) IN
         /\ r \in Members /\ r.dsmt /\ r.sfs = NoTask /\ r.refilter = <<>>
         /\ r.done = s.done \o s.refilter
         /\ r.fresh = s.fresh /\ r.proc = s.proc /\ r.srcDone = s.srcDone
         /\ r.stage = s.stage /\ r.rtes = s.rtes /\ r.ftes = s.ftes
         /\ r.job = s.job /\ r.next = s.next /\ r.sq = s.sq
<1> DEFINE d == [s EXCEPT !.dsmt = TRUE]
           k == KillScheduledForStart(d)
           a == [k EXCEPT !.done = @ \o s.refilter]
           r == [a EXCEPT !.refilter = <<>>]
<1>1. d \in Members /\ d.dsmt = TRUE
  <2>1. d \in Members
    BY Write
  <2>2. d.dsmt = TRUE
    BY DEF Members
  <2> QED
    BY <2>1, <2>2
<1>2. Still(s, d) /\ d.sq = s.sq
  BY DEF Still
<1> HIDE DEF d
<1>3. k \in Members /\ Still(d, k) /\ k.sfs = NoTask /\ k.sq = d.sq /\ k.dsmt = TRUE
  BY <1>1, KillScheduledIs
<1> HIDE DEF k
<1>4. a \in Members /\ a.done = k.done \o s.refilter
  <2>1. k.done \o s.refilter \in Seq(Frames)
    BY <1>3, Read, ConcatProperties
  <2>2. a \in Members
    BY <1>3, <2>1, Write
  <2>3. a.done = k.done \o s.refilter
    BY <1>3 DEF Members
  <2> QED
    BY <2>2, <2>3
<1>5. /\ a.refilter = k.refilter /\ a.fresh = k.fresh /\ a.proc = k.proc
      /\ a.srcDone = k.srcDone /\ a.stage = k.stage /\ a.rtes = k.rtes
      /\ a.ftes = k.ftes /\ a.job = k.job /\ a.next = k.next /\ a.sq = k.sq
      /\ a.sfs = k.sfs /\ a.dsmt = k.dsmt
  OBVIOUS
<1> HIDE DEF a
<1>6. /\ r.done = a.done /\ r.fresh = a.fresh /\ r.proc = a.proc
      /\ r.srcDone = a.srcDone /\ r.stage = a.stage /\ r.rtes = a.rtes
      /\ r.ftes = a.ftes /\ r.job = a.job /\ r.next = a.next /\ r.sq = a.sq
      /\ r.sfs = a.sfs /\ r.dsmt = a.dsmt
  OBVIOUS
<1>7. r.refilter = <<>>
  BY <1>4, Written
<1>8. DontStartMoreTasks(s) = r
  BY DEF DontStartMoreTasks, a, k, d
<1>9. r \in Members
  BY <1>8, DontStartTyped
<1> HIDE DEF r
<1>10. r.dsmt /\ r.sfs = NoTask
  BY <1>3, <1>5, <1>6
<1>11. r.done = s.done \o s.refilter
  BY <1>2, <1>3, <1>4, <1>6 DEF Still
<1>12. /\ r.fresh = s.fresh /\ r.proc = s.proc /\ r.srcDone = s.srcDone
       /\ r.stage = s.stage /\ r.rtes = s.rtes /\ r.ftes = s.ftes
       /\ r.job = s.job /\ r.next = s.next /\ r.sq = s.sq
  BY <1>2, <1>3, <1>5, <1>6 DEF Still
<1> QED
  BY <1>7, <1>8, <1>9, <1>10, <1>11, <1>12

\* What was rendered and waited is in done now.
LEMMA DontStartMoves ==
  ASSUME NEW s \in Members, \A t \in Frames : Fine(s, t)
  PROVE  /\ Sound(DontStartMoreTasks(s))
         /\ \A t \in Frames : Places(DontStartMoreTasks(s), t) = Places(s, t)
<1> DEFINE r == DontStartMoreTasks(s)
<1>1. /\ r \in Members /\ r.dsmt /\ r.sfs = NoTask /\ r.refilter = <<>>
      /\ r.done = s.done \o s.refilter
      /\ r.fresh = s.fresh /\ r.proc = s.proc /\ r.srcDone = s.srcDone
      /\ r.stage = s.stage /\ r.rtes = s.rtes /\ r.ftes = s.ftes
      /\ r.job = s.job /\ r.next = s.next /\ r.sq = s.sq
  BY DontStartIs
<1> HIDE DEF r
<1>2. Chosen(r)
  BY <1>1 DEF Chosen
<1>3. ASSUME NEW t \in Frames PROVE Places(r, t) = Places(s, t) /\ Fine(r, t)
  <2>1. Count(r.done, t) = Count(s.done, t) + Count(s.refilter, t)
    BY <1>1, Read, CountConcat
  <2>2. Count(r.refilter, t) = 0
    BY <1>1, <1>3, CountFew
  <2>3. Places(r, t) = Places(s, t)
    BY <1>1, <2>1, <2>2, PlacesType DEF Places
  <2>4. Fine(s, t)
    OBVIOUS
  <2>5. Fine(r, t)
    BY <1>1, <2>2, <2>3, <2>4 DEF Fine, Rendered, Untouched
  <2> QED
    BY <2>3, <2>5
<1> QED
  BY <1>2, <1>3 DEF Sound, r

\* The task that is given back leaves todo.
LEMMA DequeueIs ==
  ASSUME NEW s \in Members, NEW t \in Frames
  PROVE  LET r == Dequeue(s, t) IN
         /\ r \in Members
         /\ r.refilter = Without(s.refilter, t) /\ r.fresh = Without(s.fresh, t)
         /\ r.done = s.done /\ r.proc = s.proc /\ r.srcDone = s.srcDone
         /\ r.stage = s.stage /\ r.rtes = s.rtes /\ r.ftes = s.ftes
         /\ r.job = s.job /\ r.next = s.next /\ r.sq = s.sq
         /\ r.sfs = s.sfs /\ r.dsmt = s.dsmt
<1>1. Dequeue(s, t) \in Members
  BY DequeueTyped
<1>2. /\ Dequeue(s, t).refilter = Without(s.refilter, t)
      /\ Dequeue(s, t).fresh = Without(s.fresh, t)
  BY DEF Dequeue, Members
<1> QED
  BY <1>1, <1>2 DEF Dequeue

\* Dequeue() of a task that is in todo takes it out of there; the other tasks
\* stay.
LEMMA DequeueMoves ==
  ASSUME NEW s \in Members, NEW t \in Frames, Places(s, t) <= 1,
         Count(s.refilter, t) > 0 \/ Count(s.fresh, t) > 0
  PROVE  LET r == Dequeue(s, t) IN
         /\ Places(s, t) = 1 /\ Places(r, t) = 0
         /\ Count(r.refilter, t) = 0 /\ Count(r.fresh, t) = 0
         /\ Count(r.done, t) = 0 /\ t \notin r.proc /\ t # r.srcDone
         /\ \A u \in Frames \ {t} :
              /\ Count(r.refilter, u) = Count(s.refilter, u)
              /\ Count(r.fresh, u) = Count(s.fresh, u)
              /\ Places(r, u) = Places(s, u)
              /\ Fine(s, u) => Fine(r, u)
         /\ s.refilter = <<>> => r.refilter = <<>>
<1> DEFINE r == Dequeue(s, t)
<1>1. /\ r.refilter = Without(s.refilter, t) /\ r.fresh = Without(s.fresh, t)
      /\ r.done = s.done /\ r.proc = s.proc /\ r.srcDone = s.srcDone
      /\ r.stage = s.stage /\ r.rtes = s.rtes /\ r.ftes = s.ftes
      /\ r.job = s.job /\ r.next = s.next
  BY DequeueIs
<1> HIDE DEF r
<1>2. \A u : /\ Count(r.refilter, u) =
                   IF u = t /\ Count(s.refilter, t) > 0 THEN Count(s.refilter, u) - 1
                   ELSE Count(s.refilter, u)
             /\ Count(r.fresh, u) =
                   IF u = t /\ Count(s.fresh, t) > 0 THEN Count(s.fresh, u) - 1
                   ELSE Count(s.fresh, u)
  BY <1>1, Read, CountWithout
<1>3. s.refilter = <<>> => r.refilter = <<>>
  <2>1. s.refilter \in Seq(Frames)
    BY Read
  <2>2. s.refilter = <<>> => Without(s.refilter, t) = <<>>
    BY <2>1, CountWithout
  <2> QED
    BY <1>1, <2>2
<1>4. /\ Places(s, t) = 1 /\ Places(r, t) = 0
      /\ Count(r.refilter, t) = 0 /\ Count(r.fresh, t) = 0
      /\ Count(r.done, t) = 0 /\ t \notin r.proc /\ t # r.srcDone
  <2>1. /\ Count(s.refilter, t) \in Nat /\ Count(s.fresh, t) \in Nat
        /\ Count(s.done, t) \in Nat
    BY PlacesType
  <2>2. t \notin s.proc /\ t # s.srcDone /\ Count(s.done, t) = 0
    BY <2>1 DEF Places
  <2>3. Count(s.refilter, t) + Count(s.fresh, t) = 1 /\ Places(s, t) = 1
    BY <2>1, <2>2 DEF Places
  <2>4. Count(r.refilter, t) = 0 /\ Count(r.fresh, t) = 0
    BY <1>2, <2>1, <2>3
  <2> QED
    BY <1>1, <2>2, <2>3, <2>4 DEF Places
<1>5. ASSUME NEW u \in Frames \ {t}
      PROVE  /\ Count(r.refilter, u) = Count(s.refilter, u)
             /\ Count(r.fresh, u) = Count(s.fresh, u)
             /\ Places(r, u) = Places(s, u)
             /\ Fine(s, u) => Fine(r, u)
  <2>1. Count(r.refilter, u) = Count(s.refilter, u) /\ Count(r.fresh, u) = Count(s.fresh, u)
    BY <1>2
  <2>2. Places(r, u) = Places(s, u)
    BY <1>1, <2>1 DEF Places
  <2> QED
    BY <1>1, <2>1, <2>2 DEF Fine, Rendered, Untouched
<1> QED
  BY <1>3, <1>4, <1>5 DEF r

----------------------------------------------------------------------------
(* Tasks go back to the source *)

\* The request to take task t back makes it the source's done_task.
LEMMA DoneTaskIs ==
  ASSUME NEW s \in Members, NEW t \in Frames
  PROVE  LET r == TSDoneTask(s, t) IN
         /\ r.srcDone = t
         /\ r.refilter = s.refilter /\ r.fresh = s.fresh /\ r.done = s.done
         /\ r.proc = s.proc /\ r.next = s.next
         /\ r.stage = s.stage /\ r.rtes = s.rtes /\ r.ftes = s.ftes
         /\ r.job = s.job /\ r.sfs = s.sfs /\ r.sq = s.sq /\ r.dsmt = s.dsmt
<1> DEFINE c == Check(s, s.srcPend = "ANone" /\ s.srcConn)
<1>1. Calm(s, c)
  BY Quiet
<1>2. c \in Members
  BY DieTyped DEF Check
<1> HIDE DEF c
<1>3. TSDoneTask(s, t) = [c EXCEPT !.srcPend = "ADoneTask",
                                   !.pending = "ADoneTask", !.srcDone = t]
  BY DEF TSDoneTask, c
<1>4. TSDoneTask(s, t).srcDone = t
  BY <1>2, <1>3 DEF Members
<1> QED
  BY <1>1, <1>3, <1>4 DEF Calm, Still

\* The first task of done goes to the source.
LEMMA GiveBackDoneMoves ==
  ASSUME NEW s \in Members, s.done # <<>>, s.srcDone = NoTask
  PROVE  Moves(s, GiveBackDone(s))
<1> DEFINE t == Head(s.done)
           a == [s EXCEPT !.done = Tail(s.done)]
           d == [a EXCEPT !.tsgod = "ADoneTask"]
           r == TSDoneTask(d, t)
<1>1. t \in Frames /\ Tail(s.done) \in Seq(Frames)
  BY Read, CountTail
<1>2. /\ a \in Members /\ d \in Members /\ d.done = Tail(s.done)
  <2>1. a \in Members
    BY <1>1, Write
  <2>2. d \in Members
    BY <2>1, Write DEF Actions
  <2>3. d.done = Tail(s.done)
    BY DEF Members
  <2> QED
    BY <2>1, <2>2, <2>3
<1>3. /\ d.refilter = s.refilter /\ d.fresh = s.fresh /\ d.proc = s.proc
      /\ d.next = s.next /\ d.stage = s.stage /\ d.rtes = s.rtes
      /\ d.ftes = s.ftes /\ d.job = s.job /\ d.sfs = s.sfs /\ d.sq = s.sq
      /\ d.dsmt = s.dsmt
  OBVIOUS
<1>4. GiveBackDone(s) = r
  BY DEF GiveBackDone
<1> HIDE DEF a, d
<1>5. /\ r.srcDone = t /\ r.done = Tail(s.done)
      /\ r.refilter = s.refilter /\ r.fresh = s.fresh /\ r.proc = s.proc
      /\ r.next = s.next /\ r.stage = s.stage /\ r.rtes = s.rtes
      /\ r.ftes = s.ftes /\ r.job = s.job /\ r.sfs = s.sfs /\ r.sq = s.sq
      /\ r.dsmt = s.dsmt
  BY <1>1, <1>2, <1>3, DoneTaskIs
<1> HIDE DEF r, t
<1>6. Chosen(s) => Chosen(r)
  BY <1>5 DEF Chosen
<1>7. ASSUME NEW u \in Frames, Fine(s, u)
      PROVE  Places(r, u) = Places(s, u) /\ Fine(r, u)
  <2>1. Count(s.done, u) = Count(Tail(s.done), u) + (IF u = t THEN 1 ELSE 0)
    BY Read, CountTail DEF t
  <2>2. Count(s.refilter, u) \in Nat /\ Count(s.fresh, u) \in Nat
    BY PlacesType
  <2>3. Count(Tail(s.done), u) \in Nat
    BY <1>1, CountType
  <2>4. u # NoTask
    BY FrameIsTask
  <2>5. Places(r, u) = Places(s, u)
    BY <1>5, <2>1, <2>2, <2>3, <2>4 DEF Places
  <2> QED
    BY <1>5, <1>7, <2>5 DEF Fine, Rendered, Untouched
<1> QED
  BY <1>4, <1>5, <1>6, <1>7 DEF Moves, Sound

\* A task that nobody worked on goes back to the source; if it was scheduled
\* for start, that is given up.
LEMMA GiveBackSpecialMoves ==
  ASSUME NEW s \in Members, s.srcDone = NoTask,
         (s.dsmt /\ ~TodoEmpty(s)) \/ (~s.dsmt /\ s.fresh # <<>>)
  PROVE  Moves(s, GiveBackSpecial(s))
<1> DEFINE t == SpecialDone(s)
           a == [s EXCEPT !.tdaf = FALSE, !.tsgod = "ADoneTask"]
           k == IF s.sfs = t THEN KillScheduledForStart(a) ELSE a
           d == Dequeue(k, t)
           r == TSDoneTask(d, t)
<1>1. t \in Frames /\ (Count(s.refilter, t) > 0 \/ Count(s.fresh, t) > 0)
  <2>1. CASE s.dsmt
    <3>1. t = Head(Todo(s)) /\ Todo(s) \in Seq(Frames) /\ Todo(s) # <<>>
      BY <2>1, TodoTyped, Read, ConcatEqualIffEmpty DEF SpecialDone, TodoEmpty, Todo
    <3> HIDE DEF t
    <3>2. t \in Frames /\ Count(Todo(s), t) > 0
      <4>1. Head(Todo(s)) \in Frames /\ Tail(Todo(s)) \in Seq(Frames)
        BY <3>1, CountTail
      <4>2. Count(Todo(s), t) = Count(Tail(Todo(s)), t) + 1
        BY <3>1, CountTail
      <4>3. Count(Tail(Todo(s)), t) \in Nat
        BY <4>1, CountType
      <4> QED
        BY <3>1, <4>1, <4>2, <4>3
    <3>3. Count(Todo(s), t) = Count(s.refilter, t) + Count(s.fresh, t)
      BY Read, CountConcat DEF Todo
    <3> QED
      BY <3>2, <3>3, PlacesType
  <2>2. CASE ~s.dsmt
    <3>1. t = Head(s.fresh) /\ s.fresh \in Seq(Frames) /\ s.fresh # <<>>
      BY <2>2, Read DEF SpecialDone
    <3> HIDE DEF t
    <3>2. Head(s.fresh) \in Frames /\ Tail(s.fresh) \in Seq(Frames)
      BY <3>1, CountTail
    <3>3. Count(s.fresh, t) = Count(Tail(s.fresh), t) + 1
      BY <3>1, CountTail
    <3>4. Count(Tail(s.fresh), t) \in Nat
      BY <3>2, CountType
    <3> QED
      BY <3>1, <3>2, <3>3, <3>4
  <2> QED
    BY <2>1, <2>2
<1> HIDE DEF t
<1>2. a \in Members /\ Calm(s, a)
  <2>1. [s EXCEPT !.tdaf = FALSE] \in Members
    BY Write
  <2>2. a \in Members
    BY <2>1, Write DEF Actions
  <2> QED
    BY <2>2 DEF Calm, Still
<1> HIDE DEF a
<1>3. /\ k \in Members /\ Still(s, k) /\ k.sq = s.sq /\ k.dsmt = s.dsmt
      /\ k.sfs # NoTask => k.sfs = s.sfs /\ k.sfs # t
  BY <1>2, KillScheduledIs DEF Calm, Still
<1> HIDE DEF k
<1>4. /\ d \in Members
      /\ d.done = k.done /\ d.proc = k.proc /\ d.srcDone = k.srcDone
      /\ d.stage = k.stage /\ d.rtes = k.rtes /\ d.ftes = k.ftes
      /\ d.job = k.job /\ d.next = k.next /\ d.sq = k.sq
      /\ d.sfs = k.sfs /\ d.dsmt = k.dsmt
  BY <1>1, <1>3, DequeueIs
<1>5. ASSUME Sound(s)
      PROVE  /\ Sound(r) /\ r.next = s.next /\ \A u \in Frames : Places(r, u) = Places(s, u)
  <2>1. \A u : Places(k, u) = Places(s, u) /\ (Fine(s, u) <=> Fine(k, u))
    BY <1>3, StillFine
  <2>2. Places(k, t) <= 1
    BY <1>1, <1>5, <2>1 DEF Sound, Fine
  <2>3. Count(k.refilter, t) > 0 \/ Count(k.fresh, t) > 0
    BY <1>1, <1>3 DEF Still
  <2>4. /\ Places(k, t) = 1 /\ Places(d, t) = 0
        /\ Count(d.refilter, t) = 0 /\ Count(d.fresh, t) = 0
        /\ Count(d.done, t) = 0 /\ t \notin d.proc /\ t # d.srcDone
        /\ \A u \in Frames \ {t} :
             /\ Count(d.refilter, u) = Count(k.refilter, u)
             /\ Count(d.fresh, u) = Count(k.fresh, u)
             /\ Places(d, u) = Places(k, u)
             /\ Fine(k, u) => Fine(d, u)
        /\ k.refilter = <<>> => d.refilter = <<>>
    BY <1>1, <1>3, <2>2, <2>3, DequeueMoves
  <2> HIDE DEF d
  <2>5. /\ r.srcDone = t /\ r.done = d.done
        /\ r.refilter = d.refilter /\ r.fresh = d.fresh /\ r.proc = d.proc
        /\ r.next = d.next /\ r.stage = d.stage /\ r.rtes = d.rtes
        /\ r.ftes = d.ftes /\ r.job = d.job /\ r.sfs = d.sfs /\ r.sq = d.sq
        /\ r.dsmt = d.dsmt
    BY <1>1, <1>4, DoneTaskIs
  <2> HIDE DEF r
  <2>6. Chosen(r)
    <3>1. Chosen(s)
      BY <1>5 DEF Sound
    <3>2. r.sfs # NoTask => r.sfs = s.sfs /\ r.sfs \in Frames \ {t}
      BY <1>3, <1>4, <2>5, Read
    <3>3. r.sfs # NoTask => /\ Count(r.refilter, r.sfs) = Count(s.refilter, r.sfs)
                            /\ Count(r.fresh, r.sfs) = Count(s.fresh, r.sfs)
      BY <1>3, <2>4, <2>5, <3>2 DEF Still
    <3>4. r.dsmt => r.refilter = <<>> /\ r.sfs = NoTask
      <4>1. r.dsmt => s.dsmt
        BY <1>3, <1>4, <2>5
      <4>2. s.dsmt => s.refilter = <<>> /\ s.sfs = NoTask
        BY <3>1 DEF Chosen
      <4>3. s.refilter = <<>> => r.refilter = <<>>
        BY <1>3, <2>4, <2>5 DEF Still
      <4> QED
        BY <3>2, <4>1, <4>2, <4>3
    <3>5. r.sq = s.sq
      BY <1>3, <1>4, <2>5
    <3> QED
      BY <3>1, <3>2, <3>3, <3>4, <3>5 DEF Chosen
  <2>7. Places(r, t) = Places(s, t) /\ Fine(r, t)
    <3>1. Places(r, t) = 1
      BY <2>4, <2>5 DEF Places
    <3>2. Fine(k, t) /\ Places(k, t) = 1
      BY <1>1, <1>5, <2>1, <2>4 DEF Sound
    <3>3. t < k.next /\ t \notin k.proc /\ k.job[t] = "none"
      <4>1. k.next \in Nat /\ t \in Nat
        BY <1>1, <1>3, Read DEF Frames
      <4>2. ~(t >= k.next)
        BY <3>2 DEF Fine
      <4>3. t \notin k.proc
        BY <1>4, <2>4
      <4> QED
        BY <3>2, <4>1, <4>2, <4>3 DEF Fine
    <3>4. r.next = k.next /\ r.job = k.job /\ t \notin r.proc
      BY <1>4, <2>4, <2>5
    <3>5. r.next \in Nat /\ t \in Nat
      BY <1>1, <1>3, <3>4, Read DEF Frames
    <3> QED
      BY <2>1, <2>4, <2>5, <3>1, <3>2, <3>3, <3>4, <3>5 DEF Fine
  <2>8. ASSUME NEW u \in Frames \ {t} PROVE Places(r, u) = Places(s, u) /\ Fine(r, u)
    <3>1. u # NoTask /\ u # d.srcDone /\ u # r.srcDone
      BY <1>3, <1>4, <2>5, FrameIsTask DEF Still
    <3>2. Places(r, u) = Places(d, u)
      BY <2>5, <3>1 DEF Places
    <3>3. Fine(d, u) /\ Places(d, u) = Places(s, u)
      BY <1>5, <2>1, <2>4 DEF Sound
    <3> QED
      BY <2>5, <3>2, <3>3 DEF Fine, Rendered, Untouched
  <2> QED
    BY <1>3, <1>4, <2>5, <2>6, <2>7, <2>8 DEF Sound, Still
<1>6. GiveBackSpecial(s) = r
  BY DEF GiveBackSpecial, t, a, k
<1> QED
  BY <1>5, <1>6 DEF Moves

\* Whichever request is made.
LEMMA GetOrDoneMoves ==
  ASSUME NEW s \in Members, s.srcDone = NoTask PROVE Moves(s, GetOrDoneTask(s))
<1> DEFINE g  == [s EXCEPT !.tsgod = "AGetTask"]
           n  == [s EXCEPT !.tsgod = "ANone"]
           ok == s.connected /\ s.pending = "ANone"
<1>1. Calm(s, g) /\ Calm(s, n)
  BY DEF Calm, Still
<1> HIDE DEF g, n
<1>2. Moves(s, TSGetTask(g)) /\ Moves(s, TSDisconnect(n, FALSE))
  BY <1>1, Quiet, CalmTrans, CalmMoves
<1>3. s.done # <<>> => Moves(s, GiveBackDone(s))
  BY GiveBackDoneMoves
<1>4. CanDoneTask(s) /\ s.done = <<>> => Moves(s, GiveBackSpecial(s))
  <2>1. CanDoneTask(s) /\ s.done = <<>> =>
          (s.dsmt /\ ~TodoEmpty(s)) \/ (~s.dsmt /\ s.fresh # <<>>)
    BY DEF CanDoneTask, TodoEmpty
  <2> QED
    BY <2>1, GiveBackSpecialMoves
<1>5. \A r : Moves(s, r) => Moves(s, Check(r, ok))
  BY Quiet, CalmMoves, MovesTrans
<1> HIDE DEF ok
<1> QED
  BY <1>2, <1>3, <1>4, <1>5 DEF GetOrDoneTask, g, n, ok

\* The source deletes the task it took back; it is nowhere any more.
LEMMA TakeBackIs ==
  ASSUME NEW s \in Members, s.srcDone # NoTask, Sound(s)
  PROVE  LET r == SrcTakeBack(s) IN
         /\ Sound(r) /\ r.srcDone = NoTask /\ r.next = s.next
         /\ Places(s, s.srcDone) = 1 /\ Places(r, s.srcDone) = 0
         /\ s.srcDone < s.next
         /\ \A u \in Frames \ {s.srcDone} : Places(r, u) = Places(s, u)
<1> DEFINE t == s.srcDone
           r == SrcTakeBack(s)
<1>1. t \in Frames /\ t # NoTask
  BY Read
<1>2. r \in Members
  BY TakeBackTyped
<1>3. /\ r.srcDone = NoTask
      /\ r.stage = [s.stage EXCEPT ![t] = "TaskDone"]
      /\ r.rtes = [s.rtes EXCEPT ![t] = Unset]
      /\ r.ftes = [s.ftes EXCEPT ![t] = Unset]
  BY DEF SrcTakeBack, Members
<1>4. /\ r.refilter = s.refilter /\ r.fresh = s.fresh /\ r.done = s.done
      /\ r.proc = s.proc /\ r.next = s.next /\ r.job = s.job
      /\ r.sfs = s.sfs /\ r.sq = s.sq /\ r.dsmt = s.dsmt
  BY DEF SrcTakeBack
<1> HIDE DEF r, t
<1>5. Chosen(r)
  BY <1>4 DEF Chosen, Sound
<1>6. /\ Count(s.refilter, t) \in Nat /\ Count(s.fresh, t) \in Nat
      /\ Count(s.done, t) \in Nat
  BY PlacesType
<1>7. Fine(s, t)
  BY <1>1 DEF Sound
<1>8. /\ Count(s.refilter, t) = 0 /\ Count(s.fresh, t) = 0
      /\ Count(s.done, t) = 0 /\ t \notin s.proc
      /\ Places(s, t) = 1 /\ Places(r, t) = 0
  BY <1>1, <1>3, <1>4, <1>6, <1>7 DEF Fine, Places, t
<1>9. Fine(r, t)
  <2>1. r.rtes[t] = Unset /\ r.ftes[t] = Unset
    <3>1. s.rtes \in [Frames -> Tes] /\ s.ftes \in [Frames -> Tes]
      BY Read
    <3> QED
      BY <1>1, <1>3, <3>1
  <2>2. r.job[t] = "none"
    BY <1>4, <1>7, <1>8 DEF Fine
  <2> QED
    BY <1>4, <1>8, <2>1, <2>2 DEF Fine
<1>10. ASSUME NEW u \in Frames \ {t} PROVE Places(r, u) = Places(s, u) /\ Fine(r, u)
  <2>1. r.stage[u] = s.stage[u] /\ r.rtes[u] = s.rtes[u] /\ r.ftes[u] = s.ftes[u]
    <3>1. /\ s.rtes \in [Frames -> Tes] /\ s.ftes \in [Frames -> Tes]
          /\ s.stage \in [Frames -> Stages]
      BY Read
    <3> QED
      BY <1>3, <3>1
  <2>2. Places(r, u) = Places(s, u)
    BY <1>3, <1>4, FrameIsTask DEF Places, t
  <2> QED
    BY <1>4, <2>1, <2>2 DEF Fine, Sound, Rendered, Untouched
<1>11. t < s.next
  <2>1. s.next \in Nat /\ t \in Nat /\ ~(t >= s.next)
    BY <1>1, <1>7, <1>8, Read DEF Fine, Frames
  <2> QED
    BY <2>1
<1> QED
  BY <1>3, <1>4, <1>5, <1>8, <1>9, <1>10, <1>11 DEF Sound, r, t

----------------------------------------------------------------------------
(* A task that is being dealt with *)

\* All is sound but for task t, whose job is over or was never started: it is
\* still in proc, or scheduled for start.
Loose(s, t) ==
  /\ Chosen(s) /\ \A u \in Frames \ {t} : Fine(s, u)
  /\ Places(s, t) = 1 /\ t < s.next /\ s.job[t] = "none"
  /\ t = s.sfs \/ t \in s.proc

\* From s to r task t finds its place, and the others stay where they are.
Settles(s, t, r) ==
  Loose(s, t) => /\ Sound(r) /\ r.next = s.next
                 /\ \A u \in Frames : Places(r, u) = Places(s, u)

\* Settled is settled.
LEMMA SettlesMoves ==
  ASSUME NEW s, NEW t, NEW r, NEW q, Settles(s, t, r), Moves(r, q)
  PROVE  Settles(s, t, q)
  BY DEF Settles, Moves

\* The place a task in proc has.
LEMMA InProc ==
  ASSUME NEW s \in Members, NEW t \in Frames, t \in s.proc, Places(s, t) <= 1
  PROVE  /\ Count(s.refilter, t) = 0 /\ Count(s.fresh, t) = 0
         /\ Count(s.done, t) = 0 /\ t # s.srcDone /\ Places(s, t) = 1
<1>1. /\ Count(s.refilter, t) \in Nat /\ Count(s.fresh, t) \in Nat
      /\ Count(s.done, t) \in Nat
  BY PlacesType
<1> QED
  BY <1>1 DEF Places

\* A task in proc whose job is over is settled in done, or, when it was
\* rendered and is to be filtered, at the front of todo.
LEMMA ProcSettles ==
  ASSUME NEW s \in Members, NEW t \in Frames, NEW r \in Members,
         Loose(s, t), t \in s.proc,
         r.proc = s.proc \ {t}, r.fresh = s.fresh, r.srcDone = s.srcDone,
         r.stage = s.stage, r.rtes = s.rtes, r.ftes = s.ftes,
         r.job = s.job, r.next = s.next,
         \/ r.done = Append(s.done, t) /\ r.refilter = s.refilter
         \/ r.done = s.done /\ r.refilter = <<t>> \o s.refilter /\ Rendered(s, t)
  PROVE  \A u \in Frames : Places(r, u) = Places(s, u) /\ Fine(r, u)
<1> SUFFICES ASSUME NEW u \in Frames
             PROVE  Places(r, u) = Places(s, u) /\ Fine(r, u)
  OBVIOUS
<1>1. /\ Count(s.refilter, u) \in Nat /\ Count(s.fresh, u) \in Nat
      /\ Count(s.done, u) \in Nat
  BY PlacesType
<1>2. s.refilter \in Seq(Frames) /\ s.done \in Seq(Frames)
  BY Read
<1>3. \/ /\ Count(r.done, u) = Count(s.done, u) + (IF u = t THEN 1 ELSE 0)
         /\ Count(r.refilter, u) = Count(s.refilter, u)
      \/ /\ Count(r.done, u) = Count(s.done, u) /\ Rendered(s, t)
         /\ Count(r.refilter, u) = Count(s.refilter, u) + (IF u = t THEN 1 ELSE 0)
  <2>1. /\ Count(Append(s.done, t), u) = Count(s.done, u) + (IF u = t THEN 1 ELSE 0)
        /\ Count(<<t>> \o s.refilter, u) = Count(s.refilter, u) + (IF u = t THEN 1 ELSE 0)
    BY <1>2, CountGrows
  <2> QED
    BY <2>1
<1>4. u \in r.proc <=> u \in s.proc /\ u # t
  OBVIOUS
<1>5. Places(r, u) = Places(s, u)
  BY <1>1, <1>3, <1>4 DEF Places
<1>6. CASE u = t
  <2>1. Count(s.refilter, t) = 0 /\ Count(s.fresh, t) = 0 /\ Places(s, t) = 1
    BY InProc DEF Loose
  <2>2. ~(t >= r.next)
    BY Read DEF Loose, Frames
  <2>3. Count(r.refilter, t) > 0 => Rendered(r, t)
    BY <1>3, <1>6, <2>1 DEF Rendered
  <2>4. t \notin r.proc /\ r.job[t] = "none" /\ Count(r.fresh, t) = 0
    BY <1>4, <1>6, <2>1 DEF Loose
  <2> QED
    BY <1>5, <1>6, <2>1, <2>2, <2>3, <2>4 DEF Fine
<1>7. CASE u # t
  <2>1. Fine(s, u)
    BY <1>7 DEF Loose
  <2>2. Count(r.refilter, u) = Count(s.refilter, u)
    BY <1>1, <1>3, <1>7
  <2> QED
    BY <1>4, <1>5, <1>7, <2>1, <2>2 DEF Fine, Rendered, Untouched
<1> QED
  BY <1>6, <1>7

\* The end of a successful job: its task is settled in done or in todo.
LEMMA SuccessSettles ==
  ASSUME NEW s \in Members, NEW t \in Frames, NEW lv, s.quitStep = 0,
         t \in s.proc, t # s.sfs, s.stage[t] = "TaskDone" \/ Rendered(s, t)
  PROVE  Settles(s, t, HandleSuccessfulJob(s, t, lv))
<1> DEFINE out  == [s EXCEPT !.failed = 0, !.proc = @ \ {t}]
           done == [out EXCEPT !.done = Append(@, t)]
           todo == [out EXCEPT !.refilter = <<t>> \o @]
           wait == IF s.dsmt THEN DontStartMoreTasks(todo) ELSE todo
<1>1. out \in Members
  <2>1. s.proc \ {t} \in SUBSET Frames
    BY Read
  <2>2. [s EXCEPT !.failed = 0] \in Members
    BY Write
  <2> QED
    BY <2>1, <2>2, Write
<1>2. out.proc = s.proc \ {t}
  BY DEF Members
<1>3. /\ out.fresh = s.fresh /\ out.srcDone = s.srcDone /\ out.done = s.done
      /\ out.refilter = s.refilter /\ out.stage = s.stage
      /\ out.rtes = s.rtes /\ out.ftes = s.ftes /\ out.job = s.job
      /\ out.next = s.next /\ out.sfs = s.sfs /\ out.sq = s.sq
      /\ out.dsmt = s.dsmt
  OBVIOUS
<1> HIDE DEF out
<1>4. done \in Members /\ done.done = Append(s.done, t)
  <2>1. Append(out.done, t) \in Seq(Frames)
    BY <1>1, Read
  <2>2. done \in Members
    BY <1>1, <2>1, Write
  <2>3. done.done = Append(out.done, t)
    BY <1>1 DEF Members
  <2> QED
    BY <1>3, <2>2, <2>3
<1>5. todo \in Members /\ todo.refilter = <<t>> \o s.refilter
  <2>1. <<t>> \o out.refilter \in Seq(Frames)
    BY <1>1, Read, CountGrows
  <2>2. todo \in Members
    BY <1>1, <2>1, Write
  <2>3. todo.refilter = <<t>> \o out.refilter
    BY <1>1 DEF Members
  <2> QED
    BY <1>3, <2>2, <2>3
<1>6. /\ done.proc = out.proc /\ done.fresh = out.fresh
      /\ done.srcDone = out.srcDone /\ done.refilter = out.refilter
      /\ done.stage = out.stage /\ done.rtes = out.rtes
      /\ done.ftes = out.ftes /\ done.job = out.job /\ done.next = out.next
      /\ done.sfs = out.sfs /\ done.sq = out.sq /\ done.dsmt = out.dsmt
  OBVIOUS
<1>7. /\ todo.proc = out.proc /\ todo.fresh = out.fresh
      /\ todo.srcDone = out.srcDone /\ todo.done = out.done
      /\ todo.stage = out.stage /\ todo.rtes = out.rtes
      /\ todo.ftes = out.ftes /\ todo.job = out.job /\ todo.next = out.next
      /\ todo.sfs = out.sfs /\ todo.sq = out.sq /\ todo.dsmt = out.dsmt
  OBVIOUS
<1> HIDE DEF done, todo
<1>8. Settles(s, t, done)
  <2> SUFFICES ASSUME Loose(s, t)
               PROVE  /\ Sound(done) /\ done.next = s.next
                      /\ \A u \in Frames : Places(done, u) = Places(s, u)
    BY DEF Settles
  <2>1. \A u \in Frames : Places(done, u) = Places(s, u) /\ Fine(done, u)
    BY <1>2, <1>3, <1>4, <1>6, ProcSettles
  <2>2. Chosen(done)
    BY <1>3, <1>6 DEF Loose, Chosen
  <2> QED
    BY <1>3, <1>6, <2>1, <2>2 DEF Sound
<1>9. Rendered(s, t) => Settles(s, t, wait) /\ wait \in Members
  <2> SUFFICES ASSUME Rendered(s, t) PROVE Settles(s, t, wait) /\ wait \in Members
    OBVIOUS
  <2>1. ASSUME Loose(s, t)
        PROVE  \A u \in Frames : Places(todo, u) = Places(s, u) /\ Fine(todo, u)
    BY <1>2, <1>3, <1>5, <1>7, <2>1, ProcSettles
  <2>2. CASE s.dsmt
    <3> DEFINE w == DontStartMoreTasks(todo)
    <3>1. w \in Members /\ w.next = s.next
      BY <1>3, <1>5, <1>7, DontStartIs
    <3>2. Loose(s, t) => Sound(w) /\ \A u \in Frames : Places(w, u) = Places(s, u)
      BY <1>5, <2>1, DontStartMoves
    <3> QED
      BY <2>2, <3>1, <3>2 DEF Settles
  <2>3. CASE ~s.dsmt
    <3>1. ASSUME Loose(s, t) PROVE Chosen(todo)
      <4>1. Count(todo.refilter, s.sfs) =
              Count(s.refilter, s.sfs) + (IF s.sfs = t THEN 1 ELSE 0)
        BY <1>5, Read, CountGrows
      <4>2. Count(s.refilter, s.sfs) \in Nat
        BY PlacesType
      <4>3. Count(s.refilter, s.sfs) > 0 => Count(todo.refilter, s.sfs) > 0
        BY <4>1, <4>2
      <4>4. Chosen(s)
        BY <3>1 DEF Loose
      <4> QED
        BY <1>3, <1>7, <2>3, <4>3, <4>4 DEF Chosen
    <3> QED
      BY <1>3, <1>5, <1>7, <2>1, <2>3, <3>1 DEF Settles, Sound
  <2> QED
    BY <2>2, <2>3
<1> HIDE DEF wait
<1>10. Settles(s, t, CheckStartExchange(CheckStartTasks(done, lv)))
  BY <1>4, <1>8, CheckStartTasksMoves, Quiet, CalmMoves, SettlesMoves
<1>11. Rendered(s, t) => Settles(s, t, CheckStartTasks(wait, lv))
  BY <1>9, CheckStartTasksMoves, SettlesMoves
<1>12. Rendered(s, t) => s.stage[t] # "TaskDone"
  BY DEF Rendered
<1> QED
  BY <1>10, <1>11, <1>12 DEF HandleSuccessfulJob, out, done, todo, wait

\* Counting failures, and stopping after too many of them.
LEMMA CountFailureMoves ==
  ASSUME NEW s \in Members, NEW t PROVE Moves(s, CountFailure(s, t))
<1> DEFINE r == [s EXCEPT !.failed = @ + 1]
           d == DontStartMoreTasks(r)
           p == [d EXCEPT !.sq = 2]
<1>1. r \in Members
  <2>1. s.failed + 1 \in Nat
    BY Read
  <2> QED
    BY <2>1, Write
<1>2. Calm(s, r)
  BY DEF Calm, Still
<1>3. CountFailure(s, t) \in {s, r, ReSched(p)}
  BY DEF CountFailure
<1> HIDE DEF r
<1>4. Sound(r) => Sound(d) /\ \A u \in Frames : Places(d, u) = Places(r, u)
  BY <1>1, DontStartMoves DEF Sound
<1>5. d.sfs = NoTask /\ d.refilter = <<>>
  BY <1>1, DontStartIs
<1> HIDE DEF d
<1>6. Still(d, p) /\ p.sfs = d.sfs /\ p.dsmt = d.dsmt
  BY DEF Still
<1> HIDE DEF p
<1>7. Sound(d) => Sound(p) /\ \A u : Places(p, u) = Places(d, u)
  <2>1. Chosen(p)
    BY <1>5, <1>6 DEF Chosen, Still
  <2> QED
    BY <1>6, <2>1, StillFine DEF Sound
<1>8. Moves(s, s) /\ Moves(s, r)
  BY <1>2, Quiet, CalmMoves
<1>9. Moves(r, p)
  BY <1>1, <1>4, <1>6, <1>7, DontStartIs DEF Moves, Still, d
<1>10. Moves(s, ReSched(p))
  BY <1>8, <1>9, Quiet, CalmMoves, MovesTrans
<1> QED
  BY <1>3, <1>8, <1>10

\* A task whose job or start failed is settled in done.
LEMMA FailureSettles ==
  ASSUME NEW s \in Members, NEW t \in Frames, NEW lv, s.quitStep = 0
  PROVE  Settles(s, t, HandleFailedTask(s, t, lv))
<1> DEFINE k == IF t = s.sfs THEN Dequeue(KillScheduledForStart(s), t)
                             ELSE [s EXCEPT !.proc = @ \ {t}]
           d == [k EXCEPT !.done = Append(@, t)]
           c == CountFailure(d, t)
           r == CheckStartExchange(CheckStartTasks(c, lv))
           f == [r EXCEPT !.tdaf = @ \/ r.connected]
<1>1. k \in Members
  <2>1. s.proc \ {t} \in SUBSET Frames
    BY Read
  <2>2. [s EXCEPT !.proc = @ \ {t}] \in Members
    BY <2>1, Write
  <2> QED
    BY <2>2, KillScheduledTyped, DequeueTyped
<1>2. d \in Members /\ d.done = Append(k.done, t)
  <2> HIDE DEF k
  <2>1. Append(k.done, t) \in Seq(Frames)
    BY <1>1, Read
  <2>2. d \in Members
    BY <1>1, <2>1, Write
  <2>3. d.done = Append(k.done, t)
    BY <1>1 DEF Members
  <2> QED
    BY <2>2, <2>3
<1>3. /\ d.proc = k.proc /\ d.fresh = k.fresh /\ d.srcDone = k.srcDone
      /\ d.refilter = k.refilter /\ d.stage = k.stage /\ d.rtes = k.rtes
      /\ d.ftes = k.ftes /\ d.job = k.job /\ d.next = k.next
      /\ d.sfs = k.sfs /\ d.sq = k.sq /\ d.dsmt = k.dsmt
  OBVIOUS
<1> HIDE DEF d
<1>4. ASSUME t # s.sfs PROVE Settles(s, t, d)
  <2>1. k.proc = s.proc \ {t}
    BY <1>4 DEF Members
  <2>2. /\ k.fresh = s.fresh /\ k.srcDone = s.srcDone /\ k.done = s.done
        /\ k.refilter = s.refilter /\ k.stage = s.stage
        /\ k.rtes = s.rtes /\ k.ftes = s.ftes /\ k.job = s.job
        /\ k.next = s.next /\ k.sfs = s.sfs /\ k.sq = s.sq
        /\ k.dsmt = s.dsmt
    BY <1>4
  <2> HIDE DEF k
  <2> SUFFICES ASSUME Loose(s, t)
               PROVE  /\ Sound(d) /\ d.next = s.next
                      /\ \A u \in Frames : Places(d, u) = Places(s, u)
    BY DEF Settles
  <2>3. t \in s.proc
    BY <1>4 DEF Loose
  <2>4. \A u \in Frames : Places(d, u) = Places(s, u) /\ Fine(d, u)
    BY <1>2, <1>3, <2>1, <2>2, <2>3, ProcSettles
  <2>5. Chosen(d)
    BY <1>3, <2>2 DEF Loose, Chosen
  <2> QED
    BY <1>3, <2>2, <2>4, <2>5 DEF Sound
<1>5. ASSUME t = s.sfs PROVE Settles(s, t, d)
  <2> DEFINE g == KillScheduledForStart(s)
  <2>1. /\ g \in Members /\ Still(s, g) /\ g.sfs = NoTask /\ g.sq = s.sq
        /\ g.dsmt = s.dsmt
    BY KillScheduledIs
  <2> SUFFICES ASSUME Loose(s, t)
               PROVE  /\ Sound(d) /\ d.next = s.next
                      /\ \A u \in Frames : Places(d, u) = Places(s, u)
    BY DEF Settles
  <2>2. k = Dequeue(g, t)
    BY <1>5
  <2> HIDE DEF g, k
  <2>3. Count(s.refilter, t) > 0 \/ Count(s.fresh, t) > 0
    BY <1>5, FrameIsTask DEF Loose, Chosen
  <2>4. \A u : Places(g, u) = Places(s, u) /\ (Fine(s, u) <=> Fine(g, u))
    BY <2>1, StillFine
  <2>5. Places(g, t) = 1 /\ (Count(g.refilter, t) > 0 \/ Count(g.fresh, t) > 0)
    BY <2>1, <2>3, <2>4 DEF Loose, Still
  <2>6. /\ Count(k.refilter, t) = 0 /\ Count(k.fresh, t) = 0
        /\ Count(k.done, t) = 0 /\ t \notin k.proc /\ t # k.srcDone
        /\ \A u \in Frames \ {t} : Places(k, u) = Places(g, u) /\ (Fine(g, u) => Fine(k, u))
        /\ g.refilter = <<>> => k.refilter = <<>>
    BY <2>1, <2>2, <2>5, DequeueMoves
  <2>7. /\ k.job = g.job /\ k.next = g.next /\ k.sfs = g.sfs /\ k.dsmt = g.dsmt
        /\ k.sq = g.sq
    BY <2>1, <2>2, DequeueIs
  <2>8. \A u : Count(d.done, u) = Count(k.done, u) + (IF u = t THEN 1 ELSE 0)
    <3> DEFINE q == k.done
    <3>1. q \in Seq(Frames) /\ d.done = Append(q, t)
      BY <1>1, <1>2, Read
    <3> HIDE DEF q
    <3>2. ASSUME NEW u
          PROVE  Count(Append(q, t), u) = Count(q, u) + (IF u = t THEN 1 ELSE 0)
      BY <3>1, CountGrows
    <3> QED
      BY <3>1, <3>2 DEF q
  <2>9. Places(d, t) = Places(s, t) /\ Fine(d, t)
    <3>1. Places(d, t) = 1
      BY <1>3, <2>6, <2>8 DEF Places
    <3>2. d.job[t] = "none" /\ ~(t >= d.next)
      BY <1>3, <2>1, <2>7, Read DEF Loose, Still, Frames
    <3> QED
      BY <1>3, <2>6, <3>1, <3>2 DEF Fine, Loose
  <2>10. ASSUME NEW u \in Frames \ {t} PROVE Places(d, u) = Places(s, u) /\ Fine(d, u)
    <3>1. Fine(k, u) /\ Places(k, u) = Places(s, u)
      BY <2>4, <2>6 DEF Loose
    <3>2. Count(k.done, u) \in Nat
      BY <1>1, PlacesType
    <3>3. Places(d, u) = Places(k, u)
      BY <1>3, <2>8, <3>2 DEF Places
    <3> QED
      BY <1>3, <3>1, <3>3 DEF Fine, Rendered, Untouched
  <2>11. Chosen(d)
    <3>1. s.dsmt => s.refilter = <<>>
      BY DEF Loose, Chosen
    <3> QED
      BY <1>3, <2>1, <2>6, <2>7, <3>1 DEF Chosen, Still
  <2> QED
    BY <1>3, <2>1, <2>7, <2>9, <2>10, <2>11 DEF Sound, Still
<1>6. Moves(d, f)
  <2>1. Moves(d, c) /\ c \in Members
    BY <1>2, CountFailureMoves, CountFailureTyped
  <2>2. Moves(c, r)
    BY <2>1, CheckStartTasksMoves, Quiet, CalmMoves, MovesTrans
  <2>3. Calm(r, f)
    BY DEF Calm, Still
  <2> QED
    BY <2>1, <2>2, <2>3, CalmMoves, MovesTrans
<1>7. HandleFailedTask(s, t, lv) = f
  BY DEF HandleFailedTask, d
<1> QED
  BY <1>4, <1>5, <1>6, <1>7, SettlesMoves

\* A job that is over leaves its task in hand: it is still in proc, has no
\* process any more, and was worked on or failed; the other tasks stay.
LEMMA JobGoneIs ==
  ASSUME NEW s \in Members, NEW t \in Frames
  PROVE  LET r == JobGone(s, t) IN
         /\ r \in Members
         /\ r.job = [s.job EXCEPT ![t] = "none"]
         /\ r.refilter = s.refilter /\ r.fresh = s.fresh /\ r.done = s.done
         /\ r.proc = s.proc /\ r.srcDone = s.srcDone /\ r.next = s.next
         /\ r.stage = s.stage /\ r.rtes = s.rtes /\ r.ftes = s.ftes
         /\ r.sfs = s.sfs /\ r.sq = s.sq /\ r.dsmt = s.dsmt
         /\ r.quitStep = s.quitStep
<1> DEFINE a == [s EXCEPT !.job[t] = "none", !.killed[t] = "NotKilled"]
           b == [a EXCEPT !.dead = @ \cup {"forked"}]
           c == [b EXCEPT !.nrun[KindOf(s, t)] = @ - 1]
<1>1. JobGone(s, t) = c
  BY DEF JobGone
<1>2. a.job = [s.job EXCEPT ![t] = "none"]
  BY DEF Members
<1>3. c.job = a.job
  OBVIOUS
<1> HIDE DEF a, b, c
<1>4. JobGone(s, t).job = [s.job EXCEPT ![t] = "none"]
  BY <1>1, <1>2, <1>3
<1>5. JobGone(s, t) \in Members
  BY JobGoneTyped
<1>6. LET r == JobGone(s, t) IN
      /\ r.refilter = s.refilter /\ r.fresh = s.fresh /\ r.done = s.done
      /\ r.proc = s.proc /\ r.srcDone = s.srcDone /\ r.next = s.next
      /\ r.stage = s.stage /\ r.rtes = s.rtes /\ r.ftes = s.ftes
      /\ r.sfs = s.sfs /\ r.sq = s.sq /\ r.dsmt = s.dsmt
      /\ r.quitStep = s.quitStep
  BY DEF JobGone
<1> QED
  BY <1>4, <1>5, <1>6

\* The part of a task that a job stands for: what JobGone() and the storing of
\* the result leave to the others.
LEMMA OthersStay ==
  ASSUME NEW s \in Members, NEW t \in Frames, NEW r \in Members, Sound(s),
         t \in s.proc \/ t = s.sfs, t # s.srcDone,
         r.refilter = s.refilter, r.fresh = s.fresh, r.done = s.done,
         r.proc = s.proc, r.srcDone = s.srcDone, r.next = s.next,
         r.sfs = s.sfs, r.sq = s.sq, r.dsmt = s.dsmt,
         r.job[t] = "none",
         \A u \in Frames \ {t} :
           /\ r.stage[u] = s.stage[u] /\ r.rtes[u] = s.rtes[u]
           /\ r.ftes[u] = s.ftes[u] /\ r.job[u] = s.job[u]
  PROVE  Loose(r, t) /\ \A u : Places(r, u) = Places(s, u)
<1>1. \A u : Places(r, u) = Places(s, u)
  BY DEF Places
<1>2. \A u \in Frames \ {t} : Fine(r, u)
  BY <1>1 DEF Sound, Fine, Rendered, Untouched
<1>3. Chosen(r)
  BY DEF Sound, Chosen
<1>4. Places(s, t) = 1
  <2>1. /\ Count(s.refilter, t) \in Nat /\ Count(s.fresh, t) \in Nat
        /\ Count(s.done, t) \in Nat /\ Places(s, t) <= 1
    BY PlacesType DEF Sound, Fine
  <2>2. t = s.sfs => Count(s.refilter, t) > 0 \/ Count(s.fresh, t) > 0
    BY FrameIsTask DEF Sound, Chosen
  <2> QED
    BY <2>1, <2>2 DEF Places
<1>5. t < s.next
  <2>1. s.next \in Nat /\ t \in Nat
    BY Read DEF Frames
  <2>2. Fine(s, t)
    BY DEF Sound
  <2> QED
    BY <1>4, <2>1, <2>2 DEF Fine
<1> QED
  BY <1>1, <1>2, <1>3, <1>4, <1>5 DEF Loose

\* The task of a job that succeeded is rendered now, or done.
LEMMA SucceededLoose ==
  ASSUME NEW s \in Members, NEW t \in Frames, Sound(s), t \in s.proc
  PROVE  LET r == JobSucceeded(s, t) IN
         /\ r \in Members /\ r.quitStep = s.quitStep /\ r.next = s.next
         /\ Loose(r, t) /\ t \in r.proc /\ t # r.sfs
         /\ r.stage[t] = "TaskDone" \/ Rendered(r, t)
         /\ \A u : Places(r, u) = Places(s, u)
<1> DEFINE g   == JobGone(s, t)
           tes == [Unset EXCEPT !.end = "Success"]
           nxt == IF t \in FilterFrames THEN "ToBeFiltered" ELSE "TaskDone"
           a   == [g EXCEPT !.rtes[t] = tes, !.stage[t] = nxt]
           b   == [g EXCEPT !.ftes[t] = tes, !.stage[t] = "TaskDone"]
           r   == JobSucceeded(s, t)
<1>1. /\ g \in Members
      /\ g.job = [s.job EXCEPT ![t] = "none"]
      /\ g.refilter = s.refilter /\ g.fresh = s.fresh /\ g.done = s.done
      /\ g.proc = s.proc /\ g.srcDone = s.srcDone /\ g.next = s.next
      /\ g.stage = s.stage /\ g.rtes = s.rtes /\ g.ftes = s.ftes
      /\ g.sfs = s.sfs /\ g.sq = s.sq /\ g.dsmt = s.dsmt
      /\ g.quitStep = s.quitStep
  BY JobGoneIs
<1>2. r = IF s.stage[t] = "ToBeRendered" THEN a ELSE b
  BY DEF JobSucceeded
<1>3. r \in Members
  BY JobSucceededTyped
<1>4. tes.end = "Success"
  BY DEF Unset
<1> HIDE DEF g, tes, nxt, r
<1>5. a.rtes = [g.rtes EXCEPT ![t] = tes] /\ a.stage = [g.stage EXCEPT ![t] = nxt]
  BY <1>1 DEF Members
<1>6. b.ftes = [g.ftes EXCEPT ![t] = tes] /\ b.stage = [g.stage EXCEPT ![t] = "TaskDone"]
  BY <1>1 DEF Members
<1>7. a.ftes = g.ftes /\ b.rtes = g.rtes
  OBVIOUS
<1>8. /\ r.refilter = g.refilter /\ r.fresh = g.fresh /\ r.done = g.done
      /\ r.proc = g.proc /\ r.srcDone = g.srcDone /\ r.next = g.next
      /\ r.job = g.job /\ r.sfs = g.sfs /\ r.sq = g.sq /\ r.dsmt = g.dsmt
      /\ r.quitStep = g.quitStep
  BY <1>2
<1> HIDE DEF a, b
<1>9. /\ s.rtes \in [Frames -> Tes] /\ s.ftes \in [Frames -> Tes]
      /\ s.stage \in [Frames -> Stages]
      /\ s.job \in [Frames -> {"none", "launched", "running"}]
  BY Read
<1>10. \A u \in Frames \ {t} :
         /\ r.stage[u] = s.stage[u] /\ r.rtes[u] = s.rtes[u]
         /\ r.ftes[u] = s.ftes[u] /\ r.job[u] = s.job[u]
  BY <1>1, <1>2, <1>5, <1>6, <1>7, <1>8, <1>9
<1>11. r.job[t] = "none"
  BY <1>1, <1>8, <1>9
<1>12. Count(s.refilter, t) = 0 /\ Count(s.fresh, t) = 0 /\ t # s.srcDone
  BY InProc DEF Sound, Fine
<1>13. Loose(r, t) /\ \A u : Places(r, u) = Places(s, u)
  <2>1. /\ r.refilter = s.refilter /\ r.fresh = s.fresh /\ r.done = s.done
        /\ r.proc = s.proc /\ r.srcDone = s.srcDone /\ r.next = s.next
        /\ r.sfs = s.sfs /\ r.sq = s.sq /\ r.dsmt = s.dsmt
    BY <1>1, <1>8
  <2> QED
    BY <1>3, <1>10, <1>11, <1>12, <2>1, OthersStay
<1>14. t # s.sfs
  BY <1>12, FrameIsTask DEF Sound, Chosen
<1>15. r.stage[t] = "TaskDone" \/ Rendered(r, t)
  <2>1. CASE s.stage[t] = "ToBeRendered"
    <3>1. s.ftes[t] = Unset
      BY <2>1 DEF Sound, Fine, Rendered, Untouched
    <3>2. r.ftes[t] = Unset /\ r.rtes[t] = tes /\ r.stage[t] = nxt
      BY <1>1, <1>2, <1>5, <1>7, <1>9, <2>1, <3>1
    <3> QED
      BY <1>4, <3>2 DEF Rendered, nxt
  <2>2. CASE s.stage[t] # "ToBeRendered"
    BY <1>1, <1>2, <1>6, <1>9, <2>2
  <2> QED
    BY <2>1, <2>2
<1> QED
  BY <1>1, <1>3, <1>8, <1>13, <1>14, <1>15 DEF r

\* What storing a failure changes.
LEMMA StoreFailureIs ==
  ASSUME NEW s \in Members, NEW t \in Frames, NEW tes \in Tes
  PROVE  LET r == StoreFailure(s, t, tes) IN
         /\ r \in Members
         /\ r.refilter = s.refilter /\ r.fresh = s.fresh /\ r.done = s.done
         /\ r.proc = s.proc /\ r.srcDone = s.srcDone /\ r.next = s.next
         /\ r.stage = s.stage /\ r.job = s.job
         /\ r.sfs = s.sfs /\ r.sq = s.sq /\ r.dsmt = s.dsmt
         /\ r.quitStep = s.quitStep
         /\ \A u \in Frames \ {t} :
              r.rtes[u] = s.rtes[u] /\ r.ftes[u] = s.ftes[u]
         /\ IF s.stage[t] = "ToBeRendered" THEN r.rtes[t] = tes
                                           ELSE r.ftes[t] = tes
<1> DEFINE a == [s EXCEPT !.rtes[t] = tes]
           b == [s EXCEPT !.ftes[t] = tes]
           r == StoreFailure(s, t, tes)
<1>1. r = IF s.stage[t] = "ToBeRendered" THEN a ELSE b
  BY DEF StoreFailure
<1>2. a.rtes = [s.rtes EXCEPT ![t] = tes] /\ b.ftes = [s.ftes EXCEPT ![t] = tes]
  BY DEF Members
<1>3. a.ftes = s.ftes /\ b.rtes = s.rtes
  OBVIOUS
<1>4. r \in Members
  BY StoreFailureTyped
<1>5. /\ r.refilter = s.refilter /\ r.fresh = s.fresh /\ r.done = s.done
      /\ r.proc = s.proc /\ r.srcDone = s.srcDone /\ r.next = s.next
      /\ r.stage = s.stage /\ r.job = s.job
      /\ r.sfs = s.sfs /\ r.sq = s.sq /\ r.dsmt = s.dsmt
      /\ r.quitStep = s.quitStep
  BY <1>1
<1> HIDE DEF a, b, r
<1>6. s.rtes \in [Frames -> Tes] /\ s.ftes \in [Frames -> Tes]
  BY Read
<1>7. \A u \in Frames \ {t} : r.rtes[u] = s.rtes[u] /\ r.ftes[u] = s.ftes[u]
  BY <1>1, <1>2, <1>3, <1>6
<1>8. IF s.stage[t] = "ToBeRendered" THEN r.rtes[t] = tes ELSE r.ftes[t] = tes
  BY <1>1, <1>2, <1>6
<1> QED
  BY <1>4, <1>5, <1>7, <1>8 DEF r

\* The task of a job that failed.
LEMMA FailedLoose ==
  ASSUME NEW s \in Members, NEW t \in Frames, NEW resume \in BOOLEAN,
         Sound(s), t \in s.proc
  PROVE  LET r == JobFailed(s, t, resume) IN
         /\ r \in Members /\ r.quitStep = s.quitStep /\ r.next = s.next
         /\ Loose(r, t) /\ \A u : Places(r, u) = Places(s, u)
<1> DEFINE g   == JobGone(s, t)
           tes == [end |-> "Failed", jk |-> s.killed[t], resume |-> resume]
           r   == StoreFailure(g, t, tes)
<1>1. tes \in Tes
  BY Read DEF Tes
<1>2. /\ g \in Members
      /\ g.job = [s.job EXCEPT ![t] = "none"]
      /\ g.refilter = s.refilter /\ g.fresh = s.fresh /\ g.done = s.done
      /\ g.proc = s.proc /\ g.srcDone = s.srcDone /\ g.next = s.next
      /\ g.stage = s.stage /\ g.rtes = s.rtes /\ g.ftes = s.ftes
      /\ g.sfs = s.sfs /\ g.sq = s.sq /\ g.dsmt = s.dsmt
      /\ g.quitStep = s.quitStep
  BY JobGoneIs
<1>3. JobFailed(s, t, resume) = r
  BY DEF JobFailed
<1> HIDE DEF g, tes
<1>4. /\ r \in Members
      /\ r.refilter = g.refilter /\ r.fresh = g.fresh /\ r.done = g.done
      /\ r.proc = g.proc /\ r.srcDone = g.srcDone /\ r.next = g.next
      /\ r.stage = g.stage /\ r.job = g.job
      /\ r.sfs = g.sfs /\ r.sq = g.sq /\ r.dsmt = g.dsmt
      /\ r.quitStep = g.quitStep
      /\ \A u \in Frames \ {t} :
           r.rtes[u] = g.rtes[u] /\ r.ftes[u] = g.ftes[u]
  BY <1>1, <1>2, StoreFailureIs
<1> HIDE DEF r
<1>5. s.job \in [Frames -> {"none", "launched", "running"}]
  BY Read
<1>6. r.job[t] = "none" /\ \A u \in Frames \ {t} : r.job[u] = s.job[u]
  BY <1>2, <1>4, <1>5
<1>7. t # s.srcDone
  BY InProc DEF Sound, Fine
<1>8. \A u \in Frames \ {t} : /\ r.stage[u] = s.stage[u] /\ r.rtes[u] = s.rtes[u]
                              /\ r.ftes[u] = s.ftes[u] /\ r.job[u] = s.job[u]
  BY <1>2, <1>4, <1>6
<1>9. Loose(r, t) /\ \A u : Places(r, u) = Places(s, u)
  <2>1. /\ r.refilter = s.refilter /\ r.fresh = s.fresh /\ r.done = s.done
        /\ r.proc = s.proc /\ r.srcDone = s.srcDone /\ r.next = s.next
        /\ r.sfs = s.sfs /\ r.sq = s.sq /\ r.dsmt = s.dsmt
    BY <1>2, <1>4
  <2>2. r \in Members
    BY <1>4
  <2> QED
    BY <1>6, <1>7, <1>8, <2>1, <2>2, OthersStay
<1> QED
  BY <1>2, <1>3, <1>4, <1>9

\* The end of a job leaves all tasks in their places or moves its own one.
LEMMA JobExitedMoves ==
  ASSUME NEW s \in Members, NEW t \in Frames, NEW ok, NEW resume \in BOOLEAN,
         NEW lv, s.quitStep = 0, t \in s.proc
  PROVE  Moves(s, JobExited(s, t, ok, resume, lv))
<1> SUFFICES ASSUME Sound(s)
             PROVE  LET q == JobExited(s, t, ok, resume, lv) IN
                    /\ Sound(q) /\ q.next = s.next
                     /\ \A u \in Frames : Places(q, u) = Places(s, u)
  BY DEF Moves
<1> DEFINE j == JobSucceeded(s, t)
           f == JobFailed(s, t, resume)
<1>1. /\ j \in Members /\ j.quitStep = s.quitStep
      /\ Loose(j, t) /\ t \in j.proc /\ t # j.sfs
      /\ j.stage[t] = "TaskDone" \/ Rendered(j, t)
      /\ j.next = s.next /\ \A u : Places(j, u) = Places(s, u)
  BY SucceededLoose
<1>2. /\ f \in Members /\ f.quitStep = s.quitStep
      /\ Loose(f, t) /\ f.next = s.next /\ \A u : Places(f, u) = Places(s, u)
  BY FailedLoose
<1> HIDE DEF j, f
<1>3. Settles(j, t, HandleSuccessfulJob(j, t, lv))
  BY <1>1, SuccessSettles
<1>4. Settles(f, t, HandleFailedTask(f, t, lv))
  BY <1>2, FailureSettles
<1> QED
  BY <1>1, <1>2, <1>3, <1>4 DEF JobExited, Settles, j, f

----------------------------------------------------------------------------
(* Starting a job *)

\* What a fork changes.
LEMMA ForkIs ==
  ASSUME NEW s \in Members, NEW t \in Frames
  PROVE  LET r == ForkJob(s, t) IN
         /\ r \in Members
         /\ r.job = [s.job EXCEPT ![t] = "launched"]
         /\ r.refilter = s.refilter /\ r.fresh = s.fresh /\ r.done = s.done
         /\ r.proc = s.proc /\ r.srcDone = s.srcDone /\ r.next = s.next
         /\ r.stage = s.stage /\ r.rtes = s.rtes /\ r.ftes = s.ftes
         /\ r.sfs = s.sfs /\ r.sq = s.sq /\ r.dsmt = s.dsmt
         /\ r.quitStep = s.quitStep
<1> DEFINE a == [s EXCEPT !.job[t] = "launched"]
           c == [a EXCEPT !.nrun[KindOf(s, t)] = @ + 1]
<1>1. ForkJob(s, t) = c
  BY DEF ForkJob
<1>2. a.job = [s.job EXCEPT ![t] = "launched"]
  BY DEF Members
<1>3. c.job = a.job
  OBVIOUS
<1> HIDE DEF a, c
<1>4. ForkJob(s, t).job = [s.job EXCEPT ![t] = "launched"]
  BY <1>1, <1>2, <1>3
<1>5. ForkJob(s, t) \in Members
  BY ForkTyped
<1>6. LET r == ForkJob(s, t) IN
      /\ r.refilter = s.refilter /\ r.fresh = s.fresh /\ r.done = s.done
      /\ r.proc = s.proc /\ r.srcDone = s.srcDone /\ r.next = s.next
      /\ r.stage = s.stage /\ r.rtes = s.rtes /\ r.ftes = s.ftes
      /\ r.sfs = s.sfs /\ r.sq = s.sq /\ r.dsmt = s.dsmt
      /\ r.quitStep = s.quitStep
  BY DEF ForkJob
<1> QED
  BY <1>4, <1>5, <1>6

\* The members after a successful launch: the task has left todo and is in
\* proc, with a process.
Launched(s) ==
  LET t  == s.sfs
      up == Dequeue(KillScheduledForStart(ForkJob(s, t)), t)
  IN  [up EXCEPT !.proc = @ \cup {t}]

\* The fields of the members after a successful launch.
LEMMA LaunchedIs ==
  ASSUME NEW s \in Members, s.sfs # NoTask
  PROVE  LET r == Launched(s)
             t == s.sfs
         IN
         /\ r \in Members /\ t \in Frames
         /\ r.job = [s.job EXCEPT ![t] = "launched"]
         /\ r.proc = s.proc \cup {t}
         /\ r.refilter = Without(s.refilter, t) /\ r.fresh = Without(s.fresh, t)
         /\ r.done = s.done /\ r.srcDone = s.srcDone /\ r.next = s.next
         /\ r.stage = s.stage /\ r.rtes = s.rtes /\ r.ftes = s.ftes
         /\ r.sfs = NoTask /\ r.sq = s.sq /\ r.dsmt = s.dsmt
<1> DEFINE t == s.sfs
           f == ForkJob(s, t)
           k == KillScheduledForStart(f)
           d == Dequeue(k, t)
           r == [d EXCEPT !.proc = @ \cup {t}]
<1>1. t \in Frames
  BY Read
<1>2. Launched(s) = r
  BY DEF Launched
<1> HIDE DEF t
<1>3. /\ f \in Members
      /\ f.job = [s.job EXCEPT ![t] = "launched"]
      /\ f.refilter = s.refilter /\ f.fresh = s.fresh /\ f.done = s.done
      /\ f.proc = s.proc /\ f.srcDone = s.srcDone /\ f.next = s.next
      /\ f.stage = s.stage /\ f.rtes = s.rtes /\ f.ftes = s.ftes
      /\ f.sq = s.sq /\ f.dsmt = s.dsmt
  BY <1>1, ForkIs
<1> HIDE DEF f
<1>4. /\ k \in Members /\ Still(f, k) /\ k.sfs = NoTask /\ k.sq = f.sq
      /\ k.dsmt = f.dsmt
  BY <1>3, KillScheduledIs
<1> HIDE DEF k
<1>5. /\ d \in Members
      /\ d.refilter = Without(k.refilter, t) /\ d.fresh = Without(k.fresh, t)
      /\ d.done = k.done /\ d.proc = k.proc /\ d.srcDone = k.srcDone
      /\ d.stage = k.stage /\ d.rtes = k.rtes /\ d.ftes = k.ftes
      /\ d.job = k.job /\ d.next = k.next /\ d.sq = k.sq
      /\ d.sfs = k.sfs /\ d.dsmt = k.dsmt
  BY <1>1, <1>4, DequeueIs
<1> HIDE DEF d
<1>6. r.proc = d.proc \cup {t}
  BY <1>5 DEF Members
<1>7. r \in Members
  <2>1. d.proc \cup {t} \in SUBSET Frames
    BY <1>1, <1>5, Read
  <2> QED
    BY <1>5, <2>1, Write
<1>8. /\ r.refilter = d.refilter /\ r.fresh = d.fresh /\ r.done = d.done
      /\ r.srcDone = d.srcDone /\ r.next = d.next /\ r.stage = d.stage
      /\ r.rtes = d.rtes /\ r.ftes = d.ftes /\ r.job = d.job
      /\ r.sfs = d.sfs /\ r.sq = d.sq /\ r.dsmt = d.dsmt
  OBVIOUS
<1> HIDE DEF r
<1> QED
  BY <1>1, <1>2, <1>3, <1>4, <1>5, <1>6, <1>7, <1>8 DEF Still, t

\* A launch moves its task from todo to proc.
LEMMA LaunchedMoves ==
  ASSUME NEW s \in Members, s.sfs # NoTask PROVE Moves(s, Launched(s))
<1> DEFINE r == Launched(s)
           t == s.sfs
           d == Dequeue(s, t)
<1> SUFFICES ASSUME Sound(s)
             PROVE  /\ Sound(r) /\ r.next = s.next
                    /\ \A u \in Frames : Places(r, u) = Places(s, u)
  BY DEF Moves
<1>1. /\ r \in Members /\ t \in Frames
      /\ r.job = [s.job EXCEPT ![t] = "launched"]
      /\ r.proc = s.proc \cup {t}
      /\ r.refilter = Without(s.refilter, t) /\ r.fresh = Without(s.fresh, t)
      /\ r.done = s.done /\ r.srcDone = s.srcDone /\ r.next = s.next
      /\ r.stage = s.stage /\ r.rtes = s.rtes /\ r.ftes = s.ftes
      /\ r.sfs = NoTask /\ r.sq = s.sq /\ r.dsmt = s.dsmt
  BY LaunchedIs
<1>2. Chosen(s) /\ Fine(s, t) /\ \A u \in Frames : Fine(s, u)
  BY <1>1 DEF Sound
<1>3. Count(s.refilter, t) > 0 \/ Count(s.fresh, t) > 0
  BY <1>2 DEF Chosen
<1> HIDE DEF r, t
<1>4. /\ d.refilter = Without(s.refilter, t) /\ d.fresh = Without(s.fresh, t)
      /\ d.done = s.done /\ d.proc = s.proc /\ d.srcDone = s.srcDone
      /\ d.stage = s.stage /\ d.rtes = s.rtes /\ d.ftes = s.ftes
      /\ d.job = s.job /\ d.next = s.next
  BY <1>1, DequeueIs
<1>5. /\ Places(s, t) = 1 /\ Places(d, t) = 0
      /\ Count(d.refilter, t) = 0 /\ Count(d.fresh, t) = 0
      /\ Count(d.done, t) = 0 /\ t \notin d.proc /\ t # d.srcDone
      /\ \A u \in Frames \ {t} : Places(d, u) = Places(s, u) /\ (Fine(s, u) => Fine(d, u))
      /\ s.refilter = <<>> => d.refilter = <<>>
  BY <1>1, <1>2, <1>3, DequeueMoves DEF Fine
<1> HIDE DEF d
<1>6. r.refilter = d.refilter /\ r.fresh = d.fresh /\ r.done = d.done /\ r.srcDone = d.srcDone
  BY <1>1, <1>4
<1>7. s.job \in [Frames -> {"none", "launched", "running"}]
  BY Read
<1>8. Chosen(r)
  BY <1>1, <1>2, <1>5, <1>6 DEF Chosen
<1>9. Places(r, t) = Places(s, t) /\ Fine(r, t)
  <2>1. Places(r, t) = 1
    BY <1>1, <1>5, <1>6 DEF Places
  <2>2. Rendered(s, t) \/ Untouched(s, t)
    BY <1>2, <1>3 DEF Fine
  <2>3. Rendered(r, t) \/ Untouched(r, t)
    BY <1>1, <2>2 DEF Rendered, Untouched
  <2>4. ~(t >= r.next)
    BY <1>1, <1>2, <1>5 DEF Fine
  <2>5. r.job[t] # "none" /\ t \in r.proc
    BY <1>1, <1>7
  <2> QED
    BY <1>5, <1>6, <2>1, <2>3, <2>4, <2>5 DEF Fine
<1>10. ASSUME NEW u \in Frames \ {t} PROVE Places(r, u) = Places(s, u) /\ Fine(r, u)
  <2>1. Fine(d, u) /\ Places(d, u) = Places(s, u)
    BY <1>2, <1>5
  <2>2. (u \in r.proc <=> u \in d.proc) /\ r.job[u] = d.job[u]
    BY <1>1, <1>4, <1>7
  <2>3. Places(r, u) = Places(d, u)
    BY <1>6, <2>2 DEF Places
  <2> QED
    BY <1>1, <1>4, <1>6, <2>1, <2>2, <2>3 DEF Fine, Rendered, Untouched
<1> QED
  BY <1>1, <1>8, <1>9, <1>10 DEF Sound

\* A failed fork leaves its task in hand.
LEMMA ForkFailedLoose ==
  ASSUME NEW s \in Members, s.sfs # NoTask, Sound(s)
  PROVE  LET r == ForkFailed(s, s.sfs) IN
         /\ r \in Members /\ r.quitStep = s.quitStep /\ r.next = s.next
         /\ Loose(r, s.sfs) /\ \A u : Places(r, u) = Places(s, u)
<1> DEFINE t   == s.sfs
           tes == [Unset EXCEPT !.end = "Failed"]
           f   == StoreFailure(s, t, tes)
           r   == ForkFailed(s, t)
<1>1. tes \in Tes
  BY DEF Unset, Tes, Reasons
<1>2. t \in Frames
  BY Read
<1>3. r = [f EXCEPT !.dead = @ \cup {"unforked"}]
  BY DEF ForkFailed
<1> HIDE DEF tes, t
<1>4. /\ f \in Members
      /\ f.refilter = s.refilter /\ f.fresh = s.fresh /\ f.done = s.done
      /\ f.proc = s.proc /\ f.srcDone = s.srcDone /\ f.next = s.next
      /\ f.stage = s.stage /\ f.job = s.job
      /\ f.sfs = s.sfs /\ f.sq = s.sq /\ f.dsmt = s.dsmt
      /\ f.quitStep = s.quitStep
      /\ \A u \in Frames \ {t} :
           f.rtes[u] = s.rtes[u] /\ f.ftes[u] = s.ftes[u]
  BY <1>1, <1>2, StoreFailureIs
<1> HIDE DEF f
<1>5. /\ r.refilter = f.refilter /\ r.fresh = f.fresh /\ r.done = f.done
      /\ r.proc = f.proc /\ r.srcDone = f.srcDone /\ r.next = f.next
      /\ r.stage = f.stage /\ r.job = f.job
      /\ r.sfs = f.sfs /\ r.sq = f.sq /\ r.dsmt = f.dsmt
      /\ r.quitStep = f.quitStep /\ r.rtes = f.rtes /\ r.ftes = f.ftes
  BY <1>3
<1>6. r \in Members
  BY <1>2, ForkFailedTyped
<1> HIDE DEF r
<1>7. Count(s.refilter, t) > 0 \/ Count(s.fresh, t) > 0
  BY DEF Sound, Chosen, t
<1>8. t \notin s.proc /\ t # s.srcDone
  <2>1. /\ Count(s.refilter, t) \in Nat /\ Count(s.fresh, t) \in Nat
        /\ Count(s.done, t) \in Nat /\ Places(s, t) <= 1
    BY <1>2, PlacesType DEF Sound, Fine
  <2> QED
    BY <1>7, <2>1 DEF Places
<1>9. r.job[t] = "none"
  BY <1>2, <1>4, <1>5, <1>8 DEF Sound, Fine
<1>10. /\ r.refilter = s.refilter /\ r.fresh = s.fresh /\ r.done = s.done
       /\ r.proc = s.proc /\ r.srcDone = s.srcDone /\ r.next = s.next
       /\ r.sfs = s.sfs /\ r.sq = s.sq /\ r.dsmt = s.dsmt
       /\ r.quitStep = s.quitStep
  BY <1>4, <1>5
<1>11. \A u \in Frames \ {t} : /\ r.stage[u] = s.stage[u] /\ r.rtes[u] = s.rtes[u]
                               /\ r.ftes[u] = s.ftes[u] /\ r.job[u] = s.job[u]
  BY <1>4, <1>5
<1>12. t = s.sfs
  BY DEF t
<1>13. Loose(r, t) /\ \A u : Places(r, u) = Places(s, u)
  BY <1>2, <1>6, <1>8, <1>9, <1>10, <1>11, <1>12, OthersStay
<1> QED
  BY <1>6, <1>10, <1>13 DEF r, t

\* The start of the scheduled task, or its failure.
LEMMA LaunchScheduledMoves ==
  ASSUME NEW s \in Members, NEW forked, NEW lv, s.quitStep = 0
  PROVE  Moves(s, LaunchScheduled(s, forked, lv))
<1> DEFINE t  == s.sfs
           in == Launched(s)
           f  == ForkFailed(s, t)
           h  == HandleFailedTask(f, t, lv)
           no == KillScheduledForStart(h)
<1>1. CASE s.sfs # NoTask /\ s.load
  <2>1. t \in Frames
    BY <1>1, Read
  <2>2. in \in Members /\ Moves(s, in)
    BY <1>1, LaunchedIs, LaunchedMoves
  <2>3. f \in Members /\ f.quitStep = s.quitStep
    <3>1. f \in Members
      BY <2>1, ForkFailedTyped
    <3> QED
      BY <3>1, Untouching DEF Same
  <2>4. h \in Members /\ Settles(f, t, h)
    BY <2>1, <2>3, HandleFailedTaskTyped, FailureSettles
  <2>5. no \in Members /\ Settles(f, t, no)
    BY <2>4, KillScheduledIs, SettlesMoves
  <2>6. Moves(s, no)
    <3>1. Sound(s) => /\ Loose(f, t) /\ f.next = s.next
                      /\ \A u : Places(f, u) = Places(s, u)
      BY <1>1, ForkFailedLoose
    <3> QED
      BY <2>5, <3>1 DEF Moves, Settles
  <2> HIDE DEF in, no
  <2>7. Moves(s, CheckStartTasks(in, lv)) /\ Moves(s, CheckStartTasks(no, lv))
    BY <2>2, <2>5, <2>6, CheckStartTasksMoves, MovesTrans
  <2>8. LaunchScheduled(s, forked, lv) =
          CheckStartTasks(IF forked THEN in ELSE no, lv)
    BY <1>1 DEF LaunchScheduled, Launched, in, no
  <2> QED
    BY <2>7, <2>8
<1>2. CASE ~(s.sfs # NoTask /\ s.load)
  BY <1>2, Quiet, CalmMoves DEF LaunchScheduled
<1> QED
  BY <1>1, <1>2

----------------------------------------------------------------------------
(* The answers of the source *)

\* A task the source has just handed out appears in todo, and nowhere else.
LEMMA TakeFreshAdds ==
  ASSUME NEW s \in Members, NEW t \in Frames, NEW lv, Sound(s),
         Places(s, t) = 0, t < s.next, s.rtes[t] = Unset, s.ftes[t] = Unset
  PROVE  LET r == TakeFreshTask(s, t, lv) IN
         /\ r \in Members /\ Sound(r) /\ r.next = s.next
         /\ \A u \in Frames : Places(r, u) = IF u = t THEN 1 ELSE Places(s, u)
<1> DEFINE a == [s EXCEPT !.fresh = Append(@, t)]
           b == NewTask_SetUpState(a, t)
           d == DontStartMoreTasks(b)
           st == IF t \in RenderFrames THEN "ToBeRendered" ELSE "ToBeFiltered"
<1>1. a \in Members /\ a.fresh = Append(s.fresh, t)
  <2>1. Append(s.fresh, t) \in Seq(Frames)
    BY Read
  <2>2. a \in Members
    BY <2>1, Write
  <2> QED
    BY <2>2 DEF Members
<1>2. /\ a.refilter = s.refilter /\ a.done = s.done /\ a.proc = s.proc
      /\ a.srcDone = s.srcDone /\ a.next = s.next /\ a.stage = s.stage
      /\ a.rtes = s.rtes /\ a.ftes = s.ftes /\ a.job = s.job
      /\ a.sfs = s.sfs /\ a.sq = s.sq /\ a.dsmt = s.dsmt
  OBVIOUS
<1> HIDE DEF a
<1>3. b \in Members /\ b.stage = [a.stage EXCEPT ![t] = st]
  <2>1. b \in Members
    BY <1>1, SetUpStateTyped
  <2>2. b.stage = [a.stage EXCEPT ![t] = st]
    BY <1>1 DEF NewTask_SetUpState, Members
  <2> QED
    BY <2>1, <2>2
<1>4. /\ b.refilter = a.refilter /\ b.done = a.done /\ b.proc = a.proc
      /\ b.srcDone = a.srcDone /\ b.next = a.next /\ b.fresh = a.fresh
      /\ b.rtes = a.rtes /\ b.ftes = a.ftes /\ b.job = a.job
      /\ b.sfs = a.sfs /\ b.sq = a.sq /\ b.dsmt = a.dsmt
  BY DEF NewTask_SetUpState
<1> HIDE DEF b
<1>5. /\ b.refilter = s.refilter /\ b.done = s.done /\ b.proc = s.proc
      /\ b.srcDone = s.srcDone /\ b.next = s.next /\ b.rtes = s.rtes
      /\ b.ftes = s.ftes /\ b.job = s.job /\ b.sfs = s.sfs /\ b.sq = s.sq
      /\ b.dsmt = s.dsmt /\ b.fresh = Append(s.fresh, t)
      /\ b.stage = [s.stage EXCEPT ![t] = st]
  BY <1>1, <1>2, <1>3, <1>4
<1>6. \A u : /\ Count(b.fresh, u) = Count(s.fresh, u) + (IF u = t THEN 1 ELSE 0)
             /\ Count(s.fresh, u) \in Nat /\ Count(s.refilter, u) \in Nat
             /\ Count(s.done, u) \in Nat
  <2> DEFINE q == s.fresh
  <2>1. q \in Seq(Frames)
    BY Read
  <2> HIDE DEF q
  <2>2. ASSUME NEW u
        PROVE  Count(Append(q, t), u) = Count(q, u) + (IF u = t THEN 1 ELSE 0)
    BY <2>1, CountGrows
  <2> QED
    BY <1>5, <2>2, PlacesType DEF q
<1>7. ASSUME NEW u \in Frames
      PROVE  Places(b, u) = (IF u = t THEN 1 ELSE Places(s, u)) /\ Fine(b, u)
  <2>1. CASE u = t
    <3>1. /\ Count(s.refilter, t) = 0 /\ Count(s.fresh, t) = 0
          /\ Count(s.done, t) = 0 /\ t \notin s.proc /\ t # s.srcDone
      BY <1>6 DEF Places
    <3>2. Places(b, t) = 1
      BY <1>5, <1>6, <3>1 DEF Places
    <3>3. Untouched(b, t)
      BY <1>5, Read DEF Untouched, st
    <3>4. ~(t >= b.next) /\ b.job[t] = "none" /\ t \notin b.proc
      BY <1>5, <3>1, Read DEF Sound, Fine, Frames
    <3> QED
      BY <1>5, <2>1, <3>1, <3>2, <3>3, <3>4 DEF Fine
  <2>2. CASE u # t
    <3>1. Places(b, u) = Places(s, u) /\ Count(b.fresh, u) = Count(s.fresh, u)
      <4>1. Count(b.fresh, u) = Count(s.fresh, u)
        BY <1>6, <2>2
      <4> QED
        BY <1>5, <4>1 DEF Places
    <3>2. b.stage[u] = s.stage[u]
      BY <1>5, <2>2, Read
    <3> QED
      BY <1>5, <2>2, <3>1, <3>2 DEF Sound, Fine, Rendered, Untouched
  <2> QED
    BY <2>1, <2>2
<1>8. Chosen(b)
  <2>1. Count(s.fresh, s.sfs) > 0 => Count(b.fresh, s.sfs) > 0
    BY <1>6
  <2> QED
    BY <1>5, <2>1 DEF Sound, Chosen
<1>9. Sound(b)
  BY <1>7, <1>8 DEF Sound
<1>10. /\ Sound(d) /\ d \in Members /\ d.next = b.next
       /\ \A u \in Frames : Places(d, u) = Places(b, u)
  BY <1>3, <1>7, DontStartMoves, DontStartIs
<1> HIDE DEF d
<1>11. Moves(d, CheckStartExchange(d))
  BY Quiet, CalmMoves
<1>12. Moves(b, CheckStartTasks(b, lv))
  BY <1>3, CheckStartTasksMoves
<1>13. TakeFreshTask(s, t, lv) = IF s.dsmt \/ Quitting(s)
                                 THEN CheckStartExchange(d)
                                 ELSE CheckStartTasks(b, lv)
  BY DEF TakeFreshTask, a, b, d
<1>14. TakeFreshTask(s, t, lv) \in Members
  BY TakeFreshTaskTyped
<1>15. CASE s.dsmt \/ Quitting(s)
  BY <1>5, <1>7, <1>10, <1>11, <1>13, <1>14, <1>15 DEF Moves
<1>16. CASE ~(s.dsmt \/ Quitting(s))
  BY <1>5, <1>7, <1>9, <1>12, <1>13, <1>14, <1>16 DEF Moves
<1> QED
  BY <1>15, <1>16

\* next_frame_no goes on: the tasks are as sound as before, and the frame that
\* was skipped is nowhere.
LEMMA NextGoesOn ==
  ASSUME NEW s \in Members, NEW r \in Members, Sound(s),
         r.refilter = s.refilter, r.fresh = s.fresh, r.done = s.done,
         r.proc = s.proc, r.srcDone = s.srcDone, r.stage = s.stage,
         r.rtes = s.rtes, r.ftes = s.ftes, r.job = s.job,
         r.sfs = s.sfs, r.sq = s.sq, r.dsmt = s.dsmt,
         r.next \in {s.next, s.next + 1}
  PROVE  /\ Sound(r)
         /\ \A t \in Frames :
              /\ Places(r, t) = Places(s, t)
              /\ t = s.next => Places(s, t) = 0 /\ s.rtes[t] = Unset
                                                /\ s.ftes[t] = Unset
<1>1. Chosen(r)
  BY DEF Sound, Chosen
<1>2. ASSUME NEW t \in Frames
      PROVE  /\ Places(r, t) = Places(s, t) /\ Fine(r, t)
             /\ t = s.next => Places(s, t) = 0 /\ s.rtes[t] = Unset
                                               /\ s.ftes[t] = Unset
  <2>1. s.next \in Nat /\ r.next \in Nat /\ t \in Nat
    BY Read DEF Frames
  <2>2. Places(r, t) = Places(s, t)
    BY DEF Places
  <2>3. t >= r.next => t >= s.next
    BY <2>1
  <2>4. Fine(s, t)
    BY DEF Sound
  <2>5. t = s.next => t >= s.next
    BY <2>1
  <2>6. Fine(r, t)
    BY <2>2, <2>3, <2>4 DEF Fine, Rendered, Untouched
  <2> QED
    BY <2>2, <2>4, <2>5, <2>6 DEF Fine
<1> QED
  BY <1>1, <1>2 DEF Sound

\* The answers that bring no task: connected, no more tasks, failed.
LEMMA AnswersMove ==
  ASSUME NEW s \in Members, s.srcDone = NoTask, NEW quit
  PROVE  /\ Moves(s, TSConnected(s)) /\ Moves(s, TSNoMoreTasks(s))
         /\ Moves(s, TSGetFailed(s)) /\ Moves(s, TSTookDone(s))
         /\ Moves(s, TSDisconnected(s, quit))
<1>1. Moves(s, TSConnected(s))
  <2> DEFINE a == [Answered(s) EXCEPT !.connected = TRUE]
             b == [a EXCEPT !.tsgod = "ANone"]
             c == [b EXCEPT !.nth = 0]
  <2>1. a \in Members
    BY AnsweredTyped, Write
  <2>2. b \in Members
    <3> HIDE DEF a
    <3> QED
      BY <2>1, Write DEF Actions
  <2>3. c \in Members
    <3> HIDE DEF b
    <3> QED
      BY <2>2, WriteNumber
  <2>4. Calm(s, c) /\ c.srcDone = NoTask
    BY DEF Answered, Calm, Still
  <2>5. TSConnected(s) = GetOrDoneTask(c)
    BY DEF TSConnected
  <2> HIDE DEF c
  <2>6. Moves(s, c) /\ Moves(c, GetOrDoneTask(c))
    BY <2>3, <2>4, CalmMoves, GetOrDoneMoves
  <2> QED
    BY <2>5, <2>6, MovesTrans
<1>2. Moves(s, TSTookDone(s))
  <2>1. Answered(s) \in Members /\ Calm(s, Answered(s))
    BY AnsweredTyped, Quiet
  <2>2. Answered(s).srcDone = NoTask
    BY <2>1 DEF Calm, Still
  <2>3. Moves(s, Answered(s)) /\ Moves(Answered(s), GetOrDoneTask(Answered(s)))
    BY <2>1, <2>2, CalmMoves, GetOrDoneMoves
  <2> QED
    BY <2>3, MovesTrans DEF TSTookDone
<1>3. \A v : Moves(s, ReSched([Answered(s) EXCEPT !.sqa = v]))
  <2> TAKE v
  <2>1. Calm(s, ReSched([Answered(s) EXCEPT !.sqa = v]))
    BY DEF Answered, ReSched, Calm, Still
  <2> QED
    BY <2>1, CalmMoves
<1>4. Moves(s, TSNoMoreTasks(s))
  BY <1>3 DEF TSNoMoreTasks
<1>5. Moves(s, TSGetFailed(s))
  <2> DEFINE a == [Answered(s) EXCEPT !.tdaf = TRUE]
  <2>1. a \in Members
    BY AnsweredTyped, Write
  <2>2. Calm(s, a) /\ a.srcDone = NoTask
    BY DEF Answered, Calm, Still
  <2>3. TSGetFailed(s) = IF s.nth = 1 THEN ReSched([Answered(s) EXCEPT !.sqa = 2])
                         ELSE GetOrDoneTask(a)
    BY DEF TSGetFailed
  <2> HIDE DEF a
  <2>4. Moves(s, GetOrDoneTask(a))
    BY <2>1, <2>2, CalmMoves, GetOrDoneMoves, MovesTrans
  <2> QED
    BY <1>3, <2>3, <2>4
<1>6. Moves(s, TSDisconnected(s, quit))
  <2> DEFINE a == [Answered(s) EXCEPT !.connected = FALSE]
             r == Check(a, s.toldTs <=> quit)
  <2>1. Calm(s, a)
    BY DEF Answered, Calm, Still
  <2>2. TSDisconnected(s, quit) \in {r, ReSched(r)}
    BY DEF TSDisconnected
  <2> HIDE DEF a
  <2>3. Calm(a, r)
    BY Quiet
  <2> HIDE DEF r
  <2>4. Calm(s, r) /\ Calm(s, ReSched(r))
    BY <2>1, <2>3, Quiet, CalmTrans
  <2> QED
    BY <2>2, <2>4, CalmMoves
<1> QED
  BY <1>1, <1>2, <1>4, <1>5, <1>6

\* Quit is scheduled: a new task that is scheduled for start is given up.
LEMMA ScheduleQuitMoves ==
  ASSUME NEW s \in Members PROVE Moves(s, ScheduleQuit(s))
<1> DEFINE v == IF s.sq = 0 THEN 1 ELSE s.sq
           r == [s EXCEPT !.sq = v]
           q == ScheduleQuit(s)
           new == s.sfs \in {s.fresh[i] : i \in DOMAIN s.fresh}
<1>1. r \in Members
  <2>1. v \in 0..2
    BY Read
  <2> QED
    BY <2>1, Write
<1>2. Still(s, r) /\ r.sfs = s.sfs /\ r.dsmt = s.dsmt
  BY DEF Still
<1>3. q = IF new THEN KillScheduledForStart(r) ELSE r
  BY DEF ScheduleQuit
<1> HIDE DEF r, q
<1>4. Still(s, q) /\ q.dsmt = s.dsmt /\ q.sfs = IF new THEN NoTask ELSE s.sfs
  BY <1>1, <1>2, <1>3, KillScheduledIs DEF Still
<1>5. ~new => ~(Count(s.fresh, s.sfs) > 0)
  <2>1. s.fresh \in Seq(Frames)
    BY Read
  <2>2. Count(s.fresh, s.sfs) > 0 <=> \E i \in DOMAIN s.fresh : s.fresh[i] = s.sfs
    BY <2>1, CountType
  <2> QED
    BY <2>2
<1> HIDE DEF new
<1>6. Chosen(s) => Chosen(q)
  BY <1>4, <1>5 DEF Chosen, Still
<1>7. \A t : Places(q, t) = Places(s, t) /\ (Fine(s, t) <=> Fine(q, t))
  BY <1>4, StillFine
<1> QED
  BY <1>4, <1>6, <1>7 DEF Moves, Sound, Still, q

\* With nothing scheduled and nothing rendered waiting, quit may be scheduled.
LEMMA QuitNowMoves ==
  ASSUME NEW d, d.sfs = NoTask, d.dsmt => d.refilter = <<>>,
         NEW p, Still(d, p), p.sfs = d.sfs, p.dsmt = d.dsmt
  PROVE  Moves(d, p)
<1>1. Chosen(d) => Chosen(p)
  BY DEF Chosen, Still
<1>2. \A t : Places(p, t) = Places(d, t) /\ (Fine(d, t) <=> Fine(p, t))
  BY StillFine
<1> QED
  BY <1>1, <1>2 DEF Moves, Sound, Still

\* The jobs are to be killed: no task is started any more.
LEMMA ScheduleKillMoves ==
  ASSUME NEW s \in Members PROVE Moves(s, ScheduleKill(s))
<1> DEFINE d == DontStartMoreTasks(s)
           k == [d EXCEPT !.sq = 2, !.killTasks = TRUE, !.abortOn = TRUE]
<1>1. d.sfs = NoTask /\ d.refilter = <<>> /\ d.next = s.next
  BY DontStartIs
<1>2. Moves(s, d)
  BY <1>1, DontStartMoves DEF Moves, Sound
<1> HIDE DEF d
<1>3. Still(d, k) /\ k.sfs = d.sfs /\ k.dsmt = d.dsmt
  BY DEF Still
<1>4. ScheduleKill(s) = k
  BY DEF ScheduleKill, d
<1> HIDE DEF k
<1>5. Moves(d, k)
  BY <1>1, <1>3, QuitNowMoves
<1> QED
  BY <1>2, <1>4, <1>5, MovesTrans

\* No signal loses a task.
LEMMA SignalsMove ==
  ASSUME NEW s \in Members, NEW lv
  PROVE  \A r \in {SigInt(s), SigTerm(s), SigTstp(s), SigCont(s, lv)} : Moves(s, r)
<1>1. \A how : Moves(s, Die(s, how))
  BY Quiet, CalmMoves
<1>2. Moves(s, s)
  BY DEF Moves
<1>3. Moves(s, SigInt(s))
  <2> DEFINE a == ScheduleQuit(s)
             b == [a EXCEPT !.caught = 1]
             k == ScheduleKill(s)
             l == [k EXCEPT !.caught = 2]
  <2>1. Moves(s, a) /\ Moves(s, k)
    BY ScheduleQuitMoves, ScheduleKillMoves
  <2>2. SigInt(s) \in {Die(s, "abort"), Die(s, "nullif"), s, ReSched(b), ReSched(l)}
    BY DEF SigInt, OnSignal
  <2> HIDE DEF a, k
  <2>3. Calm(a, b) /\ Calm(k, l)
    BY DEF Calm, Still
  <2> HIDE DEF b, l
  <2>4. Calm(a, ReSched(b)) /\ Calm(k, ReSched(l))
    BY <2>3, Quiet, CalmTrans
  <2>5. Moves(s, ReSched(b)) /\ Moves(s, ReSched(l))
    BY <2>1, <2>4, CalmMoves, MovesTrans
  <2> QED
    BY <1>1, <1>2, <2>2, <2>5
<1>4. Moves(s, SigTerm(s))
  <2> DEFINE a == ScheduleQuit(s)
             b == ScheduleKill(a)
  <2>1. SigTerm(s) \in {Die(s, "abort"), Die(s, "nullif"), s, ReSched(b)}
    BY DEF SigTerm, OnSignal
  <2>2. a \in Members
    BY ScheduleQuitTyped
  <2> HIDE DEF a
  <2>3. Moves(a, b) /\ Moves(b, ReSched(b))
    BY <2>2, ScheduleKillMoves, Quiet, CalmMoves
  <2>4. Moves(s, a)
    BY ScheduleQuitMoves DEF a
  <2>5. Moves(s, ReSched(b))
    BY <2>3, <2>4, MovesTrans
  <2> QED
    BY <1>1, <1>2, <2>1, <2>5
<1>5. Moves(s, SigTstp(s))
  <2>1. Calm(s, [s EXCEPT !.stopped = TRUE])
    BY DEF Calm, Still
  <2> QED
    BY <1>1, <1>2, <2>1, CalmMoves DEF SigTstp, OnSignal
<1>6. Moves(s, SigCont(s, lv))
  <2> DEFINE r == [s EXCEPT !.stopped = FALSE]
             e == CheckStartExchange(r)
             c == CheckStartTasks(e, lv)
  <2>1. r \in Members
    BY Write
  <2>2. Calm(s, r)
    BY DEF Calm, Still
  <2>3. SigCont(s, lv) \in {Die(s, "nullif"), s, ReSched(c)}
    BY DEF SigCont, OnSignal
  <2> HIDE DEF r
  <2>4. e \in Members /\ Calm(r, e)
    BY <2>1, CheckStartExchangeTyped, Quiet
  <2> HIDE DEF e
  <2>5. Moves(e, c) /\ Moves(c, ReSched(c))
    BY <2>4, CheckStartTasksMoves, Quiet, CalmMoves
  <2>6. Moves(s, e)
    BY <2>2, <2>4, CalmTrans, CalmMoves
  <2>7. Moves(s, ReSched(c))
    BY <2>5, <2>6, MovesTrans
  <2> QED
    BY <1>1, <1>2, <2>3, <2>7
<1> QED
  BY <1>3, <1>4, <1>5, <1>6

\* On the way out the source gets what is left.
LEMMA GoOnMoves ==
  ASSUME NEW s \in Members, Exchange(s) PROVE Moves(s, GoOnQuitting(s))
<1> DEFINE told == ReSched([s EXCEPT !.toldIf = TRUE])
           out  == ActuallyQuit(s, Largest(s.sq, s.sqa) - 1)
           bye  == TSDisconnect([s EXCEPT !.toldTs = TRUE], TRUE)
<1>1. Calm(s, told)
  BY DEF ReSched, Calm, Still
<1>2. Calm(s, out) /\ Calm(s, CheckStartExchange(s)) /\ Calm(s, s)
  BY Quiet
<1>3. Calm(s, bye)
  <2> DEFINE a == [s EXCEPT !.toldTs = TRUE]
  <2>1. Calm(s, a)
    BY DEF Calm, Still
  <2> HIDE DEF a
  <2>2. Calm(a, TSDisconnect(a, TRUE))
    BY Quiet
  <2> QED
    BY <2>1, <2>2, CalmTrans DEF a
<1>4. s.connected /\ s.pending = "ANone" => Moves(s, GetOrDoneTask(s))
  BY GetOrDoneMoves DEF Exchange
<1>5. \/ GoOnQuitting(s) \in {s, told, out, bye, CheckStartExchange(s)}
      \/ s.connected /\ s.pending = "ANone" /\ GoOnQuitting(s) = GetOrDoneTask(s)
  BY DEF GoOnQuitting
<1> HIDE DEF told, out, bye
<1> QED
  BY <1>1, <1>2, <1>3, <1>4, <1>5, CalmMoves

\* The schedule timer.
LEMMA ScheduleMoves ==
  ASSUME NEW s \in Members, Exchange(s), NEW forked, NEW lv
  PROVE  Moves(s, Schedule(s, forked, lv))
<1> DEFINE a == [s EXCEPT !.tid0 = FALSE]
           k == KillJobs(a)
           l == LaunchScheduled(k, forked, lv)
<1>1. CASE s.quitStep > 0 \/ ~s.started
  BY <1>1, Quiet, CalmMoves DEF Schedule
<1>2. CASE s.quitStep = 0 /\ s.started
  <2>1. a \in Members
    BY Write
  <2>2. Calm(s, a)
    BY DEF Calm, Still
  <2>3. Same(a, k) /\ a.quitStep = s.quitStep /\ a.started = s.started
    <3>1. Same(a, k)
      BY Untouching
    <3> QED
      BY <3>1
  <2>4. Exchange(a)
    BY DEF Exchange, Quitting, Jobs
  <2> HIDE DEF a
  <2>5. k \in Members /\ Calm(a, k)
    BY <2>1, KillJobsTyped, Quiet
  <2>6. Up(k) /\ Exchange(k)
    <3>1. Keeps(a, k)
      BY <2>3, SameKeeps
    <3>2. Up(a)
      BY <1>2, <2>3 DEF Up
    <3> QED
      BY <2>4, <3>1, <3>2, KeepsOrder
  <2> HIDE DEF k
  <2>7. l \in Members /\ Moves(k, l)
    BY <2>5, <2>6, LaunchScheduledTyped, LaunchScheduledMoves DEF Up
  <2>8. Up(l) /\ Exchange(l)
    BY <2>5, <2>6, LaunchServes DEF Serves
  <2> HIDE DEF l
  <2>9. Moves(l, GoOnQuitting(l))
    BY <2>7, <2>8, GoOnMoves
  <2>10. Moves(s, k)
    BY <2>2, <2>5, CalmTrans, CalmMoves
  <2>11. Moves(s, GoOnQuitting(l))
    BY <2>7, <2>9, <2>10, MovesTrans
  <2>12. Schedule(s, forked, lv) = GoOnQuitting(l)
    BY <1>2 DEF Schedule, l, k, a
  <2> QED
    BY <2>11, <2>12
<1>3. s.quitStep \in Nat
  BY Read
<1> QED
  BY <1>1, <1>2, <1>3

\* A driver is unregistered.
LEMMA TidyUpMoves ==
  ASSUME NEW s \in Members, NEW lv PROVE Moves(s, TidyUp(s, lv))
<1> DEFINE u == [s EXCEPT !.dead = {}]
           r == CheckStartTasks(u, lv)
           p == [r EXCEPT !.sq = Largest(@, r.sqa)]
<1>1. u \in Members /\ Calm(s, u)
  <2>1. u \in Members
    BY Write
  <2> QED
    BY <2>1 DEF Calm, Still
<1>2. \/ TidyUp(s, lv) \in {u, r}
      \/ r.sfs = NoTask /\ TodoEmpty(r) /\ TidyUp(s, lv) = ReSched(p)
  BY DEF TidyUp, CheckStartNewJobs
<1> HIDE DEF u
<1>3. Moves(s, u) /\ Moves(u, r)
  BY <1>1, CalmMoves, CheckStartTasksMoves
<1> HIDE DEF r
<1>4. Still(r, p) /\ p.sfs = r.sfs /\ p.dsmt = r.dsmt
  BY DEF Still
<1> HIDE DEF p
<1>5. r.sfs = NoTask /\ TodoEmpty(r) => Moves(r, p)
  BY <1>4, QuitNowMoves DEF TodoEmpty
<1>6. Moves(p, ReSched(p))
  BY Quiet, CalmMoves
<1> QED
  BY <1>2, <1>3, <1>5, <1>6, MovesTrans

\* A child executes its program.
LEMMA JobRuns ==
  ASSUME NEW s \in Members, NEW t \in Frames, s.job[t] = "launched", NEW lv
  PROVE  Moves(s, LaunchingTaskDone([s EXCEPT !.job[t] = "running"], lv))
<1> DEFINE r == [s EXCEPT !.job[t] = "running"]
           c == CheckStartTasks(r, lv)
<1>1. r \in Members /\ r.job = [s.job EXCEPT ![t] = "running"]
  <2>1. r \in Members
    BY WriteAt
  <2>2. r.job = [s.job EXCEPT ![t] = "running"]
    BY DEF Members
  <2> QED
    BY <2>1, <2>2
<1>2. /\ r.refilter = s.refilter /\ r.fresh = s.fresh /\ r.done = s.done
      /\ r.proc = s.proc /\ r.srcDone = s.srcDone /\ r.next = s.next
      /\ r.stage = s.stage /\ r.rtes = s.rtes /\ r.ftes = s.ftes
      /\ r.sfs = s.sfs /\ r.sq = s.sq /\ r.dsmt = s.dsmt
  OBVIOUS
<1> HIDE DEF r
<1>3. \A u \in Frames : r.job[u] # "none" <=> s.job[u] # "none"
  BY <1>1, Read
<1>4. Chosen(s) => Chosen(r)
  BY <1>2 DEF Chosen
<1>5. ASSUME NEW u \in Frames
      PROVE  Places(r, u) = Places(s, u) /\ (Fine(s, u) => Fine(r, u))
  <2>1. Places(r, u) = Places(s, u)
    BY <1>2 DEF Places
  <2> QED
    BY <1>2, <1>3, <2>1 DEF Fine, Rendered, Untouched
<1>6. Moves(s, r)
  BY <1>2, <1>4, <1>5 DEF Moves, Sound
<1>7. Moves(r, c) /\ Moves(c, CheckStartExchange(c))
  BY <1>1, CheckStartTasksMoves, Quiet, CalmMoves
<1> QED
  BY <1>6, <1>7, MovesTrans DEF LaunchingTaskDone, r

----------------------------------------------------------------------------
(* The inductive invariant *)

\* No task exists at first.
LEMMA InHandInit == Init => InHand
<1> SUFFICES ASSUME Init PROVE InHand
  OBVIOUS
<1>1. /\ tm.refilter = <<>> /\ tm.fresh = <<>> /\ tm.done = <<>>
      /\ tm.proc = {} /\ tm.srcDone = NoTask /\ tm.next = 1
      /\ tm.rtes = [t \in Frames |-> Unset] /\ tm.ftes = [t \in Frames |-> Unset]
      /\ tm.job = [t \in Frames |-> "none"] /\ tm.sfs = NoTask
      /\ tm.dsmt = FALSE
  BY DEF Init, Fresh
<1>2. \A t \in Frames : reported[t] = "no"
  BY DEF Init
<1>3. ASSUME NEW t \in Frames PROVE Places(tm, t) = 0 /\ Fine(tm, t) /\ t >= tm.next
  <2>1. Count(<<>>, t) = 0
    BY CountFew
  <2>2. t # NoTask /\ t >= 1
    BY FrameIsTask DEF Frames
  <2>3. Places(tm, t) = 0
    BY <1>1, <2>1, <2>2 DEF Places
  <2> QED
    BY <1>1, <2>1, <2>2, <2>3 DEF Fine
<1>4. Chosen(tm)
  BY <1>1 DEF Chosen
<1>5. ASSUME NEW t \in Frames PROVE ~(t < tm.next)
  BY <1>1 DEF Frames
<1> QED
  BY <1>2, <1>3, <1>4, <1>5 DEF InHand, Sound

\* What moves no task in or out keeps the invariant.
LEMMA MovesKeepInHand ==
  ASSUME InHand, Moves(tm, tm'), reported' = reported PROVE InHand'
  BY DEF InHand, Moves

\* Nothing is outstanding and no task at the source while the program is on
\* its way out, so no answer is ignored.
LEMMA AnswerIsHandled ==
  ASSUME TypeOK, ExchangeAgrees, tm.srcPend # "ANone", NEW h, NEW r,
         h.quitStep = tm.quitStep
  PROVE  TSNotify(h, r) = r
<1>1. Up(tm)
  BY RequestMeansUp, AgreesMeansOrder DEF TypeOK
<1> QED
  BY <1>1 DEF Up, TSNotify

\* The source hands out a task: it is in todo then, or back at the source.
LEMMA HandOutInHand ==
  ASSUME TypeOK, ExchangeAgrees, InHand, SourceHandsOut
  PROVE  InHand' /\ tm'.next = tm.next + 1
<1> DEFINE h == SrcHandOut(tm)
           a == Answered(h)
           t == tm.next
<1>1. PICK lv \in Readings : tm' = TSNotify(h, TSGotTask(h, t, lv))
  BY DEF SourceHandsOut
<1>2. /\ tm \in Members /\ tm.srcPend = "AGetTask" /\ t \in Frames
      /\ Exchange(tm) /\ Sound(tm) /\ reported' = reported
  <2>1. tm \in Members
    BY DEF TypeOK
  <2>2. t \in Frames
    BY <2>1, Read, ConfigAssumption DEF SourceHandsOut, Frames
  <2> QED
    BY <2>1, <2>2, AgreesMeansOrder DEF SourceHandsOut, SourceTurn, InHand
<1>3. /\ a \in Members
      /\ a.quitStep = tm.quitStep /\ h.quitStep = tm.quitStep
      /\ a.started = tm.started /\ a.pending = "ANone" /\ a.srcPend = "ANone"
      /\ a.connected = tm.connected /\ a.srcConn = tm.srcConn
  <2>1. a \in Members
    BY <1>2, AnswersTyped, AnsweredTyped
  <2>2. h.srcPend = "ANone"
    BY <1>2 DEF SrcHandOut, Members
  <2>5. h \in Members
    BY <1>2, AnswersTyped
  <2>3. a.srcPend = h.srcPend
    BY DEF Answered
  <2>4. a.pending = "ANone"
    BY <2>5 DEF Answered, Members
  <2> QED
    BY <2>1, <2>2, <2>3, <2>4 DEF Answered, SrcHandOut
<1>4. /\ a.refilter = tm.refilter /\ a.fresh = tm.fresh /\ a.done = tm.done
      /\ a.proc = tm.proc /\ a.srcDone = tm.srcDone /\ a.stage = tm.stage
      /\ a.rtes = tm.rtes /\ a.ftes = tm.ftes /\ a.job = tm.job
      /\ a.sfs = tm.sfs /\ a.sq = tm.sq /\ a.dsmt = tm.dsmt
  BY DEF Answered, SrcHandOut
<1>5. a.next = tm.next + 1
  BY <1>2 DEF Answered, SrcHandOut, Members
<1>6. tm' = TSGotTask(h, t, lv)
  BY <1>1, <1>2, <1>3, AnswerIsHandled DEF Actions
<1> DEFINE f == TakeFreshTask(a, t, lv)
<1>7. tm' = GetOrDoneTask(f)
  BY <1>6 DEF TSGotTask
<1> HIDE DEF h, a
<1>8. tm.srcDone = NoTask
  BY <1>2 DEF Exchange
<1>9. Idle(a)
  BY <1>2, <1>3, <1>4, <1>8, AnswerMakesIdle
<1>10. /\ Sound(a) /\ \A u \in Frames : Places(a, u) = Places(tm, u)
       /\ Places(tm, t) = 0 /\ tm.rtes[t] = Unset /\ tm.ftes[t] = Unset
  BY <1>2, <1>3, <1>4, <1>5, NextGoesOn
<1>11. t < a.next /\ tm.next \in Nat
  BY <1>2, <1>5, Read
<1> HIDE DEF t
<1>12. /\ f \in Members /\ Sound(f) /\ f.next = a.next
       /\ \A u \in Frames : Places(f, u) = IF u = t THEN 1 ELSE Places(a, u)
  BY <1>2, <1>3, <1>4, <1>10, <1>11, TakeFreshAdds
<1>13. Idle(f)
  BY <1>2, <1>3, <1>9, FreshStaysIdle
<1> HIDE DEF f
<1>14. Moves(f, tm')
  BY <1>7, <1>12, <1>13, GetOrDoneMoves DEF Idle
<1>15. Sound(tm') /\ tm'.next = tm.next + 1
  BY <1>5, <1>12, <1>14 DEF Moves
<1>16. ASSUME NEW u \in Frames
       PROVE  /\ Places(tm', u) = IF u < tm'.next /\ reported[u] = "no" THEN 1 ELSE 0
              /\ u >= tm'.next => reported[u] = "no"
  <2>1. Places(tm', u) = IF u = t THEN 1 ELSE Places(tm, u)
    BY <1>10, <1>12, <1>14 DEF Moves
  <2>2. /\ Places(tm, u) = IF u < tm.next /\ reported[u] = "no" THEN 1 ELSE 0
        /\ u >= tm.next => reported[u] = "no"
    BY DEF InHand
  <2>3. u \in Nat /\ t = tm.next
    BY DEF Frames, t
  <2>4. /\ u = t => u < tm'.next /\ reported[u] = "no"
        /\ u # t => (u < tm'.next <=> u < tm.next)
        /\ u >= tm'.next => u >= tm.next
    BY <1>11, <1>15, <2>2, <2>3
  <2> QED
    BY <2>1, <2>2, <2>4
<1> QED
  BY <1>2, <1>15, <1>16 DEF InHand

\* The source has no task because it failed: the frame may be skipped.
LEMMA GetFailsInHand ==
  ASSUME TypeOK, ExchangeAgrees, InHand, SourceGetFails
  PROVE  /\ InHand'
         /\ \/ reported' = reported /\ tm'.next = tm.next
            \/ /\ reported' = [reported EXCEPT ![tm.next] = "skipped"]
               /\ tm'.next = tm.next + 1
<1>1. PICK skips \in BOOLEAN :
        /\ tm' = TSNotify(SrcGetFails(tm, skips), TSGetFailed(SrcGetFails(tm, skips)))
        /\ reported' = IF skips THEN [reported EXCEPT ![tm.next] = "skipped"]
                       ELSE reported
  BY DEF SourceGetFails
<1> DEFINE h == SrcGetFails(tm, skips)
<1>2. /\ tm \in Members /\ tm.srcPend = "AGetTask" /\ tm.next \in Frames
      /\ Exchange(tm) /\ Sound(tm) /\ reported \in [Frames -> Verdicts]
  <2>1. tm \in Members /\ reported \in [Frames -> Verdicts]
    BY DEF TypeOK
  <2>2. tm.next \in Frames
    BY <2>1, Read, ConfigAssumption DEF SourceGetFails, Frames
  <2> QED
    BY <2>1, <2>2, AgreesMeansOrder DEF SourceGetFails, SourceTurn, InHand
<1>3. /\ h \in Members /\ h.quitStep = tm.quitStep
      /\ h.next = IF skips THEN tm.next + 1 ELSE tm.next
  <2>1. h \in Members
    BY <1>2, AnswersTyped
  <2>2. h.next = IF skips THEN tm.next + 1 ELSE tm.next
    BY <1>2 DEF SrcGetFails, Members
  <2> QED
    BY <2>1, <2>2 DEF SrcGetFails
<1>4. /\ h.refilter = tm.refilter /\ h.fresh = tm.fresh /\ h.done = tm.done
      /\ h.proc = tm.proc /\ h.srcDone = tm.srcDone /\ h.stage = tm.stage
      /\ h.rtes = tm.rtes /\ h.ftes = tm.ftes /\ h.job = tm.job
      /\ h.sfs = tm.sfs /\ h.sq = tm.sq /\ h.dsmt = tm.dsmt
  BY DEF SrcGetFails
<1>5. tm' = TSGetFailed(h)
  BY <1>1, <1>2, <1>3, AnswerIsHandled DEF Actions
<1> HIDE DEF h
<1>6. /\ Sound(h) /\ \A u \in Frames : Places(h, u) = Places(tm, u)
      /\ Places(tm, tm.next) = 0
  BY <1>2, <1>3, <1>4, NextGoesOn
<1>7. Moves(h, tm')
  BY <1>2, <1>3, <1>4, <1>5, AnswersMove DEF Exchange
<1>8. ASSUME NEW u \in Frames
      PROVE  /\ Places(tm', u) = IF u < tm'.next /\ reported'[u] = "no" THEN 1 ELSE 0
             /\ u >= tm'.next => reported'[u] = "no"
  <2>1. Places(tm', u) = Places(tm, u) /\ tm'.next = h.next
    BY <1>6, <1>7 DEF Moves
  <2>2. /\ Places(tm, u) = IF u < tm.next /\ reported[u] = "no" THEN 1 ELSE 0
        /\ u >= tm.next => reported[u] = "no"
    BY DEF InHand
  <2>3. u \in Nat /\ tm.next \in Nat
    BY <1>2 DEF Frames
  <2>4. CASE skips
    <3>1. reported'[u] = IF u = tm.next THEN "skipped" ELSE reported[u]
      BY <1>1, <1>2, <2>4
    <3>2. h.next = tm.next + 1
      BY <1>3, <2>4
    <3>3. u = tm.next => Places(tm, u) = 0
      BY <1>6
    <3>4. (u # tm.next => (u < tm'.next <=> u < tm.next)) /\ (u >= tm'.next => u > tm.next)
      BY <2>1, <2>3, <3>2
    <3> QED
      BY <2>1, <2>2, <2>3, <3>1, <3>3, <3>4
  <2>5. CASE ~skips
    BY <1>1, <1>3, <2>1, <2>2, <2>5
  <2> QED
    BY <2>4, <2>5
<1> QED
  BY <1>1, <1>3, <1>6, <1>7, <1>8 DEF InHand, Moves

\* The source takes a task back and has heard of it.
LEMMA TakeBackInHand ==
  ASSUME TypeOK, ExchangeAgrees, InHand, SourceTakesBack
  PROVE  InHand' /\ tm'.next = tm.next
<1> DEFINE h == SrcTakeBack(tm)
           t == tm.srcDone
<1>1. /\ tm' = TSNotify(h, TSTookDone(h))
      /\ reported' = [reported EXCEPT ![t] = Verdict(tm, t)]
  BY DEF SourceTakesBack
<1>2. /\ tm \in Members /\ tm.srcPend = "ADoneTask" /\ t # NoTask /\ t \in Frames
      /\ Sound(tm) /\ reported \in [Frames -> Verdicts]
  <2>1. tm \in Members /\ tm.srcPend = "ADoneTask" /\ reported \in [Frames -> Verdicts]
    BY DEF TypeOK, SourceTakesBack, SourceTurn
  <2>2. t # NoTask
    BY <2>1 DEF ExchangeAgrees
  <2> QED
    BY <2>1, <2>2, Read DEF InHand
<1>3. h \in Members /\ h.quitStep = tm.quitStep
  <2>1. h \in Members
    BY <1>2, TakeBackTyped
  <2> QED
    BY <2>1 DEF SrcTakeBack
<1>4. tm' = TSTookDone(h)
  BY <1>1, <1>2, <1>3, AnswerIsHandled DEF Actions
<1>5. /\ Sound(h) /\ h.srcDone = NoTask /\ h.next = tm.next
      /\ Places(tm, t) = 1 /\ Places(h, t) = 0 /\ t < tm.next
      /\ \A u \in Frames \ {t} : Places(h, u) = Places(tm, u)
  BY <1>2, TakeBackIs
<1> HIDE DEF h
<1>6. Moves(h, tm')
  BY <1>3, <1>4, <1>5, AnswersMove
<1>7. Verdict(tm, t) # "no"
  BY DEF Verdict
<1> HIDE DEF t
<1>8. ASSUME NEW u \in Frames
      PROVE  /\ Places(tm', u) = IF u < tm'.next /\ reported'[u] = "no" THEN 1 ELSE 0
             /\ u >= tm'.next => reported'[u] = "no"
  <2>1. Places(tm', u) = Places(h, u) /\ tm'.next = tm.next
    BY <1>5, <1>6 DEF Moves
  <2>2. /\ Places(tm, u) = IF u < tm.next /\ reported[u] = "no" THEN 1 ELSE 0
        /\ u >= tm.next => reported[u] = "no"
    BY DEF InHand
  <2>3. reported'[u] = IF u = t THEN Verdict(tm, t) ELSE reported[u]
    BY <1>1, <1>2 DEF t
  <2>4. u = t => ~(u >= tm.next)
    BY <1>2, <1>5, Read DEF Frames
  <2> QED
    BY <1>5, <1>7, <2>1, <2>2, <2>3, <2>4
<1> QED
  BY <1>5, <1>6, <1>8 DEF InHand, Moves

\* The other answers of the source move no task.
LEMMA AnswerInHand ==
  ASSUME TypeOK, ExchangeAgrees, InHand,
         SourceConnects \/ SourceHasNoMore \/ SourceDisconnects
  PROVE  InHand'
<1> DEFINE c == SrcConnected(tm)
           n == SrcNoTask(tm)
           d == SrcDisconnected(tm)
<1>1. /\ tm \in Members /\ tm.srcDone = NoTask /\ tm.srcPend # "ANone"
      /\ reported' = reported
  <2>1. /\ tm \in Members /\ tm.srcPend \in {"AConnect", "AGetTask", "ADisconnect"}
        /\ reported' = reported
    BY DEF TypeOK, SourceConnects, SourceHasNoMore, SourceDisconnects, SourceTurn
  <2> QED
    BY <2>1 DEF ExchangeAgrees
<1>2. /\ c \in Members /\ n \in Members /\ d \in Members
      /\ Calm(tm, c) /\ Calm(tm, n) /\ Calm(tm, d)
  BY <1>1, AnswersTyped, Quiet
<1>3. /\ c.quitStep = tm.quitStep /\ n.quitStep = tm.quitStep
      /\ d.quitStep = tm.quitStep
  BY DEF SrcConnected, SrcNoTask, SrcDisconnected
<1>4. tm' \in {TSConnected(c), TSNoMoreTasks(n), TSDisconnected(d, tm.srcQuit)}
  BY <1>1, <1>3, AnswerIsHandled
     DEF SourceConnects, SourceHasNoMore, SourceDisconnects
<1> HIDE DEF c, n, d
<1>5. /\ Moves(c, TSConnected(c)) /\ Moves(n, TSNoMoreTasks(n))
      /\ Moves(d, TSDisconnected(d, tm.srcQuit))
  BY <1>1, <1>2, AnswersMove DEF Calm, Still
<1>6. Moves(tm, c) /\ Moves(tm, n) /\ Moves(tm, d)
  BY <1>2, CalmMoves
<1>7. Moves(tm, tm')
  BY <1>4, <1>5, <1>6, MovesTrans
<1> QED
  BY <1>1, <1>7, MovesKeepInHand

\* Every step keeps the invariant.
LEMMA InHandStep ==
  TypeOK /\ ExchangeAgrees /\ InHand /\ [Next]_vars => InHand'
<1> SUFFICES ASSUME TypeOK, ExchangeAgrees, InHand, [Next]_vars PROVE InHand'
  OBVIOUS
<1>1. tm \in Members /\ Exchange(tm) /\ Awake(tm) /\ Sound(tm)
  BY AgreesMeansOrder DEF TypeOK, InHand
<1>2. \A s : Moves(s, s)
  BY DEF Moves
<1>3. CASE UNCHANGED vars
  BY <1>2, <1>3, MovesKeepInHand DEF vars
<1>4. CASE SourceAnswers
  BY <1>4, AnswerInHand, HandOutInHand, GetFailsInHand, TakeBackInHand
     DEF SourceAnswers
<1>5. CASE ManagerSchedules
  <2>1. PICK lv \in Readings, forked \in BOOLEAN : tm' = Schedule(tm, forked, lv)
    BY <1>5 DEF ManagerSchedules
  <2> QED
    BY <1>1, <1>5, <2>1, ScheduleMoves, MovesKeepInHand DEF ManagerSchedules
<1>6. CASE RoundEnds
  <2>1. PICK lv \in Readings : tm' = IF tm.dead = {} THEN tm ELSE TidyUp(tm, lv)
    BY <1>6 DEF RoundEnds
  <2>2. Moves(tm, TidyUp(tm, lv))
    BY <1>1, TidyUpMoves
  <2> QED
    BY <1>2, <1>6, <2>1, <2>2, MovesKeepInHand DEF RoundEnds
<1>7. CASE \E lv \in Readings : ManagerPollsLoad(lv)
  <2>1. \A lv : Moves(tm, LoadPoll(tm, lv))
    BY Quiet, CalmMoves
  <2> QED
    BY <1>7, <2>1, MovesKeepInHand DEF ManagerPollsLoad
<1>8. ASSUME NEW t \in Frames,
             JobExecutes(t) \/ JobExecFails(t) \/ JobEnds(t) \/ JobTimesOut(t)
      PROVE  InHand'
  <2>1. tm.job[t] # "none" /\ reported' = reported
    BY <1>8 DEF JobExecutes, JobExecFails, JobEnds, JobTimesOut
  <2>2. Up(tm) /\ t \in tm.proc
    BY <1>1, <2>1, JobMeansUp DEF Sound, Fine
  <2>3. CASE JobExecutes(t)
    <3>1. PICK lv \in Readings :
            tm' = LaunchingTaskDone([tm EXCEPT !.job[t] = "running"], lv)
      BY <2>3 DEF JobExecutes
    <3> QED
      BY <1>1, <2>1, <2>3, <3>1, JobRuns, MovesKeepInHand DEF JobExecutes
  <2>4. CASE JobExecFails(t) \/ JobEnds(t)
    <3>1. PICK ok \in BOOLEAN, resume \in BOOLEAN, lv \in Readings :
            tm' = JobExited(tm, t, ok, resume, lv)
      BY <2>4 DEF JobExecFails, JobEnds
    <3> QED
      BY <1>1, <2>1, <2>2, <3>1, JobExitedMoves, MovesKeepInHand DEF Up
  <2>5. CASE JobTimesOut(t)
    <3>1. Moves(tm, KillProcess(tm, t, "Timeout"))
      BY Quiet, CalmMoves
    <3> QED
      BY <2>1, <2>5, <3>1, MovesKeepInHand DEF JobTimesOut
  <2> QED
    BY <1>8, <2>3, <2>4, <2>5
<1>9. CASE User
  <2>1. reported' = reported
    BY <1>9 DEF User, UserInterrupts, UserTerminates, UserStops, UserContinues
  <2>2. PICK lv : tm' \in {SigInt(tm), SigTerm(tm), SigTstp(tm), SigCont(tm, lv)}
    BY <1>9 DEF User, UserInterrupts, UserTerminates, UserStops, UserContinues
  <2> QED
    BY <1>1, <2>1, <2>2, SignalsMove, MovesKeepInHand
<1> QED
  BY <1>3, <1>4, <1>5, <1>6, <1>7, <1>8, <1>9 DEF Next, MainLoop, Gone

----------------------------------------------------------------------------
(* The theorems *)

\* In every run every task is where InHand says, and as it should be there.
THEOREM InHandHolds == Spec => []InHand
<1>1. Init => InHand
  BY InHandInit
<1>2. TypeOK /\ ExchangeAgrees /\ InHand /\ [Next]_vars => InHand'
  BY InHandStep
<1>3. Spec => []TypeOK /\ []ExchangeAgrees
  BY RendViewTyped, ExchangeHolds
<1> QED
  BY <1>1, <1>2, <1>3, PTL DEF Spec

\* The occurrences of a task are its places.
LEMMA OccurrencesArePlaces ==
  ASSUME TypeOK, NEW t \in Frames PROVE Occurrences(t) = Places(tm, t)
<1>1. tm.refilter \in Seq(Frames) /\ tm.fresh \in Seq(Frames)
  BY Read DEF TypeOK
<1>2. Count(Todo(tm), t) = Count(tm.refilter, t) + Count(tm.fresh, t)
  BY <1>1, CountConcat DEF Todo
<1> QED
  BY <1>2 DEF Occurrences, Places

\* Whatever the source handed out and has not got back is in exactly one of
\* todo, proc, done and the source's done_task; everything else is nowhere.
THEOREM TaskConservationHolds == Spec => []TaskConservation
<1>1. TypeOK /\ InHand => TaskConservation
  BY OccurrencesArePlaces DEF InHand, TaskConservation
<1>2. Spec => []TypeOK
  BY RendViewTyped
<1>3. Spec => []InHand
  BY InHandHolds
<1> QED
  BY <1>1, <1>2, <1>3, PTL

\* What a queue holds: the front part of todo rendered tasks, the rest
\* untouched ones; the scheduled one waits in todo; none with
\* dont_start_more_tasks set.
LEMMA QueuesAreSound == TypeOK /\ InHand => QueueContents
<1> SUFFICES ASSUME TypeOK, InHand PROVE QueueContents
  OBVIOUS
<1>1. /\ tm.refilter \in Seq(Frames) /\ tm.fresh \in Seq(Frames)
      /\ tm.sfs \in Frames \cup {NoTask} /\ Todo(tm) \in Seq(Frames)
  BY Read, TodoTyped DEF TypeOK
<1>2. Sound(tm)
  BY DEF InHand
<1>3. \A t \in InSeq(tm.refilter) : t \in Frames /\ Rendered(tm, t)
  <2> SUFFICES ASSUME NEW t \in InSeq(tm.refilter)
               PROVE  t \in Frames /\ Rendered(tm, t)
    OBVIOUS
  <2>1. t \in Frames
    BY <1>1 DEF InSeq
  <2>2. Count(tm.refilter, t) > 0
    BY <1>1, CountType
  <2> QED
    BY <1>2, <2>1, <2>2 DEF Sound, Fine
<1>4. \A t \in InSeq(tm.fresh) : t \in Frames /\ Untouched(tm, t)
  <2> SUFFICES ASSUME NEW t \in InSeq(tm.fresh)
               PROVE  t \in Frames /\ Untouched(tm, t)
    OBVIOUS
  <2>1. t \in Frames
    BY <1>1 DEF InSeq
  <2>2. Count(tm.fresh, t) > 0
    BY <1>1, CountType
  <2> QED
    BY <1>2, <2>1, <2>2 DEF Sound, Fine
<1>5. tm.sfs # NoTask => tm.sfs \in InSeq(Todo(tm))
  <2> SUFFICES ASSUME tm.sfs # NoTask PROVE tm.sfs \in InSeq(Todo(tm))
    OBVIOUS
  <2>1. Count(tm.refilter, tm.sfs) > 0 \/ Count(tm.fresh, tm.sfs) > 0
    BY <1>2 DEF Sound, Chosen
  <2>2. Count(Todo(tm), tm.sfs) = Count(tm.refilter, tm.sfs) + Count(tm.fresh, tm.sfs)
    BY <1>1, CountConcat DEF Todo
  <2>3. Count(tm.refilter, tm.sfs) \in Nat /\ Count(tm.fresh, tm.sfs) \in Nat
    BY <1>1, CountType
  <2>4. Count(Todo(tm), tm.sfs) > 0
    BY <2>1, <2>2, <2>3
  <2> QED
    BY <1>1, <2>4, CountType
<1>6. tm.dsmt => tm.refilter = <<>> /\ tm.sfs = NoTask
  BY <1>2 DEF Sound, Chosen
<1> QED
  BY <1>3, <1>4, <1>5, <1>6 DEF QueueContents, Rendered, Untouched

\* The queues hold what their names say.
THEOREM QueueContentsHolds == Spec => []QueueContents
<1>1. TypeOK /\ InHand => QueueContents
  BY QueuesAreSound
<1>2. Spec => []TypeOK
  BY RendViewTyped
<1>3. Spec => []InHand
  BY InHandHolds
<1> QED
  BY <1>1, <1>2, <1>3, PTL
=============================================================================
