------------------------ MODULE PositionManagerProofs ------------------------
(* Proofs about PositionManager: the manager and the account agree on every *)
(* coin with a clean history, its position has a stop, and an emergency     *)
(* close that nothing disturbs leaves the account flat.                     *)
EXTENDS PositionManager, FiniteSetTheorems, TLAPS

----------------------------------------------------------------------------
(* Types                                                                   *)

LEMMA TypeInit == Init => PMTypeOK
<1> SUFFICES ASSUME Init PROVE PMTypeOK
  OBVIOUS
<1>1. AnyCoin \in Coins
  BY EntriesAssumption DEF AnyCoin
<1>2. Unused \in PositionRecord
  BY <1>1 DEF Unused, PositionRecord, Dirs, Verdicts
<1>3. Flat \in [Coins -> Int] /\ Flat \in [Coins -> 0 .. 0] /\ \A c \in Coins : Flat[c] = 0
  BY DEF Flat
<1>4. Task("idle", {}) \in TaskRecord /\ Task("idle", {}).pc = "idle"
  BY <1>3 DEF Task, TaskRecord
<1>5. "idle" \notin OnCoin
  BY DEF OnCoin
<1>6. OnCoinTasks = {} /\ Tracked = {}
  BY <1>3, <1>4, <1>5 DEF Init, OnCoinTasks, Tracked
<1>7. tasks \in [TaskNames -> TaskRecord] /\ pos \in [Ids -> PositionRecord]
  BY <1>2, <1>4 DEF Init
<1>8. opener \in OpenerRecord /\ opener.pc = "idle"
  BY DEF Init, OpenerIdle, OpenerRecord
<1>9. opened \in 0 .. MaxOpens /\ faults \in 0 .. MaxFaults /\ oids \in Nat
  BY BoundsAssumption DEF Init
<1>10. positions \in [Coins -> 0 .. opened] /\ net \in [Coins -> Int]
  BY <1>3 DEF Init
<1>11. book \subseteq OrderRecord /\ clean \subseteq Coins /\ disturbed \in BOOLEAN
  BY DEF Init
<1> QED
  BY <1>6, <1>7, <1>8, <1>9, <1>10, <1>11 DEF PMTypeOK

\* What the exchange answers to an order.
LEMMA OrderIs ==
  ASSUME oids \in Nat, NEW c \in Coins, NEW kind \in Kinds, NEW dir \in Dirs
  PROVE  /\ Order(c, kind, dir) \subseteq OrderRecord
         /\ Cardinality(Order(c, kind, dir)) = 1
<1>1. [oid |-> oids + 1, coin |-> c, kind |-> kind, dir |-> dir] \in OrderRecord
  BY DEF OrderRecord
<1> QED
  BY <1>1, FS_Singleton DEF Order

WorldOK ==
  /\ net \in [Coins -> Int] /\ book \subseteq OrderRecord /\ oids \in Nat
  /\ faults \in 0 .. MaxFaults

LEMMA AnswerTypes ==
  ASSUME WorldOK, NEW c \in Coins, NEW size \in Int, NEW order \in SUBSET OrderRecord,
         Cardinality(order) \in Nat, NEW answer, Answer(c, size, order, answer)
  PROVE  WorldOK'
<1>1. faults' \in 0 .. MaxFaults
  BY BoundsAssumption DEF Answer, WorldOK
<1>2. net' \in [Coins -> Int] /\ book' \subseteq OrderRecord /\ oids' \in Nat
  <2>1. CASE answer \in {"ok", "lost"}
    BY <2>1 DEF Answer, WorldOK
  <2>2. CASE answer \notin {"ok", "lost"}
    BY <2>2 DEF Answer, WorldOK, exchange
  <2> QED
    BY <2>1, <2>2
<1> QED
  BY <1>1, <1>2 DEF WorldOK

LEMMA CancelTypes ==
  ASSUME WorldOK, NEW oid, CancelAnswer(oid) PROVE WorldOK'
BY BoundsAssumption DEF WorldOK, CancelAnswer

\* An order that trades at once.
LEMMA TradeTypes ==
  ASSUME WorldOK, NEW c \in Coins, NEW size \in Int, NEW answer, Answer(c, size, {}, answer)
  PROVE  WorldOK'
BY AnswerTypes, FS_EmptySet

\* An order that rests.
LEMMA RestTypes ==
  ASSUME WorldOK, NEW c \in Coins, NEW kind \in Kinds, NEW dir \in Dirs, NEW answer,
         Answer(c, 0, Order(c, kind, dir), answer)
  PROVE  WorldOK'
<1>1. oids \in Nat
  BY DEF WorldOK
<1> QED
  BY <1>1, OrderIs, AnswerTypes

TasksOK ==
  /\ tasks \in [TaskNames -> TaskRecord]
  /\ \A t \in OnCoinTasks : tasks[t].i \in 1 .. opened

ManagerOK ==
  /\ opened \in 0 .. MaxOpens
  /\ positions \in [Coins -> 0 .. opened]
  /\ pos \in [Ids -> PositionRecord]
  /\ \A c \in Tracked : pos[positions[c]].coin = c

OpenerOK == opener \in OpenerRecord /\ (opener.pc # "idle" => opened # 0)

MemoryOK == clean \subseteq Coins /\ disturbed \in BOOLEAN

LEMMA TypeParts ==
  PMTypeOK <=> ManagerOK /\ OpenerOK /\ TasksOK /\ WorldOK /\ MemoryOK
BY DEF PMTypeOK, ManagerOK, OpenerOK, TasksOK, WorldOK, MemoryOK

\* A coroutine that moves on: one that is not at a coin needs no object.
LEMMA TaskMoves ==
  ASSUME TasksOK, NEW t \in TaskNames, NEW task \in TaskRecord,
         task.pc \in OnCoin => task.i \in 1 .. opened,
         tasks' = [tasks EXCEPT ![t] = task], opened' = opened
  PROVE  TasksOK'
<1>1. tasks' \in [TaskNames -> TaskRecord] /\ tasks'[t] = task
      /\ \A u \in TaskNames \ {t} : tasks'[u] = tasks[u]
  BY DEF TasksOK
<1>2. ASSUME NEW u \in OnCoinTasks' PROVE tasks'[u].i \in 1 .. opened'
  <2>1. u \in TaskNames /\ tasks'[u].pc \in OnCoin
    BY DEF OnCoinTasks
  <2>2. CASE u = t
    BY <1>1, <2>1, <2>2
  <2>3. CASE u # t
    <3>1. u \in OnCoinTasks
      BY <1>1, <2>1, <2>3 DEF OnCoinTasks
    <3> QED
      BY <1>1, <2>1, <2>3, <3>1 DEF TasksOK
  <2> QED
    BY <2>2, <2>3
<1> QED
  BY <1>1, <1>2 DEF TasksOK

LEMMA TaskIs ==
  ASSUME NEW pc \in {"idle", "next", "orphans", "done"}, NEW coins \in SUBSET Coins
  PROVE  Task(pc, coins) \in TaskRecord /\ Task(pc, coins).pc \notin OnCoin
<1>1. Flat \in [Coins -> Int]
  BY DEF Flat
<1> QED
  BY <1>1 DEF Task, TaskRecord, OnCoin

LEMMA ClosePositionIs ==
  ASSUME ManagerOK, NEW t, NEW i \in 1 .. opened, NEW coins \in SUBSET Coins
  PROVE  LET task == [ClosePosition(t, i) EXCEPT !.coins = coins]
         IN  task \in TaskRecord /\ task.i = i
<1>1. Flat \in [Coins -> Int] /\ i \in Ids
  BY BoundsAssumption DEF Flat, ManagerOK, Ids
<1>2. pos[i].sl \in Nat /\ pos[i].tp \in Nat
  BY <1>1 DEF ManagerOK, PositionRecord
<1> QED
  BY <1>1, <1>2 DEF ClosePosition, Task, TaskRecord, OnCoin

\* The objects a step works on.
LEMMA ObjectsAre ==
  ASSUME PMTypeOK
  PROVE  /\ 1 .. opened \subseteq Ids /\ opened \in Nat
         /\ \A i \in Ids : /\ pos[i] \in PositionRecord /\ pos[i].coin \in Coins
                           /\ pos[i].dir \in Dirs /\ pos[i].dir \in Int /\ -pos[i].dir \in Int
                           /\ pos[i].sl \in Nat /\ pos[i].tp \in Nat
         /\ opener.pc # "idle" => opened \in Ids
         /\ \A t \in OnCoinTasks : tasks[t].i \in Ids /\ t \in TaskNames
         /\ \A t \in TaskNames : tasks[t] \in TaskRecord
         /\ \A c \in Tracked : positions[c] \in 1 .. opened /\ positions[c] \in Ids
<1>1. 1 .. opened \subseteq Ids /\ opened \in Nat
  BY BoundsAssumption DEF PMTypeOK, Ids
<1>2. ASSUME NEW i \in Ids
      PROVE  /\ pos[i] \in PositionRecord /\ pos[i].coin \in Coins /\ pos[i].dir \in Dirs
             /\ pos[i].sl \in Nat /\ pos[i].tp \in Nat
  BY DEF PMTypeOK, PositionRecord
<1>3. \A d \in Dirs : d \in Int /\ -d \in Int
  BY DEF Dirs
<1>4. opener.pc # "idle" => opened \in 1 .. opened
  BY <1>1 DEF PMTypeOK
<1>5. \A t \in OnCoinTasks : tasks[t].i \in 1 .. opened /\ t \in TaskNames
  BY DEF PMTypeOK, OnCoinTasks
<1>6. \A c \in Tracked : positions[c] \in 1 .. opened
  BY <1>1 DEF PMTypeOK, Tracked
<1>7. \A t \in TaskNames : tasks[t] \in TaskRecord
  BY DEF PMTypeOK
<1> QED
  BY <1>1, <1>2, <1>3, <1>4, <1>5, <1>6, <1>7

\* An object that changes keeps its coin, if the dict refers to it.
LEMMA ObjectChanges ==
  ASSUME ManagerOK, NEW i \in Ids, NEW p \in PositionRecord, p.coin = pos[i].coin,
         pos' = [pos EXCEPT ![i] = p], opened' = opened, positions' = positions
  PROVE  ManagerOK'
<1>1. pos' \in [Ids -> PositionRecord] /\ \A j \in Ids : pos'[j].coin = pos[j].coin
  BY DEF ManagerOK
<1>2. \A c \in Tracked : positions[c] \in Ids
  BY BoundsAssumption DEF ManagerOK, Tracked, Ids
<1> QED
  BY <1>1, <1>2 DEF ManagerOK, Tracked

LEMMA SpoilsTypes == ASSUME MemoryOK, NEW c, NEW good, Spoils(c, good)
                     PROVE clean' \subseteq Coins
BY DEF MemoryOK, Spoils

LEMMA EntersTypes == ASSUME MemoryOK, NEW c, Enters(c) PROVE clean' \subseteq Coins
BY DEF MemoryOK, Enters

LEMMA MemoryFlags == ASSUME MemoryOK, Interferes \/ (\E t, good : By(t, good)) \/ UNCHANGED disturbed
                     PROVE disturbed' \in BOOLEAN
BY DEF MemoryOK, Interferes, By

LEMMA PartsNext ==
  ASSUME ManagerOK', OpenerOK', TasksOK', WorldOK', MemoryOK'
  PROVE  PMTypeOK'
BY DEF PMTypeOK, ManagerOK, OpenerOK, TasksOK, WorldOK, MemoryOK

\* The parts a step leaves alone.
LEMMA PartsUnchanged ==
  ASSUME PMTypeOK
  PROVE  /\ UNCHANGED manager => ManagerOK'
         /\ UNCHANGED <<opener, opened>> => OpenerOK'
         /\ UNCHANGED <<tasks, opened>> => TasksOK'
         /\ UNCHANGED <<exchange, faults>> => WorldOK'
<1>1. ManagerOK /\ OpenerOK /\ TasksOK /\ WorldOK
  BY TypeParts
<1>2. UNCHANGED manager => ManagerOK'
  BY <1>1 DEF manager, ManagerOK, Tracked
<1>3. UNCHANGED <<opener, opened>> => OpenerOK'
  BY <1>1 DEF OpenerOK
<1>4. UNCHANGED <<tasks, opened>> => TasksOK'
  BY <1>1 DEF TasksOK, OnCoinTasks
<1>5. UNCHANGED <<exchange, faults>> => WorldOK'
  BY <1>1 DEF exchange, WorldOK
<1> QED
  BY <1>2, <1>3, <1>4, <1>5

LEMMA OpenPositionTypes ==
  ASSUME PMTypeOK, NEW e \in Entries, OpenPosition(e) PROVE PMTypeOK'
<1>1. e.coin \in Coins /\ e.dir \in Dirs /\ e.limit \in BOOLEAN
  BY EntriesAssumption
<1>2. opened' = opened + 1 /\ opened \in Nat /\ opened' \in Ids /\ opened' \in 0 .. MaxOpens
  BY ObjectsAre, BoundsAssumption DEF OpenPosition, Ids
<1>3. AnyCoin \in Coins /\ 0 \in Nat
  BY EntriesAssumption DEF AnyCoin
<1>4. [Unused EXCEPT !.coin = e.coin, !.dir = e.dir] \in PositionRecord
  BY <1>1, <1>3 DEF Unused, PositionRecord, Verdicts
<1>5. pos' = [pos EXCEPT ![opened'] = [Unused EXCEPT !.coin = e.coin, !.dir = e.dir]]
      /\ positions' = positions
  BY DEF OpenPosition
<1>6. ManagerOK'
  <2>1. pos' \in [Ids -> PositionRecord] /\ \A i \in 1 .. opened : pos'[i] = pos[i]
    BY <1>2, <1>4, <1>5 DEF PMTypeOK
  <2>2. positions' \in [Coins -> 0 .. opened']
    BY <1>2, <1>5 DEF PMTypeOK
  <2>3. \A c \in Tracked : pos'[positions'[c]].coin = c
    BY <1>5, <2>1, ObjectsAre DEF PMTypeOK
  <2>4. Tracked' = Tracked
    BY <1>5 DEF Tracked
  <2> QED
    BY <1>2, <2>1, <2>2, <2>3, <2>4 DEF ManagerOK
<1>7. OpenerOK'
  <2>1. opener' = [pc |-> "entry", limit |-> e.limit]
    BY DEF OpenPosition
  <2> QED
    BY <1>1, <1>2, <2>1 DEF OpenerOK, OpenerRecord
<1>8. TasksOK'
  <2>1. tasks' = tasks /\ TasksOK /\ OnCoinTasks' = OnCoinTasks
    BY TypeParts DEF OpenPosition, OnCoinTasks
  <2> QED
    BY <1>2, <2>1 DEF TasksOK
<1>9. WorldOK'
  BY PartsUnchanged DEF OpenPosition
<1>10. MemoryOK'
  BY <1>1 DEF OpenPosition, Interferes, PMTypeOK, MemoryOK
<1> QED
  BY <1>6, <1>7, <1>8, <1>9, <1>10, PartsNext

LEMMA OpenerTypes ==
  ASSUME PMTypeOK, NEW answer,
         EntryAnswered(answer) \/ StopAnswered(answer) \/ TargetAnswered(answer)
  PROVE  PMTypeOK'
<1>1. /\ ManagerOK /\ OpenerOK /\ TasksOK /\ WorldOK /\ MemoryOK
      /\ opened' = opened /\ tasks' = tasks
  BY TypeParts DEF EntryAnswered, StopAnswered, TargetAnswered, manager
<1>2. opened \in Ids /\ opener.limit \in BOOLEAN
  <2>1. opener.pc # "idle"
    BY DEF EntryAnswered, StopAnswered, TargetAnswered
  <2> QED
    BY <2>1, ObjectsAre DEF PMTypeOK, OpenerRecord
<1>3. /\ pos[opened] \in PositionRecord /\ pos[opened].coin \in Coins
      /\ pos[opened].dir \in Dirs /\ pos[opened].dir \in Int
  BY <1>2, ObjectsAre
<1>4. OpenerOK'
  <2>1. opener' \in OpenerRecord
    <3>1. \/ opener' = OpenerIdle
          \/ opener' = [opener EXCEPT !.pc = "sl"]
          \/ opener' = [opener EXCEPT !.pc = "tp"]
      BY DEF EntryAnswered, StopAnswered, TargetAnswered
    <3>2. opener \in OpenerRecord /\ OpenerIdle \in OpenerRecord
      BY <1>1 DEF OpenerOK, OpenerIdle, OpenerRecord
    <3> QED
      BY <3>1, <3>2 DEF OpenerRecord
  <2>2. opener.pc # "idle"
    BY DEF EntryAnswered, StopAnswered, TargetAnswered
  <2> QED
    BY <1>1, <2>1, <2>2 DEF OpenerOK
<1>5. TasksOK'
  BY <1>1, PartsUnchanged
<1>6. MemoryOK'
  BY <1>1, SpoilsTypes, MemoryFlags
     DEF EntryAnswered, StopAnswered, TargetAnswered, MemoryOK
<1>7. OrderId(answer) \in Nat
  BY <1>1 DEF OrderId, WorldOK
<1>8. CASE EntryAnswered(answer)
  <2>1. ManagerOK'
    BY <1>8, PartsUnchanged DEF EntryAnswered
  <2>2. WorldOK'
    BY <1>1, <1>3, <1>8, TradeTypes, RestTypes DEF EntryAnswered, Kinds
  <2> QED
    BY <1>4, <1>5, <1>6, <2>1, <2>2, PartsNext
<1>9. CASE StopAnswered(answer)
  <2>1. ManagerOK'
    <3>1. [pos[opened] EXCEPT !.sl = OrderId(answer)] \in PositionRecord
      BY <1>3, <1>7 DEF PositionRecord
    <3>2. [pos[opened] EXCEPT !.sl = OrderId(answer)].coin = pos[opened].coin
      BY <1>3 DEF PositionRecord
    <3> QED
      BY <1>1, <1>2, <1>9, <3>1, <3>2, ObjectChanges DEF StopAnswered
  <2>2. WorldOK'
    BY <1>1, <1>3, <1>9, RestTypes DEF StopAnswered, Kinds
  <2> QED
    BY <1>4, <1>5, <1>6, <2>1, <2>2, PartsNext
<1>10. CASE TargetAnswered(answer)
  <2> DEFINE c == pos[opened].coin
             p == [pos[opened] EXCEPT !.tp = OrderId(answer)]
  <2>1. p \in PositionRecord /\ p.coin = c
    BY <1>3, <1>7 DEF PositionRecord
  <2>2. pos' = [pos EXCEPT ![opened] = p]
        /\ (positions' = positions \/ positions' = [positions EXCEPT ![c] = opened])
    BY <1>10 DEF TargetAnswered
  <2> HIDE DEF p
  <2>3. pos' \in [Ids -> PositionRecord] /\ \A i \in Ids : pos'[i].coin = pos[i].coin
    BY <1>1, <1>2, <2>1, <2>2 DEF ManagerOK
  <2>4. positions' \in [Coins -> 0 .. opened]
    BY <1>1, <2>2 DEF ManagerOK
  <2>5. ASSUME NEW d \in Tracked' PROVE pos'[positions'[d]].coin = d
    <3>1. d \in Coins /\ positions'[d] # 0
      BY DEF Tracked
    <3>2. CASE positions'[d] = positions[d]
      BY <2>3, <3>1, <3>2, ObjectsAre DEF PMTypeOK, Tracked
    <3>3. CASE positions'[d] # positions[d]
      <4>1. d = c /\ positions'[d] = opened
        BY <1>1, <2>2, <3>1, <3>3 DEF ManagerOK
      <4> QED
        BY <1>2, <2>3, <4>1
    <3> QED
      BY <3>2, <3>3
  <2>6. ManagerOK'
    BY <1>1, <2>3, <2>4, <2>5 DEF ManagerOK
  <2>7. WorldOK'
    BY <1>1, <1>3, <1>10, RestTypes DEF TargetAnswered, Kinds
  <2> QED
    BY <1>4, <1>5, <1>6, <2>6, <2>7, PartsNext
<1> QED
  BY <1>8, <1>9, <1>10

\* The object a coroutine is at.
LEMMA ObjectAt ==
  ASSUME PMTypeOK, NEW t \in TaskNames, tasks[t].pc \in OnCoin
  PROVE  /\ tasks[t] \in TaskRecord /\ tasks[t].i \in 1 .. opened /\ tasks[t].i \in Ids
         /\ pos[tasks[t].i] \in PositionRecord
         /\ pos[tasks[t].i].coin \in Coins
         /\ pos[tasks[t].i].dir \in Dirs /\ pos[tasks[t].i].dir \in Int
         /\ -pos[tasks[t].i].dir \in Int
<1>1. t \in OnCoinTasks
  BY DEF OnCoinTasks
<1>2. tasks[t].i \in 1 .. opened
  BY <1>1 DEF PMTypeOK
<1> QED
  BY <1>1, <1>2, ObjectsAre

LEMMA ResumeIs ==
  ASSUME TasksOK, NEW t \in TaskNames, NEW raised
  PROVE  Resume(t, raised) \in TaskRecord /\ Resume(t, raised).pc \notin OnCoin
<1>1. tasks[t].coins \in SUBSET Coins /\ {} \in SUBSET Coins
  BY DEF TasksOK, TaskRecord
<1> QED
  BY <1>1, TaskIs DEF Resume

LEMMA ClosingTypes ==
  ASSUME PMTypeOK, NEW t \in TaskNames, Closing(t) PROVE PMTypeOK'
<1>1. ManagerOK /\ OpenerOK /\ TasksOK /\ WorldOK /\ MemoryOK
  BY TypeParts
<1>2. tasks[t].pc \in OnCoin
  BY DEF Closing, CloseCancels, CloseTrades, CloseDeletes, CloseMidsRaise, OnCoin
<1>3. /\ tasks[t] \in TaskRecord /\ tasks[t].i \in 1 .. opened /\ tasks[t].i \in Ids
      /\ pos[tasks[t].i] \in PositionRecord
      /\ pos[tasks[t].i].coin \in Coins /\ -pos[tasks[t].i].dir \in Int
  BY <1>2, ObjectAt
<1>4. ASSUME NEW pc \in OnCoin
      PROVE  [tasks[t] EXCEPT !.pc = pc] \in TaskRecord /\ [tasks[t] EXCEPT !.pc = pc].i = tasks[t].i
  BY <1>3 DEF TaskRecord
<1>5. CASE CloseCancels(t)
  <2>1. PICK pc \in OnCoin : tasks' = [tasks EXCEPT ![t] = [tasks[t] EXCEPT !.pc = pc]]
    BY <1>5 DEF CloseCancels, OnCoin
  <2>2. ManagerOK' /\ OpenerOK' /\ opened' = opened
    BY <1>5, PartsUnchanged DEF CloseCancels, manager
  <2>3. TasksOK'
    BY <1>1, <1>3, <1>4, <2>1, <2>2, TaskMoves
  <2>4. WorldOK'
    BY <1>1, <1>5, CancelTypes DEF CloseCancels
  <2>5. MemoryOK'
    BY <1>1, <1>5, SpoilsTypes, MemoryFlags DEF CloseCancels, MemoryOK
  <2> QED
    BY <2>2, <2>3, <2>4, <2>5, PartsNext
<1>6. ASSUME NEW answer, CloseTrades(t, answer) PROVE PMTypeOK'
  <2>1. \/ tasks' = [tasks EXCEPT ![t] = Resume(t, TRUE)]
        \/ tasks' = [tasks EXCEPT ![t] = [tasks[t] EXCEPT !.pc = "mids"]]
    BY <1>6 DEF CloseTrades
  <2>2. ManagerOK' /\ OpenerOK' /\ opened' = opened
    BY <1>6, PartsUnchanged DEF CloseTrades, manager
  <2>3. TasksOK'
    <3>1. "mids" \in OnCoin
      BY DEF OnCoin
    <3>2. [tasks[t] EXCEPT !.pc = "mids"] \in TaskRecord
          /\ [tasks[t] EXCEPT !.pc = "mids"].i = tasks[t].i
      BY <1>4, <3>1
    <3>3. Resume(t, TRUE) \in TaskRecord /\ Resume(t, TRUE).pc \notin OnCoin
      BY <1>1, ResumeIs
    <3> QED
      BY <1>1, <1>3, <2>1, <2>2, <3>2, <3>3, TaskMoves
  <2>4. WorldOK'
    BY <1>1, <1>3, <1>6, TradeTypes DEF CloseTrades
  <2>5. MemoryOK'
    BY <1>1, <1>6, SpoilsTypes, MemoryFlags DEF CloseTrades, MemoryOK
  <2> QED
    BY <2>2, <2>3, <2>4, <2>5, PartsNext
<1>7. CASE CloseDeletes(t)
  <2> DEFINE c == pos[tasks[t].i].coin
  <2>1. /\ positions' = [positions EXCEPT ![c] = 0] /\ opened' = opened
        /\ pos' = Forgotten(positions[c])
        /\ tasks' = [tasks EXCEPT ![t] = Resume(t, positions[c] = 0)]
        /\ UNCHANGED <<opener, exchange, faults, clean>>
    BY <1>7 DEF CloseDeletes
  <2>2. positions[c] \in Nat
    BY <1>1, <1>3 DEF ManagerOK
  <2> HIDE DEF c
  <2>3. ASSUME NEW j \in Ids PROVE pos'[j] \in PositionRecord /\ pos'[j].coin = pos[j].coin
    <3>1. pos[j] \in PositionRecord /\ AnyCoin \in Coins
      BY EntriesAssumption, ObjectsAre DEF AnyCoin
    <3>2. CASE j = positions[c]
      <4>1. pos'[j] = [Unused EXCEPT !.coin = pos[j].coin, !.dir = pos[j].dir]
        BY <2>1, <3>2 DEF Forgotten
      <4>2. pos'[j] = [coin |-> pos[j].coin, dir |-> pos[j].dir, sl |-> 0, tp |-> 0,
                       trailed |-> FALSE, due |-> "none"]
        BY <4>1 DEF Unused
      <4>3. pos[j].coin \in Coins /\ pos[j].dir \in Dirs
        BY <3>1 DEF PositionRecord
      <4> QED
        BY <4>2, <4>3 DEF PositionRecord, Verdicts
    <3>3. CASE j # positions[c]
      BY <2>1, <3>1, <3>3 DEF Forgotten
    <3> QED
      BY <3>2, <3>3
  <2>4. pos' \in [Ids -> PositionRecord]
    <3>1. pos' = [j \in Ids |-> pos'[j]]
      BY <2>1 DEF Forgotten
    <3> QED
      BY <2>3, <3>1
  <2>5. ManagerOK'
    <3>1. positions' \in [Coins -> 0 .. opened']
      <4>1. 0 \in 0 .. opened /\ positions \in [Coins -> 0 .. opened]
        BY <1>1, BoundsAssumption DEF ManagerOK
      <4> QED
        BY <2>1, <4>1
    <3>2. ASSUME NEW d \in Tracked' PROVE pos'[positions'[d]].coin = d
      <4>1. d \in Tracked /\ positions'[d] = positions[d]
        BY <1>1, <2>1 DEF Tracked, ManagerOK
      <4> QED
        BY <2>3, <4>1, ObjectsAre DEF PMTypeOK
    <3> QED
      BY <1>1, <2>1, <2>4, <3>1, <3>2 DEF ManagerOK
  <2>6. OpenerOK' /\ WorldOK'
    BY <2>1, PartsUnchanged
  <2>7. TasksOK'
    <3>1. Resume(t, positions[c] = 0) \in TaskRecord /\ Resume(t, positions[c] = 0).pc \notin OnCoin
      BY <1>1, ResumeIs
    <3> QED
      BY <1>1, <2>1, <3>1, TaskMoves
  <2>8. MemoryOK'
    BY <1>1, <1>7, <2>1, MemoryFlags DEF CloseDeletes, MemoryOK
  <2> QED
    BY <2>5, <2>6, <2>7, <2>8, PartsNext
<1>8. CASE CloseMidsRaise(t)
  <2>1. tasks' = [tasks EXCEPT ![t] = Resume(t, TRUE)]
    BY <1>8 DEF CloseMidsRaise
  <2>2. ManagerOK' /\ OpenerOK' /\ opened' = opened
    BY <1>8, PartsUnchanged DEF CloseMidsRaise, manager
  <2>3. TasksOK'
    <3>1. Resume(t, TRUE) \in TaskRecord /\ Resume(t, TRUE).pc \notin OnCoin
      BY <1>1, ResumeIs
    <3> QED
      BY <1>1, <2>1, <2>2, <3>1, TaskMoves
  <2>4. WorldOK'
    BY <1>1, <1>8, BoundsAssumption DEF CloseMidsRaise, WorldOK, exchange
  <2>5. MemoryOK'
    BY <1>1, <1>8, SpoilsTypes, MemoryFlags DEF CloseMidsRaise, MemoryOK
  <2> QED
    BY <2>2, <2>3, <2>4, <2>5, PartsNext
<1> QED
  BY <1>5, <1>6, <1>7, <1>8 DEF Closing

LEMMA UpdatingTypes ==
  ASSUME PMTypeOK, Updating PROVE PMTypeOK'
<1> DEFINE u == tasks["updater"]
<1>1. ManagerOK /\ OpenerOK /\ TasksOK /\ WorldOK /\ MemoryOK
  BY TypeParts
<1>2. "updater" \in TaskNames /\ u \in TaskRecord /\ u.coins \in SUBSET Coins
      /\ u.sl \in Nat
  BY <1>1 DEF TaskNames, TasksOK, TaskRecord
<1>3. Tracked \in SUBSET Coins /\ {} \in SUBSET Coins
  BY DEF Tracked
<1>4. ASSUME NEW task, tasks' = [tasks EXCEPT !["updater"] = task], task \in TaskRecord,
             task.pc \in OnCoin => task.i \in 1 .. opened,
             UNCHANGED <<manager, opener, exchange, faults>>,
             Interferes, clean' \subseteq Coins
      PROVE  PMTypeOK'
  <2>1. ManagerOK' /\ OpenerOK' /\ WorldOK' /\ opened' = opened
    BY <1>4, PartsUnchanged DEF manager
  <2>2. TasksOK'
    BY <1>1, <1>2, <1>4, <2>1, TaskMoves
  <2>3. MemoryOK'
    BY <1>1, <1>4, MemoryFlags DEF MemoryOK
  <2> QED
    BY <2>1, <2>2, <2>3, PartsNext
<1>5. CASE UpdateAll
  BY <1>1, <1>3, <1>4, <1>5, TaskIs DEF UpdateAll, MemoryOK
<1>6. CASE UpdateEnds
  BY <1>1, <1>3, <1>4, <1>6, TaskIs DEF UpdateEnds, MemoryOK
<1>7. ASSUME NEW c \in Coins, UpdateVisits(c) PROVE PMTypeOK'
  <2> DEFINE rest == Task("next", u.coins \ {c})
             i == positions[c]
             trailing == [rest EXCEPT !.i = i, !.sl = pos[i].sl,
                            !.pc = IF pos[i].sl # 0 THEN "cancel_old" ELSE "place_stop"]
             closing == [ClosePosition("updater", i) EXCEPT !.coins = rest.coins]
  <2>1. rest \in TaskRecord /\ rest.pc \notin OnCoin /\ rest.coins \in SUBSET Coins
    <3>1. u.coins \ {c} \in SUBSET Coins
      BY <1>2
    <3>2. rest \in TaskRecord /\ rest.pc \notin OnCoin
      BY <3>1, TaskIs
    <3> QED
      BY <3>2 DEF TaskRecord
  <2>2. i # 0 => /\ i \in 1 .. opened /\ i \in Ids /\ pos[i].sl \in Nat
    <3>1. i # 0 => c \in Tracked
      BY DEF Tracked
    <3> QED
      BY <3>1, ObjectsAre
  <2>3. i # 0 => trailing \in TaskRecord /\ trailing.i = i
    <3> HIDE DEF rest, i
    <3>1. "cancel_old" \in OnCoin /\ "place_stop" \in OnCoin
      BY DEF OnCoin
    <3> QED
      BY <2>1, <2>2, <3>1 DEF TaskRecord
  <2>4. i # 0 => closing \in TaskRecord /\ closing.i = i
    <3> HIDE DEF rest, i
    <3> QED
      BY <1>1, <2>1, <2>2, ClosePositionIs
  <2>5. \/ tasks' = [tasks EXCEPT !["updater"] = trailing] /\ i # 0
        \/ tasks' = [tasks EXCEPT !["updater"] = closing] /\ i # 0
        \/ tasks' = [tasks EXCEPT !["updater"] = rest]
    BY <1>7 DEF UpdateVisits, TrailDue, TimeoutDue, Updater
  <2>6. clean' \subseteq Coins
    BY <1>1, <1>7, EntersTypes DEF UpdateVisits, MemoryOK
  <2>7. Interferes /\ UNCHANGED <<manager, opener, exchange, faults>>
    BY <1>7 DEF UpdateVisits
  <2> HIDE DEF rest, i, trailing, closing
  <2> QED
    BY <1>4, <2>1, <2>2, <2>3, <2>4, <2>5, <2>6, <2>7
<1>8. CASE OldStopCancelled
  <2>1. [u EXCEPT !.pc = "place_stop"] \in TaskRecord /\ [u EXCEPT !.pc = "place_stop"].i = u.i
    BY <1>2 DEF TaskRecord, OnCoin
  <2>2. tasks' = [tasks EXCEPT !["updater"] = [u EXCEPT !.pc = "place_stop"]]
    BY <1>8 DEF OldStopCancelled
  <2>3. u.pc \in OnCoin
    BY <1>8 DEF OldStopCancelled, Updater, OnCoin
  <2>4. u.i \in 1 .. opened
    BY <1>2, <2>3, ObjectAt
  <2>5. ManagerOK' /\ OpenerOK' /\ opened' = opened
    BY <1>8, PartsUnchanged DEF OldStopCancelled, manager
  <2>6. TasksOK'
    BY <1>1, <1>2, <2>1, <2>2, <2>4, <2>5, TaskMoves
  <2>7. WorldOK'
    BY <1>1, <1>8, CancelTypes DEF OldStopCancelled
  <2>8. MemoryOK'
    BY <1>1, <1>8, SpoilsTypes, MemoryFlags DEF OldStopCancelled, MemoryOK
  <2> QED
    BY <2>5, <2>6, <2>7, <2>8, PartsNext
<1>9. ASSUME NEW answer, NewStopAnswered(answer) PROVE PMTypeOK'
  <2> DEFINE i == u.i
  <2>1. u.pc \in OnCoin
    BY <1>9 DEF NewStopAnswered, Updater, OnCoin
  <2>2. /\ i \in 1 .. opened /\ i \in Ids /\ pos[i] \in PositionRecord
        /\ pos[i].coin \in Coins /\ pos[i].dir \in Dirs
    BY <1>2, <2>1, ObjectAt
  <2>4. \/ tasks' = [tasks EXCEPT !["updater"] = Task("idle", {})]
        \/ tasks' = [tasks EXCEPT !["updater"] = Task("next", u.coins)]
    BY <1>9 DEF NewStopAnswered, Updater
  <2>5. pos' = pos \/ pos' = [pos EXCEPT ![i] =
                                [pos[i] EXCEPT !.sl = OrderId(answer), !.trailed = TRUE]]
    BY <1>9 DEF NewStopAnswered, Updater, Trails
  <2>6. UNCHANGED <<positions, opened, opener>>
    BY <1>9 DEF NewStopAnswered
  <2>7. OrderId(answer) \in Nat
    BY <1>1 DEF OrderId, WorldOK
  <2>8. ManagerOK'
    <3>1. CASE pos' = pos
      BY <2>6, <3>1, PartsUnchanged DEF manager
    <3>2. CASE pos' # pos
      <4> DEFINE p == [pos[i] EXCEPT !.sl = OrderId(answer), !.trailed = TRUE]
      <4>1. p \in PositionRecord /\ p.coin = pos[i].coin
        BY <2>2, <2>7 DEF PositionRecord
      <4> QED
        BY <1>1, <2>2, <2>5, <2>6, <3>2, <4>1, ObjectChanges
    <3> QED
      BY <3>1, <3>2
  <2>9. TasksOK'
    <3>1. /\ Task("idle", {}) \in TaskRecord /\ Task("idle", {}).pc \notin OnCoin
          /\ Task("next", u.coins) \in TaskRecord /\ Task("next", u.coins).pc \notin OnCoin
      BY <1>2, <1>3, TaskIs
    <3> HIDE DEF u
    <3> QED
      BY <1>1, <1>2, <2>4, <2>6, <3>1, TaskMoves
  <2>10. WorldOK'
    BY <1>1, <1>9, <2>2, RestTypes DEF NewStopAnswered, Kinds, Updater
  <2>11. OpenerOK'
    BY <2>6, PartsUnchanged
  <2>12. MemoryOK'
    BY <1>1, <1>9, SpoilsTypes, MemoryFlags DEF NewStopAnswered, MemoryOK
  <2> QED
    BY <2>8, <2>9, <2>10, <2>11, <2>12, PartsNext
<1> QED
  BY <1>2, <1>5, <1>6, <1>7, <1>8, <1>9, ClosingTypes DEF Updating

LEMMA EmergencyTypes ==
  ASSUME PMTypeOK, EmergencyStarts \/ EmergencyTurn PROVE PMTypeOK'
<1> DEFINE e == tasks["emergency"]
<1>1. ManagerOK /\ OpenerOK /\ TasksOK /\ WorldOK /\ MemoryOK
  BY TypeParts
<1>2. "emergency" \in TaskNames /\ e \in TaskRecord /\ e.coins \in SUBSET Coins
      /\ e.sizes \in [Coins -> Int]
  BY <1>1 DEF TaskNames, TasksOK, TaskRecord
<1>3. Tracked \in SUBSET Coins /\ {} \in SUBSET Coins /\ Orphans \in SUBSET Coins
  BY DEF Tracked, Orphans
<1>4. ASSUME NEW task, tasks' = [tasks EXCEPT !["emergency"] = task], task \in TaskRecord,
             task.pc \in OnCoin => task.i \in 1 .. opened,
             UNCHANGED <<manager, opener>>, WorldOK',
             UNCHANGED disturbed \/ (\E t, good : By(t, good)), clean' \subseteq Coins
      PROVE  PMTypeOK'
  <2>1. ManagerOK' /\ OpenerOK' /\ opened' = opened
    BY <1>4, PartsUnchanged DEF manager
  <2>2. TasksOK'
    BY <1>1, <1>2, <1>4, <2>1, TaskMoves
  <2>3. MemoryOK'
    BY <1>1, <1>4, MemoryFlags DEF MemoryOK
  <2> QED
    BY <1>4, <2>1, <2>2, <2>3, PartsNext
<1>5. UNCHANGED <<exchange, faults>> => WorldOK'
  BY PartsUnchanged
<1>6. CASE EmergencyStarts
  BY <1>1, <1>3, <1>4, <1>5, <1>6, TaskIs DEF EmergencyStarts, MemoryOK, memory
<1>7. ASSUME NEW c \in Coins, EmergencyCloses(c) PROVE PMTypeOK'
  <2> DEFINE rest == e.coins \ {c}
             i == positions[c]
             closing == [ClosePosition("emergency", i) EXCEPT !.coins = rest]
  <2>1. rest \in SUBSET Coins
    BY <1>2
  <2>2. i # 0 => i \in 1 .. opened
    <3>1. i # 0 => c \in Tracked
      BY DEF Tracked
    <3> QED
      BY <3>1, ObjectsAre
  <2>3. i # 0 => closing \in TaskRecord /\ closing.i = i
    <3> HIDE DEF rest, i
    <3> QED
      BY <1>1, <2>1, <2>2, ClosePositionIs
  <2>4. \/ tasks' = [tasks EXCEPT !["emergency"] = Task("next", rest)]
        \/ tasks' = [tasks EXCEPT !["emergency"] = closing] /\ i # 0
    BY <1>7 DEF EmergencyCloses, Emergency
  <2>5. Task("next", rest) \in TaskRecord /\ Task("next", rest).pc \notin OnCoin
    BY <2>1, TaskIs
  <2>6. clean' \subseteq Coins
    BY <1>1, <1>7, EntersTypes DEF EmergencyCloses, MemoryOK
  <2>7. UNCHANGED <<manager, opener, exchange, faults, disturbed>>
    BY <1>7 DEF EmergencyCloses
  <2> HIDE DEF rest, i, closing
  <2> QED
    BY <1>4, <1>5, <2>2, <2>3, <2>4, <2>5, <2>6, <2>7
<1>8. CASE EmergencyFetches
  <2> DEFINE found == [Task("orphans", Orphans) EXCEPT !.sizes = net]
  <2>1. found \in TaskRecord /\ found.pc \notin OnCoin
    <3>1. Task("orphans", Orphans) \in TaskRecord /\ Task("orphans", Orphans).pc \notin OnCoin
      BY <1>3, TaskIs
    <3>2. net \in [Coins -> Int]
      BY <1>1 DEF WorldOK
    <3> QED
      BY <3>1, <3>2 DEF TaskRecord
  <2>2. Task("done", {}) \in TaskRecord /\ Task("done", {}).pc \notin OnCoin
    BY <1>3, TaskIs
  <2>3. \/ tasks' = [tasks EXCEPT !["emergency"] = found]
        \/ tasks' = [tasks EXCEPT !["emergency"] = Task("done", {})]
    BY <1>8 DEF EmergencyFetches
  <2>4. WorldOK'
    <3>1. UNCHANGED exchange
          /\ (UNCHANGED faults \/ (faults < MaxFaults /\ faults' = faults + 1))
      BY <1>8 DEF EmergencyFetches
    <3>2. faults' \in 0 .. MaxFaults
      BY <1>1, <3>1, BoundsAssumption DEF WorldOK
    <3> QED
      BY <1>1, <3>1, <3>2 DEF WorldOK, exchange
  <2>5. UNCHANGED <<manager, opener>> /\ clean' \subseteq Coins
        /\ (UNCHANGED disturbed \/ \E t, good : By(t, good))
    BY <1>1, <1>8 DEF EmergencyFetches, MemoryOK
  <2> HIDE DEF found
  <2> QED
    BY <1>4, <2>1, <2>2, <2>3, <2>4, <2>5
<1>9. ASSUME NEW c \in Coins, NEW answer, EmergencyOrphan(c, answer) PROVE PMTypeOK'
  <2> DEFINE less == [e EXCEPT !.coins = @ \ {c}]
  <2>1. less \in TaskRecord /\ less.pc \notin OnCoin
    <3>1. e.pc = "orphans"
      BY <1>9 DEF EmergencyOrphan, Emergency
    <3> QED
      BY <1>2, <3>1 DEF TaskRecord, OnCoin
  <2>2. Task("done", {}) \in TaskRecord /\ Task("done", {}).pc \notin OnCoin
    BY <1>3, TaskIs
  <2>3. \/ tasks' = [tasks EXCEPT !["emergency"] = less]
        \/ tasks' = [tasks EXCEPT !["emergency"] = Task("done", {})]
    <3>1. CASE Raises(answer)
      BY <1>9, <3>1 DEF EmergencyOrphan
    <3>2. CASE ~Raises(answer)
      BY <1>9, <3>2 DEF EmergencyOrphan, Emergency
    <3> QED
      BY <3>1, <3>2
  <2>4. WorldOK'
    <3>1. CloseSize(e.sizes[c]) \in Int
      BY <1>2 DEF CloseSize
    <3> QED
      BY <1>1, <1>9, <3>1, TradeTypes DEF EmergencyOrphan, Emergency
  <2>5. UNCHANGED <<manager, opener>> /\ clean' \subseteq Coins
        /\ (\E t, good : By(t, good))
    BY <1>1, <1>9, SpoilsTypes DEF EmergencyOrphan
  <2> HIDE DEF less
  <2> QED
    BY <1>4, <2>1, <2>2, <2>3, <2>4, <2>5
<1>10. CASE EmergencyEnds
  BY <1>1, <1>3, <1>4, <1>5, <1>10, TaskIs DEF EmergencyEnds, MemoryOK, memory
<1> QED
  BY <1>2, <1>6, <1>7, <1>8, <1>9, <1>10, ClosingTypes DEF EmergencyTurn

LEMMA WorldTypes ==
  ASSUME PMTypeOK,
         (\E o \in book : Fill(o)) \/ (\E i \in Ids, due \in Verdicts : Ages(i, due))
  PROVE  PMTypeOK'
<1>1. ManagerOK /\ OpenerOK /\ TasksOK /\ WorldOK /\ MemoryOK
  BY TypeParts
<1>2. ASSUME NEW o \in book, Fill(o) PROVE PMTypeOK'
  <2>1. ManagerOK' /\ OpenerOK' /\ TasksOK'
    BY <1>2, PartsUnchanged DEF Fill, manager
  <2>2. o.coin \in Coins /\ o.dir \in Int
    BY <1>1 DEF WorldOK, OrderRecord, Dirs
  <2>3. net' \in [Coins -> Int]
    <3>1. PICK x : net' = [net EXCEPT ![o.coin] = x]
                   /\ x \in {net[o.coin], net[o.coin] + o.dir, net[o.coin] - o.dir}
      BY <1>2 DEF Fill
    <3>2. x \in Int
      BY <1>1, <2>2, <3>1 DEF WorldOK
    <3> QED
      BY <1>1, <3>1, <3>2 DEF WorldOK
  <2>4. WorldOK'
    BY <1>1, <1>2, <2>3 DEF Fill, WorldOK
  <2>5. MemoryOK'
    BY <1>1, <1>2, MemoryFlags DEF Fill, MemoryOK
  <2> QED
    BY <2>1, <2>4, <2>5, PartsNext
<1>3. ASSUME NEW i \in Ids, NEW due \in Verdicts, Ages(i, due) PROVE PMTypeOK'
  <2>1. [pos[i] EXCEPT !.due = due] \in PositionRecord
        /\ [pos[i] EXCEPT !.due = due].coin = pos[i].coin
    BY ObjectsAre DEF PositionRecord
  <2>2. pos' = [pos EXCEPT ![i] = [pos[i] EXCEPT !.due = due]]
        /\ UNCHANGED <<positions, opened, opener, tasks, exchange, faults, memory>>
    BY <1>3 DEF Ages
  <2>3. ManagerOK'
    BY <1>1, <2>1, <2>2, ObjectChanges
  <2>4. OpenerOK' /\ TasksOK' /\ WorldOK'
    BY <2>2, PartsUnchanged
  <2>5. MemoryOK'
    BY <1>1, <2>2 DEF MemoryOK, memory
  <2> QED
    BY <2>3, <2>4, <2>5, PartsNext
<1> QED
  BY <1>2, <1>3

LEMMA TypeStep == PMTypeOK /\ [Next]_vars => PMTypeOK'
<1> SUFFICES ASSUME PMTypeOK, [Next]_vars PROVE PMTypeOK'
  OBVIOUS
<1>1. CASE UNCHANGED vars
  <2>1. ManagerOK' /\ OpenerOK' /\ TasksOK' /\ WorldOK'
    BY <1>1, PartsUnchanged DEF vars, manager
  <2>2. MemoryOK'
    BY <1>1, TypeParts DEF vars, memory, MemoryOK
  <2> QED
    BY <2>1, <2>2, PartsNext
<1> QED
  BY <1>1, OpenPositionTypes, OpenerTypes, UpdatingTypes, EmergencyTypes, WorldTypes DEF Next

\* Every variable keeps its type; a coin's entry in the dict is an object of that
\* coin, and a coroutine at a coin works on an object that has been opened.
THEOREM TypeCorrect == Spec => []PMTypeOK
BY TypeInit, TypeStep, PTL DEF Spec

----------------------------------------------------------------------------
(* The inductive invariant: what the manager and the account have of a coin  *)
(* with a clean history at each await of the coroutine that is at it         *)

StopOf(c, p) == [oid |-> p.sl, coin |-> c, kind |-> "stop", dir |-> p.dir]
TargetOf(c, p) == [oid |-> p.tp, coin |-> c, kind |-> "target", dir |-> p.dir]

AtCoin(t, c) == tasks[t].pc \in OnCoin /\ pos[tasks[t].i].coin = c
OpenerAt(c) == opener.pc # "idle" /\ pos[opened].coin = c

\* Nobody but coroutine t is at coin c, or nobody at all.
Lonely(t, c) == ~OpenerAt(c) /\ \A u \in TaskNames \ {t} : ~AtCoin(u, c)
Alone(c) == ~OpenerAt(c) /\ \A t \in TaskNames : ~AtCoin(t, c)

OpeningOf(c) ==
  /\ \A t \in TaskNames : ~AtCoin(t, c)
  /\ positions[c] = 0
  /\ opener.pc = "entry" => net[c] = 0 /\ Orders(c) = {}
  /\ opener.pc = "sl" => net[c] = pos[opened].dir /\ Orders(c) = {}
  /\ opener.pc = "tp" => /\ net[c] = pos[opened].dir /\ pos[opened].sl # 0
                         /\ Orders(c) = {StopOf(c, pos[opened])}

WorkOn(t, c) ==
  LET p == pos[positions[c]]
      task == tasks[t]
  IN  /\ positions[c] # 0 /\ positions[c] = task.i
      /\ task.pc \in {"cancel_old", "cancel_sl"} => Tally(c) /\ task.sl = p.sl
      /\ task.pc \in {"cancel_sl", "cancel_tp"} => task.tp = p.tp
      /\ task.pc \in {"place_stop", "cancel_tp"} =>
           net[c] = p.dir /\ p.tp # 0 /\ Orders(c) = {TargetOf(c, p)}
      /\ task.pc = "market" => net[c] = p.dir /\ Orders(c) = {}
      /\ task.pc = "mids" => net[c] = 0 /\ Orders(c) = {}

Status(c) ==
  /\ OpenerAt(c) => OpeningOf(c)
  /\ \A t \in TaskNames : AtCoin(t, c) => Lonely(t, c) /\ WorkOn(t, c)
  /\ Alone(c) => Tally(c)

\* An order id that is none of another coin's orders, now and later.
Owned(x, c) == x <= oids /\ \A o \in book : o.oid = x => o.coin = c

IdsFresh ==
  /\ \A o \in book : o.oid <= oids
  /\ \A o1, o2 \in book : o1.oid = o2.oid => o1 = o2

IdsOwned ==
  \A i \in Ids : Owned(pos[i].sl, pos[i].coin) /\ Owned(pos[i].tp, pos[i].coin)

TasksOwned ==
  \A t \in OnCoinTasks : /\ Owned(tasks[t].sl, pos[tasks[t].i].coin)
                         /\ Owned(tasks[t].tp, pos[tasks[t].i].coin)

IInv ==
  /\ PMTypeOK /\ IdsFresh /\ IdsOwned /\ TasksOwned
  /\ \A c \in clean : Status(c)

LEMMA BusyIs == ASSUME NEW c PROVE c \notin Busy <=> Alone(c)
<1>1. c \in {pos[tasks[t].i].coin : t \in OnCoinTasks} <=> \E t \in TaskNames : AtCoin(t, c)
  BY DEF OnCoinTasks, AtCoin
<1>2. (opener.pc # "idle" /\ c \in {pos[opened].coin}) <=> OpenerAt(c)
  BY DEF OpenerAt
<1> QED
  BY <1>1, <1>2 DEF Busy, Alone

\* The two properties follow.
LEMMA InvTallies == IInv => IdleCoinTallies
BY BusyIs DEF IInv, IdleCoinTallies, Status

LEMMA InvGuarded == IInv => NeverNaked
<1> SUFFICES ASSUME IInv, NEW c \in clean \cap Tracked
             PROVE  \/ \E o \in Orders(c) : o.kind = "stop" /\ o.oid = pos[positions[c]].sl
                    \/ \E t \in TaskNames : Exposed(t, c)
  BY DEF NeverNaked
<1>1. Status(c) /\ positions[c] # 0
  BY DEF IInv, Tracked
<1>2. Tally(c) => \E o \in Orders(c) : o.kind = "stop" /\ o.oid = pos[positions[c]].sl
  <2>1. Tally(c) => StopOf(c, pos[positions[c]]) \in Orders(c)
    BY <1>1 DEF Tally, StopOf
  <2>2. StopOf(c, pos[positions[c]]).kind = "stop"
        /\ StopOf(c, pos[positions[c]]).oid = pos[positions[c]].sl
    BY DEF StopOf
  <2> QED
    BY <2>1, <2>2
<1>3. ~OpenerAt(c)
  BY <1>1 DEF Status, OpeningOf
<1>4. ASSUME NEW t \in TaskNames, AtCoin(t, c) PROVE Tally(c) \/ Exposed(t, c)
  BY <1>1, <1>4 DEF Status, WorkOn, AtCoin, OnCoin, Exposed
<1> QED
  BY <1>1, <1>2, <1>3, <1>4 DEF Status, Alone

LEMMA InvInit == Init => IInv
<1> SUFFICES ASSUME Init PROVE IInv
  OBVIOUS
<1>1. PMTypeOK
  BY TypeInit
<1>2. book = {} /\ oids = 0 /\ \A c \in Coins : positions[c] = 0 /\ net[c] = 0
  BY DEF Init, Flat
<1>3. \A t \in TaskNames : tasks[t].pc \notin OnCoin
  BY TaskIs DEF Init
<1>4. OnCoinTasks = {} /\ opener.pc = "idle"
  BY <1>3 DEF OnCoinTasks, Init, OpenerIdle
<1>5. \A i \in Ids : pos[i].sl = 0 /\ pos[i].tp = 0
  BY DEF Init, Unused
<1>6. IdsFresh /\ IdsOwned /\ TasksOwned
  BY <1>2, <1>4, <1>5 DEF IdsFresh, IdsOwned, TasksOwned, Owned
<1>7. ASSUME NEW c \in Coins PROVE Status(c)
  <2>1. Tally(c)
    BY <1>2 DEF Tally, Orders
  <2> QED
    BY <2>1, <1>3, <1>4 DEF Status, OpenerAt, AtCoin
<1> QED
  BY <1>1, <1>6, <1>7 DEF IInv, Init

----------------------------------------------------------------------------
(* Order ids                                                               *)

\* Owned ids stay owned.
WorldKeeps == \A x \in Nat, c \in Coins : Owned(x, c) => Owned(x, c)'

\* An answer to an order on coin c: what it leaves alone, and the new id.
LEMMA AnswerIds ==
  ASSUME PMTypeOK, PMTypeOK', IdsFresh, NEW c \in Coins, NEW size, NEW answer, NEW order,
         Answer(c, size, order, answer),
         order = {} \/ \E kind, dir : order = Order(c, kind, dir)
  PROVE  /\ IdsFresh' /\ WorldKeeps
         /\ order # {} => \A x : x = OrderId(answer) => Owned(x, c)'
         /\ \A d \in Coins \ {c} : net'[d] = net[d] /\ Orders(d)' = Orders(d)
         /\ answer \in Answers
         /\ answer \in {"ok", "lost"} => Orders(c)' = Orders(c) \cup order
         /\ answer = "ok" => net' = [net EXCEPT ![c] = @ + size]
<1>1. /\ oids \in Nat /\ book \subseteq OrderRecord /\ \A o \in book : o.oid \in Nat \ {0}
      /\ net \in [Coins -> Int] /\ oids' \in Nat /\ \A o \in book' : o.oid \in Nat \ {0}
  BY DEF PMTypeOK, OrderRecord
<1>2. Cardinality({}) = 0 /\ \A kind, dir : Cardinality(Order(c, kind, dir)) = 1
  BY FS_EmptySet, FS_Singleton DEF Order
<1>3. \A o \in order : o.oid = oids + 1 /\ o.coin = c
  BY DEF Order
<1>4. \A o1, o2 \in order : o1 = o2
  BY DEF Order
<1>5. /\ answer \in Answers
      /\ \/ /\ answer \in {"ok", "lost"} /\ book' = book \cup order
            /\ net' = [net EXCEPT ![c] = @ + size]
            /\ order = {} => oids' = oids
            /\ order # {} => oids' = oids + 1
         \/ answer \notin {"ok", "lost"} /\ UNCHANGED <<net, book, oids>>
  <2>1. answer \in Answers
    BY DEF Answer
  <2>2. CASE answer \in {"ok", "lost"}
    <3>1. book' = book \cup order /\ net' = [net EXCEPT ![c] = @ + size]
          /\ oids' = oids + Cardinality(order)
      BY <2>2 DEF Answer
    <3>2. order # {} => Cardinality(order) = 1
      BY <1>2
    <3> QED
      BY <1>1, <1>2, <2>1, <2>2, <3>1, <3>2
  <2>3. CASE answer \notin {"ok", "lost"}
    BY <2>1, <2>3 DEF Answer, exchange
  <2> QED
    BY <2>2, <2>3
<1>6. IdsFresh'
  BY <1>1, <1>3, <1>4, <1>5 DEF IdsFresh
<1>7. WorldKeeps
  <2> SUFFICES ASSUME NEW x \in Nat, NEW d \in Coins, Owned(x, d) PROVE Owned(x, d)'
    BY DEF WorldKeeps
  <2>1. x <= oids /\ oids <= oids' /\ \A o \in book : o.oid = x => o.coin = d
    BY <1>1, <1>5 DEF Owned
  <2>2. \A o \in book' : o.oid = x => o \in book
    BY <1>1, <1>3, <1>5, <2>1
  <2> QED
    BY <1>1, <2>1, <2>2 DEF Owned
<1>8. ASSUME order # {}, NEW x, x = OrderId(answer) PROVE Owned(x, c)'
  <2>1. CASE answer = "ok"
    <3>1. x = oids + 1 /\ oids' = oids + 1 /\ book' = book \cup order
      BY <1>5, <1>8, <2>1 DEF OrderId
    <3>2. \A o \in book' : o.oid = oids + 1 => o.coin = c
      BY <1>1, <1>3, <3>1 DEF IdsFresh
    <3> QED
      BY <1>1, <3>1, <3>2 DEF Owned
  <2>2. CASE answer # "ok"
    <3>1. 0 <= oids' /\ \A o \in book' : o.oid # 0
      BY <1>1
    <3> QED
      BY <1>8, <2>2, <3>1 DEF OrderId, Owned
  <2> QED
    BY <2>1, <2>2
<1>9. ASSUME NEW d \in Coins \ {c} PROVE net'[d] = net[d] /\ Orders(d)' = Orders(d)
  <2>1. net'[d] = net[d]
    BY <1>1, <1>5
  <2>2. Orders(d)' = Orders(d)
    BY <1>3, <1>5 DEF Orders
  <2> QED
    BY <2>1, <2>2
<1>10. answer \in {"ok", "lost"} => Orders(c)' = Orders(c) \cup order
  BY <1>3, <1>5 DEF Orders
<1> QED
  BY <1>5, <1>6, <1>7, <1>8, <1>9, <1>10

LEMMA CancelIds ==
  ASSUME PMTypeOK, PMTypeOK', IdsFresh, NEW c \in Coins, NEW x, CancelAnswer(x), Owned(x, c)
  PROVE  /\ IdsFresh' /\ WorldKeeps /\ net' = net
         /\ \A d \in Coins \ {c} : Orders(d)' = Orders(d)
         /\ faults' = faults => Orders(c)' = {o \in Orders(c) : o.oid # x}
<1>1. /\ book' \subseteq book /\ oids' = oids /\ net' = net
      /\ book' = {o \in book : o.oid # x} \/ book' = book
      /\ faults' = faults => book' = {o \in book : o.oid # x}
  BY DEF CancelAnswer, PMTypeOK
<1>2. IdsFresh' /\ WorldKeeps
  BY <1>1 DEF IdsFresh, WorldKeeps, Owned
<1>3. ASSUME NEW d \in Coins \ {c} PROVE Orders(d)' = Orders(d)
  BY <1>1 DEF Orders, Owned
<1>4. faults' = faults => Orders(c)' = {o \in Orders(c) : o.oid # x}
  BY <1>1 DEF Orders
<1> QED
  BY <1>1, <1>2, <1>3, <1>4

\* The books of a coin are what they were, and its object in the dict is.
SameFor(c) ==
  /\ net'[c] = net[c] /\ Orders(c)' = Orders(c) /\ positions'[c] = positions[c]
  /\ positions[c] # 0 => /\ pos'[positions[c]].dir = pos[positions[c]].dir
                         /\ pos'[positions[c]].sl = pos[positions[c]].sl
                         /\ pos'[positions[c]].tp = pos[positions[c]].tp

SameWorkers(c) ==
  /\ \A t \in TaskNames :
       /\ AtCoin(t, c)' <=> AtCoin(t, c)
       /\ AtCoin(t, c) => /\ tasks'[t].pc = tasks[t].pc /\ tasks'[t].i = tasks[t].i
                          /\ tasks'[t].sl = tasks[t].sl /\ tasks'[t].tp = tasks[t].tp
  /\ OpenerAt(c)' <=> OpenerAt(c)
  /\ OpenerAt(c) => /\ opener'.pc = opener.pc /\ opened' = opened
                    /\ pos'[opened].dir = pos[opened].dir /\ pos'[opened].sl = pos[opened].sl

LEMMA TallySame ==
  ASSUME NEW c, SameFor(c), Tally(c) PROVE Tally(c)'
<1>1. CASE positions[c] = 0
  <2>1. positions'[c] = 0 /\ net'[c] = 0 /\ Orders(c)' = {}
    BY <1>1 DEF SameFor, Tally
  <2> QED
    BY <2>1 DEF Tally
<1>2. CASE positions[c] # 0
  BY <1>2 DEF SameFor, Tally
<1> QED
  BY <1>1, <1>2

\* A coin nobody has touched keeps its status.
LEMMA Untouched ==
  ASSUME NEW c, Status(c), SameFor(c), SameWorkers(c) PROVE Status(c)'
<1>1. \A t \in TaskNames : AtCoin(t, c)' <=> AtCoin(t, c)
  BY DEF SameWorkers
<1>2. OpenerAt(c)' <=> OpenerAt(c)
  BY DEF SameWorkers
<1>3. ASSUME OpenerAt(c)' PROVE OpeningOf(c)'
  <2>1. OpeningOf(c)
    BY <1>2, <1>3 DEF Status
  <2>2. /\ opener'.pc = opener.pc /\ opened' = opened
        /\ pos'[opened'].dir = pos[opened].dir /\ pos'[opened'].sl = pos[opened].sl
    BY <1>2, <1>3 DEF SameWorkers
  <2>3. net'[c] = net[c] /\ Orders(c)' = Orders(c) /\ positions'[c] = positions[c]
    BY DEF SameFor
  <2> QED
    BY <1>1, <2>1, <2>2, <2>3 DEF OpeningOf, StopOf
<1>4. ASSUME NEW t \in TaskNames, AtCoin(t, c)' PROVE Lonely(t, c)' /\ WorkOn(t, c)'
  <2>1. Lonely(t, c) /\ WorkOn(t, c)
    BY <1>1, <1>4 DEF Status
  <2>2. Lonely(t, c)'
    BY <1>1, <1>2, <2>1 DEF Lonely
  <2>3. /\ tasks'[t].pc = tasks[t].pc /\ tasks'[t].i = tasks[t].i
        /\ tasks'[t].sl = tasks[t].sl /\ tasks'[t].tp = tasks[t].tp
    BY <1>1, <1>4 DEF SameWorkers
  <2>4. /\ net'[c] = net[c] /\ Orders(c)' = Orders(c) /\ positions'[c] = positions[c]
        /\ pos'[positions[c]].dir = pos[positions[c]].dir
        /\ pos'[positions[c]].sl = pos[positions[c]].sl
        /\ pos'[positions[c]].tp = pos[positions[c]].tp
    BY <2>1 DEF SameFor, WorkOn
  <2>5. Tally(c) => Tally(c)'
    BY TallySame
  <2>6. WorkOn(t, c)'
    BY <2>1, <2>3, <2>4, <2>5 DEF WorkOn, TargetOf
  <2> QED
    BY <2>2, <2>6
<1>5. Alone(c)' => Tally(c)'
  <2>1. Alone(c)' => Alone(c)
    BY <1>1, <1>2 DEF Alone
  <2> QED
    BY <2>1, TallySame DEF Status
<1> QED
  BY <1>3, <1>4, <1>5 DEF Status

\* Objects keep their coin;  those of coin c are as they were.
CoinsKept == \A i \in Ids : pos'[i].coin = pos[i].coin

ObjectsSame(c) ==
  \A i \in Ids : pos[i].coin = c =>
    pos'[i].dir = pos[i].dir /\ pos'[i].sl = pos[i].sl /\ pos'[i].tp = pos[i].tp

\* Coroutine t goes on, task being what it is about next.
Steps(t, task) ==
  /\ tasks' = [tasks EXCEPT ![t] = task] /\ UNCHANGED <<opener, opened>>
  /\ CoinsKept

\* Which coroutine is where after it.
LEMMA StepsWhere ==
  ASSUME PMTypeOK, PMTypeOK', NEW t \in TaskNames, NEW task, Steps(t, task), NEW c
  PROVE  /\ OpenerAt(c)' <=> OpenerAt(c)
         /\ AtCoin(t, c)' <=> task.pc \in OnCoin /\ pos[task.i].coin = c
         /\ \A u \in TaskNames \ {t} : (AtCoin(u, c)' <=> AtCoin(u, c)) /\ tasks'[u] = tasks[u]
<1>1. tasks'[t] = task /\ \A u \in TaskNames \ {t} : tasks'[u] = tasks[u]
  BY DEF Steps, PMTypeOK
<1>2. \A u \in OnCoinTasks : tasks[u].i \in Ids
  BY ObjectsAre
<1>3. task.pc \in OnCoin => task.i \in Ids
  <2>1. task.pc \in OnCoin => t \in OnCoinTasks'
    BY <1>1 DEF OnCoinTasks
  <2>2. opened' \in 0 .. MaxOpens /\ \A u \in OnCoinTasks' : tasks'[u].i \in 1 .. opened'
    BY DEF PMTypeOK
  <2> QED
    BY <1>1, <2>1, <2>2, BoundsAssumption DEF Ids
<1>4. \A i \in Ids : pos'[i].coin = pos[i].coin
  BY DEF Steps, CoinsKept
<1>5. OpenerAt(c)' <=> OpenerAt(c)
  <2>1. opener' = opener /\ opened' = opened
    BY DEF Steps
  <2>2. opener.pc # "idle" => opened \in Ids
    BY ObjectsAre
  <2> QED
    BY <1>4, <2>1, <2>2 DEF OpenerAt
<1>6. AtCoin(t, c)' <=> task.pc \in OnCoin /\ pos[task.i].coin = c
  BY <1>1, <1>3, <1>4 DEF AtCoin
<1>7. ASSUME NEW u \in TaskNames \ {t} PROVE AtCoin(u, c)' <=> AtCoin(u, c)
  <2>1. tasks[u].pc \in OnCoin => tasks[u].i \in Ids
    BY <1>2 DEF OnCoinTasks
  <2> QED
    BY <1>1, <1>4, <2>1 DEF AtCoin
<1> QED
  BY <1>1, <1>5, <1>6, <1>7

\* The coins the coroutine is not at.
LEMMA StepElsewhere ==
  ASSUME PMTypeOK, PMTypeOK', NEW t \in TaskNames, NEW task, Steps(t, task),
         NEW c \in Coins, Status(c),
         ~AtCoin(t, c), ~(task.pc \in OnCoin /\ pos[task.i].coin = c),
         ObjectsSame(c),
         net'[c] = net[c], Orders(c)' = Orders(c), positions'[c] = positions[c]
  PROVE  Status(c)'
<1>1. SameFor(c)
  <2>1. positions[c] # 0 => positions[c] \in Ids /\ pos[positions[c]].coin = c
    <3>1. positions[c] # 0 => c \in Tracked
      BY DEF Tracked
    <3> QED
      BY <3>1, ObjectsAre DEF PMTypeOK
  <2> QED
    BY <2>1 DEF SameFor, ObjectsSame
<1>2. SameWorkers(c)
  <2>1. ASSUME OpenerAt(c)
        PROVE  /\ opener'.pc = opener.pc /\ opened' = opened
               /\ pos'[opened].dir = pos[opened].dir /\ pos'[opened].sl = pos[opened].sl
    <3>1. opened \in Ids /\ pos[opened].coin = c
      BY <2>1, ObjectsAre DEF OpenerAt
    <3> QED
      BY <3>1 DEF ObjectsSame, Steps
  <2> QED
    BY <2>1, StepsWhere DEF SameWorkers
<1> QED
  BY <1>1, <1>2, Untouched

\* The coin it is at, or comes to.
LEMMA StepAt ==
  ASSUME PMTypeOK, PMTypeOK', NEW t \in TaskNames, NEW task, Steps(t, task),
         NEW c, Status(c), AtCoin(t, c) \/ Alone(c),
         \/ task.pc \in OnCoin /\ pos[task.i].coin = c /\ WorkOn(t, c)'
         \/ task.pc \notin OnCoin /\ Tally(c)'
  PROVE  Status(c)'
<1>1. ~OpenerAt(c) /\ \A u \in TaskNames \ {t} : ~AtCoin(u, c)
  BY DEF Status, Lonely, Alone
<1>2. ~OpenerAt(c)' /\ \A u \in TaskNames \ {t} : ~AtCoin(u, c)'
  BY <1>1, StepsWhere
<1>3. Lonely(t, c)'
  BY <1>2 DEF Lonely
<1>4. AtCoin(t, c)' => WorkOn(t, c)'
  BY StepsWhere
<1>5. Alone(c)' => Tally(c)'
  BY StepsWhere DEF Alone
<1> QED
  BY <1>2, <1>3, <1>4, <1>5 DEF Status

\* An id an object or a coroutine had, and no id at all, are good after a step.
LEMMA OwnedOld ==
  ASSUME PMTypeOK, PMTypeOK', IdsOwned, TasksOwned, WorldKeeps
  PROVE  /\ \A x : \A i \in Ids : x \in {pos[i].sl, pos[i].tp} =>
              \A c : c = pos[i].coin => Owned(x, c)'
         /\ \A x : \A t \in OnCoinTasks : x \in {tasks[t].sl, tasks[t].tp} =>
              \A c : c = pos[tasks[t].i].coin => Owned(x, c)'
         /\ \A c : Owned(0, c)'
<1>1. ASSUME NEW i \in Ids, NEW x \in {pos[i].sl, pos[i].tp}, NEW c, c = pos[i].coin
      PROVE  Owned(x, c)'
  <2>1. x \in Nat /\ c \in Coins
    BY <1>1, ObjectsAre
  <2>2. Owned(x, c)
    BY <1>1 DEF IdsOwned
  <2> QED
    BY <2>1, <2>2 DEF WorldKeeps
<1>2. ASSUME NEW t \in OnCoinTasks, NEW x \in {tasks[t].sl, tasks[t].tp},
             NEW c, c = pos[tasks[t].i].coin
      PROVE  Owned(x, c)'
  <2>1. tasks[t] \in TaskRecord /\ tasks[t].i \in Ids
    BY ObjectsAre
  <2>2. x \in Nat /\ c \in Coins
    BY <1>2, <2>1, ObjectsAre DEF TaskRecord
  <2>3. Owned(x, c)
    BY <1>2 DEF TasksOwned
  <2> QED
    BY <2>2, <2>3 DEF WorldKeeps
<1>3. ASSUME NEW c PROVE Owned(0, c)'
  <2>1. oids' \in Nat /\ \A o \in book' : o.oid \in Nat \ {0}
    BY DEF PMTypeOK, OrderRecord
  <2> QED
    BY <2>1 DEF Owned
<1> QED
  BY <1>1, <1>2, <1>3

LEMMA ObjectsOwned ==
  ASSUME \A x, c : \A i \in Ids :
           x \in {pos'[i].sl, pos'[i].tp} /\ c = pos'[i].coin => Owned(x, c)'
  PROVE  IdsOwned'
<1> SUFFICES ASSUME NEW i \in Ids
             PROVE  (Owned(pos[i].sl, pos[i].coin) /\ Owned(pos[i].tp, pos[i].coin))'
  BY DEF IdsOwned, Ids
<1>1. ASSUME NEW x, NEW y, NEW c, x = pos'[i].sl, y = pos'[i].tp, c = pos'[i].coin
      PROVE  Owned(x, c)' /\ Owned(y, c)'
  BY <1>1
<1> QED
  BY <1>1 DEF Owned

LEMMA StepOwned ==
  ASSUME PMTypeOK, PMTypeOK', IdsOwned, TasksOwned, WorldKeeps,
         NEW t \in TaskNames, NEW task, Steps(t, task),
         task.pc \in OnCoin => \A c : \A x \in {task.sl, task.tp} :
                                 c = pos[task.i].coin => Owned(x, c)'
  PROVE  TasksOwned'
<1> SUFFICES ASSUME NEW u \in OnCoinTasks'
             PROVE  (/\ Owned(tasks[u].sl, pos[tasks[u].i].coin)
                     /\ Owned(tasks[u].tp, pos[tasks[u].i].coin))'
  BY DEF TasksOwned
<1>1. u \in TaskNames /\ tasks'[u].pc \in OnCoin
  BY DEF OnCoinTasks
<1>2. tasks'[t] = task /\ \A v \in TaskNames \ {t} : tasks'[v] = tasks[v]
  BY DEF Steps, PMTypeOK
<1>3. tasks'[u].i \in Ids
  BY BoundsAssumption DEF PMTypeOK, Ids
<1>4. pos'[tasks'[u].i].coin = pos[tasks'[u].i].coin
  BY <1>3 DEF Steps, CoinsKept
<1>5. ASSUME NEW x, NEW y, NEW c, x = tasks'[u].sl, y = tasks'[u].tp,
             c = pos[tasks'[u].i].coin
      PROVE  Owned(x, c)' /\ Owned(y, c)'
  <2>1. CASE u = t
    BY <1>1, <1>2, <1>5, <2>1
  <2>2. CASE u # t
    <3>1. tasks'[u] = tasks[u] /\ u \in OnCoinTasks
      BY <1>1, <1>2, <2>2 DEF OnCoinTasks
    <3> QED
      BY <1>5, <3>1, OwnedOld
  <2> QED
    BY <2>1, <2>2
<1> QED
  BY <1>4, <1>5 DEF Owned

----------------------------------------------------------------------------
(* The steps of update_all and emergency_close_all                         *)

\* A step of coroutine t about coin c.
LEMMA StepInv ==
  ASSUME IInv, PMTypeOK', NEW t \in TaskNames, NEW task, Steps(t, task), NEW c \in Coins,
         IdsFresh', WorldKeeps, IdsOwned',
         task.pc \in OnCoin =>
           /\ pos[task.i].coin = c
           /\ \A x \in {task.sl, task.tp} : Owned(x, c)',
         \A d \in Coins \ {c} :
           /\ ~AtCoin(t, d) /\ ObjectsSame(d)
           /\ net'[d] = net[d] /\ Orders(d)' = Orders(d) /\ positions'[d] = positions[d],
         clean' \subseteq clean,
         c \in clean' =>
           /\ AtCoin(t, c) \/ Alone(c)
           /\ \/ task.pc \in OnCoin /\ WorkOn(t, c)'
              \/ task.pc \notin OnCoin /\ Tally(c)'
  PROVE  IInv'
<1>1. PMTypeOK /\ IdsOwned /\ TasksOwned /\ clean \subseteq Coins
  BY DEF IInv, PMTypeOK
<1>2. TasksOwned'
  BY <1>1, StepOwned
<1>3. ASSUME NEW d \in clean' PROVE Status(d)'
  <2>1. d \in Coins /\ Status(d)
    BY <1>1 DEF IInv
  <2>2. CASE d = c
    BY <1>1, <1>3, <2>1, <2>2, StepAt
  <2>3. CASE d # c
    BY <1>1, <2>1, <2>3, StepElsewhere
  <2> QED
    BY <2>2, <2>3
<1> QED
  BY <1>2, <1>3 DEF IInv

\* A step between coins that changes nothing else.
LEMMA OffCoin ==
  ASSUME IInv, PMTypeOK', NEW t \in TaskNames, NEW task,
         tasks' = [tasks EXCEPT ![t] = task],
         tasks[t].pc \notin OnCoin, task.pc \notin OnCoin,
         UNCHANGED <<manager, opener, exchange>>, clean' \subseteq clean
  PROVE  IInv'
<1>1. PMTypeOK /\ IdsFresh /\ IdsOwned /\ clean \subseteq Coins
  BY DEF IInv, PMTypeOK
<1>2. UNCHANGED <<positions, pos, opened, net, book, oids>>
  BY DEF manager, exchange
<1>3. Steps(t, task)
  BY <1>2 DEF Steps, CoinsKept
<1>4. IdsFresh' /\ WorldKeeps /\ IdsOwned'
  BY <1>1, <1>2 DEF IdsFresh, WorldKeeps, IdsOwned, Owned
<1>5. ASSUME NEW d
      PROVE  /\ ~AtCoin(t, d) /\ ObjectsSame(d)
             /\ net'[d] = net[d] /\ Orders(d)' = Orders(d) /\ positions'[d] = positions[d]
  BY <1>2 DEF AtCoin, ObjectsSame, Orders
<1>6. TasksOwned'
  BY <1>1, <1>3, <1>4, StepOwned DEF IInv
<1>7. ASSUME NEW d \in clean' PROVE Status(d)'
  BY <1>1, <1>3, <1>5, StepElsewhere DEF IInv
<1> QED
  BY <1>4, <1>6, <1>7 DEF IInv

\* What the invariant says of the coroutine at its coin.
LEMMA AtIs ==
  ASSUME IInv, NEW t \in TaskNames, tasks[t].pc \in OnCoin,
         NEW c, c = pos[tasks[t].i].coin
  PROVE  /\ c \in Coins /\ AtCoin(t, c) /\ \A d \in Coins \ {c} : ~AtCoin(t, d)
         /\ Owned(tasks[t].sl, c) /\ Owned(tasks[t].tp, c)
         /\ tasks[t].i \in Ids
         /\ c \in clean => Status(c) /\ WorkOn(t, c)
<1>1. t \in OnCoinTasks /\ PMTypeOK /\ TasksOwned
  BY DEF OnCoinTasks, IInv
<1>2. c \in Coins /\ tasks[t].i \in Ids
  BY <1>1, ObjectsAre
<1>3. AtCoin(t, c) /\ \A d \in Coins \ {c} : ~AtCoin(t, d)
  BY DEF AtCoin
<1>4. Owned(tasks[t].sl, c) /\ Owned(tasks[t].tp, c)
  BY <1>1 DEF TasksOwned
<1> QED
  BY <1>2, <1>3, <1>4 DEF IInv, Status

\* Of the two orders of a position one is left when the other is cancelled.
LEMMA OneLeft ==
  ASSUME IdsFresh, NEW c, Tally(c), positions[c] # 0, NEW p, p = pos[positions[c]]
  PROVE  /\ \A o : o \in Orders(c) /\ o.oid # p.sl <=> o = TargetOf(c, p)
         /\ net[c] = p.dir /\ p.tp # 0
<1>1. Orders(c) = {StopOf(c, p), TargetOf(c, p)} /\ net[c] = p.dir /\ p.tp # 0
  BY DEF Tally, StopOf, TargetOf
<1>2. StopOf(c, p).oid = p.sl /\ TargetOf(c, p).oid = p.tp /\ StopOf(c, p) # TargetOf(c, p)
  <2>1. StopOf(c, p).kind = "stop" /\ TargetOf(c, p).kind = "target"
    BY DEF StopOf, TargetOf
  <2> QED
    BY <2>1 DEF StopOf, TargetOf
<1>3. StopOf(c, p) \in book /\ TargetOf(c, p) \in book
  BY <1>1 DEF Orders
<1>4. p.sl # p.tp
  BY <1>2, <1>3 DEF IdsFresh
<1> QED
  BY <1>1, <1>2, <1>4

LEMMA CloseCancelsInv ==
  ASSUME IInv, PMTypeOK', NEW t \in TaskNames, CloseCancels(t) PROVE IInv'
<1>1. PICK now, c, x, task :
        /\ now = tasks[t] /\ c = pos[now.i].coin
        /\ x = IF now.pc = "cancel_sl" THEN now.sl ELSE now.tp
        /\ task = [now EXCEPT !.pc = IF now.pc = "cancel_sl" /\ now.tp # 0
                                       THEN "cancel_tp" ELSE "market"]
  OBVIOUS
<1>2. /\ PMTypeOK /\ IdsFresh /\ IdsOwned /\ TasksOwned
      /\ now.pc \in {"cancel_sl", "cancel_tp"} /\ tasks[t].pc \in OnCoin
      /\ tasks' = [tasks EXCEPT ![t] = task] /\ UNCHANGED <<positions, pos, opened, opener>>
      /\ CancelAnswer(x) /\ Spoils(c, faults' = faults)
  BY <1>1 DEF CloseCancels, manager, IInv, OnCoin
<1>3. /\ c \in Coins /\ AtCoin(t, c) /\ \A d \in Coins \ {c} : ~AtCoin(t, d)
      /\ Owned(now.sl, c) /\ Owned(now.tp, c) /\ now.i \in Ids
      /\ c \in clean => WorkOn(t, c)
  BY <1>1, <1>2, AtIs
<1>4. /\ IdsFresh' /\ WorldKeeps /\ net' = net
      /\ \A d \in Coins \ {c} : Orders(d)' = Orders(d)
      /\ faults' = faults => Orders(c)' = {o \in Orders(c) : o.oid # x}
  <2>1. Owned(x, c)
    BY <1>1, <1>3
  <2> QED
    BY <1>2, <1>3, <2>1, CancelIds
<1>5. /\ task.i = now.i /\ task.sl = now.sl /\ task.tp = now.tp
      /\ task.pc = IF now.pc = "cancel_sl" /\ now.tp # 0 THEN "cancel_tp" ELSE "market"
  <2>1. now \in TaskRecord
    BY <1>1, <1>2, ObjectsAre
  <2> QED
    BY <1>1, <2>1 DEF TaskRecord
<1>6. tasks'[t] = task /\ task.pc \in OnCoin /\ pos[task.i].coin = c
  BY <1>1, <1>2, <1>5 DEF PMTypeOK, OnCoin
<1>7. Steps(t, task)
  BY <1>2 DEF Steps, CoinsKept
<1>8. IdsOwned'
  BY <1>2, <1>4, OwnedOld, ObjectsOwned
<1>9. \A y \in {task.sl, task.tp} : Owned(y, c)'
  <2>1. t \in OnCoinTasks
    BY <1>2 DEF OnCoinTasks
  <2> QED
    BY <1>1, <1>2, <1>4, <1>5, <2>1, OwnedOld
<1>10. ASSUME c \in clean' PROVE (AtCoin(t, c) \/ Alone(c)) /\ WorkOn(t, c)'
  <2>1. c \in clean /\ faults' = faults
    BY <1>2, <1>10 DEF Spoils
  <2>2. WorkOn(t, c)
    BY <1>3, <2>1
  <2>3. PICK i, p : i = positions[c] /\ p = pos[i]
    OBVIOUS
  <2>4. i # 0 /\ i = now.i
    BY <1>1, <2>2, <2>3 DEF WorkOn
  <2>5. positions'[c] = i /\ pos'[i] = p /\ net'[c] = net[c]
    BY <1>2, <1>4, <2>3
  <2>6. CASE now.pc = "cancel_sl"
    <3>1. Tally(c) /\ x = p.sl /\ now.tp = p.tp
      BY <1>1, <2>2, <2>3, <2>6 DEF WorkOn
    <3>2. Orders(c)' = {TargetOf(c, p)} /\ net[c] = p.dir /\ p.tp # 0
      <4>1. /\ \A o : o \in Orders(c) /\ o.oid # p.sl <=> o = TargetOf(c, p)
            /\ net[c] = p.dir /\ p.tp # 0
        <5>1. IdsFresh /\ Tally(c) /\ positions[c] # 0 /\ p = pos[positions[c]]
          BY <1>2, <2>3, <2>4, <3>1
        <5> QED
          BY <5>1, OneLeft
      <4> QED
        BY <1>4, <2>1, <3>1, <4>1
    <3>3. task.pc = "cancel_tp"
      BY <1>5, <2>6, <3>1, <3>2
    <3> QED
      BY <1>3, <1>5, <1>6, <2>4, <2>5, <3>1, <3>2, <3>3 DEF WorkOn, TargetOf
  <2>7. CASE now.pc = "cancel_tp"
    <3>1. Orders(c) = {TargetOf(c, p)} /\ net[c] = p.dir /\ x = p.tp
      BY <1>1, <2>2, <2>3, <2>7 DEF WorkOn
    <3>2. TargetOf(c, p).oid = p.tp
      BY DEF TargetOf
    <3>3. Orders(c)' = {}
      BY <1>4, <2>1, <3>1, <3>2
    <3>4. task.pc = "market"
      BY <1>5, <2>7
    <3> QED
      BY <1>3, <1>5, <1>6, <2>4, <2>5, <3>1, <3>3, <3>4 DEF WorkOn
  <2> QED
    BY <1>2, <2>6, <2>7
<1>11. \A d \in Coins \ {c} :
         /\ ~AtCoin(t, d) /\ ObjectsSame(d)
         /\ net'[d] = net[d] /\ Orders(d)' = Orders(d) /\ positions'[d] = positions[d]
  BY <1>2, <1>3, <1>4 DEF ObjectsSame
<1>12. clean' \subseteq clean
  BY <1>2 DEF Spoils
<1> QED
  BY <1>3, <1>4, <1>6, <1>7, <1>8, <1>9, <1>10, <1>11, <1>12, StepInv

LEMMA CloseTradesInv ==
  ASSUME IInv, PMTypeOK', NEW t \in TaskNames, NEW answer, CloseTrades(t, answer) PROVE IInv'
<1>1. PICK now, c, p, task :
        /\ now = tasks[t] /\ p = pos[now.i] /\ c = p.coin
        /\ task = IF Raises(answer) THEN Resume(t, TRUE) ELSE [now EXCEPT !.pc = "mids"]
  OBVIOUS
<1>2. /\ PMTypeOK /\ IdsFresh /\ IdsOwned /\ TasksOwned
      /\ now.pc = "market" /\ tasks[t].pc \in OnCoin
      /\ tasks' = [tasks EXCEPT ![t] = task] /\ UNCHANGED <<positions, pos, opened, opener>>
      /\ Answer(c, -p.dir, {}, answer) /\ Spoils(c, answer = "ok")
  BY <1>1 DEF CloseTrades, manager, IInv, OnCoin
<1>3. /\ c \in Coins /\ AtCoin(t, c) /\ \A d \in Coins \ {c} : ~AtCoin(t, d)
      /\ now.i \in Ids
      /\ c \in clean => WorkOn(t, c)
  BY <1>1, <1>2, AtIs
<1>4. /\ IdsFresh' /\ WorldKeeps
      /\ \A d \in Coins \ {c} : net'[d] = net[d] /\ Orders(d)' = Orders(d)
      /\ answer = "ok" => Orders(c)' = Orders(c) \cup {} /\ net' = [net EXCEPT ![c] = @ - p.dir]
  <2>1. PICK size : size = -p.dir
    OBVIOUS
  <2>2. /\ IdsFresh' /\ WorldKeeps
        /\ \A d \in Coins \ {c} : net'[d] = net[d] /\ Orders(d)' = Orders(d)
        /\ answer = "ok" => Orders(c)' = Orders(c) \cup {}
        /\ answer = "ok" => net' = [net EXCEPT ![c] = @ + size]
    <3>1. PMTypeOK /\ IdsFresh /\ c \in Coins /\ Answer(c, size, {}, answer)
      BY <1>2, <1>3, <2>1
    <3> QED
      BY <3>1, AnswerIds
  <2>3. p.dir \in Int /\ net[c] \in Int
    BY <1>1, <1>3, <1>2, ObjectsAre DEF PMTypeOK
  <2> QED
    BY <2>1, <2>2, <2>3
<1>5. /\ Raises(answer) => task.pc \notin OnCoin
      /\ ~Raises(answer) => task.i = now.i /\ task.sl = now.sl /\ task.tp = now.tp /\ task.pc = "mids"
  <2>1. now \in TaskRecord
    BY <1>1, <1>2, ObjectsAre
  <2>2. Resume(t, TRUE).pc \notin OnCoin
    BY <1>2, TypeParts, ResumeIs
  <2> QED
    BY <1>1, <2>1, <2>2 DEF TaskRecord
<1>6. task.pc \in OnCoin => ~Raises(answer) /\ pos[task.i].coin = c
  BY <1>1, <1>2, <1>5 DEF PMTypeOK
<1>7. Steps(t, task) /\ tasks'[t] = task
  BY <1>2 DEF Steps, CoinsKept, PMTypeOK
<1>8. IdsOwned'
  BY <1>2, <1>4, OwnedOld, ObjectsOwned
<1>9. ~Raises(answer) => \A y \in {task.sl, task.tp} : Owned(y, c)'
  <2>1. t \in OnCoinTasks
    BY <1>2 DEF OnCoinTasks
  <2> QED
    BY <1>1, <1>2, <1>4, <1>5, <2>1, OwnedOld
<1>10. ASSUME c \in clean' PROVE AtCoin(t, c) /\ task.pc \in OnCoin /\ WorkOn(t, c)'
  <2>1. c \in clean /\ answer = "ok" /\ ~Raises(answer)
    BY <1>2, <1>10 DEF Spoils, Raises
  <2>2. WorkOn(t, c)
    BY <1>3, <2>1
  <2>3. PICK i : i = positions[c]
    OBVIOUS
  <2>4. i # 0 /\ i = now.i /\ net[c] = p.dir /\ Orders(c) = {}
    BY <1>1, <1>2, <2>2, <2>3 DEF WorkOn
  <2>5. positions'[c] = i /\ pos'[i] = p
    BY <1>1, <1>2, <2>3, <2>4
  <2>6. net'[c] = 0 /\ Orders(c)' = {}
    <3>1. p.dir \in Int /\ net \in [Coins -> Int]
      BY <1>1, <1>3, <1>2, ObjectsAre DEF PMTypeOK
    <3> QED
      BY <1>3, <1>4, <2>1, <2>4, <3>1
  <2>7. task.pc = "mids" /\ task.i = now.i /\ task.pc \in OnCoin
    BY <1>5, <2>1 DEF OnCoin
  <2>8. WorkOn(t, c)'
    BY <1>3, <1>7, <2>4, <2>5, <2>6, <2>7 DEF WorkOn
  <2> QED
    BY <1>3, <2>7, <2>8
<1>11. \A d \in Coins \ {c} :
         /\ ~AtCoin(t, d) /\ ObjectsSame(d)
         /\ net'[d] = net[d] /\ Orders(d)' = Orders(d) /\ positions'[d] = positions[d]
  BY <1>2, <1>3, <1>4 DEF ObjectsSame
<1>12. clean' \subseteq clean
  BY <1>2 DEF Spoils
<1> QED
  BY <1>3, <1>4, <1>6, <1>7, <1>8, <1>9, <1>10, <1>11, <1>12, StepInv

LEMMA CloseMidsRaiseInv ==
  ASSUME IInv, PMTypeOK', NEW t \in TaskNames, CloseMidsRaise(t) PROVE IInv'
<1>1. PICK c, task : c = pos[tasks[t].i].coin /\ task = Resume(t, TRUE)
  OBVIOUS
<1>2. /\ PMTypeOK /\ IdsFresh /\ IdsOwned /\ TasksOwned /\ tasks[t].pc \in OnCoin
      /\ tasks' = [tasks EXCEPT ![t] = task]
      /\ UNCHANGED <<positions, pos, opened, opener, net, book, oids>>
      /\ clean' = clean \ {c}
  BY <1>1 DEF CloseMidsRaise, manager, exchange, IInv, OnCoin, Spoils
<1>3. c \in Coins /\ \A d \in Coins \ {c} : ~AtCoin(t, d)
  BY <1>1, <1>2, AtIs
<1>4. task.pc \notin OnCoin
  BY <1>1, <1>2, TypeParts, ResumeIs
<1>5. Steps(t, task)
  BY <1>2 DEF Steps, CoinsKept
<1>6. IdsFresh' /\ WorldKeeps /\ IdsOwned'
  BY <1>2 DEF IdsFresh, WorldKeeps, IdsOwned, Owned
<1>7. \A d \in Coins \ {c} :
         /\ ~AtCoin(t, d) /\ ObjectsSame(d)
         /\ net'[d] = net[d] /\ Orders(d)' = Orders(d) /\ positions'[d] = positions[d]
  BY <1>2, <1>3 DEF ObjectsSame, Orders
<1> QED
  BY <1>2, <1>3, <1>4, <1>5, <1>6, <1>7, StepInv

LEMMA CloseDeletesInv ==
  ASSUME IInv, PMTypeOK', NEW t \in TaskNames, CloseDeletes(t) PROVE IInv'
<1>1. PICK c, i, task :
        c = pos[tasks[t].i].coin /\ i = positions[c] /\ task = Resume(t, i = 0)
  OBVIOUS
<1>2. /\ PMTypeOK /\ IdsFresh /\ IdsOwned /\ TasksOwned
      /\ tasks[t].pc = "mids" /\ tasks[t].pc \in OnCoin
      /\ tasks' = [tasks EXCEPT ![t] = task]
      /\ positions' = [positions EXCEPT ![c] = 0] /\ pos' = Forgotten(i)
      /\ UNCHANGED <<opened, opener, net, book, oids, clean>>
  BY <1>1 DEF CloseDeletes, exchange, IInv, OnCoin
<1>3. /\ c \in Coins /\ AtCoin(t, c) /\ \A d \in Coins \ {c} : ~AtCoin(t, d)
      /\ c \in clean => WorkOn(t, c)
  BY <1>1, <1>2, AtIs
<1>4. task.pc \notin OnCoin
  BY <1>1, <1>2, TypeParts, ResumeIs
<1>5. i # 0 => i \in Ids /\ pos[i].coin = c
  <2>1. i # 0 => c \in Tracked
    BY <1>1, <1>3 DEF Tracked
  <2> QED
    BY <1>1, <1>2, <2>1, ObjectsAre DEF PMTypeOK
<1>6. \A j \in Ids :
        /\ j = i => pos'[j].coin = pos[j].coin /\ pos'[j].sl = 0 /\ pos'[j].tp = 0
        /\ j # i => pos'[j] = pos[j]
  BY <1>2 DEF Forgotten, Unused
<1>7. Steps(t, task)
  BY <1>2, <1>6 DEF Steps, CoinsKept
<1>8. IdsFresh' /\ WorldKeeps
  BY <1>2 DEF IdsFresh, WorldKeeps, Owned
<1>9. IdsOwned'
  <2>1. ASSUME NEW j \in Ids, NEW x, NEW d, x \in {pos'[j].sl, pos'[j].tp}, d = pos'[j].coin
        PROVE  Owned(x, d)'
    <3>1. d = pos[j].coin /\ (x = 0 \/ x \in {pos[j].sl, pos[j].tp})
      BY <1>6, <2>1
    <3> QED
      BY <1>2, <1>8, <3>1, OwnedOld
  <2> QED
    BY <2>1, ObjectsOwned
<1>10. \A d \in Coins \ {c} :
         /\ ~AtCoin(t, d) /\ ObjectsSame(d)
         /\ net'[d] = net[d] /\ Orders(d)' = Orders(d) /\ positions'[d] = positions[d]
  <2>1. \A d \in Coins \ {c} : ObjectsSame(d)
    <3>1. 0 \notin Ids
      BY DEF Ids
    <3>2. \A j \in Ids : pos[j].coin # c => j # i
      BY <1>5, <3>1
    <3> QED
      BY <1>6, <3>2 DEF ObjectsSame
  <2> QED
    BY <1>2, <1>3, <2>1 DEF Orders, PMTypeOK
<1>11. ASSUME c \in clean' PROVE Tally(c)'
  <2>1. net[c] = 0 /\ Orders(c) = {}
    BY <1>2, <1>3, <1>11 DEF WorkOn
  <2>2. net'[c] = 0 /\ Orders(c)' = {}
    BY <1>2, <2>1 DEF Orders
  <2>3. positions'[c] = 0
    BY <1>2, <1>3 DEF PMTypeOK
  <2> QED
    BY <2>2, <2>3 DEF Tally
<1> QED
  BY <1>2, <1>3, <1>4, <1>7, <1>8, <1>9, <1>10, <1>11, StepInv

LEMMA ClosingInv ==
  ASSUME IInv, PMTypeOK', NEW t \in TaskNames, Closing(t) PROVE IInv'
BY CloseCancelsInv, CloseTradesInv, CloseDeletesInv, CloseMidsRaiseInv DEF Closing

\* A coroutine turns to coin c, and to object i of it.
LEMMA EnterInv ==
  ASSUME IInv, PMTypeOK', NEW t \in TaskNames, NEW c \in Coins, NEW i, NEW task,
         i = positions[c], i # 0,
         task.i = i, task.pc \in OnCoin, task.sl = pos[i].sl, task.tp \in {0, pos[i].tp},
         pos[i].sl # 0 => task.pc \in {"cancel_old", "cancel_sl"},
         task.pc = "cancel_sl" => task.tp = pos[i].tp,
         tasks[t].pc \notin OnCoin, tasks' = [tasks EXCEPT ![t] = task],
         UNCHANGED <<manager, opener, exchange>>, Enters(c)
  PROVE  IInv'
<1>1. /\ PMTypeOK /\ IdsFresh /\ IdsOwned /\ TasksOwned
      /\ UNCHANGED <<positions, pos, opened, opener, net, book, oids>>
  BY DEF manager, exchange, IInv
<1>2. i \in Ids /\ pos[task.i].coin = c
  <2>1. c \in Tracked
    BY DEF Tracked
  <2> QED
    BY <1>1, <2>1, ObjectsAre DEF PMTypeOK
<1>3. Steps(t, task) /\ tasks'[t] = task
  BY <1>1 DEF Steps, CoinsKept, PMTypeOK
<1>4. IdsFresh' /\ WorldKeeps /\ IdsOwned'
  BY <1>1 DEF IdsFresh, WorldKeeps, IdsOwned, Owned
<1>5. \A x \in {task.sl, task.tp} : Owned(x, c)'
  <2>1. \A x \in {task.sl, task.tp} : x = 0 \/ x \in {pos[i].sl, pos[i].tp}
    OBVIOUS
  <2>2. c = pos[i].coin
    BY <1>2
  <2> QED
    BY <1>1, <1>2, <1>4, <2>1, <2>2, OwnedOld
<1>6. \A d \in Coins \ {c} :
         /\ ~AtCoin(t, d) /\ ObjectsSame(d)
         /\ net'[d] = net[d] /\ Orders(d)' = Orders(d) /\ positions'[d] = positions[d]
  BY <1>1 DEF ObjectsSame, Orders, AtCoin
<1>7. clean' \subseteq clean
  BY DEF Enters
<1>8. ASSUME c \in clean' PROVE Alone(c) /\ WorkOn(t, c)'
  <2>1. c \in clean /\ c \notin Busy
    BY <1>8 DEF Enters
  <2>2. Alone(c)
    BY <2>1, BusyIs
  <2>3. Tally(c)
    BY <2>1, <2>2 DEF IInv, Status
  <2>4. PICK p : p = pos[i]
    OBVIOUS
  <2>5. p.sl # 0
    BY <2>3, <2>4 DEF Tally
  <2>6. SameFor(c)
    BY <1>1 DEF SameFor, Orders
  <2>7. Tally(c)'
    BY <2>3, <2>6, TallySame
  <2>8. positions'[c] = i /\ pos'[i] = p
    BY <1>1, <2>4
  <2>9. task.pc \in {"cancel_old", "cancel_sl"} /\ task.sl = p.sl
        /\ (task.pc = "cancel_sl" => task.tp = p.tp)
    BY <2>4, <2>5
  <2>10. WorkOn(t, c)'
    BY <1>3, <2>7, <2>8, <2>9 DEF WorkOn
  <2> QED
    BY <2>2, <2>10
<1> QED
  BY <1>2, <1>3, <1>4, <1>5, <1>6, <1>7, <1>8, StepInv

LEMMA UpdateVisitsInv ==
  ASSUME IInv, PMTypeOK', NEW c \in Coins, UpdateVisits(c) PROVE IInv'
<1>1. PICK i, rest : i = positions[c] /\ rest = Task("next", Updater.coins \ {c})
  OBVIOUS
<1>2. /\ "updater" \in TaskNames /\ tasks["updater"].pc \notin OnCoin
      /\ UNCHANGED <<manager, opener, exchange>>
  BY DEF UpdateVisits, TaskNames, Updater, OnCoin
<1>3. \/ /\ TrailDue(i)
         /\ tasks' = [tasks EXCEPT !["updater"] =
              [rest EXCEPT !.i = i, !.sl = pos[i].sl,
                           !.pc = IF pos[i].sl # 0 THEN "cancel_old" ELSE "place_stop"]]
         /\ Enters(c)
      \/ /\ TimeoutDue(i)
         /\ tasks' = [tasks EXCEPT !["updater"] =
              [ClosePosition("updater", i) EXCEPT !.coins = rest.coins]]
         /\ Enters(c)
      \/ tasks' = [tasks EXCEPT !["updater"] = rest] /\ UNCHANGED clean
  BY <1>1 DEF UpdateVisits
<1>4. CASE /\ TrailDue(i)
           /\ tasks' = [tasks EXCEPT !["updater"] =
                [rest EXCEPT !.i = i, !.sl = pos[i].sl,
                             !.pc = IF pos[i].sl # 0 THEN "cancel_old" ELSE "place_stop"]]
           /\ Enters(c)
  <2>1. PICK task :
          task = [rest EXCEPT !.i = i, !.sl = pos[i].sl,
                              !.pc = IF pos[i].sl # 0 THEN "cancel_old" ELSE "place_stop"]
    OBVIOUS
  <2>2. /\ task.i = i /\ task.pc \in OnCoin /\ task.sl = pos[i].sl /\ task.tp = 0
        /\ task.pc = IF pos[i].sl # 0 THEN "cancel_old" ELSE "place_stop"
    BY <1>1, <2>1 DEF Task, OnCoin
  <2>3. i # 0 /\ task.pc # "cancel_sl"
    BY <1>4, <2>2 DEF TrailDue
  <2>4. tasks' = [tasks EXCEPT !["updater"] = task]
    BY <1>4, <2>1
  <2> QED
    BY <1>1, <1>2, <1>4, <2>2, <2>3, <2>4, EnterInv
<1>5. CASE /\ TimeoutDue(i)
           /\ tasks' = [tasks EXCEPT !["updater"] =
                [ClosePosition("updater", i) EXCEPT !.coins = rest.coins]]
           /\ Enters(c)
  <2>1. PICK task : task = [ClosePosition("updater", i) EXCEPT !.coins = rest.coins]
    OBVIOUS
  <2>2. /\ task.i = i /\ task.pc \in OnCoin /\ task.sl = pos[i].sl /\ task.tp = pos[i].tp
        /\ pos[i].sl # 0 => task.pc = "cancel_sl"
    BY <2>1 DEF ClosePosition, Task, OnCoin
  <2>3. i # 0
    BY <1>5 DEF TimeoutDue
  <2>4. tasks' = [tasks EXCEPT !["updater"] = task]
    BY <1>5, <2>1
  <2> QED
    BY <1>1, <1>2, <1>5, <2>2, <2>3, <2>4, EnterInv
<1>6. CASE tasks' = [tasks EXCEPT !["updater"] = rest] /\ UNCHANGED clean
  <2>1. rest.pc \notin OnCoin
    BY <1>1 DEF Task, OnCoin
  <2> QED
    BY <1>2, <1>6, <2>1, OffCoin
<1> QED
  BY <1>3, <1>4, <1>5, <1>6

LEMMA OldStopCancelledInv ==
  ASSUME IInv, PMTypeOK', OldStopCancelled PROVE IInv'
<1>1. PICK now, t, c, x, task :
        /\ t = "updater" /\ now = tasks[t] /\ c = pos[now.i].coin /\ x = now.sl
        /\ task = [now EXCEPT !.pc = "place_stop"]
  OBVIOUS
<1>2. /\ PMTypeOK /\ IdsFresh /\ IdsOwned /\ TasksOwned
      /\ t \in TaskNames /\ now.pc = "cancel_old" /\ tasks[t].pc \in OnCoin
      /\ tasks' = [tasks EXCEPT ![t] = task] /\ UNCHANGED <<positions, pos, opened, opener>>
      /\ CancelAnswer(x) /\ Spoils(c, faults' = faults)
  BY <1>1 DEF OldStopCancelled, Updater, manager, IInv, OnCoin, TaskNames
<1>3. /\ c \in Coins /\ AtCoin(t, c) /\ \A d \in Coins \ {c} : ~AtCoin(t, d)
      /\ Owned(now.sl, c) /\ now.i \in Ids
      /\ c \in clean => WorkOn(t, c)
  BY <1>1, <1>2, AtIs
<1>4. /\ IdsFresh' /\ WorldKeeps /\ net' = net
      /\ \A d \in Coins \ {c} : Orders(d)' = Orders(d)
      /\ faults' = faults => Orders(c)' = {o \in Orders(c) : o.oid # x}
  <2>1. Owned(x, c)
    BY <1>1, <1>3
  <2> QED
    BY <1>2, <1>3, <2>1, CancelIds
<1>5. task.i = now.i /\ task.sl = now.sl /\ task.tp = now.tp /\ task.pc = "place_stop"
  <2>1. now \in TaskRecord
    BY <1>1, <1>2, ObjectsAre
  <2> QED
    BY <1>1, <2>1 DEF TaskRecord
<1>6. task.pc \in OnCoin /\ pos[task.i].coin = c
  BY <1>1, <1>5 DEF OnCoin
<1>7. Steps(t, task) /\ tasks'[t] = task
  BY <1>2 DEF Steps, CoinsKept, PMTypeOK
<1>8. IdsOwned'
  BY <1>2, <1>4, OwnedOld, ObjectsOwned
<1>9. \A y \in {task.sl, task.tp} : Owned(y, c)'
  <2>1. t \in OnCoinTasks
    BY <1>2 DEF OnCoinTasks
  <2> QED
    BY <1>1, <1>2, <1>4, <1>5, <2>1, OwnedOld
<1>10. ASSUME c \in clean' PROVE AtCoin(t, c) /\ WorkOn(t, c)'
  <2>1. c \in clean /\ faults' = faults
    BY <1>2, <1>10 DEF Spoils
  <2>2. WorkOn(t, c)
    BY <1>3, <2>1
  <2>3. PICK i, p : i = positions[c] /\ p = pos[i]
    OBVIOUS
  <2>4. i # 0 /\ i = now.i
    BY <1>1, <2>2, <2>3 DEF WorkOn
  <2>5. positions'[c] = i /\ pos'[i] = p /\ net'[c] = net[c]
    BY <1>2, <1>4, <2>3
  <2>6. Tally(c) /\ x = p.sl
    BY <1>1, <1>2, <2>2, <2>3 DEF WorkOn
  <2>7. Orders(c)' = {TargetOf(c, p)} /\ net[c] = p.dir /\ p.tp # 0
    <3>1. IdsFresh /\ positions[c] # 0 /\ p = pos[positions[c]]
      BY <1>2, <2>3, <2>4
    <3>2. /\ \A o : o \in Orders(c) /\ o.oid # p.sl <=> o = TargetOf(c, p)
          /\ net[c] = p.dir /\ p.tp # 0
      BY <2>6, <3>1, OneLeft
    <3> QED
      BY <1>4, <2>1, <2>6, <3>2
  <2>8. WorkOn(t, c)'
    BY <1>5, <1>7, <2>4, <2>5, <2>7 DEF WorkOn, TargetOf
  <2> QED
    BY <1>3, <2>8
<1>11. \A d \in Coins \ {c} :
         /\ ~AtCoin(t, d) /\ ObjectsSame(d)
         /\ net'[d] = net[d] /\ Orders(d)' = Orders(d) /\ positions'[d] = positions[d]
  BY <1>2, <1>3, <1>4 DEF ObjectsSame
<1>12. clean' \subseteq clean
  BY <1>2 DEF Spoils
<1> QED
  BY <1>2, <1>3, <1>4, <1>6, <1>7, <1>8, <1>9, <1>10, <1>11, <1>12, StepInv

LEMMA NewStopAnsweredInv ==
  ASSUME IInv, PMTypeOK', NEW answer, NewStopAnswered(answer) PROVE IInv'
<1>1. PICK t, i, p, c, order, task :
        /\ t = "updater" /\ i = tasks[t].i /\ p = pos[i] /\ c = p.coin
        /\ order = Order(c, "stop", p.dir)
        /\ task = IF Raises(answer) THEN Task("idle", {}) ELSE Task("next", tasks[t].coins)
  OBVIOUS
<1>2. /\ PMTypeOK /\ IdsFresh /\ IdsOwned /\ TasksOwned
      /\ t \in TaskNames /\ tasks[t].pc = "place_stop" /\ tasks[t].pc \in OnCoin
      /\ tasks' = [tasks EXCEPT ![t] = task] /\ UNCHANGED <<positions, opened, opener>>
      /\ IF Raises(answer) THEN pos' = pos ELSE pos' = Trails(i, answer)
      /\ Answer(c, 0, order, answer) /\ Spoils(c, answer = "ok")
  BY <1>1 DEF NewStopAnswered, Updater, IInv, OnCoin, TaskNames
<1>3. /\ c \in Coins /\ AtCoin(t, c) /\ \A d \in Coins \ {c} : ~AtCoin(t, d)
      /\ i \in Ids
      /\ c \in clean => WorkOn(t, c)
  BY <1>1, <1>2, AtIs
<1>4. /\ IdsFresh' /\ WorldKeeps
      /\ \A x : x = OrderId(answer) => Owned(x, c)'
      /\ \A d \in Coins \ {c} : net'[d] = net[d] /\ Orders(d)' = Orders(d)
      /\ answer = "ok" => Orders(c)' = Orders(c) \cup order
      /\ answer = "ok" => net' = [net EXCEPT ![c] = @ + 0]
  <2>1. order # {}
    BY <1>1 DEF Order
  <2>2. PMTypeOK /\ IdsFresh /\ c \in Coins /\ Answer(c, 0, order, answer)
        /\ \E kind, dir : order = Order(c, kind, dir)
    BY <1>1, <1>2, <1>3
  <2> QED
    BY <2>1, <2>2, AnswerIds
<1>5. task.pc \notin OnCoin
  BY <1>1 DEF Task, OnCoin
<1>6. PICK x : x = OrderId(answer)
  OBVIOUS
<1>7. /\ \A j \in Ids : j # i => pos'[j] = pos[j]
      /\ pos'[i].coin = c /\ pos'[i].dir = p.dir /\ pos'[i].tp = p.tp
      /\ pos'[i].sl = IF Raises(answer) THEN p.sl ELSE x
  <2>1. p \in PositionRecord /\ pos \in [Ids -> PositionRecord]
    BY <1>1, <1>2, <1>3 DEF PMTypeOK
  <2>2. CASE Raises(answer)
    BY <1>1, <1>2, <2>2
  <2>3. CASE ~Raises(answer)
    <3>1. pos' = [pos EXCEPT ![i] = [p EXCEPT !.sl = x, !.trailed = TRUE]]
      BY <1>1, <1>2, <1>3, <1>6, <2>1, <2>3 DEF Trails, PositionRecord
    <3> QED
      BY <1>1, <1>3, <2>1, <2>3, <3>1 DEF PositionRecord
  <2> QED
    BY <2>2, <2>3
<1>8. Steps(t, task)
  BY <1>1, <1>2, <1>7 DEF Steps, CoinsKept
<1>9. IdsOwned'
  <2>1. ASSUME NEW j \in Ids, NEW y, NEW d, y \in {pos'[j].sl, pos'[j].tp}, d = pos'[j].coin
        PROVE  Owned(y, d)'
    <3>1. d = pos[j].coin /\ (y \in {pos[j].sl, pos[j].tp} \/ (d = c /\ y = x))
      BY <1>1, <1>7, <2>1
    <3> QED
      BY <1>2, <1>4, <1>6, <3>1, OwnedOld
  <2> QED
    BY <2>1, ObjectsOwned
<1>10. \A d \in Coins \ {c} :
         /\ ~AtCoin(t, d) /\ ObjectsSame(d)
         /\ net'[d] = net[d] /\ Orders(d)' = Orders(d) /\ positions'[d] = positions[d]
  BY <1>1, <1>2, <1>3, <1>4, <1>7 DEF ObjectsSame
<1>11. ASSUME c \in clean' PROVE AtCoin(t, c) /\ Tally(c)'
  <2>1. c \in clean /\ answer = "ok" /\ ~Raises(answer) /\ x = oids + 1
    BY <1>2, <1>6, <1>11 DEF Spoils, Raises, OrderId
  <2>2. WorkOn(t, c)
    BY <1>3, <2>1
  <2>3. /\ positions[c] = i /\ i # 0 /\ net[c] = p.dir /\ p.tp # 0
        /\ Orders(c) = {TargetOf(c, p)}
    BY <1>1, <1>2, <2>2 DEF WorkOn
  <2>4. order = {[oid |-> x, coin |-> c, kind |-> "stop", dir |-> p.dir]}
    BY <1>1, <2>1 DEF Order
  <2>5. Orders(c)' = {[oid |-> x, coin |-> c, kind |-> "stop", dir |-> p.dir],
                      [oid |-> p.tp, coin |-> c, kind |-> "target", dir |-> p.dir]}
    BY <1>4, <2>1, <2>3, <2>4 DEF TargetOf
  <2>6. net'[c] = p.dir
    <3>1. net[c] \in Int /\ net \in [Coins -> Int]
      BY <1>2, <1>3 DEF PMTypeOK
    <3> QED
      BY <1>3, <1>4, <2>1, <2>3, <3>1
  <2>7. x # 0
    BY <1>2, <2>1 DEF PMTypeOK
  <2>8. positions'[c] = i
    BY <1>2, <2>3
  <2>9. Tally(c)'
    BY <1>7, <2>1, <2>3, <2>5, <2>6, <2>7, <2>8 DEF Tally
  <2> QED
    BY <1>3, <2>9
<1>12. clean' \subseteq clean
  BY <1>2 DEF Spoils
<1> QED
  BY <1>2, <1>3, <1>4, <1>5, <1>8, <1>9, <1>10, <1>11, <1>12, StepInv

LEMMA UpdatingInv ==
  ASSUME IInv, PMTypeOK', Updating PROVE IInv'
<1>1. "updater" \in TaskNames
  BY DEF TaskNames
<1>2. CASE UpdateAll
  <2>1. PICK task : task = Task("next", Tracked)
    OBVIOUS
  <2>2. tasks["updater"].pc \notin OnCoin /\ task.pc \notin OnCoin
    BY <1>2, <2>1 DEF UpdateAll, Updater, OnCoin, Task
  <2> QED
    BY <1>1, <1>2, <2>1, <2>2, OffCoin DEF UpdateAll
<1>3. CASE UpdateEnds
  <2>1. PICK task : task = Task("idle", {})
    OBVIOUS
  <2>2. tasks["updater"].pc \notin OnCoin /\ task.pc \notin OnCoin
    BY <1>3, <2>1 DEF UpdateEnds, Updater, OnCoin, Task
  <2> QED
    BY <1>1, <1>3, <2>1, <2>2, OffCoin DEF UpdateEnds
<1> QED
  BY <1>1, <1>2, <1>3, UpdateVisitsInv, OldStopCancelledInv, NewStopAnsweredInv, ClosingInv
     DEF Updating

LEMMA EmergencyClosesInv ==
  ASSUME IInv, PMTypeOK', NEW c \in Coins, EmergencyCloses(c) PROVE IInv'
<1>1. PICK t, i, rest : t = "emergency" /\ i = positions[c] /\ rest = Emergency.coins \ {c}
  OBVIOUS
<1>2. /\ t \in TaskNames /\ tasks[t].pc \notin OnCoin /\ UNCHANGED <<manager, opener, exchange>>
  BY <1>1 DEF EmergencyCloses, TaskNames, Emergency, OnCoin
<1>3. CASE i = 0
  <2>1. PICK task : task = Task("next", rest)
    OBVIOUS
  <2>2. task.pc \notin OnCoin
    BY <2>1 DEF Task, OnCoin
  <2>3. tasks' = [tasks EXCEPT ![t] = task] /\ clean' = clean
    BY <1>1, <1>3, <2>1 DEF EmergencyCloses
  <2> QED
    BY <1>2, <2>2, <2>3, OffCoin
<1>4. CASE i # 0
  <2>1. PICK task : task = [ClosePosition(t, i) EXCEPT !.coins = rest]
    OBVIOUS
  <2>2. /\ task.i = i /\ task.pc \in OnCoin /\ task.sl = pos[i].sl /\ task.tp = pos[i].tp
        /\ pos[i].sl # 0 => task.pc = "cancel_sl"
    BY <2>1 DEF ClosePosition, Task, OnCoin
  <2>3. tasks' = [tasks EXCEPT ![t] = task] /\ Enters(c)
    BY <1>1, <1>4, <2>1 DEF EmergencyCloses
  <2> QED
    BY <1>1, <1>2, <1>4, <2>2, <2>3, EnterInv
<1> QED
  BY <1>3, <1>4

LEMMA EmergencyOrphanInv ==
  ASSUME IInv, PMTypeOK', NEW c \in Coins, NEW answer, EmergencyOrphan(c, answer) PROVE IInv'
<1>1. PICK t, size, task :
        /\ t = "emergency" /\ size = CloseSize(Emergency.sizes[c])
        /\ task = IF Raises(answer) THEN Task("done", {})
                  ELSE [Emergency EXCEPT !.coins = Emergency.coins \ {c}]
  OBVIOUS
<1>2. /\ PMTypeOK /\ IdsFresh /\ IdsOwned /\ TasksOwned
      /\ t \in TaskNames /\ tasks[t].pc = "orphans" /\ tasks[t].pc \notin OnCoin
      /\ tasks' = [tasks EXCEPT ![t] = task] /\ UNCHANGED <<positions, pos, opened, opener>>
      /\ Answer(c, size, {}, answer) /\ clean' = clean \ {c}
  BY <1>1 DEF EmergencyOrphan, Emergency, manager, IInv, OnCoin, TaskNames, Spoils
<1>3. /\ IdsFresh' /\ WorldKeeps
      /\ \A d \in Coins \ {c} : net'[d] = net[d] /\ Orders(d)' = Orders(d)
  BY <1>2, AnswerIds
<1>4. task.pc \notin OnCoin
  <2>1. Emergency \in TaskRecord /\ Emergency.pc = "orphans"
    BY <1>1, <1>2, ObjectsAre DEF Emergency
  <2> QED
    BY <1>1, <2>1 DEF Task, OnCoin, TaskRecord
<1>5. Steps(t, task)
  BY <1>2 DEF Steps, CoinsKept
<1>6. IdsOwned'
  BY <1>2, <1>3, OwnedOld, ObjectsOwned
<1>7. \A d \in Coins \ {c} :
         /\ ~AtCoin(t, d) /\ ObjectsSame(d)
         /\ net'[d] = net[d] /\ Orders(d)' = Orders(d) /\ positions'[d] = positions[d]
  BY <1>2, <1>3 DEF ObjectsSame, AtCoin
<1> QED
  BY <1>2, <1>3, <1>4, <1>5, <1>6, <1>7, StepInv

LEMMA EmergencyInv ==
  ASSUME IInv, PMTypeOK', EmergencyStarts \/ EmergencyTurn PROVE IInv'
<1>1. "emergency" \in TaskNames
  BY DEF TaskNames
<1>2. ASSUME NEW task, task.pc \notin OnCoin, tasks' = [tasks EXCEPT !["emergency"] = task],
             tasks["emergency"].pc \notin OnCoin,
             UNCHANGED <<manager, opener, exchange>>, clean' = clean
      PROVE  IInv'
  BY <1>1, <1>2, OffCoin
<1>3. CASE EmergencyStarts
  <2>1. PICK task : task = Task("next", Tracked)
    OBVIOUS
  <2>2. tasks["emergency"].pc \notin OnCoin /\ task.pc \notin OnCoin
    BY <1>3, <2>1 DEF EmergencyStarts, Emergency, OnCoin, Task
  <2> QED
    BY <1>2, <1>3, <2>1, <2>2 DEF EmergencyStarts, memory
<1>4. CASE EmergencyFetches
  <2>1. PICK task : /\ tasks' = [tasks EXCEPT !["emergency"] = task]
                    /\ \/ task = [Task("orphans", Orphans) EXCEPT !.sizes = net]
                       \/ task = Task("done", {})
    BY <1>4 DEF EmergencyFetches
  <2>2. tasks["emergency"].pc \notin OnCoin /\ task.pc \notin OnCoin
    BY <1>4, <2>1 DEF EmergencyFetches, Emergency, OnCoin, Task
  <2> QED
    BY <1>2, <1>4, <2>1, <2>2 DEF EmergencyFetches
<1>5. CASE EmergencyEnds
  <2>1. PICK task : task = Task("done", {})
    OBVIOUS
  <2>2. tasks["emergency"].pc \notin OnCoin /\ task.pc \notin OnCoin
    BY <1>5, <2>1 DEF EmergencyEnds, Emergency, OnCoin, Task
  <2> QED
    BY <1>2, <1>5, <2>1, <2>2 DEF EmergencyEnds, memory
<1> QED
  BY <1>1, <1>3, <1>4, <1>5, EmergencyClosesInv, EmergencyOrphanInv, ClosingInv
     DEF EmergencyTurn

----------------------------------------------------------------------------
(* The steps of open_position                                              *)

LEMMA TasksStayOwned ==
  ASSUME PMTypeOK, PMTypeOK', IdsOwned, TasksOwned, WorldKeeps, tasks' = tasks,
         \A i \in 1 .. opened : pos'[i].coin = pos[i].coin
  PROVE  TasksOwned'
<1> SUFFICES ASSUME NEW u \in OnCoinTasks'
             PROVE  (/\ Owned(tasks[u].sl, pos[tasks[u].i].coin)
                     /\ Owned(tasks[u].tp, pos[tasks[u].i].coin))'
  BY DEF TasksOwned
<1>1. u \in OnCoinTasks /\ tasks'[u] = tasks[u] /\ tasks[u].i \in 1 .. opened
  BY DEF OnCoinTasks, PMTypeOK
<1>2. ASSUME NEW x, NEW y, NEW c, x = tasks'[u].sl, y = tasks'[u].tp,
             c = pos'[tasks'[u].i].coin
      PROVE  Owned(x, c)' /\ Owned(y, c)'
  <2>1. c = pos[tasks[u].i].coin
    BY <1>1, <1>2
  <2> QED
    BY <1>1, <1>2, <2>1, OwnedOld
<1> QED
  BY <1>2 DEF Owned

\* A step of open_position about coin c.
LEMMA OpenerInv ==
  ASSUME IInv, PMTypeOK', tasks' = tasks, NEW c \in Coins,
         \A i \in 1 .. opened : pos'[i].coin = pos[i].coin,
         IdsFresh', WorldKeeps, IdsOwned',
         \A d \in Coins \ {c} : SameFor(d) /\ ~OpenerAt(d) /\ ~OpenerAt(d)',
         clean' \subseteq clean,
         c \in clean' => /\ \A t \in TaskNames : ~AtCoin(t, c)
                         /\ OpenerAt(c)' => OpeningOf(c)'
                         /\ ~OpenerAt(c)' => Tally(c)'
  PROVE  IInv'
<1>1. PMTypeOK /\ IdsOwned /\ TasksOwned /\ clean \subseteq Coins
  BY DEF IInv, PMTypeOK
<1>2. TasksOwned'
  BY <1>1, TasksStayOwned
<1>3. \A t \in TaskNames : tasks[t].pc \in OnCoin => tasks[t].i \in 1 .. opened
  BY <1>1 DEF PMTypeOK, OnCoinTasks
<1>4. \A d : \A t \in TaskNames : AtCoin(t, d)' <=> AtCoin(t, d)
  BY <1>3 DEF AtCoin
<1>5. ASSUME NEW d \in clean' PROVE Status(d)'
  <2>1. d \in Coins /\ Status(d)
    BY <1>1 DEF IInv
  <2>2. CASE d = c
    <3>1. \A t \in TaskNames : ~AtCoin(t, d)'
      BY <1>4, <1>5, <2>2
    <3>2. (OpenerAt(d)' => OpeningOf(d)') /\ (~OpenerAt(d)' => Tally(d)')
      BY <1>5, <2>2
    <3>3. Alone(d)' => Tally(d)'
      BY <3>2 DEF Alone
    <3> QED
      BY <3>1, <3>2, <3>3 DEF Status
  <2>3. CASE d # c
    <3>1. SameFor(d) /\ ~OpenerAt(d) /\ ~OpenerAt(d)'
      BY <2>1, <2>3
    <3>2. SameWorkers(d)
      BY <1>4, <3>1 DEF SameWorkers
    <3> QED
      BY <2>1, <3>1, <3>2, Untouched
  <2> QED
    BY <2>2, <2>3
<1> QED
  BY <1>2, <1>5 DEF IInv

LEMMA OpenPositionInv ==
  ASSUME IInv, PMTypeOK', NEW e \in Entries, OpenPosition(e) PROVE IInv'
<1>1. PICK c, n : c = e.coin /\ n = opened + 1
  OBVIOUS
<1>2. /\ PMTypeOK /\ IdsFresh /\ IdsOwned /\ TasksOwned
      /\ opener.pc = "idle" /\ opened' = n /\ tasks' = tasks
      /\ pos' = [pos EXCEPT ![n] = [Unused EXCEPT !.coin = c, !.dir = e.dir]]
      /\ opener' = [pc |-> "entry", limit |-> e.limit]
      /\ clean' = IF c \in Busy \cup Tracked THEN clean \ {c} ELSE clean
      /\ UNCHANGED <<positions, net, book, oids>>
  BY <1>1 DEF OpenPosition, exchange, IInv
<1>3. c \in Coins /\ n \in Ids /\ n \notin 1 .. opened /\ 1 .. opened \subseteq Ids
  <2>1. opened \in Nat /\ n \in 1 .. MaxOpens
    BY <1>1, <1>2, BoundsAssumption DEF OpenPosition, PMTypeOK
  <2> QED
    BY <1>1, <1>2, <2>1, ObjectsAre, EntriesAssumption DEF Ids
<1>4. /\ pos'[n].coin = c /\ pos'[n].sl = 0 /\ pos'[n].tp = 0
      /\ \A i \in Ids : i # n => pos'[i] = pos[i]
  BY <1>2, <1>3 DEF PMTypeOK, Unused
<1>5. IdsFresh' /\ WorldKeeps
  BY <1>2 DEF IdsFresh, WorldKeeps, Owned
<1>6. IdsOwned'
  <2>1. ASSUME NEW j \in Ids, NEW x, NEW d, x \in {pos'[j].sl, pos'[j].tp}, d = pos'[j].coin
        PROVE  Owned(x, d)'
    <3>1. x = 0 \/ (d = pos[j].coin /\ x \in {pos[j].sl, pos[j].tp})
      BY <1>4, <2>1
    <3> QED
      BY <1>2, <1>5, <3>1, OwnedOld
  <2> QED
    BY <2>1, ObjectsOwned
<1>7. ASSUME NEW d \in Coins \ {c} PROVE SameFor(d) /\ ~OpenerAt(d) /\ ~OpenerAt(d)'
  <2>1. positions[d] # 0 => positions[d] \in 1 .. opened
    BY <1>2, ObjectsAre DEF Tracked
  <2>2. positions[d] # 0 => pos'[positions[d]] = pos[positions[d]]
    BY <1>3, <1>4, <2>1
  <2> QED
    BY <1>2, <1>4, <2>2 DEF SameFor, OpenerAt, Orders
<1>8. ASSUME c \in clean' PROVE /\ \A t \in TaskNames : ~AtCoin(t, c)
                                /\ OpeningOf(c)' /\ OpenerAt(c)'
  <2>1. c \in clean /\ c \notin Busy /\ c \notin Tracked
    BY <1>2, <1>8
  <2>2. Alone(c) /\ Tally(c) /\ positions[c] = 0
    BY <1>3, <2>1, BusyIs DEF IInv, Status, Tracked
  <2>3. net[c] = 0 /\ Orders(c) = {}
    BY <2>2 DEF Tally
  <2>4. net'[c] = 0 /\ Orders(c)' = {} /\ positions'[c] = 0 /\ opener'.pc = "entry"
    BY <1>2, <2>2, <2>3 DEF Orders
  <2>5. \A t \in TaskNames : ~AtCoin(t, c)
    BY <2>2 DEF Alone
  <2>6. \A t \in TaskNames : ~AtCoin(t, c)'
    <3>1. \A t \in TaskNames : tasks[t].pc \in OnCoin => tasks[t].i \in 1 .. opened
      BY <1>2 DEF PMTypeOK, OnCoinTasks
    <3> QED
      BY <1>2, <1>3, <1>4, <2>5, <3>1 DEF AtCoin
  <2> QED
    BY <1>2, <1>4, <2>4, <2>5, <2>6 DEF OpeningOf, OpenerAt
<1>9. clean' \subseteq clean
  BY <1>2
<1>10. \A i \in 1 .. opened : pos'[i].coin = pos[i].coin
  BY <1>3, <1>4
<1> QED
  BY <1>2, <1>3, <1>5, <1>6, <1>7, <1>8, <1>9, <1>10, OpenerInv

\* Where open_position is after an answer.
LEMMA OpenerAtIs ==
  ASSUME PMTypeOK, opener.pc # "idle", opened' = opened, CoinsKept,
         NEW c, c = pos[opened].coin
  PROVE  /\ opened \in Ids /\ c \in Coins
         /\ OpenerAt(c) /\ \A d \in Coins \ {c} : ~OpenerAt(d) /\ ~OpenerAt(d)'
         /\ OpenerAt(c)' <=> opener'.pc # "idle"
<1>1. opened \in Ids /\ c \in Coins
  BY ObjectsAre
<1>2. pos'[opened].coin = c
  BY <1>1 DEF CoinsKept
<1> QED
  BY <1>1, <1>2 DEF OpenerAt

LEMMA OpeningIs ==
  ASSUME IInv, NEW c \in clean, OpenerAt(c)
  PROVE  OpeningOf(c) /\ \A t \in TaskNames : ~AtCoin(t, c)
BY DEF IInv, Status, OpeningOf

LEMMA EntryAnsweredInv ==
  ASSUME IInv, PMTypeOK', NEW answer, EntryAnswered(answer) PROVE IInv'
<1>1. PICK p, c, size, order :
        /\ p = pos[opened] /\ c = p.coin
        /\ Answer(c, size, order, answer)
        /\ order = {} \/ \E kind, dir : order = Order(c, kind, dir)
        /\ \/ order = {} /\ size = p.dir /\ Spoils(c, answer = "ok")
           \/ Spoils(c, FALSE)
  BY DEF EntryAnswered
<1>2. /\ PMTypeOK /\ IdsFresh /\ IdsOwned /\ TasksOwned
      /\ opener.pc = "entry" /\ UNCHANGED <<positions, pos, opened, tasks>>
      /\ opener' = IF Raises(answer) THEN OpenerIdle ELSE [opener EXCEPT !.pc = "sl"]
  BY DEF EntryAnswered, manager, IInv
<1>3. CoinsKept
  BY <1>2 DEF CoinsKept
<1>4. /\ opened \in Ids /\ c \in Coins
      /\ OpenerAt(c) /\ \A d \in Coins \ {c} : ~OpenerAt(d) /\ ~OpenerAt(d)'
      /\ OpenerAt(c)' <=> opener'.pc # "idle"
  BY <1>1, <1>2, <1>3, OpenerAtIs
<1>5. /\ IdsFresh' /\ WorldKeeps
      /\ \A d \in Coins \ {c} : net'[d] = net[d] /\ Orders(d)' = Orders(d)
      /\ answer \in {"ok", "lost"} => Orders(c)' = Orders(c) \cup order
      /\ answer = "ok" => net' = [net EXCEPT ![c] = @ + size]
  BY <1>1, <1>2, <1>4, AnswerIds
<1>6. IdsOwned'
  BY <1>2, <1>5, OwnedOld, ObjectsOwned
<1>7. \A d \in Coins \ {c} : SameFor(d)
  BY <1>2, <1>5 DEF SameFor
<1>8. ASSUME c \in clean'
      PROVE  /\ \A t \in TaskNames : ~AtCoin(t, c)
             /\ OpenerAt(c)' /\ OpeningOf(c)'
  <2>1. c \in clean /\ answer = "ok" /\ order = {} /\ size = p.dir
    BY <1>1, <1>8 DEF Spoils
  <2>2. OpeningOf(c) /\ \A t \in TaskNames : ~AtCoin(t, c)
    BY <1>4, <2>1, OpeningIs
  <2>3. net[c] = 0 /\ Orders(c) = {} /\ positions[c] = 0
    BY <1>2, <2>2 DEF OpeningOf
  <2>4. p.dir \in Int /\ net \in [Coins -> Int] /\ opener \in OpenerRecord
    BY <1>1, <1>2, <1>4, ObjectsAre DEF PMTypeOK
  <2>5. net'[c] = p.dir /\ Orders(c)' = {}
    BY <1>4, <1>5, <2>1, <2>3, <2>4
  <2>6. opener'.pc = "sl"
    BY <1>2, <2>1, <2>4 DEF Raises, OpenerRecord
  <2>7. \A t \in TaskNames : ~AtCoin(t, c)'
    BY <1>2, <2>2 DEF AtCoin
  <2>8. positions'[c] = 0 /\ pos'[opened'] = p
    BY <1>1, <1>2, <2>3
  <2>9. OpeningOf(c)'
    BY <2>5, <2>6, <2>7, <2>8 DEF OpeningOf
  <2> QED
    BY <1>4, <2>2, <2>6, <2>9
<1>9. clean' \subseteq clean
  BY <1>1 DEF Spoils
<1>10. \A i \in 1 .. opened : pos'[i].coin = pos[i].coin
  BY <1>2
<1> QED
  BY <1>2, <1>4, <1>5, <1>6, <1>7, <1>8, <1>9, <1>10, OpenerInv

\* The stop and the target enter the object with the id the answer had.
LEMMA IdEnters ==
  ASSUME PMTypeOK, PMTypeOK', IdsOwned, TasksOwned, WorldKeeps,
         NEW i \in Ids, NEW x, \A d : d = pos[i].coin => Owned(x, d)',
         \A j \in Ids : j # i => pos'[j] = pos[j],
         pos'[i].coin = pos[i].coin,
         pos'[i].sl \in {pos[i].sl, x}, pos'[i].tp \in {pos[i].tp, x}
  PROVE  IdsOwned' /\ CoinsKept
<1>1. ASSUME NEW j \in Ids, NEW y, NEW d, y \in {pos'[j].sl, pos'[j].tp}, d = pos'[j].coin
      PROVE  Owned(y, d)'
  <2>1. d = pos[j].coin /\ (y \in {pos[j].sl, pos[j].tp} \/ (j = i /\ y = x))
    BY <1>1
  <2> QED
    BY <2>1, OwnedOld
<1> QED
  BY <1>1, ObjectsOwned DEF CoinsKept

LEMMA StopAnsweredInv ==
  ASSUME IInv, PMTypeOK', NEW answer, StopAnswered(answer) PROVE IInv'
<1>1. PICK n, p, c, x, order :
        /\ n = opened /\ p = pos[n] /\ c = p.coin /\ x = OrderId(answer)
        /\ order = Order(c, "stop", p.dir)
  OBVIOUS
<1>2. /\ PMTypeOK /\ IdsFresh /\ IdsOwned /\ TasksOwned
      /\ opener.pc = "sl" /\ UNCHANGED <<positions, opened, tasks>>
      /\ Answer(c, 0, order, answer) /\ Spoils(c, answer = "ok")
      /\ pos' = [pos EXCEPT ![n].sl = x]
      /\ opener' = IF Raises(answer) THEN OpenerIdle ELSE [opener EXCEPT !.pc = "tp"]
  BY <1>1 DEF StopAnswered, IInv
<1>3. n \in Ids /\ c \in Coins /\ p \in PositionRecord /\ p.dir \in Int
  BY <1>1, <1>2, ObjectsAre
<1>4. /\ \A j \in Ids : j # n => pos'[j] = pos[j]
      /\ pos'[n].coin = c /\ pos'[n].dir = p.dir /\ pos'[n].sl = x /\ pos'[n].tp = p.tp
  BY <1>1, <1>2, <1>3 DEF PMTypeOK, PositionRecord
<1>5. /\ IdsFresh' /\ WorldKeeps
      /\ \A y : y = OrderId(answer) => Owned(y, c)'
      /\ \A d \in Coins \ {c} : net'[d] = net[d] /\ Orders(d)' = Orders(d)
      /\ answer = "ok" => Orders(c)' = Orders(c) \cup order
      /\ answer = "ok" => net' = [net EXCEPT ![c] = @ + 0]
  <2>1. order # {}
    BY <1>1 DEF Order
  <2>2. PMTypeOK /\ IdsFresh /\ c \in Coins /\ Answer(c, 0, order, answer)
        /\ \E kind, dir : order = Order(c, kind, dir)
    BY <1>1, <1>2, <1>3
  <2> QED
    BY <2>1, <2>2, AnswerIds
<1>6. IdsOwned' /\ CoinsKept
  <2>1. \A d : d = pos[n].coin => Owned(x, d)'
    BY <1>1, <1>5
  <2>2. pos'[n].coin = pos[n].coin /\ pos'[n].sl \in {pos[n].sl, x} /\ pos'[n].tp \in {pos[n].tp, x}
    BY <1>1, <1>4
  <2> QED
    BY <1>2, <1>3, <1>4, <1>5, <2>1, <2>2, IdEnters
<1>7. /\ OpenerAt(c) /\ \A d \in Coins \ {c} : ~OpenerAt(d) /\ ~OpenerAt(d)'
      /\ OpenerAt(c)' <=> opener'.pc # "idle"
  BY <1>1, <1>2, <1>6, OpenerAtIs
<1>8. ASSUME NEW d \in Coins \ {c} PROVE SameFor(d)
  <2>1. positions[d] # 0 => positions[d] \in Ids /\ pos[positions[d]].coin = d
    <3>1. positions[d] # 0 => d \in Tracked
      BY DEF Tracked
    <3> QED
      BY <1>2, <3>1, ObjectsAre DEF PMTypeOK
  <2>2. positions[d] # 0 => positions[d] # n
    BY <1>1, <2>1
  <2> QED
    BY <1>2, <1>4, <1>5, <2>1, <2>2 DEF SameFor
<1>9. ASSUME c \in clean'
      PROVE  /\ \A t \in TaskNames : ~AtCoin(t, c)
             /\ OpenerAt(c)' /\ OpeningOf(c)'
  <2>1. c \in clean /\ answer = "ok" /\ x = oids + 1
    BY <1>1, <1>2, <1>9 DEF Spoils, OrderId
  <2>2. OpeningOf(c) /\ \A t \in TaskNames : ~AtCoin(t, c)
    BY <1>7, <2>1, OpeningIs
  <2>3. net[c] = p.dir /\ Orders(c) = {} /\ positions[c] = 0
    BY <1>1, <1>2, <2>2 DEF OpeningOf
  <2>4. net \in [Coins -> Int] /\ opener \in OpenerRecord /\ oids \in Nat
    BY <1>2 DEF PMTypeOK
  <2>5. net'[c] = p.dir
    BY <1>3, <1>5, <2>1, <2>3, <2>4
  <2>6. Orders(c)' = order
    BY <1>5, <2>1, <2>3
  <2>7. order = {[oid |-> x, coin |-> c, kind |-> "stop", dir |-> p.dir]}
    BY <1>1, <2>1 DEF Order
  <2>8. opener'.pc = "tp"
    BY <1>2, <2>1, <2>4 DEF Raises, OpenerRecord
  <2>9. \A t \in TaskNames : ~AtCoin(t, c)'
    <3>1. \A t \in TaskNames : tasks[t].pc \in OnCoin => tasks[t].i \in Ids
      BY <1>2, ObjectsAre DEF OnCoinTasks
    <3> QED
      BY <1>2, <1>6, <2>2, <3>1 DEF AtCoin, CoinsKept
  <2>10. positions'[c] = 0 /\ opened' = n /\ x # 0
    BY <1>1, <1>2, <2>1, <2>3, <2>4
  <2>11. OpeningOf(c)'
    BY <1>4, <2>5, <2>6, <2>7, <2>8, <2>9, <2>10 DEF OpeningOf, StopOf
  <2> QED
    BY <1>7, <2>2, <2>8, <2>11
<1>10. clean' \subseteq clean
  BY <1>2 DEF Spoils
<1>11. \A i \in 1 .. opened : pos'[i].coin = pos[i].coin
  BY <1>2, <1>6, ObjectsAre DEF CoinsKept
<1> QED
  BY <1>2, <1>3, <1>5, <1>6, <1>7, <1>8, <1>9, <1>10, <1>11, OpenerInv

LEMMA TargetAnsweredInv ==
  ASSUME IInv, PMTypeOK', NEW answer, TargetAnswered(answer) PROVE IInv'
<1>1. PICK n, p, c, x, order :
        /\ n = opened /\ p = pos[n] /\ c = p.coin /\ x = OrderId(answer)
        /\ order = Order(c, "target", p.dir)
  OBVIOUS
<1>2. /\ PMTypeOK /\ IdsFresh /\ IdsOwned /\ TasksOwned
      /\ opener.pc = "tp" /\ UNCHANGED <<opened, tasks>>
      /\ Answer(c, 0, order, answer) /\ Spoils(c, answer = "ok")
      /\ pos' = [pos EXCEPT ![n].tp = x]
      /\ positions' = IF Raises(answer) THEN positions ELSE [positions EXCEPT ![c] = n]
      /\ opener'.pc = "idle"
  BY <1>1 DEF TargetAnswered, OpenerIdle, IInv
<1>3. n \in Ids /\ c \in Coins /\ p \in PositionRecord /\ p.dir \in Int
  BY <1>1, <1>2, ObjectsAre
<1>4. /\ \A j \in Ids : j # n => pos'[j] = pos[j]
      /\ pos'[n].coin = c /\ pos'[n].dir = p.dir /\ pos'[n].sl = p.sl /\ pos'[n].tp = x
  BY <1>1, <1>2, <1>3 DEF PMTypeOK, PositionRecord
<1>5. /\ IdsFresh' /\ WorldKeeps
      /\ \A y : y = OrderId(answer) => Owned(y, c)'
      /\ \A d \in Coins \ {c} : net'[d] = net[d] /\ Orders(d)' = Orders(d)
      /\ answer = "ok" => Orders(c)' = Orders(c) \cup order
      /\ answer = "ok" => net' = [net EXCEPT ![c] = @ + 0]
  <2>1. order # {}
    BY <1>1 DEF Order
  <2>2. PMTypeOK /\ IdsFresh /\ c \in Coins /\ Answer(c, 0, order, answer)
        /\ \E kind, dir : order = Order(c, kind, dir)
    BY <1>1, <1>2, <1>3
  <2> QED
    BY <2>1, <2>2, AnswerIds
<1>6. IdsOwned' /\ CoinsKept
  <2>1. \A d : d = pos[n].coin => Owned(x, d)'
    BY <1>1, <1>5
  <2>2. pos'[n].coin = pos[n].coin /\ pos'[n].sl \in {pos[n].sl, x} /\ pos'[n].tp \in {pos[n].tp, x}
    BY <1>1, <1>4
  <2> QED
    BY <1>2, <1>3, <1>4, <1>5, <2>1, <2>2, IdEnters
<1>7. /\ OpenerAt(c) /\ \A d \in Coins \ {c} : ~OpenerAt(d) /\ ~OpenerAt(d)'
      /\ ~OpenerAt(c)'
  BY <1>1, <1>2, <1>6, OpenerAtIs
<1>8. ASSUME NEW d \in Coins \ {c} PROVE SameFor(d)
  <2>1. positions[d] # 0 => positions[d] \in Ids /\ pos[positions[d]].coin = d
    <3>1. positions[d] # 0 => d \in Tracked
      BY DEF Tracked
    <3> QED
      BY <1>2, <3>1, ObjectsAre DEF PMTypeOK
  <2>2. positions[d] # 0 => positions[d] # n
    BY <1>1, <2>1
  <2>3. positions'[d] = positions[d]
    BY <1>2 DEF PMTypeOK
  <2> QED
    BY <1>4, <1>5, <2>1, <2>2, <2>3 DEF SameFor
<1>9. ASSUME c \in clean' PROVE (\A t \in TaskNames : ~AtCoin(t, c)) /\ Tally(c)'
  <2>1. c \in clean /\ answer = "ok" /\ x = oids + 1 /\ ~Raises(answer)
    BY <1>1, <1>2, <1>9 DEF Spoils, OrderId, Raises
  <2>2. OpeningOf(c) /\ \A t \in TaskNames : ~AtCoin(t, c)
    BY <1>7, <2>1, OpeningIs
  <2>3. net[c] = p.dir /\ p.sl # 0 /\ Orders(c) = {StopOf(c, p)}
    BY <1>1, <1>2, <2>2 DEF OpeningOf
  <2>4. net \in [Coins -> Int] /\ positions \in [Coins -> 0 .. opened] /\ oids \in Nat
    BY <1>2 DEF PMTypeOK
  <2>5. net'[c] = p.dir
    BY <1>3, <1>5, <2>1, <2>3, <2>4
  <2>6. order = {[oid |-> x, coin |-> c, kind |-> "target", dir |-> p.dir]}
    BY <1>1, <2>1 DEF Order
  <2>7. Orders(c)' = {[oid |-> p.sl, coin |-> c, kind |-> "stop", dir |-> p.dir],
                      [oid |-> x, coin |-> c, kind |-> "target", dir |-> p.dir]}
    BY <1>5, <2>1, <2>3, <2>6 DEF StopOf
  <2>8. positions'[c] = n /\ n # 0 /\ x # 0
    <3>1. n # 0
      BY <1>3 DEF Ids
    <3> QED
      BY <1>2, <1>3, <2>1, <2>4, <3>1
  <2>9. Tally(c)'
    BY <1>4, <2>3, <2>5, <2>7, <2>8 DEF Tally
  <2> QED
    BY <2>2, <2>9
<1>10. clean' \subseteq clean
  BY <1>2 DEF Spoils
<1>11. \A i \in 1 .. opened : pos'[i].coin = pos[i].coin
  BY <1>2, <1>6, ObjectsAre DEF CoinsKept
<1> QED
  BY <1>2, <1>3, <1>5, <1>6, <1>7, <1>8, <1>9, <1>10, <1>11, OpenerInv

----------------------------------------------------------------------------
(* The exchange, the clock and the whole                                   *)

\* A step no coroutine takes.
LEMMA WorldInv ==
  ASSUME IInv, PMTypeOK', UNCHANGED <<tasks, opener, opened, positions>>,
         \A i \in Ids : /\ pos'[i].coin = pos[i].coin /\ pos'[i].dir = pos[i].dir
                        /\ pos'[i].sl = pos[i].sl /\ pos'[i].tp = pos[i].tp,
         IdsFresh', WorldKeeps, clean' \subseteq clean,
         \A c \in clean' : net'[c] = net[c] /\ Orders(c)' = Orders(c)
  PROVE  IInv'
<1>1. PMTypeOK /\ IdsOwned /\ TasksOwned /\ 1 .. opened \subseteq Ids
  BY ObjectsAre DEF IInv
<1>2. \A i \in 1 .. opened : pos'[i].coin = pos[i].coin
  BY <1>1
<1>3. TasksOwned'
  BY <1>1, <1>2, TasksStayOwned
<1>4. IdsOwned'
  BY <1>1, OwnedOld, ObjectsOwned
<1>5. ASSUME NEW c \in clean' PROVE Status(c)'
  <2>1. SameFor(c)
    <3>1. c \in Coins /\ (positions[c] # 0 => c \in Tracked)
      BY <1>1 DEF PMTypeOK, Tracked
    <3>2. positions[c] # 0 => positions[c] \in Ids
      BY <1>1, <3>1, ObjectsAre
    <3> QED
      BY <3>2 DEF SameFor
  <2>2. SameWorkers(c)
    <3>1. \A t \in TaskNames : tasks[t].pc \in OnCoin => tasks[t].i \in Ids
      BY <1>1, ObjectsAre DEF OnCoinTasks
    <3>2. opener.pc # "idle" => opened \in Ids
      BY <1>1, ObjectsAre
    <3> QED
      BY <3>1, <3>2 DEF SameWorkers, AtCoin, OpenerAt
  <2> QED
    BY <2>1, <2>2, Untouched DEF IInv
<1> QED
  BY <1>3, <1>4, <1>5 DEF IInv

LEMMA FillInv ==
  ASSUME IInv, PMTypeOK', NEW o \in book, Fill(o) PROVE IInv'
<1>1. PICK c : c = o.coin
  OBVIOUS
<1>2. /\ UNCHANGED <<tasks, opener, opened, positions, pos, oids>>
      /\ book' = book \ {o} /\ clean' = clean \ {c}
      /\ \A d : d # c => net'[d] = net[d]
  <2>1. UNCHANGED <<tasks, opener, opened, positions, pos, oids>>
        /\ book' = book \ {o} /\ clean' = clean \ {c}
    BY <1>1 DEF Fill, manager
  <2>2. PICK size : net' = [net EXCEPT ![c] = size]
    BY <1>1 DEF Fill
  <2> QED
    BY <2>1, <2>2
<1>3. IdsFresh' /\ WorldKeeps
  BY <1>2 DEF IInv, IdsFresh, WorldKeeps, Owned
<1>4. \A d \in clean' : net'[d] = net[d] /\ Orders(d)' = Orders(d)
  BY <1>1, <1>2 DEF Orders
<1> QED
  BY <1>2, <1>3, <1>4, WorldInv

LEMMA AgesInv ==
  ASSUME IInv, PMTypeOK', NEW i \in Ids, NEW due, Ages(i, due) PROVE IInv'
<1>1. /\ UNCHANGED <<positions, opened, opener, tasks, net, book, oids, clean>>
      /\ pos' = [pos EXCEPT ![i].due = due]
  BY DEF Ages, exchange, memory
<1>2. \A j \in Ids : /\ pos'[j].coin = pos[j].coin /\ pos'[j].dir = pos[j].dir
                     /\ pos'[j].sl = pos[j].sl /\ pos'[j].tp = pos[j].tp
  BY <1>1 DEF IInv, PMTypeOK, PositionRecord
<1>3. IdsFresh' /\ WorldKeeps
  BY <1>1 DEF IInv, IdsFresh, WorldKeeps, Owned
<1>4. \A c \in clean' : net'[c] = net[c] /\ Orders(c)' = Orders(c)
  BY <1>1 DEF Orders
<1> QED
  BY <1>1, <1>2, <1>3, <1>4, WorldInv

LEMMA StutterInv == ASSUME IInv, PMTypeOK', UNCHANGED vars PROVE IInv'
<1>1. UNCHANGED <<positions, pos, opened, opener, tasks, net, book, oids, clean>>
  BY DEF vars, manager, exchange, memory
<1>2. IdsFresh' /\ WorldKeeps
  BY <1>1 DEF IInv, IdsFresh, WorldKeeps, Owned
<1>3. \A c \in clean' : net'[c] = net[c] /\ Orders(c)' = Orders(c)
  BY <1>1 DEF Orders
<1> QED
  BY <1>1, <1>2, <1>3, WorldInv

LEMMA InvStep == IInv /\ [Next]_vars => IInv'
<1> SUFFICES ASSUME IInv, [Next]_vars PROVE IInv'
  OBVIOUS
<1>1. PMTypeOK'
  BY TypeStep DEF IInv
<1>2. CASE UNCHANGED vars
  BY <1>1, <1>2, StutterInv
<1>3. CASE \E e \in Entries : OpenPosition(e)
  BY <1>1, <1>3, OpenPositionInv
<1>4. CASE \E answer \in Answers :
             EntryAnswered(answer) \/ StopAnswered(answer) \/ TargetAnswered(answer)
  BY <1>1, <1>4, EntryAnsweredInv, StopAnsweredInv, TargetAnsweredInv
<1>5. CASE Updating
  BY <1>1, <1>5, UpdatingInv
<1>6. CASE EmergencyStarts \/ EmergencyTurn
  BY <1>1, <1>6, EmergencyInv
<1>7. CASE \E o \in book : Fill(o)
  BY <1>1, <1>7, FillInv
<1>8. CASE \E i \in Ids, due \in Verdicts : Ages(i, due)
  BY <1>1, <1>8, AgesInv
<1> QED
  BY <1>2, <1>3, <1>4, <1>5, <1>6, <1>7, <1>8 DEF Next

LEMMA InvHolds == Spec => []IInv
BY InvInit, InvStep, PTL DEF Spec

\* Between two operations on a coin with a clean history the manager and the
\* account agree, for every number of coins and of calls and whatever goes wrong
\* with the other coins: open_position, close_position, check_trailing_sl and
\* emergency_close_all interleaved at each of their awaits.
THEOREM IdleCoinsTally == Spec => []IdleCoinTallies
BY InvHolds, InvTallies, PTL

\* A position with a clean history has its stop at the exchange, but while the
\* trailing stop replaces it and while it is being closed.
THEOREM NakedNever == Spec => []NeverNaked
BY InvHolds, InvGuarded, PTL

----------------------------------------------------------------------------
(* emergency_close_all                                                     *)

\* What emergency_close_all has reached while nothing but itself acts: what the
\* dict still holds is ahead of it or under its hands, and once the answer of
\* get_positions is in, the account holds exactly the sizes of the orphans that
\* are left.
Flattening ==
  ~disturbed =>
    /\ Emergency.pc = "next" => Tracked \subseteq Emergency.coins
    /\ Emergency.pc \in OnCoin =>
         Tracked \subseteq Emergency.coins \cup {pos[Emergency.i].coin}
    /\ Emergency.pc = "orphans" =>
         /\ Tracked = {}
         /\ \A c \in Coins : net[c] = IF c \in Emergency.coins THEN Emergency.sizes[c] ELSE 0
    /\ Emergency.pc = "done" => Tracked = {} /\ \A c \in Coins : net[c] = 0

LEMMA FlatteningInit == Init => Flattening
BY DEF Init, Flattening, Emergency, TaskNames, Task, OnCoin

\* A step of somebody else: it disturbs the emergency close or comes before it.
LEMMA OthersFlatten ==
  ASSUME Interferes \/ (\E good : By("updater", good)), Emergency' = Emergency
  PROVE  Flattening'
<1>1. disturbed' \/ Emergency.pc = "idle"
  BY DEF Interferes, By
<1>2. "idle" \notin OnCoin
  BY DEF OnCoin
<1> QED
  BY <1>1, <1>2 DEF Flattening

LEMMA UpdaterKeepsEmergency ==
  ASSUME PMTypeOK, NEW task, tasks' = [tasks EXCEPT !["updater"] = task]
  PROVE  Emergency' = Emergency
BY DEF PMTypeOK, TaskNames, Emergency

LEMMA EmergencyMoves ==
  ASSUME PMTypeOK, NEW task, tasks' = [tasks EXCEPT !["emergency"] = task]
  PROVE  Emergency' = task
BY DEF PMTypeOK, TaskNames, Emergency

LEMMA UpdatingFlattens ==
  ASSUME PMTypeOK, Updating PROVE Flattening'
<1>1. CASE Closing("updater")
  <2>1. \E task : tasks' = [tasks EXCEPT !["updater"] = task]
    BY <1>1 DEF Closing, CloseCancels, CloseTrades, CloseDeletes, CloseMidsRaise
  <2>2. \E good : By("updater", good)
    BY <1>1 DEF Closing, CloseCancels, CloseTrades, CloseDeletes, CloseMidsRaise
  <2> QED
    BY <2>1, <2>2, UpdaterKeepsEmergency, OthersFlatten
<1>2. CASE ~Closing("updater")
  <2>1. Interferes
    BY <1>2 DEF Updating, UpdateAll, UpdateVisits, UpdateEnds, OldStopCancelled, NewStopAnswered
  <2>2. \E task : tasks' = [tasks EXCEPT !["updater"] = task]
    BY <1>2 DEF Updating, UpdateAll, UpdateVisits, UpdateEnds, OldStopCancelled, NewStopAnswered
  <2> QED
    BY <2>1, <2>2, UpdaterKeepsEmergency, OthersFlatten
<1> QED
  BY <1>1, <1>2

\* close_position on behalf of the emergency close: the coin leaves the dict, or
\* the close failed.
LEMMA ClosingFlattens ==
  ASSUME PMTypeOK, Flattening, Closing("emergency") PROVE Flattening'
<1>1. PICK task, c, K : task = Emergency /\ c = pos[task.i].coin /\ K = task.coins
  OBVIOUS
<1>2. /\ task.pc \in OnCoin /\ K \in SUBSET Coins /\ task \in TaskRecord
      /\ task = tasks["emergency"] /\ c \in Coins
  <2>1. tasks["emergency"].pc \in OnCoin /\ "emergency" \in TaskNames
    BY DEF Closing, CloseCancels, CloseTrades, CloseDeletes, CloseMidsRaise, OnCoin, TaskNames
  <2>2. tasks["emergency"] \in TaskRecord /\ pos[tasks["emergency"].i].coin \in Coins
    BY <2>1, ObjectAt
  <2> QED
    BY <1>1, <2>1, <2>2 DEF Emergency, TaskRecord
<1>3. OnCoin \cap {"idle", "next", "orphans", "done"} = {}
  BY DEF OnCoin
<1>4. ~disturbed' => ~disturbed
  BY DEF Closing, CloseCancels, CloseTrades, CloseDeletes, CloseMidsRaise, By
<1>5. ~disturbed => Tracked \subseteq K \cup {c}
  BY <1>1, <1>2 DEF Flattening
<1>6. CASE CloseCancels("emergency")
  <2>1. PICK pc \in {"cancel_tp", "market"} : tasks' = [tasks EXCEPT !["emergency"].pc = pc]
    BY <1>6 DEF CloseCancels
  <2>2. Emergency' = [task EXCEPT !.pc = pc]
    BY <1>2, <2>1 DEF PMTypeOK, TaskNames, Emergency
  <2>3. Emergency'.pc \in OnCoin /\ Emergency'.coins = K /\ Emergency'.i = task.i
    BY <1>1, <1>2, <2>2 DEF TaskRecord, OnCoin
  <2>4. Tracked' = Tracked /\ pos' = pos
    BY <1>6 DEF CloseCancels, manager, Tracked
  <2> QED
    BY <1>1, <1>3, <1>4, <1>5, <2>3, <2>4 DEF Flattening
<1>7. CASE \E answer \in Answers : CloseTrades("emergency", answer)
  <2>1. PICK answer \in Answers : CloseTrades("emergency", answer)
    BY <1>7
  <2>2. CASE answer # "ok"
    <3>1. disturbed'
      BY <1>1, <1>2, <1>3, <2>1, <2>2 DEF CloseTrades, By
    <3> QED
      BY <3>1 DEF Flattening
  <2>3. CASE answer = "ok"
    <3>1. tasks' = [tasks EXCEPT !["emergency"] = [@ EXCEPT !.pc = "mids"]]
      BY <2>1, <2>3 DEF CloseTrades, Raises
    <3>2. Emergency' = [task EXCEPT !.pc = "mids"]
      BY <1>2, <3>1 DEF PMTypeOK, TaskNames, Emergency
    <3>3. Emergency'.pc \in OnCoin /\ Emergency'.coins = K /\ Emergency'.i = task.i
      BY <1>1, <1>2, <3>2 DEF TaskRecord, OnCoin
    <3>4. Tracked' = Tracked /\ pos' = pos
      BY <2>1 DEF CloseTrades, manager, Tracked
    <3> QED
      BY <1>1, <1>3, <1>4, <1>5, <3>3, <3>4 DEF Flattening
  <2> QED
    BY <2>2, <2>3
<1>8. CASE CloseDeletes("emergency")
  <2>1. Emergency' = Task("next", K)
    <3>1. tasks' = [tasks EXCEPT !["emergency"] = Task("next", K)]
      BY <1>1, <1>2, <1>8 DEF CloseDeletes, Resume
    <3> QED
      BY <3>1, EmergencyMoves
  <2>2. Emergency'.pc = "next" /\ Emergency'.coins = K
    BY <2>1 DEF Task
  <2>3. positions' = [positions EXCEPT ![c] = 0]
    BY <1>1, <1>2, <1>8 DEF CloseDeletes
  <2>4. Tracked' = Tracked \ {c}
    BY <1>2, <2>3 DEF Tracked, PMTypeOK
  <2> QED
    BY <1>3, <1>4, <1>5, <2>2, <2>4 DEF Flattening
<1>9. CASE CloseMidsRaise("emergency")
  <2>1. disturbed'
    BY <1>1, <1>2, <1>3, <1>9 DEF CloseMidsRaise, By
  <2> QED
    BY <2>1 DEF Flattening
<1> QED
  BY <1>6, <1>7, <1>8, <1>9 DEF Closing

LEMMA TurnFlattens ==
  ASSUME PMTypeOK, Flattening, EmergencyStarts \/ EmergencyTurn PROVE Flattening'
<1>1. OnCoin \cap {"idle", "next", "orphans", "done"} = {}
  BY DEF OnCoin
<1>2. Emergency \in TaskRecord /\ net \in [Coins -> Int] /\ Tracked \subseteq Coins
  BY DEF PMTypeOK, Emergency, TaskNames, Tracked
<1>3. CASE EmergencyStarts
  <2>1. Emergency' = Task("next", Tracked)
    BY <1>3, EmergencyMoves DEF EmergencyStarts
  <2>2. Tracked' = Tracked
    BY <1>3 DEF EmergencyStarts, manager, Tracked
  <2> QED
    BY <1>1, <2>1, <2>2 DEF Flattening, Task
<1>4. ASSUME NEW c \in Coins, EmergencyCloses(c) PROVE Flattening'
  <2> DEFINE rest == Emergency.coins \ {c}
  <2>1. /\ Emergency.pc = "next" /\ Tracked' = Tracked /\ disturbed' = disturbed /\ pos' = pos
        /\ rest \in SUBSET Coins
    BY <1>2, <1>4 DEF EmergencyCloses, manager, Tracked, TaskRecord
  <2>2. ~disturbed => Tracked \subseteq Emergency.coins
    BY <2>1 DEF Flattening
  <2>3. CASE positions[c] = 0
    <3>1. Emergency' = Task("next", rest)
      BY <1>4, <2>3, EmergencyMoves DEF EmergencyCloses
    <3>2. c \notin Tracked
      BY <2>3 DEF Tracked
    <3> QED
      BY <1>1, <2>1, <2>2, <3>1, <3>2 DEF Flattening, Task
  <2>4. CASE positions[c] # 0
    <3>1. PICK i, task : /\ i = positions[c]
                         /\ task = [ClosePosition("emergency", i) EXCEPT !.coins = rest]
      OBVIOUS
    <3>2. Emergency' = task
      BY <1>4, <2>4, <3>1, EmergencyMoves DEF EmergencyCloses
    <3>3. i \in 1 .. opened /\ pos[i].coin = c
      BY <2>4, <3>1, ObjectsAre DEF PMTypeOK, Tracked
    <3>4. task.pc \in OnCoin /\ task.i = i /\ task.coins = rest
      BY <3>1 DEF ClosePosition, Task, OnCoin
    <3> QED
      BY <1>1, <2>1, <2>2, <3>2, <3>3, <3>4 DEF Flattening
  <2> QED
    BY <2>3, <2>4
<1>5. CASE EmergencyFetches
  <2>1. Emergency.pc = "next" /\ Emergency.coins = {} /\ Tracked' = Tracked /\ net' = net
    BY <1>5 DEF EmergencyFetches, manager, exchange, Tracked
  <2>2. CASE disturbed'
    BY <2>2 DEF Flattening
  <2>3. CASE ~disturbed'
    <3>1. tasks' = [tasks EXCEPT !["emergency"] = [Task("orphans", Orphans) EXCEPT !.sizes = net]]
          /\ ~disturbed
      <4>1. ~By("emergency", FALSE)
        BY <2>1, <2>3 DEF By
      <4>2. /\ tasks' = [tasks EXCEPT !["emergency"] =
                           [Task("orphans", Orphans) EXCEPT !.sizes = net]]
            /\ disturbed' = disturbed
        BY <1>5, <4>1 DEF EmergencyFetches
      <4> QED
        BY <2>3, <4>2
    <3>2. Emergency' = [Task("orphans", Orphans) EXCEPT !.sizes = net]
      BY <3>1, EmergencyMoves
    <3>3. Emergency'.pc = "orphans" /\ Emergency'.coins = Orphans /\ Emergency'.sizes = net
      BY <3>2 DEF Task
    <3>4. Tracked = {}
      BY <2>1, <3>1 DEF Flattening
    <3>5. \A c \in Coins : net[c] = IF c \in Orphans THEN net[c] ELSE 0
      BY DEF Orphans
    <3> QED
      BY <1>1, <2>1, <3>3, <3>4, <3>5 DEF Flattening
  <2> QED
    BY <2>2, <2>3
<1>6. ASSUME NEW c \in Coins, NEW answer \in Answers, EmergencyOrphan(c, answer) PROVE Flattening'
  <2>1. Emergency.pc = "orphans" /\ c \in Emergency.coins /\ Tracked' = Tracked
    BY <1>6 DEF EmergencyOrphan, manager, Tracked
  <2>2. CASE disturbed'
    BY <2>2 DEF Flattening
  <2>3. CASE ~disturbed'
    <3>1. answer = "ok" /\ ~disturbed
      BY <1>6, <2>1, <2>3 DEF EmergencyOrphan, By
    <3>2. tasks' = [tasks EXCEPT !["emergency"] = [Emergency EXCEPT !.coins = @ \ {c}]]
          /\ net' = [net EXCEPT ![c] = @ + CloseSize(Emergency.sizes[c])]
      BY <1>6, <3>1 DEF EmergencyOrphan, Raises, Answer
    <3>3. Emergency' = [Emergency EXCEPT !.coins = @ \ {c}]
      BY <3>2, EmergencyMoves
    <3>4. /\ Emergency'.pc = "orphans" /\ Emergency'.coins = Emergency.coins \ {c}
          /\ Emergency'.sizes = Emergency.sizes
      BY <1>2, <2>1, <3>3 DEF TaskRecord
    <3>5. Tracked = {} /\ \A d \in Coins :
            net[d] = IF d \in Emergency.coins THEN Emergency.sizes[d] ELSE 0
      BY <2>1, <3>1 DEF Flattening
    <3>6. net'[c] = 0
      <4>1. net[c] = Emergency.sizes[c] /\ net[c] \in Int
        BY <1>2, <2>1, <3>5
      <4>2. net'[c] = net[c] + CloseSize(Emergency.sizes[c])
        BY <1>2, <3>2
      <4> QED
        BY <4>1, <4>2 DEF CloseSize
    <3>7. \A d \in Coins \ {c} : net'[d] = net[d]
      BY <1>2, <3>2
    <3>8. \A d \in Coins : net'[d] = IF d \in Emergency'.coins THEN Emergency'.sizes[d] ELSE 0
      BY <3>4, <3>5, <3>6, <3>7
    <3> QED
      BY <1>1, <2>1, <3>4, <3>5, <3>8 DEF Flattening
  <2> QED
    BY <2>2, <2>3
<1>7. CASE EmergencyEnds
  <2>1. /\ Emergency.pc = "orphans" /\ Emergency.coins = {} /\ Tracked' = Tracked
        /\ net' = net /\ disturbed' = disturbed
    BY <1>7 DEF EmergencyEnds, manager, exchange, memory, Tracked
  <2>2. Emergency'.pc = "done"
    <3>1. Emergency' = Task("done", {})
      BY <1>7, EmergencyMoves DEF EmergencyEnds
    <3> QED
      BY <3>1 DEF Task
  <2> QED
    BY <1>1, <2>1, <2>2 DEF Flattening
<1>8. CASE Closing("emergency")
  BY <1>8, ClosingFlattens
<1> QED
  BY <1>3, <1>4, <1>5, <1>6, <1>7, <1>8 DEF EmergencyTurn

\* A step that changes no position, no size and no coroutine.
LEMMA QuietFlattens ==
  ASSUME PMTypeOK, Flattening, UNCHANGED <<positions, tasks, net, disturbed>>,
         \A j \in Ids : pos'[j].coin = pos[j].coin
  PROVE  Flattening'
<1>1. Emergency' = Emergency /\ Tracked' = Tracked
  BY DEF Emergency, Tracked
<1>2. Emergency.pc \in OnCoin => Emergency.i \in Ids
  BY ObjectAt DEF Emergency, TaskNames
<1> QED
  BY <1>1, <1>2 DEF Flattening

LEMMA FlatteningStep == PMTypeOK /\ Flattening /\ [Next]_vars => Flattening'
<1> SUFFICES ASSUME PMTypeOK, Flattening, [Next]_vars PROVE Flattening'
  OBVIOUS
<1>1. CASE UNCHANGED vars
  BY <1>1, QuietFlattens DEF vars, manager, exchange, memory
<1>2. ASSUME NEW e \in Entries, OpenPosition(e) PROVE Flattening'
  BY <1>2, OthersFlatten DEF OpenPosition, Emergency
<1>3. ASSUME NEW answer, EntryAnswered(answer) \/ StopAnswered(answer) \/ TargetAnswered(answer)
      PROVE  Flattening'
  <2>1. Interferes /\ tasks' = tasks
    BY <1>3 DEF EntryAnswered, StopAnswered, TargetAnswered
  <2> QED
    BY <2>1, OthersFlatten DEF Emergency
<1>4. CASE Updating
  BY <1>4, UpdatingFlattens
<1>5. CASE EmergencyStarts \/ EmergencyTurn
  BY <1>5, TurnFlattens
<1>6. ASSUME NEW o \in book, Fill(o) PROVE Flattening'
  BY <1>6, OthersFlatten DEF Fill, Emergency
<1>7. ASSUME NEW i \in Ids, NEW due \in Verdicts, Ages(i, due) PROVE Flattening'
  <2>1. UNCHANGED <<positions, tasks, net, disturbed>> /\ pos' = [pos EXCEPT ![i].due = due]
    BY <1>7 DEF Ages, exchange, memory
  <2>2. \A j \in Ids : pos'[j].coin = pos[j].coin
    BY <2>1 DEF PMTypeOK, PositionRecord
  <2> QED
    BY <2>1, <2>2, QuietFlattens
<1> QED
  BY <1>1, <1>2, <1>3, <1>4, <1>5, <1>6, <1>7 DEF Next

\* emergency_close_all leaves the account flat and the dict empty, whatever the
\* open, the update and the fills before it left behind: as long as nothing but
\* the emergency close acts from its start on and no call of it fails, the
\* second look at the exchange closes what the first round of closes made
\* worse, in either direction.
THEOREM EmergencyLeavesFlat == Spec => []EmergencyFlattens
<1>1. PMTypeOK /\ Flattening => EmergencyFlattens
  <2> SUFFICES ASSUME PMTypeOK, Flattening, Emergency.pc = "done", ~disturbed
               PROVE  Tracked = {} /\ net = Flat
    BY DEF EmergencyFlattens
  <2>1. Tracked = {} /\ \A c \in Coins : net[c] = 0
    BY DEF Flattening
  <2> QED
    BY <2>1 DEF PMTypeOK, Flat
<1>2. Spec => []PMTypeOK
  BY TypeInit, TypeStep, PTL DEF Spec
<1> QED
  BY <1>1, <1>2, FlatteningInit, FlatteningStep, PTL DEF Spec

=============================================================================
