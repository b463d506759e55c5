--------------------------- MODULE PositionManager ---------------------------
(***************************************************************************)
(* The position manager (execution/position_mgr.py), the emergency close   *)
(* of the risk manager (execution/risk_mgr.py) and the account both trade  *)
(* on.                                                                     *)
(*                                                                         *)
(* Three coroutines share the dict PositionManager.positions: one that     *)
(* opens positions, the periodic update_all, and emergency_close_all.      *)
(* Every call to the exchange is an await.  A step of this specification   *)
(* is the answer to such a call, with its effect on the account, and the   *)
(* code the coroutine runs from there to its next await.  All sizes are 1. *)
(***************************************************************************)
EXTENDS Integers, FiniteSets

CONSTANTS
  Coins,       \* tradable coins
  Entries,     \* what open_position may be asked for: coin, direction, order type
  MaxOpens,    \* bound: calls to open_position
  MaxFaults    \* bound: calls the exchange refuses, fails or answers in vain

Dirs == {1, -1}   \* LONG and SHORT

ASSUME EntriesAssumption ==
  /\ Coins # {}
  /\ Entries \subseteq [coin : Coins, dir : Dirs, limit : BOOLEAN]

ASSUME BoundsAssumption ==
  /\ MaxOpens \in Nat
  /\ MaxFaults \in Nat

Ids == 1 .. MaxOpens   \* identities of ManagedPosition objects

TaskNames == {"updater", "emergency"}
Answers == {"ok", "refused", "raised", "lost"}

\* What update_all would find of a position, from its age and the price it is
\* called with: the price is at the trigger of the trailing stop;  the position
\* is stale and below the 0.5R that spare it;  neither, or no price.
Verdicts == {"trigger", "stale", "none"}

VARIABLES
  \* the manager
  positions,  \* the dict: an identity per coin, 0 for no key
  pos,        \* the ManagedPosition objects, tracked or not
  opened,     \* identities given out
  opener,     \* the open_position coroutine
  tasks,      \* the update_all and the emergency_close_all coroutine
  \* the world
  net,        \* signed size the account holds of each coin
  book,       \* orders resting at the exchange
  oids,       \* order ids given out
  faults,     \* calls that went wrong so far
  \* what the properties remember
  clean,      \* coins with no fault, no fill and no overlap of coroutines so far
  disturbed   \* something but the emergency close acted since it began

manager == <<positions, pos, opened>>
exchange == <<net, book, oids>>
memory == <<clean, disturbed>>
vars == <<manager, opener, tasks, exchange, faults, memory>>

Tracked == {c \in Coins : positions[c] # 0}

Emergency == tasks["emergency"]
Updater == tasks["updater"]

----------------------------------------------------------------------------
(* Initial state                                                           *)

AnyCoin == CHOOSE c \in Coins : TRUE

Unused == [coin |-> AnyCoin, dir |-> 1, sl |-> 0, tp |-> 0, trailed |-> FALSE, due |-> "none"]

OpenerIdle == [pc |-> "idle", limit |-> FALSE]

Flat == [c \in Coins |-> 0]

\* coins: what is left of the snapshot the coroutine iterates;  i, sl, tp: the
\* object it works on and the order ids it read from it when it began to close;
\* sizes: the answer of get_positions.
Task(pc, coins) ==
  [pc |-> pc, coins |-> coins, i |-> 0, sl |-> 0, tp |-> 0, sizes |-> Flat]

Init ==
  /\ positions = Flat
  /\ pos = [i \in Ids |-> Unused]
  /\ opened = 0
  /\ opener = OpenerIdle
  /\ tasks = [t \in TaskNames |-> Task("idle", {})]
  /\ net = Flat
  /\ book = {}
  /\ oids = 0
  /\ faults = 0
  /\ clean = Coins
  /\ disturbed = FALSE

----------------------------------------------------------------------------
(* The coins a coroutine is at, and what the properties remember           *)

OnCoin == {"cancel_old", "place_stop", "cancel_sl", "cancel_tp", "market", "mids"}

OnCoinTasks == {t \in TaskNames : tasks[t].pc \in OnCoin}

Busy == {pos[tasks[t].i].coin : t \in OnCoinTasks}
          \cup IF opener.pc = "idle" THEN {} ELSE {pos[opened].coin}

\* A coroutine turns to coin c; unless it has it to itself the coin's history
\* is no longer clean.
Enters(c) == clean' = IF c \in Busy THEN clean \ {c} ELSE clean

\* A step of somebody other than the emergency close.
Interferes == disturbed' = (disturbed \/ Emergency.pc # "idle")

----------------------------------------------------------------------------
(* Answers of the exchange                                                 *)

Orders(c) == {o \in book : o.coin = c}

\* The four answers to an order.  An order that is accepted rests (`order' is
\* a set of one) or trades (`size' is what the account gains).  A refusal is a
\* status of the answer, which nobody reads: to the caller it is a success
\* without an order id.  A call that raises may have reached the exchange.
Answer(c, size, order, answer) ==
  /\ answer \in Answers
  /\ IF answer \in {"ok", "lost"}
       THEN /\ net' = [net EXCEPT ![c] = @ + size]
            /\ book' = book \cup order
            /\ oids' = oids + Cardinality(order)
       ELSE UNCHANGED exchange
  /\ IF answer = "ok" THEN UNCHANGED faults
                      ELSE faults < MaxFaults /\ faults' = faults + 1

Order(c, kind, dir) == {[oid |-> oids + 1, coin |-> c, kind |-> kind, dir |-> dir]}

Raises(answer) == answer \in {"raised", "lost"}

\* _extract_order_id
OrderId(answer) == IF answer = "ok" THEN oids + 1 ELSE 0

\* cancel_order: whether it fails or not, the callers go on.
CancelAnswer(oid) ==
  /\ UNCHANGED <<net, oids>>
  /\ \/ book' = {o \in book : o.oid # oid} /\ UNCHANGED faults
     \/ UNCHANGED book /\ faults < MaxFaults /\ faults' = faults + 1

\* A step on coin c that went wrong spoils its history.
Spoils(c, good) == clean' = IF good THEN clean ELSE clean \ {c}

----------------------------------------------------------------------------
(* open_position                                                           *)

OpenPosition(e) ==
  /\ opener.pc = "idle" /\ opened < MaxOpens
  /\ Emergency.pc = "idle"     \* the callers ask the risk manager, halted since
  /\ opened' = opened + 1
  /\ pos' = [pos EXCEPT ![opened'] = [Unused EXCEPT !.coin = e.coin, !.dir = e.dir]]
  /\ opener' = [pc |-> "entry", limit |-> e.limit]
  /\ clean' = IF e.coin \in Busy \cup Tracked THEN clean \ {e.coin} ELSE clean
  /\ Interferes
  /\ UNCHANGED <<positions, tasks, exchange, faults>>

\* The entry was answered.  A market order trades, a limit order may rest; a
\* refusal goes unnoticed.
EntryAnswered(answer) ==
  LET p == pos[opened]
  IN  /\ opener.pc = "entry"
      /\ \/ /\ Answer(p.coin, p.dir, {}, answer)
            /\ Spoils(p.coin, answer = "ok")
         \/ /\ opener.limit
            /\ Answer(p.coin, 0, Order(p.coin, "entry", p.dir), answer)
            /\ Spoils(p.coin, FALSE)
      /\ opener' = IF Raises(answer) THEN OpenerIdle ELSE [opener EXCEPT !.pc = "sl"]
      /\ Interferes
      /\ UNCHANGED <<manager, tasks>>

StopAnswered(answer) ==
  LET p == pos[opened]
  IN  /\ opener.pc = "sl"
      /\ Answer(p.coin, 0, Order(p.coin, "stop", p.dir), answer)
      /\ Spoils(p.coin, answer = "ok")
      /\ pos' = [pos EXCEPT ![opened].sl = OrderId(answer)]
      /\ opener' = IF Raises(answer) THEN OpenerIdle ELSE [opener EXCEPT !.pc = "tp"]
      /\ Interferes
      /\ UNCHANGED <<positions, opened, tasks>>

\* The last of the three: the position enters the dict, over an older one.
TargetAnswered(answer) ==
  LET p == pos[opened]
  IN  /\ opener.pc = "tp"
      /\ Answer(p.coin, 0, Order(p.coin, "target", p.dir), answer)
      /\ Spoils(p.coin, answer = "ok")
      /\ pos' = [pos EXCEPT ![opened].tp = OrderId(answer)]
      /\ positions' = IF Raises(answer) THEN positions
                                        ELSE [positions EXCEPT ![p.coin] = opened]
      /\ opener' = OpenerIdle
      /\ Interferes
      /\ UNCHANGED <<opened, tasks>>

----------------------------------------------------------------------------
(* close_position, run by update_all and by emergency_close_all            *)

\* Seeded fault: the position is looked up anew after each call.
ClosePositionUnbound(t, i) ==
  [Task(IF pos[i].sl # 0 THEN "cancel_sl" ELSE "market", tasks[t].coins)
     EXCEPT !.sl = pos[i].sl, !.tp = pos[i].tp]

\* The call with its first await: the order ids are read once, here.
ClosePosition(t, i) ==
  LET p == pos[i]
  IN  [Task(CASE p.sl # 0 -> "cancel_sl"
              [] p.sl = 0 /\ p.tp # 0 -> "cancel_tp"
              [] OTHER -> "market", tasks[t].coins)
         EXCEPT !.i = i, !.sl = p.sl, !.tp = p.tp]

\* The caller's next coin.  An exception leaves update_all and with it the rest
\* of its coins; emergency_close_all catches it and goes on.
Resume(t, raised) ==
  IF raised /\ t = "updater" THEN Task("idle", {}) ELSE Task("next", tasks[t].coins)

\* Steps of the update count as interference with the emergency close.
By(t, good) ==
  disturbed' = (disturbed \/ (Emergency.pc # "idle" /\ (t = "updater" \/ ~good)))

\* Seeded fault: only the stop is cancelled.
CloseCancelsStopOnly(t) ==
  /\ tasks[t].pc \in {"cancel_sl", "cancel_tp"}
  /\ CancelAnswer(tasks[t].sl)
  /\ tasks' = [tasks EXCEPT ![t].pc = "market"]
  /\ Spoils(pos[tasks[t].i].coin, faults' = faults)
  /\ By(t, faults' = faults)
  /\ UNCHANGED <<manager, opener>>

CloseCancels(t) ==
  LET task == tasks[t]
      sl == task.pc = "cancel_sl"
  IN  /\ task.pc \in {"cancel_sl", "cancel_tp"}
      /\ CancelAnswer(IF sl THEN task.sl ELSE task.tp)
      /\ tasks' = [tasks EXCEPT ![t].pc =
                     IF sl /\ task.tp # 0 THEN "cancel_tp" ELSE "market"]
      /\ Spoils(pos[task.i].coin, faults' = faults)
      /\ By(t, faults' = faults)
      /\ UNCHANGED <<manager, opener>>

CloseTrades(t, answer) ==
  LET p == pos[tasks[t].i]
  IN  /\ tasks[t].pc = "market"
      /\ Answer(p.coin, -p.dir, {}, answer)
      /\ tasks' = [tasks EXCEPT ![t] =
                     IF Raises(answer) THEN Resume(t, TRUE) ELSE [@ EXCEPT !.pc = "mids"]]
      /\ Spoils(p.coin, answer = "ok")
      /\ By(t, answer = "ok")
      /\ UNCHANGED <<manager, opener>>

\* An object out of the dict: nobody reads its orders or its age again.
Forgotten(i) ==
  [j \in Ids |-> IF j = i THEN [Unused EXCEPT !.coin = pos[i].coin, !.dir = pos[i].dir]
                         ELSE pos[j]]

\* The mid price for the estimate of the result: whatever the coin maps to is
\* deleted, and the deletion of a key that is gone raises KeyError.
CloseDeletes(t) ==
  LET c == pos[tasks[t].i].coin
  IN  /\ tasks[t].pc = "mids"
      /\ positions' = [positions EXCEPT ![c] = 0]
      /\ pos' = Forgotten(positions[c])
      /\ tasks' = [tasks EXCEPT ![t] = Resume(t, positions[c] = 0)]
      /\ By(t, TRUE)
      /\ UNCHANGED <<opened, opener, exchange, faults, clean>>

\* get_all_mids raises: the position is closed and stays in the dict.
CloseMidsRaise(t) ==
  /\ tasks[t].pc = "mids"
  /\ faults < MaxFaults /\ faults' = faults + 1
  /\ tasks' = [tasks EXCEPT ![t] = Resume(t, TRUE)]
  /\ Spoils(pos[tasks[t].i].coin, FALSE)
  /\ By(t, FALSE)
  /\ UNCHANGED <<manager, opener, exchange>>

Closing(t) ==
  \/ CloseCancels(t)
  \/ \E answer \in Answers : CloseTrades(t, answer)
  \/ CloseDeletes(t)
  \/ CloseMidsRaise(t)

----------------------------------------------------------------------------
(* update_all: check_trailing_sl and check_timeout for each coin           *)

TrailDue(i) == i # 0 /\ ~pos[i].trailed /\ pos[i].due = "trigger"

\* Seeded fault: a position whose stop has been moved is never stale.
TimeoutDueFresh(i) == i # 0 /\ pos[i].due = "stale" /\ ~pos[i].trailed

TimeoutDue(i) == i # 0 /\ pos[i].due = "stale"

UpdateAll ==
  /\ Updater.pc = "idle" /\ Tracked # {}
  /\ tasks' = [tasks EXCEPT !["updater"] = Task("next", Tracked)]
  /\ Interferes
  /\ UNCHANGED <<manager, opener, exchange, faults, clean>>

\* The next coin of the snapshot: its trailing stop is due, its timeout, or
\* neither (a coin that has left the dict included).
UpdateVisits(c) ==
  LET rest == Task("next", Updater.coins \ {c})
      i == positions[c]
  IN  /\ Updater.pc = "next" /\ c \in Updater.coins
      /\ \/ /\ TrailDue(i)
            /\ tasks' = [tasks EXCEPT !["updater"] =
                 [rest EXCEPT !.i = i, !.sl = pos[i].sl,
                              !.pc = IF pos[i].sl # 0 THEN "cancel_old" ELSE "place_stop"]]
            /\ Enters(c)
         \/ /\ ~TrailDue(i) /\ TimeoutDue(i)
            /\ tasks' = [tasks EXCEPT !["updater"] =
                 [ClosePosition("updater", i) EXCEPT !.coins = rest.coins]]
            /\ Enters(c)
         \/ /\ ~TrailDue(i) /\ ~TimeoutDue(i)
            /\ tasks' = [tasks EXCEPT !["updater"] = rest]
            /\ UNCHANGED clean
      /\ Interferes
      /\ UNCHANGED <<manager, opener, exchange, faults>>

UpdateEnds ==
  /\ Updater.pc = "next" /\ Updater.coins = {}
  /\ tasks' = [tasks EXCEPT !["updater"] = Task("idle", {})]
  /\ Interferes
  /\ UNCHANGED <<manager, opener, exchange, faults, clean>>

\* check_trailing_sl cancels the old stop first.
OldStopCancelled ==
  /\ Updater.pc = "cancel_old"
  /\ CancelAnswer(Updater.sl)
  /\ tasks' = [tasks EXCEPT !["updater"].pc = "place_stop"]
  /\ Spoils(pos[Updater.i].coin, faults' = faults)
  /\ Interferes
  /\ UNCHANGED <<manager, opener>>

\* Seeded fault: the position keeps the id of the stop that was cancelled.
TrailedBy(i, answer) == [pos EXCEPT ![i].trailed = TRUE]

\* A placement that raises leaves the object as it was; the timeout of the
\* same coin is then not looked at.
Trails(i, answer) ==
  [pos EXCEPT ![i].sl = OrderId(answer), ![i].trailed = TRUE]

\* The timeout check that follows finds nothing: the price that triggered the
\* trailing stop is above 0.5R, and an object that has taken the place of this
\* one is new.
NewStopAnswered(answer) ==
  LET i == Updater.i
      c == pos[i].coin
  IN  /\ Updater.pc = "place_stop"
      /\ Answer(c, 0, Order(c, "stop", pos[i].dir), answer)
      /\ Spoils(c, answer = "ok")
      /\ IF Raises(answer)
           THEN /\ tasks' = [tasks EXCEPT !["updater"] = Task("idle", {})]
                /\ UNCHANGED pos
           ELSE /\ pos' = Trails(i, answer)
                /\ tasks' = [tasks EXCEPT !["updater"] = Task("next", @.coins)]
      /\ Interferes
      /\ UNCHANGED <<positions, opened, opener>>

Updating ==
  \/ UpdateAll
  \/ \E c \in Coins : UpdateVisits(c)
  \/ UpdateEnds
  \/ OldStopCancelled
  \/ \E answer \in Answers : NewStopAnswered(answer)
  \/ Closing("updater")

----------------------------------------------------------------------------
(* emergency_close_all                                                     *)

EmergencyStarts ==
  /\ Emergency.pc = "idle"
  /\ tasks' = [tasks EXCEPT !["emergency"] = Task("next", Tracked)]
  /\ UNCHANGED <<manager, opener, exchange, faults, memory>>

\* close_position of the next coin of the snapshot; one that is gone is
\* passed over.
EmergencyCloses(c) ==
  LET rest == Emergency.coins \ {c}
  IN  /\ Emergency.pc = "next" /\ c \in Emergency.coins
      /\ IF positions[c] = 0
           THEN /\ tasks' = [tasks EXCEPT !["emergency"] = Task("next", rest)]
                /\ UNCHANGED clean
           ELSE /\ tasks' = [tasks EXCEPT !["emergency"] =
                     [ClosePosition("emergency", positions[c]) EXCEPT !.coins = rest]]
                /\ Enters(c)
      /\ UNCHANGED <<manager, opener, exchange, faults, disturbed>>

\* Seeded fault: a short position is taken for none.
LongOrphans == {c \in Coins : net[c] > 0}

Orphans == {c \in Coins : net[c] # 0}

\* get_positions is answered: what the exchange still holds is to be closed.
\* The sizes are those of the answer.
EmergencyFetches ==
  /\ Emergency.pc = "next" /\ Emergency.coins = {}
  /\ \/ /\ tasks' = [tasks EXCEPT !["emergency"] =
             [Task("orphans", Orphans) EXCEPT !.sizes = net]]
        /\ UNCHANGED <<faults, disturbed>>
     \/ /\ faults < MaxFaults /\ faults' = faults + 1
        /\ tasks' = [tasks EXCEPT !["emergency"] = Task("done", {})]
        /\ By("emergency", FALSE)
  /\ UNCHANGED <<manager, opener, exchange, clean>>

\* is_buy = size < 0, for abs(size).
CloseSize(szi) == -szi

\* The next orphan is closed by a market order.  An exception ends the loop.
EmergencyOrphan(c, answer) ==
  /\ Emergency.pc = "orphans" /\ c \in Emergency.coins
  /\ Answer(c, CloseSize(Emergency.sizes[c]), {}, answer)
  /\ tasks' = [tasks EXCEPT !["emergency"] =
       IF Raises(answer) THEN Task("done", {}) ELSE [Emergency EXCEPT !.coins = @ \ {c}]]
  /\ Spoils(c, FALSE)
  /\ By("emergency", answer = "ok")
  /\ UNCHANGED <<manager, opener>>

EmergencyEnds ==
  /\ Emergency.pc = "orphans" /\ Emergency.coins = {}
  /\ tasks' = [tasks EXCEPT !["emergency"] = Task("done", {})]
  /\ UNCHANGED <<manager, opener, exchange, faults, memory>>

EmergencyTurn ==
  \/ \E c \in Coins : EmergencyCloses(c)
  \/ EmergencyFetches
  \/ \E c \in Coins, answer \in Answers :
       EmergencyOrphan(c, answer)
  \/ EmergencyEnds
  \/ Closing("emergency")

----------------------------------------------------------------------------
(* The exchange and the clock                                              *)

\* A stop or a target trades, reducing the position it finds, or a resting
\* entry is filled.  Nobody tells the manager.
Fill(o) ==
  /\ o \in book
  /\ book' = book \ {o}
  /\ net' = [net EXCEPT ![o.coin] =
               IF o.kind = "entry" THEN @ + o.dir
               ELSE IF @ * o.dir > 0 THEN @ - o.dir
               ELSE @]
  /\ clean' = clean \ {o.coin}
  /\ Interferes
  /\ UNCHANGED <<manager, opener, tasks, oids, faults>>

\* Time passes and the price moves.  update_all works with the prices it was
\* called with.
Ages(i, due) ==
  /\ i \in {positions[c] : c \in Tracked} /\ Updater.pc = "idle"
  /\ pos[i].due # due
  /\ pos' = [pos EXCEPT ![i].due = due]
  /\ UNCHANGED <<positions, opened, opener, tasks, exchange, faults, memory>>

----------------------------------------------------------------------------
(* Specification                                                           *)

Next ==
  \/ \E e \in Entries : OpenPosition(e)
  \/ \E answer \in Answers :
       EntryAnswered(answer) \/ StopAnswered(answer) \/ TargetAnswered(answer)
  \/ Updating
  \/ EmergencyStarts
  \/ EmergencyTurn
  \/ \E o \in book : Fill(o)
  \/ \E i \in Ids, due \in Verdicts : Ages(i, due)

Spec == Init /\ [][Next]_vars

\* "Call this periodically": update_all keeps being called, and its calls to
\* the exchange are answered or time out.
FairSpec == Spec /\ WF_vars(Updating)

----------------------------------------------------------------------------
(* Properties                                                              *)

Kinds == {"entry", "stop", "target"}
OrderRecord == [oid : Nat \ {0}, coin : Coins, kind : Kinds, dir : Dirs]
PositionRecord == [coin : Coins, dir : Dirs, sl : Nat, tp : Nat,
                   trailed : BOOLEAN, due : Verdicts]
OpenerRecord == [pc : {"idle", "entry", "sl", "tp"}, limit : BOOLEAN]
TaskRecord == [pc : OnCoin \cup {"idle", "next", "orphans", "done"},
               coins : SUBSET Coins, i : Ids \cup {0}, sl : Nat, tp : Nat,
               sizes : [Coins -> Int]]

\* The types of the variables; a coin's dict entry is an object of that coin,
\* and a coroutine that works on an object has one.
PMTypeOK ==
  /\ opened \in 0 .. MaxOpens
  /\ positions \in [Coins -> 0 .. opened]
  /\ pos \in [Ids -> PositionRecord]
  /\ opener \in OpenerRecord /\ (opener.pc # "idle" => opened # 0)
  /\ tasks \in [TaskNames -> TaskRecord]
  /\ \A t \in OnCoinTasks : tasks[t].i \in 1 .. opened
  /\ \A c \in Tracked : pos[positions[c]].coin = c
  /\ net \in [Coins -> Int]
  /\ book \subseteq OrderRecord
  /\ oids \in Nat
  /\ faults \in 0 .. MaxFaults
  /\ clean \subseteq Coins /\ disturbed \in BOOLEAN

\* What the manager and the account agree on: a position in the dict is held at
\* the exchange in its direction, and the orders that rest on the coin are its
\* stop and its target; a coin without one has neither size nor orders.
Tally(c) ==
  LET p == pos[positions[c]]
  IN  IF positions[c] = 0
        THEN net[c] = 0 /\ Orders(c) = {}
        ELSE /\ net[c] = p.dir
             /\ p.sl # 0 /\ p.tp # 0
             /\ Orders(c) = {[oid |-> p.sl, coin |-> c, kind |-> "stop", dir |-> p.dir],
                             [oid |-> p.tp, coin |-> c, kind |-> "target", dir |-> p.dir]}

\* Whatever open_position, the trailing stop, the timeout and the emergency
\* close did to a coin one after the other, no call of theirs failing and no
\* order of the coin having traded, between two of them the manager and the
\* account agree.
IdleCoinTallies == \A c \in clean \ Busy : Tally(c)

\* A held position has its stop at the exchange, but while the trailing stop
\* replaces it (the old one is cancelled first) and while it is being closed.
Exposed(t, c) ==
  /\ tasks[t].pc \in {"place_stop", "cancel_tp", "market", "mids"}
  /\ pos[tasks[t].i].coin = c

NeverNaked ==
  \A c \in clean \cap Tracked :
    \/ \E o \in Orders(c) : o.kind = "stop" /\ o.oid = pos[positions[c]].sl
    \/ \E t \in TaskNames : Exposed(t, c)

\* emergency_close_all leaves the account flat and the dict empty: also when a
\* stop had traded, an entry had been refused or another close of the same coin
\* was half way, as the second look at the exchange repairs what the first
\* round of closes made worse.
EmergencyFlattens ==
  Emergency.pc = "done" /\ ~disturbed => Tracked = {} /\ net = Flat

\* update_all, called again and again, removes a stale position below 0.5R,
\* whatever a bounded number of failed calls did to earlier attempts.
StaleIsClosed ==
  \A c \in Coins, i \in Ids :
    ~<>[](positions[c] = i /\ pos[i].due = "stale")

\* Refuted.  A position at the exchange is one the manager was asked to open:
\* "Clean cancellation of SL/TP orders on close", "Close the position at
\* market".  The market order of a close is not reduce-only, so the close of a
\* position whose stop has traded opens one in the other direction.
CloseNeverReverses ==
  Emergency.pc = "idle" =>
    \A c \in Coins : net[c] # 0 =>
      \E i \in 1 .. opened : pos[i].coin = c /\ pos[i].dir * net[c] > 0

=============================================================================
