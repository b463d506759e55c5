---------------------------- MODULE RateLimiter ----------------------------
(***************************************************************************)
(* The weight limiter all REST callers of the momentum bot share           *)
(* (utils/rate_limiter.py).  Callers run post_info concurrently; acquire   *)
(* keeps the asyncio lock while it sleeps, so a sleeper holds up everyone. *)
(*                                                                         *)
(* Time is counted in ticks.  Of the deque of timestamped weights the       *)
(* limiter only uses sums by age, so the window is the weight recorded so  *)
(* many ticks ago, the last age standing for all beyond the window.        *)
(* `ledger' is book-keeping of this specification: the weight really       *)
(* recorded at each age, whatever the code has pruned.                     *)
(***************************************************************************)
EXTENDS Integers, Sequences, FiniteSetsExt, Functions

CONSTANTS
  Callers,     \* coroutines that call post_info
  Endpoints,   \* endpoint types
  Weight,      \* estimate_weight of each endpoint for an empty response
  Extras,      \* what the response may add to it, for each endpoint
  Budget,      \* the weight allowed in the window
  Window,      \* WINDOW_SECONDS, in ticks
  Backoff      \* the sleep after a status 429, in ticks

ASSUME WeightAssumption ==
  /\ Budget \in Nat /\ Window \in Nat /\ Backoff \in Nat
  /\ Endpoints # {}
  /\ Weight \in [Endpoints -> 1 .. Budget]
  /\ Extras \in [Endpoints -> SUBSET Nat]

VARIABLES
  window,   \* self._window: the weight it holds, by age
  queue,    \* self._lock: its holder, then the callers waiting for it
  caller,   \* the post_info coroutine of each caller
  ledger    \* weight recorded at each age

vars == <<window, queue, caller, ledger>>

Idle == [pc |-> "idle", endpoint |-> CHOOSE e \in Endpoints : TRUE,
         retry |-> FALSE, nap |-> 0, extra |-> 0]

Init ==
  /\ window = [t \in 0 .. Window + 1 |-> 0]
  /\ queue = <<>>
  /\ caller = [c \in Callers |-> Idle]
  /\ ledger = [t \in 0 .. Window |-> 0]

----------------------------------------------------------------------------
(* The window                                                              *)

\* Seeded fault: entries of exactly the window's age are dropped.
PrunedEarly == [t \in 0 .. Window + 1 |-> IF t < Window THEN window[t] ELSE 0]

\* _prune
Pruned == [t \in 0 .. Window + 1 |-> IF t <= Window THEN window[t] ELSE 0]

\* The weight of the entries that are at least t old.
Older(entries, t) == SumFunctionOnSet(entries, t .. Window + 1)

\* Seeded fault: the sleep ends when the entry has the window's age.
NapTooShort(needed) ==
  Window - Max({t \in 0 .. Window : Older(Pruned, t) >= needed})

\* How long _wait_for_budget sleeps: until as many of the oldest entries as
\* free the weight needed are beyond the window.  (No request weighs more
\* than the budget, so there always are as many.)
NapFor(needed) ==
  Window - Max({t \in 0 .. Window : Older(Pruned, t) >= needed}) + 1

Recorded(entries, weight) == [entries EXCEPT ![0] = @ + weight]

Book(weight) == ledger' = Recorded(ledger, weight)

----------------------------------------------------------------------------
(* post_info                                                               *)

Holds(c) == queue # <<>> /\ Head(queue) = c

\* Seeded fault: a caller takes the lock before those that wait for it.
AskAtFront(c) == queue' = <<c>> \o queue

\* A caller queues for the lock, which is granted first come, first served.
Ask(c) == queue' = Append(queue, c)

PostInfo(c, e) ==
  /\ caller[c].pc = "idle"
  /\ caller' = [caller EXCEPT ![c] = [Idle EXCEPT !.pc = "acquire", !.endpoint = e]]
  /\ Ask(c)
  /\ UNCHANGED <<window, ledger>>

\* The holder of the lock is at the top of _wait_for_budget's loop.
Checks(c) ==
  /\ Holds(c)
  /\ caller[c].pc = "acquire"
  /\ caller[c].nap = 0

Need(c) == Older(Pruned, 0) + Weight[caller[c].endpoint] - Budget

\* There is budget: the weight is recorded, the lock released, the request sent.
Admit(c) ==
  /\ Checks(c) /\ Need(c) <= 0
  /\ window' = Recorded(Pruned, Weight[caller[c].endpoint])
  /\ Book(Weight[caller[c].endpoint])
  /\ queue' = Tail(queue)
  /\ caller' = [caller EXCEPT ![c].pc = "sent"]

\* There is none: the holder sleeps, without releasing the lock.
Sleep(c) ==
  /\ Checks(c) /\ Need(c) > 0
  /\ window' = Pruned
  /\ caller' = [caller EXCEPT ![c].nap = NapFor(Need(c))]
  /\ UNCHANGED <<queue, ledger>>

\* The first answer has status 429: sleep, acquire again and retry once.
RateLimited(c) ==
  /\ caller[c].pc = "sent" /\ ~caller[c].retry
  /\ caller' = [caller EXCEPT ![c].pc = "backoff", ![c].retry = TRUE, ![c].nap = Backoff]
  /\ UNCHANGED <<window, queue, ledger>>

Retry(c) ==
  /\ caller[c].pc = "backoff" /\ caller[c].nap = 0
  /\ caller' = [caller EXCEPT ![c].pc = "acquire"]
  /\ Ask(c)
  /\ UNCHANGED <<window, ledger>>

\* The request is over: an answer that weighs no more than estimated, any
\* answer to the retry, an error, or a timeout.
Done(c) ==
  /\ caller[c].pc = "sent"
  /\ caller' = [caller EXCEPT ![c] = Idle]
  /\ UNCHANGED <<window, queue, ledger>>

\* The first answer weighs more than estimated: the rest is recorded under
\* the lock, with no look at the budget.
Outweighs(c, extra) ==
  /\ caller[c].pc = "sent" /\ ~caller[c].retry
  /\ extra > 0
  /\ caller' = [caller EXCEPT ![c].pc = "extra", ![c].extra = extra]
  /\ Ask(c)
  /\ UNCHANGED <<window, ledger>>

RecordExtra(c) ==
  /\ Holds(c) /\ caller[c].pc = "extra"
  /\ window' = Recorded(window, caller[c].extra)
  /\ Book(caller[c].extra)
  /\ queue' = Tail(queue)
  /\ caller' = [caller EXCEPT ![c] = Idle]

\* Seeded fault: the naps are counted below zero.
TickOn ==
  /\ window' = window
  /\ ledger' = ledger
  /\ caller' = [c \in Callers |-> [caller[c] EXCEPT !.nap = @ - 1]]
  /\ UNCHANGED queue

\* A tick of the clock.  A coroutine that is due may run any time later.
Tick ==
  /\ window' = [t \in 0 .. Window + 1 |->
       CASE t = 0 -> 0
         [] t \in 1 .. Window -> window[t - 1]
         [] t = Window + 1 -> window[Window] + window[Window + 1]]
  /\ ledger' = [t \in 0 .. Window |-> IF t = 0 THEN 0 ELSE ledger[t - 1]]
  /\ caller' = [c \in Callers |->
       [caller[c] EXCEPT !.nap = IF @ > 0 THEN @ - 1 ELSE 0]]
  /\ UNCHANGED queue

Acquiring(c) == Admit(c) \/ Sleep(c) \/ RecordExtra(c)

Next ==
  \/ \E c \in Callers, e \in Endpoints : PostInfo(c, e)
  \/ \E c \in Callers : Acquiring(c) \/ RateLimited(c) \/ Retry(c) \/ Done(c)
  \/ \E c \in Callers : \E extra \in Extras[caller[c].endpoint] : Outweighs(c, extra)
  \/ Tick

\* Time passes, and a coroutine that can go on does.
Fairness ==
  /\ WF_vars(Tick)
  /\ \A c \in Callers : WF_vars(Acquiring(c))

Spec == Init /\ [][Next]_vars

FairSpec == Spec /\ Fairness

----------------------------------------------------------------------------
(* Properties                                                              *)

TypeOK ==
  /\ window \in [0 .. Window + 1 -> Nat]
  /\ \A i \in DOMAIN queue : queue[i] \in Callers
  /\ caller \in [Callers ->
       [pc : {"idle", "acquire", "sent", "backoff", "extra"}, endpoint : Endpoints,
        retry : BOOLEAN, nap : Nat, extra : Nat]]
  /\ ledger \in [0 .. Window -> Nat]

Spent == SumFunctionOnSet(ledger, 0 .. Window)

\* A request is let through only if all the weight recorded in the window
\* before it, the extra weight of answers included, leaves room for it.
AdmittedWithinBudget ==
  [][\A c \in Callers :
       caller[c].pc = "acquire" /\ caller'[c].pc = "sent" => Spent' <= Budget]_vars

\* One sleep is enough: when the holder's nap is over the budget is there,
\* because nothing is recorded while it sleeps with the lock.
OneNapIsEnough ==
  [][\A c \in Callers :
       caller[c].pc = "acquire" /\ caller[c].nap > 0 /\ caller'[c].nap = 0
         => Need(c)' <= 0]_vars

\* Every caller is served, whatever the others ask for and however heavy
\* their answers turn out to be.
CallersAreServed ==
  \A c \in Callers : caller[c].pc = "acquire" ~> caller[c].pc = "sent"

=============================================================================
