----------------------------- MODULE UsageLedger -----------------------------
(***************************************************************************)
(* Debiting Spoolman for prints: the ledger rows and their witnessed writes *)
(* (service/usage_ledger.py), the worker that settles running prints and    *)
(* closes ended ones (service/consumption_delivery.py), and the owner who   *)
(* resolves a print in review or moves its grams to another spool           *)
(* (service/usage_review.py).                                              *)
(*                                                                         *)
(* A settle or a credit is one call; its steps end at the awaits.  Calls    *)
(* are serialised by inventory.writes, which the worker holds for one       *)
(* settle and the owner for a whole request.  A gram is the least amount    *)
(* written (WRITE_MINIMUM_G).  A row that was never opened is a row of      *)
(* zeros.                                                                   *)
(***************************************************************************)
EXTENDS Integers, FiniteSets, Functions

CONSTANTS Attempts, Spools,
          MaxUse,        \* grams a print draws from each spool (a bound)
          Capacity,      \* grams on each spool at the start
          Cases,         \* the kinds of the prints, and how often each rare event may happen (bounds)
          EditSizes,     \* what the owner may add to used_weight in Spoolman
          ResolveStates, \* delivery states in which the owner resolves a print with no write,
          PlaceStates,   \* and in which the owner places its grams
          MoveStates     \* delivery states in which the owner moves its grams

Kinds == {"counted", "loose", "unplanned"}
Rare == {"crash", "resolve", "move", "edit", "archive", "late"}

ASSUME LedgerAssumption ==
    /\ MaxUse \in [Spools -> Nat] /\ Capacity \in [Spools -> Nat]
    /\ Spools \subseteq Nat /\ EditSizes \subseteq Int
    /\ \A c \in Cases : c.budget \in [Rare -> Nat] /\ c.kind \in [Attempts -> Kinds]
    /\ ResolveStates \subseteq {"shadow", "review"} /\ PlaceStates \subseteq {"shadow", "review"}
    /\ MoveStates \subseteq {"shadow", "review", "delivered"}

VARIABLES kind,       \* what the manifest allows: "counted", "loose" (a slot had no spool), "unplanned"
          use,        \* grams each print drew from each spool so far
          delivery,   \* "printing", then accounting_shadow_events.delivery_state
          resolution, \* usage_resolutions: the owner's action, or "none"
          row,        \* usage_ledger, by print and spool
          move,       \* usage_moves: the last move of each print
          failing,    \* failures: "none", "counting", or "over" past RETRY_BUDGET_S
          pass,       \* the worker's pass
          owner,      \* the owner's request that holds inventory.writes
          call,       \* the settle or credit in progress
          used, gone, \* Spoolman: used_weight; archived, or deleted
          budget,     \* which rare events may still happen
          applied, asked, \* history: grams our writes took; the most a row was asked for
          edited      \* history: somebody else has changed used_weight

records == <<kind, use, delivery, resolution, row, move>>
tasks == <<failing, pass, owner, call>>
world == <<used, gone, budget, edited>>
vars == <<kind, use, delivery, resolution, row, move, failing, pass, owner, call,
          used, gone, budget, applied, asked, edited>>

Pairs == Attempts \X Spools
Total(f, a) == FoldFunctionOnSet(+, 0, f, {a} \X Spools)
Written == [k \in Pairs |-> row[k].written]
Least(m, n) == IF m < n THEN m ELSE n
Most(m, n) == IF m < n THEN n ELSE m
Owned == [k \in Pairs |-> Least(row[k].written, row[k].counted)]   \* not over-charged

NewRow == [state |-> "open", counted |-> 0, written |-> 0, before |-> 0, delta |-> 0,
           reason |-> "none", recent |-> FALSE]
NoCall == [by |-> "nobody", step |-> "rest"]
NoOwner == [at |-> "none"]
NoMove == [state |-> "none"]
Asleep == [at |-> "sleep", running |-> {}, events |-> {}, cur |-> CHOOSE a \in Attempts : TRUE,
           todo |-> {}, final |-> FALSE, count |-> [s \in Spools |-> 0], found |-> FALSE,
           shut |-> {}]             \* history: the prints that were closed when the pass began

Free == owner = NoOwner /\ call = NoCall     \* inventory.writes
Spend(event) == budget[event] > 0 /\ budget' = [budget EXCEPT ![event] = @ - 1]

LedgerInit ==
    /\ \E c \in Cases : kind = c.kind /\ budget = c.budget
    /\ use = [k \in Pairs |-> 0]
    /\ delivery = [a \in Attempts |-> "printing"]
    /\ resolution = [a \in Attempts |-> "none"]
    /\ row = [k \in Pairs |-> NewRow]
    /\ move = [a \in Attempts |-> NoMove]
    /\ failing = [a \in Attempts |-> "none"]
    /\ pass = Asleep /\ owner = NoOwner /\ call = NoCall
    /\ used = [s \in Spools |-> 0] /\ gone = [s \in Spools |-> FALSE]
    /\ applied = [k \in Pairs |-> 0] /\ asked = [k \in Pairs |-> 0] /\ edited = FALSE

------------------------------------------------------------------------------
(* One call: settle() or credit().                                          *)

\* _settle_witness: used_weight moved by the delta, not at all, or otherwise (an edit).
Witnessed(r, now) ==
    LET landed == now - r.before # 0
    IN  [r EXCEPT !.state = "open", !.before = 0, !.delta = 0,
                  !.written = IF landed THEN @ + r.delta ELSE @,
                  !.recent = @ /\ landed]

Hold(r) == [r EXCEPT !.state = "held", !.reason = "gone"]

Finish(r, reason) == [r EXCEPT !.state = "done", !.reason = IF reason = "none" THEN @ ELSE reason]

\* The first statements of settle(): the count, a closed row reopened for more, and
\* which way the row's state sends the call.
SettleRow(r, counted) ==
    IF r.state = "done" /\ counted > r.written
    THEN [r EXCEPT !.counted = counted, !.state = "open", !.reason = "none"]
    ELSE [r EXCEPT !.counted = counted]

FirstUnwitnessed(r) == "plan"
First(r) == IF r.state = "sent" THEN "verify" ELSE "plan"

Settle(by, k, counted, final) ==
    LET r == SettleRow(row[k], counted)
    IN  /\ row' = [row EXCEPT ![k] = r]
        /\ call' = [by |-> by, key |-> k, counted |-> counted, final |-> final,
                    step |-> IF r.state \in {"held", "done"} THEN "done" ELSE First(r)]
        /\ asked' = [asked EXCEPT ![k] = Most(@, counted)]

Credit(k) ==
    call' = [by |-> "credit", key |-> k, step |-> First(row[k])]

Grams == move[call.key[1]].grams               \* of a credit
Floor == move[call.key[1]].before - Grams      \* written_g once the credit has landed

Key == call.key
Spool == call.key[2]
At(step) == call.step = step
Continue(step, r) == /\ call' = [call EXCEPT !.step = step]
                     /\ row' = [row EXCEPT ![Key] = r]
Return(r) == Continue("done", r)
Calm == UNCHANGED <<kind, use, delivery, resolution, move, failing, pass, owner, gone, asked, edited>>
Quiet == Calm /\ UNCHANGED budget

\* _read: Spoolman does not answer, says the spool is gone, or shows it.
Read(spoolman) == CASE spoolman = "silent" -> TRUE
                    [] spoolman = "gone" -> gone[Spool]
                    [] spoolman = "shown" -> ~gone[Spool]

\* A row left "sent" is witnessed before anything else.
CallVerify ==
    /\ At("verify")
    /\ \/ Read("silent") /\ Return(row[Key])
       \/ Read("gone") /\ Return(Hold(row[Key]))
       \/ Read("shown") /\ Continue("plan", Witnessed(row[Key], used[Spool]))
    /\ Quiet /\ UNCHANGED <<used, applied>>

\* _send records the write before it goes out.
Send(delta) == Continue("put", [row[Key] EXCEPT !.state = "sent", !.before = used[Spool],
                                               !.delta = delta, !.recent = TRUE])

Close(r, reason) == Return(IF call.final THEN Finish(r, reason) ELSE r)

\* An empty spool stops at zero.
AllOwed(owed) == owed
Available(owed) == Least(owed, Capacity[Spool] - used[Spool])

\* settle(), from the difference to the record of the write.
SettlePlan ==
    LET owed == call.counted - row[Key].written
        delta == Available(owed)
    IN  /\ At("plan") /\ call.by # "credit"
        /\ \/ owed < 1 /\ Close(row[Key], "none")
           \/ owed >= 1 /\ ~call.final /\ row[Key].recent /\ Return(row[Key])
           \/ /\ owed >= 1 /\ (call.final \/ ~row[Key].recent)
              /\ \/ Read("silent") /\ Return(row[Key])
                 \/ Read("gone") /\ Return(Hold(row[Key]))
                 \/ Read("shown") /\ delta < 1 /\ Close(row[Key], "empty")
                 \/ Read("shown") /\ delta >= 1 /\ Send(delta)
        /\ Quiet /\ UNCHANGED <<used, applied>>

\* credit(): a credit that landed earlier is not sent again.
NeverLanded(r) == FALSE
LandedEarlier(r) == r.written <= Floor
CreditPlan ==
    /\ At("plan") /\ call.by = "credit"
    /\ \/ LandedEarlier(row[Key]) /\ Return(row[Key])
       \/ /\ ~ LandedEarlier(row[Key])
          /\ \/ Read("silent") /\ Return(row[Key])
             \/ Read("gone") /\ Return(Hold(row[Key]))
             \/ Read("shown") /\ used[Spool] < Grams /\ Continue("refused", row[Key])
             \/ Read("shown") /\ used[Spool] >= Grams /\ Send(-Grams)
    /\ Quiet /\ UNCHANGED <<used, applied>>

Lands(k, delta) == /\ used' = [used EXCEPT ![k[2]] = @ + delta]
                   /\ applied' = [applied EXCEPT ![k] = @ + delta]

\* provider.write: whatever is answered, the verifying read decides.
CallPut ==
    LET delta == row[Key].delta
    IN  /\ At("put") /\ Continue("check", row[Key])
        /\ Lands(Key, delta) \/ UNCHANGED <<used, applied>>
        /\ Quiet

\* The count follows what was given back.
CountGivenBack(counted) == counted - Grams
CountAfterCredit(counted) == Most(0, counted - Grams)

\* The read after the write, the witness, and what settle() and credit() make of it.
Checked(r) ==
    CASE call.by = "credit" -> IF r.written <= Floor THEN [r EXCEPT !.counted = CountAfterCredit(@)] ELSE r
      [] call.by # "credit" /\ ~call.final -> r
      [] OTHER -> IF r.written >= call.counted THEN Finish(r, "none")
                  ELSE IF Capacity[Spool] - used[Spool] < 1 THEN Finish(r, "empty") ELSE r

CallCheck ==
    /\ At("check")
    /\ \/ Read("silent") /\ Return(row[Key])
       \/ Read("gone") /\ Return(Hold(row[Key]))
       \/ Read("shown") /\ Return(Checked(Witnessed(row[Key], used[Spool])))
    /\ Quiet /\ UNCHANGED <<used, applied>>

CallStep == CallVerify \/ SettlePlan \/ CreditPlan \/ CallPut \/ CallCheck

\* The write was still under way at its verifying read (the client gave up waiting), and lands now.
LandsLate ==
    /\ At("check") /\ Read("shown") /\ used[Spool] = row[Key].before /\ Spend("late")
    /\ Return(Checked(Witnessed(row[Key], used[Spool]))) /\ Lands(Key, row[Key].delta)
    /\ Calm

------------------------------------------------------------------------------
(* The printer and the count.                                               *)

Printer(a) == /\ delivery[a] = "printing"
              /\ UNCHANGED <<kind, resolution, row, move, tasks, world, applied, asked>>

\* observe() records a further layer: the plan counts more grams.
LayerAdvances(a) ==
    /\ Printer(a)
    /\ \E s \in Spools : use[<<a, s>>] < MaxUse[s] /\ use' = [use EXCEPT ![<<a, s>>] = @ + 1]
    /\ UNCHANGED delivery

\* A refill learnt late: layers already counted on one slot belong to another.
RefillLearnt(a) ==
    /\ Printer(a)
    /\ \E s, t \in Spools : /\ s # t /\ use[<<a, s>>] > 0 /\ use[<<a, t>>] < MaxUse[t]
                            /\ use' = [use EXCEPT ![<<a, s>>] = @ - 1, ![<<a, t>>] = @ + 1]
    /\ UNCHANGED delivery

\* The trigger accounting_terminal_shadow: the print ended, its debit is pending.
PrintEnds(a) ==
    /\ Printer(a)
    /\ delivery' = [delivery EXCEPT ![a] = "shadow"]
    /\ UNCHANGED use

------------------------------------------------------------------------------
(* The delivery worker.                                                     *)

Worker == UNCHANGED <<kind, use, resolution, move, owner, world, applied>>

PendingOrReview == {a \in Attempts : delivery[a] \in {"shadow", "review"}}
Pending == {a \in Attempts : delivery[a] = "shadow"}
Closed(a) == delivery[a] \in {"review", "delivered"}

\* printing_attempts() and pending_accounting_events(), read once per pass.
PassBegins ==
    /\ pass = Asleep
    /\ pass' = [Asleep EXCEPT !.at = "choose",
                              !.running = {a \in Attempts : delivery[a] = "printing"},
                              !.shut = {a \in Attempts : Closed(a)},
                              !.events = Pending]
    /\ Worker /\ UNCHANGED <<delivery, row, failing, call, asked>>

\* The pass is done with one print.
NextPrint == pass' = [Asleep EXCEPT !.at = "choose", !.running = pass.running, !.events = pass.events,
                                    !.shut = pass.shut]

Works(a, spools, final) ==
    pass' = [Asleep EXCEPT !.running = pass.running \ {a}, !.events = pass.events \ {a},
                           !.at = "settle", !.cur = a, !.todo = spools, !.final = final,
                           !.count = [s \in Spools |-> use[<<a, s>>]], !.shut = pass.shut]

\* close(found): it looks at the delivery state first.
Closes(a, found) ==
    pass' = [Asleep EXCEPT !.running = pass.running \ {a}, !.events = pass.events \ {a},
                           !.at = "look", !.cur = a, !.found = found, !.shut = pass.shut]

\* settle_running first, one running print after the other; then the ended ones.
PassTakes ==
    /\ pass.at = "choose"
    /\ \E a \in Attempts :
          \/ /\ a \in pass.running
             /\ LET fed == {s \in Spools : use[<<a, s>>] > 0}
                IN  Works(a, IF kind[a] = "unplanned" THEN {} ELSE fed, FALSE)
          \/ /\ pass.running = {} /\ a \in pass.events
             /\ \/ Total(use, a) = 0 /\ Closes(a, FALSE)       \* stopped before its first layer
                \/ kind[a] = "unplanned" /\ Closes(a, TRUE)
                \/ kind[a] # "unplanned" /\ Works(a, Spools, TRUE)
    /\ Worker /\ UNCHANGED <<delivery, row, failing, call, asked>>

PassSettles ==
    /\ pass.at = "settle" /\ Free
    /\ \E s \in pass.todo :
          /\ \A t \in pass.todo : s <= t
          /\ Settle("worker", <<pass.cur, s>>, pass.count[s], pass.final)
          /\ pass' = [pass EXCEPT !.todo = @ \ {s}]
    /\ Worker /\ UNCHANGED <<delivery, failing>>

SettleReturns ==
    /\ call.by = "worker" /\ At("done")
    /\ call' = NoCall
    /\ Worker /\ UNCHANGED <<delivery, row, failing, pass, asked>>

\* shortfalls_for: grams on a slot with no spool, and what a row still owes.
ShortfallsUnnamed(a, giveUp) == kind[a] = "loose"
Shortfalls(a, giveUp) ==
    \/ kind[a] = "loose"
    \/ \E s \in Spools : /\ row[<<a, s>>].counted > row[<<a, s>>].written
                         /\ \/ row[<<a, s>>].reason # "none"
                            \/ giveUp /\ row[<<a, s>>].state \in {"open", "sent"}

NeverGivesUp(a) == FALSE
GivesUp(a) == failing[a] = "over"

\* Every spool is settled: the event closes, is tried again next pass, or is given up.
PassDecides ==
    LET a == pass.cur
        unconfirmed == \E s \in Spools : row[<<a, s>>].state \in {"open", "sent"}
    IN  /\ pass.at = "settle" /\ pass.todo = {} /\ call.by # "worker"
        /\ \/ ~pass.final /\ NextPrint /\ UNCHANGED failing
           \/ /\ pass.final /\ unconfirmed /\ ~GivesUp(a)
              /\ failing' = [failing EXCEPT ![a] = "counting"] /\ NextPrint
           \/ /\ pass.final /\ (unconfirmed => GivesUp(a))
              /\ Closes(a, Shortfalls(a, unconfirmed)) /\ UNCHANGED failing
        /\ Worker /\ UNCHANGED <<delivery, row, call, asked>>

\* close(): a print the owner closed meanwhile stays as it is.
CloseLooks ==
    /\ pass.at = "look"
    /\ IF delivery[pass.cur] = "shadow" THEN pass' = [pass EXCEPT !.at = "close"] ELSE NextPrint
    /\ failing' = [failing EXCEPT ![pass.cur] = "none"]
    /\ Worker /\ UNCHANGED <<delivery, row, call, asked>>

CloseSets ==
    /\ pass.at = "close"
    /\ delivery' = [delivery EXCEPT ![pass.cur] = IF pass.found THEN "review" ELSE "delivered"]
    /\ NextPrint
    /\ Worker /\ UNCHANGED <<row, failing, call, asked>>

PassEnds ==
    /\ pass.at = "choose" /\ pass.running = {} /\ pass.events = {}
    /\ pass' = Asleep
    /\ Worker /\ UNCHANGED <<delivery, row, failing, call, asked>>

WorkerStep == \/ PassBegins \/ PassTakes \/ PassSettles \/ SettleReturns \/ PassDecides
              \/ CloseLooks \/ CloseSets \/ PassEnds

\* WRITE_INTERVAL_S passes.
IntervalPasses ==
    /\ \E k \in Pairs : row[k].recent
    /\ row' = [k \in Pairs |-> [row[k] EXCEPT !.recent = FALSE]]
    /\ UNCHANGED <<kind, use, delivery, resolution, move, tasks, world, applied, asked>>

\* RETRY_BUDGET_S passes since an ended print first went unconfirmed.
BudgetRunsOut(a) ==
    /\ failing[a] = "counting" /\ failing' = [failing EXCEPT ![a] = "over"]
    /\ UNCHANGED <<records, pass, owner, call, world, applied, asked>>

------------------------------------------------------------------------------
(* The owner.                                                               *)

Person == UNCHANGED <<kind, use, failing, pass, used, gone, applied, edited>>
Refused == owner' = NoOwner       \* an answer of 4xx: the lock is free again

\* resolve(): nothing, or charged elsewhere - no write, and the print is closed.
ResolvesNothing(a) ==
    /\ delivery[a] \in ResolveStates /\ Free /\ Spend("resolve")
    /\ resolution' = [resolution EXCEPT ![a] = "nothing"]
    /\ delivery' = [delivery EXCEPT ![a] = "delivered"]
    /\ Person /\ UNCHANGED <<row, move, owner, call, asked>>

\* resolve(): the grams the print should total on each spool named (_targets).
ResolvesCharge(a) ==
    /\ delivery[a] \in PlaceStates /\ Free /\ Spend("resolve")
    /\ \E named \in SUBSET Spools \ {{}} : \E want \in [named -> UNION {1..MaxUse[s] : s \in named}] :
          /\ \A s \in named : want[s] <= MaxUse[s]
          /\ owner' = [at |-> "resolve", a |-> a, todo |-> named, want |-> want]
    /\ Person /\ UNCHANGED <<delivery, resolution, row, move, call, asked>>

ResolveSettles ==
    /\ owner.at = "resolve" /\ call = NoCall
    /\ \E s \in owner.todo :
          /\ Settle("resolve", <<owner.a, s>>, owner.want[s], TRUE)
          /\ owner' = [owner EXCEPT !.todo = @ \ {s}]
    /\ Person /\ UNCHANGED <<delivery, resolution, move, budget>>

RefusalIfGone(r) == r.reason # "none"
Refusal(r) == r.reason # "none" \/ r.state \in {"open", "sent"}

ResolveReturns ==
    /\ call.by = "resolve" /\ At("done") /\ call' = NoCall
    /\ IF Refusal(row[Key]) THEN Refused ELSE UNCHANGED owner
    /\ Person /\ UNCHANGED <<delivery, resolution, row, move, budget, asked>>

ResolveEnds ==
    /\ owner.at = "resolve" /\ owner.todo = {} /\ call = NoCall
    /\ resolution' = [resolution EXCEPT ![owner.a] = "charge"]
    /\ delivery' = [delivery EXCEPT ![owner.a] = "delivered"]
    /\ owner' = NoOwner
    /\ Person /\ UNCHANGED <<row, move, call, budget, asked>>

\* reassign(): a new move is recorded, or the open one is taken up where it stopped.
Moves(a, from, to) ==
    /\ delivery[a] \in MoveStates /\ Free /\ Spend("move")
    /\ from # to /\ ~gone[to]
    /\ \/ /\ move[a].state \in {"none", "done"}
          /\ \E grams \in 1..row[<<a, from>>].written :
                move' = [move EXCEPT ![a] = [state |-> "started", from |-> from, to |-> to,
                                             grams |-> grams, before |-> row[<<a, from>>].written,
                                             total |-> Total(Written, a),
                                             owned |-> Total(Owned, a)]]
       \/ /\ move[a].state \in {"started", "credited"}
          /\ move[a].from = from /\ move[a].to = to
          /\ UNCHANGED move
    /\ owner' = [at |-> IF move'[a].state = "started" THEN "credit" ELSE "charge", a |-> a]
    /\ Person /\ UNCHANGED <<delivery, resolution, row, call, asked>>

From == <<owner.a, move[owner.a].from>>
To == <<owner.a, move[owner.a].to>>

MoveCredits ==
    /\ owner.at = "credit" /\ call = NoCall /\ Credit(From)
    /\ Person /\ UNCHANGED <<delivery, resolution, row, move, owner, budget, asked>>

CreditReturns ==
    /\ call.by = "credit" /\ call.step \in {"done", "refused"} /\ call' = NoCall
    /\ IF At("refused") \/ row[Key].reason # "none" \/ row[Key].written > Floor
       THEN Refused ELSE owner' = [owner EXCEPT !.at = "raise"]
    /\ Person /\ UNCHANGED <<delivery, resolution, row, move, budget, asked>>

\* raise_counted(), a transaction of its own,
MoveRaises ==
    LET counted == row[To].counted + move[owner.a].grams
    IN  /\ owner.at = "raise" /\ owner' = [owner EXCEPT !.at = "mark"]
        /\ row' = [row EXCEPT ![To].counted = counted]
        /\ asked' = [asked EXCEPT ![To] = Most(@, counted)]
        /\ Person /\ UNCHANGED <<delivery, resolution, move, call, budget>>

\* and set_move(state="credited"), the next one.
MoveMarks ==
    /\ owner.at = "mark" /\ owner' = [owner EXCEPT !.at = "charge"]
    /\ move' = [move EXCEPT ![owner.a].state = "credited"]
    /\ Person /\ UNCHANGED <<delivery, resolution, row, call, budget, asked>>

MoveSettles ==
    /\ owner.at = "charge" /\ call = NoCall
    /\ Settle("charge", To, row[To].counted, TRUE)
    /\ Person /\ UNCHANGED <<delivery, resolution, move, owner, budget>>

MoveEnds ==
    /\ call.by = "charge" /\ At("done") /\ call' = NoCall
    /\ owner' = NoOwner
    /\ move' = IF Refusal(row[Key]) THEN move ELSE [move EXCEPT ![owner.a].state = "done"]
    /\ Person /\ UNCHANGED <<delivery, resolution, row, budget, asked>>

OwnerStep == \/ ResolveSettles \/ ResolveReturns \/ ResolveEnds
             \/ MoveCredits \/ CreditReturns \/ MoveRaises \/ MoveMarks \/ MoveSettles \/ MoveEnds

------------------------------------------------------------------------------
(* Spoolman, and the process.                                               *)

OwnerEdits(s) ==
    /\ Spend("edit")
    /\ \E size \in EditSizes : used[s] + size >= 0 /\ used' = [used EXCEPT ![s] = @ + size]
    /\ edited' = TRUE
    /\ UNCHANGED <<records, tasks, gone, applied, asked>>

Archives(s) ==
    /\ ~gone[s] /\ Spend("archive") /\ gone' = [gone EXCEPT ![s] = TRUE]
    /\ UNCHANGED <<records, tasks, used, applied, asked, edited>>

\* The process stops and starts: rows stay, the tasks and `failures` do not.
Crash ==
    /\ Spend("crash")
    /\ failing' = [a \in Attempts |-> "none"]
    /\ pass' = Asleep /\ owner' = NoOwner /\ call' = NoCall
    /\ UNCHANGED <<records, used, gone, applied, asked, edited>>

Requests(a) == ResolvesNothing(a) \/ ResolvesCharge(a) \/ \E s, t \in Spools : Moves(a, s, t)
Spoolman == \E s \in Spools : OwnerEdits(s) \/ Archives(s)
Printing(a) == LayerAdvances(a) \/ RefillLearnt(a) \/ PrintEnds(a)

LedgerNext == \/ CallStep \/ LandsLate \/ WorkerStep \/ OwnerStep \/ IntervalPasses \/ Spoolman \/ Crash
              \/ \E a \in Attempts : Printing(a) \/ BudgetRunsOut(a) \/ Requests(a)

\* The worker's loop and every request go on; each HTTP call ends; time passes.
LedgerFairness == /\ WF_vars(CallStep) /\ WF_vars(WorkerStep) /\ WF_vars(OwnerStep)
                  /\ \A a \in Attempts : WF_vars(BudgetRunsOut(a))

LedgerSpec == LedgerInit /\ [][LedgerNext]_vars /\ LedgerFairness

------------------------------------------------------------------------------
(* Properties.                                                              *)

\* Every variable has its type (the records of the tables and of the tasks).
LedgerTypeOK ==
    /\ row \in [Pairs -> [state : {"open", "sent", "held", "done"}, counted : Nat, written : Int,
                          before : Int, delta : Int, reason : {"none", "gone", "empty"},
                          recent : BOOLEAN]]
    /\ delivery \in [Attempts -> {"printing", "shadow", "review", "delivered"}]
    /\ resolution \in [Attempts -> {"none", "nothing", "charge"}]
    /\ \A a \in Attempts : move[a].state \in {"none", "started", "credited", "done"}
    /\ pass.at \in {"sleep", "choose", "settle", "look", "close"}
    /\ owner.at \in {"none", "resolve", "credit", "raise", "mark", "charge"}
    /\ call.step \in {"rest", "verify", "plan", "put", "check", "done", "refused"}

\* Through lost answers, crashes and retries, each row implements ChargeOnce: a write goes
\* out only once the one before it is booked, and never past what the row was asked for.
ChargedOnce == INSTANCE ChargeOnce WITH Keys <- Pairs, charged <- applied, booked <- Written
ChargeOnceSpec == ChargedOnce!Spec

\* A print that waits for its owner, or is closed, is charged by the worker only when its owner
\* closed it in the middle of the pass that charges it: not by a later pass, and not once the
\* worker has closed it itself.
LeftAlone == \A k \in Pairs : Closed(k[1]) /\ applied'[k] # applied[k] /\ call.by = "worker"
                             => resolution[k[1]] # "none" /\ k[1] \notin pass.shut
ClosedIsLeftAlone == [][LeftAlone]_vars

\* A print the worker closed as delivered has every gram it used on record.
DeliveredIsCharged ==
    \A a \in Attempts :
        /\ delivery[a] = "delivered" /\ resolution[a] = "none" /\ move[a] = NoMove
        => /\ kind[a] = "counted" \/ Total(use, a) = 0
           /\ \A s \in Spools : row[<<a, s>>].written >= use[<<a, s>>]

\* A finished move loses no gram that was both counted and charged before it, whatever
\* crash or lost answer came between its two writes.
MoveNeverLoses ==
    [][\A a \in Attempts : move'[a].state = "done" /\ move[a].state # "done"
                            => Total(Owned, a)' >= move[a].owned]_vars

\* "Nothing is ever lost or counted twice" (usage_review.py:277).
MoveCountsOnce ==
    \A a \in Attempts : move[a].state = "done" => Total(Written, a) <= move[a].total

\* A move refused before its charge side gave nothing back ("Nothing is ever lost").
RefusedMoveGaveNothing ==
    [][owner.at = "credit" /\ owner'.at = "none" /\ At("done")
       => row[Key].written > Floor]_vars

\* An empty spool stops at zero: nothing the bridge writes takes it below.
SpoolStopsAtZero == ~ edited => \A s \in Spools : used[s] <= Capacity[s]

\* What the owner closed is charged no more, and stays closed; the pass under way breaks both.
ResolvedIsLeftAlone ==
    [][\A k \in Pairs : resolution[k[1]] # "none" /\ applied'[k] # applied[k] => call.by # "worker"]_vars
ResolvedStaysClosed ==
    \A a \in Attempts : resolution[a] # "none" => delivery[a] = "delivered"

\* "re-verified before anything else goes to that spool" (usage_ledger.py:11)
VerifiedFirst ==
    At("put") => \A k \in Pairs : k[2] = Spool /\ k # Key => row[k].state # "sent"

\* An ended print does not stay pending, even when Spoolman never answers again.
PendingCloses ==
    \A a \in Attempts : delivery[a] = "shadow" ~> delivery[a] # "shadow"

\* A delivery's row, its charge and the spool's weight agree, at every step of every pass.
LedgerSound == LedgerTypeOK /\ DeliveredIsCharged /\ SpoolStopsAtZero
=============================================================================
