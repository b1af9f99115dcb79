-------------------------- MODULE UsageLedgerProofs --------------------------
(***************************************************************************)
(* The ledger implements ChargeOnce, the worker leaves closed prints alone, *)
(* and nothing the bridge writes takes a spool below empty, for every       *)
(* number of spools, every use, every capacity and every number of crashes, *)
(* resolutions, moves, edits and archivings.                                *)
(***************************************************************************)
EXTENDS UsageLedger, TLAPS

SomePrint == Attempts # {}

(***************************************************************************)
(* The scope of the refinement.  A witness reads one number, the spool's    *)
(* used_weight, so two writers of it at once are told apart only when one   *)
(* is not ours and adds to it: no two prints share a spool, an edit by      *)
(* somebody else never undoes a charge, and a move, which gives grams back, *)
(* is not mixed with edits.  A write that lands after its verifying read is *)
(* taken for one that did not, so none does.  Crashes, lost answers,        *)
(* archivings, resolutions and repeated moves may meet as they like.        *)
(***************************************************************************)
Alone == /\ SomePrint /\ \A a, b \in Attempts : a = b
         /\ EditSizes \subseteq Nat
         /\ \A c \in Cases : c.budget["edit"] = 0 \/ c.budget["move"] = 0
         /\ \A c \in Cases : c.budget["late"] = 0

(***************************************************************************)
(* The invariant.                                                          *)
(***************************************************************************)
LedgerRow(recent) == [state : {"open", "sent", "held", "done"}, counted : Int, written : Int,
                      before : Int, delta : Int, reason : {"none", "gone", "empty"},
                      recent : {recent}]
RowTyped(r) == r \in LedgerRow(r.recent)
Steps == {"verify", "plan", "put", "check", "done", "refused"}
Settlers == {"worker", "resolve", "charge"}

\* A move on record; what was charged of its print at its start matters to nothing here.
Moved(a) == move[a].state # "none"
MoveTyped(a) ==
    \/ move[a] = NoMove
    \/ move[a] \in [state : {"started", "credited", "done"}, from : Spools, to : Spools,
                    grams : Nat \ {0}, before : Int,
                    total : {move[a].total}, owned : {move[a].owned}]

RecordsTyped == /\ DOMAIN row = Pairs /\ \A k \in Pairs : RowTyped(row[k])
                /\ used \in [Spools -> Int] /\ DOMAIN gone = Spools
                /\ applied \in [Pairs -> Int] /\ asked \in [Pairs -> Int]
                /\ use \in [Pairs -> Int] /\ budget \in [Rare -> Nat]
                /\ DOMAIN move = Attempts /\ \A a \in Attempts : MoveTyped(a)

PassTyped == /\ pass.cur \in Attempts /\ pass.todo \subseteq Spools
             /\ pass.count \in [Spools -> Int]
             /\ DOMAIN pass = DOMAIN Asleep

OwnerTyped ==
    \/ owner = NoOwner
    \/ /\ owner.at = "resolve"
       /\ owner \in [at : {"resolve"}, a : Attempts, todo : SUBSET Spools, want : {owner.want}]
       /\ \A s \in owner.todo : owner.want[s] \in Int
    \/ /\ owner \in [at : {"credit", "raise", "mark", "charge"}, a : Attempts]
       /\ Moved(owner.a)

\* A settle asks for no more than was asked of its row; a credit and a charge belong to a
\* move.
CallTyped ==
    \/ call = NoCall
    \/ /\ call \in [by : {"credit"}, key : Pairs, step : Steps]
       /\ Moved(Key[1]) /\ owner.at = "credit"
    \/ /\ call.by \in Settlers
       /\ call \in [by : Settlers, key : Pairs, counted : Int, final : {call.final}, step : Steps]
       /\ call.counted <= asked[Key] /\ (call.by = "charge" => owner.at = "charge")

LedgerTyped == RecordsTyped /\ PassTyped /\ OwnerTyped /\ CallTyped

\* What was taken and is not on record, and how the spool has moved since the write was
\* recorded.
Unbooked(k) == applied[k] - row[k].written
Shift(k) == used[k[2]] - row[k].before

\* A write on record as sent: what the witness will make of the spool's weight is right, or
\* on the safe side when somebody else changed it.
SentFits(k) ==
    /\ row[k].delta # 0
    /\ row[k].written + row[k].delta <= asked[k]
    /\ row[k].delta < 0 => \E a \in Attempts : Moved(a)
    /\ ~ edited => Unbooked(k) = Shift(k) /\ Unbooked(k) \in {0, row[k].delta}
    /\ edited => /\ 0 < row[k].delta /\ 0 <= Shift(k)
                 /\ Unbooked(k) <= Shift(k) /\ Unbooked(k) <= row[k].delta

RowBooked(k) ==
    /\ row[k].written <= asked[k]
    /\ row[k].state = "sent" => SentFits(k)
    /\ row[k].state \in {"open", "done"} => Unbooked(k) <= 0 /\ (~ edited => Unbooked(k) = 0)
    /\ row[k].state = "held" => gone[k[2]]

\* Where the call stands agrees with the row it is about.
CallFits ==
    call # NoCall =>
        /\ At("verify") \/ At("check") => row[Key].state = "sent"
        /\ At("plan") => /\ row[Key].state # "sent"
                         /\ call.by # "credit" => row[Key].state = "open"
        /\ At("put") => /\ row[Key].state = "sent" /\ Unbooked(Key) <= 0
                        /\ ~ edited => Unbooked(Key) = 0

\* Edits by others and moves never meet, and no write lands late.
Apart == /\ budget["late"] = 0
         /\ \/ budget["edit"] = 0 /\ ~ edited
            \/ budget["move"] = 0 /\ \A a \in Attempts : ~ Moved(a)

BookedInv == (\A k \in Pairs : RowBooked(k)) /\ CallFits /\ Apart

(***************************************************************************)
(* Types.                                                                  *)
(***************************************************************************)
LEMMA Budgets ==
    ASSUME LedgerTyped, NEW event \in Rare, Spend(event)
    PROVE  /\ budget' \in [Rare -> Nat] /\ budget[event] > 0
           /\ \A e \in Rare : budget'[e] <= budget[e]
BY DEF LedgerTyped, RecordsTyped, Spend

LEMMA InitTyped == SomePrint /\ LedgerInit => LedgerTyped
<1> SUFFICES ASSUME SomePrint, LedgerInit PROVE LedgerTyped
  OBVIOUS
<1>1. RecordsTyped
  <2>1. RowTyped(NewRow)
    BY DEF NewRow, RowTyped, LedgerRow
  <2>2. budget \in [Rare -> Nat]
    BY LedgerAssumption DEF LedgerInit
  <2>3. \A a \in Attempts : move[a] = NoMove
    BY DEF LedgerInit
  <2> QED
    BY <2>1, <2>2, <2>3 DEF LedgerInit, RecordsTyped, MoveTyped
<1>2. PassTyped
  BY DEF LedgerInit, PassTyped, Asleep, SomePrint
<1>3. OwnerTyped /\ CallTyped
  BY DEF LedgerInit, OwnerTyped, CallTyped
<1> QED
  BY <1>1, <1>2, <1>3 DEF LedgerTyped

\* A call that is in progress names its row and the spool.
LEMMA CallKey ==
    ASSUME LedgerTyped, call # NoCall
    PROVE  /\ Key \in Pairs /\ Key = <<Key[1], Spool>> /\ Key[1] \in Attempts /\ Spool \in Spools
           /\ RowTyped(row[Key]) /\ used[Spool] \in Int /\ applied[Key] \in Int
<1>1. Key \in Pairs
  BY DEF LedgerTyped, CallTyped, Key
<1> QED
  BY <1>1 DEF LedgerTyped, RecordsTyped, Pairs, Key, Spool

\* What a call leaves is typed when the row is.
LEMMA ContinueTyped ==
    ASSUME LedgerTyped, call # NoCall, NEW r, RowTyped(r), NEW step \in Steps, Continue(step, r),
           Calm, used' \in [Spools -> Int], applied' \in [Pairs -> Int], budget' \in [Rare -> Nat]
    PROVE  LedgerTyped'
<1>1. RecordsTyped'
  BY CallKey DEF LedgerTyped, RecordsTyped, Continue, Calm, MoveTyped
<1>2. PassTyped' /\ OwnerTyped'
  BY DEF LedgerTyped, PassTyped, OwnerTyped, Calm, Moved
<1>3. CallTyped'
  BY DEF LedgerTyped, CallTyped, Continue, Calm, Moved, Key
<1> QED
  BY <1>1, <1>2, <1>3 DEF LedgerTyped

\* The rows that a call writes are rows.
LEMMA RowsTyped ==
    ASSUME NEW r, RowTyped(r), NEW now \in Int, NEW n \in Int
    PROVE  /\ RowTyped(Witnessed(r, now)) /\ RowTyped(Hold(r))
           /\ RowTyped(Finish(r, "none")) /\ RowTyped(Finish(r, "empty"))
           /\ RowTyped(SettleRow(r, n)) /\ RowTyped([r EXCEPT !.counted = n])
           /\ RowTyped([r EXCEPT !.recent = FALSE])
           /\ RowTyped([r EXCEPT !.state = "sent", !.before = now, !.delta = n, !.recent = TRUE])
<1> USE DEF RowTyped, LedgerRow
<1>1. RowTyped(Witnessed(r, now))
  <2> DEFINE landed == now - r.before # 0
             written == IF landed THEN r.written + r.delta ELSE r.written
             recent == r.recent /\ landed
  <2>1. written \in Int
    OBVIOUS
  <2>2. Witnessed(r, now) = [r EXCEPT !.state = "open", !.before = 0, !.delta = 0,
                                      !.written = written, !.recent = recent]
    BY Zenon DEF Witnessed
  <2>3. ASSUME NEW z \in Int, NEW w \in Int, NEW b
        PROVE  RowTyped([r EXCEPT !.state = "open", !.before = z, !.delta = z,
                                  !.written = w, !.recent = b])
    OBVIOUS
  <2>5. 0 \in Int
    OBVIOUS
  <2> HIDE DEF RowTyped
  <2>4. RowTyped([r EXCEPT !.state = "open", !.before = 0, !.delta = 0,
                           !.written = written, !.recent = recent])
    BY <2>1, <2>3, <2>5, Zenon
  <2> QED
    BY <2>2, <2>4, Zenon
<1>2. RowTyped(Hold(r)) /\ RowTyped(Finish(r, "none")) /\ RowTyped(Finish(r, "empty"))
  BY DEF Hold, Finish
<1>3. RowTyped(SettleRow(r, n))
  BY DEF SettleRow
<1> QED
  BY <1>1, <1>2, <1>3

LEMMA AtIsCall ==
    ASSUME NEW step \in Steps, At(step)
    PROVE  call # NoCall
BY DEF At, NoCall, Steps

LEMMA GramsTyped ==
    ASSUME LedgerTyped, call # NoCall, call.by = "credit"
    PROVE  Grams \in Nat \ {0} /\ Floor \in Int /\ Moved(Key[1])
<1>1. Moved(Key[1]) /\ Key[1] \in Attempts
  BY CallKey DEF LedgerTyped, CallTyped, Settlers
<1> QED
  BY <1>1 DEF LedgerTyped, RecordsTyped, MoveTyped, Moved, Grams, Floor, Key, NoMove

LEMMA CountedTyped ==
    ASSUME LedgerTyped, call # NoCall, call.by # "credit"
    PROVE  call.counted \in Int /\ call.counted <= asked[Key]
BY DEF LedgerTyped, CallTyped

LEMMA CheckedTyped ==
    ASSUME LedgerTyped, call # NoCall
    PROVE  RowTyped(Checked(Witnessed(row[Key], used[Spool])))
<1> DEFINE w == Witnessed(row[Key], used[Spool])
<1>1. RowTyped(w)
  BY CallKey, RowsTyped
<1>2. CASE call.by = "credit"
  <2>1. w.counted \in Int /\ CountAfterCredit(w.counted) \in Int
    BY <1>1, <1>2, GramsTyped DEF CountAfterCredit, Most, RowTyped, LedgerRow
  <2>2. RowTyped([w EXCEPT !.counted = CountAfterCredit(w.counted)])
    BY <1>1, <2>1, CallKey, RowsTyped
  <2> QED
    BY <1>1, <1>2, <2>2 DEF Checked
<1>3. CASE call.by # "credit"
  <2>1. RowTyped(Finish(w, "none")) /\ RowTyped(Finish(w, "empty"))
    BY <1>1, CallKey, RowsTyped
  <2> QED
    BY <1>1, <1>3, <2>1 DEF Checked
<1> QED
  BY <1>2, <1>3

\* Every step of a call writes a row that is one.
LEMMA CallStepTyped == LedgerTyped /\ CallStep => LedgerTyped'
<1> SUFFICES ASSUME LedgerTyped, CallStep PROVE LedgerTyped'
  OBVIOUS
<1>1. /\ call # NoCall /\ Calm /\ UNCHANGED budget
      /\ call.step \in {"verify", "plan", "put", "check"}
  BY AtIsCall DEF CallStep, CallVerify, SettlePlan, CreditPlan, CallPut, CallCheck, Steps, At, Quiet
<1> DEFINE r == row[Key]
<1>2. RowTyped(r) /\ used[Spool] \in Int /\ Spool \in Spools /\ Key \in Pairs
  BY <1>1, CallKey
<1>3. used \in [Spools -> Int] /\ applied \in [Pairs -> Int] /\ budget' \in [Rare -> Nat]
  BY <1>1 DEF LedgerTyped, RecordsTyped
<1>4. ASSUME NEW step \in Steps, NEW n, RowTyped(n), Continue(step, n), UNCHANGED <<used, applied>>
      PROVE  LedgerTyped'
  BY <1>1, <1>3, <1>4, ContinueTyped
<1>5. ASSUME NEW n, RowTyped(n), Return(n), UNCHANGED <<used, applied>>
      PROVE  LedgerTyped'
  BY <1>4, <1>5 DEF Return, Steps
<1>6. RowTyped(Hold(r)) /\ RowTyped(Witnessed(r, used[Spool]))
  BY <1>2, RowsTyped
<1>7. CASE CallVerify
  BY <1>2, <1>4, <1>5, <1>6, <1>7 DEF CallVerify, Steps
<1>8. ASSUME NEW delta \in Int, Send(delta), UNCHANGED <<used, applied>>
      PROVE  LedgerTyped'
  <2>1. RowTyped([r EXCEPT !.state = "sent", !.before = used[Spool], !.delta = delta, !.recent = TRUE])
    BY <1>2, RowsTyped
  <2> QED
    BY <1>4, <1>8, <2>1 DEF Send, Steps
<1>9. CASE SettlePlan
  <2> DEFINE owed == call.counted - r.written
             delta == Available(owed)
  <2>1. delta \in Int
    BY <1>2, <1>1, <1>9, CountedTyped, LedgerAssumption
       DEF SettlePlan, Available, Least, RowTyped, LedgerRow
  <2>2. ASSUME NEW reason \in {"none", "empty"}, Close(r, reason), UNCHANGED <<used, applied>>
        PROVE  LedgerTyped'
    <3>1. RowTyped(Finish(r, reason))
      BY <1>2, RowsTyped
    <3> QED
      BY <1>2, <1>5, <2>2, <3>1 DEF Close
  <2> QED
    BY <1>2, <1>5, <1>6, <1>8, <1>9, <2>1, <2>2 DEF SettlePlan
<1>10. CASE CreditPlan
  <2>1. -Grams \in Int
    BY <1>1, <1>10, GramsTyped DEF CreditPlan
  <2> QED
    BY <1>2, <1>4, <1>5, <1>6, <1>8, <1>10, <2>1 DEF CreditPlan, Steps
<1>11. CASE CallPut
  <2>1. r.delta \in Int
    BY <1>2 DEF RowTyped, LedgerRow
  <2>2. used' \in [Spools -> Int] /\ applied' \in [Pairs -> Int]
    BY <1>2, <1>3, <1>11, <2>1 DEF CallPut, Lands, Spool, Key
  <2> QED
    BY <1>1, <1>2, <1>3, <1>11, <2>2, ContinueTyped DEF CallPut, Steps
<1>12. CASE CallCheck
  BY <1>1, <1>2, <1>5, <1>6, <1>12, CheckedTyped DEF CallCheck
<1> QED
  BY <1>7, <1>9, <1>10, <1>11, <1>12 DEF CallStep

LEMMA LateTyped == LedgerTyped /\ LandsLate => LedgerTyped'
<1> SUFFICES ASSUME LedgerTyped, LandsLate PROVE LedgerTyped'
  OBVIOUS
<1>1. call # NoCall
  BY AtIsCall DEF LandsLate, Steps
<1>2. budget' \in [Rare -> Nat]
  BY Budgets DEF LandsLate, Rare
<1>3. row[Key].delta \in Int
  BY <1>1, CallKey DEF RowTyped, LedgerRow
<1>4. used' \in [Spools -> Int] /\ applied' \in [Pairs -> Int]
  BY <1>1, <1>3, CallKey DEF LandsLate, Lands, LedgerTyped, RecordsTyped, Spool, Key
<1> QED
  BY <1>1, <1>2, <1>4, CheckedTyped, ContinueTyped DEF LandsLate, Return, Steps

\* A settle opens a typed call, on a row that stays one.
LEMMA SettleTyped ==
    ASSUME LedgerTyped, NEW by \in Settlers, NEW k \in Pairs, NEW counted \in Int, NEW final,
           Settle(by, k, counted, final), by = "charge" => owner'.at = "charge",
           UNCHANGED <<use, move, used, gone, budget, applied>>
    PROVE  RecordsTyped' /\ CallTyped'
<1> DEFINE r == SettleRow(row[k], counted)
<1>1. RowTyped(r)
  BY RowsTyped DEF LedgerTyped, RecordsTyped
<1>2. RecordsTyped'
  <2>1. Most(asked[k], counted) \in Int
    BY DEF LedgerTyped, RecordsTyped, Most
  <2> QED
    BY <1>1, <2>1 DEF LedgerTyped, RecordsTyped, Settle, MoveTyped
<1>3. call'.counted <= asked'[call'.key]
  BY DEF Settle, LedgerTyped, RecordsTyped, Most
<1>4. call'.step \in Steps
  BY DEF Settle, Steps, First
<1>5. CallTyped'
  BY <1>3, <1>4 DEF Settle, CallTyped, Settlers, Key
<1> QED
  BY <1>2, <1>5

LEMMA CallOwner ==
    ASSUME LedgerTyped
    PROVE  /\ call.by = "credit" => owner.at = "credit"
           /\ call.by = "charge" => owner.at = "charge"
BY DEF LedgerTyped, CallTyped, NoCall, Settlers

\* The records of the tables and the tasks that an action leaves alone stay typed.
LEMMA RecordsFrame ==
    ASSUME LedgerTyped, UNCHANGED <<use, row, move, used, gone, budget, applied, asked>>
    PROVE  RecordsTyped'
BY DEF LedgerTyped, RecordsTyped, MoveTyped

LEMMA TasksFrame ==
    ASSUME LedgerTyped
    PROVE  /\ UNCHANGED pass => PassTyped'
           /\ UNCHANGED <<move, owner>> => OwnerTyped'
           /\ UNCHANGED <<move, owner, call, asked>> => CallTyped'
           /\ call' = NoCall => CallTyped'
           /\ owner' = NoOwner => OwnerTyped'
BY DEF LedgerTyped, PassTyped, OwnerTyped, CallTyped, Moved, Key

LEMMA WorkerTyped == SomePrint /\ LedgerTyped /\ WorkerStep => LedgerTyped'
<1> SUFFICES ASSUME SomePrint, LedgerTyped, WorkerStep PROVE LedgerTyped'
  OBVIOUS
<1>1. UNCHANGED <<use, move, used, gone, budget, applied, owner>>
  BY DEF WorkerStep, Worker, world, PassBegins, PassTakes, PassSettles, SettleReturns, PassDecides,
         CloseLooks, CloseSets, PassEnds
<1>2. ASSUME UNCHANGED <<row, asked, call>>, PassTyped' PROVE LedgerTyped'
  BY <1>1, <1>2, RecordsFrame, TasksFrame DEF LedgerTyped
<1>3. PassTyped
  BY DEF LedgerTyped
<1>4. Asleep.cur \in Attempts /\ Asleep.count \in [Spools -> Int] /\ Asleep.todo = {}
  BY DEF Asleep, SomePrint
<1>5. NextPrint \/ pass' = Asleep => PassTyped'
  BY <1>3, <1>4 DEF PassTyped, NextPrint, Asleep
<1>6. CASE PassBegins
  <2>1. PassTyped'
    BY <1>4, <1>6 DEF PassBegins, PassTyped, Asleep
  <2> QED
    BY <1>2, <1>6, <2>1 DEF PassBegins
<1>7. ASSUME NEW a \in Attempts, NEW spools \in SUBSET Spools, NEW final, Works(a, spools, final)
      PROVE  PassTyped'
  <2>1. \A s \in Spools : use[<<a, s>>] \in Int
    BY DEF LedgerTyped, RecordsTyped, Pairs
  <2> QED
    BY <1>7, <2>1 DEF Works, PassTyped, Asleep
<1>8. ASSUME NEW a \in Attempts, NEW found, Closes(a, found)
      PROVE  PassTyped'
  BY <1>4, <1>8 DEF Closes, PassTyped, Asleep
<1>9. CASE PassTakes
  <2>1. PassTyped'
    BY <1>7, <1>8, <1>9 DEF PassTakes
  <2> QED
    BY <1>2, <1>9, <2>1 DEF PassTakes
<1>10. CASE PassSettles
  <2>1. PICK s \in pass.todo :
            /\ Settle("worker", <<pass.cur, s>>, pass.count[s], pass.final)
            /\ pass' = [pass EXCEPT !.todo = @ \ {s}]
    BY <1>10 DEF PassSettles
  <2>2. <<pass.cur, s>> \in Pairs /\ pass.count[s] \in Int
    BY <1>3 DEF PassTyped, Pairs
  <2>3. RecordsTyped' /\ CallTyped'
    BY <1>1, <2>1, <2>2, SettleTyped DEF Settlers
  <2>4. PassTyped'
    BY <1>3, <2>1 DEF PassTyped
  <2> QED
    BY <1>1, <2>3, <2>4, TasksFrame DEF LedgerTyped
<1>11. CASE SettleReturns
  BY <1>1, <1>11, RecordsFrame, TasksFrame DEF SettleReturns, LedgerTyped
<1>12. CASE PassDecides
  <2>1. PassTyped'
    BY <1>3, <1>5, <1>8, <1>12 DEF PassDecides, PassTyped
  <2> QED
    BY <1>2, <1>12, <2>1 DEF PassDecides
<1>13. CASE CloseLooks
  <2>1. PassTyped'
    <3>1. NextPrint \/ pass' = [pass EXCEPT !.at = "close"]
      BY <1>13 DEF CloseLooks
    <3>2. pass' = [pass EXCEPT !.at = "close"] => PassTyped'
      BY <1>3 DEF PassTyped
    <3> QED
      BY <1>5, <3>1, <3>2
  <2> QED
    BY <1>2, <1>13, <2>1 DEF CloseLooks
<1>14. CASE CloseSets \/ PassEnds
  BY <1>2, <1>5, <1>14 DEF CloseSets, PassEnds
<1> QED
  BY <1>6, <1>9, <1>10, <1>11, <1>12, <1>13, <1>14 DEF WorkerStep

\* A request of the owner that is under way has a move, between two spools.
LEMMA MovingOwner ==
    ASSUME LedgerTyped, owner.at \in {"credit", "raise", "mark", "charge"}
    PROVE  /\ owner.a \in Attempts /\ Moved(owner.a)
           /\ move[owner.a] \in [state : {"started", "credited", "done"}, from : Spools, to : Spools,
                                 grams : Nat \ {0}, before : Int,
                                 total : {move[owner.a].total}, owned : {move[owner.a].owned}]
           /\ From \in Pairs /\ To \in Pairs /\ RowTyped(row[To])
           /\ \A at \in {"credit", "raise", "mark", "charge"} :
                  [owner EXCEPT !.at = at] \in [at : {"credit", "raise", "mark", "charge"}, a : Attempts]
                  /\ [owner EXCEPT !.at = at].a = owner.a
<1>1. owner \in [at : {"credit", "raise", "mark", "charge"}, a : Attempts] /\ Moved(owner.a)
  BY DEF LedgerTyped, OwnerTyped, NoOwner
<1>2. MoveTyped(owner.a) /\ move[owner.a] # NoMove
  BY <1>1 DEF LedgerTyped, RecordsTyped, Moved, NoMove
<1>3. From \in Pairs /\ To \in Pairs
  BY <1>1, <1>2 DEF MoveTyped, From, To, Pairs
<1> QED
  BY <1>1, <1>2, <1>3 DEF MoveTyped, LedgerTyped, RecordsTyped

\* The owner's requests, from their first step to their last.
LEMMA OwnerStepTyped == LedgerTyped /\ OwnerStep => LedgerTyped'
<1> SUFFICES ASSUME LedgerTyped, OwnerStep PROVE LedgerTyped'
  OBVIOUS
<1>1. UNCHANGED <<use, pass, used, gone, applied>>
  BY DEF OwnerStep, Person, ResolveSettles, ResolveReturns, ResolveEnds, MoveCredits, CreditReturns,
         MoveRaises, MoveMarks, MoveSettles, MoveEnds
<1>2. PassTyped'
  BY <1>1, TasksFrame
<1>3. ASSUME UNCHANGED <<row, move, budget, asked>>, OwnerTyped', CallTyped' PROVE LedgerTyped'
  BY <1>1, <1>2, <1>3, RecordsFrame DEF LedgerTyped
<1>4. CallTyped /\ owner.at \in {"raise", "mark"} /\ UNCHANGED <<call, asked>>
          /\ (\A a \in Attempts : Moved(a) => Moved(a)') => CallTyped'
  BY CallOwner DEF CallTyped, Moved, Key, Settlers, Pairs, NoCall
<1>5. CallTyped
  BY DEF LedgerTyped
<1>6. CASE ResolveSettles
  <2>1. owner \in [at : {"resolve"}, a : Attempts, todo : SUBSET Spools, want : {owner.want}]
        /\ \A s \in owner.todo : owner.want[s] \in Int
    BY <1>6 DEF ResolveSettles, LedgerTyped, OwnerTyped, NoOwner
  <2>2. PICK s \in owner.todo :
            /\ Settle("resolve", <<owner.a, s>>, owner.want[s], TRUE)
            /\ owner' = [owner EXCEPT !.todo = @ \ {s}]
    BY <1>6 DEF ResolveSettles
  <2>3. RecordsTyped' /\ CallTyped'
    BY <1>1, <1>6, <2>1, <2>2, SettleTyped DEF Settlers, Pairs, ResolveSettles
  <2>4. OwnerTyped'
    BY <2>1, <2>2 DEF OwnerTyped
  <2> QED
    BY <1>2, <2>3, <2>4 DEF LedgerTyped
<1>7. CASE ResolveReturns
  BY <1>3, <1>7, TasksFrame DEF ResolveReturns, Refused
<1>8. CASE ResolveEnds
  BY <1>3, <1>8, TasksFrame DEF ResolveEnds
<1>9. CASE MoveCredits
  <2>1. Moved(owner.a) /\ From \in Pairs /\ From[1] = owner.a
    BY MovingOwner, <1>9 DEF MoveCredits, From
  <2>2. CallTyped'
    BY <1>9, <2>1 DEF MoveCredits, Credit, CallTyped, First, Steps, Key, Moved
  <2> QED
    BY <1>3, <1>9, <2>2, TasksFrame DEF MoveCredits
<1>10. CASE CreditReturns
  <2>1. owner' = NoOwner \/ owner' = [owner EXCEPT !.at = "raise"]
    BY <1>10 DEF CreditReturns, Refused
  <2>2. owner.at = "credit" /\ UNCHANGED <<row, move, budget, asked>> /\ call' = NoCall
    BY <1>10, CallOwner DEF CreditReturns
  <2>3. OwnerTyped'
    BY MovingOwner, <2>1, <2>2 DEF OwnerTyped, Moved
  <2> QED
    BY <1>3, <2>2, <2>3, TasksFrame
<1>11. CASE MoveRaises
  <2> DEFINE counted == row[To].counted + move[owner.a].grams
  <2>1. /\ owner.at = "raise" /\ owner' = [owner EXCEPT !.at = "mark"]
        /\ row' = [row EXCEPT ![To] = [row[To] EXCEPT !.counted = counted]]
        /\ asked' = [asked EXCEPT ![To] = Most(asked[To], counted)]
        /\ UNCHANGED <<move, call, budget>>
    BY <1>11 DEF MoveRaises
  <2>2. counted \in Int
    BY MovingOwner, <2>1 DEF RowTyped, LedgerRow
  <2>3. Most(asked[To], counted) \in Int /\ asked[To] <= Most(asked[To], counted)
    BY MovingOwner, <2>1, <2>2 DEF Most, LedgerTyped, RecordsTyped
  <2>4. RowTyped([row[To] EXCEPT !.counted = counted])
    BY MovingOwner, <2>1, <2>2, RowsTyped
  <2>5. RecordsTyped'
    BY <1>1, MovingOwner, <2>1, <2>3, <2>4 DEF LedgerTyped, RecordsTyped, MoveTyped
  <2>6. OwnerTyped'
    BY MovingOwner, <2>1 DEF OwnerTyped, Moved
  <2>7. \A k \in Pairs : asked[k] <= asked'[k]
    BY MovingOwner, <2>1, <2>3 DEF LedgerTyped, RecordsTyped
  <2>8. CallTyped'
    BY <1>5, <2>1, <2>7, <2>5, CallOwner
       DEF CallTyped, Moved, Key, Settlers, NoCall, LedgerTyped, RecordsTyped
  <2> QED
    BY <1>2, <2>5, <2>6, <2>8 DEF LedgerTyped
<1>12. CASE MoveMarks \/ MoveEnds
  <2>1. PICK state \in {"credited", "done"} :
            /\ owner.at \in {"mark", "charge"} /\ UNCHANGED <<row, budget, asked>>
            /\ move' = move \/ move' = [move EXCEPT ![owner.a] = [move[owner.a] EXCEPT !.state = state]]
    BY <1>12, CallOwner DEF MoveMarks, MoveEnds
  <2>2. \A a \in Attempts : Moved(a) => Moved(a)'
    BY MovingOwner, <2>1 DEF Moved, LedgerTyped, RecordsTyped
  <2>3. RecordsTyped'
    <3>1. ASSUME NEW a \in Attempts PROVE MoveTyped(a)'
      <4> DEFINE m == move[a]
                 n == [m EXCEPT !.state = state]
      <4>1. a = owner.a =>
                n \in [state : {"started", "credited", "done"}, from : Spools, to : Spools,
                       grams : Nat \ {0}, before : Int, total : {n.total}, owned : {n.owned}]
        BY MovingOwner, <2>1
      <4>2. move'[a] = m \/ (a = owner.a /\ move'[a] = n)
        BY MovingOwner, <2>1 DEF LedgerTyped, RecordsTyped
      <4> HIDE DEF n
      <4>3. CASE move'[a] = m
        BY <4>3 DEF MoveTyped, LedgerTyped, RecordsTyped
      <4>4. CASE a = owner.a /\ move'[a] = n
        BY <4>1, <4>4 DEF MoveTyped
      <4> QED
        BY <4>2, <4>3, <4>4
    <3> QED
      BY <1>1, MovingOwner, <2>1, <3>1 DEF LedgerTyped, RecordsTyped
  <2>4. OwnerTyped' /\ CallTyped'
    <3>1. CASE MoveMarks
      BY MovingOwner, <1>4, <1>5, <2>2, <3>1 DEF MoveMarks, OwnerTyped
    <3>2. CASE MoveEnds
      BY <3>2, TasksFrame DEF MoveEnds
    <3> QED
      BY <1>12, <3>1, <3>2
  <2> QED
    BY <1>2, <2>3, <2>4 DEF LedgerTyped
<1>13. CASE MoveSettles
  <2>1. /\ owner.at = "charge" /\ UNCHANGED <<owner, move, budget>>
        /\ Settle("charge", To, row[To].counted, TRUE)
    BY <1>13 DEF MoveSettles
  <2>2. To \in Pairs /\ row[To].counted \in Int
    BY MovingOwner, <2>1 DEF RowTyped, LedgerRow
  <2>3. RecordsTyped' /\ CallTyped'
    BY <1>1, <2>1, <2>2, SettleTyped DEF Settlers
  <2> QED
    BY <1>2, <2>1, <2>3, TasksFrame DEF LedgerTyped
<1> QED
  BY <1>6, <1>7, <1>8, <1>9, <1>10, <1>11, <1>12, <1>13 DEF OwnerStep

\* Everything else: the printer, the owner's requests, Spoolman, time and crashes.
LEMMA RestTyped ==
    /\ SomePrint /\ LedgerTyped
    /\ \/ IntervalPasses \/ Spoolman \/ Crash
       \/ \E a \in Attempts : Printing(a) \/ BudgetRunsOut(a) \/ Requests(a)
    => LedgerTyped'
<1> SUFFICES ASSUME SomePrint, LedgerTyped,
                    \/ IntervalPasses \/ Spoolman \/ Crash
                    \/ \E a \in Attempts : Printing(a) \/ BudgetRunsOut(a) \/ Requests(a)
             PROVE  LedgerTyped'
  OBVIOUS
<1>1. RecordsTyped /\ PassTyped /\ OwnerTyped /\ CallTyped
  BY DEF LedgerTyped
<1>2. ASSUME UNCHANGED <<pass, owner, call, move, asked>>, RecordsTyped' PROVE LedgerTyped'
  BY <1>2, TasksFrame DEF LedgerTyped
<1>3. CASE IntervalPasses
  <2>1. \A k \in Pairs : RowTyped([row[k] EXCEPT !.recent = FALSE])
    BY <1>1, RowsTyped DEF RecordsTyped
  <2>2. RecordsTyped'
    BY <1>1, <1>3, <2>1 DEF IntervalPasses, RecordsTyped, MoveTyped, world
  <2> QED
    BY <1>2, <1>3, <2>2 DEF IntervalPasses, tasks
<1>4. CASE Spoolman
  <2>1. PICK s \in Spools : OwnerEdits(s) \/ Archives(s)
    BY <1>4 DEF Spoolman
  <2>2. budget' \in [Rare -> Nat] /\ UNCHANGED <<row, use, move, applied, asked, pass, owner, call>>
    BY <2>1, Budgets DEF OwnerEdits, Archives, Rare, records, tasks
  <2>3. used' \in [Spools -> Int] /\ DOMAIN gone' = Spools
    <3>1. CASE OwnerEdits(s)
      <4>1. PICK size \in EditSizes : used' = [used EXCEPT ![s] = used[s] + size]
        BY <3>1 DEF OwnerEdits
      <4>2. used[s] + size \in Int
        BY <1>1, LedgerAssumption DEF RecordsTyped
      <4> QED
        BY <1>1, <3>1, <4>1, <4>2 DEF OwnerEdits, RecordsTyped
    <3>2. CASE Archives(s)
      BY <1>1, <3>2 DEF Archives, RecordsTyped
    <3> QED
      BY <2>1, <3>1, <3>2
  <2>4. RecordsTyped'
    BY <1>1, <2>2, <2>3 DEF RecordsTyped, MoveTyped
  <2> QED
    BY <1>2, <2>2, <2>4
<1>5. CASE Crash
  <2>1. budget' \in [Rare -> Nat]
    BY <1>5, Budgets DEF Crash, Rare
  <2>2. RecordsTyped'
    BY <1>1, <1>5, <2>1 DEF Crash, RecordsTyped, MoveTyped, records
  <2>3. PassTyped'
    BY <1>5 DEF Crash, PassTyped, Asleep, SomePrint
  <2> QED
    BY <1>5, <2>2, <2>3, TasksFrame DEF Crash, LedgerTyped
<1>6. ASSUME NEW a \in Attempts, Printing(a) PROVE LedgerTyped'
  <2>1. use' \in [Pairs -> Int]
    <3>1. \A s \in Spools : <<a, s>> \in Pairs /\ use[<<a, s>>] \in Int
      BY <1>1 DEF RecordsTyped, Pairs
    <3>2. CASE LayerAdvances(a)
      <4>1. PICK s \in Spools : use' = [use EXCEPT ![<<a, s>>] = use[<<a, s>>] + 1]
        BY <3>2 DEF LayerAdvances
      <4>2. use[<<a, s>>] + 1 \in Int
        BY <3>1
      <4> QED
        BY <1>1, <3>1, <4>1, <4>2 DEF RecordsTyped
    <3>3. CASE RefillLearnt(a)
      <4>1. PICK s \in Spools, t \in Spools :
                s # t /\ use' = [use EXCEPT ![<<a, s>>] = @ - 1, ![<<a, t>>] = @ + 1]
        BY <3>3 DEF RefillLearnt
      <4>2. \A k \in Pairs : use'[k] \in {use[k], use[k] - 1, use[k] + 1}
        BY <1>1, <3>1, <4>1 DEF RecordsTyped
      <4>3. \A k \in Pairs : use'[k] \in Int
        BY <1>1, <4>2 DEF RecordsTyped
      <4>4. use' = [k \in Pairs |-> use'[k]]
        BY <1>1, <4>1 DEF RecordsTyped
      <4> QED
        BY <4>3, <4>4
    <3>4. CASE PrintEnds(a)
      BY <1>1, <3>4 DEF PrintEnds, RecordsTyped
    <3> QED
      BY <1>6, <3>2, <3>3, <3>4 DEF Printing
  <2>2. UNCHANGED <<row, move, used, gone, budget, applied, asked, pass, owner, call>>
    BY <1>6 DEF Printing, LayerAdvances, RefillLearnt, PrintEnds, Printer, world, tasks
  <2>3. RecordsTyped'
    BY <1>1, <2>1, <2>2 DEF RecordsTyped, MoveTyped
  <2> QED
    BY <1>2, <2>2, <2>3
<1>7. ASSUME NEW a \in Attempts, BudgetRunsOut(a) PROVE LedgerTyped'
  BY <1>2, <1>7, RecordsFrame DEF BudgetRunsOut, records, world
<1>8. ASSUME NEW a \in Attempts, Requests(a) PROVE LedgerTyped'
  <2>1. /\ UNCHANGED <<use, row, pass, used, gone, applied, asked, call>> /\ Free
        /\ budget' \in [Rare -> Nat]
    BY <1>8, Budgets DEF Requests, ResolvesNothing, ResolvesCharge, Moves, Person, Rare
  <2>2. PassTyped' /\ CallTyped'
    BY <2>1, TasksFrame DEF Free
  <2>3. CASE ResolvesNothing(a) \/ ResolvesCharge(a)
    <3>1. UNCHANGED move
      BY <2>3 DEF ResolvesNothing, ResolvesCharge, Person
    <3>2. RecordsTyped'
      BY <1>1, <2>1, <3>1 DEF RecordsTyped, MoveTyped
    <3>3. OwnerTyped'
      <4>1. CASE ResolvesNothing(a)
        BY <3>1, <4>1, TasksFrame DEF ResolvesNothing
      <4>2. CASE ResolvesCharge(a)
        <5>1. PICK named \in SUBSET Spools \ {{}} :
              \E want \in [named -> UNION {1..MaxUse[s] : s \in named}] :
                  owner' = [at |-> "resolve", a |-> a, todo |-> named, want |-> want]
          BY <4>2 DEF ResolvesCharge
        <5>2. PICK want \in [named -> UNION {1..MaxUse[s] : s \in named}] :
                  owner' = [at |-> "resolve", a |-> a, todo |-> named, want |-> want]
          BY <5>1
        <5>3. \A s \in named : want[s] \in Int
          BY LedgerAssumption
        <5> QED
          BY <5>2, <5>3 DEF OwnerTyped
      <4> QED
        BY <2>3, <4>1, <4>2
    <3> QED
      BY <2>2, <3>2, <3>3 DEF LedgerTyped
  <2>4. ASSUME NEW from \in Spools, NEW to \in Spools, Moves(a, from, to) PROVE LedgerTyped'
    <3>1. MoveTyped(a)' /\ Moved(a)'
      <4>1. CASE \E grams \in 1..row[<<a, from>>].written :
                    move' = [move EXCEPT ![a] = [state |-> "started", from |-> from, to |-> to,
                                             grams |-> grams, before |-> row[<<a, from>>].written,
                                             total |-> Total(Written, a),
                                             owned |-> Total(Owned, a)]]
        <5>1. row[<<a, from>>].written \in Int
          BY <1>1 DEF RecordsTyped, RowTyped, LedgerRow, Pairs
        <5> HIDE DEF Total, Written, Owned
        <5> QED
          BY <1>1, <4>1, <5>1 DEF RecordsTyped, MoveTyped, Moved
      <4>2. CASE move[a].state \in {"started", "credited"} /\ UNCHANGED move
        BY <1>1, <4>2 DEF RecordsTyped, MoveTyped, Moved
      <4> QED
        BY <2>4, <4>1, <4>2 DEF Moves
    <3>2. DOMAIN move' = Attempts /\ \A b \in Attempts \ {a} : move'[b] = move[b]
      BY <1>1, <2>4 DEF Moves, RecordsTyped
    <3>3. RecordsTyped'
      BY <1>1, <2>1, <3>1, <3>2 DEF RecordsTyped, MoveTyped
    <3>4. OwnerTyped'
      BY <2>4, <3>1 DEF Moves, OwnerTyped
    <3>5. CallTyped'
      BY <2>1 DEF Free, CallTyped
    <3>6. PassTyped'
      BY <2>1, TasksFrame
    <3> QED
      BY <3>3, <3>4, <3>5, <3>6 DEF LedgerTyped
  <2> QED
    BY <1>8, <2>3, <2>4 DEF Requests
<1> QED
  BY <1>3, <1>4, <1>5, <1>6, <1>7, <1>8

\* The typed part of the invariant holds in every behaviour.
LEMMA TypedHolds == SomePrint => (LedgerSpec => []LedgerTyped)
<1> SUFFICES ASSUME SomePrint PROVE LedgerSpec => []LedgerTyped
  OBVIOUS
<1>1. LedgerInit => LedgerTyped
  BY InitTyped
<1>2. LedgerTyped /\ [LedgerNext]_vars => LedgerTyped'
  <2>1. LedgerTyped /\ LedgerNext => LedgerTyped'
    BY CallStepTyped, LateTyped, WorkerTyped, OwnerStepTyped, RestTyped DEF LedgerNext
  <2>2. LedgerTyped /\ UNCHANGED vars => LedgerTyped'
    BY RecordsFrame, TasksFrame DEF vars, LedgerTyped
  <2> QED
    BY <2>1, <2>2
<1> QED
  BY <1>1, <1>2, PTL DEF LedgerSpec

(***************************************************************************)
(* The witness.                                                            *)
(***************************************************************************)
\* A print alone on its spools: no other row is about the spool of a row.
LEMMA OwnSpool ==
    ASSUME Alone, NEW j \in Pairs, NEW k \in Pairs, j # k
    PROVE  j[2] # k[2]
BY DEF Alone, Pairs

LEMMA RowFields ==
    ASSUME LedgerTyped, NEW k \in Pairs
    PROVE  /\ row[k].written \in Int /\ row[k].before \in Int /\ row[k].delta \in Int
           /\ row[k].counted \in Int /\ row[k].state \in {"open", "sent", "held", "done"}
           /\ applied[k] \in Int /\ asked[k] \in Int
           /\ k[1] \in Attempts /\ k[2] \in Spools /\ used[k[2]] \in Int
BY DEF LedgerTyped, RecordsTyped, RowTyped, LedgerRow, Pairs

\* What the witness reads of a row is as it was.
SameRow(k) == /\ row'[k].state = row[k].state /\ row'[k].written = row[k].written
              /\ row'[k].before = row[k].before /\ row'[k].delta = row[k].delta

\* What goes on around the rows only grows.
Grows == /\ \A k \in Pairs : asked[k] <= asked'[k]
         /\ \A s \in Spools : gone[s] => gone'[s]
         /\ \A a \in Attempts : Moved(a) => Moved(a)'

LEMMA RowKeeps ==
    ASSUME LedgerTyped, LedgerTyped', NEW k \in Pairs, RowBooked(k), SameRow(k), Grows,
           used'[k[2]] = used[k[2]], applied'[k] = applied[k], edited' = edited
    PROVE  RowBooked(k)'
<1>1. asked'[k] \in Int
  BY DEF LedgerTyped, RecordsTyped
<1> USE RowFields DEF SameRow, Grows
<1>2. row[k].written <= asked'[k] /\ row[k].written + row[k].delta <= asked[k] =>
          row[k].written + row[k].delta <= asked'[k]
  BY <1>1
<1>3. Unbooked(k)' = Unbooked(k) /\ Shift(k)' = Shift(k)
  BY DEF Unbooked, Shift
<1>4. SentFits(k) => SentFits(k)'
  BY <1>1, <1>2, <1>3 DEF SentFits
<1> QED
  BY <1>1, <1>3, <1>4 DEF RowBooked

\* Nothing that the witness reads changes, and the call goes on, is over or never was.
LEMMA AllKeep ==
    ASSUME LedgerTyped, LedgerTyped', BookedInv, \A k \in Pairs : SameRow(k), Grows,
           UNCHANGED <<used, applied, edited>>, Apart', call' = call \/ call' = NoCall
    PROVE  BookedInv'
<1>1. \A k \in Pairs : RowBooked(k)'
  BY RowKeeps DEF BookedInv
<1>2. CallFits'
  <2>1. CASE call' = NoCall
    BY <2>1 DEF CallFits
  <2>2. CASE call' = call /\ call # NoCall
    <3>1. Key \in Pairs /\ Key' = Key
      BY <2>2, CallKey DEF Key
    <3>2. Unbooked(Key)' = Unbooked(Key) /\ row'[Key].state = row[Key].state
      BY <3>1 DEF Unbooked, SameRow
    <3> QED
      BY <2>2, <3>1, <3>2 DEF BookedInv, CallFits, At
  <2> QED
    BY <2>1, <2>2
<1> QED
  BY <1>1, <1>2 DEF BookedInv

\* Nothing that ChargeOnce knows of changes.
LEMMA Stutters ==
    ASSUME LedgerTyped, LedgerTyped', \A k \in Pairs : row'[k].written = row[k].written,
           UNCHANGED <<asked, applied, edited>>
    PROVE  UNCHANGED ChargedOnce!ledger
<1>1. Written' = Written
  BY DEF Written
<1> QED
  BY <1>1 DEF ChargedOnce!ledger

LEMMA ApartKeeps ==
    ASSUME Apart, LedgerTyped, edited' = edited, UNCHANGED move, budget' \in [Rare -> Nat],
           \A e \in Rare : budget'[e] <= budget[e]
    PROVE  Apart'
BY DEF Apart, LedgerTyped, RecordsTyped, Moved, Rare

(***************************************************************************)
(* The steps of a call.                                                    *)
(***************************************************************************)
\* A step writes the row of the call and nothing else that the witness reads.
LEMMA OthersKeep ==
    ASSUME Alone, LedgerTyped, LedgerTyped', BookedInv, call # NoCall, Quiet,
           NEW r, row' = [row EXCEPT ![Key] = r],
           \A s \in Spools \ {Spool} : used'[s] = used[s],
           \A k \in Pairs \ {Key} : applied'[k] = applied[k],
           RowBooked(Key)'
    PROVE  Key' = Key /\ Apart' => (\A k \in Pairs : RowBooked(k)') /\ Apart'
<1> SUFFICES ASSUME Key' = Key, Apart', NEW k \in Pairs PROVE RowBooked(k)'
  OBVIOUS
<1>1. Key \in Pairs /\ Spool = Key[2]
  BY CallKey DEF Key, Spool
<1>2. CASE k = Key
  BY <1>2
<1>3. CASE k # Key
  <2>1. k[2] \in Spools \ {Spool}
    BY <1>1, <1>3, OwnSpool, RowFields
  <2>2. SameRow(k) /\ Grows
    BY <1>1, <1>3, RowFields DEF SameRow, Grows, Quiet, Calm, LedgerTyped, RecordsTyped, Moved
  <2>3. RowBooked(k)
    BY DEF BookedInv
  <2> QED
    BY <1>3, <2>1, <2>2, <2>3, RowKeeps DEF Quiet, Calm
<1> QED
  BY <1>2, <1>3

\* What a step of a call writes: its row, with or without a write that lands.
LEMMA StepKeeps ==
    ASSUME Alone, LedgerTyped, LedgerTyped', BookedInv, call # NoCall, Quiet,
           NEW step \in Steps, NEW r, Continue(step, r),
           \A s \in Spools \ {Spool} : used'[s] = used[s],
           \A k \in Pairs \ {Key} : applied'[k] = applied[k],
           RowBooked(Key)',
           step \in {"verify", "check"} => r.state = "sent",
           step = "plan" => r.state = "open",
           step = "put" => /\ r.state = "sent" /\ applied'[Key] - r.written <= 0
                           /\ ~ edited => applied'[Key] - r.written = 0
    PROVE  BookedInv'
<1>1. /\ Key' = Key /\ Key \in Pairs /\ row' = [row EXCEPT ![Key] = r] /\ row'[Key] = r
      /\ call'.step = step
  BY CallKey DEF Continue, Key, LedgerTyped, RecordsTyped, CallTyped
<1>2. Apart'
  BY DEF BookedInv, Apart, Quiet, Calm, Moved
<1>3. \A k \in Pairs : RowBooked(k)'
  BY <1>1, <1>2, OthersKeep
<1>4. CallFits'
  BY <1>1 DEF CallFits, At, Unbooked, Quiet, Calm
<1> QED
  BY <1>2, <1>3, <1>4 DEF BookedInv

\* A step that leaves what the witness reads of its row.
LEMMA PlainStep ==
    ASSUME Alone, LedgerTyped, LedgerTyped', BookedInv, call # NoCall, Quiet,
           NEW step \in {"done", "refused"}, NEW r, Continue(step, r), UNCHANGED <<used, applied>>,
           r.written = row[Key].written,
           \/ /\ r.state = row[Key].state /\ r.before = row[Key].before /\ r.delta = row[Key].delta
           \/ r.state = "held" /\ gone[Spool]
           \/ r.state \in {"open", "done"} /\ row[Key].state \in {"open", "done"}
    PROVE  BookedInv' /\ UNCHANGED ChargedOnce!ledger
<1>1. Key \in Pairs /\ Spool = Key[2] /\ row'[Key] = r
  BY CallKey DEF Key, Spool, Continue, LedgerTyped, RecordsTyped
<1>2. RowBooked(Key)
  BY <1>1 DEF BookedInv
<1>3. Unbooked(Key) = (applied'[Key] - row'[Key].written)
  BY <1>1 DEF Unbooked
<1>4. Key' = Key
  BY DEF Continue, Key, LedgerTyped, CallTyped
<1>5. RowBooked(Key)'
  <2>1. CASE r.state = row[Key].state /\ r.before = row[Key].before /\ r.delta = row[Key].delta
    <3>1. SameRow(Key)
      BY <1>1, <2>1 DEF SameRow
    <3>2. Grows
      BY <1>1, RowFields DEF Grows, Quiet, Calm, Moved
    <3>3. \A k \in Pairs : k = Key => RowBooked(k)'
      BY <1>1, <1>2, <3>1, <3>2, RowKeeps DEF Quiet, Calm
    <3> QED
      BY <1>1, <1>4, <3>3
  <2>2. CASE r.state = "held" /\ gone[Spool]
    BY <1>1, <1>2, <1>4, <2>2 DEF RowBooked, Quiet, Calm
  <2>3. CASE r.state \in {"open", "done"} /\ row[Key].state \in {"open", "done"}
    BY <1>1, <1>2, <1>4, <2>3 DEF RowBooked, Quiet, Calm, Unbooked
  <2> QED
    BY <2>1, <2>2, <2>3
<1>6. BookedInv'
  BY <1>5, StepKeeps DEF Steps
<1>7. \A k \in Pairs : row'[k].written = row[k].written
  BY <1>1, RowFields DEF Continue, LedgerTyped, RecordsTyped
<1> QED
  BY <1>6, <1>7, Stutters DEF Quiet, Calm

\* The witness of a write: what it puts on record is what was taken, or no less than that
\* when somebody else has changed the spool, and no more than was asked for.
LEMMA WitnessIsRight ==
    ASSUME LedgerTyped, NEW k \in Pairs, RowBooked(k), row[k].state = "sent"
    PROVE  LET w == Witnessed(row[k], used[k[2]])
           IN  /\ w.state = "open" /\ w.written \in Int /\ w.written <= asked[k]
               /\ applied[k] <= w.written
               /\ ~ edited => applied[k] = w.written
<1> DEFINE r == row[k]
           w == Witnessed(r, used[k[2]])
<1>1. /\ r.written \in Int /\ r.before \in Int /\ r.delta \in Int /\ used[k[2]] \in Int
      /\ applied[k] \in Int /\ asked[k] \in Int
  BY RowFields
<1>2. RowTyped(r)
  BY DEF LedgerTyped, RecordsTyped
<1>3. SentFits(k) /\ r.written <= asked[k]
  BY DEF RowBooked
<1>4. CASE Shift(k) # 0
  <2>1. w.state = "open" /\ w.written = r.written + r.delta
    BY <1>2, <1>4 DEF Witnessed, Shift, RowTyped, LedgerRow
  <2> QED
    BY <1>1, <1>3, <1>4, <2>1 DEF SentFits, Unbooked
<1>5. CASE Shift(k) = 0
  <2>1. w.state = "open" /\ w.written = r.written
    BY <1>2, <1>5 DEF Witnessed, Shift, RowTyped, LedgerRow
  <2> QED
    BY <1>1, <1>3, <1>5, <2>1 DEF SentFits, Unbooked
<1> QED
  BY <1>4, <1>5

\* A step that puts on record what was taken.
LEMMA BookStep ==
    ASSUME Alone, LedgerTyped, LedgerTyped', BookedInv, call # NoCall, Quiet,
           NEW step \in {"plan", "done"}, NEW r, Continue(step, r), UNCHANGED <<used, applied>>,
           r.state \in {"open", "done"}, step = "plan" => r.state = "open", r.written \in Int, r.written <= asked[Key],
           applied[Key] <= r.written, ~ edited => applied[Key] = r.written
    PROVE  BookedInv' /\ \E k \in Pairs : ChargedOnce!Book(k)
<1>1. /\ Key \in Pairs /\ Spool = Key[2] /\ Key' = Key
      /\ row' = [row EXCEPT ![Key] = r] /\ row'[Key] = r /\ DOMAIN row = Pairs
  BY CallKey DEF Key, Spool, Continue, LedgerTyped, RecordsTyped, CallTyped
<1>2. applied[Key] \in Int
  BY <1>1, RowFields
<1>3. RowBooked(Key)'
  BY <1>1, <1>2 DEF RowBooked, Unbooked, Quiet, Calm
<1>4. BookedInv'
  BY <1>3, StepKeeps DEF Steps
<1>5. Written'[Key] = r.written /\ Written' = [Written EXCEPT ![Key] = r.written]
  BY <1>1 DEF Written
<1>6. ChargedOnce!Book(Key)
  BY <1>2, <1>5 DEF ChargedOnce!Book, ChargedOnce!Moves, Quiet, Calm
<1> QED
  BY <1>1, <1>4, <1>6

\* The record of a write, before it goes out.
LEMMA SendStep ==
    ASSUME Alone, LedgerTyped, LedgerTyped', BookedInv, call # NoCall, Quiet,
           NEW delta \in Int, Send(delta), UNCHANGED <<used, applied>>,
           row[Key].state \in {"open", "done"}, delta # 0,
           row[Key].written + delta <= asked[Key],
           delta < 0 => \E a \in Attempts : Moved(a)
    PROVE  BookedInv' /\ UNCHANGED ChargedOnce!ledger
<1> DEFINE r == [row[Key] EXCEPT !.state = "sent", !.before = used[Spool],
                                 !.delta = delta, !.recent = TRUE]
<1>1. /\ Key \in Pairs /\ Spool = Key[2] /\ Key' = Key /\ Continue("put", r)
      /\ row' = [row EXCEPT ![Key] = r] /\ row'[Key] = r /\ DOMAIN row = Pairs
  BY CallKey DEF Key, Spool, Send, Continue, LedgerTyped, RecordsTyped, CallTyped
<1>2. /\ r.state = "sent" /\ r.written = row[Key].written /\ r.before = used[Spool]
      /\ r.delta = delta
  BY <1>1, CallKey DEF RowTyped, LedgerRow
<1> HIDE DEF r
<1>3. /\ applied[Key] \in Int /\ used[Spool] \in Int /\ row[Key].written \in Int
      /\ asked[Key] \in Int
  BY <1>1, RowFields
<1>4. RowBooked(Key) /\ Apart
  BY <1>1 DEF BookedInv
<1>5. applied[Key] - r.written <= 0 /\ (~ edited => applied[Key] - r.written = 0)
  BY <1>2, <1>4 DEF RowBooked, Unbooked
<1>6. edited => 0 < delta
  BY <1>4 DEF Apart
<1>7. SentFits(Key)'
  <2>1. Unbooked(Key)' = applied[Key] - r.written /\ Shift(Key)' = 0
    BY <1>1, <1>2, <1>3 DEF Unbooked, Shift
  <2>2. (\E a \in Attempts : Moved(a)) => (\E a \in Attempts : Moved(a)')
    BY DEF Moved, Quiet, Calm
  <2> QED
    BY <1>1, <1>2, <1>3, <1>5, <1>6, <2>1, <2>2 DEF SentFits, Quiet, Calm
<1>8. RowBooked(Key)'
  BY <1>1, <1>2, <1>4, <1>7 DEF RowBooked, Quiet, Calm
<1>9. BookedInv'
  BY <1>1, <1>2, <1>5, <1>8, StepKeeps DEF Steps
<1>10. \A k \in Pairs : row'[k].written = row[k].written
  BY <1>1, <1>2
<1> QED
  BY <1>9, <1>10, Stutters DEF Quiet, Calm

\* A write lands, or is lost.
LEMMA PutStep ==
    ASSUME Alone, LedgerTyped, LedgerTyped', BookedInv, CallPut
    PROVE  BookedInv' /\ [ChargedOnce!Next]_(ChargedOnce!ledger)
<1> DEFINE r == row[Key]
<1>1. /\ call # NoCall /\ Quiet /\ Continue("check", r) /\ At("put")
  BY AtIsCall DEF CallPut, Steps
<1>2. /\ Key \in Pairs /\ Spool = Key[2] /\ Spool \in Spools /\ Key' = Key
      /\ \A k \in Pairs : row'[k] = row[k]
  BY <1>1, CallKey DEF Key, Spool, Continue, LedgerTyped, RecordsTyped, CallTyped
<1>3. /\ r.written \in Int /\ r.delta \in Int /\ r.before \in Int
      /\ applied[Key] \in Int /\ asked[Key] \in Int /\ used[Spool] \in Int
      /\ DOMAIN applied = Pairs /\ DOMAIN used = Spools
  BY <1>2, RowFields DEF LedgerTyped, RecordsTyped
<1>4. /\ r.state = "sent" /\ SentFits(Key) /\ Unbooked(Key) <= 0
      /\ ~ edited => Unbooked(Key) = 0
      /\ r.written <= asked[Key]
  BY <1>1, <1>2 DEF BookedInv, CallFits, RowBooked
<1>5. CASE Lands(Key, r.delta)
  <2>1. /\ used' = [used EXCEPT ![Spool] = used[Spool] + r.delta]
        /\ applied' = [applied EXCEPT ![Key] = applied[Key] + r.delta]
    BY <1>2, <1>5 DEF Lands
  <2>2. /\ used'[Spool] = used[Spool] + r.delta /\ applied'[Key] = applied[Key] + r.delta
        /\ \A s \in Spools \ {Spool} : used'[s] = used[s]
        /\ \A k \in Pairs \ {Key} : applied'[k] = applied[k]
    BY <1>2, <1>3, <2>1
  <2>3. SentFits(Key)'
    <3>1. Unbooked(Key)' = Unbooked(Key) + r.delta /\ Shift(Key)' = Shift(Key) + r.delta
      BY <1>2, <1>3, <2>2 DEF Unbooked, Shift
    <3>2. (\E a \in Attempts : Moved(a)) => (\E a \in Attempts : Moved(a)')
      BY <1>1 DEF Moved, Quiet, Calm
    <3> QED
      BY <1>1, <1>2, <1>3, <1>4, <3>1, <3>2 DEF SentFits, Quiet, Calm, Unbooked, Shift
  <2>4. RowBooked(Key)'
    BY <1>1, <1>2, <1>4, <2>3 DEF RowBooked, Quiet, Calm
  <2>5. BookedInv'
    BY <1>1, <1>4, <2>2, <2>4, StepKeeps DEF Steps
  <2>6. ChargedOnce!Charge(Key)
    <3>1. Written[Key] = r.written /\ Written' = Written
      BY <1>2 DEF Written
    <3>2. applied'[Key] \in Int /\ applied[Key] <= r.written
          /\ applied'[Key] - applied[Key] <= asked[Key] - r.written
      BY <1>3, <1>4, <2>2 DEF SentFits, Unbooked
    <3>3. applied' = [applied EXCEPT ![Key] = applied'[Key]]
      BY <2>1, <2>2
    <3> QED
      BY <1>1, <3>1, <3>2, <3>3 DEF ChargedOnce!Charge, ChargedOnce!Moves, Quiet, Calm
  <2> QED
    BY <1>2, <2>5, <2>6 DEF ChargedOnce!Next
<1>6. CASE UNCHANGED <<used, applied>>
  <2>1. SameRow(Key) /\ Grows
    BY <1>1, <1>2, RowFields DEF SameRow, Grows, Quiet, Calm, Moved
  <2>2. \A k \in Pairs : k = Key => RowBooked(k)'
    BY <1>1, <1>2, <1>6, <2>1, RowKeeps DEF BookedInv, Quiet, Calm
  <2>3. RowBooked(Key)'
    BY <1>2, <2>2
  <2>4. BookedInv'
    BY <1>1, <1>4, <1>6, <2>3, StepKeeps DEF Steps
  <2>5. UNCHANGED ChargedOnce!ledger
    BY <1>1, <1>2, <1>6, Stutters DEF Quiet, Calm
  <2> QED
    BY <2>4, <2>5
<1> QED
  BY <1>5, <1>6 DEF CallPut

\* Hold() and Finish() keep the rest of the row.
LEMMA Endings ==
    ASSUME NEW r, RowTyped(r)
    PROVE  /\ Hold(r).state = "held" /\ Hold(r).written = r.written
           /\ \A reason \in {"none", "empty"} :
                  Finish(r, reason).state = "done" /\ Finish(r, reason).written = r.written
           /\ \A n : LET c == [r EXCEPT !.counted = n]
                     IN  c.state = r.state /\ c.written = r.written
BY DEF RowTyped, LedgerRow, Hold, Finish

LEMMA CallBooked ==
    ASSUME Alone, LedgerTyped, LedgerTyped', BookedInv, CallStep
    PROVE  BookedInv' /\ [ChargedOnce!Next]_(ChargedOnce!ledger)
<1> DEFINE r == row[Key]
           w == Witnessed(r, used[Spool])
           Goal == BookedInv' /\ [ChargedOnce!Next]_(ChargedOnce!ledger)
<1>1. /\ call # NoCall /\ Quiet
      /\ call.step \in {"verify", "plan", "put", "check"}
  BY AtIsCall DEF CallStep, CallVerify, SettlePlan, CreditPlan, CallPut, CallCheck, Steps, At
<1>2. /\ RowTyped(r) /\ Key \in Pairs /\ Spool = Key[2] /\ RowBooked(Key)
      /\ used[Spool] \in Int /\ asked[Key] \in Int
      /\ r.state \in {"open", "sent", "held", "done"}
  BY <1>1, CallKey, RowFields DEF BookedInv, Key, Spool
<1>3. ASSUME Return(r), UNCHANGED <<used, applied>> PROVE Goal
  BY <1>1, <1>3, PlainStep DEF Return
<1>4. ASSUME Return(Hold(r)), Read("gone"), UNCHANGED <<used, applied>> PROVE Goal
  BY <1>1, <1>2, <1>4, PlainStep, Endings DEF Return, Read
<1>5. CASE CallVerify
  <2>1. r.state = "sent"
    BY <1>1, <1>5 DEF CallVerify, BookedInv, CallFits
  <2>2. /\ w.state = "open" /\ w.written \in Int /\ w.written <= asked[Key]
        /\ applied[Key] <= w.written /\ (~ edited => applied[Key] = w.written)
    BY <1>2, <2>1, WitnessIsRight
  <2>3. ASSUME Continue("plan", w), UNCHANGED <<used, applied>> PROVE Goal
    <3> HIDE DEF w
    <3> QED
      BY <1>1, <2>2, <2>3, BookStep DEF ChargedOnce!Next
  <2> QED
    BY <1>3, <1>4, <1>5, <2>3 DEF CallVerify
<1>6. ASSUME NEW delta \in Int, Send(delta), UNCHANGED <<used, applied>>, Read("shown"),
             r.state # "sent", delta # 0, r.written + delta <= asked[Key],
             delta < 0 => \E a \in Attempts : Moved(a)
      PROVE  Goal
  <2>1. r.state \in {"open", "done"}
    BY <1>2, <1>6 DEF RowBooked, Read
  <2> QED
    BY <1>1, <1>6, <2>1, SendStep
<1>7. CASE SettlePlan
  <2> DEFINE owed == call.counted - r.written
             delta == Available(owed)
  <2>1. r.state = "open" /\ call.by # "credit"
    BY <1>1, <1>7 DEF SettlePlan, BookedInv, CallFits
  <2>2. ASSUME NEW reason \in {"none", "empty"}, Close(r, reason), UNCHANGED <<used, applied>>
        PROVE  Goal
    <3>1. Finish(r, reason).state = "done" /\ Finish(r, reason).written = r.written
      BY <1>2, Endings
    <3>2. CASE Return(Finish(r, reason))
      BY <1>1, <1>2, <2>1, <3>1, <3>2, <2>2, PlainStep DEF Return
    <3> QED
      BY <1>3, <2>2, <3>2 DEF Close
  <2>3. /\ call.counted \in Int /\ call.counted <= asked[Key] /\ r.written \in Int
        /\ Capacity[Spool] \in Int
    <3>1. Spool \in Spools /\ r.written \in Int
      BY <1>2, RowFields
    <3>2. call.counted \in Int /\ call.counted <= asked[Key]
      BY <1>1, <2>1, CountedTyped
    <3> QED
      BY <3>1, <3>2, LedgerAssumption
  <2>4. delta \in Int /\ delta <= owed /\ owed \in Int
    BY <1>2, <2>3 DEF Available, Least
  <2>5. ASSUME Send(delta), UNCHANGED <<used, applied>>, Read("shown"), delta >= 1 PROVE Goal
    <3>1. delta # 0 /\ ~ (delta < 0) /\ r.written + delta <= asked[Key]
      BY <1>2, <2>3, <2>4, <2>5
    <3> HIDE DEF delta
    <3> QED
      BY <1>6, <2>1, <2>4, <2>5, <3>1
  <2> QED
    BY <1>3, <1>4, <1>7, <2>2, <2>5 DEF SettlePlan
<1>8. CASE CreditPlan
  <2>1. r.state # "sent" /\ call.by = "credit"
    BY <1>1, <1>8 DEF CreditPlan, BookedInv, CallFits
  <2>2. Grams \in Nat \ {0} /\ (\E a \in Attempts : Moved(a)) /\ r.written \in Int
        /\ r.written <= asked[Key]
    BY <1>1, <1>2, <2>1, GramsTyped, CallKey, RowFields DEF RowBooked
  <2>3. ASSUME Send(-Grams), UNCHANGED <<used, applied>>, Read("shown") PROVE Goal
    <3>1. -Grams \in Int /\ -Grams # 0 /\ r.written + (-Grams) <= asked[Key]
      BY <1>2, <2>2
    <3> QED
      BY <1>6, <2>1, <2>2, <2>3, <3>1
  <2>4. ASSUME Continue("refused", r), UNCHANGED <<used, applied>> PROVE Goal
    BY <1>1, <2>4, PlainStep
  <2> QED
    BY <1>3, <1>4, <1>8, <2>3, <2>4 DEF CreditPlan
<1>9. CASE CallCheck
  <2>1. r.state = "sent"
    BY <1>1, <1>9 DEF CallCheck, BookedInv, CallFits
  <2>2. /\ w.state = "open" /\ w.written \in Int /\ w.written <= asked[Key]
        /\ applied[Key] <= w.written /\ (~ edited => applied[Key] = w.written)
    BY <1>2, <2>1, WitnessIsRight
  <2>3. Checked(w).state \in {"open", "done"} /\ Checked(w).written = w.written
    <3>1. RowTyped(w)
      BY <1>2, RowsTyped
    <3> HIDE DEF w
    <3> QED
      BY <2>2, <3>1, Endings DEF Checked
  <2>4. ASSUME Return(Checked(w)), UNCHANGED <<used, applied>> PROVE Goal
    <3> DEFINE c == Checked(w)
    <3>1. c.state \in {"open", "done"} /\ c.written = w.written /\ Continue("done", c)
      BY <2>3, <2>4 DEF Return
    <3> HIDE DEF c, w
    <3> QED
      BY <1>1, <2>2, <2>4, <3>1, BookStep DEF ChargedOnce!Next
  <2> QED
    BY <1>3, <1>4, <1>9, <2>4 DEF CallCheck
<1> QED
  BY <1>5, <1>7, <1>8, <1>9, PutStep DEF CallStep

(***************************************************************************)
(* The other steps.                                                        *)
(***************************************************************************)
\* A settle asks for more of its row, or for no more than before.
LEMMA SettleBooked ==
    ASSUME LedgerTyped, LedgerTyped', BookedInv, call = NoCall,
           NEW by \in Settlers, NEW k \in Pairs, NEW counted \in Int, NEW final,
           Settle(by, k, counted, final),
           UNCHANGED <<move, used, gone, budget, applied, edited>>
    PROVE  BookedInv' /\ [ChargedOnce!Next]_(ChargedOnce!ledger)
<1> DEFINE r == SettleRow(row[k], counted)
<1>1. /\ row' = [row EXCEPT ![k] = r] /\ DOMAIN row = Pairs /\ RowTyped(row[k])
      /\ asked' = [asked EXCEPT ![k] = Most(asked[k], counted)] /\ asked[k] \in Int
      /\ call'.by = by /\ call'.key = k /\ by # "credit"
      /\ call'.step = IF r.state \in {"held", "done"} THEN "done" ELSE First(r)
      /\ asked \in [Pairs -> Int]
  BY DEF Settle, LedgerTyped, RecordsTyped, Settlers
<1>2. /\ r.written = row[k].written /\ r.before = row[k].before /\ r.delta = row[k].delta
      /\ r.state = row[k].state \/ (row[k].state = "done" /\ r.state = "open")
  BY <1>1 DEF SettleRow, RowTyped, LedgerRow
<1> HIDE DEF r
<1>3. /\ \A j \in Pairs : asked[j] <= asked'[j] /\ asked'[j] \in Int
      /\ \A j \in Pairs \ {k} : row'[j] = row[j]
      /\ row'[k] = r
  BY <1>1 DEF Most
<1>4. Grows
  BY <1>3 DEF Grows, Moved
<1>5. \A j \in Pairs : RowBooked(j)'
  <2> SUFFICES ASSUME NEW j \in Pairs PROVE RowBooked(j)'
    OBVIOUS
  <2>1. RowBooked(j)
    BY DEF BookedInv
  <2>2. CASE SameRow(j)
    BY <1>4, <2>1, <2>2, RowFields, RowKeeps
  <2>3. CASE j = k /\ row[k].state = "done" /\ r.state = "open"
    BY <1>2, <1>3, <2>1, <2>3, RowFields DEF RowBooked, Unbooked
  <2> QED
    BY <1>2, <1>3, <2>2, <2>3 DEF SameRow
<1>6. CallFits'
  <2>1. r.state \in {"open", "sent", "held", "done"}
    BY <1>1, <1>2 DEF RowTyped, LedgerRow
  <2>2. call'.step \in {"done", "verify", "plan"}
        /\ (call'.step = "verify" => r.state = "sent") /\ (call'.step = "plan" => r.state = "open")
    BY <1>1, <2>1 DEF First
  <2> QED
    BY <1>1, <1>3, <2>2 DEF CallFits, At, Key
<1>7. Apart'
  BY DEF BookedInv, Apart, Moved
<1>8. Written' = Written
  BY <1>2, <1>3 DEF Written
<1>9. CASE counted <= asked[k]
  <2>1. asked' = asked
    BY <1>1, <1>9 DEF Most
  <2> QED
    BY <1>5, <1>6, <1>7, <1>8, <2>1 DEF BookedInv, ChargedOnce!ledger
<1>10. CASE ~ (counted <= asked[k])
  <2>1. asked'[k] = counted /\ asked' = [asked EXCEPT ![k] = asked'[k]]
    BY <1>1, <1>10 DEF Most
  <2>2. ChargedOnce!Ask(k)
    BY <1>1, <1>8, <1>10, <2>1 DEF ChargedOnce!Ask, ChargedOnce!Moves
  <2> QED
    BY <1>5, <1>6, <1>7, <2>2 DEF BookedInv, ChargedOnce!Next
<1> QED
  BY <1>9, <1>10

LEMMA WorkerBooked ==
    ASSUME LedgerTyped, LedgerTyped', BookedInv, WorkerStep
    PROVE  BookedInv' /\ [ChargedOnce!Next]_(ChargedOnce!ledger)
<1>1. UNCHANGED <<move, used, gone, budget, applied, edited>>
  BY DEF WorkerStep, Worker, world, PassBegins, PassTakes, PassSettles, SettleReturns, PassDecides,
         CloseLooks, CloseSets, PassEnds
<1>2. CASE PassSettles
  <2>1. PICK s \in pass.todo :
            Settle("worker", <<pass.cur, s>>, pass.count[s], pass.final)
    BY <1>2 DEF PassSettles
  <2>2. <<pass.cur, s>> \in Pairs /\ pass.count[s] \in Int /\ call = NoCall
    BY <1>2 DEF LedgerTyped, PassTyped, Pairs, PassSettles, Free
  <2> QED
    BY <1>1, <2>1, <2>2, SettleBooked DEF Settlers
<1>3. CASE ~ PassSettles
  <2>1. UNCHANGED <<row, asked>> /\ (call' = call \/ call' = NoCall)
    BY <1>3 DEF WorkerStep, PassBegins, PassTakes, SettleReturns, PassDecides, CloseLooks, CloseSets,
                PassEnds
  <2>2. (\A k \in Pairs : SameRow(k)) /\ Grows
    BY <1>1, <2>1, RowFields DEF SameRow, Grows, Moved
  <2>3. Apart'
    BY <1>1 DEF BookedInv, Apart, Moved
  <2> QED
    BY <1>1, <2>1, <2>2, <2>3, AllKeep, Stutters DEF SameRow
<1> QED
  BY <1>2, <1>3

LEMMA OwnerBooked ==
    ASSUME LedgerTyped, LedgerTyped', BookedInv, OwnerStep
    PROVE  BookedInv' /\ [ChargedOnce!Next]_(ChargedOnce!ledger)
<1>1. UNCHANGED <<used, applied, edited, gone, budget>>
  BY DEF OwnerStep, Person, ResolveSettles, ResolveReturns, ResolveEnds, MoveCredits, CreditReturns,
         MoveRaises, MoveMarks, MoveSettles, MoveEnds
<1>2. CASE ResolveSettles
  <2>1. PICK s \in owner.todo : Settle("resolve", <<owner.a, s>>, owner.want[s], TRUE)
    BY <1>2 DEF ResolveSettles
  <2>2. <<owner.a, s>> \in Pairs /\ owner.want[s] \in Int
    BY <1>2 DEF ResolveSettles, LedgerTyped, OwnerTyped, NoOwner, Pairs
  <2> QED
    BY <1>1, <1>2, <2>1, <2>2, SettleBooked DEF Settlers, ResolveSettles, Person
<1>3. CASE MoveSettles
  <2>1. To \in Pairs /\ row[To].counted \in Int
    BY <1>3, MovingOwner, RowFields DEF MoveSettles
  <2> QED
    BY <1>1, <1>3, <2>1, SettleBooked DEF Settlers, MoveSettles
<1>4. CASE MoveRaises
  <2> DEFINE counted == row[To].counted + move[owner.a].grams
             r == [row[To] EXCEPT !.counted = counted]
  <2>1. /\ row' = [row EXCEPT ![To] = r] /\ UNCHANGED <<move, call>>
        /\ asked' = [asked EXCEPT ![To] = Most(asked[To], counted)]
    BY <1>4 DEF MoveRaises
  <2>2. /\ To \in Pairs /\ counted \in Int /\ DOMAIN row = Pairs /\ asked \in [Pairs -> Int]
        /\ RowTyped(row[To])
    BY <1>4, MovingOwner, RowFields DEF MoveRaises, LedgerTyped, RecordsTyped
  <2>3. /\ r.state = row[To].state /\ r.written = row[To].written
        /\ r.before = row[To].before /\ r.delta = row[To].delta
    BY <2>2 DEF RowTyped, LedgerRow
  <2> HIDE DEF r, counted
  <2>4. \A k \in Pairs : SameRow(k)
    BY <2>1, <2>2, <2>3 DEF SameRow
  <2>5. Grows
    BY <1>1, <2>1, <2>2 DEF Grows, Most, Moved
  <2>6. Apart'
    BY <1>1, <2>1 DEF BookedInv, Apart, Moved
  <2>7. BookedInv'
    BY <1>1, <2>1, <2>4, <2>5, <2>6, AllKeep
  <2>8. CASE counted <= asked[To]
    <3>1. asked' = asked
      BY <2>1, <2>2, <2>8 DEF Most
    <3> QED
      BY <1>1, <2>4, <2>7, <3>1, Stutters DEF SameRow
  <2>9. CASE ~ (counted <= asked[To])
    <3>1. asked'[To] = counted /\ asked' = [asked EXCEPT ![To] = asked'[To]]
      BY <2>1, <2>2, <2>9 DEF Most
    <3>2. Written' = Written
      BY <2>4 DEF Written, SameRow
    <3>3. ChargedOnce!Ask(To)
      BY <1>1, <2>2, <2>9, <3>1, <3>2 DEF ChargedOnce!Ask, ChargedOnce!Moves
    <3> QED
      BY <2>2, <2>7, <3>3 DEF ChargedOnce!Next
  <2> QED
    BY <2>8, <2>9
<1>5. CASE MoveCredits
  <2>1. From \in Pairs /\ UNCHANGED <<row, move, asked>> /\ Credit(From)
    BY <1>5, MovingOwner DEF MoveCredits
  <2>2. (\A k \in Pairs : SameRow(k)) /\ Grows
    BY <1>1, <2>1, RowFields DEF SameRow, Grows, Moved
  <2>3. \A k \in Pairs : RowBooked(k)'
    BY <1>1, <2>2, RowKeeps DEF BookedInv
  <2>4. CallFits'
    BY <2>1 DEF CallFits, Credit, First, At, Key
  <2>5. Apart'
    BY <1>1, <2>1 DEF BookedInv, Apart, Moved
  <2> QED
    BY <1>1, <2>1, <2>2, <2>3, <2>4, <2>5, Stutters DEF BookedInv, SameRow
<1>6. CASE \/ ResolveReturns \/ ResolveEnds \/ CreditReturns \/ MoveMarks \/ MoveEnds
  <2>1. UNCHANGED <<row, asked>> /\ (call' = call \/ call' = NoCall)
    BY <1>6 DEF ResolveReturns, ResolveEnds, CreditReturns, MoveMarks, MoveEnds
  <2>2. \A a \in Attempts : Moved(a)' <=> Moved(a)
    <3>1. \/ UNCHANGED move
          \/ /\ owner.at \in {"mark", "charge"}
             /\ \E state \in {"credited", "done"} :
                    move' = [move EXCEPT ![owner.a] = [move[owner.a] EXCEPT !.state = state]]
      BY <1>6, CallOwner DEF ResolveReturns, ResolveEnds, CreditReturns, MoveMarks, MoveEnds
    <3> QED
      BY <3>1, MovingOwner DEF Moved, LedgerTyped, RecordsTyped
  <2>3. (\A k \in Pairs : SameRow(k)) /\ Grows
    BY <1>1, <2>1, <2>2, RowFields DEF SameRow, Grows
  <2>4. Apart'
    BY <1>1, <2>2 DEF BookedInv, Apart
  <2> QED
    BY <1>1, <2>1, <2>3, <2>4, AllKeep, Stutters DEF SameRow
<1> QED
  BY <1>2, <1>3, <1>4, <1>5, <1>6 DEF OwnerStep

LEMMA RestBooked ==
    ASSUME Alone, LedgerTyped, LedgerTyped', BookedInv,
           \/ IntervalPasses \/ Spoolman \/ Crash
           \/ \E a \in Attempts : Printing(a) \/ BudgetRunsOut(a) \/ Requests(a)
    PROVE  BookedInv' /\ [ChargedOnce!Next]_(ChargedOnce!ledger)
<1>1. CASE IntervalPasses
  <2>1. UNCHANGED <<asked, applied, used, gone, edited, move, call, budget>>
    BY <1>1 DEF IntervalPasses, tasks, world
  <2>2. \A k \in Pairs : SameRow(k)
    <3> SUFFICES ASSUME NEW k \in Pairs PROVE SameRow(k)
      OBVIOUS
    <3>1. RowTyped(row[k]) /\ row'[k] = [row[k] EXCEPT !.recent = FALSE]
      BY <1>1 DEF IntervalPasses, LedgerTyped, RecordsTyped
    <3> QED
      BY <3>1 DEF SameRow, RowTyped, LedgerRow
  <2>3. Grows /\ Apart'
    BY <2>1, RowFields DEF Grows, BookedInv, Apart, Moved
  <2> QED
    BY <2>1, <2>2, <2>3, AllKeep, Stutters DEF SameRow
<1>2. ASSUME NEW s \in Spools, OwnerEdits(s)
      PROVE  BookedInv' /\ [ChargedOnce!Next]_(ChargedOnce!ledger)
  <2>1. /\ UNCHANGED <<row, move, call, gone, applied, asked>> /\ edited' = TRUE
        /\ budget["edit"] > 0 /\ budget'["move"] = budget["move"] /\ budget'["late"] = budget["late"]
    BY <1>2 DEF OwnerEdits, records, tasks, Spend, LedgerTyped, RecordsTyped, Rare
  <2>2. PICK size \in EditSizes : used' = [used EXCEPT ![s] = used[s] + size]
    BY <1>2 DEF OwnerEdits
  <2>3. size \in Nat
    BY DEF Alone
  <2>4. budget["move"] = 0 /\ budget["late"] = 0 /\ \A a \in Attempts : ~ Moved(a)
    BY <2>1 DEF BookedInv, Apart
  <2>5. \A k \in Pairs : RowBooked(k)'
    <3> SUFFICES ASSUME NEW k \in Pairs PROVE RowBooked(k)'
      OBVIOUS
    <3>1. RowBooked(k)
      BY DEF BookedInv
    <3>2. used'[k[2]] \in Int /\ used'[k[2]] >= used[k[2]]
      BY <2>2, <2>3, RowFields DEF LedgerTyped, RecordsTyped
    <3>3. Unbooked(k)' = Unbooked(k) /\ Unbooked(k) \in Int
      BY <2>1, RowFields DEF Unbooked
    <3>4. Shift(k)' >= Shift(k) /\ Shift(k) \in Int /\ Shift(k)' \in Int
      BY <2>1, <3>2, RowFields DEF Shift
    <3>5. SentFits(k) => SentFits(k)'
      <4> SUFFICES ASSUME SentFits(k) PROVE SentFits(k)'
        OBVIOUS
      <4>1. 0 < row[k].delta
        BY <2>4, RowFields DEF SentFits
      <4>2. 0 <= Shift(k) /\ Unbooked(k) <= Shift(k) /\ Unbooked(k) <= row[k].delta
        BY <3>3, <3>4, <4>1, RowFields DEF SentFits
      <4> QED
        BY <2>1, <3>3, <3>4, <4>1, <4>2, RowFields DEF SentFits
    <3> QED
      BY <2>1, <3>1, <3>3, <3>5 DEF RowBooked
  <2>6. CallFits'
    <3> SUFFICES ASSUME call # NoCall PROVE CallFits'
      BY <2>1 DEF CallFits
    <3>1. Key \in Pairs
      BY CallKey
    <3> QED
      BY <2>1, <3>1 DEF BookedInv, CallFits, At, Key, Unbooked
  <2>7. Apart'
    BY <2>1, <2>4 DEF Apart, Moved
  <2>8. Written' = Written
    BY <2>1 DEF Written
  <2>9. ChargedOnce!Others
    BY <2>1, <2>8 DEF ChargedOnce!Others
  <2> QED
    BY <2>5, <2>6, <2>7, <2>9 DEF BookedInv, ChargedOnce!Next
<1>3. ASSUME NEW s \in Spools, Archives(s)
      PROVE  BookedInv' /\ [ChargedOnce!Next]_(ChargedOnce!ledger)
  <2>1. /\ UNCHANGED <<row, move, call, used, applied, asked, edited>>
        /\ gone' = [gone EXCEPT ![s] = TRUE]
        /\ budget' \in [Rare -> Nat] /\ \A e \in Rare : budget'[e] <= budget[e]
    BY <1>3, Budgets DEF Archives, records, tasks, Rare
  <2>2. (\A k \in Pairs : SameRow(k)) /\ Grows
    BY <2>1, RowFields DEF SameRow, Grows, Moved, LedgerTyped, RecordsTyped
  <2>3. Apart'
    BY <2>1, ApartKeeps DEF BookedInv
  <2> QED
    BY <2>1, <2>2, <2>3, AllKeep, Stutters DEF SameRow
<1>4. CASE Crash \/ \E a \in Attempts : Printing(a) \/ BudgetRunsOut(a) \/ Requests(a)
  <2>1. /\ UNCHANGED <<row, used, gone, applied, asked, edited>> /\ (call' = call \/ call' = NoCall)
    BY <1>4, ZenonT(40) DEF Crash, Printing, LayerAdvances, RefillLearnt, PrintEnds, Printer, BudgetRunsOut, Requests,
                ResolvesNothing, ResolvesCharge, Moves, Person, records, tasks, world
  <2>2. /\ \A a \in Attempts : Moved(a) => Moved(a)'
        /\ Apart'
    <3>1. ASSUME NEW a \in Attempts, NEW from \in Spools, NEW to \in Spools, Moves(a, from, to)
          PROVE  (\A b \in Attempts : Moved(b) => Moved(b)') /\ Apart'
      <4>1. /\ budget["move"] > 0 /\ budget'["edit"] = budget["edit"]
            /\ budget'["late"] = budget["late"]
        BY <3>1 DEF Moves, Spend, LedgerTyped, RecordsTyped, Rare
      <4>2. budget["edit"] = 0 /\ ~ edited /\ budget["late"] = 0
        BY <4>1 DEF BookedInv, Apart
      <4>3. DOMAIN move = Attempts
        BY DEF LedgerTyped, RecordsTyped
      <4>4. \/ move' = move
            \/ \E m : m.state = "started" /\ move' = [move EXCEPT ![a] = m]
        BY <3>1 DEF Moves
      <4> QED
        BY <2>1, <4>1, <4>2, <4>3, <4>4 DEF Apart, Moved
    <3>2. CASE UNCHANGED <<move, budget>>
      BY <2>1, <3>2 DEF BookedInv, Apart, Moved
    <3>3. ASSUME UNCHANGED move, NEW event \in Rare, Spend(event)
          PROVE  (\A b \in Attempts : Moved(b) => Moved(b)') /\ Apart'
      BY <2>1, <3>3, ApartKeeps, Budgets DEF BookedInv, Moved
    <3>4. CASE Crash
      BY <3>3, <3>4 DEF Crash, records, Rare
    <3>5. ASSUME NEW a \in Attempts, Printing(a) \/ BudgetRunsOut(a)
          PROVE  UNCHANGED <<move, budget>>
      BY <3>5 DEF Printing, LayerAdvances, RefillLearnt, PrintEnds, Printer, BudgetRunsOut, records, world
    <3>6. ASSUME NEW a \in Attempts, Requests(a)
          PROVE  (\A b \in Attempts : Moved(b) => Moved(b)') /\ Apart'
      <4>1. CASE ResolvesNothing(a) \/ ResolvesCharge(a)
        BY <3>3, <4>1 DEF ResolvesNothing, ResolvesCharge, Rare
      <4> QED
        BY <3>1, <3>6, <4>1 DEF Requests
    <3> QED
      BY <1>4, <3>2, <3>4, <3>5, <3>6
  <2>3. (\A k \in Pairs : SameRow(k)) /\ Grows
    BY <2>1, <2>2, RowFields DEF SameRow, Grows
  <2> QED
    BY <2>1, <2>2, <2>3, AllKeep, Stutters DEF SameRow
<1> QED
  BY <1>1, <1>2, <1>3, <1>4 DEF Spoolman

LEMMA InitBooked == Alone /\ LedgerInit => BookedInv /\ ChargedOnce!Init
<1> SUFFICES ASSUME Alone, LedgerInit PROVE BookedInv /\ ChargedOnce!Init
  OBVIOUS
<1>1. \A k \in Pairs : RowBooked(k)
  BY DEF LedgerInit, RowBooked, Unbooked, NewRow
<1>2. CallFits
  BY DEF LedgerInit, CallFits
<1>3. Apart
  BY DEF LedgerInit, Apart, Alone, Moved, NoMove
<1>4. Written = [k \in Pairs |-> 0]
  BY DEF LedgerInit, Written, NewRow
<1>5. ChargedOnce!Init
  BY <1>4 DEF LedgerInit, ChargedOnce!Init
<1> QED
  BY <1>1, <1>2, <1>3, <1>5 DEF BookedInv

\* One step of the program is a step of ChargeOnce, or none.
LEMMA StepCharges ==
    ASSUME Alone, LedgerTyped, LedgerTyped', BookedInv, [LedgerNext]_vars
    PROVE  BookedInv' /\ [ChargedOnce!Next]_(ChargedOnce!ledger)
<1>1. CASE LedgerNext
  <2>1. ~ LandsLate
    BY DEF BookedInv, Apart, LandsLate, Spend
  <2> QED
    BY <1>1, <2>1, CallBooked, WorkerBooked, OwnerBooked, RestBooked DEF LedgerNext
<1>2. CASE UNCHANGED vars
  <2>1. UNCHANGED <<row, move, call, used, gone, budget, applied, asked, edited>>
    BY <1>2 DEF vars
  <2>2. (\A k \in Pairs : SameRow(k)) /\ Grows /\ Apart'
    BY <2>1, RowFields DEF SameRow, Grows, Moved, BookedInv, Apart
  <2> QED
    BY <2>1, <2>2, AllKeep, Stutters DEF SameRow
<1> QED
  BY <1>1, <1>2

\* Through lost answers, crashes, retries, resolutions, moves and a spool archived under a
\* write, every row of every print implements ChargeOnce (settle(), credit(),
\* _settle_witness() of usage_ledger.py): a write goes out only once the one before it is on
\* record, never past what was asked for, and the record is what was taken, or more where
\* somebody else added to the spool meanwhile.
THEOREM LedgerImplementsChargeOnce == Alone => (LedgerSpec => ChargeOnceSpec)
<1> SUFFICES ASSUME Alone PROVE LedgerSpec => ChargeOnceSpec
  OBVIOUS
<1>1. LedgerInit => BookedInv /\ ChargedOnce!Init
  BY InitBooked
<1>2. LedgerTyped /\ LedgerTyped' /\ BookedInv /\ [LedgerNext]_vars
          => BookedInv' /\ [ChargedOnce!Next]_(ChargedOnce!ledger)
  BY StepCharges
<1>3. LedgerSpec => []LedgerTyped
  BY TypedHolds DEF Alone
<1> QED
  BY <1>1, <1>2, <1>3, PTL DEF LedgerSpec, ChargeOnceSpec, ChargedOnce!Spec

(***************************************************************************)
(* A print that waits for its owner, or is closed.                         *)
(***************************************************************************)
\* The pass may work on the print: it was not closed when the pass began, and only its owner
\* can have closed it since.
Fits(a) == a \notin pass.shut /\ (Closed(a) => resolution[a] # "none")

\* The worker's pass holds only prints that it may work on, and its call is for the print that
\* it is settling.
PassInv ==
    /\ DOMAIN delivery = Attempts /\ DOMAIN resolution = Attempts
    /\ pass.running \union pass.events \subseteq Attempts
    /\ \A a \in pass.running \union pass.events : Fits(a)
    /\ pass.at = "settle" => Fits(pass.cur)
    /\ pass.at \in {"settle", "look", "close"} => pass.cur \notin pass.running \union pass.events
    /\ call.by = "worker" => pass.at = "settle" /\ Key[1] = pass.cur

LEMMA InitPass == LedgerInit => PassInv
BY DEF LedgerInit, PassInv, Asleep, NoCall

\* The pass stays, and a print that it may work on stays one.
LEMMA PassFrame ==
    ASSUME LedgerTyped, PassInv, UNCHANGED pass,
           DOMAIN delivery' = Attempts, DOMAIN resolution' = Attempts,
           \A a \in Attempts : Fits(a) => Fits(a)',
           call'.by = "worker" => call.by = "worker" /\ Key' = Key
    PROVE  PassInv'
BY DEF PassInv, LedgerTyped, PassTyped

LEMMA WorkerPass ==
    ASSUME SomePrint, LedgerTyped, PassInv, WorkerStep
    PROVE  PassInv'
<1>1. UNCHANGED resolution
  BY DEF WorkerStep, Worker, PassBegins, PassTakes, PassSettles, SettleReturns, PassDecides,
         CloseLooks, CloseSets, PassEnds
<1>2. DOMAIN pass = DOMAIN Asleep /\ pass.cur \in Attempts
  BY DEF LedgerTyped, PassTyped
<1>3. CASE PassBegins
  <2>1. /\ pass'.running = {a \in Attempts : delivery[a] = "printing"}
        /\ pass'.events = {a \in Attempts : delivery[a] = "shadow"}
        /\ pass'.shut = {a \in Attempts : Closed(a)} /\ pass'.at = "choose"
        /\ UNCHANGED <<delivery, call>> /\ pass = Asleep
    BY <1>3 DEF PassBegins, Pending, Asleep
  <2>2. call.by # "worker"
    BY <2>1 DEF PassInv, Asleep
  <2> QED
    BY <1>1, <2>1, <2>2 DEF PassInv, Fits, Closed
<1>4. CASE PassTakes
  <2>1. PICK a \in pass.running \union pass.events :
            \/ \E spools \in SUBSET Spools : \E final : Works(a, spools, final)
            \/ \E found : Closes(a, found)
    BY <1>4 DEF PassTakes
  <2>2. UNCHANGED <<delivery, call>> /\ call.by # "worker"
    BY <1>4 DEF PassTakes, PassInv
  <2>3. /\ pass'.running = pass.running \ {a} /\ pass'.events = pass.events \ {a}
        /\ pass'.at \in {"settle", "look"} /\ pass'.cur = a /\ pass'.shut = pass.shut
    BY <2>1 DEF Works, Closes, Asleep
  <2> QED
    BY <1>1, <2>2, <2>3 DEF PassInv, Fits, Closed
<1>5. CASE PassSettles
  <2>1. PICK s \in pass.todo :
            /\ Settle("worker", <<pass.cur, s>>, pass.count[s], pass.final)
            /\ pass' = [pass EXCEPT !.todo = @ \ {s}]
    BY <1>5 DEF PassSettles
  <2>2. /\ pass'.at = "settle" /\ pass.at = "settle" /\ pass'.cur = pass.cur
        /\ pass'.running = pass.running /\ pass'.events = pass.events /\ pass'.shut = pass.shut
    BY <1>2, <1>5, <2>1 DEF Asleep, PassSettles
  <2>3. call'.key = <<pass.cur, s>> /\ UNCHANGED delivery
    BY <1>5, <2>1 DEF Settle, PassSettles
  <2> QED
    BY <1>1, <2>2, <2>3 DEF PassInv, Fits, Closed, Key
<1>6. CASE SettleReturns
  BY <1>1, <1>6 DEF SettleReturns, PassInv, Fits, Closed, NoCall
<1>7. ASSUME NextPrint, DOMAIN delivery' = Attempts, UNCHANGED call, call.by # "worker",
             \A a \in pass.running \union pass.events : delivery'[a] = delivery[a]
      PROVE  PassInv'
  <2>1. /\ pass'.running = pass.running /\ pass'.events = pass.events /\ pass'.at = "choose"
        /\ pass'.shut = pass.shut
    BY <1>7 DEF NextPrint, Asleep
  <2> QED
    BY <1>1, <1>7, <2>1 DEF PassInv, Fits, Closed
<1>8. CASE PassDecides
  <2>1. UNCHANGED <<delivery, call>> /\ call.by # "worker" /\ pass.at = "settle"
    BY <1>8 DEF PassDecides
  <2>2. CASE \E found : Closes(pass.cur, found)
    <3>1. /\ pass'.running \subseteq pass.running /\ pass'.events \subseteq pass.events
          /\ pass'.at = "look" /\ pass'.cur \notin pass'.running \union pass'.events
          /\ pass'.shut = pass.shut
      BY <2>2 DEF Closes, Asleep
    <3> QED
      BY <1>1, <2>1, <3>1 DEF PassInv, Fits, Closed
  <2>3. NextPrint \/ \E found : Closes(pass.cur, found)
    BY <1>8 DEF PassDecides
  <2> QED
    BY <1>7, <2>1, <2>2, <2>3 DEF PassInv
<1>9. CASE CloseLooks
  <2>1. UNCHANGED <<delivery, call>> /\ call.by # "worker"
    BY <1>9 DEF CloseLooks, PassInv
  <2>2. CASE pass' = [pass EXCEPT !.at = "close"]
    <3>1. /\ pass'.running = pass.running /\ pass'.events = pass.events
          /\ pass'.at = "close" /\ pass'.cur = pass.cur /\ pass.at = "look"
          /\ pass'.shut = pass.shut
      BY <1>2, <1>9, <2>2 DEF CloseLooks, Asleep
    <3> QED
      BY <1>1, <2>1, <3>1 DEF PassInv, Fits, Closed
  <2>3. NextPrint \/ pass' = [pass EXCEPT !.at = "close"]
    BY <1>9 DEF CloseLooks
  <2> QED
    BY <1>7, <2>1, <2>2, <2>3 DEF PassInv
<1>10. CASE CloseSets
  <2>1. /\ UNCHANGED call /\ call.by # "worker" /\ NextPrint /\ pass.at = "close"
        /\ \E state \in {"review", "delivered"} : delivery' = [delivery EXCEPT ![pass.cur] = state]
    BY <1>10 DEF CloseSets, PassInv
  <2>2. /\ DOMAIN delivery' = Attempts
        /\ \A a \in Attempts \ {pass.cur} : delivery'[a] = delivery[a]
    BY <2>1 DEF PassInv
  <2> QED
    BY <1>7, <2>1, <2>2 DEF PassInv
<1>11. CASE PassEnds
  BY <1>1, <1>11 DEF PassEnds, PassInv, Fits, Closed, Asleep
<1> QED
  BY <1>3, <1>4, <1>5, <1>6, <1>8, <1>9, <1>10, <1>11 DEF WorkerStep

\* The owner closes a print by an answer of his own, and takes no answer back.
LEMMA OwnerCloses ==
    ASSUME LedgerTyped, PassInv, NEW a \in Attempts, NEW answer \in {"nothing", "charge"},
           resolution' = [resolution EXCEPT ![a] = answer],
           delivery' = [delivery EXCEPT ![a] = "delivered"], UNCHANGED pass,
           call'.by # "worker"
    PROVE  PassInv'
<1>1. DOMAIN delivery' = Attempts /\ DOMAIN resolution' = Attempts
  BY DEF PassInv
<1>2. \A b \in Attempts : Fits(b) => Fits(b)'
  BY DEF PassInv, Fits, Closed
<1> QED
  BY <1>1, <1>2, PassFrame

LEMMA OthersPass ==
    ASSUME LedgerTyped, PassInv,
           \/ CallStep \/ LandsLate \/ OwnerStep \/ IntervalPasses \/ Spoolman \/ UNCHANGED vars
           \/ \E a \in Attempts : Printing(a) \/ BudgetRunsOut(a) \/ Requests(a)
    PROVE  PassInv'
<1>0. ASSUME UNCHANGED <<pass, delivery, resolution>>,
             call'.by = "worker" => call.by = "worker" /\ Key' = Key
      PROVE  PassInv'
  <2>1. \A a \in Attempts : Fits(a) => Fits(a)'
    BY <1>0 DEF Fits, Closed
  <2> QED
    BY <1>0, <2>1, PassFrame DEF PassInv
<1>1. CASE CallStep \/ LandsLate
  <2>1. /\ UNCHANGED <<pass, delivery, resolution>>
        /\ \E step \in Steps : \E r : Continue(step, r)
    BY <1>1 DEF CallStep, CallVerify, SettlePlan, CreditPlan, CallPut, CallCheck, LandsLate,
                Quiet, Calm, Return, Close, Send, Steps
  <2>2. call # NoCall
    BY <1>1, AtIsCall DEF CallStep, CallVerify, SettlePlan, CreditPlan, CallPut, CallCheck,
                          LandsLate, Steps
  <2>3. call'.by = call.by /\ Key' = Key
    BY <2>1, <2>2 DEF Continue, LedgerTyped, CallTyped, Key
  <2> QED
    BY <1>0, <2>1, <2>3
<1>2. CASE OwnerStep
  <2>1. UNCHANGED pass /\ (call' = call \/ call'.by # "worker")
    <3>1. CASE ResolveSettles \/ MoveSettles
      <4>1. PICK by \in {"resolve", "charge"} : \E k, counted, final : Settle(by, k, counted, final)
        BY <3>1 DEF ResolveSettles, MoveSettles
      <4>2. call'.by = by
        BY <4>1 DEF Settle
      <4>3. UNCHANGED pass
        BY <3>1 DEF ResolveSettles, MoveSettles, Person
      <4> QED
        BY <4>2, <4>3
    <3>2. CASE MoveCredits
      BY <3>2 DEF MoveCredits, Person, Credit
    <3>3. CASE \/ ResolveReturns \/ ResolveEnds \/ CreditReturns
               \/ MoveRaises \/ MoveMarks \/ MoveEnds
      BY <3>3 DEF ResolveReturns, ResolveEnds, CreditReturns, MoveRaises, MoveMarks, MoveEnds, Person,
                  NoCall
    <3> QED
      BY <1>2, <3>1, <3>2, <3>3 DEF OwnerStep
  <2>2. CASE ResolveEnds
    <3>1. owner.a \in Attempts
      BY <2>2 DEF ResolveEnds, LedgerTyped, OwnerTyped, NoOwner
    <3> QED
      BY <2>1, <2>2, <3>1, OwnerCloses DEF ResolveEnds, NoCall
  <2>3. CASE ~ ResolveEnds
    <3>1. UNCHANGED <<delivery, resolution>>
      BY <1>2, <2>3 DEF OwnerStep, ResolveSettles, ResolveReturns, MoveCredits, CreditReturns,
                        MoveRaises, MoveMarks, MoveSettles, MoveEnds, Person
    <3> QED
      BY <1>0, <2>1, <3>1 DEF Key
  <2> QED
    BY <2>2, <2>3
<1>3. CASE IntervalPasses \/ Spoolman \/ UNCHANGED vars \/ \E a \in Attempts : BudgetRunsOut(a)
  <2>1. UNCHANGED <<pass, delivery, resolution, call>>
    BY <1>3 DEF IntervalPasses, Spoolman, OwnerEdits, Archives, BudgetRunsOut, vars, records, tasks
  <2> QED
    BY <1>0, <2>1 DEF Key
<1>4. ASSUME NEW a \in Attempts, Printing(a) PROVE PassInv'
  <2>1. /\ UNCHANGED <<pass, resolution, call>>
        /\ delivery' = delivery \/ delivery' = [delivery EXCEPT ![a] = "shadow"]
    BY <1>4 DEF Printing, LayerAdvances, RefillLearnt, PrintEnds, Printer, tasks
  <2>2. DOMAIN delivery' = Attempts /\ \A b \in Attempts : Fits(b) => Fits(b)'
    BY <2>1 DEF PassInv, Fits, Closed
  <2> QED
    BY <2>1, <2>2, PassFrame DEF PassInv, Key
<1>5. ASSUME NEW a \in Attempts, Requests(a) PROVE PassInv'
  <2>1. UNCHANGED <<pass, call>> /\ call = NoCall
    BY <1>5 DEF Requests, ResolvesNothing, ResolvesCharge, Moves, Person, Free
  <2>2. call.by # "worker" /\ call'.by # "worker"
    BY <2>1 DEF NoCall
  <2>3. CASE ResolvesNothing(a)
    BY <2>2, <2>1, <2>3, OwnerCloses DEF ResolvesNothing
  <2>4. CASE ~ ResolvesNothing(a)
    <3>1. UNCHANGED <<delivery, resolution>>
      BY <1>5, <2>4 DEF Requests, ResolvesCharge, Moves
    <3> QED
      BY <1>0, <2>1, <3>1 DEF Key
  <2> QED
    BY <2>3, <2>4
<1> QED
  BY <1>1, <1>2, <1>3, <1>4, <1>5

LEMMA CrashPass == PassInv /\ Crash => PassInv'
BY DEF PassInv, Crash, records, Asleep, NoCall

\* Whatever the owner closes, and whenever: the worker never charges a print that was waiting
\* for its owner, or closed, when its pass began, nor one that it closed itself.  Its pass reads
\* the delivery states once (deliver_once(), settle_running()), and only the owner takes a
\* print of that list out of them (resolve()); the charge under way then still lands.
THEOREM WorkerLeavesClosed ==
    ASSUME SomePrint
    PROVE  LedgerSpec => ClosedIsLeftAlone
<1>1. LedgerInit => PassInv
  BY InitPass
<1>2. LedgerTyped /\ PassInv /\ [LedgerNext]_vars => PassInv'
  BY WorkerPass, OthersPass, CrashPass DEF LedgerNext
<1>3. LedgerTyped /\ PassInv /\ [LedgerNext]_vars => [LeftAlone]_vars
  <2> SUFFICES ASSUME LedgerTyped, PassInv, LedgerNext, NEW k \in Pairs,
                      Closed(k[1]), applied'[k] # applied[k], call.by = "worker"
               PROVE  resolution[k[1]] # "none" /\ k[1] \notin pass.shut
    BY DEF LeftAlone
  <2>1. CallPut \/ LandsLate
    BY ZenonT(40) DEF LedgerNext, CallStep, CallVerify, SettlePlan, CreditPlan, CallCheck,
           WorkerStep, Worker, PassBegins, PassTakes, PassSettles, SettleReturns, PassDecides, CloseLooks,
           CloseSets, PassEnds,
           OwnerStep, Person, ResolveSettles, ResolveReturns, ResolveEnds, MoveCredits, CreditReturns,
           MoveRaises, MoveMarks, MoveSettles, MoveEnds,
           IntervalPasses, Spoolman, OwnerEdits, Archives, Crash, Printing, LayerAdvances, RefillLearnt,
           PrintEnds, Printer, BudgetRunsOut, Requests, ResolvesNothing, ResolvesCharge, Moves
  <2>2. Key = k
    BY <2>1 DEF CallPut, LandsLate, Lands, LedgerTyped, RecordsTyped
  <2> QED
    BY <2>2 DEF PassInv, Fits
<1>4. LedgerSpec => []LedgerTyped
  BY TypedHolds
<1> QED
  BY <1>1, <1>2, <1>3, <1>4, PTL DEF LedgerSpec, ClosedIsLeftAlone

(***************************************************************************)
(* An empty spool.                                                         *)
(***************************************************************************)
\* The room that a write was planned on is there until it is out, and the write fits it.
Allows == /\ At("put") => used[Spool] = row[Key].before
          /\ At("put") \/ At("check") => row[Key].before + row[Key].delta <= Capacity[Spool]
ZeroInv == ~ edited => SpoolStopsAtZero /\ Allows

\* The weights stay, and so does a write that is on its way.
LEMMA ZeroFrame ==
    ASSUME LedgerTyped, ZeroInv, UNCHANGED used, edited' = edited,
           At("put")' \/ At("check")' =>
               /\ call' = call /\ row'[Key].delta = row[Key].delta /\ row'[Key].before = row[Key].before
    PROVE  ZeroInv'
BY DEF ZeroInv, Allows, SpoolStopsAtZero, At, Key, Spool

LEMMA CallZero ==
    ASSUME LedgerTyped, ZeroInv, CallStep
    PROVE  ZeroInv'
<1> DEFINE r == row[Key]
<1>1. call # NoCall /\ edited' = edited
  BY AtIsCall DEF CallStep, CallVerify, SettlePlan, CreditPlan, CallPut, CallCheck, Steps, Quiet, Calm
<1>2. /\ Key \in Pairs /\ Spool \in Spools /\ RowTyped(r) /\ used[Spool] \in Int
      /\ Capacity[Spool] \in Nat /\ DOMAIN row = Pairs
  BY <1>1, CallKey, LedgerAssumption DEF LedgerTyped, RecordsTyped
<1>3. ASSUME NEW step \in Steps \ {"put", "check"}, NEW n, Continue(step, n), UNCHANGED used
      PROVE  ZeroInv'
  <2>1. ~ At("put")' /\ ~ At("check")'
    BY <1>1, <1>3 DEF Continue, At, LedgerTyped, CallTyped
  <2> QED
    BY <1>1, <1>3, <2>1, ZeroFrame
<1>4. ASSUME NEW delta \in Int, Send(delta), UNCHANGED used,
             ~ edited => used[Spool] + delta <= Capacity[Spool]
      PROVE  ZeroInv'
  <2>1. Key' = Key /\ Spool' = Spool
    BY <1>4 DEF Send, Continue, Key, Spool, LedgerTyped, CallTyped
  <2>2. row'[Key].delta = delta /\ row'[Key].before = used[Spool] /\ call'.step = "put"
    BY <1>2, <1>4 DEF Send, Continue, RowTyped, LedgerRow
  <2> QED
    BY <1>1, <1>4, <2>1, <2>2 DEF ZeroInv, Allows, SpoolStopsAtZero, At
<1>5. CASE CallVerify \/ CallCheck
  BY <1>3, <1>5 DEF CallVerify, CallCheck, Return, Steps
<1>6. CASE SettlePlan
  <2> DEFINE delta == Available(call.counted - r.written)
  <2>1. delta \in Int /\ used[Spool] + delta <= Capacity[Spool]
    BY <1>1, <1>2, <1>6, CountedTyped DEF SettlePlan, Available, Least, RowTyped, LedgerRow
  <2>2. ASSUME NEW n, Return(n), UNCHANGED used PROVE ZeroInv'
    BY <1>3, <2>2 DEF Return, Steps
  <2> HIDE DEF delta
  <2>3. ASSUME Send(delta), UNCHANGED used PROVE ZeroInv'
    BY <1>4, <2>1, <2>3
  <2>4. UNCHANGED used /\ (Send(delta) \/ \E n : Return(n))
    BY <1>6 DEF SettlePlan, Close, delta
  <2> QED
    BY <2>2, <2>3, <2>4
<1>7. CASE CreditPlan
  <2>1. -Grams \in Int /\ -Grams <= 0
    BY <1>1, <1>7, GramsTyped DEF CreditPlan
  <2>2. ~ edited => used[Spool] + (-Grams) <= Capacity[Spool]
    BY <1>2, <2>1 DEF ZeroInv, SpoolStopsAtZero
  <2> QED
    BY <1>3, <1>4, <1>7, <2>1, <2>2 DEF CreditPlan, Return, Steps
<1>8. CASE CallPut
  <2>1. /\ Continue("check", r) /\ At("put")
        /\ used' = used \/ used' = [used EXCEPT ![Spool] = used[Spool] + r.delta]
    BY <1>8 DEF CallPut, Lands, Key, Spool
  <2>2. ~ At("put")' /\ Key' = Key /\ Spool' = Spool /\ row'[Key] = r
    BY <1>1, <1>2, <2>1 DEF Continue, At, Key, Spool, LedgerTyped, CallTyped
  <2> QED
    BY <1>1, <2>1, <2>2 DEF ZeroInv, Allows, SpoolStopsAtZero, LedgerTyped, RecordsTyped
<1> QED
  BY <1>5, <1>6, <1>7, <1>8 DEF CallStep

\* A write that lands late lands on the weight it was planned on.
LEMMA LateZero ==
    ASSUME LedgerTyped, ZeroInv, LandsLate
    PROVE  ZeroInv'
<1>1. /\ call # NoCall /\ edited' = edited /\ At("check") /\ used[Spool] = row[Key].before
      /\ used' = [used EXCEPT ![Spool] = used[Spool] + row[Key].delta]
      /\ call'.step = "done"
  BY AtIsCall DEF LandsLate, Lands, Calm, Return, Continue, Steps, Key, Spool, LedgerTyped, CallTyped
<1>2. ~ edited => used[Spool] + row[Key].delta <= Capacity[Spool]
  BY <1>1 DEF ZeroInv, Allows
<1> QED
  BY <1>1, <1>2 DEF ZeroInv, Allows, SpoolStopsAtZero, At, LedgerTyped, RecordsTyped

LEMMA SettleZero ==
    ASSUME LedgerTyped, ZeroInv, UNCHANGED used, edited' = edited,
           NEW by, NEW k, NEW counted, NEW final, Settle(by, k, counted, final)
    PROVE  ZeroInv'
<1>1. ~ At("put")' /\ ~ At("check")'
  BY DEF Settle, At, First
<1> QED
  BY <1>1, ZeroFrame

LEMMA TasksZero ==
    ASSUME LedgerTyped, ZeroInv, WorkerStep \/ OwnerStep
    PROVE  ZeroInv'
<1>1. UNCHANGED used /\ edited' = edited
  BY DEF WorkerStep, Worker, world, PassBegins, PassTakes, PassSettles, SettleReturns, PassDecides,
         CloseLooks, CloseSets, PassEnds,
         OwnerStep, Person, ResolveSettles, ResolveReturns, ResolveEnds, MoveCredits, CreditReturns,
         MoveRaises, MoveMarks, MoveSettles, MoveEnds
<1>2. CASE PassSettles \/ ResolveSettles \/ MoveSettles
  BY <1>1, <1>2, SettleZero DEF PassSettles, ResolveSettles, MoveSettles
<1>3. CASE MoveCredits
  <2>1. ~ At("put")' /\ ~ At("check")'
    BY <1>3 DEF MoveCredits, Credit, At, First
  <2> QED
    BY <1>1, <2>1, ZeroFrame
<1>4. CASE MoveRaises
  <2>1. UNCHANGED call /\ \A k \in Pairs : row'[k].delta = row[k].delta /\ row'[k].before = row[k].before
    <3>1. /\ To \in Pairs /\ RowTyped(row[To]) /\ DOMAIN row = Pairs
      BY <1>4, MovingOwner DEF MoveRaises, LedgerTyped, RecordsTyped
    <3> QED
      BY <1>4, <3>1 DEF MoveRaises, RowTyped, LedgerRow
  <2> QED
    BY <1>1, <2>1, ZeroFrame, AtIsCall, CallKey DEF At, Key, Steps
<1>5. CASE \/ PassBegins \/ PassTakes \/ SettleReturns \/ PassDecides \/ CloseLooks \/ CloseSets \/ PassEnds
           \/ ResolveReturns \/ ResolveEnds \/ CreditReturns \/ MoveMarks \/ MoveEnds
  <2>1. UNCHANGED row /\ (call' = call \/ call' = NoCall)
    BY <1>5 DEF PassBegins, PassTakes, SettleReturns, PassDecides, CloseLooks, CloseSets, PassEnds,
                ResolveReturns, ResolveEnds, CreditReturns, MoveMarks, MoveEnds
  <2> QED
    BY <1>1, <2>1, ZeroFrame DEF At, Key, NoCall
<1> QED
  BY <1>2, <1>3, <1>4, <1>5 DEF WorkerStep, OwnerStep

LEMMA RestZero ==
    ASSUME LedgerTyped, ZeroInv,
           \/ IntervalPasses \/ Spoolman \/ Crash \/ UNCHANGED vars
           \/ \E a \in Attempts : Printing(a) \/ BudgetRunsOut(a) \/ Requests(a)
    PROVE  ZeroInv'
<1>1. CASE \E s \in Spools : OwnerEdits(s)
  BY <1>1 DEF OwnerEdits, ZeroInv
<1>2. CASE IntervalPasses
  <2>1. \A k \in Pairs : row'[k].delta = row[k].delta /\ row'[k].before = row[k].before
    BY <1>2 DEF IntervalPasses, LedgerTyped, RecordsTyped, RowTyped, LedgerRow
  <2> QED
    BY <1>2, <2>1, ZeroFrame, AtIsCall, CallKey DEF IntervalPasses, tasks, world, At, Key, Steps
<1>3. CASE \/ \E s \in Spools : Archives(s)
           \/ Crash \/ UNCHANGED vars
           \/ \E a \in Attempts : Printing(a) \/ BudgetRunsOut(a) \/ Requests(a)
  <2>1. UNCHANGED <<row, used, edited>> /\ (call' = call \/ call' = NoCall)
    BY <1>3, ZenonT(40) DEF Archives, Crash, vars, Printing, LayerAdvances, RefillLearnt, PrintEnds, Printer,
                BudgetRunsOut, Requests, ResolvesNothing, ResolvesCharge, Moves, Person,
                records, tasks, world
  <2> QED
    BY <2>1, ZeroFrame DEF At, Key, NoCall
<1> QED
  BY <1>1, <1>2, <1>3 DEF Spoolman

\* Nothing the bridge writes takes a spool below empty, as long as nobody else changes the
\* spools: calls are serialised, so the room seen when a write is recorded is there when it
\* lands, late or after a restart (settle(), _send()).
THEOREM NoOverdraft ==
    ASSUME SomePrint
    PROVE  LedgerSpec => []SpoolStopsAtZero
<1>1. LedgerInit => ZeroInv
  BY LedgerAssumption DEF LedgerInit, ZeroInv, Allows, SpoolStopsAtZero, At, NoCall
<1>2. LedgerTyped /\ ZeroInv /\ [LedgerNext]_vars => ZeroInv'
  BY CallZero, LateZero, TasksZero, RestZero DEF LedgerNext
<1>3. ZeroInv => SpoolStopsAtZero
  BY DEF ZeroInv, SpoolStopsAtZero
<1> QED
  BY <1>1, <1>2, <1>3, TypedHolds, PTL DEF LedgerSpec
=============================================================================
