--------------------------- MODULE PipelineProofs ---------------------------
(***************************************************************************)
(* Proofs about Pipeline for every plan, every set of quotes, fills and    *)
(* orders and every bound.  First what every transformer of Account keeps, *)
(* one lemma per operator: the fields the inequalities of AccountInv read  *)
(* are followed one by one, the rest is typing.  A call is a composition   *)
(* of transformers, so the step of an action is the composition of their   *)
(* lemmas; what the rules decide matters only through the kinds a decision *)
(* has.                                                                    *)
(***************************************************************************)
EXTENDS Pipeline, TLAPS

(* The account *)

\* Active days are bounded by the days rolled and the day in progress.
DaysOK(a) ==
    a.active_trading_days <= a.trading_day_index + (IF a.day_counted_today THEN 1 ELSE 0)

\* The best day is part of the sum of positive days.
LedgerOK(a) ==
    /\ 0 <= a.largest_day_profit
    /\ a.largest_day_profit <= a.sum_positive_days_profit
    /\ a.largest_day_loss <= 0

PeakOK(a) == a.balance <= a.peak_balance

AccountInv(a) == a \in AccountType /\ DaysOK(a) /\ LedgerOK(a) /\ PeakOK(a)

\* The fields the inequalities of AccountInv read, apart from the balances.
SameDays(a, b) ==
    /\ b.active_trading_days = a.active_trading_days
    /\ b.trading_day_index = a.trading_day_index
    /\ b.day_counted_today = a.day_counted_today

SameLedger(a, b) ==
    /\ b.largest_day_profit = a.largest_day_profit
    /\ b.sum_positive_days_profit = a.sum_positive_days_profit
    /\ b.largest_day_loss = a.largest_day_loss

SameBalances(a, b) == b.balance = a.balance /\ b.peak_balance = a.peak_balance

SameWatermark(a, b) == b.balance_at_last_payout = a.balance_at_last_payout

\* What a call may do to an account, as far as the invariants go.
Keeps(a, b) == AccountInv(b) /\ SameWatermark(a, b)
----------------------------------------------------------------------------
\* A change that leaves the fields of the inequalities alone keeps them.
LEMMA SameFieldsKeep ==
    ASSUME NEW a, NEW b, AccountInv(a), b \in AccountType,
           SameDays(a, b), SameLedger(a, b), SameBalances(a, b)
    PROVE  AccountInv(b)
BY DEF AccountInv, DaysOK, LedgerOK, PeakOK, SameDays, SameLedger, SameBalances

\* Keeps composes along the steps of a call.
LEMMA KeepsTransitive ==
    ASSUME NEW a, NEW b, NEW c, Keeps(a, b), Keeps(b, c)
    PROVE  Keeps(a, c)
BY DEF Keeps, SameWatermark

\* The day of a timestamp is an integer.
LEMMA DayStartType ==
    ASSUME NEW t \in Int
    PROVE  trading_day_start(t) \in Int
BY DayLengthAssumption DEF trading_day_start

\* Account::start keeps the invariant.
LEMMA StartKeeps ==
    ASSUME NEW a, AccountInv(a), NEW at \in Int
    PROVE  Keeps(a, start(a, at))
<1> DEFINE deadline == IF Plan.time_limit_days = None THEN a.deadline
                       ELSE at + Plan.time_limit_days * DayLength
<1>1. deadline \in Option(Int)
  <2>1. CASE Plan.time_limit_days = None
    BY <2>1 DEF AccountInv, AccountType
  <2>2. CASE Plan.time_limit_days # None
    <3>1. Plan.time_limit_days \in Nat
      BY <2>2, PlanAssumption DEF PlanType, Option
    <3>2. Plan.time_limit_days * DayLength \in Int
      BY <3>1, DayLengthAssumption
    <3> QED BY <2>2, <3>2 DEF Option
  <2> QED BY <2>1, <2>2
<1>2. /\ trading_day_start(at) \in Option(Int)
      /\ at \in Option(Int)
      /\ "Active" \in Status
  BY DayStartType DEF Option, Status
<1>3. start(a, at) \in AccountType
  BY <1>1, <1>2, Zenon DEF AccountInv, AccountType, start
<1>4. /\ SameDays(a, start(a, at)) /\ SameLedger(a, start(a, at))
      /\ SameBalances(a, start(a, at)) /\ SameWatermark(a, start(a, at))
  BY DEF AccountInv, AccountType, start, SameDays, SameLedger, SameBalances, SameWatermark
<1> QED BY <1>3, <1>4, SameFieldsKeep DEF Keeps

\* apply_realized_pnl keeps the invariant: the peak follows the new balance.
LEMMA RealizedPnlKeeps ==
    ASSUME NEW a, AccountInv(a), NEW net \in Int, NEW at \in Int
    PROVE  Keeps(a, apply_realized_pnl(a, net, at))
<1> DEFINE b == apply_realized_pnl(a, net, at)
<1>1. /\ a.balance + net \in Int
      /\ Greater(a.peak_balance, a.balance + net) \in Int
      /\ a.today_realized_pnl + net \in Int
      /\ a.total_realized_pnl + net \in Int
      /\ at \in Option(Int)
  BY DEF AccountInv, AccountType, Greater, Option
<1>2. b \in AccountType
  BY <1>1, Zenon DEF AccountInv, AccountType, apply_realized_pnl
<1>3. SameDays(a, b) /\ SameLedger(a, b) /\ SameWatermark(a, b)
  BY DEF AccountInv, AccountType, apply_realized_pnl, SameDays, SameLedger, SameWatermark
<1>4. b.balance = a.balance + net /\ b.peak_balance = Greater(a.peak_balance, a.balance + net)
  BY DEF AccountInv, AccountType, apply_realized_pnl
<1>5. PeakOK(b)
  BY <1>1, <1>4 DEF AccountInv, AccountType, PeakOK, Greater
<1> QED BY <1>2, <1>3, <1>5 DEF Keeps, AccountInv, DaysOK, LedgerOK, SameDays, SameLedger

\* update_equity touches the equity and its peaks only.
LEMMA UpdateEquityKeeps ==
    ASSUME NEW a, AccountInv(a), NEW equity \in Int
    PROVE  Keeps(a, update_equity(a, equity))
<1> DEFINE b == update_equity(a, equity)
<1>1. /\ Greater(a.peak_equity, equity) \in Int
      /\ Greater(a.intraday_peak_equity, equity) \in Int
  BY DEF AccountInv, AccountType, Greater
<1>2. b \in AccountType
  BY <1>1, Zenon DEF AccountInv, AccountType, update_equity
<1>3. SameDays(a, b) /\ SameLedger(a, b) /\ SameBalances(a, b) /\ SameWatermark(a, b)
  BY DEF AccountInv, AccountType, update_equity, SameDays, SameLedger, SameBalances,
         SameWatermark
<1> QED BY <1>2, <1>3, SameFieldsKeep DEF Keeps

\* update_balance raises the peak with the broker's balance.
LEMMA UpdateBalanceKeeps ==
    ASSUME NEW a, AccountInv(a), NEW balance \in Int
    PROVE  Keeps(a, update_balance(a, balance))
<1> DEFINE b == update_balance(a, balance)
<1>1. Greater(a.peak_balance, balance) \in Int
  BY DEF AccountInv, AccountType, Greater
<1>2. b \in AccountType
  BY <1>1, Zenon DEF AccountInv, AccountType, update_balance
<1>3. SameDays(a, b) /\ SameLedger(a, b) /\ SameWatermark(a, b)
  BY DEF AccountInv, AccountType, update_balance, SameDays, SameLedger, SameWatermark
<1>4. b.balance = balance /\ b.peak_balance = Greater(a.peak_balance, balance)
  BY DEF AccountInv, AccountType, update_balance
<1>5. PeakOK(b)
  BY <1>4 DEF AccountInv, AccountType, PeakOK, Greater
<1> QED BY <1>2, <1>3, <1>5 DEF Keeps, AccountInv, DaysOK, LedgerOK, SameDays, SameLedger

\* mark_active_trading_day counts the day in progress at most once.
LEMMA MarkActiveKeeps ==
    ASSUME NEW a, AccountInv(a)
    PROVE  Keeps(a, mark_active_trading_day(a))
<1>1. CASE a.day_counted_today
  BY <1>1 DEF Keeps, SameWatermark, mark_active_trading_day
<1>2. CASE ~a.day_counted_today
  <2> DEFINE b == [a EXCEPT !.active_trading_days = a.active_trading_days + 1,
                            !.day_counted_today = TRUE]
  <2>1. mark_active_trading_day(a) = b
    BY <1>2 DEF mark_active_trading_day
  <2>2. a.active_trading_days + 1 \in Nat
    BY DEF AccountInv, AccountType
  <2>3. b \in AccountType
    BY <2>2, Zenon DEF AccountInv, AccountType
  <2>4. SameLedger(a, b) /\ SameBalances(a, b) /\ SameWatermark(a, b)
    BY DEF AccountInv, AccountType, SameLedger, SameBalances, SameWatermark
  <2>5. /\ b.active_trading_days = a.active_trading_days + 1
        /\ b.trading_day_index = a.trading_day_index
        /\ b.day_counted_today
    BY DEF AccountInv, AccountType
  <2>6. DaysOK(b)
    BY <1>2, <2>5 DEF AccountInv, AccountType, DaysOK
  <2>7. AccountInv(b)
    BY <2>3, <2>4, <2>6 DEF AccountInv, LedgerOK, PeakOK, SameLedger, SameBalances
  <2> QED BY <2>1, <2>4, <2>7 DEF Keeps
<1> QED BY <1>1, <1>2

\* freeze_day: the day's profit enters the best day and the sum together, and a
\* day with trades is counted unless it was counted already; the day it closes
\* has not been rolled yet, so open_day completes the invariant.
LEMMA FreezeDay ==
    ASSUME NEW a, AccountInv(a)
    PROVE  LET b == freeze_day(a)
           IN  /\ b \in AccountType /\ LedgerOK(b)
               /\ SameBalances(a, b) /\ SameWatermark(a, b)
               /\ b.active_trading_days <= b.trading_day_index + 1
<1> DEFINE today == a.today_realized_pnl
           size == IF today < 0 THEN -today ELSE today
           b == freeze_day(a)
           sum == IF today > 0 THEN a.sum_positive_days_profit + today
                  ELSE a.sum_positive_days_profit
           days == IF a.day_counted_today THEN a.active_trading_days
                   ELSE a.active_trading_days + 1
           profitable == IF today > 0 THEN a.profitable_days_count + 1
                         ELSE a.profitable_days_count
           qualifying == IF /\ Plan.qualifying_day_pct # None
                            /\ 100 * size >= Plan.qualifying_day_pct * Plan.initial_balance
                         THEN a.qualifying_trading_days_count + 1
                         ELSE a.qualifying_trading_days_count
<1>1. /\ Greater(a.largest_day_profit, today) \in Int
      /\ Lesser(a.largest_day_loss, today) \in Int
      /\ sum \in Int /\ profitable \in Nat
  BY DEF AccountInv, AccountType, Greater, Lesser
<1>2. qualifying \in Nat
  BY DEF AccountInv, AccountType
<1>3. days \in Nat
  BY DEF AccountInv, AccountType
<1>4. b \in AccountType
  <2> DEFINE best == Greater(a.largest_day_profit, today)
             worst == Lesser(a.largest_day_loss, today)
             c == [a EXCEPT !.largest_day_profit = best, !.largest_day_loss = worst,
                            !.sum_positive_days_profit = sum,
                            !.profitable_days_count = profitable,
                            !.qualifying_trading_days_count = qualifying,
                            !.active_trading_days = days]
  <2>1. b = c
    BY Zenon DEF freeze_day
  <2>2. best \in Int /\ worst \in Int
    BY <1>1
  <2> HIDE DEF best, worst, sum, profitable, qualifying, days
  <2>3. c \in AccountType
    BY <1>1, <1>2, <1>3, <2>2, Zenon DEF AccountInv, AccountType
  <2> QED BY <2>1, <2>3
<1>5. /\ b.largest_day_profit = Greater(a.largest_day_profit, today)
      /\ b.largest_day_loss = Lesser(a.largest_day_loss, today)
      /\ b.sum_positive_days_profit = sum
  BY DEF AccountInv, AccountType, freeze_day
<1>6. LedgerOK(b)
  BY <1>1, <1>5 DEF AccountInv, AccountType, LedgerOK, Greater, Lesser
<1>7. SameBalances(a, b) /\ SameWatermark(a, b)
  BY DEF AccountInv, AccountType, freeze_day, SameBalances, SameWatermark
<1>8. b.active_trading_days = days /\ b.trading_day_index = a.trading_day_index
  BY DEF AccountInv, AccountType, freeze_day
<1>9. b.active_trading_days <= b.trading_day_index + 1
  BY <1>3, <1>8 DEF AccountInv, AccountType, DaysOK
<1> QED BY <1>4, <1>6, <1>7, <1>9
\* open_day starts a day that is not counted yet, one index later.
LEMMA OpenDay ==
    ASSUME NEW a \in AccountType, LedgerOK(a), PeakOK(a), NEW day \in Int,
           a.active_trading_days <= a.trading_day_index + 1
    PROVE  Keeps(a, open_day(a, day))
<1> DEFINE b == open_day(a, day)
<1>1. /\ a.trading_day_index + 1 \in Nat
      /\ 0 \in Int
      /\ {} \in SUBSET DayTrade
      /\ day \in Option(Int)
  BY DEF AccountType, Option
<1>2. b \in AccountType
  BY <1>1, Zenon DEF AccountType, open_day
<1>3. SameLedger(a, b) /\ SameBalances(a, b) /\ SameWatermark(a, b)
  BY DEF AccountType, open_day, SameLedger, SameBalances, SameWatermark
<1>4. /\ b.active_trading_days = a.active_trading_days
      /\ b.trading_day_index = a.trading_day_index + 1
      /\ ~b.day_counted_today
  BY DEF AccountType, open_day
<1>5. DaysOK(b)
  BY <1>4 DEF AccountType, DaysOK
<1> QED BY <1>2, <1>3, <1>5
        DEF Keeps, AccountInv, LedgerOK, PeakOK, SameLedger, SameBalances

\* rollover_day keeps the invariant whether or not the day had trades.
LEMMA RolloverKeeps ==
    ASSUME NEW a, AccountInv(a), NEW had_trades \in BOOLEAN, NEW day \in Int
    PROVE  Keeps(a, rollover_day(a, had_trades, day))
<1>1. CASE had_trades
  <2> DEFINE f == freeze_day(a)
  <2>1. /\ f \in AccountType /\ LedgerOK(f) /\ SameBalances(a, f) /\ SameWatermark(a, f)
        /\ f.active_trading_days <= f.trading_day_index + 1
    BY FreezeDay
  <2>2. PeakOK(f)
    BY <2>1 DEF AccountInv, PeakOK, SameBalances
  <2> HIDE DEF f
  <2>3. Keeps(f, open_day(f, day))
    BY <2>1, <2>2, OpenDay
  <2>4. rollover_day(a, had_trades, day) = open_day(f, day)
    BY <1>1 DEF rollover_day, f
  <2> QED BY <2>1, <2>3, <2>4 DEF Keeps, SameWatermark
<1>2. CASE ~had_trades
  <2>1. a.active_trading_days <= a.trading_day_index + 1
    BY DEF AccountInv, AccountType, DaysOK
  <2>2. Keeps(a, open_day(a, day))
    BY <2>1, OpenDay DEF AccountInv
  <2>3. rollover_day(a, had_trades, day) = open_day(a, day)
    BY <1>2 DEF rollover_day
  <2> QED BY <2>2, <2>3
<1> QED BY <1>1, <1>2

\* The day an explicit rollover moves to is an integer.
LEMMA FollowingDayType ==
    ASSUME NEW a \in AccountType, NEW t \in Int
    PROVE  following_day(a, t) \in Int
<1>1. a.current_trading_day_start \in Option(Int)
  BY DEF AccountType
<1>2. trading_day_start(t) \in Int
  BY DayStartType
<1> QED BY <1>1, <1>2 DEF following_day, Option

\* emergency_stop changes the status and the status to restore only.
LEMMA EmergencyStopKeeps ==
    ASSUME NEW a, AccountInv(a)
    PROVE  Keeps(a, emergency_stop(a))
<1> DEFINE b == emergency_stop(a)
<1>1. /\ "EmergencyStopped" \in Status
      /\ (IF a.status_before_breach = None THEN a.status ELSE a.status_before_breach)
           \in Option(Status)
  BY DEF AccountInv, AccountType, Option, Status
<1>2. b \in AccountType
  BY <1>1, Zenon DEF AccountInv, AccountType, emergency_stop
<1>3. SameDays(a, b) /\ SameLedger(a, b) /\ SameBalances(a, b) /\ SameWatermark(a, b)
  BY DEF AccountInv, AccountType, emergency_stop, SameDays, SameLedger, SameBalances,
         SameWatermark
<1> QED BY <1>2, <1>3, SameFieldsKeep DEF Keeps

\* clear_breach restores a status the account has had, or the default of its phase.
LEMMA ClearBreachKeeps ==
    ASSUME NEW a, AccountInv(a)
    PROVE  Keeps(a, clear_breach(a))
<1> DEFINE b == clear_breach(a)
<1>1. /\ (IF a.status_before_breach # None THEN a.status_before_breach
          ELSE IF a.phase = "Funded" THEN "Funded" ELSE "Active") \in Status
      /\ None \in Option(Status)
  BY DEF AccountInv, AccountType, Option, Status
<1>2. b \in AccountType
  BY <1>1, Zenon DEF AccountInv, AccountType, clear_breach
<1>3. SameDays(a, b) /\ SameLedger(a, b) /\ SameBalances(a, b) /\ SameWatermark(a, b)
  BY DEF AccountInv, AccountType, clear_breach, SameDays, SameLedger, SameBalances,
         SameWatermark
<1> QED BY <1>2, <1>3, SameFieldsKeep DEF Keeps

\* mark_payout_pending changes the status only.
LEMMA PayoutPendingKeeps ==
    ASSUME NEW a, AccountInv(a)
    PROVE  Keeps(a, mark_payout_pending(a))
<1> DEFINE b == mark_payout_pending(a)
<1>1. "PayoutPending" \in Status
  BY DEF Status
<1>2. b \in AccountType
  BY <1>1, Zenon DEF AccountInv, AccountType, mark_payout_pending
<1>3. SameDays(a, b) /\ SameLedger(a, b) /\ SameBalances(a, b) /\ SameWatermark(a, b)
  BY DEF AccountInv, AccountType, mark_payout_pending, SameDays, SameLedger, SameBalances,
         SameWatermark
<1> QED BY <1>2, <1>3, SameFieldsKeep DEF Keeps

\* mark_target_reached stamps the target once and may move the status.
LEMMA MarkTargetKeeps ==
    ASSUME NEW a, AccountInv(a), NEW at \in Int
    PROVE  Keeps(a, mark_target_reached(a, at))
<1>1. CASE a.target_reached_at # None
  BY <1>1 DEF Keeps, SameWatermark, mark_target_reached
<1>2. CASE a.target_reached_at = None
  <2> DEFINE status == IF a.status = "Active" THEN "TargetHitPending" ELSE a.status
             b == [a EXCEPT !.target_reached_at = at, !.status = status]
  <2>1. mark_target_reached(a, at) = b
    BY <1>2 DEF mark_target_reached
  <2>2. status \in Status /\ at \in Option(Int)
    BY DEF AccountInv, AccountType, Option, Status
  <2> HIDE DEF status
  <2>3. b \in AccountType
    BY <2>2, Zenon DEF AccountInv, AccountType
  <2>4. SameDays(a, b) /\ SameLedger(a, b) /\ SameBalances(a, b) /\ SameWatermark(a, b)
    BY DEF AccountInv, AccountType, SameDays, SameLedger, SameBalances, SameWatermark
  <2> QED BY <2>1, <2>3, <2>4, SameFieldsKeep DEF Keeps
<1> QED BY <1>1, <1>2

\* A new account satisfies the invariant.
LEMMA NewAccountInv ==
    ASSUME NEW ph \in Phase
    PROVE  AccountInv(NewAccount(ph)) /\ NewAccount(ph).balance_at_last_payout = Plan.initial_balance
<1> DEFINE a == NewAccount(ph)
<1>1. /\ Plan.initial_balance \in Int
      /\ 0 \in Nat /\ 0 \in Int
      /\ {} \in SUBSET DayTrade /\ {} \in SUBSET Position
      /\ None \in Option(Int) /\ None \in Option(Status)
      /\ "Pending" \in Status
  BY PlanAssumption DEF PlanType, Option, Status
<1>2. a \in AccountType
  BY <1>1, Zenon DEF AccountType, NewAccount
<1>3. /\ a.active_trading_days = 0 /\ a.trading_day_index = 0
      /\ a.largest_day_profit = 0 /\ a.sum_positive_days_profit = 0
      /\ a.largest_day_loss = 0
      /\ a.balance = Plan.initial_balance /\ a.peak_balance = Plan.initial_balance
      /\ a.balance_at_last_payout = Plan.initial_balance
  BY DEF NewAccount
<1> QED BY <1>1, <1>2, <1>3 DEF AccountInv, DaysOK, LedgerOK, PeakOK
----------------------------------------------------------------------------
(* The pipeline *)


ResultType ==
    [event : Option(PipelineEvent), outcome : Outcome,
     decision : Option(DecisionKind), liquidated : Option(SUBSET Nat)]

\* The inductive invariant: the account's own invariant, the types of the other
\* variables, and the payout ledger.
IInv ==
    /\ AccountInv(acct)
    /\ now \in Nat
    /\ calls \in Nat
    /\ result \in ResultType
    /\ hist.paid_basis \in Int
    /\ ProfitPaidOnce
----------------------------------------------------------------------------
(* The parts of a call *)

\* The automatic rollover keeps the invariant: it only ever moves forward.
LEMMA AutoRolloverKeeps ==
    ASSUME NEW a, AccountInv(a), NEW ts \in Int
    PROVE  Keeps(a, auto_rollover(a, ts))
<1> DEFINE day == trading_day_start(ts)
           current == a.current_trading_day_start
<1>1. CASE current = None \/ day <= current
  BY <1>1 DEF auto_rollover, Keeps, SameWatermark
<1>2. CASE ~(current = None \/ day <= current)
  <2> DEFINE had == a.today_realized_pnl # 0
             r == rollover_day(a, had, day)
             skipped == day - current - 1
             b == [r EXCEPT !.trading_day_index = r.trading_day_index + skipped]
  <2>1. day \in Int /\ current \in Int
    BY <1>2, DayStartType DEF AccountInv, AccountType, Option
  <2>2. skipped \in Nat
    BY <1>2, <2>1
  <2>3. Keeps(a, r)
    BY <2>1, RolloverKeeps
  <2>4. auto_rollover(a, ts) = b
    BY <1>2 DEF auto_rollover
  <2> HIDE DEF r, skipped
  <2>5. r.trading_day_index + skipped \in Nat
    BY <2>2, <2>3 DEF Keeps, AccountInv, AccountType
  <2>6. b \in AccountType
    BY <2>3, <2>5, Zenon DEF Keeps, AccountInv, AccountType
  <2>7. /\ SameLedger(r, b) /\ SameBalances(r, b) /\ SameWatermark(r, b)
        /\ b.active_trading_days = r.active_trading_days
        /\ b.day_counted_today = r.day_counted_today
        /\ b.trading_day_index = r.trading_day_index + skipped
    BY <2>3 DEF Keeps, AccountInv, AccountType, SameLedger, SameBalances, SameWatermark
  <2>8. DaysOK(b)
    BY <2>2, <2>3, <2>7 DEF Keeps, AccountInv, AccountType, DaysOK
  <2>9. Keeps(r, b)
    BY <2>3, <2>6, <2>7, <2>8
       DEF Keeps, AccountInv, LedgerOK, PeakOK, SameLedger, SameBalances
  <2> QED BY <2>3, <2>4, <2>9, KeepsTransitive
<1> QED BY <1>1, <1>2

\* Dropping old trades of the day touches no other field.
LEMMA RetainTodayKeeps ==
    ASSUME NEW a, AccountInv(a), NEW ts \in Int
    PROVE  Keeps(a, retain_today(a, ts))
<1> DEFINE today == {t \in a.today_trades :
                        trading_day_start(t.executed_at) >= trading_day_start(ts)}
           b == [a EXCEPT !.today_trades = today]
<1>1. today \in SUBSET DayTrade
  BY DEF AccountInv, AccountType
<1>2. retain_today(a, ts) = b
  BY Zenon DEF retain_today
<1> HIDE DEF today
<1>3. b \in AccountType
  BY <1>1, Zenon DEF AccountInv, AccountType
<1>4. SameDays(a, b) /\ SameLedger(a, b) /\ SameBalances(a, b) /\ SameWatermark(a, b)
  BY DEF AccountInv, AccountType, SameDays, SameLedger, SameBalances, SameWatermark
<1> QED BY <1>2, <1>3, <1>4, SameFieldsKeep DEF Keeps

\* What a call does before its own event.
LEMMA PreparedKeeps ==
    ASSUME AccountInv(acct), NEW ts \in Int
    PROVE  Keeps(acct, prepared(ts))
<1> DEFINE r == auto_rollover(acct, ts)
<1>1. Keeps(acct, r)
  BY AutoRolloverKeeps
<1>2. AccountInv(r)
  BY <1>1 DEF Keeps
<1> HIDE DEF r
<1>3. Keeps(r, retain_today(r, ts))
  BY <1>2, RetainTodayKeeps
<1> QED BY <1>1, <1>3, KeepsTransitive DEF prepared, r

\* Promotion starts every counter of the new phase together.
LEMMA PromoteKeeps ==
    ASSUME NEW a, AccountInv(a), can_upgrade(a)
    PROVE  Keeps(a, promote(a))
<1> DEFINE b == promote(a)
<1>1. /\ next_phase_for(a.phase) \in Phase
      /\ "Active" \in Status
      /\ None \in Option(Int)
      /\ 0 \in Nat /\ 0 \in Int
  BY DEF AccountInv, AccountType, can_upgrade, next_phase_for, Phase, Status, Option
<1>2. b \in AccountType
  BY <1>1, Zenon DEF AccountInv, AccountType, promote
<1>3. /\ b.active_trading_days = 0 /\ b.trading_day_index = 0
      /\ b.largest_day_profit = 0 /\ b.sum_positive_days_profit = 0
      /\ b.largest_day_loss = 0
      /\ b.balance = a.balance /\ b.peak_balance = a.balance
      /\ b.balance_at_last_payout = a.balance_at_last_payout
  BY DEF AccountInv, AccountType, promote
<1> QED BY <1>2, <1>3
        DEF Keeps, AccountInv, AccountType, DaysOK, LedgerOK, PeakOK, SameWatermark

\* A terminating decision changes the status and the status to restore only.
LEMMA BreachKeeps ==
    ASSUME NEW a, AccountInv(a), NEW kind
    PROVE  Keeps(a, breach(a, kind))
<1> DEFINE target == account_status_target(kind)
           b == [a EXCEPT !.status_before_breach = a.status, !.status = target]
<1>1. a.status \in Option(Status) /\ target \in Status
  BY DEF AccountInv, AccountType, Option, Status, account_status_target
<1>2. breach(a, kind) = b
  BY Zenon DEF breach
<1> HIDE DEF target
<1>3. b \in AccountType
  BY <1>1, Zenon DEF AccountInv, AccountType
<1>4. SameDays(a, b) /\ SameLedger(a, b) /\ SameBalances(a, b) /\ SameWatermark(a, b)
  BY DEF AccountInv, AccountType, SameDays, SameLedger, SameBalances, SameWatermark
<1> QED BY <1>2, <1>3, <1>4, SameFieldsKeep DEF Keeps

\* apply_decision keeps the invariant unless the phase upgrade is refused.
LEMMA ApplyDecisionKeeps ==
    ASSUME NEW a, AccountInv(a), NEW kind, NEW at \in Int, ~upgrade_fails(a, kind, at)
    PROVE  Keeps(a, apply_decision(a, kind, at))
<1> DEFINE m == marked(a, kind, at)
           p == IF ready_to_pass(m) THEN promote(m) ELSE m
<1>1. Keeps(a, m)
  BY MarkTargetKeeps DEF marked, Keeps, SameWatermark
<1>2. ready_to_pass(m) => can_upgrade(m)
  BY DEF upgrade_fails
<1>3. apply_decision(a, kind, at) = IF is_terminating(kind) THEN breach(p, kind) ELSE p
  BY DEF apply_decision
<1> HIDE DEF m
<1>4. Keeps(m, p)
  <2>1. AccountInv(m)
    BY <1>1 DEF Keeps
  <2> QED BY <1>2, <2>1, PromoteKeeps DEF Keeps, SameWatermark
<1> HIDE DEF p
<1>5. Keeps(p, breach(p, kind))
  BY <1>4, BreachKeeps DEF Keeps
<1> QED BY <1>1, <1>3, <1>4, <1>5, KeepsTransitive

\* Whatever the rules report, a decision has one of the decision kinds.
LEMMA EvaluateType ==
    ASSUME NEW a, NEW c
    PROVE  evaluate(a, c) \in DecisionKind
BY DEF evaluate, KindOf, DecisionKind, RuleVerdict

\* A liquidation names positions by their ids.
LEMMA LiquidationType ==
    ASSUME NEW a, AccountInv(a), NEW kind
    PROVE  liquidation(a, kind) \in Option(SUBSET Nat)
<1>1. a.open_positions \in SUBSET Position
  BY DEF AccountInv, AccountType
<1>2. {p.id : p \in a.open_positions} \in SUBSET Nat
  BY <1>1 DEF Position
<1> QED BY <1>2 DEF liquidation, Option

\* What reject and finish leave behind: an account that satisfies the invariant,
\* typed bookkeeping, and the watermark of the account the call worked on.
CallOK(b) ==
    /\ AccountInv(acct')
    /\ now' = now /\ calls' \in Nat
    /\ result' \in ResultType
    /\ IF result'.outcome = "Ok" THEN SameWatermark(b, acct') ELSE acct' = acct

\* A rejected call changes nothing but the result.
LEMMA RejectOK ==
    ASSUME IInv, NEW b, NEW event \in PipelineEvent, NEW outcome \in Outcome \ {"Ok"},
           reject(event, outcome)
    PROVE  CallOK(b)
<1>1. result' \in ResultType /\ result'.outcome # "Ok"
  BY DEF reject, ResultType, Option
<1> QED BY <1>1 DEF CallOK, IInv, reject

\* A call that goes through applies its decision to a good account.
LEMMA FinishOK ==
    ASSUME IInv, NEW event \in PipelineEvent, NEW a, NEW c, NEW b, AccountInv(b),
           finish(event, a, c, b)
    PROVE  CallOK(b)
<1> DEFINE kind == evaluate(a, c)
<1>1. kind \in DecisionKind
  BY EvaluateType
<1> HIDE DEF kind
<1>2. CASE upgrade_fails(b, kind, now)
  <2>1. reject(event, "PhaseUpgradeFailed")
    BY <1>2 DEF finish, kind
  <2> QED BY <2>1, RejectOK DEF Outcome
<1>3. CASE ~upgrade_fails(b, kind, now)
  <2>1. /\ acct' = apply_decision(b, kind, now)
        /\ calls' = calls + 1
        /\ result' = [event |-> event, outcome |-> "Ok", decision |-> kind,
                      liquidated |-> liquidation(b, kind)]
        /\ now' = now
    BY <1>3 DEF finish, kind
  <2>2. Keeps(b, acct')
    BY <1>3, <2>1, ApplyDecisionKeeps DEF IInv
  <2>3. liquidation(b, kind) \in Option(SUBSET Nat)
    BY LiquidationType
  <2>4. result' \in ResultType /\ result'.outcome = "Ok"
    BY <1>1, <2>1, <2>3 DEF ResultType, Option, Outcome
  <2> QED BY <2>1, <2>2, <2>4 DEF CallOK, Keeps, IInv
<1> QED BY <1>2, <1>3

\* A fill opens or closes positions and joins the day's trades.
LEMMA ConsumeFillKeeps ==
    ASSUME NEW a, AccountInv(a), calls \in Nat, NEW fill \in Fills, NEW at \in Int,
           NEW position
    PROVE  Keeps(a, consume_fill(a, fill, at, position))
<1> DEFINE opened == [id |-> calls, symbol |-> fill.symbol, side |-> fill.side,
                      lots |-> fill.lots, price |-> fill.price]
           positions == IF fill.trade_side = "Exit"
                        THEN {p \in a.open_positions : p.id # position}
                        ELSE a.open_positions \cup {opened}
           trade == [id |-> calls, executed_at |-> at, trade_side |-> fill.trade_side,
                     symbol |-> fill.symbol, lots |-> fill.lots, price |-> fill.price,
                     net |-> fill.pnl - fill.cost]
           trades == a.today_trades \cup {trade}
           b == [a EXCEPT !.open_positions = positions, !.today_trades = trades]
<1>1. fill \in [trade_side : {"Entry", "Exit", "Reverse"}, symbol : STRING,
               side : {"Buy", "Sell"}, lots : Nat, price : Nat, pnl : Int,
               cost : Int, has_exit : BOOLEAN]
  BY EventAssumption
<1>2. opened \in Position /\ trade \in DayTrade
  BY <1>1 DEF Position, DayTrade
<1>3. consume_fill(a, fill, at, position) = b
  BY Zenon DEF consume_fill
<1> HIDE DEF opened, trade
<1>4. positions \in SUBSET Position /\ trades \in SUBSET DayTrade
  BY <1>2 DEF AccountInv, AccountType
<1> HIDE DEF positions, trades
<1>5. b \in AccountType
  BY <1>4, Zenon DEF AccountInv, AccountType
<1>6. SameDays(a, b) /\ SameLedger(a, b) /\ SameBalances(a, b) /\ SameWatermark(a, b)
  BY DEF AccountInv, AccountType, SameDays, SameLedger, SameBalances, SameWatermark
<1> QED BY <1>3, <1>5, <1>6, SameFieldsKeep DEF Keeps

\* Stamping the last tick touches no other field.
LEMMA LastTickKeeps ==
    ASSUME NEW a, AccountInv(a), NEW ts \in Int
    PROVE  Keeps(a, [a EXCEPT !.last_tick_ts = ts])
<1> DEFINE b == [a EXCEPT !.last_tick_ts = ts]
<1>1. ts \in Option(Int)
  BY DEF Option
<1>2. b \in AccountType
  BY <1>1, Zenon DEF AccountInv, AccountType
<1>3. SameDays(a, b) /\ SameLedger(a, b) /\ SameBalances(a, b) /\ SameWatermark(a, b)
  BY DEF AccountInv, AccountType, SameDays, SameLedger, SameBalances, SameWatermark
<1> QED BY <1>2, <1>3, SameFieldsKeep DEF Keeps

\* The trader's part of a profit is not negative, whatever tier applies.
LEMMA TraderPartNat ==
    ASSUME NEW a \in AccountType
    PROVE  trader_part(a) \in Nat /\ fee_refund(a) \in Nat /\ profit_basis(a) \in Nat
<1> DEFINE tiers == Plan.trader_share_pct
           share == trader_share_for(a.payout_count)
<1>1. profit_basis(a) \in Nat
  BY DEF profit_basis, Greater, AccountType
<1>2. fee_refund(a) \in Nat
  BY PlanAssumption DEF fee_refund, PlanType
<1>3. tiers \in Seq(Nat)
  BY PlanAssumption DEF PlanType
<1>4. a.payout_count \in Nat
  BY DEF AccountType
<1>5. share \in Nat
  <2>1. CASE tiers = <<>>
    BY <2>1 DEF trader_share_for
  <2>2. CASE tiers # <<>>
    <3> DEFINE i == Lesser(a.payout_count, Len(tiers) - 1) + 1
    <3>1. Len(tiers) \in Nat /\ Len(tiers) # 0
      BY <1>3, <2>2
    <3>2. i \in 1 .. Len(tiers)
      BY <1>4, <3>1 DEF Lesser
    <3>3. tiers[i] \in Nat
      BY <1>3, <3>2
    <3> QED BY <2>2, <3>3 DEF trader_share_for
  <2> QED BY <2>1, <2>2
<1>6. profit_basis(a) * share \in Nat
  BY <1>1, <1>5
<1>7. (profit_basis(a) * share) \div 100 \in Nat
  BY <1>6
<1> QED BY <1>1, <1>2, <1>7 DEF trader_part

\* record_payout raises the watermark to the balance before the payment and
\* never the balance above its peak.
LEMMA RecordPayout ==
    ASSUME NEW a, AccountInv(a), NEW at \in Int
    PROVE  /\ AccountInv(record_payout(a, at))
           /\ record_payout(a, at).balance_at_last_payout = a.balance
<1> DEFINE left == a.balance - amount(a) + fee_refund(a)
           status == IF a.status = "PayoutPending" THEN "Funded" ELSE a.status
           used == a.refund_used \/ fee_refund(a) > 0
           b == [a EXCEPT !.payout_count = a.payout_count + 1,
                          !.balance_at_last_payout = a.balance, !.last_payout_at = at,
                          !.balance = left, !.status = status, !.refund_used = used]
<1>1. /\ trader_part(a) \in Nat /\ fee_refund(a) \in Nat
      /\ a.balance \in Int /\ a.payout_count \in Nat
  BY TraderPartNat DEF AccountInv, AccountType
<1>2. left \in Int /\ left <= a.balance
  BY <1>1 DEF amount
<1>3. /\ a.payout_count + 1 \in Nat /\ at \in Option(Int) /\ status \in Status
  BY <1>1 DEF AccountInv, AccountType, Option, Status
<1>4. used \in BOOLEAN
  OBVIOUS
<1>5. record_payout(a, at) = b
  BY Zenon DEF record_payout
<1> HIDE DEF left, status, used
<1>6. b \in AccountType
  BY <1>1, <1>2, <1>3, <1>4, Zenon DEF AccountInv, AccountType
<1>7. /\ SameDays(a, b) /\ SameLedger(a, b)
      /\ b.balance = left /\ b.peak_balance = a.peak_balance
      /\ b.balance_at_last_payout = a.balance
  BY DEF AccountInv, AccountType, SameDays, SameLedger
<1>8. PeakOK(b)
  BY <1>2, <1>7 DEF AccountInv, AccountType, PeakOK
<1>9. AccountInv(b)
  BY <1>6, <1>7, <1>8 DEF AccountInv, DaysOK, LedgerOK, SameDays, SameLedger
<1> QED BY <1>5, <1>7, <1>9
\* The ledger of payouts follows the watermark of the account worked on.
LEMMA HistoryOK ==
    ASSUME IInv, NEW b, CallOK(b), NEW days, NEW paid \in Int,
           history(days, paid),
           result'.outcome = "Ok" =>
               b.balance_at_last_payout = acct.balance_at_last_payout + paid
    PROVE  IInv'
<1>1. hist'.paid_basis \in Int /\ ProfitPaidOnce'
  <2>1. CASE result'.outcome = "Ok"
    <3>1. hist'.paid_basis = hist.paid_basis + paid
      BY <2>1 DEF history
    <3>2. acct'.balance_at_last_payout = acct.balance_at_last_payout + paid
      BY <2>1 DEF CallOK, SameWatermark
    <3>3. acct.balance_at_last_payout \in Int /\ Plan.initial_balance \in Int
      BY PlanAssumption DEF IInv, AccountInv, AccountType, PlanType
    <3> QED BY <3>1, <3>2, <3>3 DEF IInv, ProfitPaidOnce
  <2>2. CASE result'.outcome # "Ok"
    BY <2>2 DEF history, CallOK, IInv, ProfitPaidOnce
  <2> QED BY <2>1, <2>2
<1> QED BY <1>1 DEF IInv, CallOK

\* A call that pays nothing preserves the invariant.
LEMMA UnpaidOK ==
    ASSUME IInv, NEW b, Keeps(acct, b), CallOK(b), NEW days,
           history(days, 0)
    PROVE  IInv'
<1>1. b.balance_at_last_payout = acct.balance_at_last_payout + 0
  BY DEF IInv, Keeps, SameWatermark, AccountInv, AccountType
<1> QED BY <1>1, HistoryOK
----------------------------------------------------------------------------
(* The actions *)

\* Starting an account (PipelineEvent::AccountStarted) keeps the invariant.
LEMMA AccountStartedOK ==
    ASSUME IInv, NEW at \in Nat, AccountStarted(at)
    PROVE  IInv'
<1> DEFINE a == prepared(at)
           b == start(a, at)
<1>1. Keeps(acct, a)
  BY PreparedKeeps DEF IInv
<1> HIDE DEF a
<1>2. Keeps(a, b)
  BY <1>1, StartKeeps DEF Keeps
<1>3. Keeps(acct, b)
  BY <1>1, <1>2, KeepsTransitive
<1>4. \/ reject("AccountStarted", "InvalidState")
      \/ finish("AccountStarted", b, context("OnDemand", a), b)
  BY Zenon DEF AccountStarted, a
<1> HIDE DEF b
<1>5. CallOK(b)
  BY <1>3, <1>4, RejectOK, FinishOK DEF Keeps, PipelineEvent, Outcome
<1> QED BY <1>3, <1>5, UnpaidOK DEF AccountStarted, unrecorded

\* An order (PipelineEvent::OrderSubmitted) keeps the invariant.
LEMMA OrderSubmittedOK ==
    ASSUME IInv, NEW at \in Nat, NEW order, OrderSubmitted(order, at)
    PROVE  IInv'
<1> DEFINE a == prepared(at)
           c == [context("OnOrderSubmit", a) EXCEPT !.order = order, !.submitted_at = at]
<1>1. Keeps(acct, a)
  BY PreparedKeeps DEF IInv
<1>2. finish("OrderSubmitted", a, c, a)
  BY Zenon DEF OrderSubmitted
<1> HIDE DEF a, c
<1>3. CallOK(a)
  BY <1>1, <1>2, FinishOK DEF Keeps, PipelineEvent
<1> QED BY <1>1, <1>3, UnpaidOK DEF OrderSubmitted, unrecorded

\* A fill (PipelineEvent::TradeFilled), consumed after the rules ran, keeps it.
LEMMA TradeFilledOK ==
    ASSUME IInv, NEW at \in Nat, NEW fill \in Fills, NEW position,
           TradeFilled(fill, at, position)
    PROVE  IInv'
<1> DEFINE p == prepared(at)
           net == fill.pnl - fill.cost
           q == apply_realized_pnl(p, net, at)
           a == mark_active_trading_day(q)
           b == consume_fill(a, fill, at, position)
           t == [trade_side |-> fill.trade_side, symbol |-> fill.symbol,
                 pnl |-> fill.pnl, executed_at |-> at]
           c == [context("OnTradeFill", p) EXCEPT !.trade = t]
<1>1. \/ reject("TradeFilled", "Persistence")
      \/ finish("TradeFilled", a, c, b)
  BY Zenon DEF TradeFilled
<1>2. history({trading_day_start(at)}, 0)
  BY Zenon DEF TradeFilled
<1>3. net \in Int
  BY EventAssumption
<1>4. Keeps(acct, p)
  BY PreparedKeeps DEF IInv
<1> HIDE DEF p, net
<1>5. Keeps(p, q)
  BY <1>3, <1>4, RealizedPnlKeeps DEF Keeps
<1> HIDE DEF q
<1>6. Keeps(q, a)
  BY <1>5, MarkActiveKeeps DEF Keeps
<1> HIDE DEF a
<1>7. Keeps(a, b)
  BY <1>6, ConsumeFillKeeps DEF Keeps, IInv
<1> HIDE DEF b, c
<1>8. Keeps(acct, b)
  BY <1>4, <1>5, <1>6, <1>7, KeepsTransitive
<1>9. CallOK(b)
  BY <1>1, <1>8, RejectOK, FinishOK DEF Keeps, PipelineEvent, Outcome
<1> QED BY <1>2, <1>8, <1>9, UnpaidOK

\* A broker tick (PipelineEvent::Tick), accepted or rejected, keeps it.
LEMMA TickOK ==
    ASSUME IInv, NEW ts \in Nat, NEW quote \in Quotes, Tick(quote, ts)
    PROVE  IInv'
<1> DEFINE p == prepared(ts)
           q == update_equity(p, quote.equity)
           a == update_balance(q, quote.balance)
           b == [a EXCEPT !.last_tick_ts = ts]
           c == [context("OnTick", p) EXCEPT !.broker_equity = quote.equity]
<1>1. \/ reject("Tick", "TickRejected")
      \/ finish("Tick", a, c, b)
  BY Zenon DEF Tick
<1>2. quote.equity \in Int /\ quote.balance \in Int
  BY EventAssumption
<1>3. Keeps(acct, p)
  BY PreparedKeeps DEF IInv
<1> HIDE DEF p
<1>4. Keeps(p, q)
  BY <1>2, <1>3, UpdateEquityKeeps DEF Keeps
<1> HIDE DEF q
<1>5. Keeps(q, a)
  BY <1>2, <1>4, UpdateBalanceKeeps DEF Keeps
<1> HIDE DEF a
<1>6. Keeps(a, b)
  BY <1>5, LastTickKeeps DEF Keeps
<1> HIDE DEF b, c
<1>7. Keeps(acct, b)
  BY <1>3, <1>4, <1>5, <1>6, KeepsTransitive
<1>8. CallOK(b)
  BY <1>1, <1>7, RejectOK, FinishOK DEF Keeps, PipelineEvent, Outcome
<1> QED BY <1>7, <1>8, UnpaidOK DEF Tick, unrecorded
\* An estimated tick (PipelineEvent::TickEstimated) keeps it.
LEMMA TickEstimatedOK ==
    ASSUME IInv, NEW ts \in Nat, TickEstimated(ts)
    PROVE  IInv'
<1> DEFINE a == prepared(ts)
           b == [a EXCEPT !.last_tick_ts = ts]
           c == context("OnTick", a)
<1>1. finish("TickEstimated", a, c, b)
  BY Zenon DEF TickEstimated
<1>2. Keeps(acct, a)
  BY PreparedKeeps DEF IInv
<1> HIDE DEF a
<1>3. Keeps(a, b)
  BY <1>2, LastTickKeeps DEF Keeps
<1> HIDE DEF b, c
<1>4. Keeps(acct, b)
  BY <1>2, <1>3, KeepsTransitive
<1>5. CallOK(b)
  BY <1>1, <1>4, FinishOK DEF Keeps, PipelineEvent
<1> QED BY <1>4, <1>5, UnpaidOK DEF TickEstimated, unrecorded

\* An explicit rollover (PipelineEvent::DayRollover) keeps it.
LEMMA DayRolloverOK ==
    ASSUME IInv, NEW had \in BOOLEAN, DayRollover(had)
    PROVE  IInv'
<1> DEFINE r == retain_today(acct, now)
           next == following_day(r, now)
           a == rollover_day(r, had, next)
           c == context("OnDayRollover", r)
<1>1. finish("DayRollover", a, c, a)
  BY Zenon DEF DayRollover
<1>2. Keeps(acct, r)
  BY RetainTodayKeeps DEF IInv
<1> HIDE DEF r
<1>3. next \in Int
  BY <1>2, FollowingDayType DEF Keeps, AccountInv, IInv
<1> HIDE DEF next
<1>4. Keeps(r, a)
  BY <1>2, <1>3, RolloverKeeps DEF Keeps
<1> HIDE DEF a, c
<1>5. Keeps(acct, a)
  BY <1>2, <1>4, KeepsTransitive
<1>6. CallOK(a)
  BY <1>1, <1>5, FinishOK DEF Keeps, PipelineEvent
<1> QED BY <1>5, <1>6, UnpaidOK DEF DayRollover, unrecorded

\* EndOfDay and OnDemand, which only evaluate, keep it.
LEMMA EvaluationOK ==
    ASSUME IInv, NEW event \in PipelineEvent, NEW kind, Evaluation(event, kind)
    PROVE  IInv'
<1> DEFINE a == prepared(now)
           c == context(kind, a)
<1>1. finish(event, a, c, a)
  BY Zenon DEF Evaluation
<1>2. Keeps(acct, a)
  BY PreparedKeeps DEF IInv
<1> HIDE DEF a, c
<1>3. CallOK(a)
  BY <1>1, <1>2, FinishOK DEF Keeps
<1> QED BY <1>2, <1>3, UnpaidOK DEF Evaluation, unrecorded

\* An emergency stop (PipelineEvent::EmergencyStop) keeps it.
LEMMA EmergencyStopOK ==
    ASSUME IInv, NEW at \in Nat, EmergencyStop(at)
    PROVE  IInv'
<1> DEFINE p == prepared(at)
           a == emergency_stop(p)
           c == context("OnDemand", a)
<1>1. finish("EmergencyStop", a, c, a)
  BY Zenon DEF EmergencyStop
<1>2. Keeps(acct, p)
  BY PreparedKeeps DEF IInv
<1> HIDE DEF p
<1>3. Keeps(p, a)
  BY <1>2, EmergencyStopKeeps DEF Keeps
<1> HIDE DEF a, c
<1>4. Keeps(acct, a)
  BY <1>2, <1>3, KeepsTransitive
<1>5. CallOK(a)
  BY <1>1, <1>4, FinishOK DEF Keeps, PipelineEvent
<1> QED BY <1>4, <1>5, UnpaidOK DEF EmergencyStop, unrecorded

\* An override (PipelineEvent::OverrideBreach), accepted or refused, keeps it.
LEMMA OverrideBreachOK ==
    ASSUME IInv, NEW at \in Nat, NEW valid \in BOOLEAN, OverrideBreach(at, valid)
    PROVE  IInv'
<1> DEFINE a == prepared(at)
           b == clear_breach(a)
           c == context("OnDemand", a)
<1>1. \/ reject("OverrideBreach", "InvalidState")
      \/ finish("OverrideBreach", b, c, b)
  BY Zenon DEF OverrideBreach
<1>2. Keeps(acct, a)
  BY PreparedKeeps DEF IInv
<1> HIDE DEF a
<1>3. Keeps(a, b)
  BY <1>2, ClearBreachKeeps DEF Keeps
<1> HIDE DEF b, c
<1>4. Keeps(acct, b)
  BY <1>2, <1>3, KeepsTransitive
<1>5. CallOK(b)
  BY <1>1, <1>4, RejectOK, FinishOK DEF Keeps, PipelineEvent, Outcome
<1> QED BY <1>4, <1>5, UnpaidOK DEF OverrideBreach, unrecorded

\* A payout request (PipelineEvent::PayoutRequest) keeps it.
LEMMA PayoutRequestOK ==
    ASSUME IInv, PayoutRequest
    PROVE  IInv'
<1> DEFINE a == prepared(now)
           b == mark_payout_pending(a)
           c == context("OnDemand", a)
<1>1. \/ reject("PayoutRequest", "InvalidState")
      \/ finish("PayoutRequest", b, c, b)
  BY Zenon DEF PayoutRequest
<1>2. Keeps(acct, a)
  BY PreparedKeeps DEF IInv
<1> HIDE DEF a
<1>3. Keeps(a, b)
  BY <1>2, PayoutPendingKeeps DEF Keeps
<1> HIDE DEF b, c
<1>4. Keeps(acct, b)
  BY <1>2, <1>3, KeepsTransitive
<1>5. CallOK(b)
  BY <1>1, <1>4, RejectOK, FinishOK DEF Keeps, PipelineEvent, Outcome
<1> QED BY <1>4, <1>5, UnpaidOK DEF PayoutRequest, unrecorded

\* An approved payout has a positive basis, and that basis is the rise of the
\* watermark.
LEMMA PayoutApproveOK ==
    ASSUME IInv, PayoutApprove
    PROVE  IInv'
<1> DEFINE a == prepared(now)
           b == record_payout(a, now)
           c == context("OnDemand", a)
           paid == profit_basis(a)
<1>1. \/ reject("PayoutApprove", "InvalidState")
      \/ ~payout_refused(a) /\ finish("PayoutApprove", b, c, b)
  BY Zenon DEF PayoutApprove
<1>2. history({}, paid)
  BY Zenon DEF PayoutApprove
<1>3. Keeps(acct, a)
  BY PreparedKeeps DEF IInv
<1> HIDE DEF a
<1>4. AccountInv(b) /\ b.balance_at_last_payout = a.balance
  BY <1>3, RecordPayout DEF Keeps, IInv
<1>5. paid \in Int
  BY <1>3 DEF profit_basis, Greater, Keeps, AccountInv, AccountType
<1>6. ~payout_refused(a) => a.balance = acct.balance_at_last_payout + paid
  <2>1. ~payout_refused(a) => quote_payout(a, now) = "None"
    BY Zenon DEF payout_refused
  <2>2. quote_payout(a, now) = "None" => paid > 0
    BY <1>5 DEF quote_payout
  <2>3. /\ a.balance_at_last_payout = acct.balance_at_last_payout
        /\ a.balance \in Int /\ acct.balance_at_last_payout \in Int
    BY <1>3 DEF Keeps, SameWatermark, AccountInv, AccountType, IInv
  <2>4. paid > 0 => paid = a.balance - a.balance_at_last_payout
    BY <2>3 DEF profit_basis, Greater
  <2> QED BY <2>1, <2>2, <2>3, <2>4
<1> HIDE DEF b, c, paid
<1>7. CASE reject("PayoutApprove", "InvalidState")
  <2>1. CallOK(b)
    BY <1>7, RejectOK DEF PipelineEvent, Outcome
  <2>2. result'.outcome # "Ok"
    BY <1>7 DEF reject
  <2> QED BY <1>2, <1>5, <2>1, <2>2, HistoryOK
<1>8. CASE ~payout_refused(a) /\ finish("PayoutApprove", b, c, b)
  <2>1. CallOK(b)
    BY <1>4, <1>8, FinishOK DEF PipelineEvent
  <2> QED BY <1>2, <1>4, <1>5, <1>6, <1>8, <2>1, HistoryOK
<1> QED BY <1>1, <1>7, <1>8
\* The passing of time keeps it.
LEMMA AdvanceOK ==
    ASSUME IInv, Advance
    PROVE  IInv'
BY DEF IInv, Advance, ProfitPaidOnce

\* The platform marking an account as funded keeps it.
LEMMA FundedByPlatformOK ==
    ASSUME IInv, FundedByPlatform
    PROVE  IInv'
<1> DEFINE b == [acct EXCEPT !.status = "Funded"]
<1>1. "Funded" \in Status
  BY DEF Status
<1>2. b \in AccountType
  BY <1>1, Zenon DEF IInv, AccountInv, AccountType
<1>3. /\ SameDays(acct, b) /\ SameLedger(acct, b)
      /\ SameBalances(acct, b) /\ SameWatermark(acct, b)
  BY DEF IInv, AccountInv, AccountType, SameDays, SameLedger, SameBalances, SameWatermark
<1>4. Keeps(acct, b)
  BY <1>2, <1>3, SameFieldsKeep DEF Keeps, IInv
<1>5. acct' = b /\ now' = now /\ calls' = calls /\ hist' = hist /\ result' = NoResult
  BY Zenon DEF FundedByPlatform
<1>6. NoResult \in ResultType
  BY DEF NoResult, ResultType, Option, Outcome
<1> HIDE DEF b
<1> QED BY <1>4, <1>5, <1>6 DEF IInv, Keeps, SameWatermark, ProfitPaidOnce
----------------------------------------------------------------------------
(* The theorems *)

\* A new account (Account::new) satisfies the invariant.
LEMMA InitOK == Init => IInv
<1> SUFFICES ASSUME Init PROVE IInv
  OBVIOUS
<1>1. PICK ph \in InitPhases : acct = NewAccount(ph)
  BY DEF Init
<1>2. ph \in Phase
  BY EventAssumption
<1>3. AccountInv(acct) /\ acct.balance_at_last_payout = Plan.initial_balance
  BY <1>1, <1>2, NewAccountInv
<1>4. result \in ResultType
  BY DEF Init, NoResult, ResultType, Option, Outcome
<1>5. hist.paid_basis = 0
  BY DEF Init
<1>6. Plan.initial_balance \in Int
  BY PlanAssumption DEF PlanType
<1> QED BY <1>3, <1>4, <1>5, <1>6 DEF IInv, Init, ProfitPaidOnce

\* Every step of the pipeline, and a stutter, keeps the invariant.
LEMMA NextOK == IInv /\ [Next]_vars => IInv'
<1> SUFFICES ASSUME IInv, [Next]_vars PROVE IInv'
  OBVIOUS
<1> Stamps \subseteq Nat
  BY DEF Stamps
<1>1. CASE \E at \in Stamps : AccountStarted(at)
  BY <1>1, AccountStartedOK
<1>2. CASE \E o \in Orders, at \in Stamps : OrderSubmitted(o, at)
  BY <1>2, OrderSubmittedOK
<1>3. CASE \E f \in Fills, at \in Stamps : \E p \in named_positions(f) : TradeFilled(f, at, p)
  BY <1>3, TradeFilledOK
<1>4. CASE \E q \in Quotes, ts \in Stamps : Tick(q, ts)
  BY <1>4, TickOK
<1>5. CASE \E ts \in Stamps : TickEstimated(ts)
  BY <1>5, TickEstimatedOK
<1>6. CASE \E had \in BOOLEAN : DayRollover(had)
  BY <1>6, DayRolloverOK
<1>7. CASE EndOfDay
  BY <1>7, EvaluationOK DEF EndOfDay, PipelineEvent
<1>8. CASE OnDemand
  BY <1>8, EvaluationOK DEF OnDemand, PipelineEvent
<1>9. CASE \E at \in Stamps : EmergencyStop(at)
  BY <1>9, EmergencyStopOK
<1>10. CASE \E at \in Stamps, valid \in BOOLEAN : OverrideBreach(at, valid)
  BY <1>10, OverrideBreachOK
<1>11. CASE PayoutRequest
  BY <1>11, PayoutRequestOK
<1>12. CASE PayoutApprove
  BY <1>12, PayoutApproveOK
<1>13. CASE Advance
  BY <1>13, AdvanceOK
<1>14. CASE FundedByPlatform
  BY <1>14, FundedByPlatformOK
<1>15. CASE UNCHANGED vars
  BY <1>15 DEF vars, IInv, ProfitPaidOnce
<1> QED BY <1>1, <1>2, <1>3, <1>4, <1>5, <1>6, <1>7, <1>8, <1>9, <1>10, <1>11, <1>12,
           <1>13, <1>14, <1>15 DEF Next

\* The inductive invariant holds in every reachable state.
THEOREM InductiveInvariant == Spec => []IInv
<1>1. Init => IInv
  BY InitOK
<1>2. IInv /\ [Next]_vars => IInv'
  BY NextOK
<1> QED BY <1>1, <1>2, PTL DEF Spec

\* Type correctness: whatever events a caller submits and whatever the rules
\* decide, Pipeline::process returns a well-formed account.
THEOREM TypeCorrect == Spec => []TypeOK
<1>1. IInv => TypeOK
  BY DEF IInv, TypeOK, AccountInv, ResultType
<1> QED BY <1>1, InductiveInvariant, PTL

\* mark_active_trading_day, rollover_day, the automatic rollover and promotion
\* together never count a trading day twice.
THEOREM DaysCountedOnce == Spec => []NoDayCountedTwice
<1>1. IInv => NoDayCountedTwice
  BY DEF IInv, AccountInv, DaysOK, NoDayCountedTwice
<1> QED BY <1>1, InductiveInvariant, PTL

\* The balance watermark used by drawdown limits never falls below the balance.
THEOREM PeakBalance == Spec => []PeakBalanceIsPeak
<1>1. IInv => PeakBalanceIsPeak
  BY DEF IInv, AccountInv, PeakOK, PeakBalanceIsPeak
<1> QED BY <1>1, InductiveInvariant, PTL

\* The best day the consistency rule divides by the sum is part of that sum.
THEOREM BestDay == Spec => []BestDayWithinSum
<1>1. IInv => BestDayWithinSum
  BY DEF IInv, AccountInv, LedgerOK, BestDayWithinSum
<1> QED BY <1>1, InductiveInvariant, PTL

\* record_payout never pays the same profit twice: the bases of all payouts add
\* up to the rise of the payout watermark.
THEOREM PaidOnce == Spec => []ProfitPaidOnce
<1>1. IInv => ProfitPaidOnce
  BY DEF IInv
<1> QED BY <1>1, InductiveInvariant, PTL
=============================================================================
