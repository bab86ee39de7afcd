------------------------------- MODULE Ledger -------------------------------
(***************************************************************************)
(* The general ledger of one fiscal year, a SQL statement at a time under  *)
(* READ COMMITTED: GlEngineService (post, reverse), JournalEntriesService  *)
(* (drafts posted by hand), FinancialPeriodsService (close),               *)
(* FiscalYearCloseService, FiscalCalendarService (a month is opened when   *)
(* it is first posted to), FinancialTransactionsService (money in or out,  *)
(* recorded as a draft, posted, reversed), and the reversal that           *)
(* PurchaseReturnService makes of the entry of a return.  Whatever else    *)
(* posts to the ledger (a sale, a receipt, a payment) does it through      *)
(* GlEngineService.post, inside its own transaction.                       *)
(* An entry has two kinds of lines, on an account of the balance sheet     *)
(* and on an income account; debits count up, credits down.                *)
(* Rows are locked from the statement that writes them to the end of the   *)
(* transaction: the counter of entry numbers of a period, the journal      *)
(* entry, the snapshot (AccountBalance) of an account in a period.         *)
(* Operators named Mutant.. are plausible bugs of the definition that      *)
(* follows them.                                                           *)
(***************************************************************************)
EXTENDS Integers, Sequences, FiniteSetsExt, Null

CONSTANTS
    Entries,       \* journal entries that can be made
    Periods,       \* the months of the year, in order
    FTs,           \* financial transactions that can be recorded
    Txns,          \* transactions that can run at the same time
    MaxRequests    \* bound on the number of requests

Cash == "cash"
Revenue == "revenue"
Refunds == "refunds"     \* contra revenue
Retained == "retained"   \* retained earnings
Accounts == {Cash, Revenue, Refunds, Retained}
Income == {Revenue, Refunds}

ASSUME LedgerAssumption ==
    /\ Periods \subseteq Nat /\ Periods # {}
    /\ IsFiniteSet(Periods) /\ IsFiniteSet(Entries)
    /\ MaxRequests \in Nat
    /\ None \notin Entries \cup Periods \cup FTs \cup Txns

VARIABLES
    entry,      \* entry[e]: a committed JournalEntry, or None
    ft,         \* ft[f]: a FinancialTransaction, or None
    balance,    \* balance[a][p]: closingDebit - closingCredit of the snapshot
    calendar,   \* periods that exist
    open,       \* those with status OPEN
    closed,     \* FiscalYear.isClosed
    settled,    \* history: the periods that the year's close knew of
    covered,    \* history: entries that the closing entry took into account
    under,      \* history: transactions under way since the year was closed
    tx,         \* tx[t]: the transaction of t, or None
    requests    \* requests begun

vars == <<entry, ft, balance, calendar, open, closed, settled, covered, under, tx, requests>>

Entry(p, lines, status, kind, of) ==
    [lines |-> lines, status |-> status, kind |-> kind, of |-> of, at |-> p]

(* The entry of a posted one; of: the one it was made to reverse.          *)
FT(amount, status, e, of) ==
    [amount |-> amount, status |-> status, entry |-> e, of |-> of, version |-> 0]

(* No row is mistaken for none.                                            *)
ASSUME NoneAssumption ==
    /\ None \notin [lines : Seq(Accounts \X Int), status : {"DRAFT", "POSTED", "REVERSED"},
                    kind : {"manual", "post", "reverse", "undo", "close", "postFT", "reverseFT"},
                    of : Entries \cup {None}, at : Periods]
    /\ None \notin [amount : Int, status : {"DRAFT", "POSTED", "REVERSED"},
                    entry : Entries \cup {None}, of : FTs \cup {None}, version : Nat]

(* A transaction: what it does, the entry it makes (new) or works on       *)
(* (target), the period it opens and those it knows of and closes, the     *)
(* lines still to add to snapshots; the financial transaction it works on, *)
(* what it read of it (was), and the one it makes to reverse it.           *)
Transaction(kind, step, new, target, p, lines) ==
    [lines |-> lines, kind |-> kind, at |-> p, step |-> step, new |-> new, target |-> target,
     todo |-> lines, rows |-> {}, opens |-> {}, knows |-> {}, closes |-> {}, saw |-> {},
     ft |-> None, was |-> None, twin |-> None]

Init ==
    /\ entry = [e \in Entries |-> None]
    /\ ft = [f \in FTs |-> None]
    /\ balance = [a \in Accounts |-> [p \in Periods |-> 0]]
    /\ calendar \in {Periods, {Min(Periods)}}
    /\ open = calendar
    /\ closed = FALSE
    /\ settled = {}
    /\ covered = {}
    /\ under = {}
    /\ tx = [t \in Txns |-> None]
    /\ requests = 0

Running == {t \in Txns : tx[t] # None}
At(t, step) == t \in Running /\ tx[t].step = step

Made == {e \in Entries : entry[e] # None}
Posted == {e \in Made : entry[e].status # "DRAFT"}
Free == {e \in Entries \ Made : \A t \in Running : tx[t].new # e}

Recorded == {f \in FTs : ft[f] # None}
FreeFTs == {f \in FTs \ Recorded : \A t \in Running : tx[t].twin # f}

(* What the lines of an entry come to on an account.                       *)
Sum(lines, a) ==
    SumFunction([i \in DOMAIN lines |-> IF lines[i][1] = a THEN lines[i][2] ELSE 0])

Negated(lines) == [i \in DOMAIN lines |-> <<lines[i][1], -lines[i][2]>>]

-----------------------------------------------------------------------------
(* Locks.                                                                  *)

Holds(t) == tx[t].rows

HeldByOther(t, row) == \E u \in Running \ {t} : row \in Holds(u)

Counter(p) == <<"counter", p>>
Snapshot(a, p) == <<"balance", a, p>>
EntryRow(e) == <<"entry", e>>
PeriodRow(p) == <<"period", p>>
YearRow == <<"year">>
FTRow(f) == <<"ft", f>>

(* The rows that the next statement of t writes.                           *)
Wants(t) ==
    CASE tx[t].step = "claim" -> {EntryRow(tx[t].target)}
      [] tx[t].step = "claimYear" -> {YearRow}
      [] tx[t].step = "claimFT" -> {FTRow(tx[t].ft)}
      [] tx[t].step = "calendar" -> {PeriodRow(tx[t].at)} \ {PeriodRow(p) : p \in calendar}
      [] tx[t].step = "number" -> {Counter(tx[t].at)}
      [] tx[t].step = "line" -> {Snapshot(Head(tx[t].todo)[1], tx[t].at)}
      [] tx[t].step = "mark" -> {EntryRow(tx[t].target)}
      [] tx[t].step = "closeOthers" -> {PeriodRow(p) : p \in tx[t].closes \ {tx[t].at}}
      [] tx[t].step = "closeLast" -> {PeriodRow(tx[t].at)}
      [] OTHER -> {}

WaitsFor(t, u) == t # u /\ Wants(t) \cap Holds(u) # {}

Ready(t) == \A row \in Wants(t) : ~HeldByOther(t, row)

-----------------------------------------------------------------------------
(* Requests.                                                               *)

Stay == UNCHANGED <<entry, ft, balance, calendar, open, closed, settled, covered, under, requests>>

Becomes(t, new) == tx' = [tx EXCEPT ![t] = new] /\ Stay

Abort(t) ==
    /\ tx' = [tx EXCEPT ![t] = None]
    /\ under' = under \ {t}
    /\ UNCHANGED <<entry, ft, balance, calendar, open, closed, settled, covered, requests>>

Begin(t, transaction) ==
    /\ tx[t] = None
    /\ requests < MaxRequests
    /\ requests' = requests + 1
    /\ tx' = [tx EXCEPT ![t] = transaction]
    /\ UNCHANGED <<entry, ft, balance, calendar, open, closed, settled, covered, under>>

(* A sale of 2 and a refund of 1, each in the order of its builder.        *)
SaleLines == <<<<Cash, 2>>, <<Revenue, -2>>>>
RefundLines == <<<<Refunds, 1>>, <<Cash, -1>>>>
HandLines == <<<<Revenue, 1>>, <<Cash, -1>>>>

(* A sale or a refund is posted to the month of the clock, which it opens  *)
(* if nobody has; a receipt, a payment, ... to an open one.                *)
Post(t) ==
    \E e \in Free, p \in Periods, lines \in {SaleLines, RefundLines} :
        \/ Begin(t, Transaction("post", "calendar", e, None, p, lines))
        \/ p \in open /\ Begin(t, Transaction("post", "validate", e, None, p, lines))

(* A draft is validated and numbered as it is made.                        *)
CreateDraft ==
    \E e \in Free, p \in open :
        /\ requests < MaxRequests
        /\ requests' = requests + 1
        /\ \A t \in Running : Counter(p) \notin Holds(t)
        /\ entry' = [entry EXCEPT ![e] = Entry(p, HandLines, "DRAFT", "manual", None)]
        /\ UNCHANGED <<ft, balance, calendar, open, closed, settled, covered, under, tx>>

PostDraft(t) ==
    \E e \in Made :
        /\ entry[e].status = "DRAFT"
        /\ Begin(t, Transaction("draft", "validate", None, e, entry[e].at, entry[e].lines))

Reverse(t) ==
    \E e \in Posted, n \in Free :
        /\ entry[e].kind # "reverse"
        /\ Begin(t, Transaction("reverse", "claim", n, e, entry[e].at, Negated(entry[e].lines)))

(* The latest open period takes the reversal.                              *)
UndoReturn(t) ==
    \E e \in Posted, n \in Free :
        /\ entry[e].status = "POSTED"
        /\ entry[e].kind = "post"
        /\ open # {}
        /\ Begin(t, Transaction("undo", "validate", n, e, Max(open), Negated(entry[e].lines)))

CloseYear(t) ==
    \E n \in Free :
        /\ ~closed
        /\ Begin(t, Transaction("close", "claimYear", n, None, None, <<>>))

CreateFT ==
    \E f \in FreeFTs, n \in {1, 2} :
        /\ requests < MaxRequests
        /\ requests' = requests + 1
        /\ ft' = [ft EXCEPT ![f] = FT(n, "DRAFT", None, None)]
        /\ UNCHANGED <<entry, balance, calendar, open, closed, settled, covered, under, tx>>

OfFT(kind, f, e, p, lines) ==
    [Transaction(kind, "claimFT", e, None, p, lines) EXCEPT !.ft = f, !.was = ft[f]]

(* Another amount, for a draft only.                                       *)
UpdateFT(t) ==
    \E f \in Recorded :
        /\ ft[f].status = "DRAFT"
        /\ Begin(t, OfFT("updateFT", f, None, None, <<>>))

PostFT(t) ==
    \E f \in Recorded, e \in Free, p \in Periods :
        /\ ft[f].status = "DRAFT"
        /\ Begin(t, OfFT("postFT", f, e, p, <<<<Cash, ft[f].amount>>, <<Revenue, -ft[f].amount>>>>))

ReverseFT(t) ==
    \E f \in Recorded, g \in FreeFTs, e \in Free, p \in Periods :
        /\ ft[f].status = "POSTED"
        /\ Begin(t, [OfFT("reverseFT", f, e, p, Negated(entry[ft[f].entry].lines)) EXCEPT !.twin = g])

-----------------------------------------------------------------------------
(* Statements.                                                             *)

(* The conditional update is the point where one reversal wins.            *)
MutantClaim(t) ==
    /\ At(t, "claim")
    /\ Ready(t)
    /\ Becomes(t, [tx[t] EXCEPT !.step = IF tx[t].kind = "draft" THEN "line" ELSE "validate",
                                !.rows = @ \cup Wants(t)])

Claim(t) ==
    /\ At(t, "claim")
    /\ Ready(t)
    /\ IF entry[tx[t].target].status = (IF tx[t].kind = "draft" THEN "DRAFT" ELSE "POSTED")
       THEN Becomes(t, [tx[t] EXCEPT !.step = IF tx[t].kind = "draft" THEN "line" ELSE "validate",
                                     !.rows = @ \cup Wants(t)])
       ELSE Abort(t)

(* By the version that was read: claimPostingStatus, or an update.         *)
ClaimedFT(t) ==
    Becomes(t, [tx[t] EXCEPT
        !.rows = @ \cup Wants(t),
        !.step = CASE tx[t].kind = "updateFT" -> "commit"
                   [] tx[t].kind = "postFT" -> "calendar"
                   [] tx[t].kind = "reverseFT" -> "original"])

MutantClaimFT(t) ==
    /\ At(t, "claimFT")
    /\ Ready(t)
    /\ IF ft[tx[t].ft].status = tx[t].was.status THEN ClaimedFT(t) ELSE Abort(t)

ClaimFT(t) ==
    /\ At(t, "claimFT")
    /\ Ready(t)
    /\ IF ft[tx[t].ft].version = tx[t].was.version THEN ClaimedFT(t) ELSE Abort(t)

(* An entry that was reversed by itself is not reversed again.             *)
ReadOriginal(t) ==
    /\ At(t, "original")
    /\ IF entry[tx[t].was.entry].status = "POSTED"
       THEN Becomes(t, [tx[t] EXCEPT !.step = "calendar"])
       ELSE Abort(t)

(* The open period of the date: today, or any for one that is posted.      *)
ResolveOpenPeriod(t) ==
    /\ At(t, "resolve")
    /\ \/ \E p \in open \cup tx[t].opens :
            /\ tx[t].kind = "reverseFT" => p = tx[t].at
            /\ Becomes(t, [tx[t] EXCEPT !.step = "validate", !.at = p])
       \/ Abort(t)

(* ensureCurrentCalendar: a month that exists is taken as it is.           *)
EnsureCalendar(t) ==
    /\ At(t, "calendar")
    /\ Ready(t)
    /\ IF tx[t].kind = "post" /\ tx[t].at \in calendar \ open
       THEN Abort(t)
       ELSE Becomes(t, [tx[t] EXCEPT !.step = IF tx[t].kind = "post" THEN "validate" ELSE "resolve",
                                     !.opens = {tx[t].at} \ calendar,
                                     !.rows = @ \cup Wants(t)])

AfterValidate(t) == IF tx[t].kind = "draft" THEN "claim" ELSE "number"

MutantValidate(t) ==
    /\ At(t, "validate")
    /\ Becomes(t, [tx[t] EXCEPT !.step = AfterValidate(t)])

Validate(t) ==
    /\ At(t, "validate")
    /\ IF tx[t].at \in open \cup tx[t].opens
       THEN Becomes(t, [tx[t] EXCEPT !.step = AfterValidate(t)])
       ELSE Abort(t)

(* Every posting in a period queues up for its number.                     *)
MutantTakeNumber(t) ==
    /\ At(t, "number")
    /\ Becomes(t, [tx[t] EXCEPT !.step = "line"])

TakeNumber(t) ==
    /\ At(t, "number")
    /\ Ready(t)
    /\ Becomes(t, [tx[t] EXCEPT !.step = "line", !.rows = @ \cup Wants(t)])

AfterLines(t) ==
    CASE tx[t].kind = "undo" -> "mark"
      [] tx[t].kind = "close" -> "closeLast"
      [] OTHER -> "commit"

UpdateBalance(t) ==
    /\ At(t, "line")
    /\ Ready(t)
    /\ Becomes(t, [tx[t] EXCEPT
            !.rows = @ \cup Wants(t),
            !.todo = Tail(@),
            !.step = IF Len(tx[t].todo) = 1 THEN AfterLines(t) ELSE "line"])

(* The entry of the return is marked REVERSED, whatever it is by now.      *)
MarkReversed(t) ==
    /\ At(t, "mark")
    /\ Ready(t)
    /\ Becomes(t, [tx[t] EXCEPT !.step = "commit", !.rows = @ \cup Wants(t)])

ClaimYear(t) ==
    /\ At(t, "claimYear")
    /\ Ready(t)
    /\ IF closed
       THEN Abort(t)
       ELSE Becomes(t, [tx[t] EXCEPT !.step = "periods", !.rows = @ \cup Wants(t)])

(* The last open period takes the closing entry; the others close first.   *)
ReadPeriods(t) ==
    /\ At(t, "periods")
    /\ Becomes(t, [tx[t] EXCEPT
            !.step = "closeOthers",
            !.knows = calendar,
            !.closes = open,
            !.at = IF open = {} THEN None ELSE Max(open)])

CloseOthers(t) ==
    /\ At(t, "closeOthers")
    /\ Ready(t)
    /\ IF tx[t].closes \ {tx[t].at} \subseteq open
       THEN Becomes(t, [tx[t] EXCEPT !.step = "aggregate", !.rows = @ \cup Wants(t)])
       ELSE Abort(t)

Net(t, a) == SumFunction([p \in tx[t].knows |-> balance[a][p]])

(* Each income account with a balance is zeroed, retained earnings take    *)
(* the profit.                                                             *)
MutantClosingLines(t) ==
    LET profit == Net(t, Revenue) + Net(t, Refunds) IN
    IF profit = 0 THEN <<>> ELSE <<<<Revenue, -profit>>, <<Retained, profit>>>>

ClosingLines(t) ==
    LET profit == Net(t, Revenue) + Net(t, Refunds)
        line(a, n) == IF n = 0 THEN <<>> ELSE <<<<a, n>>>> IN
    line(Revenue, -Net(t, Revenue)) \o line(Refunds, -Net(t, Refunds)) \o line(Retained, profit)

Aggregate(t) ==
    /\ At(t, "aggregate")
    /\ IF tx[t].at = None /\ ClosingLines(t) # <<>>
       THEN Abort(t)    \* a closing entry is due and no period takes it
       ELSE Becomes(t, [tx[t] EXCEPT
                !.saw = {e \in Posted : entry[e].at \in tx[t].knows},
                !.lines = ClosingLines(t),
                !.todo = ClosingLines(t),
                !.step = CASE ClosingLines(t) # <<>> -> "validateOwn"
                           [] ClosingLines(t) = <<>> /\ tx[t].at # None -> "closeLast"
                           [] OTHER -> "commit"])

ValidateClosing(t) ==
    /\ At(t, "validateOwn")
    /\ IF tx[t].at \in open
       THEN Becomes(t, [tx[t] EXCEPT !.step = "number"])
       ELSE Abort(t)

CloseLast(t) ==
    /\ At(t, "closeLast")
    /\ Ready(t)
    /\ IF tx[t].at \in open
       THEN Becomes(t, [tx[t] EXCEPT !.step = "commit", !.rows = @ \cup Wants(t)])
       ELSE Abort(t)

(* What a transaction leaves: its entry, its target, its snapshots.        *)
Written(t) ==
    LET new == [e \in Entries |->
                    IF e = tx[t].new /\ tx[t].lines # <<>>
                    THEN Entry(tx[t].at, tx[t].lines, "POSTED", tx[t].kind,
                               IF tx[t].kind = "reverseFT" THEN tx[t].was.entry ELSE tx[t].target)
                    ELSE entry[e]] IN
    IF tx[t].target = None THEN new
    ELSE [new EXCEPT ![tx[t].target].status =
            IF tx[t].kind = "draft" THEN "POSTED" ELSE "REVERSED"]

(* What becomes of a financial transaction: an update changes the amount.  *)
FTWritten(t, f, n) ==
    IF f = tx[t].twin THEN FT(-tx[t].was.amount, "POSTED", tx[t].new, tx[t].ft)
    ELSE IF f # tx[t].ft THEN ft[f]
    ELSE CASE tx[t].kind = "updateFT" -> [ft[f] EXCEPT !.amount = n, !.version = @ + 1]
           [] tx[t].kind = "postFT" ->
                [ft[f] EXCEPT !.status = "POSTED", !.entry = tx[t].new, !.version = @ + 1]
           [] tx[t].kind = "reverseFT" -> [ft[f] EXCEPT !.status = "REVERSED", !.version = @ + 1]

ClosedBy(t) == {p \in tx[t].closes : PeriodRow(p) \in Holds(t)}

MutantSnapshots(t) ==
    [a \in Accounts |-> [p \in Periods |->
        IF Snapshot(a, p) \in Holds(t) THEN Sum(tx[t].lines, a) ELSE balance[a][p]]]

Snapshots(t) ==
    [a \in Accounts |-> [p \in Periods |->
        balance[a][p] + (IF p = tx[t].at THEN Sum(tx[t].lines, a) ELSE 0)]]

Commit(t) ==
    /\ At(t, "commit")
    /\ entry' = Written(t)
    /\ IF tx[t].ft = None
       THEN UNCHANGED ft
       ELSE \E n \in IF tx[t].kind = "updateFT" THEN {1, 2} ELSE {0} :
                ft' = [f \in FTs |-> FTWritten(t, f, n)]
    /\ balance' = Snapshots(t)
    /\ calendar' = calendar \cup tx[t].opens
    /\ open' = (open \cup tx[t].opens) \ ClosedBy(t)
    /\ closed' = (closed \/ tx[t].kind = "close")
    /\ IF tx[t].kind = "close"
       THEN /\ settled' = tx[t].knows
            /\ covered' = tx[t].saw \cup {e \in {tx[t].new} : entry'[e] # None}
            /\ under' = Running \ {t}
       ELSE /\ UNCHANGED <<settled, covered>>
            /\ under' = under \ {t}
    /\ tx' = [tx EXCEPT ![t] = None]
    /\ UNCHANGED requests

(* FinancialPeriodsService.create: no matter whether the year is closed.   *)
CreatePeriod(p) ==
    /\ p \notin calendar
    /\ requests < MaxRequests
    /\ requests' = requests + 1
    /\ \A t \in Running : PeriodRow(p) \notin Holds(t)
    /\ calendar' = calendar \cup {p}
    /\ open' = open \cup {p}
    /\ UNCHANGED <<entry, ft, balance, closed, settled, covered, under, tx>>

(* FinancialPeriodsService.close: one update by the version read before.   *)
ClosePeriod(p) ==
    /\ p \in open
    /\ requests < MaxRequests
    /\ requests' = requests + 1
    /\ \A t \in Running : PeriodRow(p) \notin Holds(t)
    /\ open' = open \ {p}
    /\ UNCHANGED <<entry, ft, balance, calendar, closed, settled, covered, under, tx>>

(* An error, a crash, or the choice of a deadlock's victim.                *)
Fail(t) == t \in Running /\ Abort(t)

Request(t) ==
    \/ Post(t) \/ PostDraft(t) \/ Reverse(t) \/ UndoReturn(t) \/ CloseYear(t)
    \/ UpdateFT(t) \/ PostFT(t) \/ ReverseFT(t)

Statement(t) ==
    \/ Claim(t) \/ ClaimFT(t) \/ ReadOriginal(t) \/ ResolveOpenPeriod(t) \/ EnsureCalendar(t) \/ Validate(t) \/ TakeNumber(t) \/ UpdateBalance(t) \/ MarkReversed(t)
    \/ ClaimYear(t) \/ ReadPeriods(t) \/ CloseOthers(t) \/ Aggregate(t)
    \/ ValidateClosing(t) \/ CloseLast(t) \/ Commit(t) \/ Fail(t)

Next ==
    \/ \E t \in Txns : Request(t) \/ Statement(t)
    \/ \E p \in Periods : CreatePeriod(p) \/ ClosePeriod(p)
    \/ CreateDraft \/ CreateFT

Spec == Init /\ [][Next]_vars

-----------------------------------------------------------------------------
(* Properties.                                                             *)

(* The snapshot of an account in a period is the sum of the lines that     *)
(* were posted to it: nothing is lost, and nothing counted twice, when     *)
(* postings, reversals and the year's close run together.                  *)
BalancesAgree ==
    \A a \in Accounts, p \in Periods :
        balance[a][p] =
            SumFunction([e \in Posted |-> IF entry[e].at = p THEN Sum(entry[e].lines, a) ELSE 0])

(* A posted financial transaction stands in the ledger with the amount it  *)
(* shows, though it may be edited while it is posted; a reversed one has   *)
(* one transaction that takes it back, with an entry of its own.           *)
FTsInLedger ==
    \A f \in Recorded :
        /\ Cardinality({g \in Recorded : ft[g].of = f}) = IF ft[f].status = "REVERSED" THEN 1 ELSE 0
        /\ ft[f].status # "DRAFT" =>
            /\ Sum(entry[ft[f].entry].lines, Cash) = ft[f].amount
            /\ \A g \in Recorded \ {f} : ft[g].entry # ft[f].entry

(* GlEngineService.reverse makes one reversal of an entry at most, and     *)
(* only of an entry that it leaves REVERSED.                               *)
OneReversal ==
    \A e \in Made :
        LET reversals == {r \in Made : entry[r].kind = "reverse" /\ entry[r].of = e} IN
        /\ Cardinality(reversals) <= 1
        /\ reversals # {} => entry[e].status = "REVERSED"

(* The closing entry leaves every income account at zero over the entries  *)
(* it took into account, although some came in while it was being made.    *)
CloseZeroes ==
    closed => \A a \in Income :
        0 = SumFunction([e \in covered |-> Sum(entry[e].lines, a)])

(* After the year's close only a posting that was already under way can    *)
(* still enter a period of the year: none stays open behind it, but for    *)
(* months that were opened while it ran or after it.                       *)
ClosedYearFinal ==
    [][\A t \in Running :
        tx'[t] = None /\ entry' # entry /\ tx[t].at \in settled => t \in under]_vars

(* Postings wait for one another in a circle only if a draft is posted by  *)
(* hand or a return is undone: all others take the period's counter before *)
(* any snapshot, and an entry's row before the counter.                    *)
OnlyLatecomersDeadlock ==
    \A ring \in SUBSET Running :
        ring # {} /\ (\A t \in ring : \E u \in ring : WaitsFor(t, u))
            => \E t \in ring : tx[t].kind \in {"draft", "undo"}

(* What the year's close says: it never ends with a period still OPEN.     *)
NoneLeftOpen == [][closed' # closed => open' = {}]_vars

(* What the validation says: only OPEN periods accept postings.            *)
OnlyOpenAccepts ==
    [][\A e \in Entries : e \notin Posted /\ entry'[e] # None /\ entry'[e].status # "DRAFT"
            => entry'[e].at \in open]_vars

(* What the reversal says: exactly one reversal of an entry can win.       *)
ReversedOnce ==
    \A e \in Made : Cardinality({r \in Made : entry[r].of = e /\ entry[r].kind \in {"reverse", "undo"}}) <= 1
=============================================================================
