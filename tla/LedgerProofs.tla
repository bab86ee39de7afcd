---------------------------- MODULE LedgerProofs ----------------------------
(***************************************************************************)
(* Proofs about Ledger: balances are what the entries come to, an entry is *)
(* reversed once, a financial transaction stands in the ledger, the closing *)
(* entry zeroes the income accounts, a closed year is final, and postings  *)
(* that take the counter first never wait in a circle; for any numbers of  *)
(* entries, periods, financial transactions and transactions.  What a      *)
(* transaction x knows of the rows is an operator of the rows, to be       *)
(* compared before and after a commit: the entries en, the financial       *)
(* transactions fs, the periods ca that exist and op that are open, whether *)
(* the year is closed (cl), which periods its close knew of (se), and      *)
(* whether x was under way then (un).                                      *)
(***************************************************************************)
EXTENDS Ledger, SumTheorems

Fields == {"lines", "kind", "at", "step", "new", "target", "todo", "rows", "opens",
           "knows", "closes", "saw", "ft", "was", "twin"}

StatusesOf == {"DRAFT", "POSTED", "REVERSED"}
Lines == Seq(Accounts \X Int)

EntryRows ==
    [lines : Lines, status : StatusesOf,
     kind : {"manual", "post", "reverse", "undo", "close", "postFT", "reverseFT"},
     of : Entries \cup {None}, at : Periods]

FTRows ==
    [amount : Int, status : StatusesOf, entry : Entries \cup {None},
     of : FTs \cup {None}, version : Nat]

(* The transactions that make an entry, that work on one that is there,    *)
(* that open a month, and that work on a financial transaction.            *)
PlainKinds == {"post", "reverse", "undo", "postFT", "reverseFT"}
MakingKinds == PlainKinds \cup {"close"}
TargetKinds == {"draft", "reverse", "undo"}
OpeningKinds == {"post", "postFT", "reverseFT"}
FTKinds == {"updateFT", "postFT", "reverseFT"}
Kinds == MakingKinds \cup TargetKinds \cup FTKinds

StepsOf(kind) ==
    CASE kind = "post" -> {"calendar", "validate", "number", "line", "commit"}
      [] kind = "draft" -> {"validate", "claim", "line", "commit"}
      [] kind = "reverse" -> {"claim", "validate", "number", "line", "commit"}
      [] kind = "undo" -> {"validate", "number", "line", "mark", "commit"}
      [] kind = "close" -> {"claimYear", "periods", "closeOthers", "aggregate", "validateOwn",
                            "number", "line", "closeLast", "commit"}
      [] kind = "updateFT" -> {"claimFT", "commit"}
      [] kind = "postFT" -> {"claimFT", "calendar", "resolve", "validate", "number", "line", "commit"}
      [] kind = "reverseFT" -> {"claimFT", "original", "calendar", "resolve", "validate", "number",
                                "line", "commit"}

(* What these entries come to on an account.                               *)
Come(S, en, a) == SumFunction([e \in S |-> Sum(en[e].lines, a)])

Isnt(e, status, en) == en[e] # None /\ en[e].status # status

-----------------------------------------------------------------------------
(* What transactions know.                                                 *)

Shaped(x) ==
    /\ DOMAIN x = Fields
    /\ x.kind \in Kinds /\ x.step \in StepsOf(x.kind)
    /\ x.lines \in Lines /\ x.todo \in Lines
    /\ x.step = "line" => x.todo # <<>>
    /\ x.step \notin {"line", "mark", "closeLast", "commit"} => x.todo = x.lines
    /\ x.kind \in PlainKinds \cup {"draft"} => x.lines # <<>>
    /\ x.kind = "updateFT" => x.lines = <<>>
    /\ x.kind = "close" /\ x.step \in {"claimYear", "periods", "closeOthers", "aggregate"} => x.lines = <<>>
    /\ x.kind = "close" /\ x.step \in {"validateOwn", "number", "line"} => x.lines # <<>>

(* The row of its entry has been written.                                  *)
HasEntry(x) ==
    \/ x.kind = "reverse" /\ x.step # "claim"
    \/ x.kind = "draft" /\ x.step \in {"line", "commit"}
    \/ x.kind = "undo" /\ x.step = "commit"

HasNumber(x) == x.step \in {"line", "mark", "closeLast", "commit"}

HasFT(x) == x.kind \in FTKinds /\ x.step # "claimFT"

HasYear(x) == x.kind = "close" /\ x.step # "claimYear"

(* What a row that a transaction holds is.                                 *)
Owns(x, row) ==
    \/ HasEntry(x) /\ row = EntryRow(x.target)
    \/ HasYear(x) /\ row = YearRow
    \/ HasFT(x) /\ row = FTRow(x.ft)
    \/ \E p \in x.opens \cup x.closes : row = PeriodRow(p)
    \/ HasNumber(x) /\ row = Counter(x.at)
    \/ /\ HasNumber(x)
       /\ \E a \in Accounts : row = Snapshot(a, x.at)
       /\ x.kind # "draft" => Counter(x.at) \in x.rows

RowsKnown(x) ==
    /\ \A row \in x.rows : Owns(x, row)
    /\ HasEntry(x) => EntryRow(x.target) \in x.rows
    /\ HasYear(x) => YearRow \in x.rows
    /\ HasFT(x) => FTRow(x.ft) \in x.rows
    /\ \A p \in x.opens : PeriodRow(p) \in x.rows
    /\ x.step = "line" /\ x.kind # "draft" => Counter(x.at) \in x.rows

EntryKnown(x, en) ==
    /\ x.kind \in MakingKinds => x.new \in Entries /\ en[x.new] = None
    /\ x.kind \notin MakingKinds => x.new = None
    /\ x.kind \in TargetKinds => x.target \in Entries /\ en[x.target] # None
    /\ x.kind \notin TargetKinds => x.target = None
    /\ x.kind = "draft" =>
        /\ x.lines = en[x.target].lines /\ x.at = en[x.target].at
        /\ HasEntry(x) => en[x.target].status = "DRAFT"
    /\ x.kind \in {"reverse", "undo"} => en[x.target].status # "DRAFT"
    /\ x.kind = "reverse" /\ HasEntry(x) => en[x.target].status = "POSTED"

FTKnown(x, fs) ==
    /\ x.kind \in FTKinds =>
        /\ x.ft \in FTs /\ x.was \in FTRows /\ fs[x.ft] # None
        /\ x.was.status = IF x.kind = "reverseFT" THEN "POSTED" ELSE "DRAFT"
        /\ x.was.version <= fs[x.ft].version
        /\ x.was.version = fs[x.ft].version => fs[x.ft] = x.was
        /\ HasFT(x) => fs[x.ft] = x.was
    /\ x.kind \notin FTKinds => x.ft = None
    /\ x.kind = "postFT" => Sum(x.lines, Cash) = x.was.amount
    /\ x.kind = "reverseFT" =>
        /\ x.twin \in FTs /\ fs[x.twin] = None
        /\ Sum(x.lines, Cash) = -x.was.amount
    /\ x.kind # "reverseFT" => x.twin = None

(* It may still post to the period it works on.                            *)
Validated(x) ==
    \/ x.kind \in PlainKinds /\ x.step \in {"number", "line", "mark", "commit"}
    \/ x.kind = "draft" /\ x.step \in {"claim", "line", "commit"}
    \/ x.kind = "close" /\ (x.step \in {"number", "line"} \/ (x.step \in {"closeLast", "commit"} /\ x.lines # <<>>))

PeriodsKnown(x, ca, op, cl, se, un) ==
    /\ x.opens \subseteq Periods \ ca /\ (x.kind \notin OpeningKinds => x.opens = {})
    /\ x.step \in {"claimFT", "original", "calendar"} =>
        x.opens = {} /\ (x.kind = "updateFT" \/ x.at \in Periods)
    /\ Validated(x) => x.at \in ca \cup x.opens /\ (cl /\ ~un => x.at \notin se)

CloseKnown(x, en, ca, op, cl) ==
    /\ x.kind # "close" => x.closes = {} /\ x.knows = {}
    /\ x.kind = "close" =>
        /\ x.opens = {} /\ x.knows \subseteq ca /\ x.closes \subseteq ca
        /\ HasYear(x) => ~cl
        /\ x.step \in {"claimYear", "periods"} => x.closes = {}
        /\ x.at \in x.closes \cup {None} /\ (x.step = "closeLast" => x.at # None)
        /\ x.step \notin {"claimYear", "periods"} => x.knows \cap op \subseteq x.closes
        /\ x.step \notin {"claimYear", "periods", "closeOthers"} =>
            \A p \in x.closes \ {x.at} : PeriodRow(p) \in x.rows
        /\ x.step = "commit" => \A p \in x.closes : PeriodRow(p) \in x.rows
        /\ x.step \in {"validateOwn", "number", "line", "closeLast", "commit"} =>
            /\ x.saw \subseteq {e \in Entries : Isnt(e, "DRAFT", en)}
            /\ \A a \in Income :
                Sum(x.lines, a) + Come(x.saw, en, a) = 0

Knows(x, en, fs, ca, op, cl, se, un) ==
    /\ Shaped(x) /\ RowsKnown(x) /\ EntryKnown(x, en) /\ FTKnown(x, fs)
    /\ PeriodsKnown(x, ca, op, cl, se, un) /\ CloseKnown(x, en, ca, op, cl)

Apart(x, z) ==
    /\ x.rows \cap z.rows = {}
    /\ x.new # None => z.new # x.new
    /\ x.twin # None => z.twin # x.twin

-----------------------------------------------------------------------------
(* The inductive invariant.                                                *)

TypesOK ==
    /\ entry \in [Entries -> EntryRows \cup {None}]
    /\ ft \in [FTs -> FTRows \cup {None}]
    /\ balance \in [Accounts -> [Periods -> Int]]
    /\ calendar \subseteq Periods /\ open \subseteq calendar
    /\ \A e \in Made : entry[e].lines # <<>>

(* One reversal reverses an entry.                                         *)
ReversalsOK ==
    \A r \in Made : entry[r].kind = "reverse" =>
        /\ entry[r].of \in Made /\ entry[entry[r].of].status = "REVERSED"
        /\ \A q \in Made : entry[q].kind = "reverse" /\ entry[q].of = entry[r].of => q = r

FTsOK ==
    \A f \in Recorded :
        /\ ft[f].status = "REVERSED" <=> \E g \in Recorded : ft[g].of = f
        /\ ft[f].of # None =>
            /\ ft[f].of \in Recorded
            /\ \A g \in Recorded : ft[g].of = ft[f].of => g = f
        /\ ft[f].status = "DRAFT" => ft[f].entry = None
        /\ ft[f].status # "DRAFT" =>
            /\ ft[f].entry \in Made
            /\ Sum(entry[ft[f].entry].lines, Cash) = ft[f].amount
            /\ \A g \in Recorded : ft[g].entry = ft[f].entry => g = f

YearOK ==
    /\ closed \in BOOLEAN
    /\ settled \subseteq calendar /\ settled \cap open = {}
    /\ ~closed => settled = {}
    /\ covered \subseteq Posted

DataInv == TypesOK /\ BalancesAgree /\ ReversalsOK /\ FTsOK /\ YearOK /\ CloseZeroes

AllKnow ==
    /\ DOMAIN tx = Txns
    /\ \A t \in Running : Knows(tx[t], entry, ft, calendar, open, closed, settled, t \in under)

AllApart == \A t, u \in Running : t # u => Apart(tx[t], tx[u])

IInv == DataInv /\ AllKnow /\ AllApart

-----------------------------------------------------------------------------
(* Facts about rows.                                                       *)

LEMMA RowsDiffer ==
    /\ \A e, e2 : EntryRow(e) = EntryRow(e2) => e = e2
    /\ \A f, g : FTRow(f) = FTRow(g) => f = g
    /\ \A p, q : PeriodRow(p) = PeriodRow(q) => p = q
    /\ \A p, q : Counter(p) = Counter(q) => p = q
    /\ \A a, b, p, q : Snapshot(a, p) = Snapshot(b, q) => a = b /\ p = q
    /\ \A e, f : EntryRow(e) # FTRow(f)
    /\ \A e, p : EntryRow(e) # PeriodRow(p) /\ EntryRow(e) # Counter(p)
    /\ \A f, p : FTRow(f) # PeriodRow(p) /\ FTRow(f) # Counter(p)
    /\ \A p, q : PeriodRow(p) # Counter(q)
    /\ \A a, p, e : Snapshot(a, p) # EntryRow(e) /\ Snapshot(a, p) # FTRow(e)
    /\ \A a, p, q : Snapshot(a, p) # PeriodRow(q) /\ Snapshot(a, p) # Counter(q)
    /\ \A e : YearRow # EntryRow(e) /\ YearRow # FTRow(e) /\ YearRow # PeriodRow(e) /\ YearRow # Counter(e)
    /\ \A a, p : YearRow # Snapshot(a, p)
BY DEF EntryRow, FTRow, PeriodRow, Counter, Snapshot, YearRow

(* A finite set of numbers that is not empty has a greatest and a least.   *)
LEMMA Extremes ==
    ASSUME NEW S, IsFiniteSet(S), S \subseteq Nat, S # {}
    PROVE  Max(S) \in S /\ Min(S) \in S
<1>1. \E m \in S : \A n \in S : m >= n
  <2> DEFINE Bad == {T \in SUBSET S : T # {} /\ ~ \E m \in T : \A n \in T : m >= n}
  <2> SUFFICES ASSUME Bad # {} PROVE FALSE
    OBVIOUS
  <2>1. PICK T \in Bad : \A U \in SUBSET T : U # T => U \notin Bad
    <3> HIDE DEF Bad
    <3>1. Bad \subseteq SUBSET S
      BY DEF Bad
    <3> QED BY <3>1, Smallest
  <2>2. T \subseteq Nat /\ T # {} /\ T \subseteq S /\ ~ \E m \in T : \A n \in T : m >= n
    OBVIOUS
  <2>3. PICK p : p \in T
    BY <2>2
  <2>4. T \ {p} # {}
    <3>1. p >= p
      BY <2>2, <2>3
    <3> HIDE DEF Bad
    <3> QED BY <2>2, <2>3, <3>1
  <2>5. \E m \in T \ {p} : \A n \in T \ {p} : m >= n
    BY <2>1, <2>2, <2>3, <2>4
  <2> HIDE DEF Bad
  <2>6. PICK m \in T \ {p} : \A n \in T \ {p} : m >= n
    BY <2>5
  <2>7. m \in Nat /\ p \in Nat
    BY <2>2, <2>3
  <2>8. CASE m >= p
    BY <2>2, <2>6, <2>8
  <2>9. CASE p >= m
    <3>1. ASSUME NEW n \in T PROVE p >= n
      BY <2>2, <2>6, <2>7, <2>9
    <3> QED BY <2>2, <2>3, <3>1
  <2> QED BY <2>7, <2>8, <2>9
<1>2. \E m \in S : \A n \in S : m =< n
  <2> DEFINE Bad == {T \in SUBSET S : T # {} /\ ~ \E m \in T : \A n \in T : m =< n}
  <2> SUFFICES ASSUME Bad # {} PROVE FALSE
    OBVIOUS
  <2>1. PICK T \in Bad : \A U \in SUBSET T : U # T => U \notin Bad
    <3> HIDE DEF Bad
    <3>1. Bad \subseteq SUBSET S
      BY DEF Bad
    <3> QED BY <3>1, Smallest
  <2>2. T \subseteq Nat /\ T # {} /\ T \subseteq S /\ ~ \E m \in T : \A n \in T : m =< n
    OBVIOUS
  <2>3. PICK p : p \in T
    BY <2>2
  <2>4. T \ {p} # {}
    <3>1. p =< p
      BY <2>2, <2>3
    <3> HIDE DEF Bad
    <3> QED BY <2>2, <2>3, <3>1
  <2>5. \E m \in T \ {p} : \A n \in T \ {p} : m =< n
    BY <2>1, <2>2, <2>3, <2>4
  <2> HIDE DEF Bad
  <2>6. PICK m \in T \ {p} : \A n \in T \ {p} : m =< n
    BY <2>5
  <2>7. m \in Nat /\ p \in Nat
    BY <2>2, <2>3
  <2>8. CASE m =< p
    BY <2>2, <2>6, <2>8
  <2>9. CASE p =< m
    <3>1. ASSUME NEW n \in T PROVE p =< n
      BY <2>2, <2>6, <2>7, <2>9
    <3> QED BY <2>2, <2>3, <3>1
  <2> QED BY <2>7, <2>8, <2>9
<1> QED BY <1>1, <1>2 DEF Max, Min

-----------------------------------------------------------------------------
(* Sums over the lines of an entry.                                        *)

LineOf(line, a) == IF line[1] = a THEN line[2] ELSE 0

(* What Sum adds up, as a function on the places of the lines.             *)
LEMMA SumOver ==
    ASSUME NEW lines \in Lines, NEW a, NEW f, \A i \in 1..Len(lines) : f[i] = LineOf(lines[i], a)
    PROVE  /\ Sum(lines, a) = SumFunctionOnSet(f, 1..Len(lines))
           /\ \A i \in 1..Len(lines) : f[i] \in Int
           /\ IsFiniteSet(1..Len(lines)) /\ Len(lines) \in Nat
<1> DEFINE g == [i \in DOMAIN lines |-> IF lines[i][1] = a THEN lines[i][2] ELSE 0]
<1>1. DOMAIN lines = 1..Len(lines) /\ Len(lines) \in Nat
      /\ \A i \in 1..Len(lines) : lines[i] \in Accounts \X Int
  BY DEF Lines
<1>2. \A i \in 1..Len(lines) : LineOf(lines[i], a) \in Int
  BY <1>1 DEF LineOf
<1>3. DOMAIN g = 1..Len(lines) /\ \A i \in 1..Len(lines) : g[i] = LineOf(lines[i], a)
  BY <1>1 DEF LineOf
<1>4. Sum(lines, a) = SumFunction(g)
  BY DEF Sum
<1> HIDE DEF g
<1>5. SumFunction(g) = SumFunctionOnSet(g, 1..Len(lines))
  BY <1>3 DEF SumFunction
<1>6. IsFiniteSet(1..Len(lines))
  BY <1>1, FS_Interval
<1>7. SumFunctionOnSet(g, 1..Len(lines)) = SumFunctionOnSet(f, 1..Len(lines))
  BY <1>3, <1>6, SumFrame
<1> QED BY <1>1, <1>2, <1>4, <1>5, <1>6, <1>7

Values(lines, a) == [i \in 1..Len(lines) |-> LineOf(lines[i], a)]

LEMMA SumOfValues ==
    ASSUME NEW lines \in Lines, NEW a
    PROVE  /\ Sum(lines, a) = SumFunctionOnSet(Values(lines, a), 1..Len(lines))
           /\ Sum(lines, a) \in Int
           /\ \A i \in 1..Len(lines) : Values(lines, a)[i] \in Int
           /\ IsFiniteSet(1..Len(lines)) /\ Len(lines) \in Nat
<1>1. \A i \in 1..Len(lines) : Values(lines, a)[i] = LineOf(lines[i], a)
  BY DEF Values
<1>2. /\ Sum(lines, a) = SumFunctionOnSet(Values(lines, a), 1..Len(lines))
      /\ \A i \in 1..Len(lines) : Values(lines, a)[i] \in Int
      /\ IsFiniteSet(1..Len(lines)) /\ Len(lines) \in Nat
  BY <1>1, SumOver
<1>3. SumFunctionOnSet(Values(lines, a), 1..Len(lines)) \in Int
  BY <1>2, SumInt
<1> QED BY <1>2, <1>3

(* An entry without lines moves nothing, a reversal what the original      *)
(* moved the other way, and a line more its value more.                    *)
LEMMA SumOfNone == \A a : <<>> \in Lines /\ Sum(<<>>, a) = 0
<1> SUFFICES ASSUME NEW a PROVE <<>> \in Lines /\ Sum(<<>>, a) = 0
  OBVIOUS
<1>1. <<>> \in Lines /\ 1..Len(<<>>) = {}
  BY DEF Lines
<1> QED BY <1>1, SumOfValues, SumEmpty

LEMMA SumOfNegated ==
    ASSUME NEW lines \in Lines, NEW a
    PROVE  /\ Negated(lines) \in Lines /\ Sum(Negated(lines), a) = -Sum(lines, a)
           /\ lines # <<>> => Negated(lines) # <<>>
<1> DEFINE neg == Negated(lines)
<1>1. DOMAIN lines = 1..Len(lines) /\ Len(lines) \in Nat
      /\ \A i \in 1..Len(lines) : lines[i] \in Accounts \X Int
  BY DEF Lines
<1>2. neg = [i \in 1..Len(lines) |-> <<lines[i][1], -lines[i][2]>>]
  BY <1>1 DEF Negated
<1>3. neg \in Lines /\ Len(neg) = Len(lines)
  BY <1>1, <1>2 DEF Lines
<1>4. \A i \in 1..Len(lines) : neg[i][1] = lines[i][1] /\ neg[i][2] = -lines[i][2]
  BY <1>2
<1> HIDE DEF neg
<1>5. \A i \in 1..Len(lines) : LineOf(neg[i], a) = -LineOf(lines[i], a)
  BY <1>1, <1>4 DEF LineOf
<1>6. \A i \in 1..Len(lines) : Values(neg, a)[i] = -Values(lines, a)[i]
  BY <1>3, <1>5 DEF Values
<1>7. SumFunctionOnSet(Values(neg, a), 1..Len(lines)) = -SumFunctionOnSet(Values(lines, a), 1..Len(lines))
  BY <1>6, SumOfValues, SumNegated
<1>8. Sum(neg, a) = -Sum(lines, a)
  BY <1>3, <1>7, SumOfValues
<1>9. lines # <<>> => neg # <<>>
  BY <1>1, <1>3
<1> QED BY <1>3, <1>8, <1>9 DEF neg

LEMMA SumOfMore ==
    ASSUME NEW lines \in Lines, NEW c \in Accounts, NEW n \in Int, NEW a
    PROVE  /\ Append(lines, <<c, n>>) \in Lines /\ Append(lines, <<c, n>>) # <<>>
           /\ Sum(Append(lines, <<c, n>>), a) = Sum(lines, a) + (IF c = a THEN n ELSE 0)
<1> DEFINE more == Append(lines, <<c, n>>)
           L == Len(lines)
<1>1. L \in Nat
  BY DEF Lines
<1>2. more \in Lines /\ Len(more) = L + 1 /\ more # <<>>
      /\ more[L + 1] = <<c, n>> /\ \A i \in 1..L : more[i] = lines[i]
  BY DEF Lines
<1> HIDE DEF more
<1>3. \A i \in 1..L : Values(more, a)[i] = Values(lines, a)[i]
  BY <1>1, <1>2 DEF Values
<1>4. Values(more, a)[L + 1] = IF c = a THEN n ELSE 0
  BY <1>1, <1>2 DEF Values, LineOf
<1>5. 1..(L + 1) = (1..L) \cup {L + 1} /\ L + 1 \notin 1..L
  BY <1>1
<1>6. /\ IsFiniteSet(1..L)
      /\ \A i \in (1..L) \cup {L + 1} : Values(more, a)[i] \in Int
  BY <1>2, <1>5, SumOfValues
<1>7. SumFunctionOnSet(Values(more, a), (1..L) \cup {L + 1})
        = SumFunctionOnSet(Values(more, a), 1..L) + Values(more, a)[L + 1]
  <2> DEFINE g == Values(more, a)
             y == L + 1
             S == 1..L
  <2>1. IsFiniteSet(S) /\ y \notin S /\ \A i \in S \cup {y} : g[i] \in Int
    BY <1>5, <1>6
  <2> HIDE DEF g, y, S
  <2>2. SumFunctionOnSet(g, S \cup {y}) = SumFunctionOnSet(g, S) + g[y]
    BY <2>1, SumAdd
  <2> QED BY <2>2 DEF g, y, S
<1>8. SumFunctionOnSet(Values(more, a), 1..L) = SumFunctionOnSet(Values(lines, a), 1..L)
  <2> DEFINE g == Values(more, a)
             h == Values(lines, a)
             S == 1..L
  <2>1. IsFiniteSet(S) /\ \A i \in S : g[i] = h[i]
    BY <1>3, <1>6
  <2> HIDE DEF g, h, S
  <2>2. SumFunctionOnSet(g, S) = SumFunctionOnSet(h, S)
    BY <2>1, SumFrame
  <2> QED BY <2>2 DEF g, h, S
<1>9. Sum(more, a) = Sum(lines, a) + (IF c = a THEN n ELSE 0)
  <2>1. Sum(more, a) = SumFunctionOnSet(Values(more, a), 1..(L + 1))
    BY <1>2, SumOfValues
  <2>2. Sum(lines, a) = SumFunctionOnSet(Values(lines, a), 1..L)
    BY SumOfValues
  <2> QED BY <1>4, <1>5, <1>7, <1>8, <2>1, <2>2
<1> QED BY <1>2, <1>9 DEF more

(* The lines of the posting of a financial transaction, and of the others. *)
LEMMA SumOfTwo ==
    ASSUME NEW c \in Accounts, NEW m \in Int, NEW d \in Accounts, NEW n \in Int
    PROVE  /\ <<<<c, m>>, <<d, n>>>> \in Lines /\ <<<<c, m>>, <<d, n>>>> # <<>>
           /\ c # d => Sum(<<<<c, m>>, <<d, n>>>>, c) = m
<1> DEFINE one == <<<<c, m>>>>
           two == <<<<c, m>>, <<d, n>>>>
<1>1. one = Append(<<>>, <<c, m>>) /\ two = Append(one, <<d, n>>)
  OBVIOUS
<1> HIDE DEF one, two
<1>2. one \in Lines /\ Sum(one, c) = m
  <2> DEFINE none == <<>>
  <2>1. none \in Lines /\ Sum(none, c) = 0 /\ one = Append(none, <<c, m>>)
    BY <1>1, SumOfNone
  <2> HIDE DEF none
  <2>2. /\ Append(none, <<c, m>>) \in Lines
        /\ Sum(Append(none, <<c, m>>), c) = Sum(none, c) + m
    BY <2>1, SumOfMore
  <2> QED BY <2>1, <2>2
<1>3. /\ Append(one, <<d, n>>) \in Lines /\ Append(one, <<d, n>>) # <<>>
      /\ Sum(Append(one, <<d, n>>), c) = Sum(one, c) + (IF d = c THEN n ELSE 0)
  BY <1>2, SumOfMore
<1>4. two \in Lines /\ two # <<>> /\ (c # d => Sum(two, c) = m)
  BY <1>1, <1>2, <1>3
<1> QED BY <1>4 DEF two

-----------------------------------------------------------------------------
(* Sums over entries.                                                      *)

EntryTable == [Entries -> EntryRows \cup {None}]

(* What an entry adds to an account in a period.                           *)
Weight(row, a, p) ==
    IF row # None /\ row.status # "DRAFT" /\ row.at = p THEN Sum(row.lines, a) ELSE 0

Total(en, a, p) == SumFunction([e \in Entries |-> Weight(en[e], a, p)])

PostedIn(en) == {e \in {d \in Entries : en[d] # None} : en[e].status # "DRAFT"}

PostedSum(en, a, p) ==
    SumFunction([e \in PostedIn(en) |-> IF en[e].at = p THEN Sum(en[e].lines, a) ELSE 0])

LEMMA RowSums ==
    ASSUME NEW en \in EntryTable, NEW e \in Entries, en[e] # None, NEW a
    PROVE  /\ en[e] \in EntryRows /\ en[e].lines \in Lines /\ Sum(en[e].lines, a) \in Int
           /\ en[e].at \in Periods
<1>1. en[e] \in EntryRows
  BY DEF EntryTable
<1>2. en[e].lines \in Lines /\ en[e].at \in Periods
  BY <1>1 DEF EntryRows
<1> QED BY <1>1, <1>2, SumOfValues

LEMMA WeightInt ==
    ASSUME NEW en \in EntryTable, NEW e \in Entries, NEW a, NEW p
    PROVE  Weight(en[e], a, p) \in Int
BY RowSums DEF Weight

LEMMA TotalChanges ==
    ASSUME NEW en \in EntryTable, NEW en2 \in EntryTable, NEW a, NEW p, NEW e \in Entries,
           \A d \in Entries : d # e => Weight(en2[d], a, p) = Weight(en[d], a, p)
    PROVE  Total(en2, a, p) = Total(en, a, p) + (Weight(en2[e], a, p) - Weight(en[e], a, p))
<1> DEFINE f == [d \in Entries |-> Weight(en[d], a, p)]
           h == [d \in Entries |-> Weight(en2[d], a, p)]
<1>1. /\ DOMAIN f = Entries /\ DOMAIN h = Entries
      /\ \A d \in Entries : f[d] \in Int
      /\ h[e] \in Int /\ h[e] = Weight(en2[e], a, p) /\ f[e] = Weight(en[e], a, p)
      /\ \A d \in Entries : d # e => f[d] = h[d]
  BY WeightInt
<1>2. Total(en, a, p) = SumFunction(f) /\ Total(en2, a, p) = SumFunction(h)
  BY DEF Total
<1> HIDE DEF f, h
<1>3. SumFunctionOnSet(h, Entries) = SumFunctionOnSet(f, Entries) + (h[e] - f[e])
  BY <1>1, SumUpdate, LedgerAssumption
<1> QED BY <1>1, <1>2, <1>3 DEF SumFunction

LEMMA TotalStays ==
    ASSUME NEW en \in EntryTable, NEW en2 \in EntryTable, NEW a, NEW p,
           \A d \in Entries : Weight(en2[d], a, p) = Weight(en[d], a, p)
    PROVE  Total(en2, a, p) = Total(en, a, p)
<1>1. [d \in Entries |-> Weight(en2[d], a, p)] = [d \in Entries |-> Weight(en[d], a, p)]
  OBVIOUS
<1> QED BY <1>1 DEF Total

LEMMA TotalInt ==
    ASSUME NEW en \in EntryTable, NEW a, NEW p PROVE Total(en, a, p) \in Int
<1> DEFINE f == [d \in Entries |-> Weight(en[d], a, p)]
<1>1. DOMAIN f = Entries /\ \A d \in Entries : f[d] \in Int
  BY WeightInt
<1>2. Total(en, a, p) = SumFunction(f)
  BY DEF Total
<1> HIDE DEF f
<1>3. SumFunctionOnSet(f, Entries) \in Int
  BY <1>1, SumInt, LedgerAssumption
<1> QED BY <1>1, <1>2, <1>3 DEF SumFunction

LEMMA TotalSum ==
    ASSUME NEW en \in EntryTable, NEW a, NEW p
    PROVE  Total(en, a, p) = PostedSum(en, a, p)
<1> DEFINE f == [e \in Entries |-> Weight(en[e], a, p)]
           h == [e \in PostedIn(en) |-> IF en[e].at = p THEN Sum(en[e].lines, a) ELSE 0]
           P == PostedIn(en)
<1>1. P \in SUBSET Entries /\ IsFiniteSet(Entries)
  BY LedgerAssumption DEF PostedIn
<1>2. \A e \in P : f[e] = h[e] /\ h[e] \in Int
  BY RowSums DEF Weight, PostedIn
<1>3. \A e \in Entries \ P : f[e] = 0
  BY DEF Weight, PostedIn
<1>4. Total(en, a, p) = SumFunction(f) /\ PostedSum(en, a, p) = SumFunction(h)
  BY DEF Total, PostedSum
<1>5. DOMAIN f = Entries /\ DOMAIN h = P
  OBVIOUS
<1> HIDE DEF f, h, P
<1>6. SumFunctionOnSet(f, Entries) = SumFunctionOnSet(h, P)
  BY <1>1, <1>2, <1>3, SumRestrict
<1> QED BY <1>4, <1>5, <1>6 DEF SumFunction

LEMMA PostedIsPosted == Posted = PostedIn(entry)
BY DEF Posted, Made, PostedIn

(* What BalancesAgree says, over all entries.                              *)
LEMMA BalancesMean ==
    ASSUME entry \in EntryTable
    PROVE  BalancesAgree <=>
             \A a \in Accounts, p \in Periods : balance[a][p] = Total(entry, a, p)
<1>1. BalancesAgree <=>
        \A a \in Accounts, p \in Periods : balance[a][p] = PostedSum(entry, a, p)
  BY DEF BalancesAgree, PostedSum, PostedIn, Posted, Made
<1> QED BY <1>1, TotalSum

LEMMA BalancesMeanNext ==
    ASSUME entry' \in EntryTable
    PROVE  BalancesAgree' <=>
             \A a \in Accounts, p \in Periods : balance'[a][p] = Total(entry', a, p)
<1>1. BalancesAgree' <=>
        \A a \in Accounts, p \in Periods : balance'[a][p] = PostedSum(entry', a, p)
  BY DEF BalancesAgree, PostedSum, PostedIn, Posted, Made
<1> QED BY <1>1, TotalSum

(* Entries that are there keep their lines, and come to the same.          *)
LEMMA ComeSame ==
    ASSUME NEW S \in SUBSET Entries, NEW en, NEW en2, NEW a,
           \A e \in S : en2[e].lines = en[e].lines
    PROVE  Come(S, en2, a) = Come(S, en, a)
<1>1. [e \in S |-> Sum(en2[e].lines, a)] = [e \in S |-> Sum(en[e].lines, a)]
  OBVIOUS
<1> QED BY <1>1 DEF Come

LEMMA ComeOver ==
    ASSUME NEW S \in SUBSET Entries, NEW en \in EntryTable, \A e \in S : en[e] # None, NEW a,
           NEW f, \A e \in S : f[e] = Sum(en[e].lines, a)
    PROVE  /\ Come(S, en, a) = SumFunctionOnSet(f, S) /\ IsFiniteSet(S)
           /\ \A e \in S : f[e] \in Int
<1> DEFINE g == [e \in S |-> Sum(en[e].lines, a)]
<1>1. IsFiniteSet(S)
  BY LedgerAssumption, FS_Subset
<1>2. DOMAIN g = S /\ \A e \in S : g[e] = f[e] /\ f[e] \in Int
  BY RowSums
<1>3. Come(S, en, a) = SumFunction(g)
  BY DEF Come
<1> HIDE DEF g
<1>4. SumFunctionOnSet(g, S) = SumFunctionOnSet(f, S)
  BY <1>1, <1>2, SumFrame
<1> QED BY <1>1, <1>2, <1>3, <1>4 DEF SumFunction

LEMMA ComeInt ==
    ASSUME NEW S \in SUBSET Entries, NEW en \in EntryTable, \A e \in S : en[e] # None, NEW a
    PROVE  Come(S, en, a) \in Int
<1> DEFINE f == [e \in S |-> Sum(en[e].lines, a)]
<1>1. \A e \in S : f[e] = Sum(en[e].lines, a)
  OBVIOUS
<1> HIDE DEF f
<1>2. /\ Come(S, en, a) = SumFunctionOnSet(f, S) /\ IsFiniteSet(S)
      /\ \A e \in S : f[e] \in Int
  BY <1>1, ComeOver
<1> QED BY <1>2, SumInt

LEMMA ComeMore ==
    ASSUME NEW S \in SUBSET Entries, NEW en \in EntryTable, NEW n \in Entries, n \notin S,
           \A e \in S \cup {n} : en[e] # None, NEW a
    PROVE  Come(S \cup {n}, en, a) = Come(S, en, a) + Sum(en[n].lines, a)
<1> DEFINE f == [e \in S \cup {n} |-> Sum(en[e].lines, a)]
           W == S \cup {n}
<1>1. \A e \in W : f[e] = Sum(en[e].lines, a)
  OBVIOUS
<1>2. W \in SUBSET Entries /\ n \in W /\ W = S \cup {n} /\ \A e \in S : e \in W
  OBVIOUS
<1> HIDE DEF f, W
<1>3. Come(S, en, a) = SumFunctionOnSet(f, S) /\ IsFiniteSet(S)
  BY <1>1, <1>2, ComeOver
<1>4. Come(W, en, a) = SumFunctionOnSet(f, W) /\ \A e \in W : f[e] \in Int
  BY <1>1, <1>2, ComeOver
<1>5. SumFunctionOnSet(f, S \cup {n}) = SumFunctionOnSet(f, S) + f[n]
  BY <1>2, <1>3, <1>4, SumAdd
<1> QED BY <1>1, <1>2, <1>3, <1>4, <1>5

(* The net of an account over the periods the close knows of is what the   *)
(* entries posted to them come to.                                         *)
LEMMA NetIsEntries ==
    ASSUME BalancesAgree, entry \in EntryTable, NEW t, NEW a \in Accounts,
           tx[t].knows \subseteq Periods
    PROVE  /\ Net(t, a) = Come({e \in Posted : entry[e].at \in tx[t].knows}, entry, a)
           /\ Net(t, a) \in Int
<1> DEFINE P == Posted
           K == tx[t].knows
           S == {e \in Posted : entry[e].at \in tx[t].knows}
           f == [e \in P |-> Sum(entry[e].lines, a)]
           at == [e \in P |-> entry[e].at]
           part == [p \in K |-> [e \in P |-> IF entry[e].at = p THEN Sum(entry[e].lines, a) ELSE 0]]
           per == [p \in K |-> balance[a][p]]
           within == [e \in P |-> IF entry[e].at \in K THEN Sum(entry[e].lines, a) ELSE 0]
<1>1. /\ P \subseteq Entries /\ IsFiniteSet(P) /\ IsFiniteSet(K)
      /\ \A e \in P : entry[e] # None
      /\ S \in SUBSET P /\ S \in SUBSET Entries
  BY LedgerAssumption, FS_Subset DEF Posted, Made
<1>2. \A e \in P : f[e] = Sum(entry[e].lines, a) /\ f[e] \in Int
  BY <1>1, RowSums
<1>3. \A p \in K : \A e \in P : part[p][e] = IF at[e] = p THEN f[e] ELSE 0
  OBVIOUS
<1>4. \A e \in P : within[e] = IF at[e] \in K THEN f[e] ELSE 0
  OBVIOUS
<1>5. \A p \in K : per[p] = SumFunctionOnSet(part[p], P)
  <2> SUFFICES ASSUME NEW p \in K PROVE per[p] = SumFunctionOnSet(part[p], P)
    OBVIOUS
  <2>1. p \in Periods
    OBVIOUS
  <2>2. balance[a][p] =
            SumFunction([e \in Posted |-> IF entry[e].at = p THEN Sum(entry[e].lines, a) ELSE 0])
    BY <2>1 DEF BalancesAgree
  <2>3. DOMAIN part[p] = P /\ SumFunction(part[p]) = balance[a][p]
    BY <2>2
  <2> QED BY <2>3 DEF SumFunction
<1>6. \A e \in S : within[e] = f[e] /\ f[e] \in Int
  BY <1>2
<1>7. \A e \in P \ S : within[e] = 0
  OBVIOUS
<1>8. Net(t, a) = SumFunction(per) /\ DOMAIN per = K
  BY DEF Net
<1>9. \A e \in S : e \in P
  OBVIOUS
<1>10. S = {e \in Posted : entry[e].at \in tx[t].knows}
  OBVIOUS
<1> HIDE DEF P, K, S, f, at, part, per, within
<1>11. SumFunctionOnSet(per, K) = SumFunctionOnSet(within, P)
  <2>1. Sorted(P, K, f, at, part, per, within)
    BY <1>2, <1>3, <1>4, <1>5 DEF Sorted
  <2> QED BY <1>1, <2>1, SumByClass
<1>12. SumFunctionOnSet(within, P) = SumFunctionOnSet(f, S)
  BY <1>1, <1>6, <1>7, SumRestrict
<1>13. \A e \in S : entry[e] # None /\ f[e] = Sum(entry[e].lines, a)
  BY <1>1, <1>2, <1>9
<1>14. Come(S, entry, a) = SumFunctionOnSet(f, S)
  BY <1>1, <1>13, ComeOver
<1>15. Come(S, entry, a) \in Int
  BY <1>1, <1>13, ComeInt
<1>16. Net(t, a) = Come(S, entry, a) /\ Net(t, a) \in Int
  BY <1>8, <1>11, <1>12, <1>14, <1>15 DEF SumFunction
<1> QED BY <1>10, <1>16

(* The closing entry takes from each income account what it has.           *)
LEMMA ClosingTakesAll ==
    ASSUME NEW t, \A a \in Accounts : Net(t, a) \in Int
    PROVE  /\ ClosingLines(t) \in Lines
           /\ \A a \in Income : Sum(ClosingLines(t), a) = -Net(t, a)
<1> DEFINE r == Net(t, Revenue)
           c == Net(t, Refunds)
           line(a, n) == IF n = 0 THEN <<>> ELSE <<<<a, n>>>>
           first == line(Revenue, -r)
           second == first \o line(Refunds, -c)
           third == second \o line(Retained, r + c)
<1>1. r \in Int /\ c \in Int /\ -r \in Int /\ -c \in Int /\ r + c \in Int
      /\ Revenue \in Accounts /\ Refunds \in Accounts /\ Retained \in Accounts
  BY DEF Accounts
<1>2. ClosingLines(t) = third
  BY DEF ClosingLines
<1>3. ASSUME NEW s \in Lines, NEW a \in Accounts, NEW n \in Int
      PROVE  /\ s \o line(a, n) \in Lines
             /\ \A b : Sum(s \o line(a, n), b) = Sum(s, b) + (IF a = b THEN n ELSE 0)
  <2>1. \A b : Sum(s, b) \in Int
    BY SumOfValues
  <2>2. CASE n = 0
    <3>1. s \o line(a, n) = s
      BY <2>2 DEF Lines
    <3> HIDE DEF line
    <3>2. ASSUME NEW b PROVE Sum(s, b) = Sum(s, b) + (IF a = b THEN n ELSE 0)
      BY <2>1, <2>2
    <3> QED BY <3>1, <3>2
  <2>3. CASE n # 0
    <3>1. s \o line(a, n) = Append(s, <<a, n>>)
      BY <2>3 DEF Lines
    <3> HIDE DEF line
    <3> QED BY <3>1, SumOfMore
  <2> QED BY <2>2, <2>3
<1>4. first \in Lines /\ \A b : Sum(first, b) = IF Revenue = b THEN -r ELSE 0
  <2> DEFINE none == <<>>
  <2>1. first = none \o line(Revenue, -r)
    OBVIOUS
  <2>2. none \in Lines /\ \A b : Sum(none, b) = 0
    BY SumOfNone
  <2> HIDE DEF none, line, first, r
  <2>3. /\ none \o line(Revenue, -r) \in Lines
        /\ \A b : Sum(none \o line(Revenue, -r), b) = Sum(none, b) + (IF Revenue = b THEN -r ELSE 0)
    BY <1>1, <1>3, <2>2
  <2>4. /\ first \in Lines
        /\ \A b : Sum(first, b) = Sum(none, b) + (IF Revenue = b THEN -r ELSE 0)
    BY <2>1, <2>3
  <2> QED BY <1>1, <2>2, <2>4
<1>5. second = first \o line(Refunds, -c) /\ third = second \o line(Retained, r + c)
  OBVIOUS
<1> HIDE DEF first, second, third, line, r, c
<1>6. second \in Lines /\ \A b : Sum(second, b) = Sum(first, b) + (IF Refunds = b THEN -c ELSE 0)
  BY <1>1, <1>3, <1>4, <1>5
<1>7. third \in Lines /\ \A b : Sum(third, b) = Sum(second, b) + (IF Retained = b THEN r + c ELSE 0)
  BY <1>1, <1>3, <1>5, <1>6
<1>8. Sum(third, Revenue) = -r
  <2>1. Sum(first, Revenue) = -r
    BY <1>4
  <2>2. Sum(second, Revenue) = -r
    BY <1>1, <1>6, <2>1 DEF Revenue, Refunds
  <2> QED BY <1>1, <1>7, <2>2 DEF Revenue, Retained
<1>9. Sum(third, Refunds) = -c
  <2>1. Sum(first, Refunds) = 0
    BY <1>4 DEF Revenue, Refunds
  <2>2. Sum(second, Refunds) = -c
    BY <1>1, <1>6, <2>1
  <2> QED BY <1>1, <1>7, <2>2 DEF Refunds, Retained
<1> QED BY <1>2, <1>7, <1>8, <1>9 DEF Income, r, c

-----------------------------------------------------------------------------
(* What others may do to the rows without a transaction x being wrong      *)
(* about them: entries keep their lines, versions grow, what x holds or    *)
(* makes is left alone, no period that is there is opened again, and the   *)
(* year is not closed without counting x as under way.                     *)
FTTable == [FTs -> FTRows \cup {None}]

EntriesStay(x, en, en2) ==
    /\ \A e \in Entries : en[e] # None =>
        /\ en2[e] # None /\ en2[e].lines = en[e].lines /\ en2[e].at = en[e].at
        /\ en[e].status # "DRAFT" => en2[e].status # "DRAFT"
    /\ HasEntry(x) => en2[x.target] = en[x.target]
    /\ x.new # None => en2[x.new] = None

FTsStay(x, fs, fs2) ==
    /\ \A f \in FTs : fs[f] # None =>
        /\ fs2[f] # None /\ fs[f].version <= fs2[f].version
        /\ fs2[f].version = fs[f].version => fs2[f] = fs[f]
    /\ HasFT(x) => fs2[x.ft] = fs[x.ft]
    /\ x.twin # None => fs2[x.twin] = None

PeriodsStay(x, ca, ca2, op, op2, cl, cl2, se, se2, un, un2) ==
    /\ ca \subseteq ca2 /\ x.opens \cap ca2 = {} /\ op2 \cap ca \subseteq op
    /\ HasYear(x) => cl2 = cl
    /\ cl2 /\ ~un2 => cl /\ ~un /\ se2 = se

LEMMA KnowsStays ==
    ASSUME NEW x, NEW en \in EntryTable, NEW en2 \in EntryTable, NEW fs \in FTTable,
           NEW fs2 \in FTTable, NEW ca, NEW ca2, NEW op, NEW op2, NEW cl, NEW cl2,
           NEW se, NEW se2, NEW un, NEW un2,
           None \notin Entries, None \notin FTs,
           Knows(x, en, fs, ca, op, cl, se, un), EntriesStay(x, en, en2), FTsStay(x, fs, fs2),
           PeriodsStay(x, ca, ca2, op, op2, cl, cl2, se, se2, un, un2)
    PROVE  Knows(x, en2, fs2, ca2, op2, cl2, se2, un2)
<1>1. Shaped(x) /\ RowsKnown(x)
  BY DEF Knows
<1>2. EntryKnown(x, en2)
  <2>1. EntryKnown(x, en)
    BY DEF Knows
  <2>2. x.kind \in MakingKinds => en2[x.new] = None
    BY <2>1 DEF EntryKnown, EntriesStay
  <2>3. x.kind \in TargetKinds =>
            /\ x.target \in Entries /\ en[x.target] # None /\ en2[x.target] # None
            /\ en2[x.target].lines = en[x.target].lines /\ en2[x.target].at = en[x.target].at
            /\ en[x.target].status # "DRAFT" => en2[x.target].status # "DRAFT"
            /\ HasEntry(x) => en2[x.target] = en[x.target]
    BY <2>1 DEF EntryKnown, EntriesStay
  <2> QED BY <2>1, <2>2, <2>3 DEF EntryKnown, TargetKinds
<1>3. FTKnown(x, fs2)
  <2>1. FTKnown(x, fs)
    BY DEF Knows
  <2>2. x.kind \in FTKinds =>
            /\ x.ft \in FTs /\ x.was \in FTRows /\ fs[x.ft] # None /\ fs2[x.ft] # None
            /\ x.was.version \in Nat /\ fs[x.ft].version \in Nat /\ fs2[x.ft].version \in Nat
            /\ fs[x.ft].version <= fs2[x.ft].version
            /\ fs2[x.ft].version = fs[x.ft].version => fs2[x.ft] = fs[x.ft]
            /\ HasFT(x) => fs2[x.ft] = fs[x.ft]
    BY <2>1 DEF FTKnown, FTsStay, FTTable, FTRows
  <2>3. x.kind \in FTKinds =>
            /\ x.was.version <= fs2[x.ft].version
            /\ x.was.version = fs2[x.ft].version => fs2[x.ft] = x.was
            /\ HasFT(x) => fs2[x.ft] = x.was
    BY <2>1, <2>2 DEF FTKnown
  <2>4. x.kind = "reverseFT" => fs2[x.twin] = None
    BY <2>1 DEF FTKnown, FTsStay
  <2> QED BY <2>1, <2>2, <2>3, <2>4 DEF FTKnown
<1>4. PeriodsKnown(x, ca2, op2, cl2, se2, un2)
  BY DEF Knows, PeriodsKnown, PeriodsStay
<1>5. CloseKnown(x, en2, ca2, op2, cl2)
  <2>1. CloseKnown(x, en, ca, op, cl)
    BY DEF Knows
  <2>2. CASE x.kind # "close"
    BY <2>1, <2>2 DEF CloseKnown
  <2>3. CASE x.kind = "close"
    <3>1. x.knows \subseteq ca2 /\ x.closes \subseteq ca2 /\ (HasYear(x) => ~cl2)
      BY <2>1, <2>3 DEF CloseKnown, PeriodsStay
    <3>2. x.knows \cap op \subseteq x.closes => x.knows \cap op2 \subseteq x.closes
      BY <2>1, <2>3 DEF CloseKnown, PeriodsStay
    <3>3. ASSUME x.saw \subseteq {e \in Entries : Isnt(e, "DRAFT", en)}, NEW a
          PROVE  /\ x.saw \subseteq {e \in Entries : Isnt(e, "DRAFT", en2)}
                 /\ Come(x.saw, en2, a) = Come(x.saw, en, a)
      <4>1. \A e \in x.saw : e \in Entries /\ Isnt(e, "DRAFT", en2) /\ en2[e].lines = en[e].lines
        BY <3>3 DEF EntriesStay, Isnt
      <4>2. x.saw \in SUBSET Entries
        BY <4>1
      <4> QED BY <4>1, <4>2, ComeSame
    <3>4. x.step \in {"validateOwn", "number", "line", "closeLast", "commit"} =>
            /\ x.saw \subseteq {e \in Entries : Isnt(e, "DRAFT", en2)}
            /\ \A a \in Income : Sum(x.lines, a) + Come(x.saw, en2, a) = 0
      <4> SUFFICES ASSUME x.step \in {"validateOwn", "number", "line", "closeLast", "commit"}
                   PROVE  /\ x.saw \subseteq {e \in Entries : Isnt(e, "DRAFT", en2)}
                          /\ \A a \in Income : Sum(x.lines, a) + Come(x.saw, en2, a) = 0
        OBVIOUS
      <4>1. /\ x.saw \subseteq {e \in Entries : Isnt(e, "DRAFT", en)}
            /\ \A a \in Income : Sum(x.lines, a) + Come(x.saw, en, a) = 0
        BY <2>1, <2>3 DEF CloseKnown
      <4> QED BY <3>3, <4>1
    <3> QED BY <2>1, <2>3, <3>1, <3>2, <3>4 DEF CloseKnown
  <2> QED BY <2>2, <2>3
<1> QED BY <1>1, <1>2, <1>3, <1>4, <1>5 DEF Knows

LEMMA NotNone == None \notin Entries /\ None \notin FTs /\ None \notin Periods
BY LedgerAssumption

-----------------------------------------------------------------------------
(* Steps that change no row.                                               *)

Data == <<entry, ft, balance, calendar, open, closed, settled, covered>>

LEMMA StepPreserves ==
    ASSUME IInv, NEW t \in Txns, NEW y, tx' = [tx EXCEPT ![t] = y], UNCHANGED Data,
           under' = under \/ (y = None /\ under' = under \ {t}),
           y # None =>
             /\ Knows(y, entry, ft, calendar, open, closed, settled, t \in under)
             /\ \A u \in Running : u # t => Apart(y, tx[u]) /\ Apart(tx[u], y)
    PROVE  IInv'
<1>1. /\ entry' = entry /\ ft' = ft /\ balance' = balance /\ calendar' = calendar
      /\ open' = open /\ closed' = closed /\ settled' = settled /\ covered' = covered
  BY DEF Data
<1>2. DataInv'
  <2>1. TypesOK' /\ ReversalsOK' /\ FTsOK' /\ YearOK'
    BY <1>1 DEF IInv, DataInv, TypesOK, ReversalsOK, FTsOK, YearOK, Made, Posted, Recorded
  <2>2. BalancesAgree' /\ CloseZeroes'
    BY <1>1 DEF IInv, DataInv, BalancesAgree, CloseZeroes, Made, Posted
  <2> QED BY <2>1, <2>2 DEF DataInv
<1>3. DOMAIN tx = Txns
  BY DEF IInv, AllKnow
<1>4. tx'[t] = y /\ \A u \in Txns : u # t => tx'[u] = tx[u]
  BY <1>3
<1>5. \A u \in Running' : u \in Txns /\ (u = t \/ u \in Running) /\ tx'[u] # None
  BY <1>4 DEF Running
<1>6. AllKnow'
  <2>1. ASSUME NEW u \in Running'
        PROVE  Knows(tx'[u], entry, ft, calendar, open, closed, settled, u \in under')
    <3>1. CASE u = t
      <4>1. under' = under /\ tx'[u] = y /\ y # None
        BY <1>4, <1>5, <3>1
      <4> QED BY <3>1, <4>1
    <3>2. CASE u # t
      <4>1. u \in Running /\ tx'[u] = tx[u] /\ (u \in under') = (u \in under)
        BY <1>4, <1>5, <3>2
      <4>2. Knows(tx[u], entry, ft, calendar, open, closed, settled, u \in under)
        BY <4>1 DEF IInv, AllKnow
      <4> QED BY <4>1, <4>2
    <3> QED BY <3>1, <3>2
  <2> QED BY <1>1, <1>3, <2>1 DEF AllKnow
<1>7. AllApart'
  <2> SUFFICES ASSUME NEW u \in Running', NEW v \in Running', u # v
               PROVE  Apart(tx'[u], tx'[v])
    BY DEF AllApart
  <2>1. CASE u = t
    BY <1>4, <1>5, <2>1
  <2>2. CASE v = t
    BY <1>4, <1>5, <2>2
  <2>3. CASE u # t /\ v # t
    BY <1>4, <1>5, <2>3 DEF IInv, AllApart
  <2> QED BY <2>1, <2>2, <2>3
<1> QED BY <1>2, <1>6, <1>7 DEF IInv

LEMMA AbortPreserves == ASSUME IInv, NEW t \in Txns, Abort(t) PROVE IInv'
<1>1. tx' = [tx EXCEPT ![t] = None] /\ UNCHANGED Data /\ under' = under \ {t}
  BY DEF Abort, Data
<1> QED BY <1>1, StepPreserves

LEMMA Known ==
    ASSUME IInv, NEW t \in Txns, NEW step, At(t, step)
    PROVE  /\ t \in Running /\ tx[t].step = step
           /\ Knows(tx[t], entry, ft, calendar, open, closed, settled, t \in under)
           /\ Shaped(tx[t]) /\ RowsKnown(tx[t]) /\ EntryKnown(tx[t], entry) /\ FTKnown(tx[t], ft)
           /\ PeriodsKnown(tx[t], calendar, open, closed, settled, t \in under)
           /\ CloseKnown(tx[t], entry, calendar, open, closed)
           /\ DOMAIN tx[t] = Fields
BY DEF At, Running, IInv, AllKnow, Knows, Shaped

(* A step of t that makes no more than before, and takes the rows that it  *)
(* wants and nobody holds, or none.                                        *)
LEMMA GoOn ==
    ASSUME IInv, NEW t \in Running, NEW y, Becomes(t, y),
           Knows(y, entry, ft, calendar, open, closed, settled, t \in under),
           y.new = tx[t].new, y.twin = tx[t].twin,
           y.rows = tx[t].rows \/ (Ready(t) /\ y.rows = tx[t].rows \cup Wants(t))
    PROVE  IInv'
<1>1. t \in Txns
  BY DEF Running
<1>2. tx' = [tx EXCEPT ![t] = y] /\ UNCHANGED Data /\ under' = under
  BY DEF Becomes, Stay, Data
<1>3. ASSUME NEW u \in Running, u # t PROVE Apart(y, tx[u]) /\ Apart(tx[u], y)
  <2>1. Apart(tx[t], tx[u]) /\ Apart(tx[u], tx[t])
    BY <1>3 DEF IInv, AllApart
  <2>2. y.rows \cap tx[u].rows = {}
    BY <1>3, <2>1 DEF Apart, Ready, HeldByOther, Holds
  <2> QED BY <2>1, <2>2 DEF Apart
<1> QED BY <1>1, <1>2, <1>3, StepPreserves

-----------------------------------------------------------------------------
(* The initial state.                                                      *)

LEMMA InitEstablishes == Init => IInv
<1> SUFFICES ASSUME Init PROVE IInv
  OBVIOUS
<1>1. /\ entry = [e \in Entries |-> None] /\ ft = [f \in FTs |-> None]
      /\ balance = [a \in Accounts |-> [p \in Periods |-> 0]]
      /\ calendar \in {Periods, {Min(Periods)}} /\ open = calendar /\ closed = FALSE
      /\ settled = {} /\ covered = {} /\ tx = [t \in Txns |-> None]
  BY DEF Init
<1>2. calendar \subseteq Periods
  <2>1. Min(Periods) \in Periods
    BY Extremes, LedgerAssumption
  <2> QED BY <1>1, <2>1
<1>3. Made = {} /\ Posted = {} /\ Recorded = {} /\ Running = {}
  BY <1>1 DEF Made, Posted, Recorded, Running
<1>4. TypesOK
  BY <1>1, <1>2, <1>3 DEF TypesOK
<1>5. BalancesAgree
  <2>1. entry \in EntryTable
    BY <1>4 DEF TypesOK, EntryTable
  <2>2. ASSUME NEW a \in Accounts, NEW p \in Periods PROVE Total(entry, a, p) = 0
    <3> DEFINE f == [e \in Entries |-> Weight(entry[e], a, p)]
    <3>1. DOMAIN f = Entries /\ \A e \in Entries : f[e] = 0
      BY <1>1 DEF Weight
    <3>2. Total(entry, a, p) = SumFunction(f)
      BY DEF Total
    <3> HIDE DEF f
    <3>3. SumFunctionOnSet(f, Entries) = 0
      BY <3>1, SumNothing, LedgerAssumption
    <3> QED BY <3>1, <3>2, <3>3 DEF SumFunction
  <2>3. \A a \in Accounts, p \in Periods : balance[a][p] = 0
    BY <1>1
  <2> QED BY <2>1, <2>2, <2>3, BalancesMean
<1>6. ReversalsOK /\ FTsOK /\ YearOK /\ CloseZeroes
  BY <1>1, <1>3 DEF ReversalsOK, FTsOK, YearOK, CloseZeroes
<1>7. AllKnow /\ AllApart
  BY <1>1, <1>3 DEF AllKnow, AllApart
<1> QED BY <1>4, <1>5, <1>6, <1>7 DEF IInv, DataInv

-----------------------------------------------------------------------------
(* Requests.                                                               *)

LEMMA TransactionFields ==
    ASSUME NEW kind, NEW step, NEW new, NEW target, NEW p, NEW lines,
           NEW y, y = Transaction(kind, step, new, target, p, lines)
    PROVE  /\ DOMAIN y = Fields
           /\ y.kind = kind /\ y.step = step /\ y.new = new /\ y.target = target /\ y.at = p
           /\ y.lines = lines /\ y.todo = lines
           /\ y.rows = {} /\ y.opens = {} /\ y.knows = {} /\ y.closes = {} /\ y.saw = {}
           /\ y.ft = None /\ y.was = None /\ y.twin = None
BY DEF Transaction, Fields

Begun(y) ==
    /\ DOMAIN y = Fields
    /\ \/ y.kind = "post" /\ y.step \in {"calendar", "validate"}
       \/ y.kind \in {"draft", "undo"} /\ y.step = "validate"
       \/ y.kind = "reverse" /\ y.step = "claim"
       \/ y.kind = "close" /\ y.step = "claimYear"
       \/ y.kind \in FTKinds /\ y.step = "claimFT"
    /\ y.lines \in Lines /\ y.todo = y.lines
    /\ y.lines = <<>> <=> y.kind \in {"close", "updateFT"}
    /\ y.rows = {} /\ y.opens = {} /\ y.knows = {} /\ y.closes = {}
    /\ y.kind = "close" => y.at = None
    /\ y.kind \in {"post", "postFT", "reverseFT"} => y.at \in Periods

(* A request begins knowing nothing but what it is about.                  *)
LEMMA BeginPreserves ==
    ASSUME IInv, NEW t \in Txns, NEW y, Begin(t, y), Begun(y),
           EntryKnown(y, entry), FTKnown(y, ft),
           y.new = None \/ y.new \in Free, y.twin = None \/ y.twin \in FreeFTs
    PROVE  IInv'
<1>1. tx' = [tx EXCEPT ![t] = y] /\ UNCHANGED Data /\ under' = under /\ tx[t] = None
  BY DEF Begin, Data
<1>2. ~HasEntry(y) /\ ~HasNumber(y) /\ ~HasYear(y) /\ ~HasFT(y) /\ ~Validated(y)
  BY DEF Begun, HasEntry, HasNumber, HasYear, HasFT, Validated, FTKinds, PlainKinds
<1>3. Shaped(y)
  <2>1. y.kind \in Kinds /\ y.step \in StepsOf(y.kind)
    BY DEF Begun, FTKinds, Kinds, MakingKinds, PlainKinds, TargetKinds, StepsOf
  <2> QED BY <2>1 DEF Shaped, Begun, PlainKinds, FTKinds
<1>4. RowsKnown(y)
  BY <1>2 DEF Begun, RowsKnown, FTKinds
<1>5. PeriodsKnown(y, calendar, open, closed, settled, t \in under)
  BY <1>2 DEF Begun, PeriodsKnown, FTKinds
<1>6. CloseKnown(y, entry, calendar, open, closed)
  BY <1>2 DEF Begun, CloseKnown, FTKinds
<1>7. Knows(y, entry, ft, calendar, open, closed, settled, t \in under)
  BY <1>3, <1>4, <1>5, <1>6 DEF Knows
<1>8. ASSUME NEW u \in Running, u # t PROVE Apart(y, tx[u]) /\ Apart(tx[u], y)
  BY DEF Apart, Begun, Free, FreeFTs
<1> QED BY <1>1, <1>7, <1>8, StepPreserves

LEMMA EntriesTyped ==
    ASSUME IInv
    PROVE  /\ entry \in EntryTable /\ ft \in FTTable
           /\ \A e \in Made : /\ e \in Entries /\ entry[e] \in EntryRows /\ entry[e] # None
                              /\ entry[e].lines \in Lines /\ entry[e].lines # <<>>
                              /\ entry[e].at \in Periods
           /\ \A f \in Recorded : f \in FTs /\ ft[f] \in FTRows /\ ft[f] # None
           /\ \A e \in Free : e \in Entries /\ entry[e] = None
           /\ \A f \in FreeFTs : f \in FTs /\ ft[f] = None
BY DEF IInv, DataInv, TypesOK, EntryTable, FTTable, Made, Recorded, Free, FreeFTs, EntryRows

LEMMA PostPreserves == ASSUME IInv, NEW t \in Txns, Post(t) PROVE IInv'
<1>1. PICK e \in Free, p \in Periods, lines \in {SaleLines, RefundLines}, step \in {"calendar", "validate"} :
        Begin(t, Transaction("post", step, e, None, p, lines))
  BY DEF Post
<1> DEFINE y == Transaction("post", step, e, None, p, lines)
<1>2. lines \in Lines /\ lines # <<>>
  <2>1. Cash \in Accounts /\ Revenue \in Accounts /\ Refunds \in Accounts
    BY DEF Accounts
  <2>2. 1 \in Int /\ 2 \in Int /\ -1 \in Int /\ -2 \in Int
    OBVIOUS
  <2> QED BY <2>1, <2>2, SumOfTwo DEF SaleLines, RefundLines
<1>3. /\ DOMAIN y = Fields
      /\ y.kind = "post" /\ y.step = step /\ y.new = e /\ y.target = None /\ y.at = p
      /\ y.lines = lines /\ y.todo = lines
      /\ y.rows = {} /\ y.opens = {} /\ y.knows = {} /\ y.closes = {}
      /\ y.ft = None /\ y.twin = None
  BY TransactionFields
<1> HIDE DEF y
<1>4. Begun(y)
  BY <1>2, <1>3 DEF Begun, FTKinds
<1>5. EntryKnown(y, entry)
  BY <1>3, EntriesTyped DEF EntryKnown, MakingKinds, PlainKinds, TargetKinds
<1>6. FTKnown(y, ft)
  BY <1>3 DEF FTKnown, FTKinds
<1>7. Begin(t, y)
  BY <1>1 DEF y
<1> QED BY <1>3, <1>4, <1>5, <1>6, <1>7, BeginPreserves

LEMMA PostDraftPreserves == ASSUME IInv, NEW t \in Txns, PostDraft(t) PROVE IInv'
<1>1. PICK e \in Made : /\ entry[e].status = "DRAFT"
                        /\ Begin(t, Transaction("draft", "validate", None, e, entry[e].at, entry[e].lines))
  BY DEF PostDraft
<1> DEFINE y == Transaction("draft", "validate", None, e, entry[e].at, entry[e].lines)
<1>2. entry[e].lines \in Lines /\ entry[e].lines # <<>> /\ e \in Entries /\ entry[e] # None
  BY EntriesTyped
<1>3. /\ DOMAIN y = Fields
      /\ y.kind = "draft" /\ y.step = "validate" /\ y.new = None /\ y.target = e
      /\ y.at = entry[e].at /\ y.lines = entry[e].lines /\ y.todo = entry[e].lines
      /\ y.rows = {} /\ y.opens = {} /\ y.knows = {} /\ y.closes = {}
      /\ y.ft = None /\ y.twin = None
  BY TransactionFields
<1> HIDE DEF y
<1>4. Begun(y)
  BY <1>2, <1>3 DEF Begun, FTKinds
<1>5. EntryKnown(y, entry)
  BY <1>2, <1>3 DEF EntryKnown, MakingKinds, PlainKinds, TargetKinds, HasEntry
<1>6. FTKnown(y, ft)
  BY <1>3 DEF FTKnown, FTKinds
<1>7. Begin(t, y)
  BY <1>1 DEF y
<1> QED BY <1>3, <1>4, <1>5, <1>6, <1>7, BeginPreserves

(* A reversal, or a return undone.                                         *)
LEMMA ReversalBegins ==
    ASSUME IInv, NEW t \in Txns, NEW e \in Posted, NEW n \in Free, NEW p, NEW y,
           NEW kind \in {"reverse", "undo"}, NEW step,
           step = IF kind = "reverse" THEN "claim" ELSE "validate",
           y = Transaction(kind, step, n, e, p, Negated(entry[e].lines)), Begin(t, y)
    PROVE  IInv'
<1>1. e \in Made /\ entry[e].status # "DRAFT"
  BY DEF Posted
<1>2. entry[e].lines \in Lines /\ entry[e].lines # <<>> /\ e \in Entries /\ entry[e] # None
  BY <1>1, EntriesTyped
<1> DEFINE lines == Negated(entry[e].lines)
<1>3. lines \in Lines /\ lines # <<>>
  BY <1>2, SumOfNegated
<1> HIDE DEF lines
<1>4. /\ DOMAIN y = Fields
      /\ y.kind = kind /\ y.step = step /\ y.new = n /\ y.target = e
      /\ y.lines = lines /\ y.todo = lines
      /\ y.rows = {} /\ y.opens = {} /\ y.knows = {} /\ y.closes = {}
      /\ y.ft = None /\ y.twin = None
  BY TransactionFields DEF lines
<1>5. Begun(y)
  BY <1>3, <1>4 DEF Begun, FTKinds
<1>6. EntryKnown(y, entry)
  BY <1>1, <1>2, <1>4, EntriesTyped DEF EntryKnown, MakingKinds, PlainKinds, TargetKinds, HasEntry
<1>7. FTKnown(y, ft)
  BY <1>4 DEF FTKnown, FTKinds
<1> QED BY <1>4, <1>5, <1>6, <1>7, BeginPreserves

LEMMA ReversePreserves == ASSUME IInv, NEW t \in Txns, Reverse(t) \/ UndoReturn(t) PROVE IInv'
<1>1. CASE Reverse(t)
  BY <1>1, ReversalBegins DEF Reverse
<1>2. CASE UndoReturn(t)
  BY <1>2, ReversalBegins DEF UndoReturn
<1> QED BY <1>1, <1>2

LEMMA CloseYearPreserves == ASSUME IInv, NEW t \in Txns, CloseYear(t) PROVE IInv'
<1>1. PICK n \in Free : Begin(t, Transaction("close", "claimYear", n, None, None, <<>>))
  BY DEF CloseYear
<1> DEFINE y == Transaction("close", "claimYear", n, None, None, <<>>)
<1>2. /\ DOMAIN y = Fields
      /\ y.kind = "close" /\ y.step = "claimYear" /\ y.new = n /\ y.target = None
      /\ y.at = None /\ y.lines = <<>> /\ y.todo = <<>>
      /\ y.rows = {} /\ y.opens = {} /\ y.knows = {} /\ y.closes = {}
      /\ y.ft = None /\ y.twin = None
  BY TransactionFields
<1> HIDE DEF y
<1>3. Begun(y)
  BY <1>2, SumOfNone DEF Begun, FTKinds
<1>4. EntryKnown(y, entry)
  BY <1>2, EntriesTyped DEF EntryKnown, MakingKinds, PlainKinds, TargetKinds
<1>5. FTKnown(y, ft)
  BY <1>2 DEF FTKnown, FTKinds
<1>6. Begin(t, y)
  BY <1>1 DEF y
<1> QED BY <1>2, <1>3, <1>4, <1>5, <1>6, BeginPreserves

(* A request about a financial transaction f.                              *)
LEMMA FTRequestBegins ==
    ASSUME IInv, NEW t \in Txns, NEW f \in Recorded, NEW y, Begin(t, y),
           DOMAIN y = Fields, y.kind \in FTKinds, y.step = "claimFT", y.target = None,
           y.kind = "updateFT" => y.new = None /\ y.lines = <<>>,
           y.kind # "updateFT" => y.new \in Free /\ y.lines # <<>>,
           y.kind = "reverseFT" => y.twin \in FreeFTs /\ Sum(y.lines, Cash) = -ft[f].amount,
           y.kind # "reverseFT" => y.twin = None,
           y.kind = "postFT" => Sum(y.lines, Cash) = ft[f].amount,
           y.lines \in Lines, y.todo = y.lines,
           y.rows = {}, y.opens = {}, y.knows = {}, y.closes = {},
           y.ft = f, y.was = ft[f],
           y.kind # "updateFT" => y.at \in Periods,
           ft[f].status = IF y.kind = "reverseFT" THEN "POSTED" ELSE "DRAFT"
    PROVE  IInv'
<1>1. f \in FTs /\ ft[f] \in FTRows /\ ft[f] # None /\ ft[f].version \in Nat
  BY EntriesTyped DEF FTRows
<1>2. Begun(y)
  BY DEF Begun, FTKinds
<1>3. EntryKnown(y, entry)
  BY EntriesTyped DEF EntryKnown, MakingKinds, PlainKinds, TargetKinds, FTKinds
<1>4. FTKnown(y, ft)
  BY <1>1, EntriesTyped DEF FTKnown, FTKinds, HasFT
<1> QED BY <1>2, <1>3, <1>4, BeginPreserves DEF FTKinds

LEMMA OfFTFields ==
    ASSUME NEW kind, NEW f, NEW e, NEW p, NEW lines, NEW y, y = OfFT(kind, f, e, p, lines)
    PROVE  /\ DOMAIN y = Fields
           /\ y.kind = kind /\ y.step = "claimFT" /\ y.new = e /\ y.target = None /\ y.at = p
           /\ y.lines = lines /\ y.todo = lines
           /\ y.rows = {} /\ y.opens = {} /\ y.knows = {} /\ y.closes = {} /\ y.saw = {}
           /\ y.ft = f /\ y.was = ft[f] /\ y.twin = None
<1> DEFINE z == Transaction(kind, "claimFT", e, None, p, lines)
<1>1. /\ DOMAIN z = Fields
      /\ z.kind = kind /\ z.step = "claimFT" /\ z.new = e /\ z.target = None /\ z.at = p
      /\ z.lines = lines /\ z.todo = lines
      /\ z.rows = {} /\ z.opens = {} /\ z.knows = {} /\ z.closes = {} /\ z.saw = {}
      /\ z.twin = None
  BY TransactionFields
<1>2. y = [z EXCEPT !.ft = f, !.was = ft[f]]
  BY DEF OfFT
<1> HIDE DEF z
<1> QED BY <1>1, <1>2 DEF Fields

LEMMA UpdateFTPreserves == ASSUME IInv, NEW t \in Txns, UpdateFT(t) PROVE IInv'
<1>1. PICK f \in Recorded : ft[f].status = "DRAFT" /\ Begin(t, OfFT("updateFT", f, None, None, <<>>))
  BY DEF UpdateFT
<1> DEFINE y == OfFT("updateFT", f, None, None, <<>>)
<1>2. /\ DOMAIN y = Fields
      /\ y.kind = "updateFT" /\ y.step = "claimFT" /\ y.new = None /\ y.target = None
      /\ y.lines = <<>> /\ y.todo = <<>>
      /\ y.rows = {} /\ y.opens = {} /\ y.knows = {} /\ y.closes = {}
      /\ y.ft = f /\ y.was = ft[f] /\ y.twin = None
  BY OfFTFields
<1>3. Begin(t, y)
  BY <1>1
<1> HIDE DEF y
<1> QED BY <1>1, <1>2, <1>3, SumOfNone, FTRequestBegins DEF FTKinds

LEMMA PostFTPreserves == ASSUME IInv, NEW t \in Txns, PostFT(t) PROVE IInv'
<1>1. PICK f \in Recorded, e \in Free, p \in Periods :
        /\ ft[f].status = "DRAFT"
        /\ Begin(t, OfFT("postFT", f, e, p, <<<<Cash, ft[f].amount>>, <<Revenue, -ft[f].amount>>>>))
  BY DEF PostFT
<1> DEFINE lines == <<<<Cash, ft[f].amount>>, <<Revenue, -ft[f].amount>>>>
           y == OfFT("postFT", f, e, p, lines)
<1>2. lines \in Lines /\ lines # <<>> /\ Sum(lines, Cash) = ft[f].amount
  <2>1. Cash \in Accounts /\ Revenue \in Accounts /\ Cash # Revenue
    BY DEF Accounts, Cash, Revenue
  <2>2. ft[f].amount \in Int /\ -ft[f].amount \in Int
    BY EntriesTyped DEF FTRows
  <2> QED BY <2>1, <2>2, SumOfTwo
<1> HIDE DEF lines
<1>3. /\ DOMAIN y = Fields
      /\ y.kind = "postFT" /\ y.step = "claimFT" /\ y.new = e /\ y.target = None /\ y.at = p
      /\ y.lines = lines /\ y.todo = lines
      /\ y.rows = {} /\ y.opens = {} /\ y.knows = {} /\ y.closes = {}
      /\ y.ft = f /\ y.was = ft[f] /\ y.twin = None
  BY OfFTFields
<1>4. Begin(t, y)
  BY <1>1 DEF lines
<1> HIDE DEF y
<1> QED BY <1>1, <1>2, <1>3, <1>4, FTRequestBegins DEF FTKinds

LEMMA ReverseFTPreserves == ASSUME IInv, NEW t \in Txns, ReverseFT(t) PROVE IInv'
<1>1. PICK f \in Recorded, g \in FreeFTs, e \in Free, p \in Periods :
        /\ ft[f].status = "POSTED"
        /\ Begin(t, [OfFT("reverseFT", f, e, p, Negated(entry[ft[f].entry].lines)) EXCEPT !.twin = g])
  BY DEF ReverseFT
<1> DEFINE lines == Negated(entry[ft[f].entry].lines)
           z == OfFT("reverseFT", f, e, p, lines)
           y == [z EXCEPT !.twin = g]
<1>2. lines \in Lines /\ lines # <<>> /\ Sum(lines, Cash) = -ft[f].amount
  <2>1. ft[f].entry \in Made /\ Sum(entry[ft[f].entry].lines, Cash) = ft[f].amount
    BY <1>1 DEF IInv, DataInv, FTsOK
  <2>2. entry[ft[f].entry].lines \in Lines /\ entry[ft[f].entry].lines # <<>>
    BY <2>1, EntriesTyped
  <2> QED BY <2>1, <2>2, SumOfNegated
<1> HIDE DEF lines
<1>3. /\ DOMAIN z = Fields
      /\ z.kind = "reverseFT" /\ z.step = "claimFT" /\ z.new = e /\ z.target = None /\ z.at = p
      /\ z.lines = lines /\ z.todo = lines
      /\ z.rows = {} /\ z.opens = {} /\ z.knows = {} /\ z.closes = {}
      /\ z.ft = f /\ z.was = ft[f]
  BY OfFTFields
<1>4. Begin(t, y)
  BY <1>1 DEF lines
<1> HIDE DEF z
<1>5. /\ DOMAIN y = Fields
      /\ y.kind = "reverseFT" /\ y.step = "claimFT" /\ y.new = e /\ y.target = None /\ y.at = p
      /\ y.lines = lines /\ y.todo = lines
      /\ y.rows = {} /\ y.opens = {} /\ y.knows = {} /\ y.closes = {}
      /\ y.ft = f /\ y.was = ft[f] /\ y.twin = g
  BY <1>3 DEF Fields
<1> HIDE DEF y
<1> QED BY <1>1, <1>2, <1>4, <1>5, FTRequestBegins DEF FTKinds

LEMMA RequestPreserves == ASSUME IInv, NEW t \in Txns, Request(t) PROVE IInv'
BY PostPreserves, PostDraftPreserves, ReversePreserves, CloseYearPreserves, UpdateFTPreserves,
   PostFTPreserves, ReverseFTPreserves DEF Request

-----------------------------------------------------------------------------
(* Statements.                                                             *)

(* Which kinds of transaction get to a step.                               *)
LEMMA StepKinds ==
    ASSUME NEW x, Shaped(x)
    PROVE  /\ x.kind \in Kinds
           /\ x.step = "claim" => x.kind \in {"draft", "reverse"}
           /\ x.step = "claimFT" => x.kind \in FTKinds
           /\ x.step = "original" => x.kind = "reverseFT"
           /\ x.step = "resolve" => x.kind \in {"postFT", "reverseFT"}
           /\ x.step = "calendar" => x.kind \in {"post", "postFT", "reverseFT"}
           /\ x.step = "validate" => x.kind \in PlainKinds \cup {"draft"}
           /\ x.step = "number" => x.kind \in MakingKinds
           /\ x.step = "line" => x.kind \in MakingKinds \cup {"draft"}
           /\ x.step = "mark" => x.kind = "undo"
           /\ x.step \in {"claimYear", "periods", "closeOthers", "aggregate", "validateOwn", "closeLast"}
                => x.kind = "close"
<1>1. x.kind \in Kinds /\ x.step \in StepsOf(x.kind)
  BY DEF Shaped
<1>2. CASE x.kind \in PlainKinds
  BY <1>1, <1>2 DEF StepsOf, PlainKinds, MakingKinds, FTKinds
<1>3. CASE x.kind \in {"draft", "close", "updateFT"}
  BY <1>1, <1>3 DEF StepsOf, PlainKinds, MakingKinds, FTKinds
<1> QED BY <1>1, <1>2, <1>3 DEF Kinds, MakingKinds, TargetKinds, FTKinds, PlainKinds

(* A transaction x that has become y has taken the rows W, which are those *)
(* that its new step requires.                                             *)
Takes(x, y, W) ==
    /\ y.rows = x.rows \cup W
    /\ y.kind = x.kind /\ y.target = x.target /\ y.ft = x.ft
    /\ HasEntry(x) => HasEntry(y)
    /\ HasYear(x) => HasYear(y)
    /\ HasFT(x) => HasFT(y)
    /\ HasNumber(x) => HasNumber(y) /\ y.at = x.at
    /\ x.opens \cup x.closes \subseteq y.opens \cup y.closes
    /\ \A row \in W : Owns(y, row)
    /\ HasEntry(y) /\ ~HasEntry(x) => EntryRow(y.target) \in W
    /\ HasYear(y) /\ ~HasYear(x) => YearRow \in W
    /\ HasFT(y) /\ ~HasFT(x) => FTRow(y.ft) \in W
    /\ \A p \in y.opens \ x.opens : PeriodRow(p) \in W
    /\ y.step = "line" /\ y.kind # "draft" => Counter(y.at) \in y.rows

LEMMA RowsGoOn ==
    ASSUME NEW x, NEW y, NEW W, RowsKnown(x), Takes(x, y, W)
    PROVE  RowsKnown(y)
<1> USE DEF Takes
<1>1. \A row \in x.rows : Owns(y, row)
  <2> SUFFICES ASSUME NEW row \in x.rows PROVE Owns(y, row)
    OBVIOUS
  <2>1. Owns(x, row)
    BY DEF RowsKnown
  <2> QED BY <2>1 DEF Owns
<1>2. \A row \in y.rows : Owns(y, row)
  BY <1>1
<1>3. /\ HasEntry(y) => EntryRow(y.target) \in y.rows
      /\ HasYear(y) => YearRow \in y.rows
      /\ HasFT(y) => FTRow(y.ft) \in y.rows
  BY DEF RowsKnown
<1>4. \A p \in y.opens : PeriodRow(p) \in y.rows
  BY DEF RowsKnown
<1> QED BY <1>2, <1>3, <1>4 DEF RowsKnown

(* The fields that no statement but those of the close changes.            *)
Same(x, y) ==
    /\ DOMAIN y = Fields
    /\ y.lines = x.lines /\ y.kind = x.kind /\ y.new = x.new /\ y.target = x.target
    /\ y.knows = x.knows /\ y.closes = x.closes /\ y.saw = x.saw
    /\ y.ft = x.ft /\ y.was = x.was /\ y.twin = x.twin

(* What a statement makes of what its transaction knows.                   *)
LEMMA KnowsGoOn ==
    ASSUME IInv, NEW x, NEW y, NEW un,
           Knows(x, entry, ft, calendar, open, closed, settled, un), Same(x, y),
           y.step \in StepsOf(x.kind), y.todo \in Lines,
           y.step = "line" => y.todo # <<>>,
           y.step \notin {"line", "mark", "closeLast", "commit"} => y.todo = x.lines,
           RowsKnown(y),
           HasEntry(y) /\ ~HasEntry(x) /\ x.kind = "draft" => entry[x.target].status = "DRAFT",
           HasEntry(y) /\ ~HasEntry(x) /\ x.kind = "reverse" => entry[x.target].status = "POSTED",
           HasFT(y) /\ ~HasFT(x) => ft[x.ft] = x.was,
           x.kind = "draft" => y.at = x.at,
           y.opens \subseteq Periods \ calendar, y.opens = x.opens \/ x.kind \in OpeningKinds,
           y.step \in {"claimFT", "original", "calendar"} => y.opens = {} /\ y.at \in Periods,
           Validated(y) => \/ Validated(x) /\ y.at = x.at /\ y.opens = x.opens
                           \/ y.at \in open \cup y.opens,
           x.kind # "close" \/ CloseKnown(y, entry, calendar, open, closed),
           x.kind = "close" => Shaped(y)
    PROVE  Knows(y, entry, ft, calendar, open, closed, settled, un)
<1>1. Shaped(x) /\ EntryKnown(x, entry) /\ FTKnown(x, ft)
      /\ PeriodsKnown(x, calendar, open, closed, settled, un)
      /\ CloseKnown(x, entry, calendar, open, closed)
  BY DEF Knows
<1>2. open \subseteq calendar /\ settled \subseteq calendar /\ settled \cap open = {}
  BY DEF IInv, DataInv, TypesOK, YearOK
<1>3. Shaped(y)
  BY <1>1 DEF Shaped, Same
<1>4. EntryKnown(y, entry)
  BY <1>1 DEF EntryKnown, Same, TargetKinds
<1>5. FTKnown(y, ft)
  BY <1>1 DEF FTKnown, Same, HasFT
<1>6. PeriodsKnown(y, calendar, open, closed, settled, un)
  <2>1. Validated(y) => y.at \in calendar \cup y.opens
    BY <1>1, <1>2 DEF PeriodsKnown
  <2>2. Validated(y) /\ closed /\ ~un => y.at \notin settled
    BY <1>1, <1>2 DEF PeriodsKnown
  <2>3. y.kind = x.kind /\ (y.kind \notin OpeningKinds => y.opens = {})
    BY <1>1 DEF PeriodsKnown, Same
  <2> QED BY <2>1, <2>2, <2>3 DEF PeriodsKnown
<1>7. CloseKnown(y, entry, calendar, open, closed)
  BY <1>1 DEF CloseKnown, Same
<1> QED BY <1>3, <1>4, <1>5, <1>6, <1>7 DEF Knows

LEMMA ClaimPreserves == ASSUME IInv, NEW t \in Txns, Claim(t) PROVE IInv'
<1> DEFINE x == tx[t]
           next == IF x.kind = "draft" THEN "line" ELSE "validate"
           y == [x EXCEPT !.step = next, !.rows = @ \cup Wants(t)]
<1>1. /\ t \in Running /\ x.step = "claim" /\ DOMAIN x = Fields
      /\ x.kind \in {"draft", "reverse"} /\ Shaped(x) /\ RowsKnown(x)
      /\ Knows(x, entry, ft, calendar, open, closed, settled, t \in under)
      /\ PeriodsKnown(x, calendar, open, closed, settled, t \in under)
      /\ Ready(t)
  BY Known, StepKinds DEF Claim
<1>2. CASE Abort(t)
  BY <1>2, AbortPreserves
<1>3. CASE ~Abort(t)
  <2>1. /\ Becomes(t, y)
        /\ entry[x.target].status = IF x.kind = "draft" THEN "DRAFT" ELSE "POSTED"
    BY <1>3 DEF Claim
  <2>2. Wants(t) = {EntryRow(x.target)}
    BY <1>1 DEF Wants
  <2>3. /\ Same(x, y) /\ y.step = next /\ y.rows = x.rows \cup {EntryRow(x.target)}
        /\ y.todo = x.todo /\ y.at = x.at /\ y.opens = x.opens
    BY <1>1, <2>2 DEF Fields, Same
  <2> HIDE DEF y
  <2>4. /\ next \in StepsOf(x.kind) /\ x.todo = x.lines /\ x.lines # <<>> /\ x.todo \in Lines
        /\ x.kind = "draft" => next = "line"
        /\ x.kind = "reverse" => next = "validate"
    BY <1>1 DEF StepsOf, Shaped, PlainKinds
  <2> HIDE DEF next
  <2>5. /\ HasEntry(y) /\ ~HasEntry(x)
        /\ ~HasYear(x) /\ ~HasYear(y) /\ ~HasFT(x) /\ ~HasFT(y) /\ ~HasNumber(x)
        /\ Validated(y) => Validated(x)
    BY <1>1, <2>3, <2>4 DEF HasEntry, HasYear, HasFT, HasNumber, FTKinds, Validated, PlainKinds, Same
  <2>6. Owns(y, EntryRow(x.target))
    BY <2>3, <2>5 DEF Owns, Same
  <2>7. RowsKnown(y)
    <3>1. Takes(x, y, {EntryRow(x.target)})
      BY <1>1, <2>3, <2>4, <2>5, <2>6 DEF Takes, Same
    <3> QED BY <1>1, <3>1, RowsGoOn
  <2>8. Knows(y, entry, ft, calendar, open, closed, settled, t \in under)
    BY <1>1, <2>1, <2>3, <2>4, <2>5, <2>7, KnowsGoOn DEF PeriodsKnown, Same
  <2> QED BY <1>1, <2>1, <2>2, <2>3, <2>8, GoOn DEF Same
<1> QED BY <1>2, <1>3

LEMMA ClaimFTPreserves == ASSUME IInv, NEW t \in Txns, ClaimFT(t) PROVE IInv'
<1> DEFINE x == tx[t]
           next == CASE x.kind = "updateFT" -> "commit"
                     [] x.kind = "postFT" -> "calendar"
                     [] x.kind = "reverseFT" -> "original"
           y == [x EXCEPT !.rows = @ \cup Wants(t), !.step = next]
<1>1. /\ t \in Running /\ x.step = "claimFT" /\ DOMAIN x = Fields
      /\ x.kind \in FTKinds /\ Shaped(x) /\ RowsKnown(x) /\ FTKnown(x, ft)
      /\ Knows(x, entry, ft, calendar, open, closed, settled, t \in under)
      /\ PeriodsKnown(x, calendar, open, closed, settled, t \in under)
      /\ Ready(t)
  BY Known, StepKinds DEF ClaimFT
<1>2. CASE Abort(t)
  BY <1>2, AbortPreserves
<1>3. CASE ~Abort(t)
  <2>1. Becomes(t, y) /\ ft[x.ft].version = x.was.version
    BY <1>3 DEF ClaimFT, ClaimedFT
  <2>2. Wants(t) = {FTRow(x.ft)}
    BY <1>1 DEF Wants
  <2>3. /\ Same(x, y) /\ y.step = next /\ y.rows = x.rows \cup {FTRow(x.ft)}
        /\ y.todo = x.todo /\ y.at = x.at /\ y.opens = x.opens
    BY <1>1, <2>2 DEF Fields, Same
  <2> HIDE DEF y
  <2>4. /\ next \in StepsOf(x.kind) /\ x.todo = x.lines /\ x.todo \in Lines
        /\ next \in {"commit", "calendar", "original"}
        /\ (x.kind = "updateFT" <=> next = "commit")
        /\ x.opens = {} /\ (x.kind = "updateFT" \/ x.at \in Periods)
    BY <1>1 DEF StepsOf, Shaped, FTKinds, PeriodsKnown
  <2> HIDE DEF next
  <2>5. /\ HasFT(y) /\ ~HasFT(x)
        /\ ~HasYear(x) /\ ~HasYear(y) /\ ~HasEntry(x) /\ ~HasEntry(y) /\ ~HasNumber(x)
        /\ ~Validated(y)
    BY <1>1, <2>3, <2>4 DEF HasEntry, HasYear, HasFT, HasNumber, FTKinds, Validated, PlainKinds, Same
  <2>6. Owns(y, FTRow(x.ft))
    BY <2>3, <2>5 DEF Owns, Same
  <2>7. RowsKnown(y)
    <3>1. Takes(x, y, {FTRow(x.ft)})
      BY <1>1, <2>3, <2>4, <2>5, <2>6 DEF Takes, Same
    <3> QED BY <1>1, <3>1, RowsGoOn
  <2>8. ft[x.ft] = x.was /\ x.kind # "close" /\ x.kind # "draft"
    BY <1>1, <2>1 DEF FTKnown, FTKinds
  <2>9. Knows(y, entry, ft, calendar, open, closed, settled, t \in under)
    BY <1>1, <2>3, <2>4, <2>5, <2>7, <2>8, KnowsGoOn
  <2> QED BY <1>1, <2>1, <2>2, <2>3, <2>9, GoOn DEF Same
<1> QED BY <1>2, <1>3

(* A statement that takes no row, only a look.                             *)
LEMMA LookPreserves ==
    ASSUME IInv, NEW t \in Running, NEW y, Becomes(t, y),
           Knows(tx[t], entry, ft, calendar, open, closed, settled, t \in under),
           Same(tx[t], y), tx[t].kind \in PlainKinds \cup {"draft"},
           tx[t].step \in {"original", "resolve", "validate"},
           y.step \in StepsOf(tx[t].kind), y.step \in {"calendar", "validate", "claim", "number"},
           y.step = "calendar" => tx[t].step = "original" /\ y.at = tx[t].at /\ tx[t].kind # "updateFT",
           y.todo = tx[t].todo, y.rows = tx[t].rows, y.opens = tx[t].opens,
           tx[t].kind = "draft" => y.at = tx[t].at,
           tx[t].kind \in FTKinds => HasFT(y),
           tx[t].kind = "reverse" => y.step # "claim",
           y.step \in {"claim", "number"} => y.at \in open \cup y.opens
    PROVE  IInv'
<1> DEFINE x == tx[t]
<1>1. /\ Shaped(x) /\ RowsKnown(x) /\ PeriodsKnown(x, calendar, open, closed, settled, t \in under)
      /\ x.kind # "close" /\ x.todo = x.lines /\ x.todo \in Lines
  BY DEF Knows, Shaped, PlainKinds
<1>2. /\ HasEntry(x) <=> HasEntry(y)
      /\ ~HasYear(x) /\ ~HasYear(y) /\ (HasFT(x) <=> HasFT(y)) /\ ~HasNumber(x) /\ ~HasNumber(y)
      /\ Validated(y) => y.at \in open \cup y.opens
      /\ y.step = "calendar" => y.opens = {} /\ y.at \in Periods
  BY <1>1 DEF HasEntry, HasYear, HasFT, HasNumber, FTKinds, Validated, PlainKinds, Same, PeriodsKnown
<1> HIDE DEF x
<1>3. RowsKnown(y)
  <2>1. y.rows = x.rows \cup {} /\ \A row \in {} : Owns(y, row)
    BY DEF x
  <2>2. x.opens \cup x.closes \subseteq y.opens \cup y.closes
    BY DEF Same, x
  <2>3. y.kind = x.kind /\ y.target = x.target /\ y.ft = x.ft /\ y.step # "line" /\ y.opens = x.opens
    BY DEF Same, x
  <2>4. Takes(x, y, {})
    BY <1>2, <2>1, <2>2, <2>3 DEF Takes
  <2> QED BY <1>1, <2>4, RowsGoOn
<1>4. Knows(y, entry, ft, calendar, open, closed, settled, t \in under)
  <2>1. y.opens \subseteq Periods \ calendar /\ y.step \notin {"claimFT", "original", "line"}
        /\ (y.step \in {"claimFT", "original", "calendar"} => y.opens = {} /\ y.at \in Periods)
    BY <1>1, <1>2 DEF PeriodsKnown, x
  <2>2. /\ Knows(x, entry, ft, calendar, open, closed, settled, t \in under) /\ Same(x, y)
        /\ y.step \in StepsOf(x.kind) /\ y.todo = x.todo /\ (x.kind = "draft" => y.at = x.at)
        /\ y.opens = x.opens
    BY DEF x
  <2> QED BY <1>1, <1>2, <1>3, <2>1, <2>2, KnowsGoOn
<1> QED BY <1>4, GoOn DEF Same

LEMMA ReadOriginalPreserves == ASSUME IInv, NEW t \in Txns, ReadOriginal(t) PROVE IInv'
<1> DEFINE x == tx[t]
           y == [x EXCEPT !.step = "calendar"]
<1>1. /\ t \in Running /\ x.step = "original" /\ DOMAIN x = Fields /\ x.kind = "reverseFT"
      /\ Knows(x, entry, ft, calendar, open, closed, settled, t \in under)
  BY Known, StepKinds DEF ReadOriginal
<1>2. CASE Abort(t)
  BY <1>2, AbortPreserves
<1>3. CASE ~Abort(t)
  <2>1. Becomes(t, y)
    BY <1>3 DEF ReadOriginal
  <2>2. /\ Same(x, y) /\ y.step = "calendar" /\ y.rows = x.rows
        /\ y.todo = x.todo /\ y.at = x.at /\ y.opens = x.opens
    BY <1>1 DEF Fields, Same
  <2> HIDE DEF y
  <2>3. "calendar" \in StepsOf(x.kind) /\ HasFT(y) /\ x.kind \in PlainKinds
    BY <1>1, <2>2 DEF StepsOf, HasFT, FTKinds, PlainKinds, Same
  <2> QED BY <1>1, <2>1, <2>2, <2>3, LookPreserves
<1> QED BY <1>2, <1>3

LEMMA ResolveOpenPeriodPreserves == ASSUME IInv, NEW t \in Txns, ResolveOpenPeriod(t) PROVE IInv'
<1> DEFINE x == tx[t]
<1>1. /\ t \in Running /\ x.step = "resolve" /\ DOMAIN x = Fields /\ x.kind \in {"postFT", "reverseFT"}
      /\ Knows(x, entry, ft, calendar, open, closed, settled, t \in under)
  BY Known, StepKinds DEF ResolveOpenPeriod
<1>2. CASE Abort(t)
  BY <1>2, AbortPreserves
<1>3. CASE ~Abort(t)
  <2>1. PICK p \in open \cup x.opens : Becomes(t, [x EXCEPT !.step = "validate", !.at = p])
    BY <1>3 DEF ResolveOpenPeriod
  <2> DEFINE y == [x EXCEPT !.step = "validate", !.at = p]
  <2>2. /\ Same(x, y) /\ y.step = "validate" /\ y.rows = x.rows
        /\ y.todo = x.todo /\ y.opens = x.opens
    BY <1>1 DEF Fields, Same
  <2>3. Becomes(t, y)
    BY <2>1
  <2> HIDE DEF y
  <2>4. "validate" \in StepsOf(x.kind) /\ HasFT(y) /\ x.kind \in PlainKinds
    BY <1>1, <2>2 DEF StepsOf, HasFT, FTKinds, PlainKinds, Same
  <2> QED BY <1>1, <2>2, <2>3, <2>4, LookPreserves
<1> QED BY <1>2, <1>3

LEMMA ValidatePreserves == ASSUME IInv, NEW t \in Txns, Validate(t) PROVE IInv'
<1> DEFINE x == tx[t]
           next == AfterValidate(t)
           y == [x EXCEPT !.step = next]
<1>1. /\ t \in Running /\ x.step = "validate" /\ DOMAIN x = Fields
      /\ x.kind \in PlainKinds \cup {"draft"}
      /\ Knows(x, entry, ft, calendar, open, closed, settled, t \in under)
  BY Known, StepKinds DEF Validate
<1>2. CASE Abort(t)
  BY <1>2, AbortPreserves
<1>3. CASE ~Abort(t)
  <2>1. Becomes(t, y) /\ x.at \in open \cup x.opens
    BY <1>3 DEF Validate
  <2>2. /\ Same(x, y) /\ y.step = next /\ y.rows = x.rows
        /\ y.todo = x.todo /\ y.at = x.at /\ y.opens = x.opens
    BY <1>1 DEF Fields, Same
  <2> HIDE DEF y
  <2>3. /\ next \in StepsOf(x.kind) /\ next \in {"claim", "number"}
        /\ (x.kind # "draft" => next = "number")
    BY <1>1 DEF StepsOf, AfterValidate, PlainKinds
  <2> HIDE DEF next
  <2>4. x.kind \in FTKinds => HasFT(y)
    BY <2>2, <2>3 DEF HasFT, FTKinds, Same
  <2> QED BY <1>1, <2>1, <2>2, <2>3, <2>4, LookPreserves
<1> QED BY <1>2, <1>3

LEMMA EnsureCalendarPreserves == ASSUME IInv, NEW t \in Txns, EnsureCalendar(t) PROVE IInv'
<1> DEFINE x == tx[t]
           next == IF x.kind = "post" THEN "validate" ELSE "resolve"
           opens == {x.at} \ calendar
           y == [x EXCEPT !.step = next, !.opens = opens, !.rows = @ \cup Wants(t)]
<1>1. /\ t \in Running /\ x.step = "calendar" /\ DOMAIN x = Fields
      /\ x.kind \in {"post", "postFT", "reverseFT"} /\ Shaped(x) /\ RowsKnown(x)
      /\ Knows(x, entry, ft, calendar, open, closed, settled, t \in under)
      /\ PeriodsKnown(x, calendar, open, closed, settled, t \in under)
      /\ Ready(t)
  BY Known, StepKinds DEF EnsureCalendar
<1>2. CASE Abort(t)
  BY <1>2, AbortPreserves
<1>3. CASE ~Abort(t)
  <2>1. Becomes(t, y)
    BY <1>3 DEF EnsureCalendar
  <2>2. Wants(t) = {PeriodRow(p) : p \in opens}
    <3>1. Wants(t) = {PeriodRow(x.at)} \ {PeriodRow(p) : p \in calendar}
      BY <1>1 DEF Wants
    <3>2. CASE x.at \in calendar
      BY <3>1, <3>2
    <3>3. CASE x.at \notin calendar
      BY <3>1, <3>3, RowsDiffer
    <3> QED BY <3>2, <3>3
  <2> DEFINE W == Wants(t)
  <2>3. /\ Same(x, y) /\ y.step = next /\ y.rows = x.rows \cup W
        /\ y.todo = x.todo /\ y.at = x.at /\ y.opens = opens
    BY <1>1 DEF Fields, Same
  <2> HIDE DEF y, W
  <2>4. /\ next \in StepsOf(x.kind) /\ x.todo = x.lines /\ x.todo \in Lines
        /\ next \in {"validate", "resolve"}
        /\ x.opens = {} /\ opens \subseteq Periods \ calendar
    BY <1>1 DEF StepsOf, Shaped, FTKinds, PeriodsKnown
  <2> HIDE DEF next, opens
  <2>5. /\ HasFT(y) <=> HasFT(x)
        /\ ~HasYear(x) /\ ~HasYear(y) /\ ~HasEntry(x) /\ ~HasEntry(y) /\ ~HasNumber(x)
        /\ ~Validated(y)
    BY <1>1, <2>3, <2>4 DEF HasEntry, HasYear, HasFT, HasNumber, FTKinds, Validated, PlainKinds, Same
  <2>6. \A row \in W : Owns(y, row)
    BY <2>2, <2>3 DEF Owns, W
  <2>7. \A p \in opens : PeriodRow(p) \in W
    BY <2>2 DEF W
  <2>8. RowsKnown(y)
    <3>1. Takes(x, y, W)
      BY <1>1, <2>3, <2>4, <2>5, <2>6, <2>7 DEF Takes, Same
    <3> QED BY <1>1, <3>1, RowsGoOn
  <2>9. Knows(y, entry, ft, calendar, open, closed, settled, t \in under)
    BY <1>1, <2>3, <2>4, <2>5, <2>8, KnowsGoOn DEF OpeningKinds
  <2> QED BY <1>1, <2>1, <2>3, <2>9, GoOn DEF Same, W
<1> QED BY <1>2, <1>3

(* What a transaction that may post posts to is a period.                  *)
LEMMA PostsToPeriod ==
    ASSUME IInv, NEW x, NEW un, PeriodsKnown(x, calendar, open, closed, settled, un), Validated(x)
    PROVE  x.at \in Periods
BY DEF PeriodsKnown, IInv, DataInv, TypesOK

LEMMA TakeNumberPreserves == ASSUME IInv, NEW t \in Txns, TakeNumber(t) PROVE IInv'
<1> DEFINE x == tx[t]
           y == [x EXCEPT !.step = "line", !.rows = @ \cup Wants(t)]
<1>1. /\ t \in Running /\ x.step = "number" /\ DOMAIN x = Fields
      /\ x.kind \in MakingKinds /\ Shaped(x) /\ RowsKnown(x)
      /\ Knows(x, entry, ft, calendar, open, closed, settled, t \in under)
      /\ PeriodsKnown(x, calendar, open, closed, settled, t \in under)
      /\ CloseKnown(x, entry, calendar, open, closed)
      /\ Ready(t) /\ Becomes(t, y)
  BY Known, StepKinds DEF TakeNumber
<1>2. Wants(t) = {Counter(x.at)}
  BY <1>1 DEF Wants
<1>3. /\ Same(x, y) /\ y.step = "line" /\ y.rows = x.rows \cup {Counter(x.at)}
      /\ y.todo = x.todo /\ y.at = x.at /\ y.opens = x.opens
  BY <1>1, <1>2 DEF Fields, Same
<1> HIDE DEF y
<1>4. /\ "line" \in StepsOf(x.kind) /\ x.todo = x.lines /\ x.todo \in Lines /\ x.lines # <<>>
      /\ x.kind # "draft"
  <2>1. x.lines # <<>> /\ x.todo = x.lines /\ x.todo \in Lines
    BY <1>1 DEF Shaped, MakingKinds
  <2>2. "line" \in StepsOf(x.kind) /\ x.kind # "draft"
    BY <1>1 DEF StepsOf, MakingKinds, PlainKinds
  <2> QED BY <2>1, <2>2
<1>5. /\ HasFT(x) <=> HasFT(y)
      /\ HasYear(x) <=> HasYear(y)
      /\ HasEntry(x) <=> HasEntry(y)
      /\ ~HasNumber(x) /\ HasNumber(y) /\ Validated(x)
  BY <1>1, <1>3 DEF HasEntry, HasYear, HasFT, HasNumber, FTKinds, Validated, PlainKinds, MakingKinds, Same
<1>6. Owns(y, Counter(x.at))
  BY <1>3, <1>5 DEF Owns
<1>7. RowsKnown(y)
  <2>1. Takes(x, y, {Counter(x.at)})
    BY <1>1, <1>3, <1>4, <1>5, <1>6 DEF Takes, Same
  <2> QED BY <1>1, <2>1, RowsGoOn
<1>8. x.kind = "close" => Shaped(y)
  BY <1>1, <1>3, <1>4 DEF Shaped, Same, PlainKinds
<1>9. x.kind = "close" => CloseKnown(y, entry, calendar, open, closed)
  BY <1>1, <1>3, <1>5 DEF CloseKnown, Same
<1>10. Knows(y, entry, ft, calendar, open, closed, settled, t \in under)
  BY <1>1, <1>3, <1>4, <1>5, <1>7, <1>8, <1>9, KnowsGoOn DEF PeriodsKnown
<1> QED BY <1>1, <1>2, <1>3, <1>10, GoOn DEF Same

LEMMA UpdateBalancePreserves == ASSUME IInv, NEW t \in Txns, UpdateBalance(t) PROVE IInv'
<1> DEFINE x == tx[t]
           next == IF Len(x.todo) = 1 THEN AfterLines(t) ELSE "line"
           row == Snapshot(Head(x.todo)[1], x.at)
           y == [x EXCEPT !.rows = @ \cup Wants(t), !.todo = Tail(@), !.step = next]
<1>1. /\ t \in Running /\ x.step = "line" /\ DOMAIN x = Fields
      /\ x.kind \in MakingKinds \cup {"draft"} /\ Shaped(x) /\ RowsKnown(x)
      /\ Knows(x, entry, ft, calendar, open, closed, settled, t \in under)
      /\ PeriodsKnown(x, calendar, open, closed, settled, t \in under)
      /\ CloseKnown(x, entry, calendar, open, closed)
      /\ Ready(t) /\ Becomes(t, y)
  BY Known, StepKinds DEF UpdateBalance
<1>2. Wants(t) = {row}
  BY <1>1 DEF Wants
<1>3. /\ Same(x, y) /\ y.step = next /\ y.rows = x.rows \cup {row}
      /\ y.todo = Tail(x.todo) /\ y.at = x.at /\ y.opens = x.opens
  BY <1>1, <1>2 DEF Fields, Same
<1> HIDE DEF y
<1>4. /\ Tail(x.todo) \in Lines /\ Head(x.todo)[1] \in Accounts
      /\ (Len(x.todo) # 1 => Tail(x.todo) # <<>>)
  <2>1. x.todo \in Seq(Accounts \X Int) /\ x.todo # <<>>
    BY <1>1 DEF Shaped, Lines
  <2>2. Head(x.todo) \in Accounts \X Int /\ Tail(x.todo) \in Seq(Accounts \X Int)
        /\ Len(x.todo) \in Nat /\ Len(x.todo) > 0 /\ Len(Tail(x.todo)) = Len(x.todo) - 1
    BY <2>1
  <2>3. Head(x.todo)[1] \in Accounts
    BY <2>2
  <2>4. Len(x.todo) # 1 => Tail(x.todo) # <<>>
    <3>1. Len(x.todo) # 1 => Len(Tail(x.todo)) # 0
      BY <2>2
    <3>2. Len(<<>>) = 0
      OBVIOUS
    <3> QED BY <3>1, <3>2
  <2> QED BY <2>2, <2>3, <2>4 DEF Lines
<1>5. /\ next = "line" => Len(x.todo) # 1
      /\ next \in StepsOf(x.kind)
      /\ next = "line" \/ next = (CASE x.kind = "undo" -> "mark" [] x.kind = "close" -> "closeLast" [] OTHER -> "commit")
  BY <1>1 DEF AfterLines, StepsOf, MakingKinds, PlainKinds
<1> HIDE DEF next
<1>6. /\ next \in {"line", "mark", "closeLast", "commit"}
      /\ x.kind = "undo" => next \in {"line", "mark"}
      /\ x.kind = "close" => next \in {"line", "closeLast"}
      /\ x.lines # <<>>
  BY <1>1, <1>5 DEF Shaped, MakingKinds
<1>7. /\ HasFT(x) <=> HasFT(y)
      /\ HasYear(x) <=> HasYear(y)
      /\ HasEntry(x) <=> HasEntry(y)
      /\ HasNumber(x) /\ HasNumber(y) /\ Validated(x)
  <2>1. HasNumber(x) /\ HasNumber(y)
    BY <1>1, <1>3, <1>6 DEF HasNumber
  <2>2. Validated(x)
    BY <1>1 DEF Validated, MakingKinds
  <2>3. (HasFT(x) <=> HasFT(y)) /\ (HasYear(x) <=> HasYear(y))
    BY <1>1, <1>3, <1>6 DEF HasYear, HasFT, Same
  <2>4. HasEntry(x) <=> HasEntry(y)
    <3>1. CASE x.kind \in {"reverse", "draft"}
      <4>1. x.kind = "draft" => next \in {"line", "commit"}
        BY <1>5
      <4> QED BY <1>1, <1>3, <1>6, <3>1, <4>1 DEF HasEntry, Same
    <3>2. CASE x.kind \notin {"reverse", "draft"}
      BY <1>1, <1>3, <1>6, <3>2 DEF HasEntry, Same
    <3> QED BY <3>1, <3>2
  <2> QED BY <2>1, <2>2, <2>3, <2>4
<1>8. x.kind # "draft" => Counter(x.at) \in x.rows
  BY <1>1 DEF RowsKnown
<1>9. Owns(y, row)
  BY <1>3, <1>4, <1>7, <1>8 DEF Owns, Same
<1> HIDE DEF row
<1>10. RowsKnown(y)
  <2>1. Takes(x, y, {row})
    BY <1>1, <1>3, <1>7, <1>8, <1>9 DEF Takes, Same
  <2> QED BY <1>1, <2>1, RowsGoOn
<1>11. y.step = "line" => y.todo # <<>>
  BY <1>3, <1>4, <1>5
<1>12. x.kind = "close" => Shaped(y)
  BY <1>1, <1>3, <1>4, <1>5, <1>6, <1>11 DEF Shaped, Same, PlainKinds
<1>13. x.kind = "close" => CloseKnown(y, entry, calendar, open, closed)
  <2>1. x.at # None
    BY <1>1, <1>7, PostsToPeriod, LedgerAssumption
  <2> QED BY <1>1, <1>3, <1>6, <1>7, <2>1 DEF CloseKnown, Same
<1>14. Knows(y, entry, ft, calendar, open, closed, settled, t \in under)
  BY <1>1, <1>3, <1>4, <1>5, <1>6, <1>7, <1>10, <1>11, <1>12, <1>13, KnowsGoOn DEF PeriodsKnown
<1> QED BY <1>1, <1>2, <1>3, <1>14, GoOn DEF Same

LEMMA MarkReversedPreserves == ASSUME IInv, NEW t \in Txns, MarkReversed(t) PROVE IInv'
<1> DEFINE x == tx[t]
           y == [x EXCEPT !.step = "commit", !.rows = @ \cup Wants(t)]
<1>1. /\ t \in Running /\ x.step = "mark" /\ DOMAIN x = Fields
      /\ x.kind = "undo" /\ Shaped(x) /\ RowsKnown(x)
      /\ Knows(x, entry, ft, calendar, open, closed, settled, t \in under)
      /\ PeriodsKnown(x, calendar, open, closed, settled, t \in under)
      /\ Ready(t) /\ Becomes(t, y)
  BY Known, StepKinds DEF MarkReversed
<1>2. Wants(t) = {EntryRow(x.target)}
  BY <1>1 DEF Wants
<1>3. /\ Same(x, y) /\ y.step = "commit" /\ y.rows = x.rows \cup {EntryRow(x.target)}
      /\ y.todo = x.todo /\ y.at = x.at /\ y.opens = x.opens
  BY <1>1, <1>2 DEF Fields, Same
<1> HIDE DEF y
<1>4. "commit" \in StepsOf(x.kind) /\ x.todo \in Lines
  BY <1>1 DEF StepsOf, Shaped
<1>5. /\ ~HasFT(x) /\ ~HasFT(y) /\ ~HasYear(x) /\ ~HasYear(y)
      /\ ~HasEntry(x) /\ HasEntry(y)
      /\ HasNumber(x) /\ HasNumber(y) /\ Validated(x)
  BY <1>1, <1>3 DEF HasEntry, HasYear, HasFT, HasNumber, FTKinds, Validated, PlainKinds, Same
<1>6. Owns(y, EntryRow(x.target))
  BY <1>3, <1>5 DEF Owns, Same
<1>7. RowsKnown(y)
  <2>1. Takes(x, y, {EntryRow(x.target)})
    BY <1>1, <1>3, <1>5, <1>6 DEF Takes, Same
  <2> QED BY <1>1, <2>1, RowsGoOn
<1>8. Knows(y, entry, ft, calendar, open, closed, settled, t \in under)
  BY <1>1, <1>3, <1>4, <1>5, <1>7, KnowsGoOn DEF PeriodsKnown
<1> QED BY <1>1, <1>2, <1>3, <1>8, GoOn DEF Same

(* The close of the year: a statement at a time.                           *)
OfClose(x, y) ==
    /\ DOMAIN y = Fields /\ x.kind = "close"
    /\ y.kind = x.kind /\ y.new = x.new /\ y.target = x.target
    /\ y.ft = x.ft /\ y.was = x.was /\ y.twin = x.twin /\ y.opens = x.opens

LEMMA CloseGoesOn ==
    ASSUME IInv, NEW x, NEW y, NEW un,
           Knows(x, entry, ft, calendar, open, closed, settled, un), OfClose(x, y),
           Shaped(y), RowsKnown(y), CloseKnown(y, entry, calendar, open, closed),
           Validated(y) => (Validated(x) /\ y.at = x.at) \/ y.at \in open
    PROVE  Knows(y, entry, ft, calendar, open, closed, settled, un)
<1>1. EntryKnown(x, entry) /\ FTKnown(x, ft)
      /\ PeriodsKnown(x, calendar, open, closed, settled, un)
      /\ CloseKnown(x, entry, calendar, open, closed)
  BY DEF Knows
<1>2. open \subseteq calendar /\ settled \cap open = {}
  BY DEF IInv, DataInv, TypesOK, YearOK
<1>3. EntryKnown(y, entry)
  BY <1>1 DEF EntryKnown, OfClose, TargetKinds
<1>4. FTKnown(y, ft)
  BY <1>1 DEF FTKnown, OfClose, FTKinds
<1>5. y.opens = {} /\ y.step \notin {"claimFT", "original", "calendar"}
  BY <1>1 DEF CloseKnown, OfClose, Shaped, StepsOf
<1>6. PeriodsKnown(y, calendar, open, closed, settled, un)
  <2>1. Validated(y) => y.at \in calendar \cup y.opens
    BY <1>1, <1>2 DEF PeriodsKnown, OfClose
  <2>2. Validated(y) /\ closed /\ ~un => y.at \notin settled
    BY <1>1, <1>2 DEF PeriodsKnown
  <2> QED BY <1>5, <2>1, <2>2 DEF PeriodsKnown
<1> QED BY <1>3, <1>4, <1>6 DEF Knows

LEMMA KnownClose ==
    ASSUME IInv, NEW t \in Txns, NEW step, At(t, step),
           step \in {"claimYear", "periods", "closeOthers", "aggregate", "validateOwn", "closeLast"}
    PROVE  /\ t \in Running /\ tx[t].step = step /\ tx[t].kind = "close" /\ DOMAIN tx[t] = Fields
           /\ Knows(tx[t], entry, ft, calendar, open, closed, settled, t \in under)
           /\ Shaped(tx[t]) /\ RowsKnown(tx[t])
           /\ CloseKnown(tx[t], entry, calendar, open, closed)
           /\ tx[t].opens = {} /\ ~HasEntry(tx[t]) /\ ~HasFT(tx[t])
<1>1. /\ t \in Running /\ tx[t].step = step /\ tx[t].kind = "close" /\ DOMAIN tx[t] = Fields
      /\ Knows(tx[t], entry, ft, calendar, open, closed, settled, t \in under)
      /\ Shaped(tx[t]) /\ RowsKnown(tx[t])
      /\ CloseKnown(tx[t], entry, calendar, open, closed)
  BY Known, StepKinds
<1>2. tx[t].opens = {} /\ ~HasEntry(tx[t]) /\ ~HasFT(tx[t])
  BY <1>1 DEF CloseKnown, HasEntry, HasFT, FTKinds
<1> QED BY <1>1, <1>2

LEMMA ClaimYearPreserves == ASSUME IInv, NEW t \in Txns, ClaimYear(t) PROVE IInv'
<1> DEFINE x == tx[t]
           y == [x EXCEPT !.step = "periods", !.rows = @ \cup Wants(t)]
<1>1. /\ t \in Running /\ x.step = "claimYear" /\ x.kind = "close" /\ DOMAIN x = Fields
      /\ Knows(x, entry, ft, calendar, open, closed, settled, t \in under)
      /\ Shaped(x) /\ RowsKnown(x) /\ CloseKnown(x, entry, calendar, open, closed)
      /\ x.opens = {} /\ ~HasEntry(x) /\ ~HasFT(x) /\ Ready(t)
  BY KnownClose DEF ClaimYear
<1>2. CASE Abort(t)
  BY <1>2, AbortPreserves
<1>3. CASE ~Abort(t)
  <2>1. Becomes(t, y) /\ ~closed
    BY <1>3 DEF ClaimYear
  <2>2. Wants(t) = {YearRow}
    BY <1>1 DEF Wants
  <2>3. /\ OfClose(x, y) /\ y.step = "periods" /\ y.rows = x.rows \cup {YearRow}
        /\ y.lines = x.lines /\ y.todo = x.todo /\ y.at = x.at
        /\ y.knows = x.knows /\ y.closes = x.closes
    BY <1>1, <2>2 DEF Fields, OfClose
  <2> HIDE DEF y
  <2>4. Shaped(y)
    BY <1>1, <2>3 DEF Shaped, OfClose, StepsOf, PlainKinds
  <2>5. /\ ~HasYear(x) /\ HasYear(y) /\ ~HasEntry(y) /\ ~HasFT(y)
        /\ ~HasNumber(x) /\ ~Validated(y)
    BY <1>1, <2>3 DEF HasEntry, HasYear, HasFT, HasNumber, FTKinds, Validated, PlainKinds, OfClose
  <2>6. RowsKnown(y)
    <3>1. Owns(y, YearRow)
      BY <2>5 DEF Owns
    <3>2. Takes(x, y, {YearRow})
      BY <1>1, <2>3, <2>5, <3>1 DEF Takes, OfClose
    <3> QED BY <1>1, <3>2, RowsGoOn
  <2>7. CloseKnown(y, entry, calendar, open, closed)
    BY <1>1, <2>1, <2>3 DEF CloseKnown, OfClose
  <2>8. Knows(y, entry, ft, calendar, open, closed, settled, t \in under)
    BY <1>1, <2>3, <2>4, <2>5, <2>6, <2>7, CloseGoesOn
  <2> QED BY <1>1, <2>1, <2>2, <2>3, <2>8, GoOn DEF OfClose
<1> QED BY <1>2, <1>3

LEMMA ReadPeriodsPreserves == ASSUME IInv, NEW t \in Txns, ReadPeriods(t) PROVE IInv'
<1> DEFINE x == tx[t]
           at == IF open = {} THEN None ELSE Max(open)
           y == [x EXCEPT !.step = "closeOthers", !.knows = calendar, !.closes = open, !.at = at]
<1>1. /\ t \in Running /\ x.step = "periods" /\ x.kind = "close" /\ DOMAIN x = Fields
      /\ Knows(x, entry, ft, calendar, open, closed, settled, t \in under)
      /\ Shaped(x) /\ RowsKnown(x) /\ CloseKnown(x, entry, calendar, open, closed)
      /\ x.opens = {} /\ ~HasEntry(x) /\ ~HasFT(x) /\ Becomes(t, y)
  BY KnownClose DEF ReadPeriods
<1>2. at \in open \cup {None}
  <2>1. open \subseteq Periods /\ open \subseteq Nat /\ IsFiniteSet(open)
    BY LedgerAssumption, FS_Subset DEF IInv, DataInv, TypesOK
  <2> QED BY <2>1, Extremes
<1> HIDE DEF at
<1>3. /\ OfClose(x, y) /\ y.step = "closeOthers" /\ y.rows = x.rows
      /\ y.lines = x.lines /\ y.todo = x.todo /\ y.at = at
      /\ y.knows = calendar /\ y.closes = open
  BY <1>1 DEF Fields, OfClose
<1> HIDE DEF y
<1>4. Shaped(y)
  BY <1>1, <1>3 DEF Shaped, OfClose, StepsOf, PlainKinds
<1>5. /\ HasYear(x) /\ HasYear(y) /\ ~HasEntry(y) /\ ~HasFT(y)
      /\ ~HasNumber(x) /\ ~Validated(y) /\ x.closes = {} /\ ~closed
  BY <1>1, <1>3 DEF HasEntry, HasYear, HasFT, HasNumber, FTKinds, Validated, PlainKinds, OfClose, CloseKnown
<1>6. RowsKnown(y)
  <2>1. Takes(x, y, {})
    BY <1>1, <1>3, <1>5 DEF Takes, OfClose
  <2> QED BY <1>1, <2>1, RowsGoOn
<1>7. CloseKnown(y, entry, calendar, open, closed)
  <2>1. open \subseteq calendar
    BY DEF IInv, DataInv, TypesOK
  <2> QED BY <1>1, <1>2, <1>3, <1>5, <2>1 DEF CloseKnown, OfClose
<1>8. Knows(y, entry, ft, calendar, open, closed, settled, t \in under)
  BY <1>1, <1>3, <1>4, <1>5, <1>6, <1>7, CloseGoesOn
<1> QED BY <1>1, <1>3, <1>8, GoOn DEF OfClose

LEMMA CloseOthersPreserves == ASSUME IInv, NEW t \in Txns, CloseOthers(t) PROVE IInv'
<1> DEFINE x == tx[t]
           y == [x EXCEPT !.step = "aggregate", !.rows = @ \cup Wants(t)]
           W == {PeriodRow(p) : p \in x.closes \ {x.at}}
<1>1. /\ t \in Running /\ x.step = "closeOthers" /\ x.kind = "close" /\ DOMAIN x = Fields
      /\ Knows(x, entry, ft, calendar, open, closed, settled, t \in under)
      /\ Shaped(x) /\ RowsKnown(x) /\ CloseKnown(x, entry, calendar, open, closed)
      /\ x.opens = {} /\ ~HasEntry(x) /\ ~HasFT(x) /\ Ready(t)
  BY KnownClose DEF CloseOthers
<1>2. CASE Abort(t)
  BY <1>2, AbortPreserves
<1>3. CASE ~Abort(t)
  <2>1. Becomes(t, y)
    BY <1>3 DEF CloseOthers
  <2>2. Wants(t) = W
    BY <1>1 DEF Wants
  <2>3. /\ OfClose(x, y) /\ y.step = "aggregate" /\ y.rows = x.rows \cup W
        /\ y.lines = x.lines /\ y.todo = x.todo /\ y.at = x.at
        /\ y.knows = x.knows /\ y.closes = x.closes
    BY <1>1, <2>2 DEF Fields, OfClose
  <2>4. /\ \A row \in W : \E p \in x.closes : row = PeriodRow(p)
        /\ \A p \in x.closes \ {x.at} : PeriodRow(p) \in W
    OBVIOUS
  <2> HIDE DEF y, W
  <2>5. Shaped(y)
    BY <1>1, <2>3 DEF Shaped, OfClose, StepsOf, PlainKinds
  <2>6. /\ HasYear(x) /\ HasYear(y) /\ ~HasEntry(y) /\ ~HasFT(y)
        /\ ~HasNumber(x) /\ ~Validated(y)
    BY <1>1, <2>3 DEF HasEntry, HasYear, HasFT, HasNumber, FTKinds, Validated, PlainKinds, OfClose
  <2>7. RowsKnown(y)
    <3>1. \A row \in W : Owns(y, row)
      BY <2>3, <2>4 DEF Owns
    <3>2. Takes(x, y, W)
      BY <1>1, <2>3, <2>6, <3>1 DEF Takes, OfClose
    <3> QED BY <1>1, <3>2, RowsGoOn
  <2>8. CloseKnown(y, entry, calendar, open, closed)
    BY <1>1, <2>3, <2>4, <2>6 DEF CloseKnown, OfClose
  <2>9. Knows(y, entry, ft, calendar, open, closed, settled, t \in under)
    BY <1>1, <2>3, <2>5, <2>6, <2>7, <2>8, CloseGoesOn
  <2> QED BY <1>1, <2>1, <2>2, <2>3, <2>9, GoOn DEF OfClose
<1> QED BY <1>2, <1>3

LEMMA AggregatePreserves == ASSUME IInv, NEW t \in Txns, Aggregate(t) PROVE IInv'
<1> DEFINE x == tx[t]
           saw == {e \in Posted : entry[e].at \in x.knows}
           lines == ClosingLines(t)
           next == CASE lines # <<>> -> "validateOwn"
                     [] lines = <<>> /\ x.at # None -> "closeLast"
                     [] OTHER -> "commit"
           y == [x EXCEPT !.saw = saw, !.lines = lines, !.todo = lines, !.step = next]
<1>1. /\ t \in Running /\ x.step = "aggregate" /\ x.kind = "close" /\ DOMAIN x = Fields
      /\ Knows(x, entry, ft, calendar, open, closed, settled, t \in under)
      /\ Shaped(x) /\ RowsKnown(x) /\ CloseKnown(x, entry, calendar, open, closed)
      /\ x.opens = {} /\ ~HasEntry(x) /\ ~HasFT(x)
  BY KnownClose DEF Aggregate
<1>2. CASE Abort(t)
  BY <1>2, AbortPreserves
<1>3. CASE ~Abort(t)
  <2>1. Becomes(t, y) /\ ~ (x.at = None /\ lines # <<>>)
    BY <1>3 DEF Aggregate
  <2>2. /\ lines \in Lines
        /\ \A a \in Income : Sum(lines, a) + Come(saw, entry, a) = 0
    <3>1. BalancesAgree /\ entry \in EntryTable /\ x.knows \subseteq Periods
      BY <1>1, EntriesTyped DEF IInv, DataInv, TypesOK, CloseKnown
    <3>2. \A a \in Accounts : Net(t, a) = Come(saw, entry, a) /\ Net(t, a) \in Int
      BY <3>1, NetIsEntries
    <3> HIDE DEF x, saw, lines
    <3>3. lines \in Lines /\ \A a \in Income : Sum(lines, a) = -Net(t, a)
      BY <3>2, ClosingTakesAll DEF lines
    <3>4. Income \subseteq Accounts
      BY DEF Income, Accounts
    <3> QED BY <3>2, <3>3, <3>4
  <2>3. saw \subseteq {e \in Entries : Isnt(e, "DRAFT", entry)}
    BY DEF Posted, Made, Isnt
  <2> HIDE DEF saw, lines
  <2>4. /\ OfClose(x, y) /\ y.step = next /\ y.rows = x.rows
        /\ y.lines = lines /\ y.todo = lines /\ y.at = x.at
        /\ y.knows = x.knows /\ y.closes = x.closes /\ y.saw = saw
    BY <1>1 DEF Fields, OfClose
  <2> HIDE DEF y
  <2>5. /\ next \in {"validateOwn", "closeLast", "commit"}
        /\ next = "validateOwn" <=> lines # <<>>
        /\ next = "closeLast" => x.at # None
        /\ next = "commit" => x.at = None
    <3>1. CASE lines # <<>>
      <4>1. next = "validateOwn"
        BY <3>1
      <4> QED BY <3>1, <4>1
    <3>2. CASE lines = <<>> /\ x.at # None
      <4>1. next = "closeLast"
        BY <3>2
      <4> QED BY <3>2, <4>1
    <3>3. CASE lines = <<>> /\ x.at = None
      <4>1. next = "commit"
        BY <3>3
      <4> QED BY <3>3, <4>1
    <3> QED BY <3>1, <3>2, <3>3
  <2> HIDE DEF next
  <2>6. Shaped(y)
    BY <1>1, <2>2, <2>4, <2>5 DEF Shaped, OfClose, StepsOf, PlainKinds
  <2>7. /\ HasYear(x) /\ HasYear(y) /\ ~HasEntry(y) /\ ~HasFT(y)
        /\ ~HasNumber(x) /\ ~Validated(y)
    BY <1>1, <2>4, <2>5 DEF HasEntry, HasYear, HasFT, HasNumber, FTKinds, Validated, PlainKinds, OfClose
  <2>8. RowsKnown(y)
    <3>1. y.step # "line" /\ y.opens = x.opens /\ y.closes = x.closes /\ y.rows = x.rows \cup {}
      BY <2>4, <2>5 DEF OfClose
    <3>2. Takes(x, y, {})
      BY <1>1, <2>4, <2>7, <3>1 DEF Takes, OfClose
    <3> QED BY <1>1, <3>2, RowsGoOn
  <2>9. CloseKnown(y, entry, calendar, open, closed)
    <3>1. x.closes \subseteq Periods /\ None \notin Periods
      BY <1>1, NotNone DEF CloseKnown, IInv, DataInv, TypesOK
    <3>2. y.step = "commit" => \A p \in y.closes : PeriodRow(p) \in y.rows
      BY <1>1, <2>4, <2>5, <3>1 DEF CloseKnown
    <3> QED BY <1>1, <2>2, <2>3, <2>4, <2>5, <2>7, <3>2 DEF CloseKnown, OfClose
  <2>10. Knows(y, entry, ft, calendar, open, closed, settled, t \in under)
    BY <1>1, <2>4, <2>6, <2>7, <2>8, <2>9, CloseGoesOn
  <2> QED BY <1>1, <2>1, <2>4, <2>10, GoOn DEF OfClose
<1> QED BY <1>2, <1>3

LEMMA ValidateClosingPreserves == ASSUME IInv, NEW t \in Txns, ValidateClosing(t) PROVE IInv'
<1> DEFINE x == tx[t]
           y == [x EXCEPT !.step = "number"]
<1>1. /\ t \in Running /\ x.step = "validateOwn" /\ x.kind = "close" /\ DOMAIN x = Fields
      /\ Knows(x, entry, ft, calendar, open, closed, settled, t \in under)
      /\ Shaped(x) /\ RowsKnown(x) /\ CloseKnown(x, entry, calendar, open, closed)
      /\ x.opens = {} /\ ~HasEntry(x) /\ ~HasFT(x)
  BY KnownClose DEF ValidateClosing
<1>2. CASE Abort(t)
  BY <1>2, AbortPreserves
<1>3. CASE ~Abort(t)
  <2>1. Becomes(t, y) /\ x.at \in open
    BY <1>3 DEF ValidateClosing
  <2>2. /\ OfClose(x, y) /\ y.step = "number" /\ y.rows = x.rows
        /\ y.lines = x.lines /\ y.todo = x.todo /\ y.at = x.at
        /\ y.knows = x.knows /\ y.closes = x.closes /\ y.saw = x.saw
    BY <1>1 DEF Fields, OfClose
  <2> HIDE DEF y
  <2>3. Shaped(y)
    BY <1>1, <2>2 DEF Shaped, OfClose, StepsOf, PlainKinds
  <2>4. HasYear(x) /\ HasYear(y) /\ ~HasEntry(y) /\ ~HasFT(y) /\ ~HasNumber(x)
    BY <1>1, <2>2 DEF HasEntry, HasYear, HasFT, HasNumber, FTKinds, OfClose
  <2>5. RowsKnown(y)
    <3>1. y.rows = x.rows \cup {}
      BY <2>2
    <3>2. Takes(x, y, {})
      BY <1>1, <2>2, <2>4, <3>1 DEF Takes, OfClose
    <3> QED BY <1>1, <3>2, RowsGoOn
  <2>6. CloseKnown(y, entry, calendar, open, closed)
    BY <1>1, <2>2, <2>4 DEF CloseKnown, OfClose
  <2>7. Knows(y, entry, ft, calendar, open, closed, settled, t \in under)
    BY <1>1, <2>1, <2>2, <2>3, <2>5, <2>6, CloseGoesOn
  <2> QED BY <1>1, <2>1, <2>2, <2>7, GoOn DEF OfClose
<1> QED BY <1>2, <1>3

LEMMA CloseLastPreserves == ASSUME IInv, NEW t \in Txns, CloseLast(t) PROVE IInv'
<1> DEFINE x == tx[t]
           y == [x EXCEPT !.step = "commit", !.rows = @ \cup Wants(t)]
<1>1. /\ t \in Running /\ x.step = "closeLast" /\ x.kind = "close" /\ DOMAIN x = Fields
      /\ Knows(x, entry, ft, calendar, open, closed, settled, t \in under)
      /\ Shaped(x) /\ RowsKnown(x) /\ CloseKnown(x, entry, calendar, open, closed)
      /\ x.opens = {} /\ ~HasEntry(x) /\ ~HasFT(x) /\ Ready(t)
  BY KnownClose DEF CloseLast
<1>2. CASE Abort(t)
  BY <1>2, AbortPreserves
<1>3. CASE ~Abort(t)
  <2>1. Becomes(t, y)
    BY <1>3 DEF CloseLast
  <2>2. Wants(t) = {PeriodRow(x.at)} /\ x.at \in x.closes
    BY <1>1 DEF Wants, CloseKnown
  <2>3. /\ OfClose(x, y) /\ y.step = "commit" /\ y.rows = x.rows \cup {PeriodRow(x.at)}
        /\ y.lines = x.lines /\ y.todo = x.todo /\ y.at = x.at
        /\ y.knows = x.knows /\ y.closes = x.closes /\ y.saw = x.saw
    BY <1>1, <2>2 DEF Fields, OfClose
  <2> HIDE DEF y
  <2>4. Shaped(y)
    BY <1>1, <2>3 DEF Shaped, OfClose, StepsOf, PlainKinds
  <2>5. /\ HasYear(x) /\ HasYear(y) /\ ~HasEntry(y) /\ ~HasFT(y)
        /\ HasNumber(x) /\ HasNumber(y) /\ (Validated(y) => Validated(x))
    BY <1>1, <2>3 DEF HasEntry, HasYear, HasFT, HasNumber, FTKinds, Validated, PlainKinds, OfClose
  <2>6. RowsKnown(y)
    <3>1. Owns(y, PeriodRow(x.at))
      BY <2>2, <2>3 DEF Owns
    <3>2. Takes(x, y, {PeriodRow(x.at)})
      BY <1>1, <2>3, <2>5, <3>1 DEF Takes, OfClose
    <3> QED BY <1>1, <3>2, RowsGoOn
  <2>7. CloseKnown(y, entry, calendar, open, closed)
    BY <1>1, <2>3, <2>5 DEF CloseKnown, OfClose
  <2>8. Knows(y, entry, ft, calendar, open, closed, settled, t \in under)
    BY <1>1, <2>3, <2>4, <2>5, <2>6, <2>7, CloseGoesOn
  <2> QED BY <1>1, <2>1, <2>2, <2>3, <2>8, GoOn DEF OfClose
<1> QED BY <1>2, <1>3

-----------------------------------------------------------------------------
(* The commit: what it writes.                                             *)

(* A transaction that is about to commit.                                  *)
Committing(x) ==
    /\ x.step = "commit" /\ x.kind \in Kinds /\ x.lines \in Lines
    /\ x.new \in Entries \cup {None} /\ (x.new # None <=> x.kind \in MakingKinds)
    /\ x.target \in Entries \cup {None} /\ (x.target # None <=> x.kind \in TargetKinds)
    /\ x.ft \in FTs \cup {None} /\ (x.ft # None <=> x.kind \in FTKinds)
    /\ x.twin \in FTs \cup {None} /\ (x.twin # None <=> x.kind = "reverseFT")
    /\ x.kind \in FTKinds => x.was \in FTRows
    /\ x.lines # <<>> <=> x.kind \in PlainKinds \cup {"draft"} \/ (x.kind = "close" /\ x.lines # <<>>)
    /\ x.lines # <<>> => x.at \in Periods
    /\ HasEntry(x) <=> x.kind \in TargetKinds
    /\ HasFT(x) <=> x.kind \in FTKinds
    /\ HasYear(x) <=> x.kind = "close"

LEMMA AtCommit ==
    ASSUME IInv, NEW t \in Txns, At(t, "commit")
    PROVE  Committing(tx[t])
<1> DEFINE x == tx[t]
<1>1. /\ x.step = "commit" /\ Shaped(x) /\ EntryKnown(x, entry) /\ FTKnown(x, ft)
      /\ PeriodsKnown(x, calendar, open, closed, settled, t \in under)
  BY Known
<1> HIDE DEF x
<1>2. /\ x.kind \in Kinds /\ x.lines \in Lines
      /\ x.lines # <<>> <=> x.kind \in PlainKinds \cup {"draft"} \/ (x.kind = "close" /\ x.lines # <<>>)
  BY <1>1 DEF Shaped, Kinds, MakingKinds, TargetKinds, FTKinds, PlainKinds
<1>3. /\ x.new \in Entries \cup {None} /\ (x.new # None <=> x.kind \in MakingKinds)
      /\ x.target \in Entries \cup {None} /\ (x.target # None <=> x.kind \in TargetKinds)
  BY <1>1, NotNone DEF EntryKnown
<1>4. /\ x.ft \in FTs \cup {None} /\ (x.ft # None <=> x.kind \in FTKinds)
      /\ x.twin \in FTs \cup {None} /\ (x.twin # None <=> x.kind = "reverseFT")
      /\ x.kind \in FTKinds => x.was \in FTRows
  BY <1>1, NotNone DEF FTKnown
<1>5. x.lines # <<>> => x.at \in Periods
  <2>1. x.lines # <<>> => Validated(x)
    BY <1>1, <1>2 DEF Validated
  <2> QED BY <1>1, <2>1, PostsToPeriod
<1>6. /\ HasEntry(x) <=> x.kind \in TargetKinds
      /\ HasFT(x) <=> x.kind \in FTKinds
      /\ HasYear(x) <=> x.kind = "close"
  BY <1>1 DEF HasEntry, HasFT, HasYear, TargetKinds
<1> QED BY <1>1, <1>2, <1>3, <1>4, <1>5, <1>6 DEF Committing, x

(* The entry it makes and the one it works on; the others stay.            *)
EntriesWritten(x, en, en2) ==
    /\ \A e \in Entries : e # x.new /\ e # x.target => en2[e] = en[e]
    /\ x.new # None /\ x.lines = <<>> => en2[x.new] = en[x.new]
    /\ x.new # None /\ x.lines # <<>> =>
        /\ en2[x.new] # None /\ en2[x.new].lines = x.lines /\ en2[x.new].at = x.at
        /\ en2[x.new].status = "POSTED" /\ en2[x.new].kind = x.kind
        /\ x.kind = "reverse" => en2[x.new].of = x.target
    /\ x.target # None =>
        /\ en2[x.target] # None /\ en2[x.target].lines = en[x.target].lines
        /\ en2[x.target].at = en[x.target].at /\ en2[x.target].kind = en[x.target].kind
        /\ en2[x.target].of = en[x.target].of
        /\ en2[x.target].status = IF x.kind = "draft" THEN "POSTED" ELSE "REVERSED"

LEMMA CommitWrites ==
    ASSUME IInv, NEW t \in Txns, At(t, "commit")
    PROVE  Written(t) \in EntryTable /\ EntriesWritten(tx[t], entry, Written(t))
<1> DEFINE x == tx[t]
           of == IF x.kind = "reverseFT" THEN x.was.entry ELSE x.target
           made == Entry(x.at, x.lines, "POSTED", x.kind, of)
           new == [e \in Entries |-> IF e = x.new /\ x.lines # <<>> THEN made ELSE entry[e]]
           status == IF x.kind = "draft" THEN "POSTED" ELSE "REVERSED"
           marked == [entry[x.target] EXCEPT !.status = status]
           both == [new EXCEPT ![x.target] = marked]
<1>1. Committing(x) /\ EntryKnown(x, entry)
  BY AtCommit, Known
<1>2. entry \in EntryTable
  BY EntriesTyped
<1>3. x.new # None => entry[x.new] = None
  BY <1>1 DEF EntryKnown, Committing
<1>4. x.target # None => entry[x.target] # None /\ x.target # x.new /\ entry[x.target] \in EntryRows
  <2>1. x.target # None => x.target \in Entries /\ entry[x.target] # None
    BY <1>1 DEF EntryKnown, Committing
  <2>2. x.target # None => entry[x.target] \in EntryRows
    BY <1>2, <2>1 DEF EntryTable
  <2>3. x.target # None => x.target # x.new
    BY <1>3, <2>1
  <2> QED BY <2>1, <2>2, <2>3
<1>5. Written(t) = IF x.target = None THEN new ELSE [new EXCEPT ![x.target].status = status]
  BY DEF Written
<1>6. x.lines # <<>> /\ x.new # None =>
        /\ made \in EntryRows /\ made # None
        /\ made.lines = x.lines /\ made.at = x.at /\ made.status = "POSTED" /\ made.kind = x.kind
        /\ x.kind = "reverse" => made.of = x.target
  <2> SUFFICES ASSUME x.lines # <<>>, x.new # None
               PROVE  /\ made \in EntryRows /\ made # None
                      /\ made.lines = x.lines /\ made.at = x.at /\ made.status = "POSTED" /\ made.kind = x.kind
                      /\ x.kind = "reverse" => made.of = x.target
    OBVIOUS
  <2>1. of \in Entries \cup {None}
    BY <1>1 DEF Committing, FTRows, FTKinds
  <2>2. x.kind \in {"manual", "post", "reverse", "undo", "close", "postFT", "reverseFT"}
    BY <1>1 DEF Committing, MakingKinds, PlainKinds
  <2>3. x.at \in Periods /\ x.lines \in Lines
    BY <1>1 DEF Committing
  <2>4. made \in EntryRows
    BY <2>1, <2>2, <2>3 DEF Entry, EntryRows, StatusesOf
  <2>5. made # None
    BY <2>4, NoneAssumption DEF EntryRows, StatusesOf, Lines
  <2>6. /\ made.lines = x.lines /\ made.at = x.at /\ made.status = "POSTED" /\ made.kind = x.kind
        /\ made.of = of
    BY DEF Entry
  <2> QED BY <2>4, <2>5, <2>6
<1>7. x.target # None =>
        /\ marked \in EntryRows /\ marked # None
        /\ marked.lines = entry[x.target].lines /\ marked.at = entry[x.target].at
        /\ marked.kind = entry[x.target].kind /\ marked.of = entry[x.target].of
        /\ marked.status = status
  <2> SUFFICES ASSUME x.target # None
               PROVE  /\ marked \in EntryRows /\ marked # None
                      /\ marked.lines = entry[x.target].lines /\ marked.at = entry[x.target].at
                      /\ marked.kind = entry[x.target].kind /\ marked.of = entry[x.target].of
                      /\ marked.status = status
    OBVIOUS
  <2>1. entry[x.target] \in EntryRows /\ status \in StatusesOf
    BY <1>4 DEF StatusesOf
  <2> HIDE DEF status
  <2>2. marked \in EntryRows /\ marked.status = status
        /\ marked.lines = entry[x.target].lines /\ marked.at = entry[x.target].at
        /\ marked.kind = entry[x.target].kind /\ marked.of = entry[x.target].of
    BY <2>1 DEF EntryRows
  <2>3. marked # None
    BY <2>2, NoneAssumption DEF EntryRows, StatusesOf, Lines
  <2> QED BY <2>2, <2>3
<1>8. /\ DOMAIN new = Entries
      /\ \A e \in Entries : e # x.new => new[e] = entry[e]
      /\ x.new # None => new[x.new] = IF x.lines # <<>> THEN made ELSE entry[x.new]
  BY <1>1 DEF Committing
<1> HIDE DEF made, of
<1>9. new \in EntryTable
  <2>1. ASSUME NEW e \in Entries PROVE new[e] \in EntryRows \cup {None}
    <3>1. entry[e] \in EntryRows \cup {None}
      BY <1>2 DEF EntryTable
    <3>2. e = x.new => x.new # None
      BY NotNone
    <3> QED BY <1>6, <3>1, <3>2
  <2> QED BY <2>1 DEF EntryTable
<1> HIDE DEF new
<1>10. CASE x.target = None
  <2>1. Written(t) = new
    BY <1>5, <1>10
  <2>2. EntriesWritten(x, entry, new)
    BY <1>6, <1>8, <1>10 DEF EntriesWritten
  <2> QED BY <1>9, <2>1, <2>2
<1>11. CASE x.target # None
  <2>1. x.target \in Entries /\ new[x.target] = entry[x.target]
    BY <1>1, <1>4, <1>8, <1>11 DEF Committing
  <2>2. Written(t) = both
    BY <1>5, <1>8, <1>11, <2>1
  <2> HIDE DEF marked
  <2>3. /\ DOMAIN both = Entries /\ both[x.target] = marked
        /\ \A e \in Entries : e # x.target => both[e] = new[e]
    BY <1>8, <2>1
  <2>4. both \in EntryTable
    BY <1>7, <1>9, <1>11, <2>1 DEF EntryTable
  <2> HIDE DEF both
  <2>5. EntriesWritten(x, entry, both)
    <3>1. \A e \in Entries : e # x.new /\ e # x.target => both[e] = entry[e]
      BY <1>8, <2>3
    <3>2. x.new # None => both[x.new] = IF x.lines # <<>> THEN made ELSE entry[x.new]
      BY <1>1, <1>4, <1>8, <1>11, <2>3 DEF Committing
    <3>3. /\ both[x.target] # None /\ both[x.target].lines = entry[x.target].lines
          /\ both[x.target].at = entry[x.target].at /\ both[x.target].kind = entry[x.target].kind
          /\ both[x.target].of = entry[x.target].of
          /\ both[x.target].status = IF x.kind = "draft" THEN "POSTED" ELSE "REVERSED"
      BY <1>7, <1>11, <2>3
    <3> HIDE DEF x
    <3> QED BY <1>6, <3>1, <3>2, <3>3 DEF EntriesWritten
  <2> QED BY <2>2, <2>4, <2>5
<1> QED BY <1>10, <1>11

(* What it does with financial transactions.                               *)
FTsWritten(x, fs, fs2) ==
    /\ \A f \in FTs : f # x.ft /\ f # x.twin => fs2[f] = fs[f]
    /\ x.ft # None =>
        /\ fs2[x.ft] # None /\ fs2[x.ft].of = fs[x.ft].of
        /\ fs2[x.ft].version = fs[x.ft].version + 1
        /\ x.kind # "updateFT" => fs2[x.ft].amount = fs[x.ft].amount
        /\ x.kind = "updateFT" => fs2[x.ft].status = fs[x.ft].status
        /\ x.kind = "postFT" => fs2[x.ft].status = "POSTED"
        /\ x.kind = "reverseFT" => fs2[x.ft].status = "REVERSED"
        /\ fs2[x.ft].entry = IF x.kind = "postFT" THEN x.new ELSE fs[x.ft].entry
    /\ x.twin # None =>
        /\ fs2[x.twin] # None /\ fs2[x.twin].amount = -x.was.amount
        /\ fs2[x.twin].status = "POSTED" /\ fs2[x.twin].entry = x.new
        /\ fs2[x.twin].of = x.ft

LEMMA CommitWritesFTs ==
    ASSUME IInv, NEW t \in Txns, Commit(t)
    PROVE  ft' \in FTTable /\ FTsWritten(tx[t], ft, ft')
<1> DEFINE x == tx[t]
<1>1. Committing(x) /\ FTKnown(x, ft) /\ ft \in FTTable
  BY AtCommit, Known, EntriesTyped DEF Commit
<1>2. CASE x.ft = None
  <2>1. x.twin = None /\ ft' = ft
    BY <1>1, <1>2 DEF Committing, Commit, FTKinds
  <2> QED BY <1>1, <1>2, <2>1 DEF FTsWritten
<1>3. CASE x.ft # None
  <2>1. PICK n \in IF x.kind = "updateFT" THEN {1, 2} ELSE {0} : ft' = [f \in FTs |-> FTWritten(t, f, n)]
    BY <1>3 DEF Commit
  <2>2. /\ x.ft \in FTs /\ x.kind \in FTKinds /\ x.was \in FTRows /\ ft[x.ft] # None
        /\ ft[x.ft] \in FTRows /\ n \in Int
    BY <1>1, <1>3, <2>1 DEF Committing, FTKnown, FTTable
  <2>3. x.twin # None => x.twin \in FTs /\ ft[x.twin] = None /\ x.twin # x.ft /\ x.kind = "reverseFT"
    BY <1>1, <2>2 DEF Committing, FTKnown
  <2> DEFINE twin == FT(-x.was.amount, "POSTED", x.new, x.ft)
             row == ft'[x.ft]
  <2>4. twin \in FTRows
        /\ twin.amount = -x.was.amount /\ twin.status = "POSTED" /\ twin.entry = x.new /\ twin.of = x.ft
    <3>1. x.new \in Entries \cup {None} /\ x.was.amount \in Int /\ -x.was.amount \in Int
      BY <1>1, <2>2 DEF Committing, FTRows
    <3> QED BY <2>2, <3>1 DEF FT, FTRows, StatusesOf
  <2>5. x.twin # None => ft'[x.twin] = twin
    BY <2>1, <2>3 DEF FTWritten
  <2>6. \A f \in FTs : f # x.ft /\ f # x.twin => ft'[f] = ft[f]
    BY <2>1 DEF FTWritten
  <2>7. /\ row \in FTRows /\ row.of = ft[x.ft].of /\ row.version = ft[x.ft].version + 1
        /\ x.kind # "updateFT" => row.amount = ft[x.ft].amount
        /\ x.kind = "updateFT" => row.status = ft[x.ft].status
        /\ x.kind = "postFT" => row.status = "POSTED"
        /\ x.kind = "reverseFT" => row.status = "REVERSED"
        /\ row.entry = IF x.kind = "postFT" THEN x.new ELSE ft[x.ft].entry
    <3> DEFINE old == ft[x.ft]
    <3>0. x.ft # x.twin
      BY <1>3, <2>3
    <3>1. row = CASE x.kind = "updateFT" -> [old EXCEPT !.amount = n, !.version = @ + 1]
                  [] x.kind = "postFT" -> [old EXCEPT !.status = "POSTED", !.entry = x.new, !.version = @ + 1]
                  [] x.kind = "reverseFT" -> [old EXCEPT !.status = "REVERSED", !.version = @ + 1]
      BY <2>1, <2>2, <3>0 DEF FTWritten
    <3>2. old \in FTRows /\ old.version + 1 \in Nat
      BY <2>2 DEF FTRows
    <3>3. x.new \in Entries \cup {None}
      BY <1>1 DEF Committing
    <3> HIDE DEF row, old
    <3>4. CASE x.kind = "updateFT"
      <4>1. row = [old EXCEPT !.amount = n, !.version = @ + 1]
        BY <3>1, <3>4
      <4> QED BY <2>2, <3>2, <3>4, <4>1 DEF FTRows, old
    <3>5. CASE x.kind = "postFT"
      <4>1. row = [old EXCEPT !.status = "POSTED", !.entry = x.new, !.version = @ + 1]
        BY <3>1, <3>5
      <4> QED BY <3>2, <3>3, <3>5, <4>1 DEF FTRows, StatusesOf, old
    <3>6. CASE x.kind = "reverseFT"
      <4>1. row = [old EXCEPT !.status = "REVERSED", !.version = @ + 1]
        BY <3>1, <3>6
      <4> QED BY <3>2, <3>6, <4>1 DEF FTRows, StatusesOf, old
    <3> QED BY <2>2, <3>4, <3>5, <3>6 DEF FTKinds
  <2>8. None \notin FTRows
    BY NoneAssumption DEF FTRows, StatusesOf
  <2> HIDE DEF twin
  <2>9. ft' \in FTTable
    <3>1. ASSUME NEW f \in FTs PROVE ft'[f] \in FTRows \cup {None}
      <4>1. CASE f = x.ft
        BY <2>7, <4>1
      <4>2. CASE f = x.twin
        <5>1. x.twin # None
          BY <4>2, NotNone
        <5> QED BY <2>4, <2>5, <4>2, <5>1
      <4>3. CASE f # x.ft /\ f # x.twin
        BY <1>1, <2>6, <4>3 DEF FTTable
      <4> QED BY <4>1, <4>2, <4>3
    <3> QED BY <2>1, <3>1 DEF FTTable
  <2>10. row # None /\ (x.twin # None => ft'[x.twin] # None)
    BY <2>4, <2>5, <2>7, <2>8
  <2>11. FTsWritten(x, ft, ft')
    <3> HIDE DEF x
    <3> QED BY <2>4, <2>5, <2>6, <2>7, <2>10 DEF FTsWritten
  <2> QED BY <2>9, <2>11
<1> QED BY <1>2, <1>3

-----------------------------------------------------------------------------
(* The commit: what it keeps.                                              *)

(* What a commit needs to know of its transaction.                         *)
LEMMA CommitFacts ==
    ASSUME IInv, NEW t \in Txns, Commit(t)
    PROVE  /\ t \in Running /\ Committing(tx[t]) /\ RowsKnown(tx[t])
           /\ EntryKnown(tx[t], entry) /\ FTKnown(tx[t], ft)
           /\ PeriodsKnown(tx[t], calendar, open, closed, settled, t \in under)
           /\ CloseKnown(tx[t], entry, calendar, open, closed)
           /\ entry \in EntryTable /\ ft \in FTTable /\ entry' \in EntryTable /\ ft' \in FTTable
           /\ EntriesWritten(tx[t], entry, entry') /\ FTsWritten(tx[t], ft, ft')
           /\ tx[t].lines # <<>> \/ tx[t].kind \in {"close", "updateFT"}
           /\ tx[t].kind = "updateFT" => tx[t].lines = <<>>
<1>1. /\ t \in Running /\ RowsKnown(tx[t])
      /\ EntryKnown(tx[t], entry) /\ FTKnown(tx[t], ft)
      /\ PeriodsKnown(tx[t], calendar, open, closed, settled, t \in under)
      /\ CloseKnown(tx[t], entry, calendar, open, closed)
  BY Known DEF Commit
<1>2. Committing(tx[t])
  BY AtCommit DEF Commit
<1>3. entry' \in EntryTable /\ EntriesWritten(tx[t], entry, entry')
  BY CommitWrites DEF Commit
<1>4. ft' \in FTTable /\ FTsWritten(tx[t], ft, ft')
  BY CommitWritesFTs
<1>5. tx[t].lines # <<>> \/ tx[t].kind \in {"close", "updateFT"}
  BY <1>2 DEF Committing, Kinds, MakingKinds, TargetKinds, FTKinds, PlainKinds
<1>6. tx[t].kind = "updateFT" => tx[t].lines = <<>>
  BY <1>2 DEF Committing, PlainKinds
<1> QED BY <1>1, <1>2, <1>3, <1>4, <1>5, <1>6, EntriesTyped

(* Entries that are there stay as they were made, but for their status.    *)
Keeps(en, en2) ==
    \A e \in Entries : en[e] # None =>
        /\ en2[e] # None /\ en2[e].lines = en[e].lines /\ en2[e].at = en[e].at
        /\ en2[e].kind = en[e].kind /\ en2[e].of = en[e].of
        /\ en[e].status # "DRAFT" => en2[e].status # "DRAFT"
        /\ en[e].status = "REVERSED" => en2[e].status = "REVERSED"

LEMMA CommitKeeps ==
    ASSUME IInv, NEW t \in Txns, Commit(t)
    PROVE  /\ Keeps(entry, entry')
           /\ \A e \in Entries : entry'[e] # None /\ entry[e] = None =>
                e = tx[t].new /\ tx[t].lines # <<>> /\ tx[t].new # None
<1> DEFINE x == tx[t]
<1>1. /\ Committing(x) /\ EntryKnown(x, entry) /\ EntriesWritten(x, entry, entry')
  BY CommitFacts
<1> HIDE DEF x
<1>2. x.new # None => entry[x.new] = None
  BY <1>1 DEF Committing, EntryKnown
<1>3. x.target # None => entry[x.target] # None /\ (entry[x.target].status = "REVERSED" => x.kind # "draft")
  BY <1>1 DEF Committing, EntryKnown
<1>4. ASSUME NEW e \in Entries, entry[e] # None
      PROVE  /\ entry'[e] # None /\ entry'[e].lines = entry[e].lines /\ entry'[e].at = entry[e].at
             /\ entry'[e].kind = entry[e].kind /\ entry'[e].of = entry[e].of
             /\ entry[e].status # "DRAFT" => entry'[e].status # "DRAFT"
             /\ entry[e].status = "REVERSED" => entry'[e].status = "REVERSED"
  <2>1. e # x.new
    BY <1>2, <1>4, NotNone
  <2>2. CASE e = x.target
    <3>1. x.target # None
      BY <2>2, NotNone
    <3> QED BY <1>1, <1>3, <2>2, <3>1 DEF EntriesWritten
  <2>3. CASE e # x.target
    BY <1>1, <1>4, <2>1, <2>3 DEF EntriesWritten
  <2> QED BY <2>2, <2>3
<1>5. ASSUME NEW e \in Entries, entry'[e] # None, entry[e] = None
      PROVE  e = x.new /\ x.lines # <<>> /\ x.new # None
  <2>1. e # x.target
    BY <1>3, <1>5, NotNone
  <2>2. e = x.new /\ x.new # None
    BY <1>1, <1>5, <2>1, NotNone DEF EntriesWritten
  <2> QED BY <1>1, <1>5, <2>2 DEF EntriesWritten
<1> QED BY <1>4, <1>5 DEF Keeps, x

LEMMA CommitTypes == ASSUME IInv, NEW t \in Txns, Commit(t) PROVE TypesOK'
<1> DEFINE x == tx[t]
<1>1. /\ Committing(x) /\ entry' \in EntryTable /\ ft' \in FTTable /\ entry \in EntryTable
      /\ EntriesWritten(x, entry, entry')
      /\ PeriodsKnown(x, calendar, open, closed, settled, t \in under)
  BY CommitFacts
<1>2. entry' \in [Entries -> EntryRows \cup {None}] /\ ft' \in [FTs -> FTRows \cup {None}]
  BY <1>1 DEF EntryTable, FTTable
<1>3. balance' \in [Accounts -> [Periods -> Int]]
  <2>1. ASSUME NEW a \in Accounts, NEW p \in Periods
        PROVE  balance[a][p] + (IF p = x.at THEN Sum(x.lines, a) ELSE 0) \in Int
    <3>1. x.lines \in Lines
      BY <1>1 DEF Committing
    <3>2. Sum(x.lines, a) \in Int
      BY <3>1, SumOfValues
    <3>3. balance[a][p] \in Int
      BY DEF IInv, DataInv, TypesOK
    <3> QED BY <3>2, <3>3
  <2>2. balance' = [a \in Accounts |-> [p \in Periods |->
            balance[a][p] + (IF p = x.at THEN Sum(x.lines, a) ELSE 0)]]
    BY DEF Commit, Snapshots
  <2> HIDE DEF x
  <2> QED BY <2>1, <2>2
<1>4. calendar' \subseteq Periods /\ open' \subseteq calendar'
  <2>1. calendar \subseteq Periods /\ open \subseteq calendar /\ x.opens \subseteq Periods
    BY <1>1 DEF IInv, DataInv, TypesOK, PeriodsKnown
  <2> QED BY <2>1 DEF Commit
<1>5. \A e \in Made' : entry'[e].lines # <<>>
  <2> SUFFICES ASSUME NEW e \in Entries, entry'[e] # None PROVE entry'[e].lines # <<>>
    BY DEF Made
  <2>1. CASE entry[e] # None
    <3>1. entry[e].lines # <<>>
      BY <2>1 DEF IInv, DataInv, TypesOK, Made
    <3> QED BY <2>1, <3>1, CommitKeeps DEF Keeps
  <2>2. CASE entry[e] = None
    <3>1. e = x.new /\ x.lines # <<>> /\ x.new # None
      BY <2>2, CommitKeeps
    <3> QED BY <1>1, <3>1 DEF EntriesWritten
  <2> QED BY <2>1, <2>2
<1> QED BY <1>2, <1>3, <1>4, <1>5 DEF TypesOK

(* The entry that is posted adds to the snapshots what its lines come to.  *)
LEMMA CommitBalances == ASSUME IInv, NEW t \in Txns, Commit(t) PROVE BalancesAgree'
<1> DEFINE x == tx[t]
<1>1. /\ Committing(x) /\ entry' \in EntryTable /\ entry \in EntryTable
      /\ EntriesWritten(x, entry, entry') /\ EntryKnown(x, entry)
      /\ x.lines # <<>> \/ x.kind \in {"close", "updateFT"}
      /\ x.kind = "updateFT" => x.lines = <<>>
  BY CommitFacts
<1>2. \A a \in Accounts, p \in Periods : balance[a][p] = Total(entry, a, p)
  BY <1>1, BalancesMean DEF IInv, DataInv
<1>3. \A a \in Accounts, p \in Periods :
        balance'[a][p] = balance[a][p] + (IF p = x.at THEN Sum(x.lines, a) ELSE 0)
  BY DEF Commit, Snapshots
<1> HIDE DEF x
<1>4. ASSUME NEW a \in Accounts, NEW p \in Periods
      PROVE  Total(entry', a, p) = Total(entry, a, p) + (IF p = x.at THEN Sum(x.lines, a) ELSE 0)
  <2>1. x.lines \in Lines /\ Sum(x.lines, a) \in Int /\ Total(entry, a, p) \in Int
    BY <1>1, SumOfValues, TotalInt DEF Committing
  <2>2. ASSUME NEW e \in Entries, e # x.new, x.kind # "draft"
        PROVE  Weight(entry'[e], a, p) = Weight(entry[e], a, p)
    <3>1. CASE e = x.target
      <4>1. x.target # None
        BY <3>1, NotNone
      <4>2. entry[x.target] # None /\ entry[x.target].status # "DRAFT"
        BY <1>1, <2>2, <4>1 DEF EntryKnown, Committing, TargetKinds
      <4> QED BY <1>1, <2>2, <3>1, <4>1, <4>2 DEF EntriesWritten, Weight
    <3>2. CASE e # x.target
      BY <1>1, <2>2, <3>2 DEF EntriesWritten
    <3> QED BY <3>1, <3>2
  <2>3. CASE x.kind = "draft"
    <3>1. x.target \in Entries /\ x.target # None /\ x.new = None
      BY <1>1, <2>3 DEF Committing, TargetKinds, MakingKinds, PlainKinds
    <3>2. /\ entry[x.target].status = "DRAFT" /\ entry[x.target].lines = x.lines
          /\ entry[x.target].at = x.at
      BY <1>1, <2>3 DEF EntryKnown, Committing, TargetKinds
    <3>3. Weight(entry[x.target], a, p) = 0
      BY <3>2 DEF Weight
    <3>4. Weight(entry'[x.target], a, p) = IF p = x.at THEN Sum(x.lines, a) ELSE 0
      BY <1>1, <2>3, <3>1, <3>2 DEF EntriesWritten, Weight
    <3>5. \A d \in Entries : d # x.target => Weight(entry'[d], a, p) = Weight(entry[d], a, p)
      BY <1>1, <3>1, NotNone DEF EntriesWritten
    <3>6. Total(entry', a, p)
            = Total(entry, a, p) + (Weight(entry'[x.target], a, p) - Weight(entry[x.target], a, p))
      BY <1>1, <3>1, <3>5, TotalChanges
    <3> QED BY <2>1, <3>3, <3>4, <3>6
  <2>4. CASE x.kind # "draft" /\ x.lines # <<>>
    <3>1. x.new \in Entries /\ x.new # None /\ entry[x.new] = None
      BY <1>1, <2>4 DEF Committing, MakingKinds, EntryKnown
    <3>2. Weight(entry[x.new], a, p) = 0
      BY <3>1 DEF Weight
    <3>3. Weight(entry'[x.new], a, p) = IF p = x.at THEN Sum(x.lines, a) ELSE 0
      BY <1>1, <2>4, <3>1 DEF EntriesWritten, Weight
    <3>4. \A d \in Entries : d # x.new => Weight(entry'[d], a, p) = Weight(entry[d], a, p)
      BY <2>2, <2>4
    <3>5. Total(entry', a, p)
            = Total(entry, a, p) + (Weight(entry'[x.new], a, p) - Weight(entry[x.new], a, p))
      BY <1>1, <3>1, <3>4, TotalChanges
    <3> QED BY <2>1, <3>2, <3>3, <3>5
  <2>5. CASE x.lines = <<>>
    <3>1. x.kind \in {"close", "updateFT"} /\ Sum(x.lines, a) = 0
      BY <1>1, <2>5, SumOfNone
    <3>2. \A d \in Entries : Weight(entry'[d], a, p) = Weight(entry[d], a, p)
      <4> SUFFICES ASSUME NEW d \in Entries PROVE Weight(entry'[d], a, p) = Weight(entry[d], a, p)
        OBVIOUS
      <4>1. CASE d = x.new
        BY <1>1, <2>5, <4>1, NotNone DEF EntriesWritten
      <4>2. CASE d # x.new
        BY <2>2, <3>1, <4>2
      <4> QED BY <4>1, <4>2
    <3>3. Total(entry', a, p) = Total(entry, a, p)
      BY <1>1, <3>2, TotalStays
    <3> QED BY <2>1, <3>1, <3>3
  <2> QED BY <2>3, <2>4, <2>5
<1>5. \A a \in Accounts, p \in Periods : balance'[a][p] = Total(entry', a, p)
  BY <1>2, <1>3, <1>4
<1> QED BY <1>1, <1>5, BalancesMeanNext

LEMMA CommitReversals == ASSUME IInv, NEW t \in Txns, Commit(t) PROVE ReversalsOK'
<1> DEFINE x == tx[t]
<1>1. /\ Committing(x) /\ EntriesWritten(x, entry, entry') /\ EntryKnown(x, entry)
      /\ Keeps(entry, entry') /\ entry \in EntryTable
      /\ \A e \in Entries : entry'[e] # None /\ entry[e] = None =>
            e = x.new /\ x.lines # <<>> /\ x.new # None
  BY CommitFacts, CommitKeeps
<1> HIDE DEF x
<1>2. \A e \in Made : e \in Entries /\ entry[e] # None /\ e \in Made'
  BY <1>1 DEF Made, Keeps
<1>3. \A e \in Made' : e \in Made \/ (e = x.new /\ x.lines # <<>> /\ x.new # None)
  BY <1>1 DEF Made
(* The new entry reverses one that is POSTED, which nothing reversed.      *)
<1>4. ASSUME x.lines # <<>>, x.new # None, x.kind = "reverse"
      PROVE  /\ entry'[x.new].of = x.target /\ x.target \in Made /\ entry'[x.target].status = "REVERSED"
             /\ \A q \in Made : entry[q].kind = "reverse" => entry[q].of # x.target
  <2>1. x.target \in Entries /\ x.target # None /\ entry[x.target] # None /\ entry[x.target].status = "POSTED"
    BY <1>1, <1>4 DEF Committing, EntryKnown, TargetKinds
  <2>2. entry'[x.new].of = x.target /\ entry'[x.target].status = "REVERSED"
    BY <1>1, <1>4, <2>1 DEF EntriesWritten
  <2>3. \A q \in Made : entry[q].kind = "reverse" => entry[q].of # x.target
    BY <2>1 DEF IInv, DataInv, ReversalsOK
  <2> QED BY <2>1, <2>2, <2>3 DEF Made
<1>5. x.lines # <<>> /\ x.new # None => entry'[x.new].kind = x.kind
  BY <1>1 DEF EntriesWritten
<1>6. \A e \in Made : entry'[e].kind = entry[e].kind /\ entry'[e].of = entry[e].of
  BY <1>1, <1>2 DEF Keeps
<1>7. \A e \in Made : entry[e].status = "REVERSED" => entry'[e].status = "REVERSED"
  BY <1>1, <1>2 DEF Keeps
<1>8. ReversalsOK
  BY DEF IInv, DataInv
<1>9. ASSUME NEW r \in Made', entry'[r].kind = "reverse"
      PROVE  /\ entry'[r].of \in Made' /\ entry'[entry'[r].of].status = "REVERSED"
             /\ \A q \in Made' : entry'[q].kind = "reverse" /\ entry'[q].of = entry'[r].of => q = r
  <2>1. CASE r \in Made
    <3>1. entry[r].kind = "reverse" /\ entry'[r].of = entry[r].of
      BY <1>6, <1>9, <2>1
    <3>2. entry[r].of \in Made /\ entry[entry[r].of].status = "REVERSED"
          /\ \A q \in Made : entry[q].kind = "reverse" /\ entry[q].of = entry[r].of => q = r
      BY <1>8, <2>1, <3>1 DEF ReversalsOK
    <3>3. ASSUME NEW q \in Made', entry'[q].kind = "reverse", entry'[q].of = entry'[r].of PROVE q = r
      <4>1. CASE q \in Made
        BY <1>6, <3>1, <3>2, <3>3, <4>1
      <4>2. CASE q \notin Made
        <5>1. q = x.new /\ x.lines # <<>> /\ x.new # None
          BY <1>3, <4>2
        <5>2. x.kind = "reverse"
          BY <1>5, <3>3, <5>1
        <5> QED BY <1>4, <2>1, <3>1, <3>3, <5>1, <5>2
      <4> QED BY <4>1, <4>2
    <3> QED BY <1>2, <1>7, <3>1, <3>2, <3>3
  <2>2. CASE r \notin Made
    <3>1. r = x.new /\ x.lines # <<>> /\ x.new # None
      BY <1>3, <2>2
    <3>2. x.kind = "reverse"
      BY <1>5, <1>9, <3>1
    <3>3. /\ entry'[r].of = x.target /\ x.target \in Made /\ entry'[x.target].status = "REVERSED"
          /\ \A q \in Made : entry[q].kind = "reverse" => entry[q].of # x.target
      BY <1>4, <3>1, <3>2
    <3>4. ASSUME NEW q \in Made', entry'[q].kind = "reverse", entry'[q].of = entry'[r].of PROVE q = r
      <4>1. q \notin Made
        BY <1>6, <3>3, <3>4
      <4> QED BY <1>3, <3>1, <4>1
    <3> QED BY <1>2, <3>3, <3>4
  <2> QED BY <2>1, <2>2
<1> QED BY <1>9 DEF ReversalsOK

LEMMA CommitFTs == ASSUME IInv, NEW t \in Txns, Commit(t) PROVE FTsOK'
<1> DEFINE x == tx[t]
<1>1. /\ Committing(x) /\ FTsWritten(x, ft, ft') /\ FTKnown(x, ft)
      /\ EntriesWritten(x, entry, entry') /\ EntryKnown(x, entry)
      /\ Keeps(entry, entry') /\ entry \in EntryTable
      /\ x.lines # <<>> \/ x.kind \in {"close", "updateFT"}
  BY CommitFacts, CommitKeeps
<1> HIDE DEF x
<1>2. FTsOK
  BY DEF IInv, DataInv
<1>3. \A e \in Made : e \in Entries /\ e \in Made' /\ entry'[e].lines = entry[e].lines
  BY <1>1 DEF Made, Keeps
<1>4. x.new \notin Made
  BY <1>1, NotNone DEF Committing, EntryKnown, Made
(* What was there, and stays.                                              *)
<1>5. \A f \in Recorded : f # x.ft => f # x.twin /\ f \in Recorded' /\ ft'[f] = ft[f]
  <2> SUFFICES ASSUME NEW f \in Recorded, f # x.ft PROVE f # x.twin /\ f \in Recorded' /\ ft'[f] = ft[f]
    OBVIOUS
  <2>1. f \in FTs /\ ft[f] # None
    BY DEF Recorded
  <2>2. f # x.twin
    BY <1>1, <2>1, NotNone DEF Committing, FTKnown
  <2> QED BY <1>1, <2>1, <2>2 DEF FTsWritten, Recorded
<1>6. \A f \in Recorded' : f \in Recorded \/ (f = x.twin /\ x.twin # None)
  <2> SUFFICES ASSUME NEW f \in FTs, ft'[f] # None, ft[f] = None PROVE f = x.twin /\ x.twin # None
    BY DEF Recorded
  <2>1. f # x.ft
    BY <1>1, NotNone DEF Committing, FTKnown
  <2> QED BY <1>1, <2>1, NotNone DEF FTsWritten
<1>7. CASE x.ft = None
  <2>1. x.twin = None
    BY <1>1, <1>7 DEF Committing, FTKinds
  <2>2. Recorded' = Recorded /\ \A f \in Recorded : ft'[f] = ft[f]
    <3>1. \A f \in Recorded : f # x.ft
      BY <1>7, NotNone DEF Recorded
    <3> QED BY <1>5, <1>6, <2>1, <3>1
  <2> QED BY <1>2, <1>3, <2>2 DEF FTsOK
<1>8. CASE x.ft # None
  <2> DEFINE f == x.ft
  <2>1. /\ x.kind \in FTKinds /\ f \in FTs /\ ft[f] # None /\ ft[f] = x.was /\ f \in Recorded
        /\ x.was.status = IF x.kind = "reverseFT" THEN "POSTED" ELSE "DRAFT"
    <3>1. x.kind \in FTKinds /\ f \in FTs
      BY <1>1, <1>8 DEF Committing
    <3>2. HasFT(x)
      BY <1>1, <3>1 DEF Committing
    <3> QED BY <1>1, <3>1, <3>2 DEF FTKnown, Recorded
  <2>2. /\ f \in Recorded' /\ ft'[f].of = ft[f].of
        /\ ft'[f].entry = IF x.kind = "postFT" THEN x.new ELSE ft[f].entry
        /\ x.kind # "updateFT" => ft'[f].amount = ft[f].amount
        /\ x.kind = "updateFT" => ft'[f].status = "DRAFT"
        /\ x.kind = "postFT" => ft'[f].status = "POSTED"
        /\ x.kind = "reverseFT" => ft'[f].status = "REVERSED"
    BY <1>1, <1>8, <2>1 DEF FTsWritten, Recorded
(* Nothing took it back before.                                            *)
  <2>3. \A g \in Recorded : ft[g].of # f
    BY <1>2, <2>1 DEF FTsOK
  <2>4. x.kind \in {"postFT", "reverseFT"} =>
          /\ x.new \in Made' /\ entry'[x.new].lines = x.lines
          /\ Sum(x.lines, Cash) = IF x.kind = "postFT" THEN x.was.amount ELSE -x.was.amount
    <3> SUFFICES ASSUME x.kind \in {"postFT", "reverseFT"}
                 PROVE  /\ x.new \in Made' /\ entry'[x.new].lines = x.lines
                        /\ Sum(x.lines, Cash) = IF x.kind = "postFT" THEN x.was.amount ELSE -x.was.amount
      OBVIOUS
    <3>1. x.new \in Entries /\ x.new # None /\ x.lines # <<>>
      BY <1>1 DEF Committing, MakingKinds, PlainKinds
    <3>2. entry'[x.new] # None /\ entry'[x.new].lines = x.lines
      BY <1>1, <3>1 DEF EntriesWritten
    <3>3. Sum(x.lines, Cash) = IF x.kind = "postFT" THEN x.was.amount ELSE -x.was.amount
      BY <1>1 DEF FTKnown
    <3> QED BY <3>1, <3>2, <3>3 DEF Made
  <2>5. \A g \in Recorded : ft[g].entry # x.new \/ x.new = None
    <3> SUFFICES ASSUME NEW g \in Recorded, x.new # None PROVE ft[g].entry # x.new
      OBVIOUS
    <3>1. CASE ft[g].status = "DRAFT"
      BY <1>2, <3>1 DEF FTsOK
    <3>2. CASE ft[g].status # "DRAFT"
      BY <1>2, <1>4, <3>2 DEF FTsOK
    <3> QED BY <3>1, <3>2
  <2>6. CASE x.kind \in {"updateFT", "postFT"}
    <3>1. x.twin = None
      BY <1>1, <2>6 DEF Committing
    <3>2. Recorded' = Recorded /\ \A g \in Recorded : g # f => ft'[g] = ft[g]
      BY <1>5, <1>6, <2>1, <2>2, <3>1
    <3>3. \A g \in Recorded : ft'[g].of = ft[g].of
      BY <2>2, <3>2
    <3>4. ASSUME NEW g \in Recorded'
          PROVE  /\ ft'[g].status = "REVERSED" <=> \E h \in Recorded' : ft'[h].of = g
                 /\ ft'[g].of # None =>
                      /\ ft'[g].of \in Recorded'
                      /\ \A h \in Recorded' : ft'[h].of = ft'[g].of => h = g
      <4>1. /\ ft[g].status = "REVERSED" <=> \E h \in Recorded : ft[h].of = g
            /\ ft[g].of # None =>
                 /\ ft[g].of \in Recorded
                 /\ \A h \in Recorded : ft[h].of = ft[g].of => h = g
        BY <1>2, <3>2, <3>4 DEF FTsOK
      <4>2. ft'[g].status = "REVERSED" <=> ft[g].status = "REVERSED"
        BY <2>1, <2>2, <2>6, <3>2, <3>4
      <4> QED BY <3>2, <3>3, <3>4, <4>1, <4>2
    <3>5. ASSUME NEW g \in Recorded'
          PROVE  /\ ft'[g].status = "DRAFT" => ft'[g].entry = None
                 /\ ft'[g].status # "DRAFT" =>
                      /\ ft'[g].entry \in Made'
                      /\ Sum(entry'[ft'[g].entry].lines, Cash) = ft'[g].amount
                      /\ \A h \in Recorded' : ft'[h].entry = ft'[g].entry => h = g
      <4>1. CASE g = f /\ x.kind = "updateFT"
        <5>1. ft[f].entry = None
          BY <1>2, <2>1, <4>1 DEF FTsOK
        <5> QED BY <2>2, <4>1, <5>1
      <4>2. CASE g = f /\ x.kind = "postFT"
        <5>1. ft'[g].entry = x.new /\ x.new # None
          BY <1>1, <2>2, <4>2 DEF Committing, MakingKinds, PlainKinds
        <5>2. \A h \in Recorded' : ft'[h].entry = x.new => h = g
          BY <2>5, <3>2, <4>2, <5>1
        <5> QED BY <2>1, <2>2, <2>4, <4>2, <5>1, <5>2
      <4>3. CASE g # f
        <5>1. g \in Recorded /\ ft'[g] = ft[g]
          BY <3>2, <3>4, <4>3
        <5>2. /\ ft[g].status = "DRAFT" => ft[g].entry = None
              /\ ft[g].status # "DRAFT" =>
                   /\ ft[g].entry \in Made
                   /\ Sum(entry[ft[g].entry].lines, Cash) = ft[g].amount
                   /\ \A h \in Recorded : ft[h].entry = ft[g].entry => h = g
          BY <1>2, <5>1 DEF FTsOK
        <5>3. ft'[g].status # "DRAFT" => \A h \in Recorded' : ft'[h].entry = ft'[g].entry => h = g
          <6> SUFFICES ASSUME ft'[g].status # "DRAFT", NEW h \in Recorded', ft'[h].entry = ft'[g].entry
                       PROVE  h = g
            OBVIOUS
          <6>1. ft[g].entry \in Made /\ \A k \in Recorded : ft[k].entry = ft[g].entry => k = g
            BY <5>1, <5>2
          <6>2. CASE h = f
            <7>1. x.kind # "postFT"
              BY <1>4, <2>2, <5>1, <6>1, <6>2
            <7> QED BY <2>1, <2>2, <5>1, <6>1, <6>2, <7>1
          <6>3. CASE h # f
            BY <3>2, <5>1, <6>1, <6>3
          <6> QED BY <6>2, <6>3
        <5> QED BY <1>3, <5>1, <5>2, <5>3
      <4> QED BY <2>6, <4>1, <4>2, <4>3
    <3> QED BY <3>4, <3>5 DEF FTsOK
  <2>7. CASE x.kind = "reverseFT"
    <3> DEFINE w == x.twin
    <3>1. /\ w \in FTs /\ w # None /\ ft[w] = None /\ w \notin Recorded /\ w # f
          /\ w \in Recorded' /\ ft'[w].amount = -x.was.amount /\ ft'[w].status = "POSTED"
          /\ ft'[w].entry = x.new /\ ft'[w].of = f /\ x.new # None
      <4>1. w \in FTs /\ w # None /\ ft[w] = None /\ x.new # None
        BY <1>1, <2>7 DEF Committing, FTKnown, MakingKinds, PlainKinds
      <4>2. /\ ft'[w] # None /\ ft'[w].amount = -x.was.amount /\ ft'[w].status = "POSTED"
            /\ ft'[w].entry = x.new /\ ft'[w].of = f
        BY <1>1, <4>1 DEF FTsWritten
      <4> QED BY <2>1, <4>1, <4>2 DEF Recorded
    <3>2. \A g : g \in Recorded' <=> g \in Recorded \/ g = w
      BY <1>5, <1>6, <2>1, <2>2, <3>1
    <3>3. \A g \in Recorded : g # f => ft'[g] = ft[g]
      BY <1>5
    <3>4. \A g \in Recorded : ft'[g].of = ft[g].of /\ ft'[g].entry = ft[g].entry /\ ft'[g].amount = ft[g].amount
      BY <2>2, <2>7, <3>3
    <3> HIDE DEF w, f
    <3>5. ASSUME NEW g \in Recorded'
          PROVE  ft'[g].status = "REVERSED" <=> \E h \in Recorded' : ft'[h].of = g
      <4>1. CASE g = f
        BY <2>2, <2>7, <3>1, <4>1
      <4>2. CASE g = w
        <5>1. \A h \in Recorded : ft[h].of # w
          BY <1>2, <3>1 DEF FTsOK
        <5> QED BY <3>1, <3>2, <3>4, <4>2, <5>1
      <4>3. CASE g # f /\ g # w
        <5>1. g \in Recorded /\ ft'[g] = ft[g]
          BY <3>2, <3>3, <3>5, <4>3
        <5>2. ft[g].status = "REVERSED" <=> \E h \in Recorded : ft[h].of = g
          BY <1>2, <5>1 DEF FTsOK
        <5> QED BY <3>1, <3>2, <3>4, <4>3, <5>1, <5>2
      <4> QED BY <4>1, <4>2, <4>3
    <3>6. ASSUME NEW g \in Recorded', ft'[g].of # None
          PROVE  /\ ft'[g].of \in Recorded'
                 /\ \A h \in Recorded' : ft'[h].of = ft'[g].of => h = g
      <4>1. CASE g = w
        BY <2>1, <2>3, <3>1, <3>2, <3>4, <4>1
      <4>2. CASE g # w
        <5>1. g \in Recorded /\ ft'[g].of = ft[g].of
          BY <3>2, <3>4, <3>6, <4>2
        <5>2. ft[g].of \in Recorded /\ \A h \in Recorded : ft[h].of = ft[g].of => h = g
          BY <1>2, <3>6, <5>1 DEF FTsOK
        <5>3. ft[g].of # f
          BY <2>3, <5>1
        <5> QED BY <3>1, <3>2, <3>4, <5>1, <5>2, <5>3
      <4> QED BY <4>1, <4>2
    <3>7. ASSUME NEW g \in Recorded'
          PROVE  /\ ft'[g].status = "DRAFT" => ft'[g].entry = None
                 /\ ft'[g].status # "DRAFT" =>
                      /\ ft'[g].entry \in Made'
                      /\ Sum(entry'[ft'[g].entry].lines, Cash) = ft'[g].amount
                      /\ \A h \in Recorded' : ft'[h].entry = ft'[g].entry => h = g
      <4>1. CASE g = w
        <5>1. \A h \in Recorded' : ft'[h].entry = x.new => h = g
          BY <2>5, <3>1, <3>2, <3>4, <4>1
        <5> QED BY <2>4, <2>7, <3>1, <4>1, <5>1
      <4>2. CASE g # w
        <5>1. g \in Recorded /\ ft'[g].entry = ft[g].entry /\ ft'[g].amount = ft[g].amount
          BY <3>2, <3>4, <3>7, <4>2
        <5>2. ft'[g].status = "DRAFT" <=> ft[g].status = "DRAFT"
          <6>1. CASE g = f
            BY <2>1, <2>2, <2>7, <6>1
          <6>2. CASE g # f
            BY <3>3, <5>1, <6>2
          <6> QED BY <6>1, <6>2
        <5>3. /\ ft[g].status = "DRAFT" => ft[g].entry = None
              /\ ft[g].status # "DRAFT" =>
                   /\ ft[g].entry \in Made
                   /\ Sum(entry[ft[g].entry].lines, Cash) = ft[g].amount
                   /\ \A h \in Recorded : ft[h].entry = ft[g].entry => h = g
          BY <1>2, <5>1 DEF FTsOK
        <5>4. ft'[g].status # "DRAFT" => \A h \in Recorded' : ft'[h].entry = ft'[g].entry => h = g
          <6> SUFFICES ASSUME ft'[g].status # "DRAFT", NEW h \in Recorded', ft'[h].entry = ft'[g].entry
                       PROVE  h = g
            OBVIOUS
          <6>1. h # w
            BY <1>4, <3>1, <5>1, <5>2, <5>3
          <6> QED BY <3>2, <3>4, <5>1, <5>2, <5>3, <6>1
        <5> QED BY <1>3, <5>1, <5>2, <5>3, <5>4
      <4> QED BY <4>1, <4>2
    <3> QED BY <3>5, <3>6, <3>7 DEF FTsOK
  <2> QED BY <2>1, <2>6, <2>7 DEF FTKinds
<1> QED BY <1>7, <1>8

(* The year is closed with nothing open that its close knew of, and with   *)
(* the income accounts at zero over what it took into account.             *)
LEMMA CommitYear == ASSUME IInv, NEW t \in Txns, Commit(t) PROVE YearOK' /\ CloseZeroes'
<1> DEFINE x == tx[t]
<1>1. /\ Committing(x) /\ EntriesWritten(x, entry, entry') /\ EntryKnown(x, entry)
      /\ Keeps(entry, entry') /\ entry \in EntryTable /\ entry' \in EntryTable
      /\ PeriodsKnown(x, calendar, open, closed, settled, t \in under)
      /\ CloseKnown(x, entry, calendar, open, closed) /\ t \in Running
  BY CommitFacts, CommitKeeps
<1>2. /\ calendar' = calendar \cup x.opens /\ open' = (open \cup x.opens) \ ClosedBy(t)
      /\ closed' = (closed \/ x.kind = "close")
  BY DEF Commit
<1>3. /\ closed \in BOOLEAN /\ settled \subseteq calendar /\ settled \cap open = {}
      /\ (~closed => settled = {}) /\ covered \subseteq Posted
  BY DEF IInv, DataInv, YearOK
<1>4. \A e \in Posted : e \in Entries /\ e \in Posted' /\ entry'[e].lines = entry[e].lines /\ entry'[e] # None
  BY <1>1 DEF Posted, Made, Keeps
<1>5. x.opens \cap calendar = {}
  BY <1>1 DEF PeriodsKnown
<1>6. CASE x.kind # "close"
  <2>1. settled' = settled /\ covered' = covered /\ closed' = closed
    BY <1>2, <1>3, <1>6 DEF Commit
  <2>2. YearOK'
    <3>1. settled' \subseteq calendar' /\ settled' \cap open' = {}
      BY <1>2, <1>3, <1>5, <2>1
    <3>2. covered' \subseteq Posted'
      BY <1>3, <1>4, <2>1
    <3> QED BY <1>3, <2>1, <3>1, <3>2 DEF YearOK
  <2>3. CloseZeroes'
    <3>1. \A a : [e \in covered |-> Sum(entry'[e].lines, a)] = [e \in covered |-> Sum(entry[e].lines, a)]
      BY <1>3, <1>4
    <3> QED BY <2>1, <3>1 DEF CloseZeroes, IInv, DataInv
  <2> QED BY <2>2, <2>3
<1>7. CASE x.kind = "close"
  <2>1. /\ settled' = x.knows /\ covered' = x.saw \cup {e \in {x.new} : entry'[e] # None}
        /\ closed' = TRUE
    BY <1>2, <1>7 DEF Commit
  <2>2. /\ x.knows \subseteq calendar /\ x.knows \cap open \subseteq x.closes /\ x.opens = {}
        /\ \A p \in x.closes : PeriodRow(p) \in x.rows
        /\ x.saw \subseteq {e \in Entries : Isnt(e, "DRAFT", entry)}
        /\ \A a \in Income : Sum(x.lines, a) + Come(x.saw, entry, a) = 0
    BY <1>1, <1>7 DEF CloseKnown, Committing
  <2>3. ClosedBy(t) = x.closes
    BY <2>2 DEF ClosedBy, Holds
  <2>4. x.new \in Entries /\ x.new # None /\ entry[x.new] = None
    BY <1>1, <1>7 DEF Committing, EntryKnown, MakingKinds
  <2>5. \A e \in x.saw : e \in Posted /\ e # x.new
    BY <2>2, <2>4 DEF Posted, Made, Isnt
  <2>6. entry'[x.new] # None <=> x.lines # <<>>
    BY <1>1, <2>4 DEF EntriesWritten
  <2>7. x.lines # <<>> => x.new \in Posted' /\ entry'[x.new].lines = x.lines
    BY <1>1, <2>4 DEF EntriesWritten, Posted, Made
  <2>8. YearOK'
    <3>1. settled' \subseteq calendar' /\ settled' \cap open' = {}
      BY <1>2, <2>1, <2>2, <2>3
    <3>2. covered' \subseteq Posted'
      BY <1>4, <2>1, <2>5, <2>6, <2>7
    <3> QED BY <2>1, <3>1, <3>2 DEF YearOK
  <2>9. ASSUME NEW a \in Income PROVE Come(covered', entry', a) = 0
    <3>1. x.saw \in SUBSET Entries /\ \A e \in x.saw : entry'[e].lines = entry[e].lines /\ entry'[e] # None
      BY <1>4, <2>2, <2>5
    <3>2. Come(x.saw, entry', a) = Come(x.saw, entry, a)
      BY <3>1, ComeSame
    <3>3. Come(x.saw, entry', a) \in Int
      BY <1>1, <3>1, ComeInt
    <3>4. CASE x.lines = <<>>
      <4>1. covered' = x.saw
        BY <2>1, <2>6, <3>4
      <4>2. Sum(x.lines, a) = 0
        BY <3>4, SumOfNone
      <4> QED BY <2>2, <3>2, <3>3, <4>1, <4>2
    <3>5. CASE x.lines # <<>>
      <4>1. covered' = x.saw \cup {x.new}
        BY <2>1, <2>6, <3>5
      <4>2. Come(x.saw \cup {x.new}, entry', a) = Come(x.saw, entry', a) + Sum(entry'[x.new].lines, a)
        <5>1. x.new \notin x.saw /\ \A e \in x.saw \cup {x.new} : entry'[e] # None
          BY <2>5, <2>6, <3>1, <3>5
        <5> DEFINE S == x.saw
                   n == x.new
        <5>2. S \in SUBSET Entries /\ n \in Entries /\ n \notin S /\ \A e \in S \cup {n} : entry'[e] # None
          BY <2>4, <3>1, <5>1
        <5> HIDE DEF S, n
        <5>3. Come(S \cup {n}, entry', a) = Come(S, entry', a) + Sum(entry'[n].lines, a)
          BY <1>1, <5>2, ComeMore
        <5> QED BY <5>3 DEF S, n
      <4>3. Sum(x.lines, a) \in Int
        BY <1>1, SumOfValues DEF Committing
      <4> QED BY <2>2, <2>7, <3>2, <3>3, <3>5, <4>1, <4>2, <4>3
    <3> QED BY <3>4, <3>5
  <2>10. CloseZeroes'
    BY <2>9 DEF CloseZeroes, Come
  <2> QED BY <2>8, <2>10
<1> QED BY <1>6, <1>7

(* What the commit of t does to what another transaction u knows.          *)
LEMMA CommitDisturbsNone ==
    ASSUME IInv, NEW t \in Txns, Commit(t), NEW u \in Running, u # t
    PROVE  Knows(tx[u], entry', ft', calendar', open', closed', settled', u \in under')
<1> DEFINE x == tx[t]
           y == tx[u]
<1>1. /\ Committing(x) /\ EntriesWritten(x, entry, entry') /\ FTsWritten(x, ft, ft')
      /\ EntryKnown(x, entry) /\ FTKnown(x, ft) /\ RowsKnown(x)
      /\ Keeps(entry, entry') /\ t \in Running
      /\ entry \in EntryTable /\ entry' \in EntryTable /\ ft \in FTTable /\ ft' \in FTTable
      /\ PeriodsKnown(x, calendar, open, closed, settled, t \in under)
      /\ CloseKnown(x, entry, calendar, open, closed)
  BY CommitFacts, CommitKeeps
<1>2. Knows(y, entry, ft, calendar, open, closed, settled, u \in under)
  BY DEF IInv, AllKnow
<1>3. RowsKnown(y) /\ EntryKnown(y, entry) /\ FTKnown(y, ft)
      /\ PeriodsKnown(y, calendar, open, closed, settled, u \in under)
      /\ CloseKnown(y, entry, calendar, open, closed)
  BY <1>2 DEF Knows
<1>4. Apart(x, y)
  BY <1>1 DEF IInv, AllApart
<1>5. /\ calendar' = calendar \cup x.opens /\ open' = (open \cup x.opens) \ ClosedBy(t)
      /\ closed' = (closed \/ x.kind = "close")
      /\ x.kind # "close" => settled' = settled /\ under' = under \ {t}
      /\ x.kind = "close" => under' = Running \ {t}
  BY DEF Commit
<1>6. closed \in BOOLEAN
  BY DEF IInv, DataInv, YearOK
<1> HIDE DEF x, y
<1>7. EntriesStay(y, entry, entry')
  <2>1. HasEntry(y) => entry'[y.target] = entry[y.target]
    <3> SUFFICES ASSUME HasEntry(y) PROVE entry'[y.target] = entry[y.target]
      OBVIOUS
    <3>1. y.target \in Entries /\ entry[y.target] # None /\ EntryRow(y.target) \in y.rows
      BY <1>3 DEF HasEntry, EntryKnown, RowsKnown, TargetKinds
    <3>2. y.target # x.new
      BY <1>1, <3>1, NotNone DEF EntryKnown, Committing
    <3>3. y.target # x.target
      <4>1. x.target # None => EntryRow(x.target) \in x.rows
        BY <1>1 DEF Committing, RowsKnown
      <4> QED BY <1>4, <3>1, <4>1, NotNone DEF Apart
    <3> QED BY <1>1, <3>1, <3>2, <3>3 DEF EntriesWritten
  <2>2. y.new # None => entry'[y.new] = None
    <3> SUFFICES ASSUME y.new # None PROVE entry'[y.new] = None
      OBVIOUS
    <3>1. y.new \in Entries /\ entry[y.new] = None
      BY <1>3 DEF EntryKnown
    <3>2. y.new # x.new
      BY <1>4 DEF Apart
    <3>3. y.new # x.target
      BY <1>1, <3>1, NotNone DEF Committing, EntryKnown
    <3> QED BY <1>1, <3>1, <3>2, <3>3 DEF EntriesWritten
  <2> QED BY <1>1, <2>1, <2>2 DEF EntriesStay, Keeps
<1>8. FTsStay(y, ft, ft')
  <2>1. x.ft # None => ft[x.ft] # None /\ ft[x.ft].version \in Nat /\ FTRow(x.ft) \in x.rows
    BY <1>1 DEF Committing, FTKnown, RowsKnown, FTTable, FTRows
  <2>2. x.twin # None => ft[x.twin] = None
    BY <1>1 DEF Committing, FTKnown
  <2>3. ASSUME NEW f \in FTs, ft[f] # None
        PROVE  /\ ft'[f] # None /\ ft[f].version <= ft'[f].version
               /\ ft'[f].version = ft[f].version => ft'[f] = ft[f]
    <3>1. ft[f].version \in Nat /\ f # x.twin
      BY <1>1, <2>2, <2>3, NotNone DEF FTTable, FTRows
    <3>2. CASE f = x.ft
      BY <1>1, <2>3, <3>1, <3>2, NotNone DEF FTsWritten
    <3>3. CASE f # x.ft
      BY <1>1, <2>3, <3>1, <3>3 DEF FTsWritten
    <3> QED BY <3>2, <3>3
  <2>4. HasFT(y) => ft'[y.ft] = ft[y.ft]
    <3> SUFFICES ASSUME HasFT(y) PROVE ft'[y.ft] = ft[y.ft]
      OBVIOUS
    <3>1. y.ft \in FTs /\ ft[y.ft] # None /\ FTRow(y.ft) \in y.rows
      BY <1>3 DEF HasFT, FTKnown, RowsKnown
    <3>2. y.ft # x.ft /\ y.ft # x.twin
      BY <1>4, <2>1, <2>2, <3>1, NotNone DEF Apart
    <3> QED BY <1>1, <3>1, <3>2 DEF FTsWritten
  <2>5. y.twin # None => ft'[y.twin] = None
    <3> SUFFICES ASSUME y.twin # None PROVE ft'[y.twin] = None
      OBVIOUS
    <3>1. y.twin \in FTs /\ ft[y.twin] = None
      BY <1>3 DEF FTKnown
    <3>2. y.twin # x.twin
      BY <1>4 DEF Apart
    <3>3. y.twin # x.ft
      BY <2>1, <3>1, NotNone
    <3> QED BY <1>1, <3>1, <3>2, <3>3 DEF FTsWritten
  <2> QED BY <2>3, <2>4, <2>5 DEF FTsStay
<1>9. PeriodsStay(y, calendar, calendar', open, open', closed, closed', settled, settled',
                  u \in under, u \in under')
  <2>1. y.opens \cap x.opens = {}
    BY <1>1, <1>3, <1>4 DEF RowsKnown, Apart
  <2>2. calendar \subseteq calendar' /\ y.opens \cap calendar' = {} /\ open' \cap calendar \subseteq open
    BY <1>1, <1>3, <1>5, <2>1 DEF PeriodsKnown
  <2>3. HasYear(y) => closed' = closed
    <3>1. HasYear(y) => x.kind # "close"
      BY <1>1, <1>3, <1>4 DEF Committing, RowsKnown, Apart
    <3> QED BY <1>5, <1>6, <3>1
  <2>4. closed' /\ ~(u \in under') => closed /\ ~(u \in under) /\ settled' = settled
    BY <1>5, <1>6
  <2> QED BY <2>2, <2>3, <2>4 DEF PeriodsStay
<1>10. Knows(y, entry', ft', calendar', open', closed', settled', u \in under')
  <2> DEFINE un == u \in under
             un2 == u \in under'
  <2>1. Knows(y, entry, ft, calendar, open, closed, settled, un)
    BY <1>2
  <2>2. PeriodsStay(y, calendar, calendar', open, open', closed, closed', settled, settled', un, un2)
    BY <1>9
  <2> HIDE DEF un, un2
  <2>3. Knows(y, entry', ft', calendar', open', closed', settled', un2)
    BY <1>1, <1>7, <1>8, <2>1, <2>2, KnowsStays, NotNone
  <2> QED BY <2>3 DEF un2
<1> QED BY <1>10 DEF y

LEMMA CommitPreserves == ASSUME IInv, NEW t \in Txns, Commit(t) PROVE IInv'
<1>1. tx' = [tx EXCEPT ![t] = None] /\ DOMAIN tx = Txns
  BY DEF Commit, IInv, AllKnow
<1>2. \A u \in Running' : u \in Running /\ u # t /\ tx'[u] = tx[u]
  BY <1>1 DEF Running
<1>3. DataInv'
  BY CommitTypes, CommitBalances, CommitReversals, CommitFTs, CommitYear DEF DataInv
<1>4. AllKnow'
  <2>1. \A u \in Running' :
            Knows(tx'[u], entry', ft', calendar', open', closed', settled', u \in under')
    BY <1>2, CommitDisturbsNone
  <2> QED BY <1>1, <2>1 DEF AllKnow
<1>5. AllApart'
  BY <1>2 DEF IInv, AllApart
<1> QED BY <1>3, <1>4, <1>5 DEF IInv

-----------------------------------------------------------------------------
(* What is done in one statement, outside of the transactions.             *)

LEMMA OutsidePreserves ==
    ASSUME IInv, UNCHANGED <<tx, under>>, DataInv',
           \A u \in Running :
             /\ EntriesStay(tx[u], entry, entry') /\ FTsStay(tx[u], ft, ft')
             /\ PeriodsStay(tx[u], calendar, calendar', open, open', closed, closed', settled, settled',
                            u \in under, u \in under)
    PROVE  IInv'
<1>1. tx' = tx /\ under' = under /\ Running' = Running
  BY DEF Running
<1>2. entry \in EntryTable /\ entry' \in EntryTable /\ ft \in FTTable /\ ft' \in FTTable
  BY DEF IInv, DataInv, TypesOK, EntryTable, FTTable
<1>3. ASSUME NEW u \in Running
      PROVE  Knows(tx[u], entry', ft', calendar', open', closed', settled', u \in under)
  <2> DEFINE un == u \in under
             y == tx[u]
  <2>1. /\ Knows(y, entry, ft, calendar, open, closed, settled, un)
        /\ EntriesStay(y, entry, entry') /\ FTsStay(y, ft, ft')
        /\ PeriodsStay(y, calendar, calendar', open, open', closed, closed', settled, settled', un, un)
    BY DEF IInv, AllKnow
  <2> HIDE DEF un, y
  <2>2. Knows(y, entry', ft', calendar', open', closed', settled', un)
    BY <1>2, <2>1, KnowsStays, NotNone
  <2> QED BY <2>2 DEF un, y
<1>4. AllKnow'
  BY <1>1, <1>3 DEF IInv, AllKnow
<1>5. AllApart'
  BY <1>1 DEF IInv, AllApart
<1> QED BY <1>4, <1>5 DEF IInv

(* What each transaction knows, and that rows that stay do not disturb it. *)
LEMMA KnownRows ==
    ASSUME IInv, NEW u \in Running
    PROVE  /\ RowsKnown(tx[u]) /\ EntryKnown(tx[u], entry) /\ FTKnown(tx[u], ft)
           /\ PeriodsKnown(tx[u], calendar, open, closed, settled, u \in under)
           /\ EntriesStay(tx[u], entry, entry) /\ FTsStay(tx[u], ft, ft)
<1>1. /\ RowsKnown(tx[u]) /\ EntryKnown(tx[u], entry) /\ FTKnown(tx[u], ft)
      /\ PeriodsKnown(tx[u], calendar, open, closed, settled, u \in under)
  BY DEF IInv, AllKnow, Knows
<1>2. EntriesStay(tx[u], entry, entry)
  BY <1>1 DEF EntryKnown, EntriesStay
<1>3. \A f \in FTs : ft[f] # None => ft[f].version \in Nat
  BY EntriesTyped DEF FTTable, FTRows
<1>4. FTsStay(tx[u], ft, ft)
  BY <1>1, <1>3 DEF FTKnown, FTsStay
<1> QED BY <1>1, <1>2, <1>4

LEMMA CreatePeriodPreserves == ASSUME IInv, NEW p \in Periods, CreatePeriod(p) PROVE IInv'
<1>1. /\ UNCHANGED <<entry, ft, balance, closed, settled, covered, under, tx>>
      /\ calendar' = calendar \cup {p} /\ open' = open \cup {p} /\ p \notin calendar
      /\ \A t \in Running : PeriodRow(p) \notin tx[t].rows
  BY DEF CreatePeriod, Holds
<1>2. DataInv'
  <2>1. TypesOK' /\ ReversalsOK' /\ FTsOK' /\ YearOK'
    BY <1>1 DEF IInv, DataInv, TypesOK, ReversalsOK, FTsOK, YearOK, Made, Posted, Recorded
  <2>2. BalancesAgree' /\ CloseZeroes'
    BY <1>1 DEF IInv, DataInv, BalancesAgree, CloseZeroes, Made, Posted
  <2> QED BY <2>1, <2>2 DEF DataInv
<1>3. ASSUME NEW u \in Running
      PROVE  /\ EntriesStay(tx[u], entry, entry') /\ FTsStay(tx[u], ft, ft')
             /\ PeriodsStay(tx[u], calendar, calendar', open, open', closed, closed', settled, settled',
                            u \in under, u \in under)
  <2>1. p \notin tx[u].opens
    BY <1>1, KnownRows DEF RowsKnown
  <2>2. tx[u].opens \cap calendar = {}
    BY KnownRows DEF PeriodsKnown
  <2> QED BY <1>1, <2>1, <2>2, KnownRows DEF PeriodsStay
<1> QED BY <1>1, <1>2, <1>3, OutsidePreserves

LEMMA ClosePeriodPreserves == ASSUME IInv, NEW p \in Periods, ClosePeriod(p) PROVE IInv'
<1>1. /\ UNCHANGED <<entry, ft, balance, calendar, closed, settled, covered, under, tx>>
      /\ open' = open \ {p}
  BY DEF ClosePeriod
<1>2. DataInv'
  <2>1. TypesOK' /\ ReversalsOK' /\ FTsOK' /\ YearOK'
    BY <1>1 DEF IInv, DataInv, TypesOK, ReversalsOK, FTsOK, YearOK, Made, Posted, Recorded
  <2>2. BalancesAgree' /\ CloseZeroes'
    BY <1>1 DEF IInv, DataInv, BalancesAgree, CloseZeroes, Made, Posted
  <2> QED BY <2>1, <2>2 DEF DataInv
<1>3. ASSUME NEW u \in Running
      PROVE  /\ EntriesStay(tx[u], entry, entry') /\ FTsStay(tx[u], ft, ft')
             /\ PeriodsStay(tx[u], calendar, calendar', open, open', closed, closed', settled, settled',
                            u \in under, u \in under)
  <2>1. tx[u].opens \cap calendar = {}
    BY KnownRows DEF PeriodsKnown
  <2> QED BY <1>1, <2>1, KnownRows DEF PeriodsStay
<1> QED BY <1>1, <1>2, <1>3, OutsidePreserves

(* A draft weighs nothing yet.                                             *)
LEMMA CreateDraftPreserves == ASSUME IInv, CreateDraft PROVE IInv'
<1>1. PICK e \in Free, p \in open :
        /\ entry' = [entry EXCEPT ![e] = Entry(p, HandLines, "DRAFT", "manual", None)]
        /\ UNCHANGED <<ft, balance, calendar, open, closed, settled, covered, under, tx>>
  BY DEF CreateDraft
<1> DEFINE draft == Entry(p, HandLines, "DRAFT", "manual", None)
<1>2. /\ entry \in EntryTable /\ e \in Entries /\ entry[e] = None /\ e \in Free
      /\ DOMAIN entry = Entries
  BY EntriesTyped DEF EntryTable
<1>3. HandLines \in Lines /\ HandLines # <<>>
  <2>1. Revenue \in Accounts /\ Cash \in Accounts
    BY DEF Accounts
  <2>2. 1 \in Int /\ -1 \in Int
    OBVIOUS
  <2> QED BY <2>1, <2>2, SumOfTwo DEF HandLines
<1>4. /\ draft \in EntryRows /\ draft # None /\ draft.status = "DRAFT" /\ draft.kind = "manual"
      /\ draft.lines # <<>>
  <2>1. p \in Periods
    BY DEF IInv, DataInv, TypesOK
  <2>2. draft \in EntryRows /\ draft.status = "DRAFT" /\ draft.kind = "manual" /\ draft.lines # <<>>
    BY <1>3, <2>1 DEF Entry, EntryRows, StatusesOf
  <2>3. draft # None
    BY <2>2, NoneAssumption DEF EntryRows, StatusesOf, Lines
  <2> QED BY <2>2, <2>3
<1> HIDE DEF draft
<1>5. entry'[e] = draft /\ \A d \in Entries : d # e => entry'[d] = entry[d]
  BY <1>1, <1>2 DEF draft
<1>6. entry' \in EntryTable
  BY <1>1, <1>2, <1>4 DEF EntryTable, draft
<1>7. Made' = Made \cup {e} /\ e \notin Made /\ Posted' = Posted
      /\ \A d \in Made : entry'[d] = entry[d]
  BY <1>2, <1>4, <1>5 DEF Made, Posted
<1>8. DataInv'
  <2>1. TypesOK'
    BY <1>1, <1>4, <1>5, <1>6, <1>7 DEF IInv, DataInv, TypesOK, EntryTable
  <2>2. BalancesAgree'
    <3>1. \A a, q : \A d \in Entries : Weight(entry'[d], a, q) = Weight(entry[d], a, q)
      BY <1>2, <1>4, <1>5 DEF Weight
    <3>2. ASSUME NEW a \in Accounts, NEW q \in Periods PROVE balance'[a][q] = Total(entry', a, q)
      <4>1. Total(entry', a, q) = Total(entry, a, q)
        BY <1>2, <1>6, <3>1, TotalStays
      <4> QED BY <1>1, <1>2, <4>1, BalancesMean DEF IInv, DataInv
    <3> QED BY <1>6, <3>2, BalancesMeanNext
  <2>3. ReversalsOK'
    BY <1>4, <1>5, <1>7 DEF IInv, DataInv, ReversalsOK
  <2>4. FTsOK'
    BY <1>1, <1>7 DEF IInv, DataInv, FTsOK, Recorded
  <2>5. YearOK'
    BY <1>1, <1>7 DEF IInv, DataInv, YearOK
  <2>6. CloseZeroes'
    <3>1. \A d \in covered : entry'[d] = entry[d]
      BY <1>7 DEF IInv, DataInv, YearOK, Posted
    <3>2. \A a : [d \in covered |-> Sum(entry'[d].lines, a)] = [d \in covered |-> Sum(entry[d].lines, a)]
      BY <3>1
    <3> QED BY <1>1, <3>2 DEF CloseZeroes, IInv, DataInv
  <2> QED BY <2>1, <2>2, <2>3, <2>4, <2>5, <2>6 DEF DataInv
<1>9. ASSUME NEW u \in Running
      PROVE  /\ EntriesStay(tx[u], entry, entry') /\ FTsStay(tx[u], ft, ft')
             /\ PeriodsStay(tx[u], calendar, calendar', open, open', closed, closed', settled, settled',
                            u \in under, u \in under)
  <2> DEFINE y == tx[u]
  <2>1. RowsKnown(y) /\ EntryKnown(y, entry) /\ FTsStay(y, ft, ft)
        /\ PeriodsKnown(y, calendar, open, closed, settled, u \in under) /\ y.new # e
    BY <1>2, KnownRows DEF Free
  <2> HIDE DEF y
  <2>2. HasEntry(y) => y.target \in Entries /\ entry[y.target] # None
    BY <2>1 DEF HasEntry, EntryKnown, TargetKinds
  <2>3. y.new # None => y.new \in Entries /\ entry[y.new] = None
    BY <2>1 DEF EntryKnown
  <2>4. EntriesStay(y, entry, entry')
    BY <1>2, <1>5, <2>1, <2>2, <2>3 DEF EntriesStay
  <2>5. PeriodsStay(y, calendar, calendar', open, open', closed, closed', settled, settled',
                    u \in under, u \in under)
    BY <1>1, <2>1 DEF PeriodsKnown, PeriodsStay
  <2> QED BY <1>1, <2>1, <2>4, <2>5 DEF y
<1> QED BY <1>1, <1>8, <1>9, OutsidePreserves

LEMMA CreateFTPreserves == ASSUME IInv, CreateFT PROVE IInv'
<1>1. PICK f \in FreeFTs, n \in {1, 2} :
        /\ ft' = [ft EXCEPT ![f] = FT(n, "DRAFT", None, None)]
        /\ UNCHANGED <<entry, balance, calendar, open, closed, settled, covered, under, tx>>
  BY DEF CreateFT
<1> DEFINE draft == FT(n, "DRAFT", None, None)
<1>2. ft \in FTTable /\ f \in FTs /\ ft[f] = None /\ f \in FreeFTs /\ DOMAIN ft = FTs
  BY EntriesTyped DEF FTTable
<1>3. /\ draft \in FTRows /\ draft # None /\ draft.status = "DRAFT" /\ draft.of = None
      /\ draft.entry = None /\ draft.version = 0
  <2>1. /\ draft \in FTRows /\ draft.status = "DRAFT" /\ draft.of = None
        /\ draft.entry = None /\ draft.version = 0
    BY DEF FT, FTRows, StatusesOf
  <2>2. draft # None
    BY <2>1, NoneAssumption DEF FTRows, StatusesOf
  <2> QED BY <2>1, <2>2
<1> HIDE DEF draft
<1>4. ft'[f] = draft /\ \A g \in FTs : g # f => ft'[g] = ft[g]
  BY <1>1, <1>2 DEF draft
<1>5. ft' \in FTTable
  BY <1>1, <1>2, <1>3 DEF FTTable, draft
<1>6. Recorded' = Recorded \cup {f} /\ f \notin Recorded /\ \A g \in Recorded : ft'[g] = ft[g]
  BY <1>2, <1>3, <1>4 DEF Recorded
<1>7. DataInv'
  <2>1. TypesOK'
    BY <1>1, <1>5 DEF IInv, DataInv, TypesOK, FTTable, Made
  <2>2. BalancesAgree' /\ ReversalsOK' /\ CloseZeroes' /\ YearOK'
    BY <1>1 DEF IInv, DataInv, BalancesAgree, CloseZeroes, ReversalsOK, YearOK, Made, Posted
  <2>3. FTsOK'
    <3>1. FTsOK /\ Made' = Made /\ entry' = entry
      BY <1>1 DEF IInv, DataInv, Made
    <3>2. f # None /\ \A g \in Recorded : ft[g].of # f
      BY <1>2, <3>1, NotNone DEF FTsOK, Recorded
    <3>3. None \notin Made
      BY NotNone DEF Made
    <3>4. ASSUME NEW g \in Recorded'
          PROVE  /\ ft'[g].status = "REVERSED" <=> \E h \in Recorded' : ft'[h].of = g
                 /\ ft'[g].of # None =>
                      /\ ft'[g].of \in Recorded'
                      /\ \A h \in Recorded' : ft'[h].of = ft'[g].of => h = g
                 /\ ft'[g].status = "DRAFT" => ft'[g].entry = None
                 /\ ft'[g].status # "DRAFT" =>
                      /\ ft'[g].entry \in Made'
                      /\ Sum(entry'[ft'[g].entry].lines, Cash) = ft'[g].amount
                      /\ \A h \in Recorded' : ft'[h].entry = ft'[g].entry => h = g
      <4>1. CASE g = f
        <5>1. \A h \in Recorded' : ft'[h].of # f
          BY <1>3, <1>4, <1>6, <3>2
        <5>2. ft'[g].status = "DRAFT" /\ ft'[g].of = None /\ ft'[g].entry = None
          BY <1>3, <1>4, <4>1
        <5> QED BY <4>1, <5>1, <5>2
      <4>2. CASE g # f
        <5>1. g \in Recorded /\ ft'[g] = ft[g]
          BY <1>6, <3>4, <4>2
        <5>2. g # None
          BY <5>1, NotNone DEF Recorded
        <5>3. /\ ft[g].status = "REVERSED" <=> \E h \in Recorded : ft[h].of = g
              /\ ft[g].of # None =>
                   /\ ft[g].of \in Recorded
                   /\ \A h \in Recorded : ft[h].of = ft[g].of => h = g
              /\ ft[g].status = "DRAFT" => ft[g].entry = None
              /\ ft[g].status # "DRAFT" =>
                   /\ ft[g].entry \in Made
                   /\ Sum(entry[ft[g].entry].lines, Cash) = ft[g].amount
                   /\ \A h \in Recorded : ft[h].entry = ft[g].entry => h = g
          BY <3>1, <5>1 DEF FTsOK
        <5> QED BY <1>3, <1>4, <1>6, <3>1, <3>3, <5>1, <5>2, <5>3
      <4> QED BY <4>1, <4>2
    <3> QED BY <3>4 DEF FTsOK
  <2> QED BY <2>1, <2>2, <2>3 DEF DataInv
<1>8. ASSUME NEW u \in Running
      PROVE  /\ EntriesStay(tx[u], entry, entry') /\ FTsStay(tx[u], ft, ft')
             /\ PeriodsStay(tx[u], calendar, calendar', open, open', closed, closed', settled, settled',
                            u \in under, u \in under)
  <2> DEFINE y == tx[u]
  <2>1. FTKnown(y, ft) /\ FTsStay(y, ft, ft) /\ EntriesStay(y, entry, entry)
        /\ PeriodsKnown(y, calendar, open, closed, settled, u \in under) /\ y.twin # f
    BY <1>2, KnownRows DEF FreeFTs
  <2> HIDE DEF y
  <2>2. HasFT(y) => y.ft \in FTs /\ ft[y.ft] # None
    BY <2>1 DEF HasFT, FTKnown
  <2>3. y.twin # None => y.twin \in FTs /\ ft[y.twin] = None
    BY <2>1 DEF FTKnown
  <2>4. FTsStay(y, ft, ft')
    BY <1>2, <1>4, <2>1, <2>2, <2>3 DEF FTsStay
  <2>5. PeriodsStay(y, calendar, calendar', open, open', closed, closed', settled, settled',
                    u \in under, u \in under)
    BY <1>1, <2>1 DEF PeriodsKnown, PeriodsStay
  <2> QED BY <1>1, <2>1, <2>4, <2>5 DEF y
<1> QED BY <1>1, <1>7, <1>8, OutsidePreserves

-----------------------------------------------------------------------------
(* The theorems.                                                           *)

LEMMA StatementPreserves == ASSUME IInv, NEW t \in Txns, Statement(t) PROVE IInv'
<1>1. CASE Fail(t)
  BY <1>1, AbortPreserves DEF Fail
<1>2. CASE Claim(t) \/ ClaimFT(t) \/ ReadOriginal(t) \/ ResolveOpenPeriod(t)
  BY <1>2, ClaimPreserves, ClaimFTPreserves, ReadOriginalPreserves, ResolveOpenPeriodPreserves
<1>3. CASE EnsureCalendar(t) \/ Validate(t) \/ TakeNumber(t) \/ UpdateBalance(t) \/ MarkReversed(t)
  BY <1>3, EnsureCalendarPreserves, ValidatePreserves, TakeNumberPreserves, UpdateBalancePreserves,
     MarkReversedPreserves
<1>4. CASE ClaimYear(t) \/ ReadPeriods(t) \/ CloseOthers(t) \/ Aggregate(t)
  BY <1>4, ClaimYearPreserves, ReadPeriodsPreserves, CloseOthersPreserves, AggregatePreserves
<1>5. CASE ValidateClosing(t) \/ CloseLast(t) \/ Commit(t)
  BY <1>5, ValidateClosingPreserves, CloseLastPreserves, CommitPreserves
<1> QED BY <1>1, <1>2, <1>3, <1>4, <1>5 DEF Statement

LEMMA StutterPreserves == ASSUME IInv, UNCHANGED vars PROVE IInv'
<1>1. UNCHANGED <<entry, ft, balance, calendar, open, closed, settled, covered, under, tx>>
  BY DEF vars
<1>2. DataInv'
  <2>1. TypesOK' /\ ReversalsOK' /\ FTsOK' /\ YearOK'
    BY <1>1 DEF IInv, DataInv, TypesOK, ReversalsOK, FTsOK, YearOK, Made, Posted, Recorded
  <2>2. BalancesAgree' /\ CloseZeroes'
    BY <1>1 DEF IInv, DataInv, BalancesAgree, CloseZeroes, Made, Posted
  <2> QED BY <2>1, <2>2 DEF DataInv
<1>3. AllKnow' /\ AllApart'
  BY <1>1 DEF IInv, AllKnow, AllApart, Running
<1> QED BY <1>2, <1>3 DEF IInv

(* The inductive invariant: what the rows are, and what each transaction   *)
(* knows of them.                                                          *)
THEOREM Invariance == Spec => []IInv
<1>1. Init => IInv
  BY InitEstablishes
<1>2. IInv /\ [Next]_vars => IInv'
  <2> SUFFICES ASSUME IInv, [Next]_vars PROVE IInv'
    OBVIOUS
  <2>1. ASSUME NEW t \in Txns, Request(t) \/ Statement(t) PROVE IInv'
    BY <2>1, RequestPreserves, StatementPreserves
  <2>2. ASSUME NEW p \in Periods, CreatePeriod(p) \/ ClosePeriod(p) PROVE IInv'
    BY <2>2, CreatePeriodPreserves, ClosePeriodPreserves
  <2>3. CASE CreateDraft \/ CreateFT
    BY <2>3, CreateDraftPreserves, CreateFTPreserves
  <2>4. CASE UNCHANGED vars
    BY <2>4, StutterPreserves
  <2> QED BY <2>1, <2>2, <2>3, <2>4 DEF Next
<1> QED BY <1>1, <1>2, PTL DEF Spec

(* The snapshot of an account in a period is the sum of the lines posted   *)
(* to it, whatever posts, reverses and closes at the same time: each       *)
(* commit adds to the snapshots what the entry it posts comes to.          *)
THEOREM SnapshotsAgree == Spec => []BalancesAgree
<1>1. IInv => BalancesAgree
  BY DEF IInv, DataInv
<1> QED BY <1>1, Invariance, PTL

(* GlEngineService.reverse reverses an entry once: who holds the row of    *)
(* the entry found it POSTED, and leaves it REVERSED.                      *)
THEOREM ReversesOnce == Spec => []OneReversal
<1>1. IInv => OneReversal
  <2> SUFFICES ASSUME IInv, NEW e \in Made
               PROVE  LET reversals == {r \in Made : entry[r].kind = "reverse" /\ entry[r].of = e} IN
                      /\ Cardinality(reversals) <= 1
                      /\ reversals # {} => entry[e].status = "REVERSED"
    BY DEF OneReversal
  <2> DEFINE reversals == {r \in Made : entry[r].kind = "reverse" /\ entry[r].of = e}
  <2>1. ASSUME NEW r \in reversals PROVE reversals = {r} /\ entry[e].status = "REVERSED"
    BY DEF IInv, DataInv, ReversalsOK
  <2>2. Cardinality(reversals) <= 1
    <3> HIDE DEF reversals
    <3>1. CASE reversals = {}
      <4>1. Cardinality(reversals) = 0
        BY <3>1, FS_EmptySet
      <4> QED BY <4>1
    <3>2. CASE reversals # {}
      <4>1. PICK r : r \in reversals
        BY <3>2
      <4>2. reversals = {r}
        BY <2>1, <4>1
      <4>3. Cardinality(reversals) = 1
        BY <4>2, FS_Singleton
      <4> QED BY <4>3
    <3> QED BY <3>1, <3>2
  <2> QED BY <2>1, <2>2
<1> QED BY <1>1, Invariance, PTL

(* A posted financial transaction stands in the ledger with the amount it  *)
(* shows, and a reversed one is taken back by exactly one.                 *)
THEOREM TransactionsInLedger == Spec => []FTsInLedger
<1>1. IInv => FTsInLedger
  <2> SUFFICES ASSUME IInv, NEW f \in Recorded
               PROVE  /\ Cardinality({g \in Recorded : ft[g].of = f})
                            = IF ft[f].status = "REVERSED" THEN 1 ELSE 0
                      /\ ft[f].status # "DRAFT" =>
                          /\ Sum(entry[ft[f].entry].lines, Cash) = ft[f].amount
                          /\ \A g \in Recorded \ {f} : ft[g].entry # ft[f].entry
    BY DEF FTsInLedger
  <2> DEFINE takenBack == {g \in Recorded : ft[g].of = f}
  <2>1. FTsOK /\ f # None
    BY NotNone DEF IInv, DataInv, Recorded
  <2>2. Cardinality(takenBack) = IF ft[f].status = "REVERSED" THEN 1 ELSE 0
    <3>1. CASE ft[f].status = "REVERSED"
      <4>1. PICK g \in Recorded : ft[g].of = f
        BY <2>1, <3>1 DEF FTsOK
      <4>2. takenBack = {g}
        BY <2>1, <4>1 DEF FTsOK
      <4> QED BY <3>1, <4>2, FS_Singleton
    <3>2. CASE ft[f].status # "REVERSED"
      <4>1. takenBack = {}
        BY <2>1, <3>2 DEF FTsOK
      <4> QED BY <3>2, <4>1, FS_EmptySet
    <3> QED BY <3>1, <3>2
  <2>3. ft[f].status # "DRAFT" =>
          /\ Sum(entry[ft[f].entry].lines, Cash) = ft[f].amount
          /\ \A g \in Recorded \ {f} : ft[g].entry # ft[f].entry
    BY <2>1 DEF FTsOK
  <2> QED BY <2>2, <2>3
<1> QED BY <1>1, Invariance, PTL

(* The closing entry leaves the income accounts at zero over the entries   *)
(* that it took into account.                                              *)
THEOREM ClosingZeroes == Spec => []CloseZeroes
<1>1. IInv => CloseZeroes
  BY DEF IInv, DataInv
<1> QED BY <1>1, Invariance, PTL

(* After the close of the year, only what was under way then still enters  *)
(* a period that the close knew of.                                        *)
THEOREM YearStaysClosed == Spec => ClosedYearFinal
<1>1. IInv /\ [Next]_vars =>
        [\A t \in Running :
            tx'[t] = None /\ entry' # entry /\ tx[t].at \in settled => t \in under]_vars
  <2> SUFFICES ASSUME IInv, Next, NEW t \in Running, tx'[t] = None, entry' # entry,
                      tx[t].at \in settled
               PROVE  t \in under
    BY DEF vars
  <2>1. t \in Txns /\ tx[t] # None /\ DOMAIN tx = Txns
    BY DEF Running, IInv, AllKnow
  <2>2. Commit(t)
    <3>1. ~CreateDraft /\ ~CreateFT /\ \A p \in Periods : ~CreatePeriod(p) /\ ~ClosePeriod(p)
      BY <2>1 DEF CreateDraft, CreateFT, CreatePeriod, ClosePeriod
    <3>2. PICK u \in Txns : Request(u) \/ Statement(u)
      BY <3>1 DEF Next
    <3>3. ~Request(u)
      BY DEF Request, Post, PostDraft, Reverse, UndoReturn, CloseYear, UpdateFT, PostFT, ReverseFT, Begin
    <3>4. Commit(u)
      <4>1. ~Abort(u)
        BY DEF Abort
      <4>2. \A y : ~Becomes(u, y)
        BY DEF Becomes, Stay
      <4>3. ~Claim(u) /\ ~ClaimFT(u) /\ ~ReadOriginal(u) /\ ~ResolveOpenPeriod(u) /\ ~EnsureCalendar(u)
        BY <4>1, <4>2 DEF Claim, ClaimFT, ClaimedFT, ReadOriginal, ResolveOpenPeriod, EnsureCalendar
      <4>4. ~Validate(u) /\ ~TakeNumber(u) /\ ~UpdateBalance(u) /\ ~MarkReversed(u) /\ ~Fail(u)
        BY <4>1, <4>2 DEF Validate, TakeNumber, UpdateBalance, MarkReversed, Fail
      <4>5. ~ClaimYear(u) /\ ~ReadPeriods(u) /\ ~CloseOthers(u) /\ ~Aggregate(u)
            /\ ~ValidateClosing(u) /\ ~CloseLast(u)
        BY <4>1, <4>2 DEF ClaimYear, ReadPeriods, CloseOthers, Aggregate, ValidateClosing, CloseLast
      <4> QED BY <3>2, <3>3, <4>3, <4>4, <4>5 DEF Statement
    <3>5. u = t
      BY <2>1, <3>4 DEF Commit
    <3> QED BY <3>4, <3>5
  <2> DEFINE x == tx[t]
  <2>3. /\ Committing(x) /\ PeriodsKnown(x, calendar, open, closed, settled, t \in under)
        /\ EntriesWritten(x, entry, entry') /\ entry \in EntryTable /\ entry' \in EntryTable
        /\ x.lines # <<>> \/ x.kind \in {"close", "updateFT"}
    BY <2>1, <2>2, CommitFacts
  <2>4. x.lines # <<>>
    <3> SUFFICES ASSUME x.lines = <<>> PROVE FALSE
      OBVIOUS
    <3>1. x.target = None
      BY <2>3 DEF Committing, TargetKinds
    <3>2. \A e \in Entries : entry'[e] = entry[e]
      BY <2>3, <3>1, NotNone DEF EntriesWritten
    <3>3. entry' = entry
      BY <2>3, <3>2 DEF EntryTable
    <3> QED BY <3>3
  <2>5. Validated(x)
    BY <2>3, <2>4 DEF Committing, Validated
  <2>6. closed
    BY DEF IInv, DataInv, YearOK
  <2> QED BY <2>3, <2>5, <2>6 DEF PeriodsKnown
<1> QED BY <1>1, Invariance, PTL DEF Spec, ClosedYearFinal

-----------------------------------------------------------------------------
(* No circle of waiting.                                                   *)

(* Whom a transaction of the circle waits for, by the step it waits at.    *)
LEMMA WaitingAt ==
    ASSUME IInv, NEW t \in Running, NEW u \in Running, WaitsFor(t, u),
           tx[t].kind \notin {"draft", "undo"}, tx[u].kind \notin {"draft", "undo"}
    PROVE  \/ tx[t].step = "claim" /\ tx[u].kind = "reverse" /\ tx[u].step # "claim"
           \/ tx[t].step = "claimYear" /\ tx[u].kind = "close" /\ tx[u].step # "claimYear"
           \/ tx[t].step = "claimFT" /\ tx[u].kind \in FTKinds /\ tx[u].step # "claimFT"
           \/ tx[t].step = "calendar" /\ tx[u].opens # {}
           \/ tx[t].step = "number" /\ HasNumber(tx[u])
<1> DEFINE x == tx[t]
           y == tx[u]
<1>1. /\ Shaped(x) /\ RowsKnown(x) /\ RowsKnown(y)
      /\ PeriodsKnown(x, calendar, open, closed, settled, t \in under)
      /\ PeriodsKnown(y, calendar, open, closed, settled, u \in under)
      /\ CloseKnown(x, entry, calendar, open, closed)
      /\ CloseKnown(y, entry, calendar, open, closed)
  BY DEF IInv, AllKnow, Knows
<1>2. Apart(x, y) /\ Apart(y, x) /\ t # u
  BY DEF IInv, AllApart, WaitsFor
<1>3. PICK row : row \in Wants(t) /\ row \in y.rows
  BY DEF WaitsFor, Holds
<1>4. Owns(y, row)
  BY <1>1, <1>3 DEF RowsKnown
<1>5. /\ x.step = "claim" => row = EntryRow(x.target)
      /\ x.step = "claimYear" => row = YearRow
      /\ x.step = "claimFT" => row = FTRow(x.ft)
      /\ x.step = "calendar" => row = PeriodRow(x.at) /\ \A p \in calendar : row # PeriodRow(p)
      /\ x.step = "number" => row = Counter(x.at)
      /\ x.step = "line" => row = Snapshot(Head(x.todo)[1], x.at)
      /\ x.step = "closeOthers" => \E p \in x.closes : row = PeriodRow(p)
      /\ x.step = "closeLast" => row = PeriodRow(x.at)
      /\ x.step \in {"claim", "claimYear", "claimFT", "calendar", "number", "line", "mark",
                     "closeOthers", "closeLast"}
  BY <1>3 DEF Wants
<1>6. x.step # "mark"
  BY <1>1, StepKinds
<1> HIDE DEF x, y
<1>7. CASE x.step = "claim"
  <2>1. HasEntry(y)
    BY <1>4, <1>5, <1>7, RowsDiffer DEF Owns
  <2> QED BY <1>7, <2>1 DEF HasEntry, x, y
<1>8. CASE x.step = "claimYear"
  <2>1. HasYear(y)
    BY <1>4, <1>5, <1>8, RowsDiffer DEF Owns
  <2> QED BY <1>8, <2>1 DEF HasYear, x, y
<1>9. CASE x.step = "claimFT"
  <2>1. HasFT(y)
    BY <1>4, <1>5, <1>9, RowsDiffer DEF Owns
  <2> QED BY <1>9, <2>1 DEF HasFT, x, y
(* A period that is there is held by the year's close alone.               *)
<1>10. ASSUME NEW p, row = PeriodRow(p) PROVE p \in y.opens \cup y.closes
  BY <1>4, <1>10, RowsDiffer DEF Owns
<1>11. y.closes \subseteq calendar /\ x.closes \subseteq calendar /\ y.opens \cap calendar = {}
  BY <1>1 DEF CloseKnown, PeriodsKnown
<1>12. CASE x.step = "calendar"
  <2>1. x.at \in y.opens
    BY <1>5, <1>10, <1>11, <1>12
  <2> QED BY <1>12, <2>1 DEF x, y
<1>13. CASE x.step = "number"
  <2>1. HasNumber(y)
    BY <1>4, <1>5, <1>13, RowsDiffer DEF Owns
  <2> QED BY <1>13, <2>1 DEF x, y
<1>14. CASE x.step = "line"
  <2>1. x.at = y.at /\ Counter(y.at) \in y.rows
    BY <1>4, <1>5, <1>14, RowsDiffer DEF Owns, y
  <2>2. Counter(x.at) \in x.rows
    BY <1>1, <1>14 DEF RowsKnown, x
  <2> QED BY <1>2, <2>1, <2>2 DEF Apart
<1>15. CASE x.step \in {"closeOthers", "closeLast"}
  <2>1. x.kind = "close"
    BY <1>1, <1>15, StepKinds
  <2>2. PICK p \in x.closes : row = PeriodRow(p)
    BY <1>1, <1>5, <1>15, <2>1 DEF CloseKnown
  <2>3. p \in y.closes
    BY <1>10, <1>11, <2>2
  <2>4. HasYear(y)
    BY <1>1, <2>3 DEF CloseKnown, HasYear
  <2>5. HasYear(x)
    BY <1>15, <2>1 DEF HasYear
  <2> QED BY <1>1, <1>2, <2>4, <2>5 DEF RowsKnown, Apart
<1> QED BY <1>5, <1>6, <1>7, <1>8, <1>9, <1>12, <1>13, <1>14, <1>15

(* Postings wait for one another in a circle only if a draft is posted by  *)
(* hand or a return is undone: the others take their rows in one order.    *)
THEOREM NoCircleOfPostings == Spec => []OnlyLatecomersDeadlock
<1>1. IInv => OnlyLatecomersDeadlock
  <2> SUFFICES ASSUME IInv, NEW ring \in SUBSET Running, ring # {},
                      \A t \in ring : \E u \in ring : WaitsFor(t, u),
                      \A t \in ring : tx[t].kind \notin {"draft", "undo"}
               PROVE  FALSE
    BY DEF OnlyLatecomersDeadlock
  <2>1. ASSUME NEW t \in ring
        PROVE  \E u \in ring :
                 \/ tx[t].step = "claim" /\ tx[u].kind = "reverse" /\ tx[u].step # "claim"
                 \/ tx[t].step = "claimYear" /\ tx[u].kind = "close" /\ tx[u].step # "claimYear"
                 \/ tx[t].step = "claimFT" /\ tx[u].kind \in FTKinds /\ tx[u].step # "claimFT"
                 \/ tx[t].step = "calendar" /\ tx[u].opens # {}
                 \/ tx[t].step = "number" /\ HasNumber(tx[u])
    <3>1. PICK u \in ring : WaitsFor(t, u)
      OBVIOUS
    <3> QED BY <3>1, WaitingAt
  <2>2. \A t \in ring : tx[t].step \in {"claim", "claimYear", "claimFT", "calendar", "number"}
    BY <2>1
  <2>3. \A t \in ring :
          /\ tx[t].step = "claim" => tx[t].kind \in {"draft", "reverse"}
          /\ tx[t].step = "claimFT" => tx[t].kind \in FTKinds
          /\ tx[t].step = "calendar" => tx[t].kind \in {"post", "postFT", "reverseFT"}
          /\ tx[t].step = "claimYear" => tx[t].kind = "close"
          /\ tx[t].kind \notin OpeningKinds => tx[t].opens = {}
          /\ tx[t].step \in {"claimFT", "calendar"} => tx[t].opens = {}
    <3> SUFFICES ASSUME NEW t \in ring
                 PROVE  /\ tx[t].step = "claim" => tx[t].kind \in {"draft", "reverse"}
                        /\ tx[t].step = "claimFT" => tx[t].kind \in FTKinds
                        /\ tx[t].step = "calendar" => tx[t].kind \in {"post", "postFT", "reverseFT"}
                        /\ tx[t].step = "claimYear" => tx[t].kind = "close"
                        /\ tx[t].kind \notin OpeningKinds => tx[t].opens = {}
                        /\ tx[t].step \in {"claimFT", "calendar"} => tx[t].opens = {}
      OBVIOUS
    <3>1. Shaped(tx[t]) /\ PeriodsKnown(tx[t], calendar, open, closed, settled, t \in under)
      BY DEF IInv, AllKnow, Knows
    <3> QED BY <3>1, StepKinds DEF PeriodsKnown
(* Who waits for a number waits for one that is past all waiting here, ... *)
  <2>4. \A t \in ring : tx[t].step # "number"
    BY <2>1, <2>2 DEF HasNumber
(* ... for a month, for one that has its own and only a number to come, ... *)
  <2>5. \A t \in ring : tx[t].step # "calendar"
    <3> SUFFICES ASSUME NEW t \in ring, tx[t].step = "calendar" PROVE FALSE
      OBVIOUS
    <3>1. PICK u \in ring : tx[u].opens # {}
      BY <2>1
    <3>2. tx[u].step \in {"claim", "claimYear"} /\ tx[u].kind \in OpeningKinds
      BY <2>2, <2>3, <2>4, <3>1
    <3> QED BY <2>3, <3>2 DEF OpeningKinds
(* ... and for what it claims, for one that has claimed it and goes on.    *)
  <2>6. PICK t : t \in ring
    OBVIOUS
  <2>7. \A u \in ring : tx[u].step \in {"claim", "claimYear", "claimFT"}
    BY <2>2, <2>4, <2>5
  <2> QED BY <2>1, <2>3, <2>6, <2>7 DEF FTKinds
<1> QED BY <1>1, Invariance, PTL
=============================================================================
