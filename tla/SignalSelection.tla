--------------------------- MODULE SignalSelection ---------------------------
(* The signals of one tick, between the strategies that generate them and  *)
(* the orders: core/signal_router.py, the verdict of the circuit breaker   *)
(* and PortfolioManager.evaluate, one after the other without an await     *)
(* (scripts/run_st_a2_demo.py, _tick). Sorting is stable and max returns    *)
(* the first of equals, as in the code.                                    *)
EXTENDS Integers, Sequences, FiniteSets

CONSTANTS
    Symbols,
    CorrelationGroups,  \* correlation_groups, in their order
    MinConfidence,      \* min_confidence
    TradeCap,           \* max_trades_per_day
    PositionCap,        \* max_open_positions
    Candidates,         \* signals the strategies may generate; fit: _validate accepts it
    MaxRaw              \* bound: signals generated in a tick

ASSUME SelectionAssumption ==
    /\ CorrelationGroups \in Seq(SUBSET Symbols)
    /\ Candidates \subseteq [symbol : Symbols, action : {"BUY", "SELL", "CLOSE"},
                              confidence : Int, fit : BOOLEAN]
    /\ MinConfidence \in Int
    /\ TradeCap \in Nat /\ PositionCap \in Nat /\ MaxRaw \in Nat

VARIABLES
    raw,                \* raw_signals, as generated so far
    passed,             \* cb_approved
    selected,           \* pm_approved
    open_symbols,       \* _open_symbols of the portfolio manager
    day_trades,         \* _trades_today of the portfolio manager
    step                \* "generate" or "selected"

SelectionVars == <<raw, passed, selected, open_symbols, day_trades, step>>

(* The elements of s at the positions I, in their order.                   *)
Nth(I, k) == CHOOSE i \in I : Cardinality({j \in I : j < i}) = k - 1

Pick(s, I) == [k \in 1..Cardinality(I) |-> s[Nth(I, k)]]

Outranks(s, i, j) ==
    s[i].confidence > s[j].confidence \/ (s[i].confidence = s[j].confidence /\ i < j)

Ranked(s, k) ==
    CHOOSE i \in DOMAIN s : Cardinality({j \in DOMAIN s : Outranks(s, j, i)}) = k - 1

ByConfidence(s) == [k \in DOMAIN s |-> s[Ranked(s, k)]]

-----------------------------------------------------------------------------
(* SignalRouter.route.                                                     *)
OfSymbol(s, x) == {i \in DOMAIN s : s[i].symbol = x}

Conflict(s, x) == {"BUY", "SELL"} \subseteq {s[i].action : i \in OfSymbol(s, x)}

Best(s, x) == CHOOSE i \in OfSymbol(s, x) : \A j \in OfSymbol(s, x) \ {i} : Outranks(s, i, j)

(* A group stands where the first signal of its symbol stood.              *)
Leaders(s) ==
    Pick(s, {i \in DOMAIN s : /\ ~Conflict(s, s[i].symbol)
                              /\ \A j \in OfSymbol(s, s[i].symbol) : i <= j})

Strongest(s, leaders) == [k \in DOMAIN leaders |-> s[Best(s, leaders[k].symbol)]]

Resolve(s) == Strongest(s, Leaders(s))

Route(s) == ByConfidence(Resolve(Pick(s, {i \in DOMAIN s : s[i].fit})))

(* PortfolioManager: _group_key is the first group a symbol is in.         *)
Grouped(x) == \E g \in DOMAIN CorrelationGroups : x \in CorrelationGroups[g]

GroupKey(x) == CHOOSE g \in DOMAIN CorrelationGroups :
    x \in CorrelationGroups[g] /\ \A h \in 1..(g - 1) : x \notin CorrelationGroups[h]

Correlated(c, d) ==
    /\ Grouped(c.symbol) /\ Grouped(d.symbol)
    /\ GroupKey(c.symbol) = GroupKey(d.symbol)
    /\ c.action = d.action

ApplyCorrelationFilter(s) ==
    LET t == ByConfidence(s)
    IN  Pick(t, {i \in DOMAIN t : \A j \in 1..(i - 1) : ~Correlated(t[j], t[i])})

FirstOf(s, slots) == [k \in 1..(IF slots < Len(s) THEN slots ELSE Len(s)) |-> s[k]]

Tradable_OpenToo(c) == c.confidence >= MinConfidence

Tradable(c) == c.confidence >= MinConfidence /\ c.symbol \notin open_symbols

TradableOnes(s) == Pick(s, {i \in DOMAIN s : Tradable(s[i])})

Slots ==
    LET left == {TradeCap - day_trades, PositionCap - Cardinality(open_symbols)}
    IN  CHOOSE n \in left : \A m \in left : n <= m

Evaluate_CapFirst(s) ==
    ApplyCorrelationFilter(FirstOf(TradableOnes(s), Slots))

EvaluateSignals(s) ==
    ByConfidence(FirstOf(ApplyCorrelationFilter(TradableOnes(s)), Slots))

-----------------------------------------------------------------------------
Generate(c) ==
    /\ step = "generate"
    /\ Len(raw) < MaxRaw
    /\ raw' = Append(raw, c)
    /\ UNCHANGED <<passed, selected, open_symbols, day_trades, step>>

(* route, the breaker's verdict on each routed signal, evaluate.           *)
SelectSignals ==
    /\ step = "generate"
    /\ \E I \in SUBSET DOMAIN Route(raw) : passed' = Pick(Route(raw), I)
    /\ selected' = EvaluateSignals(passed')
    /\ step' = "selected"
    /\ UNCHANGED <<raw, open_symbols, day_trades>>

(* By the next tick some of the selected are placed and some positions are *)
(* closed; on a new date _maybe_reset_daily begins to count again.         *)
NextTick ==
    /\ step = "selected"
    /\ \E placed \in SUBSET {selected[i].symbol : i \in DOMAIN selected} :
          /\ open_symbols' \in SUBSET (open_symbols \cup placed)
          /\ day_trades' \in {day_trades + Cardinality(placed), 0}
    /\ raw' = <<>> /\ passed' = <<>> /\ selected' = <<>>
    /\ step' = "generate"

SelectionInit ==
    /\ raw = <<>> /\ passed = <<>> /\ selected = <<>>
    /\ open_symbols = {}
    /\ day_trades = 0
    /\ step = "generate"

SelectionNext == (\E c \in Candidates : Generate(c)) \/ SelectSignals \/ NextTick

SelectionSpec == SelectionInit /\ [][SelectionNext]_SelectionVars

-----------------------------------------------------------------------------
SelectionTypeOK ==
    /\ raw \in Seq(Candidates) /\ passed \in Seq(Candidates) /\ selected \in Seq(Candidates)
    /\ open_symbols \subseteq Symbols
    /\ day_trades \in 0..TradeCap
    /\ step \in {"generate", "selected"}

(* What is selected can all be traded: no symbol twice or with a position, *)
(* no two of a correlation group in one direction, the caps respected.     *)
SelectionIsSafe ==
    LET members == DOMAIN selected
    IN  /\ \A i \in members : selected[i].symbol \notin open_symbols
        /\ \A i, j \in members : i # j =>
              selected[i].symbol # selected[j].symbol /\ ~Correlated(selected[i], selected[j])
        /\ Cardinality(open_symbols) + Len(selected) <= PositionCap
        /\ day_trades + Len(selected) <= TradeCap

(* A tradable signal the breaker let through loses its place only to a     *)
(* correlated one at least as confident, or to as many as there are slots. *)
NoneDroppedInVain ==
    step = "selected" =>
       \A i \in DOMAIN passed :
          Tradable(passed[i]) /\ (\A k \in DOMAIN selected : selected[k] # passed[i]) =>
             \/ \E k \in DOMAIN selected : /\ Correlated(selected[k], passed[i])
                                           /\ selected[k].confidence >= passed[i].confidence
             \/ /\ Len(selected) = Slots
                /\ \A k \in DOMAIN selected : selected[k].confidence >= passed[i].confidence
=============================================================================
